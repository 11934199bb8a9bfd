--------------------------- MODULE ShutdownProofs ---------------------------
(***************************************************************************)
(* Of Shutdown, for any number of threads, functions and reconnections: no *)
(* wakeup is lost, and when the program is gone, everything that was       *)
(* pushed has run.                                                         *)
(*                                                                         *)
(* The first half is about ThreadPool: what each of its steps keeps.  The  *)
(* threads that look at the queue and those that are busy are counted as   *)
(* they come and go.                                                       *)
(***************************************************************************)
EXTENDS Shutdown, FiniteSetTheorems, TLAPS

-----------------------------------------------------------------------------
(* The pool *)

\* Who found the queue empty still has the mutex: what was pushed since is not
\* notified yet.
Tested == \A t \in Thread : at[t] = "test" => Len(queue) <= notifying

\* Every function that was pushed is queued, or runs, or has run.
Conserved == pushed = ran + Len(queue) + Cardinality(Busy)

PoolInv == PoolTypeOK /\ WorkConserving /\ Tested /\ Conserved

LEMMA Counts == /\ IsFiniteSet(Looking) /\ Cardinality(Looking) \in Nat
                /\ IsFiniteSet(Busy) /\ Cardinality(Busy) \in Nat
BY FS_Subset, FS_CardinalityType, ThreadAssumption, Looking \subseteq Thread,
   Busy \subseteq Thread DEF Looking, Busy

\* What a thread at x adds to the two counts.
Looks(x) == IF x \in {"pop", "lock"} THEN 1 ELSE 0
Runs(x)  == IF x = "run" THEN 1 ELSE 0

\* One thread that goes to y changes the counts by what it was and what it is.
LEMMA Goes ==
    ASSUME at \in [Thread -> ThreadAt], NEW t \in Thread, NEW y \in ThreadAt,
           at' = [at EXCEPT ![t] = y]
    PROVE  /\ at' \in [Thread -> ThreadAt]
           /\ Cardinality(Looking') = Cardinality(Looking) - Looks(at[t]) + Looks(y)
           /\ Cardinality(Busy') = Cardinality(Busy) - Runs(at[t]) + Runs(y)
<1>1. at' \in [Thread -> ThreadAt]
  OBVIOUS
<1>2. t \in Looking <=> at[t] \in {"pop", "lock"}
  BY DEF Looking
<1>3. Cardinality(Looking') = Cardinality(Looking) - Looks(at[t]) + Looks(y)
  <2>1. CASE y \in {"pop", "lock"}
    <3>1. Looking' = Looking \union {t}
      BY <2>1 DEF Looking
    <3>2. Cardinality(Looking') =
            IF t \in Looking THEN Cardinality(Looking) ELSE Cardinality(Looking) + 1
      BY <3>1, Counts, FS_AddElement
    <3> QED
      BY <2>1, <3>2, <1>2, Counts DEF Looks
  <2>2. CASE y \notin {"pop", "lock"}
    <3>1. Looking' = Looking \ {t}
      BY <2>2 DEF Looking
    <3>2. Cardinality(Looking') =
            IF t \in Looking THEN Cardinality(Looking) - 1 ELSE Cardinality(Looking)
      BY <3>1, Counts, FS_RemoveElement
    <3> QED
      BY <2>2, <3>2, <1>2, Counts DEF Looks
  <2> QED
    BY <2>1, <2>2
<1>4. t \in Busy <=> at[t] = "run"
  BY DEF Busy
<1>5. Cardinality(Busy') = Cardinality(Busy) - Runs(at[t]) + Runs(y)
  <2>1. CASE y = "run"
    <3>1. Busy' = Busy \union {t}
      BY <2>1 DEF Busy
    <3>2. Cardinality(Busy') =
            IF t \in Busy THEN Cardinality(Busy) ELSE Cardinality(Busy) + 1
      BY <3>1, Counts, FS_AddElement
    <3> QED
      BY <2>1, <3>2, <1>4, Counts DEF Runs
  <2>2. CASE y # "run"
    <3>1. Busy' = Busy \ {t}
      BY <2>2 DEF Busy
    <3>2. Cardinality(Busy') =
            IF t \in Busy THEN Cardinality(Busy) - 1 ELSE Cardinality(Busy)
      BY <3>1, Counts, FS_RemoveElement
    <3> QED
      BY <2>2, <3>2, <1>4, Counts DEF Runs
  <2> QED
    BY <2>1, <2>2
<1> QED
  BY <1>1, <1>3, <1>5

LEMMA PoolInitInv == PoolInit => PoolInv
<1> SUFFICES ASSUME PoolInit PROVE PoolInv
  OBVIOUS
<1> USE PushedAssumption DEF PoolInit
<1>1. PoolTypeOK
  <2>1. queue \in Seq(Function) /\ at \in [Thread -> ThreadAt]
    BY DEF ThreadAt
  <2>2. doing \in [Thread -> Function \union {Nothing}]
    OBVIOUS
  <2>3. notifying \in Nat /\ pushed \in 0 .. MaxPushed /\ ran \in Nat
    OBVIOUS
  <2>4. isDone \in BOOLEAN
    OBVIOUS
  <2> QED
    BY <2>1, <2>2, <2>3, <2>4 DEF PoolTypeOK
<1>2. Busy = {} /\ Len(queue) = 0
  BY DEF Busy
<1> QED
  BY <1>1, <1>2, FS_EmptySet, Counts DEF PoolInv, WorkConserving, Tested, Conserved

LEMMA PushKeeps ==
    ASSUME PoolInv, NEW f \in Function, Push(f)
    PROVE  PoolInv'
<1> USE PushedAssumption DEF PoolInv, Push, threadVars
<1>1. queue' \in Seq(Function) /\ Len(queue') = Len(queue) + 1
  BY DEF PoolTypeOK
<1>2. Looking' = Looking /\ Busy' = Busy
  BY DEF Looking, Busy
<1>3. Len(queue) \in Nat /\ notifying \in Nat
  BY DEF PoolTypeOK
<1>4. PoolTypeOK'
  BY <1>1 DEF PoolTypeOK
<1>5. WorkConserving'
  BY <1>1, <1>2, <1>3, Counts DEF WorkConserving
<1>6. Tested'
  BY <1>1, <1>3 DEF Tested
<1>7. Conserved'
  BY <1>1, <1>2, <1>3, Counts DEF Conserved, PoolTypeOK
<1> QED
  BY <1>4, <1>5, <1>6, <1>7

\* Taking a function, whether with the mutex or without.
LEMMA TakeKeeps ==
    ASSUME PoolInv, NEW t \in Thread, at[t] \in {"pop", "lock"}, Take(t),
           UNCHANGED <<notifying, isDone, pushed, ran>>
    PROVE  PoolInv'
<1> USE DEF PoolInv, Take
<1>1. /\ queue' \in Seq(Function) /\ Len(queue') = Len(queue) - 1
      /\ Head(queue) \in Function /\ Len(queue) \in Nat \ {0}
  BY DEF PoolTypeOK
<1>2. /\ Cardinality(Looking') = Cardinality(Looking) - 1
      /\ Cardinality(Busy') = Cardinality(Busy) + 1
      /\ at' \in [Thread -> ThreadAt]
  <2>1. at \in [Thread -> ThreadAt] /\ "run" \in ThreadAt
    BY DEF PoolTypeOK, ThreadAt
  <2>2. /\ at' \in [Thread -> ThreadAt]
        /\ Cardinality(Looking') = Cardinality(Looking) - Looks(at[t]) + Looks("run")
        /\ Cardinality(Busy') = Cardinality(Busy) - Runs(at[t]) + Runs("run")
    BY <2>1, Goes
  <2> QED
    BY <2>2, Counts DEF Looks, Runs
<1>3. notifying \in Nat
  BY DEF PoolTypeOK
<1>4. PoolTypeOK'
  BY <1>1, <1>2 DEF PoolTypeOK
<1>5. \A u \in Thread : at'[u] # "run" => at[u] = at'[u]
  BY DEF PoolTypeOK
<1>6. WorkConserving'
  BY <1>1, <1>2, <1>3, <1>5, Counts DEF WorkConserving
<1>7. Tested'
  BY <1>1, <1>3, <1>5 DEF Tested
<1>8. Conserved'
  BY <1>1, <1>2, Counts DEF Conserved, PoolTypeOK
<1> QED
  BY <1>4, <1>6, <1>7, <1>8

\* A thread that goes anywhere while the queue is empty.
LEMMA EmptyKeeps ==
    ASSUME PoolInv, NEW t \in Thread, NEW y \in ThreadAt \ {"run"}, at[t] # "run",
           queue = <<>>, at' = [at EXCEPT ![t] = y],
           UNCHANGED <<doing, queue, notifying, isDone, pushed, ran>>
    PROVE  PoolInv'
<1> USE DEF PoolInv
<1>1. /\ Cardinality(Busy') = Cardinality(Busy)
      /\ at' \in [Thread -> ThreadAt]
  <2>1. at \in [Thread -> ThreadAt]
    BY DEF PoolTypeOK
  <2>2. /\ at' \in [Thread -> ThreadAt]
        /\ Cardinality(Busy') = Cardinality(Busy) - Runs(at[t]) + Runs(y)
    BY <2>1, Goes
  <2> QED
    BY <2>2, Counts DEF Runs
<1>2. Len(queue') = 0 /\ Len(queue) = 0 /\ notifying' \in Nat
  BY DEF PoolTypeOK
<1>3. PoolTypeOK'
  BY <1>1 DEF PoolTypeOK
<1>4. Cardinality(Looking') \in Nat
  BY FS_Subset, FS_CardinalityType, ThreadAssumption, Looking' \subseteq Thread
  DEF Looking
<1>5. WorkConserving' /\ Tested'
  BY <1>2, <1>4 DEF WorkConserving, Tested
<1>6. Conserved'
  BY <1>1, <1>2 DEF Conserved
<1> QED
  BY <1>3, <1>5, <1>6

LEMMA PopKeeps == ASSUME PoolInv, NEW t \in Thread, Pop(t) PROVE PoolInv'
<1>1. CASE Take(t)
  BY <1>1, TakeKeeps DEF Pop
<1>2. CASE ~Take(t)
  BY <1>2, EmptyKeeps DEF Pop, ThreadAt
<1> QED
  BY <1>1, <1>2

LEMMA LockKeeps == ASSUME PoolInv, NEW t \in Thread, Lock(t) PROVE PoolInv'
<1>1. CASE Take(t)
  BY <1>1, TakeKeeps DEF Lock
<1>2. CASE ~Take(t)
  BY <1>2, EmptyKeeps DEF Lock, ThreadAt
<1> QED
  BY <1>1, <1>2

LEMMA RunKeeps == ASSUME PoolInv, NEW t \in Thread, Run(t) PROVE PoolInv'
<1> USE DEF PoolInv, Run
<1>1. /\ Cardinality(Looking') = Cardinality(Looking) + 1
      /\ Cardinality(Busy') = Cardinality(Busy) - 1
      /\ at' \in [Thread -> ThreadAt]
  <2>1. at \in [Thread -> ThreadAt] /\ "pop" \in ThreadAt
    BY DEF PoolTypeOK, ThreadAt
  <2>2. /\ at' \in [Thread -> ThreadAt]
        /\ Cardinality(Looking') = Cardinality(Looking) - Looks(at[t]) + Looks("pop")
        /\ Cardinality(Busy') = Cardinality(Busy) - Runs(at[t]) + Runs("pop")
    BY <2>1, Goes
  <2> QED
    BY <2>2, Counts DEF Looks, Runs
<1>2. Len(queue) \in Nat /\ notifying \in Nat /\ ran \in Nat
  BY DEF PoolTypeOK
<1>3. \A u \in Thread : at'[u] # "pop" => at[u] = at'[u]
  BY DEF PoolTypeOK
<1>4. PoolTypeOK'
  BY <1>1 DEF PoolTypeOK
<1>5. WorkConserving'
  BY <1>1, <1>2, <1>3, Counts DEF WorkConserving
<1>6. Tested'
  BY <1>3 DEF Tested
<1>7. Conserved'
  BY <1>1, <1>2, Counts DEF Conserved, PoolTypeOK
<1> QED
  BY <1>4, <1>5, <1>6, <1>7

\* A thread is woken: there is one more that will look.
LEMMA WakeKeeps ==
    ASSUME PoolInv, NEW t \in Thread, at[t] = "wait", at' = [at EXCEPT ![t] = "lock"],
           \/ notifying' = notifying
           \/ notifying' = notifying - 1 /\ notifying > 0 /\ MutexFree,
           UNCHANGED <<doing, queue, isDone, pushed, ran>>
    PROVE  PoolInv'
<1> USE DEF PoolInv
<1>1. /\ Cardinality(Looking') = Cardinality(Looking) + 1
      /\ Cardinality(Busy') = Cardinality(Busy)
      /\ at' \in [Thread -> ThreadAt]
  <2>1. at \in [Thread -> ThreadAt] /\ "lock" \in ThreadAt
    BY DEF PoolTypeOK, ThreadAt
  <2>2. /\ at' \in [Thread -> ThreadAt]
        /\ Cardinality(Looking') = Cardinality(Looking) - Looks(at[t]) + Looks("lock")
        /\ Cardinality(Busy') = Cardinality(Busy) - Runs(at[t]) + Runs("lock")
    BY <2>1, Goes
  <2> QED
    BY <2>2, Counts DEF Looks, Runs
<1>2. Len(queue) \in Nat /\ notifying \in Nat /\ notifying' \in Nat
  BY DEF PoolTypeOK
<1>3. PoolTypeOK'
  BY <1>1, <1>2 DEF PoolTypeOK
<1>4. WorkConserving'
  BY <1>1, <1>2, Counts DEF WorkConserving
<1>5. Tested'
  BY DEF Tested, PoolTypeOK, MutexFree
<1>6. Conserved'
  BY <1>1 DEF Conserved
<1> QED
  BY <1>3, <1>4, <1>5, <1>6

LEMMA NotifyKeeps == ASSUME PoolInv, Notify PROVE PoolInv'
<1>1. CASE \E t \in Thread : at[t] = "wait" /\ at' = [at EXCEPT ![t] = "lock"]
  BY <1>1, WakeKeeps DEF Notify
<1>2. CASE (\A t \in Thread : at[t] # "wait") /\ at' = at
  <2>1. Looking' = Looking /\ Busy' = Busy
    BY <1>2 DEF Looking, Busy
  <2>2. PoolTypeOK' /\ WorkConserving'
    BY <1>2 DEF Notify, PoolInv, PoolTypeOK, WorkConserving
  <2>3. Tested' /\ Conserved'
    BY <1>2, <2>1 DEF Notify, PoolInv, Tested, Conserved, MutexFree
  <2> QED
    BY <2>2, <2>3 DEF PoolInv
<1> QED
  BY <1>1, <1>2 DEF Notify

LEMMA WakeSpuriouslyKeeps ==
    ASSUME PoolInv, NEW t \in Thread, WakeSpuriously(t) PROVE PoolInv'
BY WakeKeeps DEF WakeSpuriously

\* Going to sleep with the mutex: only what is not notified yet can be queued.
LEMMA TestKeeps == ASSUME PoolInv, NEW t \in Thread, Test(t) PROVE PoolInv'
<1> DEFINE y == IF isDone THEN "ended" ELSE "wait"
<1> USE DEF PoolInv, Test
<1>1. /\ Cardinality(Looking') = Cardinality(Looking)
      /\ Cardinality(Busy') = Cardinality(Busy)
      /\ at' \in [Thread -> ThreadAt]
  <2>1. at \in [Thread -> ThreadAt] /\ y \in ThreadAt
    BY DEF PoolTypeOK, ThreadAt
  <2>2. /\ at' \in [Thread -> ThreadAt]
        /\ Cardinality(Looking') = Cardinality(Looking) - Looks(at[t]) + Looks(y)
        /\ Cardinality(Busy') = Cardinality(Busy) - Runs(at[t]) + Runs(y)
    BY <2>1, Goes
  <2> QED
    BY <2>2, Counts DEF Looks, Runs
<1>2. Len(queue) <= notifying /\ Len(queue) \in Nat /\ notifying \in Nat
  BY DEF Tested, PoolTypeOK
<1>3. PoolTypeOK'
  BY <1>1 DEF PoolTypeOK
<1>4. WorkConserving'
  BY <1>1, <1>2, Counts DEF WorkConserving
<1>5. Tested' /\ Conserved'
  BY <1>1, <1>2 DEF Tested, Conserved
<1> QED
  BY <1>3, <1>4, <1>5

LEMMA SetDoneKeeps == ASSUME PoolInv, SetDone PROVE PoolInv'
BY DEF SetDone, threadVars, PoolInv, PoolTypeOK, WorkConserving, Tested, Conserved,
       Looking, Busy

LEMMA NotifyAllKeeps == ASSUME PoolInv, NotifyAll PROVE PoolInv'
<1> USE DEF PoolInv, NotifyAll
<1>1. PoolTypeOK'
  BY DEF PoolTypeOK, ThreadAt
<1>2. Busy' = Busy
  BY DEF Busy, PoolTypeOK
<1>3. WorkConserving'
  BY DEF WorkConserving, PoolTypeOK
<1>4. Tested'
  BY DEF Tested, MutexFree, PoolTypeOK
<1> QED
  BY <1>1, <1>2, <1>3, <1>4 DEF Conserved

-----------------------------------------------------------------------------
(* The shutdown *)

\* The main thread has joined the recurring threads, and the endpoint's.
JoinedRecurring == main \notin {"console", "join"}
                       => manager = "ended" /\ trader = "ended"
JoinedEndpoint  == main \in {"stop", "notify", "threads", "exited"}
                       => endpoint = "ended"

\* A thread of the endpoint ends with no handler under way.
EndpointQuiet == endpoint = "ended" => notifying = 0

DoneIsLate == isDone => main \in {"notify", "threads", "exited"}

\* A thread of the pool ends with nothing left to do, and nothing is pushed then.
EndedEmpty == (\E t \in Thread : at[t] = "ended") => isDone /\ queue = <<>>

ExitedJoined == main = "exited" => \A t \in Thread : at[t] = "ended"

ShutdownInv == /\ TypeOK /\ PoolInv
               /\ JoinedRecurring /\ JoinedEndpoint /\ EndpointQuiet
               /\ DoneIsLate /\ EndedEmpty /\ ExitedJoined

LEMMA ShutdownInitInv == Init => ShutdownInv
<1> SUFFICES ASSUME Init PROVE ShutdownInv
  OBVIOUS
<1>1. PoolInv
  BY PoolInitInv DEF Init
<1>2. TypeOK
  <2>1. /\ PoolTypeOK /\ notifying = 0
        /\ main \in MainAt /\ destroyed \subseteq Member
        /\ reconnects \in 0 .. MaxReconnects
    BY <1>1, ReconnectsAssumption DEF Init, PoolInit, PoolInv, MainAt
  <2>2. /\ done \in BOOLEAN /\ perpetual \in BOOLEAN /\ subscribed \in BOOLEAN
    BY DEF Init
  <2> QED
    BY <2>1, <2>2 DEF Init, TypeOK
<1>3. EndedEmpty
  BY DEF Init, PoolInit, EndedEmpty
<1> QED
  BY <1>1, <1>2, <1>3 DEF Init, PoolInit, ShutdownInv, JoinedRecurring,
     JoinedEndpoint, EndpointQuiet, DoneIsLate, ExitedJoined

\* A step that leaves the pool alone.
LEMMA PoolSame == ASSUME PoolInv, UNCHANGED poolVars PROVE PoolInv'
BY DEF poolVars, PoolInv, PoolTypeOK, WorkConserving, Tested, Conserved, Looking, Busy

LEMMA MainKeeps == ASSUME ShutdownInv, Quit \/ Main PROVE ShutdownInv'
<1> USE DEF ShutdownInv
<1>1. CASE UNCHANGED poolVars
  <2>1. PoolInv'
    BY <1>1, PoolSame
  <2>2. TypeOK'
    <3>1. /\ main' \in MainAt /\ destroyed' \subseteq Member
          /\ done' \in BOOLEAN /\ perpetual' \in BOOLEAN
          /\ net' \in {"none", "connecting", "open", "closing"}
      BY DEF TypeOK, Quit, Main, JoinRecurring, DestroyMembers, Destroy, StopPerpetual,
             CloseIfOpen, JoinEndpoint, DestroyPool, StopPool, MainAt, Member, wsVars
    <3>2. UNCHANGED <<manager, trader, status, endpoint, subscribed, reconnects>>
      BY DEF Quit, Main, JoinRecurring, DestroyMembers, Destroy, StopPerpetual,
             CloseIfOpen, JoinEndpoint, DestroyPool, StopPool, wsVars
    <3> QED
      BY <1>1, <2>1, <3>1, <3>2 DEF TypeOK, PoolInv, poolVars
  <2>3. /\ JoinedRecurring' /\ JoinedEndpoint' /\ EndpointQuiet'
    BY <1>1 DEF Quit, Main, JoinRecurring, DestroyMembers, Destroy, StopPerpetual,
           CloseIfOpen, JoinEndpoint, DestroyPool, StopPool, wsVars, poolVars,
           JoinedRecurring, JoinedEndpoint, EndpointQuiet
  <2>4. CASE Quit \/ JoinRecurring \/ DestroyMembers \/ StopPerpetual \/ CloseIfOpen
             \/ JoinEndpoint
    <3>1. main \notin {"notify", "threads", "exited"}
          /\ main' # "exited"
      BY <2>4 DEF Quit, JoinRecurring, DestroyMembers, Destroy, StopPerpetual,
             CloseIfOpen, JoinEndpoint
    <3> QED
      BY <1>1, <2>1, <2>2, <2>3, <3>1 DEF DoneIsLate, EndedEmpty, ExitedJoined, poolVars
  <2>5. CASE DestroyPool
    BY <1>1, <2>1, <2>2, <2>3, <2>5
    DEF DestroyPool, StopPool, SetDone, NotifyAll, JoinThreads, DoneIsLate, EndedEmpty,
        ExitedJoined, poolVars, threadVars
  <2> QED
    BY <2>4, <2>5 DEF Quit, Main
<1>2. CASE ~UNCHANGED poolVars
  <2>1. DestroyPool
    BY <1>2 DEF Quit, Main, JoinRecurring, DestroyMembers, Destroy, StopPerpetual,
         CloseIfOpen, JoinEndpoint
  <2>2. PoolInv'
    <3>1. CASE SetDone
      BY <3>1, SetDoneKeeps
    <3>2. CASE NotifyAll
      BY <3>2, NotifyAllKeeps
    <3>3. CASE main = "threads" /\ JoinThreads
      <4>1. PICK t \in Thread : at[t] = "ended"
        BY <3>3, ThreadAssumption DEF JoinThreads
      <4>2. queue' = queue
        BY <3>3, <4>1 DEF JoinThreads, EndedEmpty
      <4> QED
        BY <3>3, <4>2, PoolSame DEF JoinThreads, poolVars, threadVars
    <3> QED
      BY <2>1, <3>1, <3>2, <3>3 DEF DestroyPool, StopPool
  <2>3. TypeOK'
    <3>1. main' \in MainAt /\ notifying' = notifying
      BY <2>1 DEF DestroyPool, StopPool, MainAt, SetDone, NotifyAll, JoinThreads
    <3> QED
      BY <2>1, <2>2, <3>1 DEF DestroyPool, StopPool, TypeOK, PoolInv, wsVars
  <2>4. JoinedRecurring' /\ JoinedEndpoint' /\ EndpointQuiet'
    BY <2>1 DEF DestroyPool, StopPool, SetDone, NotifyAll, JoinThreads, wsVars,
         JoinedRecurring, JoinedEndpoint, EndpointQuiet
  <2>5. DoneIsLate' /\ ExitedJoined'
    BY <2>1 DEF DestroyPool, StopPool, SetDone, NotifyAll, JoinThreads, threadVars,
         DoneIsLate, ExitedJoined
  <2>6. EndedEmpty'
    <3>1. CASE SetDone
      BY <3>1 DEF SetDone, threadVars, EndedEmpty
    <3>2. CASE NotifyAll
      BY <3>2 DEF NotifyAll, EndedEmpty, TypeOK, PoolTypeOK
    <3>3. CASE JoinThreads
      BY <3>3 DEF JoinThreads, threadVars, EndedEmpty
    <3> QED
      BY <2>1, <3>1, <3>2, <3>3 DEF DestroyPool
  <2> QED
    BY <2>2, <2>3, <2>4, <2>5, <2>6
<1> QED
  BY <1>1, <1>2

LEMMA RecurringKeeps ==
    ASSUME ShutdownInv, ConnectionThread \/ PositionThread PROVE ShutdownInv'
<1> USE DEF ShutdownInv
<1>1. UNCHANGED poolVars /\ UNCHANGED mainVars
  BY DEF ConnectionThread, SetUp, NextRound, Check, Reconnect, PositionThread,
         LeaveWait, EndPass, NextPass
<1>2. PoolInv'
  BY <1>1, PoolSame
<1>3. TypeOK'
  <2>1. CASE ConnectionThread
    <3>1. reconnects' \in 0 .. MaxReconnects
      BY <2>1, ReconnectsAssumption
      DEF ConnectionThread, SetUp, NextRound, Check, Reconnect, TypeOK
    <3>2. /\ manager' \in {"setup", "asleep", "check", "reconnect", "ended"}
          /\ status' \in {"Open", "Closed", "Failed", "Connecting"}
          /\ net' \in {"none", "connecting", "open", "closing"}
          /\ endpoint' \in {"none", "running", "ended"} /\ subscribed' \in BOOLEAN
          /\ trader' = trader
      BY <2>1 DEF ConnectionThread, SetUp, NextRound, Check, Reconnect, TypeOK, wsVars
    <3> QED
      BY <1>1, <1>2, <3>1, <3>2 DEF TypeOK, PoolInv, poolVars, mainVars
  <2>2. CASE PositionThread
    BY <1>1, <1>2, <2>2
    DEF PositionThread, LeaveWait, EndPass, NextPass, TypeOK, PoolInv, poolVars,
        mainVars, wsVars
  <2> QED
    BY <2>1, <2>2
<1>4. JoinedRecurring' /\ JoinedEndpoint' /\ EndpointQuiet'
  BY <1>1 DEF ConnectionThread, SetUp, NextRound, Check, Reconnect, PositionThread,
         LeaveWait, EndPass, NextPass, mainVars, wsVars, poolVars, JoinedRecurring,
         JoinedEndpoint, EndpointQuiet
<1>5. DoneIsLate' /\ EndedEmpty' /\ ExitedJoined'
  BY <1>1 DEF mainVars, poolVars, DoneIsLate, EndedEmpty, ExitedJoined
<1> QED
  BY <1>2, <1>3, <1>4, <1>5

LEMMA EndpointKeeps == ASSUME ShutdownInv, Endpoint PROVE ShutdownInv'
<1> USE DEF ShutdownInv
<1>1. Handles /\ UNCHANGED <<mainVars, manager, trader, reconnects>>
  BY DEF Endpoint, OnOpen, OnFail, OnMessage, OnClose, EndpointEnds
<1>2. \/ UNCHANGED poolVars
      \/ endpoint' = endpoint /\ \E f \in Function : Push(f)
  BY FunctionAssumption
  DEF Endpoint, OnOpen, OnFail, OnMessage, OnClose, EndpointEnds, wsVars
<1>3. PoolInv'
  BY <1>2, PoolSame, PushKeeps
<1>4. notifying' \in 0 .. 1 /\ at' = at /\ isDone' = isDone
  BY <1>1, <1>2 DEF Handles, Push, poolVars, threadVars
<1>5. TypeOK'
  <2>1. /\ net' \in {"none", "connecting", "open", "closing"}
        /\ status' \in {"Open", "Closed", "Failed", "Connecting"}
        /\ endpoint' \in {"none", "running", "ended"} /\ subscribed' \in BOOLEAN
    BY DEF Endpoint, OnOpen, OnFail, OnMessage, OnClose, EndpointEnds, TypeOK, wsVars
  <2> QED
    BY <1>1, <1>3, <1>4, <2>1 DEF TypeOK, PoolInv, mainVars
<1>6. JoinedRecurring' /\ JoinedEndpoint' /\ EndpointQuiet'
  BY <1>1, <1>2 DEF Handles, mainVars, poolVars, JoinedRecurring, JoinedEndpoint,
     EndpointQuiet
<1>7. DoneIsLate' /\ ExitedJoined'
  BY <1>1, <1>4 DEF mainVars, DoneIsLate, ExitedJoined
<1>8. ~isDone
  BY <1>1 DEF Handles, DoneIsLate, JoinedEndpoint
<1>9. EndedEmpty'
  BY <1>4, <1>8 DEF EndedEmpty
<1> QED
  BY <1>3, <1>5, <1>6, <1>7, <1>9

LEMMA PoolKeeps == ASSUME ShutdownInv, Pool PROVE ShutdownInv'
<1> USE DEF ShutdownInv
<1>1. UNCHANGED <<mainVars, manager, trader, status, net, endpoint, reconnects>>
  BY DEF Pool, PoolStep, Subscribes, Others, wsVars
<1>2. /\ subscribed' \in BOOLEAN
      /\ \/ Notify
         \/ \E t \in Thread : \/ Run(t) \/ Pop(t) \/ Lock(t) \/ Test(t)
                              \/ WakeSpuriously(t)
  BY DEF Pool, PoolStep, Subscribes, Others, wsVars, TypeOK
<1>3. PoolInv'
  BY <1>2, NotifyKeeps, RunKeeps, PopKeeps, LockKeeps, TestKeeps, WakeSpuriouslyKeeps
<1>4. notifying' \in {notifying, notifying - 1} /\ isDone' = isDone
      /\ (notifying = 0 => notifying' = 0)
  BY <1>2 DEF Notify, Run, Pop, Lock, Test, WakeSpuriously, TypeOK, PoolTypeOK
<1>5. TypeOK'
  BY <1>1, <1>2, <1>3, <1>4 DEF TypeOK, PoolTypeOK, PoolInv, mainVars
<1>6. JoinedRecurring' /\ JoinedEndpoint' /\ EndpointQuiet' /\ DoneIsLate'
  BY <1>1, <1>4 DEF mainVars, JoinedRecurring, JoinedEndpoint, EndpointQuiet, DoneIsLate
<1>7. \A t \in Thread : at[t] = "ended" => at'[t] = "ended"
  BY <1>2 DEF Notify, Run, Pop, Take, Lock, Test, WakeSpuriously, TypeOK, PoolTypeOK
<1>8. ExitedJoined'
  BY <1>1, <1>7 DEF mainVars, ExitedJoined
<1>9. EndedEmpty'
  <2> SUFFICES ASSUME NEW u \in Thread, at'[u] = "ended" PROVE isDone' /\ queue' = <<>>
    BY DEF EndedEmpty
  <2>1. CASE at[u] = "ended"
    BY <1>2, <1>4, <2>1
    DEF EndedEmpty, Notify, Run, Pop, Take, Lock, Test, WakeSpuriously
  <2>2. CASE at[u] # "ended"
    <3>1. Test(u) /\ isDone
      BY <1>2, <2>2 DEF Notify, Run, Pop, Take, Lock, Test, WakeSpuriously, TypeOK,
                       PoolTypeOK
    <3>2. notifying = 0
      BY <3>1 DEF DoneIsLate, JoinedEndpoint, EndpointQuiet
    <3>3. Len(queue) <= 0
      BY <3>1, <3>2 DEF Test, PoolInv, Tested
    <3> QED
      BY <1>4, <3>1, <3>3 DEF Test, TypeOK, PoolTypeOK
  <2> QED
    BY <2>1, <2>2
<1> QED
  BY <1>3, <1>5, <1>6, <1>8, <1>9

LEMMA ShutdownStep == ShutdownInv /\ [Next]_vars => ShutdownInv'
<1> SUFFICES ASSUME ShutdownInv, [Next]_vars PROVE ShutdownInv'
  OBVIOUS
<1>1. CASE UNCHANGED vars
  <2>1. PoolInv'
    BY <1>1, PoolSame DEF vars, ShutdownInv
  <2> QED
    BY <1>1, <2>1 DEF vars, poolVars, mainVars, wsVars, ShutdownInv, TypeOK, PoolInv,
       JoinedRecurring, JoinedEndpoint, EndpointQuiet, DoneIsLate, EndedEmpty,
       ExitedJoined
<1> QED
  BY <1>1, MainKeeps, RecurringKeeps, EndpointKeeps, PoolKeeps DEF Next, Exited

LEMMA ShutdownAlways == Spec => []ShutdownInv
BY ShutdownInitInv, ShutdownStep, PTL DEF Spec

-----------------------------------------------------------------------------

\* Every variable keeps its type, and no two handlers push at once.
THEOREM ShutdownType == Spec => []TypeOK
BY ShutdownAlways, PTL DEF ShutdownInv

\* However many threads the pool has, a function waits in its queue only as long as
\* all of them are busy, or one is about to look, or about to be woken.
THEOREM NoLostWakeup == Spec => []WorkConserving
<1>1. ShutdownInv => WorkConserving
  BY DEF ShutdownInv, PoolInv
<1> QED
  BY <1>1, ShutdownAlways, PTL

\* When main() has returned, every function that was pushed has run: the destructor
\* of the pool joins threads that have found its queue empty.
THEOREM AllServed == Spec => []QueueServed
<1>1. ShutdownInv => QueueServed
  <2> SUFFICES ASSUME ShutdownInv, main = "exited" PROVE ran = pushed
    BY DEF QueueServed
  <2>1. PICK t \in Thread : at[t] = "ended"
    BY ThreadAssumption DEF ShutdownInv, ExitedJoined
  <2>2. queue = <<>>
    BY <2>1 DEF ShutdownInv, EndedEmpty
  <2>3. Busy = {}
    BY DEF ShutdownInv, ExitedJoined, Busy
  <2> QED
    BY <2>2, <2>3, FS_EmptySet
    DEF ShutdownInv, PoolInv, Conserved, PoolTypeOK
<1> QED
  BY <1>1, ShutdownAlways, PTL

=============================================================================
