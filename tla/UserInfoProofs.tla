--------------------------- MODULE UserInfoProofs ---------------------------
(***************************************************************************)
(* Of UserInfo, for any number of calls and of threads: an answer is used  *)
(* at most once, and only by its own call or by one that could not know it *)
(* was to come; a write is lost only for a call that ran into its deadline;*)
(* and a deadline drops no answer to a later request.                      *)
(***************************************************************************)
EXTENDS UserInfo, FiniteSetTheorems, TLAPS

\* The request of a call has not been sent.
Unasked(n) == n > called \/ (n = frame /\ ~asked)

Queued(n) == \E i \in 1 .. Len(inbox) : inbox[i].call = n

\* An answer is in one place only, and nowhere before its request was sent.
OnePlace ==
    /\ \A i, j \in 1 .. Len(inbox) : inbox[i].call = inbox[j].call => i = j
    /\ \A n \in Call : Queued(n) => n \notin requests /\ handler[n] = "none"
    /\ \A n \in requests : handler[n] = "none"
    /\ \A n \in Call : Unasked(n) =>
          n \notin requests /\ handler[n] = "none" /\ ~Queued(n)

\* A callback writes once, at its end, for its own call or a later one.
WriteLast ==
    \A n \in Call : /\ wrote[n] # "none" => handler[n] \in {"erase", "ended"}
                    /\ handler[n] = "write" => target[n] \in n .. called

Arrived(n) == wrote[n] \in {"own", "hit"}

\* What a call holds or has returned, a callback has written; and the live call holds
\* something from the moment its own answer is written.
HeldWritten == /\ info # 0 => Arrived(info)
               /\ \A n \in Call : returned[n] # 0 => Arrived(returned[n])
               /\ frame # 0 /\ wrote[frame] # "none" => info # 0

\* No two calls return one answer, and no call returns what is held now.
UsedOnce ==
    /\ \A i, j \in Finished : returned[i] = returned[j] /\ returned[i] # 0 => i = j
    /\ info # 0 => \A n \in Finished : returned[n] # info

\* An answer still to come is that to the live call, or one of the older ones.
OlderPending == frame # 0 => \A n \in Call : Pending(n) => n = frame \/ n \in older
OlderHeld    == info # 0 => info = frame \/ info \in older

\* The callback installed is that of the last call.
OwnCallback == callback = called

\* The deadline that is stored is no earlier than that of any request sent.
LastDeadline == timeout # 0 => \A n \in 1 .. called : Unasked(n) \/ n <= timeout

OwnSoFar == TimedOut = {} => /\ \A n \in Finished : returned[n] = n
                             /\ info \in {0, frame}
                             /\ \A n \in Call : wrote[n] \in {"none", "own"}

IInv == /\ TypeOK /\ OnePlace /\ WriteLast /\ HeldWritten /\ UsedOnce
        /\ OlderPending /\ OlderHeld /\ OwnCallback /\ LastDeadline /\ OwnSoFar

LEMMA InitInv == Init => IInv
<1> SUFFICES ASSUME Init PROVE IInv
  OBVIOUS
<1> USE CallsAssumption DEF Init
<1>1. Finished = {} /\ Len(inbox) = 0
  BY DEF Finished
<1>2. \A n \in Call : ~Pending(n)
  BY <1>1 DEF Pending
<1>3. TypeOK
  <2>1. inbox \in Seq(Answer)
    OBVIOUS
  <2>2. asked \in BOOLEAN
    OBVIOUS
  <2> QED
    BY <2>1, <2>2 DEF TypeOK, HandlerAt, Effect, Call
<1>4. OnePlace
  BY <1>1 DEF OnePlace, Queued
<1> QED
  BY <1>1, <1>3, <1>4 DEF IInv, WriteLast, HeldWritten, UsedOnce, OlderPending,
     OlderHeld, OwnCallback, LastDeadline, OwnSoFar

\* Of a call whose request is not sent, no answer is pending or written.
LEMMA UnaskedIsUnknown ==
    ASSUME IInv, NEW n \in Call, Unasked(n)
    PROVE  ~Pending(n) /\ wrote[n] = "none"
BY DEF IInv, OnePlace, WriteLast, Pending, Queued

LEMMA InstallKeeps == ASSUME IInv, Install PROVE IInv'
<1> USE CallsAssumption DEF IInv, Install, poolVars
<1>1. called + 1 \in Call /\ Unasked(called + 1) /\ called \in Nat
  BY DEF Unasked, TypeOK, Call
<1>2. older' \subseteq 1 .. called
  BY UnaskedIsUnknown, SMTT(30) DEF TypeOK, Call, Unasked
<1>3. TypeOK'
  BY <1>2 DEF TypeOK, Call
<1>4. \A n \in Call : Unasked(n)' => Unasked(n)
  BY DEF Unasked, TypeOK, Call
<1>5. OnePlace'
  BY <1>4 DEF OnePlace, Queued
<1>6. WriteLast' /\ OwnCallback'
  BY DEF WriteLast, OwnCallback, TypeOK, Call
<1>7. HeldWritten'
  <2>1. wrote[called + 1] = "none"
    BY <1>1, UnaskedIsUnknown
  <2> QED
    BY <2>1 DEF HeldWritten, Arrived
<1>8. LastDeadline'
  <2>1. ASSUME NEW n \in 1 .. called', timeout # 0 PROVE Unasked(n)' \/ n <= timeout
    <3>1. CASE n = called + 1
      BY <3>1 DEF Unasked, TypeOK
    <3>2. CASE n \in 1 .. called
      <4>1. Unasked(n) \/ n <= timeout
        BY <2>1, <3>2 DEF LastDeadline
      <4>2. ~Unasked(n)
        BY <1>1, <3>2 DEF Unasked
      <4> QED
        BY <4>1, <4>2
    <3> QED
      BY <1>1, <3>1, <3>2
  <2> QED
    BY <2>1 DEF LastDeadline
<1>9. Finished' = Finished /\ TimedOut' = TimedOut
  BY DEF Finished, TimedOut, TypeOK
<1>10. UsedOnce' /\ OwnSoFar' /\ OlderHeld'
  BY <1>9 DEF UsedOnce, OwnSoFar, OlderHeld
<1>11. OlderPending'
  BY DEF OlderPending, Pending
<1> QED
  BY <1>3, <1>5, <1>6, <1>7, <1>8, <1>10, <1>11

LEMMA AskKeeps == ASSUME IInv, Ask PROVE IInv'
<1> USE CallsAssumption DEF IInv, Ask, poolVars
<1>1. TypeOK'
  BY DEF TypeOK, Call
<1>2. /\ frame \in Call /\ frame = called /\ Unasked(frame)
      /\ \A n \in Call : Unasked(n)' => Unasked(n) /\ n # frame
      /\ \A n \in Call : Queued(n)' = Queued(n)
  BY DEF TypeOK, Call, Unasked, Queued
<1>3. OnePlace'
  BY <1>2 DEF OnePlace
<1>4. WriteLast' /\ HeldWritten' /\ OwnCallback' /\ OlderHeld'
  BY DEF WriteLast, HeldWritten, Arrived, OwnCallback, OlderHeld
<1>5. LastDeadline'
  BY DEF LastDeadline, Unasked, TypeOK
<1>6. Finished' = Finished /\ TimedOut' = TimedOut
  BY DEF Finished, TimedOut
<1>7. UsedOnce' /\ OwnSoFar'
  BY <1>6 DEF UsedOnce, OwnSoFar
<1>8. OlderPending'
  BY DEF OlderPending, Pending
<1> QED
  BY <1>1, <1>3, <1>4, <1>5, <1>7, <1>8

LEMMA ReturnKeeps == ASSUME IInv, Return PROVE IInv'
<1> USE CallsAssumption DEF IInv, Return, poolVars
<1>1. frame \in Call /\ frame = called
  BY DEF TypeOK, Call
<1>2. TypeOK'
  <2>1. (IF Past(frame) THEN 0 ELSE info) \in 0 .. called
    BY DEF TypeOK
  <2>2. returned' \in [Call -> 0 .. called]
    BY <2>1 DEF TypeOK
  <2>3. asked' \in BOOLEAN /\ older' \subseteq 1 .. called' - 1
    OBVIOUS
  <2> QED
    BY <2>2, <2>3 DEF TypeOK
<1>3. OnePlace' /\ WriteLast'
  BY DEF OnePlace, WriteLast, Queued, Unasked, Call
<1>4. HeldWritten'
  BY <1>1 DEF HeldWritten, Arrived, TypeOK
<1>5. LastDeadline'
  BY <1>1 DEF LastDeadline, Unasked
<1>6. Finished' = Finished \union {frame} /\ frame \notin Finished
  BY <1>1 DEF Finished, Call
<1>7. /\ \A n \in Finished : returned'[n] = returned[n]
      /\ returned'[frame] \in {0, info}
  BY <1>1, <1>6 DEF TypeOK
<1>8. UsedOnce'
  <2>1. ASSUME NEW i \in Finished', NEW j \in Finished',
               returned'[i] = returned'[j], returned'[i] # 0
        PROVE  i = j
    BY <1>6, <1>7, <2>1 DEF UsedOnce
  <2> QED
    BY <2>1 DEF UsedOnce
<1>9. OwnSoFar'
  <2> SUFFICES ASSUME TimedOut' = {}
               PROVE  /\ \A n \in Finished' : returned'[n] = n
                      /\ \A n \in Call : wrote[n] \in {"none", "own"}
    BY DEF OwnSoFar
  <2>1. TimedOut = {}
    BY <1>6, <1>7 DEF TimedOut
  <2>2. returned'[frame] # 0
    BY <1>6 DEF TimedOut
  <2>3. returned'[frame] = frame
    BY <1>7, <2>1, <2>2 DEF OwnSoFar
  <2> QED
    BY <1>6, <1>7, <2>1, <2>3 DEF OwnSoFar
<1> QED
  BY <1>2, <1>3, <1>4, <1>5, <1>8, <1>9 DEF OwnCallback, OlderPending, OlderHeld

LEMMA DeadlineKeeps == ASSUME IInv, DeadlinePasses PROVE IInv'
<1> USE DEF IInv, DeadlinePasses, callVars, poolVars
<1>1. TypeOK'
  BY DEF TypeOK
<1>2. /\ Finished' = Finished /\ TimedOut' = TimedOut
      /\ \A n \in Call : Pending(n)' = Pending(n)
  BY DEF Finished, TimedOut, Pending
<1> QED
  BY <1>1, <1>2 DEF OnePlace, Queued, Unasked, WriteLast, HeldWritten, Arrived,
     UsedOnce, OlderPending, OlderHeld, OwnCallback, LastDeadline, OwnSoFar

\* Taking an answer out of the inbox, to be handled or dropped.
LEMMA TakeKeeps ==
    ASSUME IInv, inbox # <<>>, inbox' = Tail(inbox), NEW h \in {"call", "erase", "ended"},
           handler' = [handler EXCEPT ![Head(inbox).call] = h],
           UNCHANGED <<callVars, expired, info, callback, timeout, requests, target,
                       wrote>>
    PROVE  IInv'
<1> USE DEF IInv, callVars
<1> DEFINE m == Head(inbox).call
<1>1. /\ Len(inbox) \in Nat \ {0} /\ Head(inbox) = inbox[1] /\ m \in Call
      /\ inbox' \in Seq(Answer) /\ Len(inbox') = Len(inbox) - 1
      /\ \A i \in 1 .. Len(inbox') : inbox'[i] = inbox[i + 1] /\ i + 1 \in 1 .. Len(inbox)
  <2>1. inbox \in Seq(Answer) /\ Len(inbox) \in Nat \ {0}
    BY DEF TypeOK
  <2>2. Head(inbox) = inbox[1] /\ inbox[1] \in Answer
    BY <2>1
  <2>3. m \in Call
    BY <2>2 DEF Answer
  <2>4. inbox' \in Seq(Answer) /\ Len(inbox') = Len(inbox) - 1
    BY <2>1
  <2>5. \A i \in 1 .. Len(inbox') : inbox'[i] = inbox[i + 1] /\ i + 1 \in 1 .. Len(inbox)
    BY <2>1, <2>4
  <2> QED
    BY <2>1, <2>2, <2>3, <2>4, <2>5
<1>2. Queued(m) /\ handler[m] = "none"
  <2>1. 1 \in 1 .. Len(inbox)
    BY <1>1
  <2> QED
    BY <1>1, <2>1 DEF Queued, OnePlace
<1>3. TypeOK'
  BY <1>1 DEF TypeOK, HandlerAt
<1>4. handler' = [handler EXCEPT ![m] = h] /\ handler \in [Call -> HandlerAt]
  BY DEF TypeOK
<1> HIDE DEF m
<1>5. \A n \in Call : Queued(n)' => Queued(n) /\ n # m
  <2> SUFFICES ASSUME NEW n \in Call, NEW i \in 1 .. Len(inbox'), inbox'[i].call = n
               PROVE  Queued(n) /\ n # m
    BY DEF Queued
  <2>1. inbox[i + 1].call = n /\ i + 1 \in 1 .. Len(inbox) /\ i + 1 # 1
        /\ 1 \in 1 .. Len(inbox)
    BY <1>1
  <2> QED
    BY <2>1, <1>1 DEF Queued, OnePlace, m
<1>6. OnePlace'
  <2>1. \A i, j \in 1 .. Len(inbox') : inbox'[i].call = inbox'[j].call => i = j
    <3> SUFFICES ASSUME NEW i \in 1 .. Len(inbox'), NEW j \in 1 .. Len(inbox'),
                        inbox'[i].call = inbox'[j].call
                 PROVE  i = j
      OBVIOUS
    <3>1. i + 1 = j + 1
      BY <1>1 DEF OnePlace
    <3> QED
      BY <3>1
  <2>2. \A n \in Call : n # m => handler'[n] = handler[n]
    BY <1>4
  <2>3. \A n \in Call : Queued(n)' => n \notin requests' /\ handler'[n] = "none"
    BY <1>5, <2>2 DEF OnePlace
  <2>4. \A n \in requests' : handler'[n] = "none"
    BY <1>2, <2>2 DEF OnePlace, TypeOK, m, Call
  <2>5. \A n \in Call : Unasked(n)' =>
           n \notin requests' /\ handler'[n] = "none" /\ ~Queued(n)'
    BY <1>2, <1>5, <2>2 DEF OnePlace, Unasked
  <2> QED
    BY <2>1, <2>3, <2>4, <2>5 DEF OnePlace
<1>7. WriteLast' /\ HeldWritten'
  BY <1>2, <1>4 DEF WriteLast, HeldWritten, Arrived
<1>8. OlderPending'
  <2>1. \A n \in Call : Pending(n)' => Pending(n)
    BY <1>2, <1>4, <1>5 DEF Pending, Queued
  <2> QED
    BY <2>1 DEF OlderPending
<1>9. Finished' = Finished /\ TimedOut' = TimedOut
  BY DEF Finished, TimedOut
<1> QED
  BY <1>3, <1>6, <1>7, <1>8, <1>9 DEF UsedOnce, OlderHeld, OwnCallback, LastDeadline,
     Unasked, OwnSoFar

LEMMA AdmitDropKeep == ASSUME IInv, Admit \/ Drop PROVE IInv'
<1>1. CASE Admit
  <2>1. CASE Head(inbox).ok
    BY <1>1, <2>1, TakeKeeps DEF Admit
  <2>2. CASE ~Head(inbox).ok
    BY <1>1, <2>2, TakeKeeps DEF Admit
  <2> QED
    BY <2>1, <2>2
<1>2. CASE Drop
  BY <1>2, TakeKeeps DEF Drop
<1> QED
  BY <1>1, <1>2

\* Who is in a callback is an answer that was asked for, and that no call holds or
\* has returned yet.
LEMMA AboutToWrite ==
    ASSUME IInv, NEW n \in Call, handler[n] \in {"call", "write"}
    PROVE  /\ n \in 1 .. called /\ ~Unasked(n) /\ Pending(n) /\ wrote[n] = "none"
           /\ info # n /\ \A k \in Call : returned[k] # n
<1>1. ~Unasked(n) /\ wrote[n] = "none"
  BY DEF IInv, OnePlace, WriteLast
<1>2. n \in 1 .. called
  BY <1>1, CallsAssumption DEF Unasked, IInv, TypeOK, Call
<1>3. info # n /\ \A k \in Call : returned[k] # n
  BY <1>1, <1>2 DEF IInv, HeldWritten, Arrived
<1> QED
  BY <1>1, <1>2, <1>3 DEF Pending

LEMMA StartKeeps == ASSUME IInv, NEW n \in Call, Start(n) PROVE IInv'
<1> USE DEF Start, callVars
<1>1. n \in 1 .. called /\ callback = called
  BY AboutToWrite DEF IInv, OwnCallback
<1>2. TypeOK'
  BY <1>1 DEF IInv, TypeOK, HandlerAt
<1>3. OnePlace'
  BY DEF IInv, OnePlace, Queued, Unasked, TypeOK
<1>4. WriteLast'
  BY <1>1, AboutToWrite DEF IInv, WriteLast, TypeOK
<1>5. OlderPending'
  BY DEF IInv, OlderPending, Pending, TypeOK
<1>6. Finished' = Finished /\ TimedOut' = TimedOut
  BY DEF Finished, TimedOut
<1> QED
  BY <1>2, <1>3, <1>4, <1>5, <1>6 DEF IInv, HeldWritten, Arrived, UsedOnce, OlderHeld,
     OwnCallback, LastDeadline, Unasked, OwnSoFar

\* As long as no call has run into its deadline, a callback writes to its own call.
LEMMA OwnTarget ==
    ASSUME IInv, NEW n \in Call, handler[n] = "write", TimedOut = {}
    PROVE  n = frame /\ target[n] = frame
<1>1. n \in 1 .. called /\ \A k \in Call : returned[k] # n
  BY AboutToWrite
<1>2. n \notin Finished
  BY <1>1 DEF IInv, OwnSoFar
<1>3. n = frame /\ frame = called
  BY <1>1, <1>2 DEF Finished, IInv, TypeOK
<1> QED
  BY <1>3 DEF IInv, WriteLast, TypeOK

LEMMA WriteKeeps == ASSUME IInv, NEW n \in Call, Write(n) PROVE IInv'
<1> USE DEF Write, callVars
<1>1. /\ n \in 1 .. called /\ ~Unasked(n) /\ Pending(n) /\ wrote[n] = "none"
      /\ info # n /\ \A k \in Call : returned[k] # n
  BY AboutToWrite
<1>2. \/ info' = n /\ frame # 0 /\ wrote' = [wrote EXCEPT ![n] = "own"]
      \/ info' = n /\ frame # 0 /\ wrote' = [wrote EXCEPT ![n] = "hit"]
      \/ info' = info /\ target[n] # frame /\ wrote' = [wrote EXCEPT ![n] = "lost"]
  BY <1>1 DEF IInv, WriteLast
<1>3. TypeOK'
  <2>1. info' \in 0 .. called /\ (frame = 0 => info' = 0)
    BY <1>1, <1>2 DEF IInv, TypeOK
  <2> QED
    BY <1>2, <2>1 DEF IInv, TypeOK, HandlerAt, Effect
<1>4. OnePlace'
  BY DEF IInv, OnePlace, Queued, Unasked, TypeOK
<1>5. WriteLast'
  BY <1>2 DEF IInv, WriteLast, TypeOK
<1>6. /\ \A k \in Call : Arrived(k) => Arrived(k)'
      /\ info' = n => Arrived(n)'
  BY <1>1, <1>2 DEF Arrived, IInv, TypeOK
<1>7. HeldWritten'
  <2>1. ASSUME frame # 0, wrote'[frame] # "none" PROVE info' # 0
    <3>1. CASE frame = n
      <4>1. target[n] \in n .. called /\ frame = called
        BY <1>1, <3>1 DEF IInv, WriteLast, TypeOK
      <4> QED
        BY <1>1, <1>2, <3>1, <4>1
    <3>2. CASE frame # n
      <4>1. wrote[frame] # "none"
        BY <1>2, <2>1, <3>2, CallsAssumption DEF IInv, TypeOK, Call
      <4> QED
        BY <1>1, <1>2, <2>1, <4>1 DEF IInv, HeldWritten
    <3> QED
      BY <3>1, <3>2
  <2>2. (info # 0 => Arrived(info))'
    BY <1>2, <1>6, CallsAssumption, SMTT(30) DEF IInv, HeldWritten, TypeOK, Call
  <2>3. \A k \in Call : (returned[k] # 0 => Arrived(returned[k]))'
    BY <1>6, CallsAssumption, SMTT(30) DEF IInv, HeldWritten, TypeOK, Call
  <2> QED
    BY <2>1, <2>2, <2>3 DEF HeldWritten
<1>8. Finished' = Finished /\ TimedOut' = TimedOut /\ Finished \subseteq Call
  BY CallsAssumption DEF Finished, TimedOut, IInv, TypeOK, Call
<1>9. UsedOnce'
  BY <1>1, <1>2, <1>8 DEF IInv, UsedOnce
<1>10. OlderPending'
  <2>1. \A k \in Call : Pending(k)' => Pending(k)
    BY DEF Pending, IInv, TypeOK
  <2> QED
    BY <2>1 DEF IInv, OlderPending
<1>11. OlderHeld'
  BY <1>1, <1>2 DEF IInv, OlderHeld, OlderPending
<1>12. OwnSoFar'
  BY <1>1, <1>2, <1>8, OwnTarget DEF IInv, OwnSoFar, TypeOK
<1> QED
  BY <1>3, <1>4, <1>5, <1>7, <1>9, <1>10, <1>11, <1>12 DEF IInv, OwnCallback,
     LastDeadline, Unasked

LEMMA EraseKeeps == ASSUME IInv, NEW n \in Call, Erase(n) PROVE IInv'
<1> USE DEF IInv, Erase, callVars
<1>1. TypeOK'
  BY DEF TypeOK, HandlerAt
<1>2. OnePlace'
  BY DEF OnePlace, Queued, Unasked, TypeOK
<1>3. WriteLast' /\ HeldWritten'
  BY DEF WriteLast, HeldWritten, Arrived, TypeOK
<1>4. OlderPending'
  BY DEF OlderPending, Pending, TypeOK
<1>5. Finished' = Finished /\ TimedOut' = TimedOut
  BY DEF Finished, TimedOut
<1> QED
  BY <1>1, <1>2, <1>3, <1>4, <1>5 DEF UsedOnce, OlderHeld, OwnCallback, LastDeadline,
     OwnSoFar

LEMMA ServeKeeps == ASSUME IInv, NEW n \in Call, Serve(n) PROVE IInv'
<1> USE DEF IInv, Serve, callVars, poolVars
<1>1. n \in requests /\ requests' = requests \ {n} /\ ~Queued(n) /\ handler[n] = "none"
  BY DEF OnePlace
<1>2. /\ WriteLast' /\ HeldWritten' /\ UsedOnce' /\ OlderHeld' /\ OwnCallback'
      /\ LastDeadline' /\ OwnSoFar'
  <2>1. Finished' = Finished /\ TimedOut' = TimedOut
    BY DEF Finished, TimedOut
  <2> QED
    BY <2>1 DEF WriteLast, HeldWritten, Arrived, UsedOnce, OlderHeld, OwnCallback,
       LastDeadline, Unasked, OwnSoFar
<1>3. CASE inbox' = inbox
  <2>1. TypeOK'
    BY <1>3 DEF TypeOK
  <2>2. OnePlace' /\ OlderPending'
    BY <1>3 DEF OnePlace, Queued, Unasked, OlderPending, Pending
  <2> QED
    BY <1>2, <2>1, <2>2
<1>4. ASSUME NEW ok \in BOOLEAN, inbox' = Append(inbox, [call |-> n, ok |-> ok])
      PROVE  IInv'
  <2>1. /\ inbox' \in Seq(Answer) /\ Len(inbox') = Len(inbox) + 1 /\ Len(inbox) \in Nat
        /\ inbox'[Len(inbox')].call = n
        /\ \A i \in 1 .. Len(inbox) : inbox'[i] = inbox[i]
    BY <1>4 DEF TypeOK, Answer
  <2>2. TypeOK'
    BY <2>1 DEF TypeOK
  <2>3. \A k \in Call : Queued(k)' => Queued(k) \/ k = n
    <3> SUFFICES ASSUME NEW k \in Call, NEW i \in 1 .. Len(inbox'), inbox'[i].call = k
                 PROVE  Queued(k) \/ k = n
      BY DEF Queued
    <3>1. i = Len(inbox') \/ i \in 1 .. Len(inbox)
      BY <2>1
    <3> QED
      BY <2>1, <3>1 DEF Queued
  <2>4. ASSUME NEW i \in 1 .. Len(inbox'), NEW j \in 1 .. Len(inbox'),
               inbox'[i].call = inbox'[j].call
        PROVE  i = j
    <3>1. (i = Len(inbox') \/ i \in 1 .. Len(inbox))
          /\ (j = Len(inbox') \/ j \in 1 .. Len(inbox))
      BY <2>1
    <3>2. \A l \in 1 .. Len(inbox) : inbox[l].call # n
      BY <1>1 DEF Queued
    <3> QED
      BY <2>1, <2>4, <3>1, <3>2 DEF OnePlace
  <2>5. OnePlace'
    BY <1>1, <2>3, <2>4 DEF OnePlace, Unasked
  <2>6. OlderPending'
    <3>1. \A k \in Call : Pending(k)' => Pending(k)
      BY <1>1, <2>3 DEF Pending, Queued
    <3> QED
      BY <3>1 DEF OlderPending
  <2> QED
    BY <1>2, <2>2, <2>5, <2>6
<1> QED
  BY <1>3, <1>4

LEMMA StepInv == IInv /\ [Next]_vars => IInv'
<1> SUFFICES ASSUME IInv, [Next]_vars PROVE IInv'
  OBVIOUS
<1>1. CASE UNCHANGED vars
  <2> USE <1>1 DEF vars, callVars, poolVars, IInv
  <2>1. Finished' = Finished /\ TimedOut' = TimedOut
    BY DEF Finished, TimedOut
  <2>2. TypeOK' /\ OnePlace' /\ OlderPending'
    BY DEF TypeOK, OnePlace, Queued, Unasked, OlderPending, Pending
  <2> QED
    BY <2>1, <2>2 DEF WriteLast, HeldWritten, Arrived, UsedOnce, OlderHeld,
       OwnCallback, LastDeadline, Unasked, OwnSoFar
<1> QED
  BY <1>1, InstallKeeps, AskKeeps, ReturnKeeps, DeadlineKeeps, AdmitDropKeep,
     StartKeeps, WriteKeeps, EraseKeeps, ServeKeeps DEF Next, GetUserinfo, OnMessage

LEMMA Always == Spec => []IInv
BY InitInv, StepInv, PTL DEF Spec

-----------------------------------------------------------------------------

\* For every number of calls and threads, every variable keeps its type.
THEOREM UserInfoType == Spec => []TypeOK
BY Always, PTL DEF IInv

\* A pass plans with its own answer or with one that was still to come when it asked,
\* and no answer is planned with twice, however many deadlines have passed.
THEOREM AnswerUsedOnce == Spec => []OwnInfo
<1>1. IInv => OwnInfo
  BY DEF IInv, OlderHeld, UsedOnce, OwnInfo
<1> QED
  BY <1>1, Always, PTL

\* Until some call has run into its deadline, every pass gets its own answer.
THEOREM OwnInfoUntilTimeout == Spec => [](TimedOut = {} => info \in {0, frame})
<1>1. IInv => (TimedOut = {} => info \in {0, frame})
  BY DEF IInv, OwnSoFar
<1> QED
  BY <1>1, Always, PTL

\* The answers that were lost, the calls that did not run into their deadlines, and the
\* answers that these returned.
Lost   == {n \in Call : wrote[n] = "lost"}
InTime == Finished \ TimedOut
Used   == {returned[n] : n \in InTime}

\* The answers that were lost and those that calls have returned are different ones, and
\* one of the answers so far, if a call is live, is neither: that call's own, or the one
\* that it holds instead.
LEMMA LostOrReturned ==
    ASSUME IInv
    PROVE  /\ Lost \intersect Used = {}
           /\ frame = 0 => Lost \union Used \subseteq Finished
           /\ frame # 0 => \E x \in 1 .. called :
                              Lost \union Used \subseteq (1 .. called) \ {x}
<1>1. Finished \subseteq Call
  BY CallsAssumption DEF Finished, IInv, TypeOK, Call
<1>2. \A n \in InTime : returned[n] \in 1 .. called /\ Arrived(returned[n])
  BY <1>1 DEF InTime, TimedOut, IInv, TypeOK, HeldWritten
<1>3. Lost \intersect Used = {}
  BY <1>2 DEF Lost, Used, Arrived
<1>4. Lost \subseteq 1 .. called
  <2> SUFFICES ASSUME NEW n \in Call, wrote[n] = "lost" PROVE n \in 1 .. called
    BY DEF Lost
  <2>1. ~Unasked(n)
    BY UnaskedIsUnknown
  <2> QED
    BY <2>1, CallsAssumption DEF Unasked, IInv, TypeOK, Call
<1>5. Lost \union Used \subseteq 1 .. called
  BY <1>2, <1>4 DEF Used
<1>6. CASE frame = 0
  BY <1>3, <1>5, <1>6 DEF Finished
<1>7. CASE frame # 0 /\ info = 0
  <2>1. frame \in 1 .. called /\ frame \in Call /\ wrote[frame] = "none"
    BY <1>7, CallsAssumption DEF IInv, TypeOK, HeldWritten, Call
  <2>2. frame \notin Lost \union Used
    BY <1>2, <2>1 DEF Lost, Used, Arrived
  <2> QED
    BY <1>3, <1>5, <1>7, <2>1, <2>2
<1>8. CASE frame # 0 /\ info # 0
  <2>1. info \in 1 .. called /\ info \notin Lost /\ info \notin Used
    BY <1>8 DEF Lost, Used, InTime, IInv, TypeOK, HeldWritten, Arrived, UsedOnce
  <2> QED
    BY <1>3, <1>5, <1>8, <2>1
<1> QED
  BY <1>6, <1>7, <1>8

\* Sets without a common member add up.
LEMMA Disjoint ==
    ASSUME NEW S, NEW T, IsFiniteSet(S), IsFiniteSet(T), S \intersect T = {}
    PROVE  Cardinality(S \union T) = Cardinality(S) + Cardinality(T)
<1>1. Cardinality(S \union T) = Cardinality(S) + Cardinality(T) - Cardinality({})
  BY FS_Union
<1>2. Cardinality({}) = 0 /\ Cardinality(S) \in Nat /\ Cardinality(T) \in Nat
  BY FS_EmptySet, FS_CardinalityType
<1> QED
  BY <1>1, <1>2

\* No more answers are lost than calls have run into their deadlines.
LEMMA LostAreTimedOut ==
    ASSUME IInv
    PROVE  Cardinality(Lost) <= Cardinality(TimedOut)
<1>1. /\ IsFiniteSet(1 .. called) /\ Cardinality(1 .. called) = called /\ called \in Nat
      /\ IsFiniteSet(Call) /\ 1 .. called \subseteq Call
  BY FS_Interval, CallsAssumption DEF IInv, TypeOK, Call
<1>2. /\ IsFiniteSet(Finished) /\ IsFiniteSet(TimedOut) /\ IsFiniteSet(InTime)
      /\ IsFiniteSet(Lost) /\ TimedOut \subseteq Finished /\ Finished \subseteq 1 .. called
  <2>1. Finished \subseteq 1 .. called /\ TimedOut \subseteq Finished
        /\ InTime \subseteq 1 .. called /\ Lost \subseteq Call
    BY DEF Finished, TimedOut, InTime, Lost
  <2>2. TimedOut \subseteq 1 .. called
    BY <2>1
  <2> QED
    BY <1>1, <2>1, <2>2, FS_Subset
<1>3. /\ Lost \intersect Used = {}
      /\ frame = 0 => Lost \union Used \subseteq Finished
      /\ frame # 0 => \E x \in 1 .. called :
                         Lost \union Used \subseteq (1 .. called) \ {x}
  BY LostOrReturned, Zenon
<1>4. Lost \union Used \subseteq 1 .. called
  BY <1>2, <1>3
<1>5. IsFiniteSet(Used)
  BY <1>1, <1>4, FS_Subset
<1>6. Cardinality(InTime) <= Cardinality(Used)
  <2> DEFINE f == [n \in InTime |-> returned[n]]
  <2>1. f \in Injection(InTime, Used)
    <3>1. f \in [InTime -> Used]
      BY DEF Used
    <3>2. \A a, b \in InTime : f[a] = f[b] => a = b
      BY DEF InTime, IInv, UsedOnce, TimedOut
    <3> HIDE DEF f
    <3> QED
      BY <3>1, <3>2 DEF Injection, IsInjective
  <2> HIDE DEF f
  <2> QED
    BY <1>5, <2>1, FS_Injection
<1>7. Cardinality(Lost \union Used) = Cardinality(Lost) + Cardinality(Used)
  BY <1>2, <1>3, <1>5, Disjoint
<1>8. Cardinality(Lost \union Used) <= Cardinality(Finished)
  <2>1. CASE frame = 0
    BY <1>2, <1>3, <2>1, FS_Subset
  <2>2. CASE frame # 0
    <3>1. PICK x \in 1 .. called : Lost \union Used \subseteq (1 .. called) \ {x}
      BY <1>3, <2>2
    <3>2. Finished = (1 .. called) \ {frame} /\ frame \in 1 .. called
      BY <2>2 DEF Finished, IInv, TypeOK
    <3>3. /\ IsFiniteSet((1 .. called) \ {x})
          /\ Cardinality((1 .. called) \ {x}) = called - 1
          /\ Cardinality(Finished) = called - 1
      <4>1. ASSUME NEW y \in 1 .. called
            PROVE  /\ IsFiniteSet((1 .. called) \ {y})
                   /\ Cardinality((1 .. called) \ {y}) = called - 1
        BY <1>1, FS_RemoveElement
      <4> QED
        BY <3>2, <4>1
    <3>4. Cardinality(Lost \union Used) <= Cardinality((1 .. called) \ {x})
      BY <3>1, <3>3, FS_Subset
    <3> QED
      BY <3>3, <3>4
  <2> QED
    BY <2>1, <2>2
<1>9. Cardinality(Finished) = Cardinality(InTime) + Cardinality(TimedOut)
  <2>1. Finished = InTime \union TimedOut /\ InTime \intersect TimedOut = {}
    BY <1>2 DEF InTime
  <2> QED
    BY <1>2, <2>1, Disjoint
<1>10. /\ Cardinality(Lost) \in Nat /\ Cardinality(Used) \in Nat
       /\ Cardinality(InTime) \in Nat /\ Cardinality(TimedOut) \in Nat
  BY <1>2, <1>5, FS_CardinalityType
<1> QED
  BY <1>6, <1>7, <1>8, <1>9, <1>10

\* Every write that goes astray is owed to a deadline that some call ran into.
THEOREM LostWritesBounded == Spec => []FrameAlive
<1>1. IInv => FrameAlive
  BY LostAreTimedOut DEF FrameAlive, Lost, IInv, OwnSoFar
<1> QED
  BY <1>1, Always, PTL

\* The one stored deadline drops no answer that is within its own.
THEOREM TimelyInfo == Spec => TimelyInfoKept
<1>1. IInv /\ [Next]_vars => [Drop => Past(Head(inbox).call)]_vars
  <2> SUFFICES ASSUME IInv, Drop PROVE Past(Head(inbox).call)
    OBVIOUS
  <2>1. /\ Head(inbox) = inbox[1] /\ 1 \in 1 .. Len(inbox)
        /\ Head(inbox).call \in Call
    <3>1. inbox \in Seq(Answer) /\ Len(inbox) \in Nat \ {0}
      BY DEF Drop, IInv, TypeOK
    <3>2. Head(inbox) = inbox[1] /\ inbox[1] \in Answer /\ 1 \in 1 .. Len(inbox)
      BY <3>1
    <3> QED
      BY <3>2 DEF Answer
  <2>2. Queued(Head(inbox).call)
    BY <2>1 DEF Queued
  <2>3. ~Unasked(Head(inbox).call)
    BY <2>1, <2>2 DEF IInv, OnePlace
  <2>4. timeout # 0 /\ timeout <= expired
    BY DEF Drop, WillCallback, Past
  <2>5. Head(inbox).call \in 1 .. called
    <3>1. called \in Nat
      BY CallsAssumption DEF IInv, TypeOK
    <3> QED
      BY <2>1, <2>3, <3>1 DEF Unasked, Call
  <2>6. Head(inbox).call <= timeout
    BY <2>3, <2>4, <2>5 DEF IInv, LastDeadline
  <2> QED
    BY <2>4, <2>5, <2>6 DEF Past, IInv, TypeOK
<1> QED
  BY <1>1, Always, PTL DEF Spec, TimelyInfoKept

=============================================================================
