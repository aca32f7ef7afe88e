--------------------------- MODULE ProviderProofs ---------------------------
(***************************************************************************)
(* Proofs about the way to the provider and back.                          *)
(*                                                                         *)
(* ProviderGate, for every set of callers and every length of the          *)
(* back-off.  The inductive invariant is the conjunction of the types, of  *)
(* mutual exclusion and of "no request inside a window": the last one      *)
(* needs mutual exclusion, because it is the holder of the gate alone who  *)
(* may arm a window while another caller's request could be out.  On top   *)
(* of it stand two more: the shape of the queue, and that what is owed to  *)
(* the provider is covered by the window or by the one limited caller.     *)
(*                                                                         *)
(* StreamDecode, for everything the provider may mean.  What goes wrong on *)
(* the wire is either still on its way or has left its mark in the         *)
(* accumulator, which the frames, in any order, keep consistent.  What an  *)
(* answer says: the wire is a path from a point in what the provider means *)
(* to its end, and the accumulator has what lies before that point, or has *)
(* a call without a name and never becomes an answer.                      *)
(*                                                                         *)
(* SchemaStrict, for every schema of an object: a tree, place by place.    *)
(***************************************************************************)
EXTENDS ProviderGate, StreamDecode, SchemaStrict, RecursionTheorems, FiniteSetTheorems, TLAPS

GateInv == TypeOK /\ GateHeldByHead /\ NoRequestInsideWindow

\* Initially nobody holds the gate and no window is armed.
LEMMA InitGateInv == Init => GateInv
BY GateAssumption
   DEF Init, GateInv, TypeOK, GateHeldByHead, NoRequestInsideWindow, Holding,
       Locations, NoWindow, NoRetryAfter

\* Arithmetic of the back-off: the wait of an armed window lies between the
\* current back-off and the cap, and doubling it stays below the cap.
LEMMA WaitType ==
    ASSUME TypeOK, NEW c \in Callers
    PROVE  /\ ArmWait(c) \in BaseBackoff..MaxDuration
           /\ Doubled(ArmWait(c)) \in BaseBackoff..MaxDuration
<1>1. answer[c] \in -1..MaxDuration
  <2>1. answer[c] \in RetryAfters \cup {-1}
    BY DEF TypeOK, NoRetryAfter
  <2>2. RetryAfters \cup {-1} \subseteq -1..MaxDuration
    BY GateAssumption
  <2>3. QED
    BY <2>1, <2>2
<1>2. nextBackoff \in BaseBackoff..MaxDuration
  BY DEF TypeOK
<1>3. ArmWait(c) \in BaseBackoff..MaxDuration
  BY <1>1, <1>2, GateAssumption DEF ArmWait, Larger
<1>4. QED
  BY <1>3, GateAssumption DEF Doubled

\* A queue that somebody joins is a queue.
LEMMA AppendType ==
    ASSUME gateQueue \in Seq(Callers), NEW c \in Callers
    PROVE  Append(gateQueue, c) \in Seq(Callers)
OBVIOUS

\* Joining the queue does not change who heads a queue that has a head.
LEMMA AppendHead ==
    ASSUME gateQueue \in Seq(Callers), gateQueue # <<>>, NEW c \in Callers
    PROVE  /\ Append(gateQueue, c) # <<>>
           /\ Append(gateQueue, c)[1] = gateQueue[1]
OBVIOUS

\* A holder can give up the gate: the rest of the queue is a queue.
LEMMA ReleaseType ==
    ASSUME GateInv, NEW c \in Callers, pc[c] \in Holding, ReleaseGate
    PROVE  gateQueue' \in Seq(Callers)
BY DEF GateInv, TypeOK, GateHeldByHead, HasGate, ReleaseGate

\* What the steps of a caller can do to the gate: nothing, join the end, or,
\* for the holder, release; and only a caller that heads the queue becomes a
\* holder.
LEMMA StepShape ==
    ASSUME GateInv, NEW c \in Callers, Step(c)
    PROVE  /\ \E l \in Locations : pc' = [pc EXCEPT ![c] = l]
           /\ \/ gateQueue' = gateQueue /\ (pc'[c] \in Holding => HasGate(c))
              \/ gateQueue' = Append(gateQueue, c) /\ pc'[c] \notin Holding
              \/ /\ pc[c] \in Holding /\ ReleaseGate
                 /\ pc'[c] \notin Holding
<1> USE DEF GateInv, TypeOK, Holding, Locations, Finished, Goto, GateHeldByHead
<1>1. CASE Start(c) \/ SleepOutside(c) \/ WakeOutside(c) \/ QueueForGate(c)
  BY <1>1 DEF Start, SleepOutside, WakeOutside, QueueForGate
<1>2. CASE EnterGate(c) \/ SleepHolding(c) \/ WakeHolding(c) \/ SendRequest(c)
  BY <1>2 DEF EnterGate, SleepHolding, WakeHolding, SendRequest
<1>3. CASE AnswerOk(c) \/ AnswerError(c)
  BY <1>3 DEF AnswerOk, AnswerError
<1>4. ASSUME NEW r \in RetryAfters \cup {NoRetryAfter},
             AnswerLimited(c, r)
      PROVE  /\ \E l \in Locations : pc' = [pc EXCEPT ![c] = l]
             /\ gateQueue' = gateQueue /\ (pc'[c] \in Holding => HasGate(c))
  BY <1>4 DEF AnswerLimited
<1>5. CASE Arm(c) \/ ArmOverflow(c) \/ Retry(c)
  BY <1>5 DEF Arm, ArmOverflow, Retry
<1>6. CASE DbFailure(c)
  BY <1>6 DEF DbFailure
<1>7. CASE NextExchange(c) \/ DirectSend(c) \/ DirectAnswer(c) \/ DirectLimited(c)
  BY <1>7 DEF NextExchange, DirectSend, DirectAnswer, DirectLimited
<1>8. QED
  BY <1>1, <1>2, <1>3, <1>4, <1>5, <1>6, <1>7 DEF Step

\* Mutual exclusion is kept by every step.
LEMMA GateStep == GateInv /\ [Next]_vars => GateHeldByHead'
<1> SUFFICES ASSUME GateInv, [Next]_vars PROVE GateHeldByHead'
  OBVIOUS
<1>1. ASSUME NEW c \in Callers, Step(c) PROVE GateHeldByHead'
  <2> SUFFICES ASSUME NEW d \in Callers, pc'[d] \in Holding
               PROVE  HasGate(d)'
    BY DEF GateHeldByHead
  <2>1. PICK l \in Locations : pc' = [pc EXCEPT ![c] = l]
    BY <1>1, StepShape
  <2>2. CASE d = c
    BY <1>1, <2>2, StepShape DEF HasGate
  <2>3. CASE d # c
    <3>1. pc[d] \in Holding /\ HasGate(d)
      BY <2>1, <2>3 DEF GateInv, TypeOK, GateHeldByHead
    <3>2. pc[c] \notin Holding
      BY <3>1, <2>3 DEF GateInv, GateHeldByHead, HasGate
    <3>3. gateQueue' = gateQueue \/ gateQueue' = Append(gateQueue, c)
      BY <1>1, <3>2, StepShape
    <3>4. CASE gateQueue' = gateQueue
      BY <3>1, <3>4 DEF HasGate
    <3>5. CASE gateQueue' = Append(gateQueue, c)
      BY <3>1, <3>5, AppendHead DEF HasGate, GateInv, TypeOK
    <3>6. QED
      BY <3>3, <3>4, <3>5
  <2>4. QED
    BY <2>2, <2>3
<1>2. ASSUME Tick \/ UNCHANGED vars PROVE GateHeldByHead'
  BY <1>2 DEF Tick, vars, throttle, GateInv, GateHeldByHead, HasGate
<1>3. QED
  BY <1>1, <1>2 DEF Next

\* The types are kept by every step.
LEMMA TypeStep == GateInv /\ [Next]_vars => TypeOK'
<1> SUFFICES ASSUME GateInv, [Next]_vars PROVE TypeOK'
  OBVIOUS
<1>1. ASSUME NEW c \in Callers, Step(c) PROVE TypeOK'
  <2> USE DEF GateInv, TypeOK
  <2>1. pc' \in [Callers -> Locations]
    <3>1. PICK l \in Locations : pc' = [pc EXCEPT ![c] = l]
      BY <1>1, StepShape
    <3>2. QED
      BY <3>1
  <2>2. gateQueue' \in Seq(Callers)
    <3>1. CASE pc[c] \in Holding /\ ReleaseGate
      BY <3>1, ReleaseType
    <3>2. CASE gateQueue' = gateQueue
      BY <3>2
    <3>3. CASE gateQueue' = Append(gateQueue, c)
      BY <3>3, AppendType
    <3>4. QED
      BY <1>1, <3>1, <3>2, <3>3, StepShape
  <2>3. CASE Start(c) \/ WakeOutside(c) \/ EnterGate(c) \/ WakeHolding(c)
             \/ AnswerError(c) \/ Retry(c) \/ NextExchange(c)
             \/ DirectSend(c) \/ DirectAnswer(c)
    BY <2>1, <2>2, <2>3
       DEF Start, WakeOutside, EnterGate, WakeHolding, AnswerError, Retry,
           NextExchange, DirectSend, DirectAnswer, throttle
  <2>4. CASE SleepOutside(c) \/ SleepHolding(c)
    <3>1. window \in 0..MaxDuration
      BY <2>4, GateAssumption DEF SleepOutside, SleepHolding, Blocked, NoWindow
    <3>2. QED
      BY <2>1, <2>2, <2>4, <3>1 DEF SleepOutside, SleepHolding, throttle
  <2>5. CASE QueueForGate(c) \/ SendRequest(c)
    BY SMTT(30), <2>1, <2>2, <2>5, GateAssumption
       DEF QueueForGate, SendRequest, ForgetExpired, NoWindow
  <2>6. CASE AnswerOk(c)
    BY <2>1, <2>2, <2>6, GateAssumption DEF AnswerOk, NoWindow
  <2>7. ASSUME NEW r \in RetryAfters \cup {NoRetryAfter},
               AnswerLimited(c, r)
        PROVE  TypeOK'
    <3>1. r \in -1..MaxDuration
      <4>1. RetryAfters \cup {-1} \subseteq -1..MaxDuration
        BY GateAssumption
      <4>2. QED
        BY <4>1 DEF NoRetryAfter
    <3>2. limits' \in 0..MaxLimits
      BY <2>7, GateAssumption DEF AnswerLimited
    <3>3. owed' \in 0..MaxDuration
      BY <2>7, <3>1, GateAssumption DEF AnswerLimited, Larger
    <3>4. answer' \in [Callers -> RetryAfters \cup {NoRetryAfter}]
      BY <2>7 DEF AnswerLimited
    <3>5. QED
      BY <2>1, <2>2, <2>7, <3>2, <3>3, <3>4
         DEF AnswerLimited, throttle
  <2>8. CASE Arm(c)
    <3>1. window' \in NoWindow..MaxDuration
      BY <2>8, WaitType, GateAssumption DEF Arm, Larger, NoWindow
    <3>2. nextBackoff' \in BaseBackoff..MaxDuration
      BY <2>8, WaitType DEF Arm
    <3>3. QED
      BY <2>1, <2>2, <2>8, <3>1, <3>2 DEF Arm
  <2>9. CASE ArmOverflow(c)
    <3>1. owed' \in 0..MaxDuration
      BY <2>9, GateAssumption DEF ArmOverflow, Larger, NoWindow
    <3>2. QED
      BY <2>1, <2>2, <2>9, <3>1, GateAssumption DEF ArmOverflow
  <2>10. CASE DbFailure(c)
    <3>1. owed' \in 0..MaxDuration
      BY <2>10, GateAssumption DEF DbFailure, Larger, NoWindow
    <3>2. QED
      BY <2>1, <2>2, <2>10, <3>1 DEF DbFailure, throttle
  <2>11. CASE DirectLimited(c)
    BY <2>1, <2>2, <2>11, GateAssumption DEF DirectLimited, throttle
  <2>12. QED
    BY <1>1, <2>3, <2>4, <2>5, <2>6, <2>7, <2>8, <2>9, <2>10, <2>11 DEF Step
<1>2. CASE Tick
  <2>1. \A n \in NoWindow..MaxDuration : Elapse(n) \in NoWindow..MaxDuration
    BY GateAssumption DEF Elapse, NoWindow
  <2>2. \A n \in 0..MaxDuration : Elapse(n) \in 0..MaxDuration
    BY GateAssumption DEF Elapse
  <2>3. QED
    BY <1>2, <2>1, <2>2 DEF Tick, GateInv, TypeOK
<1>3. CASE UNCHANGED vars
  BY <1>3 DEF vars, GateInv, TypeOK
<1>4. QED
  BY <1>1, <1>2, <1>3 DEF Next

\* No step lets a request be out inside a window: one is sent only when the
\* window is not running, and only the holder, who is not sending, arms one.
LEMMA WindowStep == GateInv /\ [Next]_vars => NoRequestInsideWindow'
<1> SUFFICES ASSUME GateInv, [Next]_vars PROVE NoRequestInsideWindow'
  OBVIOUS
<1> USE DEF NoRequestInsideWindow, Blocked
<1>1. ASSUME NEW c \in Callers, Step(c) PROVE NoRequestInsideWindow'
  <2> SUFFICES ASSUME NEW d \in Callers, pc'[d] = "call"
               PROVE  ~(window' > 0)
    OBVIOUS
  <2>1. CASE Arm(c)
    <3>1. pc[c] = "limited" /\ pc' = [pc EXCEPT ![c] = "armed"]
      BY <2>1 DEF Arm, Goto
    <3>2. d # c /\ pc[d] = "call"
      BY <3>1 DEF GateInv, TypeOK
    <3>3. HasGate(c) /\ HasGate(d)
      BY <3>1, <3>2 DEF GateInv, GateHeldByHead, Holding
    <3>4. QED
      BY <3>2, <3>3 DEF HasGate
  <2>2. CASE SendRequest(c)
    BY <2>2 DEF SendRequest, ForgetExpired, GateInv, TypeOK, NoWindow
  <2>3. CASE QueueForGate(c)
    BY <2>3 DEF QueueForGate, ForgetExpired, NoWindow
  <2>4. CASE AnswerOk(c)
    BY <2>4 DEF AnswerOk, NoWindow
  <2>5. ASSUME ~Arm(c), ~SendRequest(c), ~QueueForGate(c), ~AnswerOk(c)
        PROVE  window' = window /\ pc'[c] # "call"
    BY <1>1, <2>5
       DEF Step, Start, SleepOutside, WakeOutside, EnterGate, SleepHolding,
           WakeHolding, AnswerError, AnswerLimited, ArmOverflow,
           Retry, DbFailure, NextExchange, DirectSend, DirectAnswer, DirectLimited, Goto,
           throttle, GateInv, TypeOK
  <2>6. QED
    <3>1. PICK l \in Locations : pc' = [pc EXCEPT ![c] = l]
      BY <1>1, StepShape
    <3>2. QED
      BY <2>1, <2>2, <2>3, <2>4, <2>5, <3>1 DEF GateInv, TypeOK
<1>2. CASE Tick
  BY <1>2 DEF Tick, Elapse, GateInv, TypeOK, NoWindow
<1>3. CASE UNCHANGED vars
  BY <1>3 DEF vars, GateInv
<1>4. QED
  BY <1>1, <1>2, <1>3 DEF Next

\* The inductive invariant holds in every reachable state.
THEOREM GateInvariant == Spec => []GateInv
<1>1. GateInv /\ [Next]_vars => GateInv'
  BY TypeStep, GateStep, WindowStep DEF GateInv
<1>2. QED
  BY InitGateInv, <1>1, PTL DEF Spec

\* Types, for every number of callers and every back-off.
THEOREM TypeCorrect == Spec => []TypeOK
BY GateInvariant, PTL DEF GateInv

\* No request of the shared engine is ever out inside an armed window.
THEOREM RequestsKeepOutOfWindows == Spec => []NoRequestInsideWindow
BY GateInvariant, PTL DEF GateInv

\* At most one task is past the lock of the provider gate.
THEOREM GateIsALock == Spec => []GateHeldByHead
BY GateInvariant, PTL DEF GateInv

\* A window that runs is never cut short: a success resets the throttle, but
\* the request that succeeded was out, so no window was running.
THEOREM WindowsRunOut == Spec => WindowNeverCutShort
<1>1. GateInv /\ [Next]_vars => [window > 0 => window' >= window - 1]_vars
  <2> SUFFICES ASSUME GateInv, [Next]_vars, window > 0
               PROVE  window' >= window - 1
    OBVIOUS
  <2>0. window \in Int /\ window > 0
    BY GateAssumption DEF GateInv, TypeOK, NoWindow
  <2>1. ASSUME NEW c \in Callers, Step(c)
        PROVE  window' \in Int /\ window' >= window
    <3>1. CASE Arm(c)
      BY <2>0, <3>1, WaitType, GateAssumption DEF Arm, Larger, GateInv
    <3>2. ~SendRequest(c) /\ ~QueueForGate(c)
      BY <2>0 DEF SendRequest, QueueForGate, Blocked
    <3>3. ~AnswerOk(c)
      BY <2>0 DEF AnswerOk, GateInv, NoRequestInsideWindow, Blocked
    <3>4. ASSUME ~Arm(c) PROVE window' = window
      BY <2>1, <3>2, <3>3, <3>4
         DEF Step, Start, SleepOutside, WakeOutside, EnterGate, SleepHolding,
             WakeHolding, AnswerError, AnswerLimited,
             ArmOverflow, Retry, DbFailure, NextExchange, DirectSend,
             DirectAnswer, DirectLimited, throttle
    <3>5. QED
      BY <2>0, <3>1, <3>4
  <2>2. CASE Tick
    BY <2>0, <2>2 DEF Tick, Elapse
  <2>3. CASE UNCHANGED vars
    BY <2>0, <2>3 DEF vars
  <2>4. QED
    BY <2>0, <2>1, <2>2, <2>3 DEF Next
<1>2. QED
  BY <1>1, GateInvariant, PTL DEF Spec, WindowNeverCutShort

-----------------------------------------------------------------------------
(* Nobody who has left the loop keeps the gate, and nobody sends before the *)
(* provider's time is over.  The first needs that the queue holds waiters   *)
(* behind its head and nobody twice, the second that what is still owed to  *)
(* the provider is covered by the window, or will be by the one limited     *)
(* caller, who has the gate.                                                *)

QueueInv ==
    /\ \A i \in 1..Len(gateQueue) :
           pc[gateQueue[i]] = "gate" \/ (i = 1 /\ pc[gateQueue[i]] \in Holding)
    /\ \A i, j \in 1..Len(gateQueue) : gateQueue[i] = gateQueue[j] => i = j

OwedInv ==
    \/ owed <= Larger(window, 0)
    \/ \E c \in Callers : pc[c] = "limited" /\ owed <= Larger(window, ArmWait(c))

\* Only one task is past the lock.
LEMMA OneHolder ==
    ASSUME GateInv, NEW c \in Callers, NEW d \in Callers,
           pc[c] \in Holding, pc[d] \in Holding
    PROVE  c = d
BY DEF GateInv, GateHeldByHead, HasGate

\* A caller's step leaves the queue alone while it is not in it, moves on at its
\* head, joins its end, or leaves it from the head.
LEMMA QueueShape ==
    ASSUME GateInv, NEW c \in Callers, Step(c)
    PROVE  \/ gateQueue' = gateQueue /\ pc[c] \notin Holding \cup {"gate"}
           \/ gateQueue' = gateQueue /\ HasGate(c) /\ pc'[c] \in Holding
           \/ gateQueue' = Append(gateQueue, c) /\ pc[c] = "check" /\ pc'[c] = "gate"
           \/ gateQueue' = Tail(gateQueue) /\ HasGate(c) /\ pc[c] \in Holding
<1> USE DEF GateInv, TypeOK, Holding, Goto, GateHeldByHead, ReleaseGate
<1>1. CASE Start(c) \/ SleepOutside(c) \/ WakeOutside(c) \/ QueueForGate(c)
  BY <1>1 DEF Start, SleepOutside, WakeOutside, QueueForGate
<1>2. CASE EnterGate(c) \/ SleepHolding(c) \/ WakeHolding(c) \/ SendRequest(c)
  BY <1>2 DEF EnterGate, SleepHolding, WakeHolding, SendRequest
<1>3. CASE AnswerOk(c) \/ AnswerError(c)
  BY <1>3 DEF AnswerOk, AnswerError
<1>4. CASE \E r \in RetryAfters \cup {NoRetryAfter} : AnswerLimited(c, r)
  BY <1>4 DEF AnswerLimited
<1>5. CASE Arm(c) \/ ArmOverflow(c) \/ Retry(c)
  BY <1>5 DEF Arm, ArmOverflow, Retry
<1>6. CASE DbFailure(c)
  BY <1>6 DEF DbFailure
<1>7. CASE NextExchange(c) \/ DirectSend(c) \/ DirectAnswer(c) \/ DirectLimited(c)
  BY <1>7 DEF NextExchange, DirectSend, DirectAnswer, DirectLimited
<1>8. QED
  BY <1>1, <1>2, <1>3, <1>4, <1>5, <1>6, <1>7 DEF Step

\* What a queue holds when somebody joins it, and when its head leaves.
LEMMA JoinedQueue ==
    ASSUME NEW S, NEW q \in Seq(S), NEW c \in S
    PROVE  /\ Len(Append(q, c)) = Len(q) + 1
           /\ \A i \in 1..Len(q) : Append(q, c)[i] = q[i]
           /\ Append(q, c)[Len(q) + 1] = c
OBVIOUS

LEMMA LeftQueue ==
    ASSUME NEW S, NEW q \in Seq(S), q # <<>>
    PROVE  /\ Len(Tail(q)) = Len(q) - 1
           /\ \A i \in 1..Len(q) - 1 : Tail(q)[i] = q[i + 1]
           /\ Len(q) \in Nat
OBVIOUS

LEMMA Members ==
    ASSUME NEW S, NEW q \in Seq(S)
    PROVE  \A i \in 1..Len(q) : q[i] \in S
OBVIOUS

\* The queue stays a queue of waiters behind one head.
LEMMA QueueStep == GateInv /\ QueueInv /\ [Next]_vars => QueueInv'
<1> SUFFICES ASSUME GateInv, QueueInv, [Next]_vars PROVE QueueInv'
  OBVIOUS
<1>0. gateQueue \in Seq(Callers) /\ pc \in [Callers -> Locations]
  BY DEF GateInv, TypeOK
<1>1. ASSUME NEW c \in Callers, Step(c) PROVE QueueInv'
  <2>1. PICK l \in Locations : pc' = [pc EXCEPT ![c] = l]
    BY <1>1, StepShape
  <2>2. \A i \in 1..Len(gateQueue) : gateQueue[i] \in Callers
    BY <1>0, Members
  <2>3. \A d \in Callers : d # c => pc'[d] = pc[d]
    BY <1>0, <2>1
  <2>4. CASE gateQueue' = gateQueue /\ pc[c] \notin Holding \cup {"gate"}
    <3>1. \A i \in 1..Len(gateQueue) : gateQueue[i] # c
      BY <2>4 DEF QueueInv
    <3>2. QED
      BY <2>2, <2>3, <2>4, <3>1 DEF QueueInv
  <2>5. CASE gateQueue' = gateQueue /\ HasGate(c) /\ pc'[c] \in Holding
    <3>1. \A i \in 1..Len(gateQueue) : i # 1 => gateQueue[i] # c
      BY <1>0, <2>5 DEF QueueInv, HasGate
    <3>2. QED
      BY <2>2, <2>3, <2>5, <3>1 DEF QueueInv, HasGate
  <2>6. CASE gateQueue' = Append(gateQueue, c) /\ pc[c] = "check" /\ pc'[c] = "gate"
    <3>1. \A i \in 1..Len(gateQueue) : gateQueue[i] # c
      BY <2>6 DEF QueueInv, Holding
    <3>2. /\ Len(gateQueue') = Len(gateQueue) + 1 /\ Len(gateQueue) \in Nat
          /\ \A i \in 1..Len(gateQueue) : gateQueue'[i] = gateQueue[i]
          /\ gateQueue'[Len(gateQueue) + 1] = c
      BY <1>0, <2>6, JoinedQueue
    <3>3. \A i \in 1..Len(gateQueue') : i \in 1..Len(gateQueue) \/ i = Len(gateQueue) + 1
      BY <3>2
    <3>4. \A i \in 1..Len(gateQueue') :
              pc'[gateQueue'[i]] = "gate" \/ (i = 1 /\ pc'[gateQueue'[i]] \in Holding)
      BY <2>2, <2>3, <2>6, <3>1, <3>2, <3>3 DEF QueueInv
    <3>5. \A i, j \in 1..Len(gateQueue') : gateQueue'[i] = gateQueue'[j] => i = j
      BY <3>1, <3>2, <3>3 DEF QueueInv
    <3>6. Holding' = Holding
      BY DEF Holding
    <3>7. QED
      BY <3>4, <3>5, <3>6 DEF QueueInv
  <2>7. CASE gateQueue' = Tail(gateQueue) /\ HasGate(c) /\ pc[c] \in Holding
    <3>1. /\ gateQueue # <<>> /\ Len(gateQueue') = Len(gateQueue) - 1 /\ Len(gateQueue) \in Nat
          /\ \A i \in 1..Len(gateQueue) - 1 : gateQueue'[i] = gateQueue[i + 1]
      BY <1>0, <2>7, LeftQueue DEF HasGate
    <3>2. \A i \in 1..Len(gateQueue') : i + 1 \in 1..Len(gateQueue) /\ i + 1 # 1
                                       /\ gateQueue'[i] = gateQueue[i + 1]
      BY <3>1
    <3>3. \A i \in 1..Len(gateQueue') : pc[gateQueue'[i]] = "gate" /\ gateQueue'[i] \in Callers
      BY <2>2, <3>2 DEF QueueInv
    <3>4. \A i \in 1..Len(gateQueue') : pc'[gateQueue'[i]] = "gate"
      BY <2>3, <2>7, <3>3 DEF Holding
    <3>5. \A i, j \in 1..Len(gateQueue') : gateQueue'[i] = gateQueue'[j] => i = j
      <4> SUFFICES ASSUME NEW i \in 1..Len(gateQueue'), NEW j \in 1..Len(gateQueue'),
                          gateQueue'[i] = gateQueue'[j]
                   PROVE  i = j
        OBVIOUS
      <4>1. i + 1 = j + 1
        BY <3>2 DEF QueueInv
      <4>2. QED
        BY <3>1, <4>1
    <3>6. QED
      BY <3>4, <3>5 DEF QueueInv
  <2>8. QED
    BY <1>1, <2>4, <2>5, <2>6, <2>7, QueueShape
<1>2. ASSUME Tick \/ UNCHANGED vars PROVE QueueInv'
  BY <1>2 DEF Tick, vars, QueueInv, Holding
<1>3. QED
  BY <1>1, <1>2 DEF Next

\* The gate always belongs to a task that is still in the loop.
LEMMA QueueKept == GateInv /\ QueueInv => GateNeverOrphaned
<1> SUFFICES ASSUME GateInv, QueueInv, gateQueue # <<>>
             PROVE  pc[gateQueue[1]] \in Holding \cup {"gate"}
  BY DEF GateNeverOrphaned
<1>1. 1 \in 1..Len(gateQueue)
  BY DEF GateInv, TypeOK
<1>2. QED
  BY <1>1 DEF QueueInv

\* One lock, one living holder, and no request inside a window, for every number
\* of callers: whichever way the loop is left, the next in the queue gets the gate.
THEOREM GateAlwaysKept == Spec => []GateKept
<1>1. Init => QueueInv
  BY DEF Init, QueueInv
<1>2. Spec => []QueueInv
  BY <1>1, QueueStep, GateInvariant, PTL DEF Spec
<1>3. GateInv /\ QueueInv => GateKept
  BY QueueKept DEF GateInv, GateKept
<1>4. QED
  BY <1>2, <1>3, GateInvariant, PTL

\* What is owed to the provider stays covered: a limit comes while nothing is
\* owed, and whoever got it either arms its wait or forgets it.
LEMMA OwedStep == GateInv /\ OwedInv /\ [Next]_vars => OwedInv'
<1> SUFFICES ASSUME GateInv, OwedInv, [Next]_vars PROVE OwedInv'
  OBVIOUS
<1>0. /\ window \in NoWindow..MaxDuration /\ owed \in 0..MaxDuration
      /\ nextBackoff \in BaseBackoff..MaxDuration /\ pc \in [Callers -> Locations]
      /\ answer \in [Callers -> RetryAfters \cup {NoRetryAfter}]
      /\ RetryAfters \subseteq 0..MaxDuration /\ BaseBackoff \in Nat \ {0} /\ MaxDuration \in Nat
  BY GateAssumption DEF GateInv, TypeOK
<1>1. \A c \in Callers : ArmWait(c) \in BaseBackoff..MaxDuration
  BY WaitType DEF GateInv
<1>2. ASSUME NEW c \in Callers, pc[c] = "call"
      PROVE  owed = 0 /\ window <= 0
  <2>1. \A d \in Callers : pc[d] # "limited"
    BY <1>2, OneHolder DEF Holding
  <2>2. window <= 0
    BY <1>0, <1>2 DEF GateInv, NoRequestInsideWindow, Blocked, NoWindow
  <2>3. QED
    BY <1>0, <2>1, <2>2 DEF OwedInv, Larger, NoWindow
<1>3. ASSUME NEW c \in Callers, NEW r \in RetryAfters \cup {NoRetryAfter}, AnswerLimited(c, r)
      PROVE  OwedInv'
  <2>1. pc'[c] = "limited" /\ owed' = Larger(0, Larger(r, nextBackoff))
    BY <1>0, <1>2, <1>3 DEF AnswerLimited, Goto
  <2>2. ArmWait(c)' = Larger(r, nextBackoff)
    BY <1>0, <1>3 DEF AnswerLimited, ArmWait, throttle
  <2>3. Larger(r, nextBackoff) \in Nat /\ window' \in NoWindow..MaxDuration
    <3>1. r \in Int
      BY <1>0, <1>3 DEF NoRetryAfter
    <3>2. QED
      BY <1>0, <1>3, <3>1 DEF Larger, AnswerLimited, throttle
  <2>4. owed' <= Larger(window, ArmWait(c))'
    BY <1>0, <2>1, <2>2, <2>3 DEF Larger, NoWindow
  <2>5. QED
    BY <2>1, <2>4 DEF OwedInv
<1>4. ASSUME NEW c \in Callers, Arm(c) PROVE OwedInv'
  <2>1. \A d \in Callers : pc[d] = "limited" => d = c
    BY <1>4, OneHolder DEF Arm, Holding
  <2>2. owed <= Larger(window, 0) \/ owed <= Larger(window, ArmWait(c))
    BY <2>1 DEF OwedInv
  <2>3. window' = Larger(window, ArmWait(c)) /\ owed' = owed
    BY <1>4 DEF Arm
  <2>4. QED
    BY <1>0, <1>1, <2>2, <2>3 DEF OwedInv, Larger, NoWindow
<1>5. ASSUME NEW c \in Callers, ArmOverflow(c) \/ (DbFailure(c) /\ pc[c] = "limited")
      PROVE  OwedInv'
  <2>1. owed' = Larger(window, 0) /\ window' = window
    BY <1>5 DEF ArmOverflow, DbFailure, throttle
  <2>2. QED
    BY <1>0, <2>1 DEF OwedInv, Larger, NoWindow
<1>6. ASSUME NEW c \in Callers, AnswerOk(c) PROVE OwedInv'
  BY <1>2, <1>6 DEF AnswerOk, OwedInv, Larger, NoWindow
<1>7. ASSUME NEW c \in Callers, pc[c] # "limited", owed' = owed, nextBackoff' = nextBackoff,
             window' = window \/ (window = 0 /\ window' = NoWindow),
             NEW l \in Locations, pc' = [pc EXCEPT ![c] = l],
             answer' = answer \/ answer' = [answer EXCEPT ![c] = NoRetryAfter]
      PROVE  OwedInv'
  <2>1. \A d \in Callers : pc[d] = "limited" => pc'[d] = "limited" /\ answer'[d] = answer[d]
    BY <1>0, <1>7
  <2>2. \A d \in Callers : pc[d] = "limited" => ArmWait(d)' = ArmWait(d)
    BY <1>7, <2>1 DEF ArmWait
  <2>3. Larger(window, 0)' = Larger(window, 0)
    BY <1>0, <1>7 DEF Larger, NoWindow
  <2>4. \A d \in Callers : Larger(window', ArmWait(d)) = Larger(window, ArmWait(d))
    BY <1>0, <1>1, <1>7 DEF Larger, NoWindow
  <2>5. CASE owed <= Larger(window, 0)
    BY <1>7, <2>3, <2>5 DEF OwedInv
  <2>6. ASSUME NEW d \in Callers, pc[d] = "limited", owed <= Larger(window, ArmWait(d))
        PROVE  OwedInv'
    <3>1. pc'[d] = "limited" /\ owed' <= Larger(window', ArmWait(d)')
      BY <1>7, <2>1, <2>2, <2>4, <2>6
    <3>2. QED
      BY <3>1 DEF OwedInv
  <2>7. QED
    BY <2>5, <2>6 DEF OwedInv
<1>8. ASSUME NEW c \in Callers, Step(c) PROVE OwedInv'
  <2>1. PICK l \in Locations : pc' = [pc EXCEPT ![c] = l]
    BY <1>8, StepShape
  <2>2. CASE Start(c) \/ SleepOutside(c) \/ WakeOutside(c) \/ EnterGate(c) \/ SleepHolding(c)
             \/ WakeHolding(c) \/ AnswerError(c) \/ Retry(c) \/ NextExchange(c)
    BY <1>7, <2>1, <2>2
       DEF Start, SleepOutside, WakeOutside, EnterGate, SleepHolding, WakeHolding,
           AnswerError, Retry, NextExchange, throttle
  <2>3. CASE QueueForGate(c) \/ SendRequest(c)
    BY <1>7, <2>1, <2>3 DEF QueueForGate, SendRequest, ForgetExpired
  <2>4. CASE DirectSend(c) \/ DirectAnswer(c) \/ DirectLimited(c)
    BY <1>7, <2>1, <2>4 DEF DirectSend, DirectAnswer, DirectLimited, throttle
  <2>5. CASE DbFailure(c) /\ pc[c] # "limited"
    BY <1>7, <2>1, <2>5 DEF DbFailure, throttle
  <2>6. QED
    BY <1>3, <1>4, <1>5, <1>6, <1>8, <2>2, <2>3, <2>4, <2>5 DEF Step
<1>9. CASE Tick
  <2>1. Larger(window, 0)' >= Elapse(Larger(window, 0)) /\ owed' = Elapse(owed)
    BY <1>0, <1>9 DEF Tick, Larger, Elapse, NoWindow
  <2>2. \A c \in Callers : ArmWait(c)' = ArmWait(c) /\ pc'[c] = pc[c]
    BY <1>9 DEF Tick, ArmWait
  <2>3. \A c \in Callers : owed <= Larger(window, ArmWait(c)) => owed' <= Larger(window', ArmWait(c))
    BY <1>0, <1>1, <1>9 DEF Tick, Larger, Elapse, NoWindow
  <2>4. CASE owed <= Larger(window, 0)
    BY <1>0, <1>9, <2>4 DEF Tick, Larger, Elapse, NoWindow, OwedInv
  <2>5. ASSUME NEW d \in Callers, pc[d] = "limited", owed <= Larger(window, ArmWait(d))
        PROVE  OwedInv'
    <3>1. pc'[d] = "limited" /\ owed' <= Larger(window', ArmWait(d)')
      BY <2>2, <2>3, <2>5
    <3>2. QED
      BY <3>1 DEF OwedInv
  <2>6. QED
    BY <2>4, <2>5 DEF OwedInv
<1>10. CASE UNCHANGED vars
  <2>1. \A c \in Callers : ArmWait(c)' = ArmWait(c)
    BY <1>10 DEF vars, ArmWait
  <2>2. QED
    BY <1>10, <2>1 DEF vars, OwedInv
<1>11. QED
  BY <1>8, <1>9, <1>10 DEF Next

\* Whatever number of callers, nothing is sent while the provider still asked to
\* be left alone, and no window is cut short: a rate limit is kept by everybody,
\* whoever got it, unless it is forgotten before it is armed.
THEOREM LimitsAreKept == Spec => RateLimitsKept
<1>1. Init => OwedInv
  BY DEF Init, OwedInv, Larger, NoWindow
<1>2. Spec => []OwedInv
  BY <1>1, OwedStep, GateInvariant, PTL DEF Spec
<1>3. GateInv /\ OwedInv /\ [Next]_vars
         => [\A c \in Callers : (pc[c] # "call" /\ pc'[c] = "call") => owed = 0]_vars
  <2> SUFFICES ASSUME GateInv, OwedInv, [Next]_vars, NEW c \in Callers,
                      pc[c] # "call", pc'[c] = "call"
               PROVE  owed = 0
    OBVIOUS
  <2>1. \A d \in Callers : Step(d) => d = c
    <3> SUFFICES ASSUME NEW d \in Callers, Step(d), d # c PROVE FALSE
      OBVIOUS
    <3>1. PICK l \in Locations : pc' = [pc EXCEPT ![d] = l]
      BY StepShape
    <3>2. QED
      BY <3>1 DEF GateInv, TypeOK
  <2>2. Step(c)
    BY <2>1 DEF Next, Tick, vars
  <2>3. SendRequest(c)
    BY <2>2
       DEF Step, Start, SleepOutside, WakeOutside, QueueForGate, EnterGate, SleepHolding,
           WakeHolding, AnswerOk, AnswerError, AnswerLimited, Arm, ArmOverflow,
           Retry, DbFailure, NextExchange, DirectSend, DirectAnswer, DirectLimited, Goto,
           GateInv, TypeOK
  <2>4. \A d \in Callers : pc[d] # "limited"
    BY <2>3, OneHolder DEF SendRequest, Holding
  <2>5. window \in NoWindow..MaxDuration /\ window <= 0 /\ owed \in 0..MaxDuration
    BY <2>3, GateAssumption DEF SendRequest, Blocked, NoWindow, GateInv, TypeOK
  <2>6. QED
    BY <2>4, <2>5, GateAssumption DEF OwedInv, Larger, NoWindow
<1>4. Spec => RateLimitHonoured
  BY <1>2, <1>3, GateInvariant, PTL DEF Spec, RateLimitHonoured
<1>5. QED
  BY <1>4, WindowsRunOut DEF RateLimitsKept

\* The gate implements ProviderAccess: requests one at a time, none during a
\* blackout.
THEOREM GateImplementsAccess == Spec => ImplementsAccess
<1> DEFINE flying == {c \in Callers : pc[c] \in {"call", "limited"}}
           dark == Larger(window, 0)
<1> USE DEF Access!PInit, Access!PNext, Access!pvars, Access!Send,
            Access!Answer, Access!Pass
<1>1. Init => Access!PInit
  BY DEF Init, Larger, NoWindow
<1>2. GateInv /\ [Next]_vars => [Access!PNext]_Access!pvars
  <2> SUFFICES ASSUME GateInv, [Next]_vars
               PROVE  Access!PNext \/ (flying' = flying /\ dark' = dark)
    OBVIOUS
  <2>0. window \in Int /\ window >= -1
    BY GateAssumption DEF GateInv, TypeOK, NoWindow
  <2>1. ASSUME NEW c \in Callers, SendRequest(c) PROVE Access!Send(c)
    <3>1. flying = {}
      BY <2>1 DEF SendRequest, GateInv, GateHeldByHead, HasGate, Holding
    <3>2. dark = 0 /\ dark' = 0
      BY <2>0, <2>1 DEF SendRequest, ForgetExpired, Blocked, Larger, NoWindow
    <3>3. flying' = {c}
      BY <2>1, <3>1 DEF SendRequest, Goto, GateInv, TypeOK
    <3>4. QED
      BY <3>1, <3>2, <3>3
  <2>2. ASSUME NEW c \in Callers, pc[c] \in {"call", "limited"},
               NEW l \in Locations \ {"call", "limited"}, Goto(c, l),
               window' \in Int
        PROVE  Access!Answer(c)
    <3>1. c \in flying /\ flying' = flying \ {c}
      BY <2>2 DEF Goto, GateInv, TypeOK
    <3>2. dark' \in Nat
      BY <2>2 DEF Larger
    <3>3. QED
      BY <3>1, <3>2
  <2>3. ASSUME NEW c \in Callers,
               AnswerOk(c) \/ AnswerError(c) \/ Arm(c) \/ ArmOverflow(c)
        PROVE  Access!Answer(c)
    <3>1. window' \in Int
      BY <2>0, <2>3, WaitType, GateAssumption
         DEF AnswerOk, AnswerError, Arm, ArmOverflow, Larger, NoWindow,
             throttle, GateInv
    <3>2. pc[c] \in {"call", "limited"}
      BY <2>3 DEF AnswerOk, AnswerError, Arm, ArmOverflow
    <3>3. Goto(c, "done") \/ Goto(c, "failed") \/ Goto(c, "armed")
             \/ Goto(c, "panicked")
      BY <2>3 DEF AnswerOk, AnswerError, Arm, ArmOverflow
    <3>4. QED
      BY <2>2, <3>1, <3>2, <3>3 DEF Locations, Holding, Finished
  <2>4. ASSUME NEW c \in Callers, DbFailure(c)
        PROVE  Access!PNext \/ (flying' = flying /\ dark' = dark)
    <3>1. CASE pc[c] = "limited"
      BY <2>0, <2>2, <2>4, <3>1
         DEF DbFailure, throttle, Locations, Holding, Finished
    <3>2. CASE pc[c] # "limited"
      <4>1. flying' = flying
        BY <2>4, <3>2 DEF DbFailure, Goto, GateInv, TypeOK
      <4>2. dark' = dark
        BY <2>4 DEF DbFailure, throttle
      <4>3. QED
        BY <4>1, <4>2
    <3>3. QED
      BY <3>1, <3>2
  <2>5. ASSUME NEW c \in Callers, QueueForGate(c)
        PROVE  flying' = flying /\ dark' = dark
    BY <2>0, <2>5
       DEF QueueForGate, Goto, ForgetExpired, Larger, NoWindow, GateInv, TypeOK
  <2>6. ASSUME NEW c \in Callers,
               NEW r \in RetryAfters \cup {NoRetryAfter},
               AnswerLimited(c, r)
        PROVE  flying' = flying /\ dark' = dark
    BY <2>6 DEF AnswerLimited, Goto, throttle, GateInv, TypeOK
  <2>7. ASSUME NEW c \in Callers,
               \/ Start(c) \/ SleepOutside(c) \/ WakeOutside(c) \/ EnterGate(c)
               \/ SleepHolding(c) \/ WakeHolding(c) \/ Retry(c)
               \/ NextExchange(c) \/ DirectSend(c) \/ DirectAnswer(c) \/ DirectLimited(c)
        PROVE  flying' = flying /\ dark' = dark
    BY <2>7
       DEF Start, SleepOutside, WakeOutside, EnterGate, SleepHolding,
           WakeHolding, Retry, NextExchange, DirectSend, DirectAnswer, DirectLimited, Goto,
           throttle, GateInv, TypeOK
  <2>8. CASE Tick
    <3>1. flying' = flying
      BY <2>8 DEF Tick
    <3>2. Access!Pass \/ (flying' = flying /\ dark' = dark)
      BY <2>0, <2>8, <3>1 DEF Tick, Elapse, Larger
    <3>3. QED
      BY <3>2
  <2>9. CASE UNCHANGED vars
    BY <2>9 DEF vars
  <2>10. QED
    BY <2>1, <2>3, <2>4, <2>5, <2>6, <2>7, <2>8, <2>9 DEF Next, Step
<1>3. QED
  BY <1>1, <1>2, GateInvariant, PTL DEF Spec, ImplementsAccess, Access!PSpec

-----------------------------------------------------------------------------
(* Types of the answer's frames and of the accumulator.                    *)

\* STRING, spelled so that the provers see the letters of a garbled character in it.
Letters == STRING \cup {"?", "e'"}
Words == Seq(Letters)
Keys == {"none", "call", "index", "item"} \X Nat
CallRecords == [id : Keys, name : Words, args : Words]
Accumulators == [text : Words, order : Seq(Keys), alias : Seq(Keys \X Keys),
                 calls : Seq(CallRecords), errors : Nat, usage : BOOLEAN]
FrameTypes == {"text", "text_done", "message", "call", "item", "delta", "done", "finish", "usage",
               "[DONE]", "completed", "body", "error", "failed", "garbage", "break"}
Frames == [type : FrameTypes, no : Nat, index : BOOLEAN, id : Keys, name : Words,
           text : Words, error : Errors]

\* A key is in the order once, each with its call, and aliases lead to keys in it.
OrderOK(a) ==
    /\ Len(a.order) = Len(a.calls) /\ IsInjective(a.order)
    /\ \A i \in DOMAIN a.alias : Place(a, a.alias[i][2]) > 0

Ordered == {a \in Accumulators : OrderOK(a)}

LEMMA AccumulatorParts ==
    ASSUME NEW a \in Accumulators
    PROVE  /\ a.order \in Seq(Keys) /\ Len(a.order) \in Nat /\ DOMAIN a.order = 1..Len(a.order)
           /\ a.calls \in Seq(CallRecords) /\ Len(a.calls) \in Nat
           /\ DOMAIN a.calls = 1..Len(a.calls)
           /\ a.alias \in Seq(Keys \X Keys) /\ Len(a.alias) \in Nat
           /\ DOMAIN a.alias = 1..Len(a.alias)
           /\ \A i \in 1..Len(a.order) : a.order[i] \in Keys
           /\ \A i \in 1..Len(a.calls) : a.calls[i] \in CallRecords
           /\ \A i \in 1..Len(a.alias) : a.alias[i] \in Keys \X Keys
<1>1. a.order \in Seq(Keys) /\ a.calls \in Seq(CallRecords) /\ a.alias \in Seq(Keys \X Keys)
  BY DEF Accumulators
<1> DEFINE pairs == Keys \X Keys
<1>2. a.alias \in Seq(pairs)
  BY <1>1
<1> HIDE DEF pairs
<1>3. \A i \in 1..Len(a.alias) : a.alias[i] \in pairs
  BY <1>2, ElementOfSeq
<1>4. QED
  BY <1>1, <1>2, <1>3, LenProperties, ElementOfSeq DEF pairs

LEMMA PlaceGives ==
    ASSUME NEW a \in Accumulators, NEW k
    PROVE  /\ Place(a, k) \in 0..Len(a.order)
           /\ Place(a, k) > 0 <=> \E i \in 1..Len(a.order) : a.order[i] = k
           /\ Place(a, k) > 0 => a.order[Place(a, k)] = k
<1>1. Len(a.order) \in Nat /\ DOMAIN a.order = 1..Len(a.order)
  BY AccumulatorParts
<1>2. CASE \E i \in DOMAIN a.order : a.order[i] = k
  <2>1. Place(a, k) \in DOMAIN a.order /\ a.order[Place(a, k)] = k
    BY <1>2 DEF Place
  <2>2. QED
    BY <1>1, <1>2, <2>1
<1>3. CASE ~\E i \in DOMAIN a.order : a.order[i] = k
  <2>1. Place(a, k) = 0
    BY <1>3 DEF Place
  <2>2. QED
    BY <1>1, <1>3, <2>1
<1>4. QED
  BY <1>2, <1>3

LEMMA AliasGives ==
    ASSUME NEW a \in Ordered, NEW key \in Keys
    PROVE  Alias(a, key) \in Keys /\ (Alias(a, key) = key \/ Place(a, Alias(a, key)) > 0)
<1>1. a \in Accumulators /\ OrderOK(a)
  BY DEF Ordered
<1>2. DOMAIN a.alias = 1..Len(a.alias) /\ \A i \in 1..Len(a.alias) : a.alias[i] \in Keys \X Keys
  BY <1>1, AccumulatorParts
<1>3. CASE \E i \in DOMAIN a.alias : a.alias[i][1] = key
  <2>1. PICK i \in DOMAIN a.alias : Alias(a, key) = a.alias[i][2]
    BY <1>3 DEF Alias
  <2>2. QED
    BY <1>1, <1>2, <2>1 DEF OrderOK
<1>4. CASE ~\E i \in DOMAIN a.alias : a.alias[i][1] = key
  BY <1>4 DEF Alias
<1>5. QED
  BY <1>3, <1>4

\* A longer order has the places it had.
LEMMA PlaceStays ==
    ASSUME NEW a \in Accumulators, NEW b \in Accumulators, NEW k, Place(a, k) > 0,
           Len(b.order) >= Len(a.order), \A i \in 1..Len(a.order) : b.order[i] = a.order[i]
    PROVE  Place(b, k) > 0
<1>1. Len(a.order) \in Nat /\ Len(b.order) \in Nat
  BY AccumulatorParts
<1>2. PICK i \in 1..Len(a.order) : a.order[i] = k
  BY PlaceGives
<1>3. i \in 1..Len(b.order) /\ b.order[i] = k
  BY <1>1, <1>2
<1>4. QED
  BY <1>3, PlaceGives

LEMMA AliasAdded ==
    ASSUME NEW a \in Ordered, NEW k \in Keys, NEW to \in Keys, Place(a, to) > 0
    PROVE  LET b == [a EXCEPT !.alias = Append(@, <<k, to>>)] IN
           b \in Ordered /\ b.errors = a.errors
<1> DEFINE b == [a EXCEPT !.alias = Append(@, <<k, to>>)]
           more == Append(a.alias, <<k, to>>)
           pairs == Keys \X Keys
<1>1. a \in Accumulators /\ OrderOK(a)
  BY DEF Ordered
<1>2. a.alias \in Seq(pairs) /\ <<k, to>> \in pairs /\ Len(a.alias) \in Nat
      /\ DOMAIN a.alias = 1..Len(a.alias)
  BY <1>1, AccumulatorParts
<1> HIDE DEF pairs
<1>3. /\ more \in Seq(pairs) /\ Len(more) = Len(a.alias) + 1
      /\ \A i \in 1..Len(a.alias) : more[i] = a.alias[i]
      /\ more[Len(a.alias) + 1] = <<k, to>>
  BY <1>2, AppendProperties
<1>4. DOMAIN more = 1..(Len(a.alias) + 1) /\ \A i \in 1..(Len(a.alias) + 1) :
          i \in 1..Len(a.alias) \/ i = Len(a.alias) + 1
  BY <1>2, <1>3, LenProperties
<1>5. b = [a EXCEPT !.alias = more]
  OBVIOUS
<1> HIDE DEF more, b
<1>6. b \in Accumulators /\ b.order = a.order /\ b.calls = a.calls /\ b.alias = more
      /\ b.errors = a.errors
  BY <1>1, <1>3, <1>5 DEF Accumulators, pairs
<1>7. \A x : Place(b, x) = Place(a, x)
  BY <1>6 DEF Place
<1>8. \A i \in DOMAIN b.alias : Place(b, b.alias[i][2]) > 0
  BY <1>1, <1>2, <1>3, <1>4, <1>6, <1>7 DEF OrderOK
<1>9. OrderOK(b)
  BY <1>1, <1>6, <1>8 DEF OrderOK
<1>10. b \in Ordered
  BY <1>6, <1>9 DEF Ordered
<1>11. QED
  BY <1>6, <1>10 DEF b

LEMMA CallAdded ==
    ASSUME NEW a \in Ordered, NEW k \in Keys, NEW id \in Keys, Place(a, k) = 0
    PROVE  LET b == [a EXCEPT !.order = Append(@, k),
                              !.calls = Append(@, [id |-> id, name |-> <<>>, args |-> <<>>])] IN
           b \in Ordered /\ b.errors = a.errors
<1> DEFINE added == [id |-> id, name |-> <<>>, args |-> <<>>]
           order == Append(a.order, k)
           calls == Append(a.calls, added)
           b == [a EXCEPT !.order = order, !.calls = calls]
           n == Len(a.order)
<1>1. a \in Accumulators /\ OrderOK(a) /\ n = Len(a.calls)
  BY DEF Ordered, OrderOK
<1>2. /\ a.order \in Seq(Keys) /\ a.calls \in Seq(CallRecords) /\ n \in Nat
      /\ DOMAIN a.order = 1..n /\ DOMAIN a.calls = 1..n
  BY <1>1, AccumulatorParts
<1>3. added \in CallRecords
  BY EmptySeq DEF CallRecords, Words
<1> HIDE DEF added
<1>4. /\ order \in Seq(Keys) /\ Len(order) = n + 1 /\ order[n + 1] = k
      /\ \A i \in 1..n : order[i] = a.order[i]
  BY <1>2, AppendProperties
<1>5. calls \in Seq(CallRecords) /\ Len(calls) = n + 1
  BY <1>1, <1>2, <1>3, AppendProperties
<1> HIDE DEF order, calls, n
<1>6. b \in Accumulators /\ b.order = order /\ b.calls = calls /\ b.alias = a.alias
      /\ b.errors = a.errors
  BY <1>1, <1>4, <1>5 DEF Accumulators
<1> HIDE DEF b
<1>7. \A i \in 1..n : a.order[i] # k
  BY <1>1, PlaceGives DEF n
<1>8. IsInjective(b.order)
  <2>1. DOMAIN order = 1..(n + 1) /\ \A i \in 1..(n + 1) : i \in 1..n \/ i = n + 1
    BY <1>2, <1>4, LenProperties
  <2>2. \A i, j \in 1..n : a.order[i] = a.order[j] => i = j
    BY <1>1, <1>2 DEF OrderOK, IsInjective
  <2>3. \A i, j \in 1..(n + 1) : order[i] = order[j] => i = j
    BY <1>4, <1>7, <2>1, <2>2
  <2>4. QED
    BY <1>6, <2>1, <2>3 DEF IsInjective
<1>9. ASSUME NEW i \in DOMAIN b.alias PROVE Place(b, b.alias[i][2]) > 0
  <2>1. Place(a, a.alias[i][2]) > 0
    BY <1>1, <1>6, <1>9 DEF OrderOK
  <2>2. Len(b.order) >= Len(a.order) /\ \A j \in 1..Len(a.order) : b.order[j] = a.order[j]
    BY <1>2, <1>4, <1>6 DEF n
  <2>3. QED
    BY <1>1, <1>6, <2>1, <2>2, PlaceStays
<1>10. b \in Ordered
  BY <1>4, <1>5, <1>6, <1>8, <1>9 DEF Ordered, OrderOK
<1>11. QED
  BY <1>6, <1>10 DEF b, order, calls, added

\* A call that changes leaves the order.
LEMMA CallChanged ==
    ASSUME NEW a \in Ordered, NEW calls \in Seq(CallRecords), Len(calls) = Len(a.calls)
    PROVE  LET b == [a EXCEPT !.calls = calls] IN b \in Ordered /\ b.errors = a.errors
<1> DEFINE b == [a EXCEPT !.calls = calls]
<1>1. a \in Accumulators /\ OrderOK(a)
  BY DEF Ordered
<1>2. b \in Accumulators /\ b.order = a.order /\ b.calls = calls /\ b.alias = a.alias
      /\ b.errors = a.errors
  BY <1>1 DEF Accumulators
<1> HIDE DEF b
<1>3. \A x : Place(b, x) = Place(a, x)
  BY <1>2 DEF Place
<1>4. OrderOK(b)
  BY <1>1, <1>2, <1>3 DEF OrderOK
<1>5. QED
  BY <1>2, <1>4 DEF Ordered, b

LEMMA MergeTyped ==
    ASSUME NEW s \in Words, NEW t \in Words
    PROVE  Merge(s, t) \in Words
BY ConcatProperties DEF Merge, Words

LEMMA EnsureKeeps ==
    ASSUME NEW a \in Ordered, NEW key \in Keys, NEW id \in Keys
    PROVE  Ensure(a, key, id) \in Ordered /\ Ensure(a, key, id).errors = a.errors
<1> DEFINE k == Alias(a, key)
           same == {i \in DOMAIN a.calls : id # NoId /\ a.calls[i].id = id}
           j == CHOOSE i \in same : TRUE
           linked == [a EXCEPT !.alias = Append(@, <<k, a.order[j]>>)]
           b == IF Place(a, k) = 0 /\ same # {} THEN linked ELSE a
           p == Place(b, Alias(b, k))
           added == [b EXCEPT !.order = Append(@, k),
                              !.calls = Append(@, [id |-> id, name |-> <<>>, args |-> <<>>])]
           named == [b EXCEPT !.calls[p].id = id]
<1>1. Ensure(a, key, id) = IF p = 0 THEN added ELSE IF id = NoId THEN b ELSE named
  BY DEF Ensure
<1>2. a \in Accumulators /\ OrderOK(a)
  BY DEF Ordered
<1>3. k \in Keys
  BY AliasGives
<1>4. same # {} => linked \in Ordered /\ linked.errors = a.errors
  <2> HAVE same # {}
  <2>1. j \in DOMAIN a.calls
    OBVIOUS
  <2>2. j \in 1..Len(a.order)
    BY <1>2, <2>1, AccumulatorParts DEF OrderOK
  <2> HIDE DEF j, k, linked
  <2>3. a.order[j] \in Keys /\ Place(a, a.order[j]) > 0
    BY <1>2, <2>2, AccumulatorParts, PlaceGives
  <2>4. QED
    BY <1>3, <2>3, AliasAdded DEF linked
<1> HIDE DEF k, same, linked
<1>5. b \in Ordered /\ b.errors = a.errors
  BY <1>4
<1> HIDE DEF b
<1>6. b \in Accumulators /\ OrderOK(b)
  BY <1>5 DEF Ordered
<1>7. p \in 0..Len(b.order) /\ (p = 0 => Place(b, k) = 0)
  <2>1. p \in 0..Len(b.order)
    BY <1>6, PlaceGives
  <2>2. Alias(b, k) = k \/ Place(b, Alias(b, k)) > 0
    BY <1>3, <1>5, AliasGives
  <2>3. QED
    BY <2>1, <2>2
<1> HIDE DEF p
<1>8. p = 0 => added \in Ordered /\ added.errors = a.errors
  <2> HAVE p = 0
  <2>1. Place(b, k) = 0
    BY <1>7
  <2> HIDE DEF added
  <2>2. QED
    BY <1>3, <1>5, <2>1, CallAdded DEF added
<1>9. named \in Ordered /\ named.errors = a.errors
  <2> DEFINE calls == [b.calls EXCEPT ![p].id = id]
  <2>1. named = [b EXCEPT !.calls = calls]
    BY <1>6 DEF Accumulators
  <2>2. \A i \in 1..Len(b.calls) : b.calls[i] \in CallRecords
    BY <1>6, AccumulatorParts
  <2>3. b.calls \in Seq(CallRecords) /\ DOMAIN b.calls = 1..Len(b.calls) /\ Len(b.calls) \in Nat
    BY <1>6, AccumulatorParts
  <2>4. calls \in [1..Len(b.calls) -> CallRecords]
    BY <2>2, <2>3 DEF CallRecords
  <2>5. calls \in Seq(CallRecords) /\ Len(calls) = Len(b.calls)
    BY <2>3, <2>4
  <2> HIDE DEF calls, named
  <2>6. QED
    BY <1>5, <2>1, <2>5, CallChanged
<1>10. QED
  BY <1>1, <1>5, <1>8, <1>9

LEMMA TellKeeps ==
    ASSUME NEW a \in Ordered, NEW key \in Keys, NEW id \in Keys,
           NEW name \in Words, NEW args \in Words
    PROVE  LET b == Tell(a, key, id, name, args) IN b \in Ordered /\ b.errors = a.errors
<1> DEFINE b == Ensure(a, key, id)
           p == Place(b, Alias(b, key))
           calls == [b.calls EXCEPT ![p].name = Merge(@, name), ![p].args = Merge(@, args)]
           told == [b EXCEPT !.calls[p].name = Merge(@, name), !.calls[p].args = Merge(@, args)]
<1>1. Tell(a, key, id, name, args) = told
  BY DEF Tell
<1>2. b \in Ordered /\ b.errors = a.errors
  BY EnsureKeeps
<1> HIDE DEF b, p
<1>3. b \in Accumulators
  BY <1>2 DEF Ordered
<1>4. told = [b EXCEPT !.calls = calls]
  BY <1>3 DEF Accumulators
<1>5. /\ b.calls \in Seq(CallRecords) /\ DOMAIN b.calls = 1..Len(b.calls) /\ Len(b.calls) \in Nat
      /\ \A i \in 1..Len(b.calls) : b.calls[i] \in CallRecords
  BY <1>3, AccumulatorParts
<1>6. \A c \in CallRecords : /\ Merge(c.name, name) \in Words
                             /\ Merge(c.args, args) \in Words
  BY MergeTyped DEF CallRecords
<1>7. DOMAIN calls = 1..Len(b.calls) /\ calls = [i \in 1..Len(b.calls) |-> calls[i]]
  BY <1>5
<1>8. ASSUME NEW i \in 1..Len(b.calls) PROVE calls[i] \in CallRecords
  <2>1. calls[i] = IF i = p THEN [b.calls[i] EXCEPT !.name = Merge(@, name),
                                                   !.args = Merge(@, args)]
                   ELSE b.calls[i]
    BY <1>5
  <2> HIDE DEF calls
  <2>2. b.calls[i] \in CallRecords
    BY <1>5
  <2>3. QED
    BY <1>6, <2>1, <2>2 DEF CallRecords
<1> HIDE DEF calls, told
<1>9. calls \in Seq(CallRecords) /\ Len(calls) = Len(b.calls)
  <2> DEFINE n == Len(b.calls)
  <2>1. n \in Nat
    BY <1>5
  <2> HIDE DEF n
  <2>2. calls \in [1..n -> CallRecords]
    BY <1>7, <1>8 DEF n
  <2>3. calls \in Seq(CallRecords) /\ Len(calls) = n
    BY <2>1, <2>2
  <2>4. QED
    BY <2>3 DEF n
<1>10. told = [b EXCEPT !.calls = calls]
  BY <1>4
<1>11. QED
  BY <1>1, <1>2, <1>9, <1>10, CallChanged

-----------------------------------------------------------------------------
(* What the provider means, as frames and as the accumulator gets it.      *)

LEMMA Wider ==
    ASSUME NEW S, NEW T, S \subseteq T, NEW s \in Seq(S)
    PROVE  s \in Seq(T)
<1> DEFINE n == Len(s)
<1>1. n \in Nat /\ s = [i \in 1..n |-> s[i]] /\ \A i \in 1..n : s[i] \in T
  BY LenProperties, ElementOfSeq
<1> HIDE DEF n
<1>2. [i \in 1..n |-> s[i]] \in Seq(T)
  BY <1>1
<1>3. QED
  BY <1>1, <1>2

\* What is meant has no mark of a cut character.
Plain == STRING \ {"?"}
Sayings == Seq(Plain)

LEMMA SayingsAreWords ==
    /\ \A s \in Sayings : s \in Words
    /\ \A s \in Seq(Sayings) : s \in Seq(Words)
<1>1. Plain \subseteq Letters
  BY DEF Letters, Plain
<1>2. Sayings \subseteq Words
  <2> HIDE DEF Letters, Plain
  <2>1. QED
    BY <1>1, Wider DEF Words, Sayings
<1> HIDE DEF Sayings
<1>3. \A s \in Seq(Sayings) : s \in Seq(Words)
  <2> HIDE DEF Words
  <2>1. QED
    BY <1>2, Wider
<1>4. QED
  BY <1>2, <1>3

LEMMA MeantSayings ==
    ASSUME meant \in Meant
    PROVE  /\ meant.messages \in Seq(Sayings)
           /\ meant.calls \in Seq([name : Sayings, frags : Seq(Sayings)])
           /\ \A i \in 1..Len(meant.messages) : meant.messages[i] \in Sayings
           /\ \A i \in 1..Len(meant.calls) :
                 /\ meant.calls[i].name \in Sayings /\ meant.calls[i].frags \in Seq(Sayings)
                 /\ Arguments(i) \in Sayings
<1> DEFINE Parts == [name : Sayings, frags : Seq(Sayings)]
<1>1. meant.messages \in Seq(Sayings) /\ meant.calls \in Seq(Parts)
  BY StreamAssumption DEF Sayings, Plain
<1> HIDE DEF Parts
<1>2. \A i \in 1..Len(meant.calls) : meant.calls[i] \in Parts
  BY <1>1, ElementOfSeq
<1>3. \A i \in 1..Len(meant.calls) : meant.calls[i].name \in Sayings /\ meant.calls[i].frags \in Seq(Sayings)
  BY <1>2 DEF Parts
<1>4. \A i \in 1..Len(meant.calls) : Arguments(i) \in Sayings
  <2> TAKE i \in 1..Len(meant.calls)
  <2> DEFINE frags == meant.calls[i].frags
  <2>1. frags \in Seq(Seq(Plain)) /\ Arguments(i) = FlattenSeq(frags)
    BY <1>3 DEF Sayings, Arguments
  <2> HIDE DEF frags
  <2>2. QED
    BY <2>1, FlattenTyped DEF Sayings
<1>5. \A i \in 1..Len(meant.messages) : meant.messages[i] \in Sayings
  <2> HIDE DEF Sayings
  <2>1. QED
    BY <1>1, ElementOfSeq
<1>6. QED
  BY <1>1, <1>3, <1>4, <1>5 DEF Parts

LEMMA MeantParts ==
    ASSUME meant \in Meant
    PROVE  /\ meant.messages \in Seq(Words) /\ Len(meant.messages) \in Nat
           /\ DOMAIN meant.messages = 1..Len(meant.messages)
           /\ \A i \in 1..Len(meant.messages) : meant.messages[i] \in Words
           /\ Len(meant.calls) \in Nat /\ DOMAIN meant.calls = 1..Len(meant.calls)
           /\ \A i \in 1..Len(meant.calls) :
                 /\ meant.calls[i].name \in Words /\ meant.calls[i].frags \in Seq(Words)
                 /\ Arguments(i) \in Words
<1>1. meant.messages \in Seq(Words)
  BY MeantSayings, SayingsAreWords
<1>2. \A i \in 1..Len(meant.calls) :
          /\ meant.calls[i].name \in Words /\ meant.calls[i].frags \in Seq(Words)
          /\ Arguments(i) \in Words
  BY MeantSayings, SayingsAreWords
<1>3. Len(meant.calls) \in Nat /\ DOMAIN meant.calls = 1..Len(meant.calls)
  BY MeantSayings, LenProperties
<1>4. /\ Len(meant.messages) \in Nat /\ DOMAIN meant.messages = 1..Len(meant.messages)
      /\ \A i \in 1..Len(meant.messages) : meant.messages[i] \in Words
  <2> HIDE DEF Words
  <2>1. QED
    BY <1>1, LenProperties, ElementOfSeq
<1>5. QED
  BY <1>1, <1>2, <1>3, <1>4

\* All the calls of a body, one after the other.
WithCall(x, i) == Tell(x, <<"call", i>>, <<"call", i>>, meant.calls[i].name, Arguments(i))

\* The accumulator on the way through them.
AppendRuns(a) ==
    LET n == Len(meant.calls) IN
    {w \in [0..n -> Ordered] :
        /\ w[0] = a /\ w[n] = AppendCalls(a)
        /\ \A i \in 1..n : w[i] = WithCall(w[i - 1], i) /\ w[i].errors = a.errors}

LEMMA AppendRun ==
    ASSUME meant \in Meant, NEW a \in Ordered
    PROVE  AppendRuns(a) # {}
<1> DEFINE n == Len(meant.calls)
           S == {x \in Ordered : x.errors = a.errors}
           step == [p \in S \X (1..n) |-> WithCall(p[1], p[2])]
           Defines(w) == w = [i \in 0..n |-> IF i = 0 THEN a ELSE WithCall(w[i - 1], i)]
           with == CHOOSE w : Defines(w)
<1>1. n \in Nat /\ \A i \in 1..n : meant.calls[i].name \in Words /\ Arguments(i) \in Words
  BY MeantParts
<1>2. AppendCalls(a) = with[n]
  BY DEF AppendCalls, WithCall
<1>3. \A i \in 1..n : <<"call", i>> \in Keys
  BY <1>1 DEF Keys
<1>4. \A x \in S, i \in 1..n : step[<<x, i>>] = WithCall(x, i)
  OBVIOUS
<1>5. ASSUME NEW x \in S, NEW i \in 1..n PROVE WithCall(x, i) \in S
  <2> DEFINE key == <<"call", i>>
             name == meant.calls[i].name
             args == Arguments(i)
             told == Tell(x, key, key, name, args)
  <2>1. x \in Ordered /\ x.errors = a.errors
    OBVIOUS
  <2>2. key \in Keys /\ name \in Words /\ args \in Words
    BY <1>1, <1>3
  <2>3. WithCall(x, i) = told
    BY DEF WithCall
  <2> HIDE DEF key, name, args, S
  <2>4. told \in Ordered /\ told.errors = x.errors
    BY <2>1, <2>2, TellKeeps
  <2> HIDE DEF told
  <2>5. told \in S
    BY <2>1, <2>4 DEF S
  <2>6. QED
    BY <2>3, <2>5
<1>6. step \in StepsOn(S, n) /\ a \in S
  BY <1>5 DEF StepsOn
<1> HIDE DEF n, S, step, Defines
<1>7. RunOf(step, a, S, n) # {}
  BY <1>1, <1>6, Recursion
<1>8. PICK w \in [0..n -> S] : w[0] = a /\ \A i \in 1..n : w[i] = step[<<w[i - 1], i>>]
  BY <1>7 DEF RunOf
<1>9. Defines(w)
  <2>1. \A i \in 1..n : i - 1 \in 0..n /\ i # 0
    BY <1>1
  <2>2. \A i \in 0..n : i # 0 => i \in 1..n
    BY <1>1
  <2>3. \A i \in 1..n : w[i] = WithCall(w[i - 1], i)
    BY <1>4, <1>8, <2>1
  <2>4. QED
    BY <1>8, <2>2, <2>3 DEF Defines
<1>10. Defines(with)
  BY <1>9
<1> HIDE DEF with
<1> DEFINE T == {i \in 0..n : with[i] \in S}
<1>11. 0 \in T
  BY <1>1, <1>6, <1>10 DEF Defines
<1>12. \A i \in 1..n : i \in 0..n /\ i # 0 /\ with[i] = WithCall(with[i - 1], i)
  BY <1>1, <1>10 DEF Defines
<1>13. \A i \in 1..n : i - 1 \in T => i \in T
  BY <1>5, <1>12
<1>14. \A i \in 0..n : with[i] \in S
  <2> HIDE DEF T
  <2>1. \A i \in 0..n : i \in T
    BY <1>1, <1>11, <1>13, UpTo
  <2>2. QED
    BY <2>1 DEF T
<1>15. \A i \in 0..n : with[i] \in Ordered /\ with[i].errors = a.errors
  BY <1>14 DEF S
<1>16. with \in [0..n -> Ordered] /\ with[0] = a
  <2>1. with = [i \in 0..n |-> IF i = 0 THEN a ELSE WithCall(with[i - 1], i)] /\ 0 \in 0..n
    BY <1>1, <1>10 DEF Defines
  <2>2. DOMAIN with = 0..n /\ with = [i \in DOMAIN with |-> with[i]] /\ with[0] = a
    BY <2>1
  <2>3. QED
    BY <1>15, <2>2
<1>17. with \in AppendRuns(a)
  BY <1>2, <1>12, <1>15, <1>16 DEF AppendRuns, n
<1>18. QED
  BY <1>17

LEMMA AppendKeeps ==
    ASSUME meant \in Meant, NEW a \in Ordered
    PROVE  AppendCalls(a) \in Ordered /\ AppendCalls(a).errors = a.errors
<1> DEFINE n == Len(meant.calls)
<1>1. PICK w \in [0..n -> Ordered] :
          w[0] = a /\ w[n] = AppendCalls(a) /\ \A i \in 1..n : w[i].errors = a.errors
  BY AppendRun DEF AppendRuns
<1>2. n \in Nat /\ n \in 0..n /\ (n = 0 \/ n \in 1..n)
  BY MeantParts
<1> HIDE DEF n
<1>3. QED
  BY <1>1, <1>2

-----------------------------------------------------------------------------
(* The frames of an answer.                                                *)

Kinds == [kind : {"chat", "responses"}, stream : BOOLEAN, index : BOOLEAN, every : BOOLEAN]

LEMMA FramesMade ==
    ASSUME api \in Kinds, NEW type \in FrameTypes
    PROVE  /\ Whisper(type) \in Frames /\ Whisper(type).type = type /\ Whisper(type).text = <<>>
           /\ \A x \in Letters : Text(x) \in Frames
           /\ \A text \in Words : Whole(type, text) \in Frames
           /\ \A e \in Errors : /\ ErrorFrame(e) \in Frames /\ ErrorFrame(e).type = "error"
                                /\ ErrorFrame(e).error = e /\ ErrorFrame(e).text = <<>>
           /\ \A i \in Nat, id \in BOOLEAN, name \in Words, text \in Words :
                 OfCall(type, i, id, name, text) \in Frames
<1>1. /\ NoId \in Keys /\ \A i \in Nat : <<"call", i>> \in Keys
      /\ <<>> \in Words /\ \A x \in Letters : <<x>> \in Words
  BY DEF NoId, Keys, Words
<1>2. NoError \in Errors
  BY DEF NoError, Errors
<1>3. {"usage", "text", "error"} \subseteq FrameTypes /\ api.index \in BOOLEAN
  BY DEF FrameTypes, Kinds
<1>4. Blank \in Frames /\ Blank.text = <<>>
  BY <1>1, <1>2, <1>3 DEF Blank, Frames, Words
<1> HIDE DEF NoId, Keys, Errors, FrameTypes, Words
<1>5. Whisper(type) \in Frames /\ Whisper(type).type = type /\ Whisper(type).text = <<>>
  BY <1>4 DEF Whisper, Frames
<1>6. \A x \in Letters : Text(x) \in Frames
  BY <1>1, <1>3, <1>4 DEF Text, Frames, Words
<1>7. \A text \in Words : Whole(type, text) \in Frames
  BY <1>4 DEF Whole, Frames, Words
<1>8. \A e \in Errors : /\ ErrorFrame(e) \in Frames /\ ErrorFrame(e).type = "error"
                        /\ ErrorFrame(e).error = e /\ ErrorFrame(e).text = <<>>
  BY <1>3, <1>4 DEF ErrorFrame, Frames
<1>9. \A i \in Nat, id \in BOOLEAN, name \in Words, text \in Words :
          OfCall(type, i, id, name, text) \in Frames
  BY <1>1, <1>3, <1>4 DEF OfCall, Frames, Words
<1>10. QED
  BY <1>5, <1>6, <1>7, <1>8, <1>9

LEMMA DeltasMade ==
    ASSUME api \in Kinds, NEW m \in Words
    PROVE  Deltas(m) \in Seq(Frames) /\ ResponsesMessage(m) \in Seq(Frames)
<1>1. \A x \in Letters : Text(x) \in Frames
  BY FramesMade DEF FrameTypes
<1>2. Len(m) \in Nat /\ DOMAIN m = 1..Len(m) /\ \A k \in 1..Len(m) : m[k] \in Letters
  BY DEF Words
<1>3. Deltas(m) \in Seq(Frames)
  <2> DEFINE n == Len(m)
             F == Frames
  <2>1. n \in Nat /\ Deltas(m) = [k \in 1..n |-> Text(m[k])] /\ \A k \in 1..n : Text(m[k]) \in F
    BY <1>1, <1>2 DEF Deltas
  <2> HIDE DEF n, F
  <2>2. Deltas(m) \in [1..n -> F]
    BY <2>1
  <2>3. Deltas(m) \in Seq(F)
    BY <2>1, <2>2
  <2>4. QED
    BY <2>3 DEF F
<1>4. Whole("text_done", m) \in Frames /\ Whole("message", m) \in Frames
  <2>1. {"text_done", "message"} \subseteq FrameTypes
    BY DEF FrameTypes
  <2>2. QED
    BY <2>1, FramesMade
<1>5. <<Whole("text_done", m), Whole("message", m)>> \in Seq(Frames)
  BY <1>4
<1>6. QED
  BY <1>3, <1>5, ConcatProperties DEF ResponsesMessage

LEMMA CallMade ==
    ASSUME api \in Kinds, meant \in Meant, NEW i \in 1..Len(meant.calls)
    PROVE  ChatCall(i) \in Seq(Frames) /\ ResponsesCall(i) \in Seq(Frames)
<1> DEFINE c == meant.calls[i]
           n == Len(c.frags)
           F == Frames
<1>1. i \in Nat /\ c.name \in Words /\ c.frags \in Seq(Words) /\ Arguments(i) \in Words
  BY MeantParts
<1>2. /\ n \in Nat /\ DOMAIN c.frags = 1..n /\ \A k \in 1..n : c.frags[k] \in Words
  <2> HIDE DEF Words
  <2>1. QED
    BY <1>1, LenProperties, ElementOfSeq
<1>3. api.every \in BOOLEAN /\ <<>> \in Words
  BY DEF Kinds, Words
<1>4. /\ \A id \in BOOLEAN, name \in Words, text \in Words :
            /\ OfCall("call", i, id, name, text) \in F /\ OfCall("item", i, id, name, text) \in F
            /\ OfCall("delta", i, id, name, text) \in F /\ OfCall("done", i, id, name, text) \in F
  <2>1. {"call", "item", "delta", "done"} \subseteq FrameTypes
    BY DEF FrameTypes
  <2>2. QED
    BY <1>1, <2>1, FramesMade
<1> DEFINE chat == [k \in DOMAIN meant.calls[i].frags |->
                        OfCall("call", i, api.every, IF api.every THEN meant.calls[i].name ELSE <<>>,
                               meant.calls[i].frags[k])]
           deltas == [k \in DOMAIN meant.calls[i].frags |->
                         OfCall("delta", i, api.every, <<>>, meant.calls[i].frags[k])]
           opens == <<OfCall("call", i, TRUE, meant.calls[i].name, <<>>)>>
           added == <<OfCall("item", i, TRUE, meant.calls[i].name, <<>>)>>
           ends == <<OfCall("done", i, api.every, <<>>, Arguments(i)),
                     OfCall("item", i, TRUE, meant.calls[i].name, Arguments(i))>>
<1> HIDE DEF n, F
<1>5. chat \in [1..n -> F] /\ deltas \in [1..n -> F]
  BY <1>1, <1>2, <1>3, <1>4
<1>6. opens \in Seq(F) /\ added \in Seq(F) /\ ends \in Seq(F)
  <2>1. /\ OfCall("call", i, TRUE, meant.calls[i].name, <<>>) \in F
        /\ OfCall("item", i, TRUE, meant.calls[i].name, <<>>) \in F
        /\ OfCall("done", i, api.every, <<>>, Arguments(i)) \in F
        /\ OfCall("item", i, TRUE, meant.calls[i].name, Arguments(i)) \in F
    BY <1>1, <1>3, <1>4
  <2>2. \A x, y \in F : <<x>> \in Seq(F) /\ <<x, y>> \in Seq(F)
    OBVIOUS
  <2> HIDE DEF OfCall
  <2>3. QED
    BY <2>1, <2>2
<1>7. ChatCall(i) = opens \o chat /\ ResponsesCall(i) = added \o deltas \o ends
  BY DEF ChatCall, ResponsesCall
<1> HIDE DEF chat, deltas, opens, added, ends
<1>8. chat \in Seq(F) /\ deltas \in Seq(F)
  BY <1>2, <1>5
<1>9. added \o deltas \in Seq(F)
  BY <1>6, <1>8, ConcatProperties
<1>10. opens \o chat \in Seq(F) /\ added \o deltas \o ends \in Seq(F)
  BY <1>6, <1>8, <1>9, ConcatProperties
<1>11. QED
  BY <1>7, <1>10 DEF F

LEMMA StreamMade ==
    ASSUME api \in Kinds, meant \in Meant
    PROVE  Stream \in Seq(Frames) /\ (~api.stream => Len(Stream) = 1)
<1> DEFINE m == Len(meant.messages)
           n == Len(meant.calls)
           texts == [i \in DOMAIN meant.messages |-> Deltas(meant.messages[i])]
           messages == [i \in DOMAIN meant.messages |-> ResponsesMessage(meant.messages[i])]
           chats == [i \in DOMAIN meant.calls |-> ChatCall(i)]
           items == [i \in DOMAIN meant.calls |-> ResponsesCall(i)]
           F == Frames
           Parts == Seq(F)
<1>1. /\ m \in Nat /\ DOMAIN meant.messages = 1..m /\ \A i \in 1..m : meant.messages[i] \in Words
      /\ n \in Nat /\ DOMAIN meant.calls = 1..n
  BY MeantParts
<1>2. /\ \A i \in 1..m : /\ Deltas(meant.messages[i]) \in Parts
                         /\ ResponsesMessage(meant.messages[i]) \in Parts
      /\ \A i \in 1..n : ChatCall(i) \in Parts /\ ResponsesCall(i) \in Parts
  BY <1>1, DeltasMade, CallMade
<1>3. \A type \in FrameTypes : Whisper(type) \in F
  BY FramesMade
<1>4. {"body", "finish", "usage", "[DONE]", "completed"} \subseteq FrameTypes
  BY DEF FrameTypes
<1> HIDE DEF m, n, F, Parts
<1>5. texts \in Seq(Parts) /\ messages \in Seq(Parts) /\ chats \in Seq(Parts) /\ items \in Seq(Parts)
  BY <1>1, <1>2
<1>6. /\ FlattenSeq(texts) \in Seq(F) /\ FlattenSeq(messages) \in Seq(F)
      /\ FlattenSeq(chats) \in Seq(F) /\ FlattenSeq(items) \in Seq(F)
  BY <1>5, FlattenTyped DEF Parts
<1>7. /\ AllMessages(Deltas) = FlattenSeq(texts) /\ AllMessages(ResponsesMessage) = FlattenSeq(messages)
      /\ AllCalls(ChatCall) = FlattenSeq(chats) /\ AllCalls(ResponsesCall) = FlattenSeq(items)
  BY DEF AllMessages, AllCalls
<1> HIDE DEF texts, messages, chats, items
<1> DEFINE last == <<Whisper("finish"), Whisper("usage"), Whisper("[DONE]")>>
           chat == FlattenSeq(texts) \o FlattenSeq(chats) \o last
           responses == FlattenSeq(messages) \o FlattenSeq(items) \o <<Whisper("completed")>>
<1>8. last \in Seq(F) /\ <<Whisper("completed")>> \in Seq(F) /\ <<Whisper("body")>> \in Seq(F)
  BY <1>3, <1>4
<1>9. FlattenSeq(texts) \o FlattenSeq(chats) \in Seq(F) /\ FlattenSeq(messages) \o FlattenSeq(items) \in Seq(F)
  BY <1>6, ConcatProperties
<1> HIDE DEF last
<1>10. chat \in Seq(F) /\ responses \in Seq(F)
  BY <1>8, <1>9, ConcatProperties
<1>11. Stream = IF ~api.stream THEN <<Whisper("body")>> ELSE IF api.kind = "chat" THEN chat ELSE responses
  BY <1>7 DEF Stream, last
<1> HIDE DEF chat, responses
<1>12. Len(<<Whisper("body")>>) = 1
  OBVIOUS
<1>13. QED
  BY <1>8, <1>10, <1>11, <1>12 DEF F

-----------------------------------------------------------------------------
(* The decoders keep the accumulator in order.                             *)

LEMMA RestChanged ==
    ASSUME NEW a \in Ordered, NEW b \in Accumulators,
           b.order = a.order, b.calls = a.calls, b.alias = a.alias
    PROVE  b \in Ordered
<1>1. OrderOK(a) /\ \A x : Place(b, x) = Place(a, x)
  BY DEF Ordered, Place
<1>2. OrderOK(b)
  BY <1>1 DEF OrderOK
<1>3. QED
  BY <1>2 DEF Ordered

LEMMA FieldsChanged ==
    ASSUME NEW a \in Ordered, NEW text \in Words
    PROVE  /\ [a EXCEPT !.text = text] \in Ordered /\ [a EXCEPT !.usage = TRUE] \in Ordered
           /\ [a EXCEPT !.errors = @ + 1] \in Ordered /\ [a EXCEPT !.errors = @ + 1].errors > 0
<1>1. a \in Accumulators /\ a.errors \in Nat
  BY DEF Ordered, Accumulators
<1> DEFINE b == [a EXCEPT !.text = text]
           c == [a EXCEPT !.usage = TRUE]
           d == [a EXCEPT !.errors = @ + 1]
<1>2. b \in Accumulators /\ b.order = a.order /\ b.calls = a.calls /\ b.alias = a.alias
  BY <1>1 DEF Accumulators, Words
<1>3. c \in Accumulators /\ c.order = a.order /\ c.calls = a.calls /\ c.alias = a.alias
  BY <1>1 DEF Accumulators
<1>4. d \in Accumulators /\ d.order = a.order /\ d.calls = a.calls /\ d.alias = a.alias /\ d.errors > 0
  <2> DEFINE e == a.errors + 1
  <2>1. d = [a EXCEPT !.errors = e] /\ e \in Nat /\ e > 0
    BY <1>1
  <2> HIDE DEF d, e
  <2>2. QED
    BY <1>1, <2>1 DEF Accumulators
<1> HIDE DEF b, c, d
<1>5. b \in Ordered /\ c \in Ordered /\ d \in Ordered
  BY <1>2, <1>3, <1>4, RestChanged
<1>6. QED
  BY <1>4, <1>5 DEF b, c, d

LEMMA FrameParts ==
    ASSUME NEW f \in Frames
    PROVE  /\ f.type \in FrameTypes /\ f.no \in Nat /\ f.index \in BOOLEAN /\ f.id \in Keys
           /\ f.name \in Words /\ f.text \in Words /\ f.error \in Errors
           /\ ChatKey(f) \in Keys /\ StreamKey(f) \in Keys
           /\ Garble(f) \in Frames /\ Garble(f).type = f.type /\ Garble(f).error = f.error
<1>1. /\ f.type \in FrameTypes /\ f.no \in Nat /\ f.index \in BOOLEAN /\ f.id \in Keys
      /\ f.name \in Words /\ f.text \in Words /\ f.error \in Errors
  BY DEF Frames, Words
<1>2. ChatKey(f) \in Keys /\ StreamKey(f) \in Keys
  <2>1. <<"index", f.no>> \in Keys /\ <<"index", 0>> \in Keys /\ <<"item", f.no>> \in Keys
    BY <1>1 DEF Keys
  <2> HIDE DEF Keys
  <2>2. QED
    BY <1>1, <2>1 DEF ChatKey, StreamKey
<1> DEFINE text == [k \in DOMAIN f.text |-> IF f.text[k] = "e'" THEN "?" ELSE f.text[k]]
<1>3. text \in Words
  <2> DEFINE n == Len(f.text)
  <2>1. n \in Nat /\ DOMAIN f.text = 1..n /\ \A k \in 1..n : f.text[k] \in Letters
    BY <1>1 DEF Words
  <2> HIDE DEF n
  <2>2. text \in [1..n -> Letters]
    <3>1. text = [k \in 1..n |-> IF f.text[k] = "e'" THEN "?" ELSE f.text[k]]
      BY <2>1
    <3>2. \A k \in 1..n : (IF f.text[k] = "e'" THEN "?" ELSE f.text[k]) \in Letters
      BY <2>1 DEF Letters
    <3> HIDE DEF text
    <3>3. QED
      BY <3>1, <3>2
  <2>3. QED
    BY <2>1, <2>2 DEF Words
<1>5. Garble(f) = [f EXCEPT !.text = text]
  BY DEF Garble, Frames
<1> HIDE DEF text
<1>6. Garble(f) \in Frames /\ Garble(f).type = f.type /\ Garble(f).error = f.error
  BY <1>3, <1>5 DEF Frames, Words
<1>7. QED
  BY <1>1, <1>2, <1>6

LEMMA BodyKeeps ==
    ASSUME meant \in Meant, NEW a \in Ordered
    PROVE  /\ [AppendCalls(Snapshot(a, FlattenSeq(meant.messages))) EXCEPT !.usage = TRUE] \in Ordered
           /\ [Output(a) EXCEPT !.usage = TRUE] \in Ordered
<1>1. FlattenSeq(meant.messages) \in Words
  BY MeantParts, FlattenTyped DEF Words
<1>2. meant.messages # <<>> => Last(meant.messages) \in Words
  <2> HAVE meant.messages # <<>>
  <2>1. meant.messages \in Seq(Words) /\ \A i \in 1..Len(meant.messages) : meant.messages[i] \in Words
    BY MeantParts
  <2>2. Len(meant.messages) \in 1..Len(meant.messages)
    <3> HIDE DEF Words
    <3>1. QED
      BY <2>1, EmptySeq, LenProperties
  <2>3. QED
    BY <2>1, <2>2 DEF Last
<1>3. /\ Snapshot(a, FlattenSeq(meant.messages)) \in Ordered
      /\ meant.messages # <<>> => Snapshot(a, Last(meant.messages)) \in Ordered
  BY <1>1, <1>2, FieldsChanged DEF Snapshot
<1>4. /\ AppendCalls(Snapshot(a, FlattenSeq(meant.messages))) \in Ordered
      /\ Output(a) \in Ordered
  BY <1>3, AppendKeeps DEF Output
<1>5. <<>> \in Words
  BY DEF Words
<1>6. QED
  BY <1>4, <1>5, FieldsChanged

LEMMA DecodeKeeps ==
    ASSUME api \in Kinds, meant \in Meant, NEW a \in Ordered, NEW f \in Frames
    PROVE  /\ Decode(a, f) \in Ordered
           /\ f.type = "error" =>
                 \/ Decode(a, f).errors > 0 \/ ~f.error.told
                 \/ api.kind = "chat" /\ ~api.stream /\ Decode(a, f) = a
<1> DEFINE said == Said(a, f.text)
           shot == Snapshot(a, f.text)
           chat == Tell(a, ChatKey(f), f.id, f.name, f.text)
           told == Tell(a, StreamKey(f), f.id, f.name, f.text)
           used == [a EXCEPT !.usage = TRUE]
           failed == [a EXCEPT !.errors = @ + 1]
           body == [AppendCalls(Snapshot(a, FlattenSeq(meant.messages))) EXCEPT !.usage = TRUE]
           output == [Output(a) EXCEPT !.usage = TRUE]
<1>1. f.id \in Keys /\ f.name \in Words /\ f.text \in Words /\ ChatKey(f) \in Keys /\ StreamKey(f) \in Keys
  BY FrameParts
<1>2. a.text \o f.text \in Words /\ f.text \in Words
  BY <1>1, ConcatProperties DEF Ordered, Accumulators, Words
<1>3. /\ said \in Ordered /\ shot \in Ordered /\ used \in Ordered
      /\ failed \in Ordered /\ failed.errors > 0
  <2>1. said = [a EXCEPT !.text = a.text \o f.text] /\ shot = [a EXCEPT !.text = f.text]
    BY DEF Said, Snapshot
  <2>2. QED
    BY <1>2, <2>1, FieldsChanged
<1>4. chat \in Ordered /\ told \in Ordered
  BY <1>1, TellKeeps DEF Words
<1>5. body \in Ordered /\ output \in Ordered
  BY BodyKeeps
<1> DEFINE d == Decode(a, f)
           inChat == DecodeChat(a, f)
           inResponses == DecodeResponses(a, f)
<1>6. inChat = CASE f.type = "text" -> said
                 [] f.type = "call" -> chat
                 [] f.type = "usage" -> used
                 [] f.type = "error" /\ f.error.told /\ api.stream -> failed
                 [] f.type = "body" -> body
                 [] OTHER -> a
  BY DEF DecodeChat
<1>7. inResponses = CASE f.type = "text" -> said
                      [] f.type \in {"text_done", "message"} -> shot
                      [] f.type \in {"item", "delta", "done"} -> told
                      [] f.type = "error" /\ f.error.told -> failed
                      [] f.type \in {"body", "completed"} -> output
                      [] OTHER -> a
  BY DEF DecodeResponses
<1>8. d = IF api.kind = "chat" THEN inChat ELSE inResponses
  BY DEF Decode
<1>9. api.kind \in {"chat", "responses"} /\ api.stream \in BOOLEAN
  BY DEF Kinds
<1> HIDE DEF said, shot, chat, told, used, failed, body, output, inChat, inResponses, d
<1>10. /\ inChat \in Ordered
       /\ f.type = "error" /\ f.error.told => IF api.stream THEN inChat.errors > 0 ELSE inChat = a
  BY <1>3, <1>4, <1>5, <1>6, <1>9
<1>11. inResponses \in Ordered /\ (f.type = "error" /\ f.error.told => inResponses.errors > 0)
  BY <1>3, <1>4, <1>5, <1>7, <1>9
<1>12. QED
  BY <1>8, <1>9, <1>10, <1>11 DEF d

-----------------------------------------------------------------------------
(* The invariant of an exchange.                                           *)

Harms == {"refused", "broken", "garbled", "error", "failed", "garbage", "closed", "late"}
Results == {"none", "answer", "parse_error", "transport", "http", "rate_limited"}

DecodeTypes ==
    /\ api \in Kinds /\ meant \in Meant
    /\ stage \in {"asked", "reading", "ended"}
    /\ wire \in Seq(Frames) /\ acc \in Ordered /\ refused \subseteq Errors /\ harm \subseteq Harms
    /\ part \in {"none", "clean", "garbled"} /\ (part # "none" => wire # <<>>)
    /\ result.kind \in Results

\* Before the response nothing has been read; what is in one JSON body is one frame.
Untouched ==
    /\ stage = "asked" => wire = <<>> /\ acc = Fresh /\ refused = {} /\ harm = {}
    /\ ~api.stream /\ wire # <<>> => acc = Fresh /\ Len(wire) = 1

\* An error was counted, or could not be told, or was in the body of a chat.
ErrorNoted ==
    \/ acc.errors > 0 \/ \E e \in refused : ~e.told
    \/ api.kind = "chat" /\ ~api.stream /\ acc = Fresh

\* What went wrong is still on its way, or has left its mark.
Marked ==
    stage = "reading" =>
        /\ harm \cap {"refused", "late"} = {}
        /\ "error" \in harm =>
              (\E e \in Errors : wire = <<ErrorFrame(e)>>) \/ (wire = <<>> /\ ErrorNoted)
        /\ harm \cap {"garbage", "broken"} # {} =>
              Len(wire) = 1 /\ wire[1].type \in {"garbage", "break"}

Unanswered == stage # "ended" => result.kind = "none"

DecodeInv == DecodeTypes /\ Untouched /\ Marked /\ Unanswered /\ EndsAsReported

LEMMA FreshOrdered == Fresh \in Ordered
<1>1. Fresh \in Accumulators /\ Fresh.order = <<>> /\ Fresh.calls = <<>> /\ Fresh.alias = <<>>
  BY EmptySeq DEF Fresh, Accumulators, Words
<1>2. OrderOK(Fresh)
  BY <1>1 DEF OrderOK, IsInjective
<1>3. QED
  BY <1>1, <1>2 DEF Ordered

LEMMA DecodeInit == SdInit => DecodeInv
<1> SUFFICES ASSUME SdInit PROVE DecodeInv
  OBVIOUS
<1>1. DecodeTypes
  BY FreshOrdered, EmptySeq DEF SdInit, DecodeTypes, Kinds, Results
<1>2. Untouched /\ Marked /\ Unanswered /\ EndsAsReported
  BY DEF SdInit, Untouched, Marked, Unanswered, EndsAsReported, OnlyEndsPassForAnswers,
         LimitsAreReported, Answered
<1>3. QED
  BY <1>1, <1>2 DEF DecodeInv

\* An exchange that ends keeps what the accumulator and the wire were known for.
LEMMA EndStep ==
    ASSUME DecodeInv, NEW kind \in Results, NEW a \in Ordered, Ends(kind, a), acc' = a,
           api' = api, meant' = meant, wire' = wire, part' = part, refused' = refused,
           harm' \subseteq Harms, ~api.stream /\ wire # <<>> => a = acc, EndsAsReported'
    PROVE  DecodeInv'
<1>1. stage' = "ended" /\ result'.kind = kind
  BY DEF Ends
<1>2. DecodeTypes'
  BY <1>1 DEF DecodeInv, DecodeTypes
<1>3. Untouched' /\ Marked' /\ Unanswered'
  BY <1>1 DEF DecodeInv, Untouched, Marked, Unanswered
<1>4. QED
  BY <1>2, <1>3 DEF DecodeInv

LEMMA RefuseStep == DecodeInv /\ Refuse => DecodeInv'
<1> SUFFICES ASSUME DecodeInv, Refuse PROVE DecodeInv'
  OBVIOUS
<1>1. stage = "asked" /\ acc = Fresh /\ refused = {} /\ wire = <<>>
      /\ UNCHANGED <<api, meant, wire, part, acc, refused>>
  BY DEF DecodeInv, Untouched, Refuse
<1>2. PICK kind \in {"transport", "rate_limited", "http"} : Ends(kind, Fresh)
  BY DEF Refuse
<1>3. harm' \subseteq Harms
  BY DEF Refuse, Harms
<1>4. result'.kind = kind
  BY <1>2 DEF Ends
<1>5. EndsAsReported'
  BY <1>1, <1>4 DEF EndsAsReported, OnlyEndsPassForAnswers, LimitsAreReported, Answered
<1>6. kind \in Results
  BY DEF Results
<1>7. QED
  BY <1>1, <1>2, <1>3, <1>5, <1>6, FreshOrdered, EndStep

\* While the answer is read, nothing is said of its end.
LEMMA ReadingStep ==
    ASSUME DecodeInv, stage' = "reading", result' = result, stage # "ended"
    PROVE  Unanswered' /\ EndsAsReported'
BY DEF DecodeInv, Unanswered, EndsAsReported, OnlyEndsPassForAnswers, LimitsAreReported, Answered

LEMMA RespondStep == DecodeInv /\ Respond => DecodeInv'
<1> SUFFICES ASSUME DecodeInv, Respond PROVE DecodeInv'
  OBVIOUS
<1>1. /\ api \in Kinds /\ meant \in Meant /\ part = "none"
      /\ wire = <<>> /\ acc = Fresh /\ harm = {}
  BY DEF DecodeInv, DecodeTypes, Untouched, Respond
<1>2. Stream \in Seq(Frames) /\ (~api.stream => Len(Stream) = 1)
  BY <1>1, StreamMade
<1>3. stage' = "reading" /\ wire' = Stream
      /\ UNCHANGED <<api, meant, part, acc, refused, harm, result>>
  BY DEF Respond
<1>4. DecodeTypes'
  BY <1>1, <1>2, <1>3 DEF DecodeInv, DecodeTypes
<1>5. Untouched' /\ Marked'
  BY <1>1, <1>2, <1>3 DEF Untouched, Marked
<1>6. QED
  BY <1>3, <1>4, <1>5, ReadingStep DEF DecodeInv, Respond

LEMMA HarmStep ==
    ASSUME DecodeInv, NEW kind \in Harms \ {"refused", "late", "garbled"}, NEW frames \in Seq(Frames),
           Harm(kind, frames),
           kind = "error" => \E e \in Errors : frames = <<ErrorFrame(e)>>,
           kind \in {"garbage", "broken"} => frames[1].type \in {"garbage", "break"},
           Len(frames) = 1 \/ (kind = "closed" /\ frames = <<>>)
    PROVE  DecodeInv'
<1>1. /\ stage = "reading" /\ stage' = "reading" /\ wire # <<>> /\ wire' = frames /\ part' = "none"
      /\ harm \subseteq {"garbled"} /\ harm' = harm \cup {kind}
      /\ UNCHANGED <<api, meant, acc, refused, result>>
  BY DEF Harm
<1>2. DecodeTypes'
  BY <1>1 DEF DecodeInv, DecodeTypes, Harms
<1>3. Untouched'
  BY <1>1 DEF DecodeInv, Untouched
<1>4. Marked'
  BY <1>1 DEF Marked
<1>5. QED
  BY <1>1, <1>2, <1>3, <1>4, ReadingStep DEF DecodeInv

LEMMA DisturbStep == DecodeInv /\ Disturb => DecodeInv'
<1> SUFFICES ASSUME DecodeInv, Disturb PROVE DecodeInv'
  OBVIOUS
<1>1. api \in Kinds
  BY DEF DecodeInv, DecodeTypes
<1>2. \A x \in Frames : <<x>> \in Seq(Frames) /\ Len(<<x>>) = 1 /\ <<x>>[1] = x
  OBVIOUS
<1>3. /\ {"failed", "garbage", "break"} \subseteq FrameTypes
      /\ {"error", "failed", "garbage", "closed", "broken"} \subseteq Harms \ {"refused", "late", "garbled"}
  BY DEF FrameTypes, Harms
<1>4. /\ \A type \in FrameTypes : Whisper(type) \in Frames /\ Whisper(type).type = type
      /\ \A e \in Errors : ErrorFrame(e) \in Frames
  <2>1. "failed" \in FrameTypes
    BY <1>3
  <2>2. QED
    BY <1>1, <2>1, FramesMade
<1>5. ASSUME NEW e \in Errors, Harm("error", <<ErrorFrame(e)>>) PROVE DecodeInv'
  <2> DEFINE frames == <<ErrorFrame(e)>>
  <2>1. frames \in Seq(Frames) /\ Len(frames) = 1
    BY <1>2, <1>4
  <2>2. \E x \in Errors : frames = <<ErrorFrame(x)>>
    OBVIOUS
  <2> HIDE DEF frames
  <2>3. Harm("error", frames)
    BY <1>5 DEF frames
  <2>4. QED
    BY <1>3, <2>1, <2>2, <2>3, HarmStep
<1>6. ASSUME NEW kind \in {"failed", "garbage", "broken"}, NEW type \in {"failed", "garbage", "break"},
             kind # "failed" => type # "failed", Harm(kind, <<Whisper(type)>>)
      PROVE  DecodeInv'
  <2> DEFINE frames == <<Whisper(type)>>
  <2>1. type \in FrameTypes
    BY <1>3
  <2>2. frames \in Seq(Frames) /\ Len(frames) = 1 /\ frames[1].type = type
    BY <1>2, <1>4, <2>1
  <2> HIDE DEF frames
  <2>3. Harm(kind, frames)
    BY <1>6 DEF frames
  <2>4. kind \in Harms \ {"refused", "late", "garbled"} /\ kind # "error"
    BY <1>3
  <2>5. QED
    BY <1>6, <2>2, <2>3, <2>4, HarmStep
<1>7. ASSUME Harm("closed", <<>>) PROVE DecodeInv'
  <2>1. <<>> \in Seq(Frames)
    BY EmptySeq
  <2>2. QED
    BY <1>3, <1>7, <2>1, HarmStep
<1>8. QED
  BY <1>5, <1>6, <1>7 DEF Disturb

LEMMA ReadPartStep == DecodeInv /\ ReadPart => DecodeInv'
<1> SUFFICES ASSUME DecodeInv, ReadPart PROVE DecodeInv'
  OBVIOUS
<1>1. /\ stage = "reading" /\ wire # <<>> /\ part' \in {"clean", "garbled"}
      /\ harm' = harm \/ harm' = harm \cup {"garbled"}
      /\ UNCHANGED <<api, meant, stage, wire, acc, ending, refused, result>>
  BY DEF ReadPart
<1>2. DecodeTypes'
  BY <1>1 DEF DecodeInv, DecodeTypes, Harms
<1>3. Untouched' /\ Marked'
  BY <1>1 DEF DecodeInv, Untouched, Marked
<1>4. QED
  BY <1>1, <1>2, <1>3, ReadingStep DEF DecodeInv

LEMMA ReadFrameStep == DecodeInv /\ ReadFrame => DecodeInv'
<1> SUFFICES ASSUME DecodeInv, ReadFrame PROVE DecodeInv'
  OBVIOUS
<1> DEFINE f == IF part = "garbled" THEN Garble(Head(wire)) ELSE Head(wire)
<1>1. /\ stage = "reading" /\ wire # <<>> /\ Head(wire).type \notin {"garbage", "break"}
      /\ acc' = Decode(acc, f) /\ wire' = Tail(wire) /\ part' = "none"
      /\ refused' = IF f.type = "error" THEN refused \cup {f.error} ELSE refused
      /\ UNCHANGED <<api, meant, stage, harm, result>>
  BY DEF ReadFrame
<1>2. api \in Kinds /\ meant \in Meant /\ acc \in Ordered /\ wire \in Seq(Frames)
  BY DEF DecodeInv, DecodeTypes
<1>3. Head(wire) = wire[1] /\ wire[1] \in Frames /\ Tail(wire) \in Seq(Frames)
      /\ (Len(wire) = 1 => Tail(wire) = <<>>)
  BY <1>1, <1>2
<1>4. f \in Frames /\ f.error \in Errors /\ f.type = wire[1].type
  BY <1>3, FrameParts
<1> HIDE DEF f
<1>5. /\ acc' \in Ordered
      /\ f.type = "error" => \/ acc'.errors > 0 \/ ~f.error.told
                             \/ api.kind = "chat" /\ ~api.stream /\ acc' = acc
  BY <1>1, <1>2, <1>4, DecodeKeeps
<1>6. DecodeTypes'
  BY <1>1, <1>3, <1>4, <1>5 DEF DecodeInv, DecodeTypes
<1>7. Untouched'
  BY <1>1, <1>3 DEF DecodeInv, Untouched
<1>8. Marked'
  <2>1. harm \cap {"garbage", "broken", "refused", "late"} = {}
    BY <1>1, <1>3 DEF DecodeInv, Marked
  <2>2. ASSUME "error" \in harm
        PROVE  wire' = <<>> /\ ErrorNoted'
    <3>1. PICK e \in Errors : wire = <<ErrorFrame(e)>>
      BY <1>1, <2>2 DEF DecodeInv, Marked
    <3>2. Len(wire) = 1 /\ wire[1] = ErrorFrame(e)
      BY <3>1
    <3>3. "error" \in FrameTypes
      BY DEF FrameTypes
    <3>4. ErrorFrame(e).type = "error"
      BY <1>2, <3>3, FramesMade
    <3>5. f.type = "error"
      BY <1>4, <3>2, <3>4
    <3>6. ~api.stream => acc = Fresh
      BY <1>1 DEF DecodeInv, Untouched
    <3>7. QED
      BY <1>1, <1>3, <1>5, <3>2, <3>5, <3>6 DEF ErrorNoted
  <2>3. QED
    BY <1>1, <2>1, <2>2 DEF Marked
<1>9. QED
  BY <1>1, <1>6, <1>7, <1>8, ReadingStep DEF DecodeInv

LEMMA ReadFailsStep == DecodeInv /\ ReadFails => DecodeInv'
<1> SUFFICES ASSUME DecodeInv, ReadFails PROVE DecodeInv'
  OBVIOUS
<1>1. Ends("transport", acc) /\ UNCHANGED <<api, meant, wire, part, acc, refused, harm>>
  BY DEF ReadFails
<1>2. "transport" \in Results /\ acc \in Ordered /\ harm' \subseteq Harms
  BY <1>1 DEF DecodeInv, DecodeTypes, Results
<1>3. result'.kind = "transport"
  BY <1>1 DEF Ends
<1>4. EndsAsReported'
  BY <1>3 DEF EndsAsReported, OnlyEndsPassForAnswers, LimitsAreReported, Answered
<1>5. QED
  BY <1>1, <1>2, <1>4, EndStep

LEMMA StopStep == DecodeInv /\ Stop => DecodeInv'
<1> SUFFICES ASSUME DecodeInv, Stop PROVE DecodeInv'
  OBVIOUS
<1>1. /\ stage = "reading" /\ Ends(Built(acc), acc)
      /\ (wire = <<>> /\ harm' = harm) \/ harm' = harm \cup {"late"}
      /\ UNCHANGED <<api, meant, wire, part, acc, refused>>
  BY DEF Stop
<1>2. acc \in Ordered /\ acc.errors \in Nat /\ harm \subseteq Harms /\ harm' \subseteq Harms
  BY <1>1 DEF DecodeInv, DecodeTypes, Ordered, Accumulators, Harms
<1>3. Built(acc) \in Results
  BY DEF Built, Results
<1>4. result'.kind = Built(acc)
  BY <1>1 DEF Ends
<1>5. OnlyEndsPassForAnswers'
  <2> SUFFICES ASSUME Answered', "late" \notin harm'
               PROVE  \/ harm' \subseteq {"closed", "failed", "garbled"}
                      \/ api'.kind = "chat" /\ ~api'.stream /\ acc' = Fresh
                      \/ \E e \in refused' : ~e.told /\ ~IsLimit(200, e)
    BY DEF OnlyEndsPassForAnswers
  <2>1. wire = <<>> /\ harm' = harm
    BY <1>1
  <2>2. ~(acc.errors > 0) /\ \A e \in refused : ~IsLimit(200, e)
    BY <1>4 DEF Answered, Built, Faulty
  <2>3. harm \cap {"refused", "late", "garbage", "broken"} = {}
    BY <1>1, <2>1 DEF DecodeInv, Marked
  <2>4. CASE "error" \in harm
    <3>1. \A e : wire # <<ErrorFrame(e)>>
      BY <2>1
    <3>2. ErrorNoted
      BY <1>1, <2>4, <3>1 DEF DecodeInv, Marked
    <3>3. QED
      BY <1>1, <2>2, <3>2 DEF ErrorNoted
  <2>5. CASE "error" \notin harm
    BY <1>2, <2>1, <2>3, <2>5 DEF Harms
  <2>6. QED
    BY <2>4, <2>5
<1>6. LimitsAreReported'
  <2> SUFFICES ASSUME NEW e \in refused, e.code = "limit" PROVE result'.kind = "rate_limited"
    BY <1>1 DEF LimitsAreReported
  <2>1. IsLimit(200, e)
    BY DEF IsLimit
  <2>2. QED
    BY <1>4, <2>1 DEF Built
<1>7. ~api.stream /\ wire # <<>> => acc = acc
  OBVIOUS
<1>8. EndsAsReported'
  BY <1>5, <1>6 DEF EndsAsReported
<1>9. QED
  BY <1>1, <1>2, <1>3, <1>8, EndStep

LEMMA DecodeStep == DecodeInv /\ [SdNext]_sdVars => DecodeInv'
<1> SUFFICES ASSUME DecodeInv, [SdNext]_sdVars PROVE DecodeInv'
  OBVIOUS
<1>1. CASE Refuse
  BY <1>1, RefuseStep
<1>2. CASE Respond
  BY <1>2, RespondStep
<1>3. CASE Disturb
  BY <1>3, DisturbStep
<1>4. CASE ReadPart
  BY <1>4, ReadPartStep
<1>5. CASE ReadFrame
  BY <1>5, ReadFrameStep
<1>6. CASE ReadFails
  BY <1>6, ReadFailsStep
<1>7. CASE Stop
  BY <1>7, StopStep
<1>8. CASE Ended \/ UNCHANGED sdVars
  BY <1>8 DEF Ended, sdVars, DecodeInv, DecodeTypes, Untouched, Marked, Unanswered, EndsAsReported,
              ErrorNoted, OnlyEndsPassForAnswers, LimitsAreReported, Answered
<1>9. QED
  BY <1>1, <1>2, <1>3, <1>4, <1>5, <1>6, <1>7, <1>8 DEF SdNext

LEMMA DecodeInvariant == SdSpec => []DecodeInv
<1>1. QED
  BY DecodeInit, DecodeStep, PTL DEF SdSpec

\* What the accumulator holds of an answer is consistent: a call for every key,
\* no key twice, and every alias leads to a key.
THEOREM AnswerTypes == SdSpec => []SdTypeOK
<1>1. DecodeInv => SdTypeOK
  BY DEF DecodeInv, DecodeTypes, Ordered, OrderOK, SdTypeOK, Results
<1>2. QED
  BY <1>1, DecodeInvariant, PTL

\* Whatever becomes of a stream, and in whatever pieces it arrives: only one that
\* ended (or failed as a response) passes for an answer, and a limit that was
\* announced comes out as one.
THEOREM AnswersEndAsReported == SdSpec => []EndsAsReported
<1>1. DecodeInv => EndsAsReported
  BY DEF DecodeInv
<1>2. QED
  BY <1>1, DecodeInvariant, PTL

-----------------------------------------------------------------------------
(* The words between tags.                                                 *)

Walks == [open : BOOLEAN, shown : Words, held : Words, hidden : Words]

LEMMA PastTyped ==
    /\ Unsorted \in Walks
    /\ \A s \in Walks, x \in Letters : Past(s, x) \in Walks
<1>1. <<>> \in Words
  BY DEF Words
<1>2. Unsorted \in Walks
  BY <1>1 DEF Unsorted, Walks
<1>3. ASSUME NEW s \in Walks, NEW x \in Letters PROVE Past(s, x) \in Walks
  <2> DEFINE shown == s.shown \o s.held
             hidden == Append(s.hidden, x)
             held == Append(s.held, x)
  <2>1. shown \in Words /\ hidden \in Words /\ held \in Words
    BY ConcatProperties, AppendProperties DEF Walks, Words
  <2>2. Past(s, x) = IF x = "<t>" /\ ~s.open THEN [s EXCEPT !.open = TRUE, !.shown = shown, !.held = <<>>]
                     ELSE IF x = "</t>" THEN [s EXCEPT !.open = FALSE, !.held = <<>>]
                     ELSE IF x = "<t>" THEN s
                     ELSE IF s.open THEN [s EXCEPT !.hidden = hidden] ELSE [s EXCEPT !.held = held]
    BY DEF Past
  <2> HIDE DEF shown, hidden, held, Words
  <2>3. QED
    BY <1>1, <2>1, <2>2 DEF Walks
<1>4. QED
  BY <1>2, <1>3

\* The walk along a text that Split chooses.
WalksOf(text) ==
    {w \in [0..Len(text) -> Walks] :
        /\ w[0] = Unsorted
        /\ \A i \in 1..Len(text) : w[i] = Past(w[i - 1], text[i])}

LEMMA SplitWalks ==
    ASSUME NEW text \in Words
    PROVE  \E w \in WalksOf(text) :
              LET last == w[Len(text)] IN
              Split(text) = IF last.hidden = <<>> THEN text ELSE last.shown \o last.held
<1> DEFINE n == Len(text)
           step == [p \in Walks \X (1..n) |-> Past(p[1], text[p[2]])]
           Defines(w) == w = [i \in 0..n |-> IF i = 0 THEN Unsorted ELSE Past(w[i - 1], text[i])]
           walk == CHOOSE w : Defines(w)
<1>1. n \in Nat /\ \A i \in 1..n : text[i] \in Letters
  BY LenProperties, ElementOfSeq DEF Words
<1>2. Split(text) = IF walk[n].hidden = <<>> THEN text ELSE walk[n].shown \o walk[n].held
  BY DEF Split
<1>3. step \in StepsOn(Walks, n) /\ Unsorted \in Walks
  BY <1>1, PastTyped DEF StepsOn
<1>4. \A s \in Walks, i \in 1..n : step[<<s, i>>] = Past(s, text[i])
  OBVIOUS
<1> HIDE DEF n, step, Defines, walk
<1>5. PICK w \in [0..n -> Walks] : w[0] = Unsorted /\ \A i \in 1..n : w[i] = step[<<w[i - 1], i>>]
  <2>1. RunOf(step, Unsorted, Walks, n) # {}
    BY <1>1, <1>3, Recursion
  <2>2. QED
    BY <2>1 DEF RunOf
<1>6. \A i \in 1..n : i - 1 \in 0..n /\ i # 0 /\ i \in 0..n
  BY <1>1
<1>7. \A i \in 1..n : w[i] = Past(w[i - 1], text[i])
  BY <1>4, <1>5, <1>6
<1>8. Defines(w)
  <2>1. \A i \in 0..n : i # 0 => i \in 1..n
    BY <1>1
  <2>2. QED
    BY <1>5, <1>7, <2>1 DEF Defines
<1>9. Defines(walk)
  BY <1>8 DEF walk
<1> DEFINE T == {i \in 0..n : walk[i] = w[i]}
<1>10. \A i \in 0..n : i \in T
  <2>1. 0 \in T
    BY <1>1, <1>5, <1>9 DEF Defines
  <2>2. \A i \in 1..n : i - 1 \in T => i \in T
    BY <1>6, <1>7, <1>9 DEF Defines
  <2> HIDE DEF T
  <2>3. QED
    BY <1>1, <2>1, <2>2, UpTo
<1>11. walk[n] = w[n]
  BY <1>1, <1>10
<1>12. QED
  BY <1>2, <1>5, <1>7, <1>11 DEF n, WalksOf

LEMMA LastTagMoves ==
    ASSUME NEW text \in Words, NEW i \in 1..Len(text)
    PROVE  LastTag(text, i + 1) = IF text[i] \in Tags THEN text[i] ELSE LastTag(text, i)
<1> DEFINE before(k) == {j \in 1..(k - 1) : text[j] \in Tags}
           last(k) == CHOOSE j \in before(k) : \A h \in before(k) : h <= j
<1>0. Len(text) \in Nat /\ i \in Nat
  BY DEF Words
<1>1. before(i + 1) = before(i) \cup (IF text[i] \in Tags THEN {i} ELSE {})
  BY <1>0
<1>2. \A k : LastTag(text, k) = IF before(k) = {} THEN "</t>" ELSE text[last(k)]
  BY DEF LastTag
<1>3. CASE text[i] \notin Tags
  <2>1. before(i + 1) = before(i)
    BY <1>1, <1>3
  <2> HIDE DEF before
  <2>2. last(i + 1) = last(i)
    BY <2>1
  <2> HIDE DEF last
  <2>3. QED
    BY <1>2, <1>3, <2>1, <2>2
<1>4. CASE text[i] \in Tags
  <2>1. i \in before(i + 1) /\ \A j \in before(i + 1) : j <= i /\ j \in Nat
    BY <1>0, <1>4
  <2> HIDE DEF before
  <2>2. last(i + 1) \in before(i + 1) /\ \A h \in before(i + 1) : h <= last(i + 1)
    BY <2>1
  <2>3. last(i + 1) = i
    BY <1>0, <2>1, <2>2
  <2> HIDE DEF last
  <2>4. QED
    BY <1>2, <1>4, <2>1, <2>3
<1>5. QED
  BY <1>3, <1>4

LEMMA LastTagIsTag ==
    ASSUME NEW text \in Words
    PROVE  /\ LastTag(text, 1) = "</t>"
           /\ \A i \in 0..Len(text) : LastTag(text, i + 1) \in Tags
<1> DEFINE n == Len(text)
           T == {i \in 0..n : LastTag(text, i + 1) \in Tags}
<1>1. n \in Nat
  BY DEF Words
<1>2. LastTag(text, 1) = "</t>"
  BY DEF LastTag
<1>3. 0 \in T
  BY <1>1, <1>2 DEF Tags
<1>4. ASSUME NEW i \in 1..n, i - 1 \in T PROVE i \in T
  <2>1. LastTag(text, i) \in Tags /\ i \in 0..n
    <3>1. (i - 1) + 1 = i
      BY <1>1
    <3>2. QED
      BY <1>1, <1>4, <3>1
  <2>2. QED
    BY <2>1, LastTagMoves
<1> HIDE DEF n, T
<1>5. \A i \in 0..n : i \in T
  BY <1>1, <1>3, <1>4, UpTo
<1>6. QED
  BY <1>2, <1>5 DEF n, T

\* The places of the words that are shown, and of those before a stray tag.
HiddenIn(t) == {i \in DOMAIN t : t[i] \notin Tags /\ LastTag(t, i) = "<t>"}
ShownIn(t) == {i \in DOMAIN t : t[i] \notin Tags /\ i \notin HiddenIn(t)}
StrayAfter(t, i) == \E j \in DOMAIN t : j > i /\ Stray(t, j) /\ \A k \in (i + 1)..(j - 1) : t[k] \notin Tags
DroppedIn(t) ==
    {i \in ShownIn(t) : \E j \in DOMAIN t :
        j > i /\ Stray(t, j) /\ \A k \in i..(j - 1) : t[k] \notin Tags}

LEMMA StrayMoves ==
    ASSUME NEW t \in Words, NEW i \in 1..Len(t)
    PROVE  /\ t[i] \notin Tags => (StrayAfter(t, i - 1) <=> StrayAfter(t, i))
           /\ t[i] = "</t>" /\ LastTag(t, i) = "</t>" => StrayAfter(t, i - 1)
           /\ t[i] = "<t>" => ~StrayAfter(t, i - 1)
           /\ ~StrayAfter(t, Len(t))
           /\ i \in DroppedIn(t) <=> i \in ShownIn(t) /\ StrayAfter(t, i)
<1>1. Len(t) \in Nat /\ DOMAIN t = 1..Len(t) /\ i \in Nat /\ (i - 1) + 1 = i
  BY DEF Words
<1>2. \A j \in 1..Len(t) : j > i - 1 <=> j = i \/ j > i
  BY <1>1
<1>3. \A j \in 1..Len(t) : j > i => i \in i..(j - 1)
                                    /\ i..(j - 1) = {i} \cup ((i + 1)..(j - 1))
  BY <1>1
<1>4. i..(i - 1) = {}
  BY <1>1
<1>5. "<t>" \in Tags /\ "</t>" \in Tags /\ "<t>" # "</t>"
  BY DEF Tags
<1>6. ASSUME t[i] \notin Tags PROVE StrayAfter(t, i - 1) <=> StrayAfter(t, i)
  <2>1. ~Stray(t, i)
    BY <1>5, <1>6 DEF Stray
  <2>2. \A j \in 1..Len(t) : j > i => ((\A k \in i..(j - 1) : t[k] \notin Tags)
                                     <=> (\A k \in (i + 1)..(j - 1) : t[k] \notin Tags))
    BY <1>3, <1>6
  <2>3. QED
    BY <1>1, <1>2, <2>1, <2>2 DEF StrayAfter
<1>7. ASSUME t[i] = "</t>" /\ LastTag(t, i) = "</t>" PROVE StrayAfter(t, i - 1)
  <2>1. Stray(t, i) /\ i > i - 1 /\ i \in DOMAIN t
    BY <1>1, <1>7 DEF Stray
  <2>2. QED
    BY <1>1, <1>4, <2>1 DEF StrayAfter
<1>8. ASSUME t[i] = "<t>" PROVE ~StrayAfter(t, i - 1)
  <2>1. ~Stray(t, i)
    BY <1>5, <1>8 DEF Stray
  <2>2. QED
    BY <1>1, <1>2, <1>3, <1>5, <1>8, <2>1 DEF StrayAfter
<1>9. ~StrayAfter(t, Len(t))
  BY <1>1 DEF StrayAfter
<1>10. i \in DroppedIn(t) <=> i \in ShownIn(t) /\ StrayAfter(t, i)
  <2>1. i \in ShownIn(t) => t[i] \notin Tags
    BY DEF ShownIn
  <2>2. i \in ShownIn(t) => \A j \in 1..Len(t) : j > i =>
            ((\A k \in i..(j - 1) : t[k] \notin Tags) <=> (\A k \in (i + 1)..(j - 1) : t[k] \notin Tags))
    BY <1>3, <2>1
  <2>3. QED
    BY <1>1, <2>2 DEF DroppedIn, StrayAfter
<1>11. QED
  BY <1>6, <1>7, <1>8, <1>9, <1>10

LEMMA Joined ==
    /\ \A y \in Words : y \o <<>> = y
    /\ \A y, z \in Words, x \in Letters :
          /\ y \o z \in Words /\ Append(y, x) # <<>>
          /\ Append(y \o z, x) = y \o Append(z, x)
<1>1. ASSUME NEW y \in Seq(Letters), NEW z \in Seq(Letters), NEW x \in Letters
      PROVE  Append(y \o z, x) = y \o Append(z, x)
  OBVIOUS
<1>2. ASSUME NEW y \in Seq(Letters), NEW z \in Seq(Letters), NEW x \in Letters
      PROVE  y \o z \in Seq(Letters) /\ Append(y, x) # <<>>
  OBVIOUS
<1>3. \A y \in Seq(Letters) : y \o <<>> = y
  OBVIOUS
<1>4. QED
  BY <1>1, <1>2, <1>3 DEF Words

\* How far the walk along a text has come when i words are behind it.
Walked(t, s, kept, i) ==
    /\ s.open <=> LastTag(t, i + 1) = "<t>"
    /\ s.open => s.held = <<>>
    /\ kept = IF s.open \/ ~StrayAfter(t, i) THEN s.shown \o s.held ELSE s.shown
    /\ s.hidden = <<>> <=> \A j \in 1..i : j \notin HiddenIn(t)

LEMMA WalkedStep ==
    ASSUME NEW t \in Words, NEW i \in 1..Len(t), NEW s \in Walks, NEW kept \in Words,
           Walked(t, s, kept, i - 1)
    PROVE  Walked(t, Past(s, t[i]),
                  IF i \in ShownIn(t) \ DroppedIn(t) THEN Append(kept, t[i]) ELSE kept, i)
<1> DEFINE x == t[i]
           after == Past(s, x)
           more == IF i \in ShownIn(t) \ DroppedIn(t) THEN Append(kept, x) ELSE kept
<1>1. /\ Len(t) \in Nat /\ DOMAIN t = 1..Len(t) /\ i \in Nat /\ (i - 1) + 1 = i /\ x \in Letters
      /\ 1..i = 1..(i - 1) \cup {i}
  BY DEF Words
<1>2. /\ s.open \in BOOLEAN /\ s.shown \in Words /\ s.held \in Words /\ s.hidden \in Words
      /\ \A y \in Words : y \o <<>> = y
      /\ \A y, z \in Words : y \o z \in Words /\ Append(y \o z, x) = y \o Append(z, x)
      /\ \A y \in Words : Append(y, x) # <<>>
  <2>1. s.open \in BOOLEAN /\ s.shown \in Words /\ s.held \in Words /\ s.hidden \in Words
    BY DEF Walks
  <2>2. \A y \in Words : y \o <<>> = y
    BY Joined
  <2> HIDE DEF x
  <2>3. /\ \A y, z \in Words : y \o z \in Words /\ Append(y \o z, x) = y \o Append(z, x)
        /\ \A y \in Words : Append(y, x) # <<>>
    BY <1>1, Joined
  <2>4. QED
    BY <2>1, <2>2, <2>3
<1>3. /\ s.open <=> LastTag(t, i) = "<t>"
      /\ s.open => s.held = <<>>
      /\ kept = IF s.open \/ ~StrayAfter(t, i - 1) THEN s.shown \o s.held ELSE s.shown
      /\ s.hidden = <<>> <=> \A j \in 1..(i - 1) : j \notin HiddenIn(t)
  BY <1>1 DEF Walked
<1>4. LastTag(t, i + 1) = IF x \in Tags THEN x ELSE LastTag(t, i)
  BY LastTagMoves
<1>5. LastTag(t, i) \in {"<t>", "</t>"}
  <2>1. i - 1 \in 0..Len(t)
    BY <1>1
  <2>2. LastTag(t, (i - 1) + 1) \in Tags
    BY <2>1, LastTagIsTag
  <2>3. QED
    BY <1>1, <2>2 DEF Tags
<1>6. /\ i \in HiddenIn(t) <=> x \notin Tags /\ LastTag(t, i) = "<t>"
      /\ i \in ShownIn(t) <=> x \notin Tags /\ LastTag(t, i) # "<t>"
  BY <1>1 DEF HiddenIn, ShownIn
<1>7. /\ "<t>" \in Tags /\ "</t>" \in Tags /\ "<t>" # "</t>"
      /\ x \in Tags => x = "<t>" \/ x = "</t>"
  BY DEF Tags
<1>8. /\ x \notin Tags => (StrayAfter(t, i - 1) <=> StrayAfter(t, i))
      /\ x = "</t>" /\ LastTag(t, i) = "</t>" => StrayAfter(t, i - 1)
      /\ x = "<t>" => ~StrayAfter(t, i - 1)
      /\ i \in DroppedIn(t) <=> i \in ShownIn(t) /\ StrayAfter(t, i)
  BY StrayMoves
<1>9. s.hidden = <<>> <=> \A j \in 1..(i - 1) : j \notin HiddenIn(t)
  BY <1>3
<1>10. (\A j \in 1..i : j \notin HiddenIn(t)) <=> s.hidden = <<>> /\ i \notin HiddenIn(t)
  BY <1>1, <1>9
<1>11. CASE x = "<t>" /\ ~s.open
  <2>1. /\ after.open = TRUE /\ after.shown = s.shown \o s.held /\ after.held = <<>>
        /\ after.hidden = s.hidden
    BY <1>11 DEF Past, Walks
  <2>2. kept = s.shown \o s.held /\ more = kept
    BY <1>3, <1>6, <1>7, <1>8, <1>11
  <2>3. QED
    BY <1>2, <1>4, <1>6, <1>7, <1>10, <1>11, <2>1, <2>2 DEF Walked
<1>12. CASE x = "</t>"
  <2>1. /\ after.open = FALSE /\ after.shown = s.shown /\ after.held = <<>>
        /\ after.hidden = s.hidden
    BY <1>7, <1>12 DEF Past, Walks
  <2>2. kept = s.shown
    BY <1>2, <1>3, <1>5, <1>8, <1>12
  <2>3. more = kept
    BY <1>6, <1>7, <1>12
  <2>4. QED
    BY <1>2, <1>4, <1>6, <1>7, <1>10, <1>12, <2>1, <2>2, <2>3 DEF Walked
<1>13. CASE x = "<t>" /\ s.open
  <2>1. after = s
    BY <1>7, <1>13 DEF Past
  <2>2. kept = s.shown \o s.held /\ more = kept
    BY <1>3, <1>6, <1>7, <1>13
  <2>3. QED
    BY <1>3, <1>4, <1>6, <1>7, <1>10, <1>13, <2>1, <2>2 DEF Walked
<1>14. CASE x \notin Tags /\ s.open
  <2>1. /\ after.open = TRUE /\ after.shown = s.shown /\ after.held = s.held
        /\ after.hidden = Append(s.hidden, x)
    BY <1>7, <1>14 DEF Past, Walks
  <2>2. kept = s.shown \o s.held /\ more = kept /\ i \in HiddenIn(t)
    BY <1>3, <1>6, <1>14
  <2>3. QED
    BY <1>2, <1>3, <1>4, <1>10, <1>14, <2>1, <2>2 DEF Walked
<1>15. CASE x \notin Tags /\ ~s.open
  <2>1. /\ after.open = FALSE /\ after.shown = s.shown /\ after.held = Append(s.held, x)
        /\ after.hidden = s.hidden
    BY <1>2, <1>7, <1>15 DEF Past, Walks
  <2>2. i \in ShownIn(t) /\ i \notin HiddenIn(t) /\ (i \in DroppedIn(t) <=> StrayAfter(t, i))
    BY <1>3, <1>6, <1>8, <1>15
  <2>3. more = IF ~StrayAfter(t, i) THEN s.shown \o Append(s.held, x) ELSE s.shown
    <3>1. CASE StrayAfter(t, i)
      BY <1>3, <1>8, <1>15, <2>2, <3>1
    <3>2. CASE ~StrayAfter(t, i)
      <4>1. kept = s.shown \o s.held /\ more = Append(kept, x)
        BY <1>3, <1>8, <1>15, <2>2, <3>2
      <4>2. QED
        BY <1>2, <3>2, <4>1
    <3>3. QED
      BY <3>1, <3>2
  <2>4. QED
    BY <1>3, <1>4, <1>10, <1>15, <2>1, <2>2, <2>3 DEF Walked
<1>16. QED
  BY <1>2, <1>7, <1>11, <1>12, <1>13, <1>14, <1>15

\* What is split shows the words that no tag hides or drops.
LEMMA SplitShows ==
    ASSUME NEW t \in Words
    PROVE  Split(t) = IF HiddenIn(t) = {} THEN t ELSE Picked(t, ShownIn(t) \ DroppedIn(t))
<1> DEFINE n == Len(t)
           places == ShownIn(t) \ DroppedIn(t)
<1>1. PICK w \in WalksOf(t) : LET last == w[n] IN
          Split(t) = IF last.hidden = <<>> THEN t ELSE last.shown \o last.held
  BY SplitWalks
<1>2. w \in [0..n -> Walks] /\ w[0] = Unsorted /\ \A i \in 1..n : w[i] = Past(w[i - 1], t[i])
  BY DEF WalksOf
<1>3. PICK v \in PicksOf(Letters, t, places) : Picked(t, places) = v[n]
  BY PickedParts DEF Words
<1>4. /\ v \in [0..n -> Words] /\ v[0] = <<>>
      /\ \A i \in 1..n : v[i] = IF i \in places THEN Append(v[i - 1], t[i]) ELSE v[i - 1]
  BY DEF PicksOf, Words
<1>5. n \in Nat /\ DOMAIN t = 1..n
  BY DEF Words
<1> HIDE DEF n
<1> DEFINE T == {i \in 0..n : Walked(t, w[i], v[i], i)}
<1>6. 0 \in T
  <2>1. <<>> \o <<>> = <<>> /\ 1..0 = {} /\ 0 + 1 = 1 /\ 0 \in 0..n
    BY <1>5
  <2>2. LastTag(t, 1) = "</t>"
    BY LastTagIsTag
  <2>3. /\ Unsorted.open = FALSE /\ Unsorted.shown = <<>> /\ Unsorted.held = <<>>
        /\ Unsorted.hidden = <<>>
    BY DEF Unsorted
  <2>4. Walked(t, Unsorted, <<>>, 0)
    BY <2>1, <2>2, <2>3 DEF Walked
  <2>5. QED
    BY <1>2, <1>4, <2>1, <2>4
<1>7. ASSUME NEW i \in 1..n, i - 1 \in T PROVE i \in T
  <2>1. i \in 0..n /\ i - 1 \in 0..n
    BY <1>5
  <2>2. w[i - 1] \in Walks /\ v[i - 1] \in Words /\ Walked(t, w[i - 1], v[i - 1], i - 1)
    BY <1>2, <1>4, <1>7, <2>1
  <2>3. Walked(t, Past(w[i - 1], t[i]), IF i \in places THEN Append(v[i - 1], t[i]) ELSE v[i - 1], i)
    BY <2>2, WalkedStep DEF n
  <2>4. QED
    BY <1>2, <1>4, <2>1, <2>3
<1>8. n \in T
  <2> HIDE DEF T
  <2>1. \A i \in 0..n : i \in T
    BY <1>5, <1>6, <1>7, UpTo
  <2>2. QED
    BY <1>5, <2>1
<1>9. ~StrayAfter(t, n)
  BY <1>5 DEF StrayAfter
<1>10. /\ v[n] = w[n].shown \o w[n].held
       /\ w[n].hidden = <<>> <=> \A j \in 1..n : j \notin HiddenIn(t)
  BY <1>8, <1>9 DEF Walked
<1>11. (\A j \in 1..n : j \notin HiddenIn(t)) <=> HiddenIn(t) = {}
  BY <1>5 DEF HiddenIn
<1>12. QED
  BY <1>1, <1>3, <1>10, <1>11

\* What is shown of an answer is what is left of its text.
SplitInv == stage = "ended" => result.text = Split(acc.text)

LEMMA SplitStep == DecodeInv /\ SplitInv /\ [SdNext]_sdVars => SplitInv'
<1> SUFFICES ASSUME DecodeInv, SplitInv, [SdNext]_sdVars PROVE SplitInv'
  OBVIOUS
<1>1. ASSUME NEW kind, Ends(kind, acc), acc' = acc PROVE SplitInv'
  BY <1>1 DEF Ends, SplitInv
<1>2. CASE Refuse
  <2>1. acc = Fresh /\ acc' = acc
    BY <1>2 DEF DecodeInv, Untouched, Refuse
  <2>2. PICK kind \in {"transport", "rate_limited", "http"} : Ends(kind, Fresh)
    BY <1>2 DEF Refuse
  <2>3. Ends(kind, acc)
    BY <2>1, <2>2
  <2>4. QED
    BY <1>1, <2>1, <2>3
<1>3. CASE Respond
  BY <1>3 DEF Respond, SplitInv
<1>4. CASE Disturb
  BY <1>4 DEF Disturb, Harm, SplitInv
<1>5. CASE ReadPart
  BY <1>5 DEF ReadPart, SplitInv
<1>6. CASE ReadFrame
  BY <1>6 DEF ReadFrame, SplitInv
<1>7. CASE ReadFails
  BY <1>1, <1>7 DEF ReadFails
<1>8. CASE Stop
  BY <1>1, <1>8 DEF Stop
<1>9. CASE Ended \/ UNCHANGED sdVars
  BY <1>9 DEF Ended, sdVars, SplitInv
<1>10. QED
  BY <1>2, <1>3, <1>4, <1>5, <1>6, <1>7, <1>8, <1>9 DEF SdNext

\* Whatever tags a text has, and wherever they are: once an exchange has ended, no
\* word after an opening tag is shown before its closing tag, and every other word
\* is, in order, but those before a stray closing tag.
THEOREM ReasoningIsHidden == SdSpec => []ReasoningStaysHidden
<1>1. SdInit => SplitInv
  BY DEF SdInit, SplitInv
<1>2. DecodeInv /\ SplitInv => ReasoningStaysHidden
  <2> SUFFICES ASSUME DecodeInv, SplitInv, stage = "ended" PROVE ReasoningStaysHidden
    BY DEF ReasoningStaysHidden
  <2>1. acc.text \in Words
    BY DEF DecodeInv, DecodeTypes, Ordered, Accumulators
  <2>2. HiddenIn(acc.text) # {} =>
            result.text = Picked(acc.text, ShownIn(acc.text) \ DroppedIn(acc.text))
    BY <2>1, SplitShows DEF SplitInv
  <2>3. QED
    BY <2>2 DEF ReasoningStaysHidden, HiddenIn, ShownIn, DroppedIn
<1>3. QED
  BY <1>1, <1>2, SplitStep, DecodeInvariant, PTL DEF SdSpec

-----------------------------------------------------------------------------
(* What is left of the pieces of a call's arguments.                       *)

LEMMA ClearParts ==
    /\ \A x \in Words : /\ Clear(x) \in Words /\ Len(Clear(x)) = Len(x)
                        /\ \A k \in 1..Len(x) : Clear(x)[k] = IF x[k] = "?" THEN "e'" ELSE x[k]
    /\ \A x \in Sayings : Clear(x) = x
    /\ \A x, y \in Words : Clear(x \o y) = Clear(x) \o Clear(y)
<1>1. ASSUME NEW x \in Words
      PROVE  /\ Clear(x) \in Words /\ Len(Clear(x)) = Len(x)
             /\ \A k \in 1..Len(x) : Clear(x)[k] = IF x[k] = "?" THEN "e'" ELSE x[k]
  <2> DEFINE n == Len(x)
  <2>1. n \in Nat /\ DOMAIN x = 1..n /\ \A k \in 1..n : x[k] \in Letters
    BY DEF Words
  <2> HIDE DEF n
  <2>2. \A k \in 1..n : (IF x[k] = "?" THEN "e'" ELSE x[k]) \in Letters
    BY <2>1 DEF Letters
  <2>3. Clear(x) = [k \in 1..n |-> IF x[k] = "?" THEN "e'" ELSE x[k]]
    BY <2>1 DEF Clear
  <2>4. Clear(x) \in [1..n -> Letters]
    BY <2>2, <2>3
  <2>5. Clear(x) \in Seq(Letters) /\ Len(Clear(x)) = n
    BY <2>1, <2>4
  <2>6. QED
    BY <2>3, <2>5 DEF n, Words
<1>2. ASSUME NEW x \in Sayings PROVE Clear(x) = x
  <2>1. x \in Words
    BY SayingsAreWords
  <2>2. \A k \in 1..Len(x) : x[k] # "?"
    BY DEF Sayings, Plain
  <2>3. Len(Clear(x)) = Len(x) /\ \A k \in 1..Len(x) : Clear(x)[k] = x[k]
    BY <1>1, <2>1, <2>2
  <2>4. Clear(x) \in Seq(Letters) /\ x \in Seq(Letters)
    BY <1>1, <2>1 DEF Words
  <2>5. QED
    BY <2>3, <2>4, SeqEqual
<1>3. ASSUME NEW x \in Words, NEW y \in Words PROVE Clear(x \o y) = Clear(x) \o Clear(y)
  <2> DEFINE a == Clear(x \o y)
             b == Clear(x) \o Clear(y)
             n == Len(x)
             m == Len(y)
  <2>1. /\ x \in Seq(Letters) /\ y \in Seq(Letters) /\ n \in Nat /\ m \in Nat
    BY LenProperties DEF Words
  <2>2. /\ x \o y \in Words /\ Len(x \o y) = n + m
        /\ \A k \in 1..(n + m) : (x \o y)[k] = IF k <= n THEN x[k] ELSE y[k - n]
    BY <2>1 DEF Words
  <2>3. /\ a \in Seq(Letters) /\ Len(a) = n + m
        /\ \A k \in 1..(n + m) : a[k] = IF (x \o y)[k] = "?" THEN "e'" ELSE (x \o y)[k]
    BY <1>1, <2>2 DEF Words
  <2>4. Clear(x) \in Seq(Letters) /\ Clear(y) \in Seq(Letters) /\ Len(Clear(x)) = n /\ Len(Clear(y)) = m
    BY <1>1 DEF Words
  <2>5. /\ b \in Seq(Letters) /\ Len(b) = n + m
        /\ \A k \in 1..(n + m) : b[k] = IF k <= n THEN Clear(x)[k] ELSE Clear(y)[k - n]
    BY <2>1, <2>4
  <2>6. \A k \in 1..(n + m) : a[k] = b[k]
    <3> TAKE k \in 1..(n + m)
    <3> HIDE DEF a, b, n, m
    <3>1. CASE k <= n
      <4>1. k \in 1..n
        BY <2>1, <3>1
      <4>2. QED
        BY <1>1, <2>2, <2>3, <2>5, <3>1, <4>1 DEF n
    <3>2. CASE ~(k <= n)
      <4>1. k - n \in 1..m
        BY <2>1, <3>2
      <4>2. QED
        <5>1. (x \o y)[k] = y[k - n] /\ b[k] = Clear(y)[k - n]
          BY <2>2, <2>5, <3>2
        <5>2. a[k] = IF (x \o y)[k] = "?" THEN "e'" ELSE (x \o y)[k]
          BY <2>3
        <5>3. Clear(y)[k - n] = IF y[k - n] = "?" THEN "e'" ELSE y[k - n]
          BY <1>1, <4>1 DEF m
        <5>4. QED
          BY <5>1, <5>2, <5>3
    <3>3. QED
      BY <3>1, <3>2
  <2>7. QED
    BY <2>3, <2>5, <2>6, SeqEqual
<1>4. QED
  BY <1>1, <1>2, <1>3

\* Arguments that parse: as many closing as opening ones, around one value.
LEMMA ParsesAs ==
    ASSUME NEW x \in Words, x # <<>>, Parses(x)
    PROVE  \E n \in Nat : /\ n > 0 /\ Len(x) = 2 * n + 1
                          /\ \A k \in 1..n : x[k] = "{" /\ x[n + 1 + k] = "}"
                          /\ x[n + 1] \notin {"{", "}"}
<1> DEFINE n == Len(x) \div 2
<1>1. Len(x) \in Nat
  BY DEF Words
<1>2. n \in Nat
  BY <1>1
<1>3. /\ Len(x) = 2 * n + 1 /\ n > 0
      /\ \A i \in 1..n : x[i] = "{" /\ x[n + 1 + i] = "}"
      /\ x[n + 1] \in {"1", "e'", "?"}
  BY DEF Parses
<1>4. x[n + 1] \notin {"{", "}"}
  BY <1>3
<1> HIDE DEF n
<1>5. QED
  BY <1>2, <1>3, <1>4

LEMMA ClearParses ==
    ASSUME NEW x \in Words, Parses(x)
    PROVE  Parses(Clear(x))
<1> DEFINE y == Clear(x)
           n == Len(x) \div 2
<1>1. y \in Words /\ Len(y) = Len(x) /\ \A k \in 1..Len(x) : y[k] = IF x[k] = "?" THEN "e'" ELSE x[k]
  BY ClearParts
<1>2. Len(x) \in Nat /\ n \in Nat
  BY DEF Words
<1>3. CASE x = <<>>
  <2>1. Len(y) = 0
    BY <1>1, <1>3
  <2>2. y = <<>>
    BY <1>1, <2>1, EmptySeq DEF Words
  <2>3. QED
    BY <2>2 DEF Parses
<1>4. CASE x # <<>>
  <2>1. /\ Len(x) = 2 * n + 1 /\ n > 0
        /\ \A i \in 1..n : x[i] = "{" /\ x[n + 1 + i] = "}"
        /\ x[n + 1] \in {"1", "e'", "?"}
    BY <1>4 DEF Parses
  <2>2. Len(y) \div 2 = n
    BY <1>1
  <2> HIDE DEF n, y
  <2> DEFINE m == Len(x)
  <2>7. m = 2 * n + 1 /\ m \in Nat
    BY <1>2, <2>1
  <2> HIDE DEF m
  <2>3. \A i \in 1..n : i \in 1..m /\ n + 1 + i \in 1..m
    BY <1>2, <2>7
  <2>4. n + 1 \in 1..m
    BY <1>2, <2>7
  <2>5. /\ Len(y) = 2 * n + 1
        /\ \A i \in 1..n : y[i] = "{" /\ y[n + 1 + i] = "}"
        /\ y[n + 1] \in {"1", "e'", "?"}
    BY <1>1, <2>1, <2>3, <2>4 DEF m
  <2>6. Parses(y)
    BY <2>1, <2>2, <2>5 DEF Parses
  <2>8. QED
    BY <2>6 DEF y
<1>5. QED
  BY <1>3, <1>4

\* After k pieces: what they are together, without some of its beginning if a
\* piece was taken for a repetition, and of well-formed arguments only "{"s lack.
Got(i, k, x) ==
    LET whole == Upto(meant.calls[i].frags, k) IN
    \E d \in 0..Len(whole) :
        /\ Clear(x) = SubSeq(whole, d + 1, Len(whole))
        /\ d > 0 => Repeats(i)
        /\ Parses(Arguments(i)) => \A e \in 1..d : whole[e] = "{"

LEMMA PiecesParts ==
    ASSUME meant \in Meant, NEW i \in 1..Len(meant.calls)
    PROVE  LET frags == meant.calls[i].frags IN
           /\ Len(frags) \in Nat /\ \A k \in 1..Len(frags) : frags[k] \in Sayings
           /\ \A k \in 0..Len(frags) : Upto(frags, k) \in Sayings
           /\ Upto(frags, 0) = <<>> /\ Upto(frags, Len(frags)) = Arguments(i)
           /\ \A k \in 1..Len(frags) : Upto(frags, k) = Upto(frags, k - 1) \o frags[k]
<1> DEFINE frags == meant.calls[i].frags
<1>1. frags \in Seq(Sayings) /\ Arguments(i) = FlattenSeq(frags)
  BY MeantSayings DEF Arguments
<1> HIDE DEF frags
<1>2. Len(frags) \in Nat /\ \A k \in 1..Len(frags) : frags[k] \in Sayings
  <2> HIDE DEF Sayings
  <2>1. QED
    BY <1>1, LenProperties, ElementOfSeq
<1>3. /\ Upto(frags, 0) = <<>> /\ Upto(frags, Len(frags)) = FlattenSeq(frags)
      /\ \A k \in 0..Len(frags) : Upto(frags, k) \in Seq(Plain)
      /\ \A k \in 1..Len(frags) : Upto(frags, k) = Upto(frags, k - 1) \o frags[k]
  BY <1>1, UptoGrows DEF Sayings
<1>4. QED
  BY <1>1, <1>2, <1>3 DEF frags, Sayings

\* What comes first stays first.
LEMMA UptoPrefix ==
    ASSUME meant \in Meant, NEW i \in 1..Len(meant.calls), NEW k \in 0..Len(meant.calls[i].frags)
    PROVE  LET whole == Upto(meant.calls[i].frags, k) IN
           /\ Len(whole) <= Len(Arguments(i))
           /\ \A e \in 1..Len(whole) : whole[e] = Arguments(i)[e]
<1> DEFINE frags == meant.calls[i].frags
           n == Len(frags)
           A == Arguments(i)
           Begins(w) == Len(w) <= Len(A) /\ \A e \in 1..Len(w) : w[e] = A[e]
           T == {j \in 0..n : Begins(Upto(frags, n - j))}
<1>1. /\ n \in Nat /\ \A j \in 1..n : frags[j] \in Sayings
      /\ \A j \in 0..n : Upto(frags, j) \in Sayings
      /\ Upto(frags, n) = A
      /\ \A j \in 1..n : Upto(frags, j) = Upto(frags, j - 1) \o frags[j]
  BY PiecesParts
<1> HIDE DEF frags, n, A
<1>2. 0 \in T
  <2>1. n - 0 = n /\ 0 \in 0..n /\ n \in 0..n
    BY <1>1
  <2>2. Len(A) \in Nat
    BY <1>1, <2>1 DEF Sayings
  <2>3. QED
    BY <1>1, <2>1, <2>2
<1>3. ASSUME NEW j \in 1..n, j - 1 \in T PROVE j \in T
  <2> DEFINE w == Upto(frags, n - j)
             f == frags[n - j + 1]
  <2>1. n - j \in 0..n /\ n - j + 1 \in 1..n /\ (n - j + 1) - 1 = n - j /\ n - (j - 1) = n - j + 1 /\ j \in 0..n
    BY <1>1
  <2>2. w \in Seq(Plain) /\ f \in Seq(Plain) /\ Upto(frags, n - (j - 1)) = w \o f /\ Begins(w \o f)
    BY <1>1, <1>3, <2>1 DEF Sayings
  <2> HIDE DEF w, f
  <2>3. /\ Len(w) \in Nat /\ Len(f) \in Nat /\ Len(w \o f) = Len(w) + Len(f)
        /\ \A e \in 1..Len(w) : (w \o f)[e] = w[e]
    BY <2>2
  <2>4. A \in Seq(Plain)
    <3>1. n \in 0..n
      BY <1>1
    <3>2. QED
      BY <1>1, <3>1 DEF Sayings
  <2>5. Len(A) \in Nat
    BY <2>4
  <2>6. \A e \in 1..Len(w) : e \in 1..Len(w \o f)
    BY <2>3
  <2>7. Len(w) <= Len(A)
    BY <2>2, <2>3, <2>5
  <2>8. Begins(w)
    BY <2>2, <2>3, <2>6, <2>7
  <2>9. QED
    BY <2>1, <2>8 DEF w
<1>4. Begins(Upto(frags, k))
  <2>1. k \in 0..n
    BY DEF n, frags
  <2>2. n - k \in 0..n /\ n - (n - k) = k
    BY <1>1, <2>1
  <2> HIDE DEF T
  <2>3. \A j \in 0..n : j \in T
    BY <1>1, <1>2, <1>3, UpTo
  <2>4. QED
    BY <2>2, <2>3 DEF T
<1>5. QED
  BY <1>4 DEF frags, A

\* Of arguments that parse, the beginning a piece repeats is of "{"s only.
Opens(x, n) == \A e \in 1..n : x[e] = "{"
Balanced(x, n) ==
    /\ x[n + 1] \notin {"{", "}"}
    /\ \A e \in 1..n : x[e] = "{" /\ x[n + 1 + e] = "}"
Shifted(x, n, d) == \A e \in 1..(n - d) : x[e + d] = x[n + e]

LEMMA OnlyOpeningsRepeat ==
    ASSUME NEW v \in Nat, NEW n \in Nat, NEW m \in Nat, NEW d \in 0..n,
           n + m <= 2 * v + 1, n - d <= m
    PROVE  \A A : Balanced(A, v) /\ Opens(A, d) /\ Shifted(A, n, d) => Opens(A, n)
<1>1. \A e \in 1..n : e \notin 1..v /\ v + 1 \notin 1..d =>
          /\ v + 1 - d \in 1..(n - d) /\ (v + 1 - d) + d = v + 1
          /\ n + (v + 1 - d) = v + 1 + (n - d) /\ n - d \in 1..v
  <2> TAKE e \in 1..n
  <2> HAVE e \notin 1..v /\ v + 1 \notin 1..d
  <2>1. e > v /\ v + 1 > d
    OBVIOUS
  <2>2. QED
    BY <2>1
<1>2. ASSUME NEW A, Balanced(A, v), Opens(A, d), Shifted(A, n, d), NEW e \in 1..n, A[e] # "{"
      PROVE  FALSE
  <2>1. e \notin 1..v /\ v + 1 \notin 1..d
    BY <1>2 DEF Balanced, Opens
  <2> DEFINE h == v + 1 - d
             k == n - d
  <2>2. h \in 1..(n - d) /\ h + d = v + 1 /\ n + h = v + 1 + k /\ k \in 1..v
    BY <1>1, <2>1
  <2> HIDE DEF h
  <2>3. A[v + 1] = A[v + 1 + k]
    BY <1>2, <2>2 DEF Shifted
  <2>4. A[v + 1 + k] = "}"
    BY <1>2, <2>2 DEF Balanced
  <2>5. QED
    BY <1>2, <2>3, <2>4 DEF Balanced
<1>3. QED
  BY <1>2 DEF Opens

LEMMA GotFirst ==
    ASSUME meant \in Meant, NEW i \in 1..Len(meant.calls)
    PROVE  Got(i, 0, <<>>)
<1> DEFINE whole == Upto(meant.calls[i].frags, 0)
<1>1. whole = <<>> /\ Len(whole) = 0 /\ SubSeq(whole, 0 + 1, Len(whole)) = <<>>
  <2>1. whole = <<>>
    BY PiecesParts
  <2>2. SubSeq(<<>>, 0 + 1, 0) = <<>> /\ Len(<<>>) = 0
    OBVIOUS
  <2> HIDE DEF whole
  <2>3. QED
    BY <2>1, <2>2
<1>2. Clear(<<>>) = <<>>
  <2>1. <<>> \in Words
    BY DEF Words
  <2>2. Len(Clear(<<>>)) = 0 /\ Clear(<<>>) \in Words
    BY <2>1, ClearParts
  <2>3. QED
    BY <2>2, EmptySeq DEF Words
<1>3. 0 \in 0..Len(whole) /\ 1..0 = {}
  BY <1>1
<1>4. \A e \in 1..0 : whole[e] = "{"
  BY <1>3
<1> HIDE DEF whole
<1>5. Got(i, 0, <<>>) <=>
          \E d \in 0..Len(whole) :
             /\ Clear(<<>>) = SubSeq(whole, d + 1, Len(whole))
             /\ d > 0 => Repeats(i)
             /\ Parses(Arguments(i)) => \A e \in 1..d : whole[e] = "{"
  BY DEF Got, whole
<1>6. ~(0 > 0)
  OBVIOUS
<1>7. QED
  BY <1>1, <1>2, <1>3, <1>4, <1>5, <1>6

\* One more piece, appended or taken for a repetition.
LEMMA GotMore ==
    ASSUME meant \in Meant, NEW i \in 1..Len(meant.calls), NEW k \in 1..Len(meant.calls[i].frags),
           NEW x \in Words, NEW f \in Words, Clear(f) = meant.calls[i].frags[k], Got(i, k - 1, x)
    PROVE  Got(i, k, Merge(x, f))
<1> DEFINE frags == meant.calls[i].frags
           w == Upto(frags, k - 1)
           g == frags[k]
           v == w \o g
           A == Arguments(i)
           n == Len(w)
           m == Len(g)
<1>1. /\ w \in Sayings /\ g \in Sayings /\ Upto(frags, k) = v /\ k - 1 \in 0..Len(frags)
  <2>1. k - 1 \in 0..Len(frags)
    BY PiecesParts
  <2>2. QED
    BY <2>1, PiecesParts
<1>2. /\ w \in Seq(Letters) /\ g \in Seq(Letters) /\ A \in Words
  BY <1>1, SayingsAreWords, MeantParts DEF Words
<1> HIDE DEF w, g, A
<1>3. /\ n \in Nat /\ m \in Nat /\ v \in Seq(Letters) /\ Len(v) = n + m
      /\ \A e \in 1..(n + m) : v[e] = IF e <= n THEN w[e] ELSE g[e - n]
  BY <1>2
<1>4. PICK d \in 0..n : /\ Clear(x) = SubSeq(w, d + 1, n)
                        /\ d > 0 => Repeats(i)
                        /\ Parses(A) => \A e \in 1..d : w[e] = "{"
  BY DEF Got, w, A
<1>5. /\ Len(Clear(x)) = n - d /\ \A e \in 1..(n - d) : Clear(x)[e] = w[e + d]
      /\ d = 0 => Clear(x) = w
  <2>1. /\ Len(SubSeq(w, d + 1, Len(w))) = Len(w) - d
        /\ \A e \in 1..(Len(w) - d) : SubSeq(w, d + 1, Len(w))[e] = w[e + d]
        /\ d = 0 => SubSeq(w, d + 1, Len(w)) = w
    BY <1>2, SubParts
  <2>2. QED
    BY <1>4, <2>1
<1>6. /\ Len(v) <= Len(A) /\ \A e \in 1..Len(v) : v[e] = A[e]
  <2>1. k \in 0..Len(frags)
    BY <1>1
  <2>2. QED
    BY <1>1, <2>1, UptoPrefix DEF A
<1> DEFINE Shape(y, c) == /\ Clear(y) = SubSeq(v, c + 1, n + m)
                          /\ c > 0 => Repeats(i)
                          /\ Parses(A) => \A e \in 1..c : v[e] = "{"
<1>7. \A y : (\E c \in 0..(n + m) : Shape(y, c)) => Got(i, k, y)
  BY <1>1, <1>3 DEF Got, A
<1> HIDE DEF v, n, m
<1>8. CASE ~IsPrefix(x, f)
  <2>1. Merge(x, f) = x \o f
    BY <1>8 DEF Merge
  <2>2. Clear(x \o f) = Clear(x) \o g
    BY ClearParts DEF g
  <2>3. Clear(x) \o g = SubSeq(v, d + 1, n + m)
    <3>1. d \in 0..Len(v)
      BY <1>3
    <3>2. /\ SubSeq(v, d + 1, Len(v)) \in Seq(Letters) /\ Len(SubSeq(v, d + 1, Len(v))) = Len(v) - d
          /\ \A e \in 1..(Len(v) - d) : SubSeq(v, d + 1, Len(v))[e] = v[e + d]
      BY <1>3, <3>1, SubParts
    <3>3. Clear(x) \in Seq(Letters)
      BY ClearParts DEF Words
    <3>4. /\ Clear(x) \o g \in Seq(Letters) /\ Len(Clear(x) \o g) = (n - d) + m
          /\ \A e \in 1..((n - d) + m) :
                (Clear(x) \o g)[e] = IF e <= n - d THEN Clear(x)[e] ELSE g[e - (n - d)]
      <4> DEFINE y == Clear(x)
      <4>1. y \in Seq(Letters) /\ g \in Seq(Letters) /\ Len(y) = n - d /\ Len(g) = m
        BY <1>2, <1>5, <3>3 DEF m
      <4> HIDE DEF y
      <4>2. /\ y \o g \in Seq(Letters) /\ Len(y \o g) = Len(y) + Len(g)
            /\ \A e \in 1..(Len(y) + Len(g)) :
                  (y \o g)[e] = IF e <= Len(y) THEN y[e] ELSE g[e - Len(y)]
        BY SMTT(40), <4>1
      <4>3. /\ y \o g \in Seq(Letters) /\ Len(y \o g) = (n - d) + m
            /\ \A e \in 1..((n - d) + m) : (y \o g)[e] = IF e <= n - d THEN y[e] ELSE g[e - (n - d)]
        BY <4>1, <4>2
      <4>4. QED
        BY <4>3 DEF y
    <3>5. (n - d) + m = Len(v) - d
      BY <1>3
    <3>6. \A e \in 1..((n - d) + m) : (Clear(x) \o g)[e] = v[e + d]
      <4> TAKE e \in 1..((n - d) + m)
      <4>1. e + d \in 1..(n + m) /\ (e + d <= n <=> e <= n - d) /\ e - (n - d) = (e + d) - n
        BY <1>3
      <4>2. v[e + d] = IF e + d <= n THEN w[e + d] ELSE g[(e + d) - n]
        BY <1>3, <4>1
      <4>3. CASE e <= n - d
        <5>1. e \in 1..(n - d)
          BY <4>3
        <5>2. QED
          BY <1>5, <3>4, <4>1, <4>2, <4>3, <5>1
      <4>4. CASE ~(e <= n - d)
        BY <3>4, <4>1, <4>2, <4>4
      <4>5. QED
        BY <4>3, <4>4
    <3>7. QED
      BY <1>3, <3>2, <3>4, <3>5, <3>6, SeqEqual
  <2>4. Parses(A) => \A e \in 1..d : v[e] = "{"
    <3>1. \A e \in 1..d : e \in 1..(n + m) /\ e <= n
      BY <1>3
    <3>2. QED
      BY <1>3, <1>4, <3>1
  <2>5. d \in 0..(n + m)
    BY <1>3
  <2>6. Shape(Merge(x, f), d)
    BY <1>4, <2>1, <2>2, <2>3, <2>4
  <2>7. QED
    BY <1>7, <2>5, <2>6
<1>9. CASE IsPrefix(x, f)
  <2>1. Merge(x, f) = f
    BY <1>9 DEF Merge
  <2>2. g = SubSeq(v, n + 1, n + m)
    <3>1. n \in 0..Len(v)
      BY <1>3
    <3>2. /\ SubSeq(v, n + 1, Len(v)) \in Seq(Letters) /\ Len(SubSeq(v, n + 1, Len(v))) = Len(v) - n
          /\ \A e \in 1..(Len(v) - n) : SubSeq(v, n + 1, Len(v))[e] = v[e + n]
      BY <1>3, <3>1, SubParts
    <3>3. Len(v) - n = m
      BY <1>3
    <3>4. \A e \in 1..m : v[e + n] = g[e]
      <4> TAKE e \in 1..m
      <4>1. n \in Nat /\ m \in Nat
        BY <1>3
      <4> HIDE DEF n, m
      <4>2. e + n \in 1..(n + m) /\ ~(e + n <= n) /\ (e + n) - n = e
        BY <4>1
      <4>3. QED
        BY <1>3, <4>2
    <3>5. QED
      BY <1>2, <1>3, <3>2, <3>3, <3>4, SeqEqual DEF m
  <2>3. /\ Len(x) <= Len(f) /\ Len(x) = n - d /\ Len(f) = m
        /\ \A e \in 1..Len(x) : x[e] = f[e]
    <3>1. Len(x) = n - d /\ Len(f) = m
      BY <1>5, ClearParts DEF g, m
    <3>2. x \in Seq(Letters) /\ f \in Seq(Letters)
      BY DEF Words
    <3>3. Len(x) <= Len(f) /\ \A e \in 1..Len(x) : x[e] = f[e]
      BY <1>9, <3>2 DEF IsPrefix
    <3>4. QED
      BY <3>1, <3>3
  <2>4. \A e \in 1..(n - d) : w[e + d] = g[e] /\ e \in 1..m
    <3> TAKE e \in 1..(n - d)
    <3>1. e \in 1..Len(x) /\ e \in 1..Len(f) /\ e \in 1..m
      BY <1>3, <2>3
    <3>2. Clear(x)[e] = Clear(f)[e]
      BY <2>3, <3>1, ClearParts
    <3>3. QED
      BY <1>5, <3>1, <3>2 DEF g
  <2>5. n > 0 => Repeats(i)
    <3> HAVE n > 0
    <3>1. CASE d > 0
      BY <1>4, <3>1
    <3>2. CASE ~(d > 0)
      <4>1. d = 0
        BY <3>2
      <4>2. k # 1
        <5>1. k = 1 => w = <<>>
          <6>1. Upto(frags, 0) = <<>>
            BY PiecesParts
          <6>2. 1 - 1 = 0
            OBVIOUS
          <6>3. QED
            BY <6>1, <6>2 DEF w
        <5>2. QED
          BY <5>1 DEF n
      <4>3. k \in 2..Len(frags)
        BY <4>2
      <4>4. IsPrefix(w, g)
        <5>1. \A e \in 1..n : w[e] = g[e]
          <6>1. \A e \in 1..n : e \in 1..(n - d) /\ e + d = e
            BY <1>3, <4>1
          <6>2. QED
            BY <2>4, <6>1
        <5>2. n <= m
          BY <1>3, <2>3, <4>1
        <5>3. \A y, z \in Seq(Letters) :
                 Len(y) <= Len(z) /\ (\A e \in 1..Len(y) : y[e] = z[e]) => IsPrefix(y, z)
          BY DEF IsPrefix
        <5>4. QED
          BY <1>2, <5>1, <5>2, <5>3 DEF n, m
      <4>5. QED
        BY <4>3, <4>4 DEF Repeats, w, g, Upto
    <3>3. QED
      BY <3>1, <3>2
  <2>6. Parses(A) => \A e \in 1..n : v[e] = "{"
    <3> HAVE Parses(A)
    <3>1. CASE n = 0
      <4>1. 1..n = {}
        BY <3>1
      <4>2. QED
        BY <4>1
    <3>2. CASE n > 0
      <4> DEFINE l == Len(A)
      <4>1. l \in Nat /\ n + m <= l
        BY <1>2, <1>3, <1>6 DEF Words
      <4>2. A # <<>>
        BY <1>3, <3>2, <4>1
      <4>3. \A e \in 1..(n + m) : v[e] = A[e]
        BY <1>3, <1>6
      <4>4. Opens(A, d)
        <5>1. \A e \in 1..d : e \in 1..(n + m) /\ e <= n
          BY <1>3
        <5>2. QED
          BY <1>3, <1>4, <4>3, <5>1 DEF Opens
      <4>5. Shifted(A, n, d)
        <5> SUFFICES ASSUME NEW e \in 1..(n - d) PROVE A[e + d] = A[n + e]
          BY DEF Shifted
        <5>1. /\ e + d \in 1..(n + m) /\ e + d <= n /\ e \in 1..m
              /\ n + e \in 1..(n + m) /\ ~(n + e <= n) /\ (n + e) - n = e
          <6>1. n \in Nat /\ m \in Nat /\ d \in 0..n /\ n - d <= m
            BY SMTT(20), <1>3, <2>4
          <6>2. QED
            BY <6>1
        <5>2. v[e + d] = w[e + d] /\ v[n + e] = g[e]
          BY <1>3, <5>1
        <5>3. QED
          BY <2>4, <4>3, <5>1, <5>2
      <4>6. n - d <= m
        BY <1>3, <2>3
      <4>7. Opens(A, n)
        <5>1. PICK u \in Nat : l = 2 * u + 1 /\ Balanced(A, u)
          <6>1. PICK u \in Nat : /\ u > 0 /\ l = 2 * u + 1
                                 /\ \A j \in 1..u : A[j] = "{" /\ A[u + 1 + j] = "}"
                                 /\ A[u + 1] \notin {"{", "}"}
            BY <1>2, <4>2, ParsesAs
          <6>2. Balanced(A, u)
            BY <6>1 DEF Balanced
          <6>3. QED
            BY <6>1, <6>2
        <5> HIDE DEF l
        <5>2. n + m <= 2 * u + 1
          BY <4>1, <5>1
        <5>3. n \in Nat /\ m \in Nat /\ d \in 0..n
          BY <1>3
        <5>4. QED
          BY <4>4, <4>5, <4>6, <5>1, <5>2, <5>3, OnlyOpeningsRepeat
      <4>8. \A e \in 1..n : e \in 1..(n + m)
        BY <1>3
      <4>9. QED
        BY <4>3, <4>7, <4>8 DEF Opens
    <3>3. n = 0 \/ n > 0
      BY <1>3
    <3>4. QED
      BY <3>1, <3>2, <3>3
  <2>7. n \in 0..(n + m)
    BY <1>3
  <2>8. Clear(f) = g
    BY DEF g
  <2>9. Shape(Merge(x, f), n)
    BY <2>1, <2>2, <2>5, <2>6, <2>8
  <2>10. QED
    BY <1>7, <2>7, <2>9
<1>10. QED
  BY <1>8, <1>9

LEMMA ParsesBalanced ==
    ASSUME NEW x \in Words, x # <<>>, Parses(x)
    PROVE  \E n \in Nat : n > 0 /\ Len(x) = 2 * n + 1 /\ Balanced(x, n)
<1>1. PICK n \in Nat : /\ n > 0 /\ Len(x) = 2 * n + 1
                       /\ \A k \in 1..n : x[k] = "{" /\ x[n + 1 + k] = "}"
                       /\ x[n + 1] \notin {"{", "}"}
  BY ParsesAs
<1>2. Balanced(x, n)
  BY <1>1 DEF Balanced
<1>3. QED
  BY <1>1, <1>2

\* Where the value is, and where a "{" may be.
LEMMA Middle ==
    ASSUME NEW x, NEW n \in Nat, Balanced(x, n), NEW e \in 1..(2 * n + 1)
    PROVE  (x[e] \notin {"{", "}"} => e = n + 1) /\ (x[e] = "{" => e <= n)
<1>1. CASE e \in 1..n
  <2>1. x[e] = "{"
    BY <1>1 DEF Balanced
  <2>2. e <= n
    BY <1>1
  <2>3. QED
    BY <2>1, <2>2
<1>2. CASE e = n + 1
  <2>1. x[e] \notin {"{", "}"}
    BY <1>2 DEF Balanced
  <2>2. QED
    BY <1>2, <2>1
<1>3. CASE e > n + 1
  <2>1. e - (n + 1) \in 1..n /\ n + 1 + (e - (n + 1)) = e
    BY <1>3
  <2>2. x[e] = "}"
    BY <2>1 DEF Balanced
  <2>3. QED
    BY <2>2
<1>4. e \in 1..n \/ e = n + 1 \/ e > n + 1
  OBVIOUS
<1>5. QED
  BY <1>1, <1>2, <1>3, <1>4

\* Two that parse, one of them without some "{"s of the other's, are equal.
LEMMA NoneLacks ==
    ASSUME NEW A, NEW z, NEW v \in Nat, NEW n \in Nat, NEW d \in Nat,
           Balanced(A, v), Balanced(z, n), d <= 2 * v + 1, 2 * n + 1 = 2 * v + 1 - d,
           Opens(A, d), \A e \in 1..(2 * v + 1 - d) : z[e] = A[e + d]
    PROVE  d = 0
<1>1. v + 1 > d
  <2>1. CASE v + 1 \in 1..d
    BY <2>1 DEF Opens, Balanced
  <2>2. CASE v + 1 \notin 1..d
    <3>1. \A j, k \in Nat : j + 1 \notin 1..k => j + 1 > k
      OBVIOUS
    <3>2. QED
      BY <2>2, <3>1
  <2>3. QED
    BY <2>1, <2>2
<1> DEFINE e == v + 1 - d
<1>2. e \in 1..(2 * v + 1 - d) /\ e + d = v + 1 /\ e \in 1..(2 * n + 1)
  <2>1. \A j, k, l \in Nat : j + 1 > k /\ k <= 2 * j + 1 /\ 2 * l + 1 = 2 * j + 1 - k =>
            /\ j + 1 - k \in 1..(2 * j + 1 - k) /\ (j + 1 - k) + k = j + 1
            /\ j + 1 - k \in 1..(2 * l + 1)
    OBVIOUS
  <2>2. QED
    BY <1>1, <2>1
<1> HIDE DEF e
<1>3. z[e] \notin {"{", "}"}
  <2>1. z[e] = A[v + 1]
    BY <1>2
  <2>2. QED
    BY <2>1 DEF Balanced
<1>4. e = n + 1
  BY <1>2, <1>3, Middle
<1>5. \A j, k, l \in Nat : 2 * l + 1 = 2 * j + 1 - k /\ j + 1 - k = l + 1 => k = 0
  OBVIOUS
<1>6. QED
  BY <1>4, <1>5 DEF e

\* A text that ends with another one that parses does not.
LEMMA NoneFollows ==
    ASSUME NEW A, NEW z, NEW v \in Nat, NEW n \in Nat, NEW l \in Nat,
           Balanced(A, v), Balanced(z, n), 2 * n + 1 = l + (2 * v + 1),
           \A e \in 1..(2 * v + 1) : z[l + e] = A[e]
    PROVE  l = 0
<1>1. v + 1 \in 1..(2 * v + 1) /\ l + (v + 1) \in 1..(2 * n + 1)
  <2>1. \A j, k, m \in Nat : 2 * m + 1 = k + (2 * j + 1) =>
            j + 1 \in 1..(2 * j + 1) /\ k + (j + 1) \in 1..(2 * m + 1)
    OBVIOUS
  <2>2. QED
    BY <2>1
<1>2. z[l + (v + 1)] \notin {"{", "}"}
  BY <1>1 DEF Balanced
<1>3. l + (v + 1) = n + 1
  BY <1>1, <1>2, Middle
<1>4. \A j, k, m \in Nat : 2 * m + 1 = k + (2 * j + 1) /\ k + (j + 1) = m + 1 => k = 0
  OBVIOUS
<1>5. QED
  BY <1>3, <1>4

\* Nor does one whose beginning comes again in its second half.
LEMMA NoneAgain ==
    ASSUME NEW z, NEW n \in Nat, NEW l \in Nat, NEW a \in Nat,
           Balanced(z, n), n > 0, 2 * n + 1 = l + a, l >= a, a > 0, z[l + 1] = z[1]
    PROVE  FALSE
<1>1. \A j, k, m \in Nat : m > 0 /\ 2 * m + 1 = j + k /\ j >= k /\ k > 0 =>
          /\ 1 \in 1..m /\ j + 1 \in 1..(2 * m + 1) /\ ~(j + 1 <= m)
  OBVIOUS
<1>2. 1 \in 1..n /\ l + 1 \in 1..(2 * n + 1) /\ ~(l + 1 <= n)
  BY <1>1
<1>3. z[1] = "{"
  BY <1>2 DEF Balanced
<1>4. QED
  BY <1>2, <1>3, Middle

-----------------------------------------------------------------------------
(* The arguments of a call whose pieces are all there, and given again.    *)

SaidTwice(i, x) ==
    LET A == Arguments(i) IN
    /\ A # <<>>
    /\ \E y \in Words : /\ y # <<>> /\ Clear(x) = y \o A
                        /\ Repeats(i) \/ (Len(y) >= Len(A) /\ y[1] = A[1])
Final(i, x) == Got(i, Len(meant.calls[i].frags), x) \/ SaidTwice(i, x)

LEMMA GotParts ==
    ASSUME meant \in Meant, NEW i \in 1..Len(meant.calls), NEW k \in 0..Len(meant.calls[i].frags),
           NEW x \in Words, Got(i, k, x)
    PROVE  LET w == Upto(meant.calls[i].frags, k) IN
           \E d \in 0..Len(w) : /\ Clear(x) = SubSeq(w, d + 1, Len(w))
                                /\ Len(x) = Len(w) - d
                                /\ \A e \in 1..(Len(w) - d) : Clear(x)[e] = w[e + d]
                                /\ d = 0 => Clear(x) = w
                                /\ d > 0 => Repeats(i)
                                /\ Parses(Arguments(i)) => Opens(w, d)
<1> DEFINE w == Upto(meant.calls[i].frags, k)
<1>1. w \in Seq(Letters)
  BY PiecesParts, SayingsAreWords DEF Words
<1>2. PICK d \in 0..Len(w) : /\ Clear(x) = SubSeq(w, d + 1, Len(w))
                             /\ d > 0 => Repeats(i)
                             /\ Parses(Arguments(i)) => \A e \in 1..d : w[e] = "{"
  BY DEF Got
<1> HIDE DEF w
<1>3. /\ Len(SubSeq(w, d + 1, Len(w))) = Len(w) - d
      /\ \A e \in 1..(Len(w) - d) : SubSeq(w, d + 1, Len(w))[e] = w[e + d]
      /\ d = 0 => SubSeq(w, d + 1, Len(w)) = w
  BY <1>1, SubParts
<1>4. Len(Clear(x)) = Len(x)
  BY ClearParts
<1>5. QED
  BY <1>2, <1>3, <1>4 DEF w, Opens

LEMMA GotParses ==
    ASSUME meant \in Meant, NEW i \in 1..Len(meant.calls), NEW k \in 0..Len(meant.calls[i].frags),
           NEW x \in Words, Got(i, k, x), Parses(x)
    PROVE  x = <<>> \/ Clear(x) = Arguments(i) \/ Repeats(i) \/ ~Parses(Arguments(i))
<1> DEFINE w == Upto(meant.calls[i].frags, k)
           A == Arguments(i)
<1> SUFFICES ASSUME x # <<>>, ~Repeats(i), Parses(A) PROVE Clear(x) = A
  OBVIOUS
<1>1. /\ w \in Words /\ A \in Words /\ Len(w) <= Len(A)
      /\ \A e \in 1..Len(w) : w[e] = A[e]
  BY PiecesParts, SayingsAreWords, MeantParts, UptoPrefix
<1>2. Clear(x) = w /\ Len(x) = Len(w)
  <2>1. PICK d \in 0..Len(w) : /\ Len(x) = Len(w) - d
                               /\ d = 0 => Clear(x) = w
                               /\ d > 0 => Repeats(i)
    BY GotParts
  <2>2. Len(w) \in Nat
    BY <1>1 DEF Words
  <2>3. d = 0
    BY <2>1
  <2>4. QED
    BY <2>1, <2>2, <2>3
<1>3. x # <<>> => Len(w) > 0 /\ Len(w) \in Nat
  <2> HIDE DEF w
  <2>1. Len(x) \in Nat /\ (Len(x) = 0 => x = <<>>)
    BY EmptySeq DEF Words
  <2>2. QED
    BY <1>2, <2>1
<1>4. Parses(w)
  BY <1>2, ClearParses
<1> HIDE DEF w, A
<1>5. w # <<>> /\ A # <<>>
  <2>1. Len(A) \in Nat
    BY <1>1 DEF Words
  <2>2. Len(A) > 0
    BY <1>1, <1>3, <2>1
  <2>3. Len(<<>>) = 0
    OBVIOUS
  <2>4. QED
    BY <1>3, <2>2, <2>3
<1>6. PICK n \in Nat : n > 0 /\ Len(w) = 2 * n + 1 /\ Balanced(w, n)
  BY <1>1, <1>4, <1>5, ParsesBalanced
<1>7. PICK v \in Nat : v > 0 /\ Len(A) = 2 * v + 1 /\ Balanced(A, v)
  BY <1>1, <1>5, ParsesBalanced
<1>8. n = v
  <2>1. n + 1 \in 1..Len(w) /\ n + 1 \in 1..(2 * v + 1)
    BY <1>1, <1>6, <1>7
  <2>2. w[n + 1] \notin {"{", "}"}
    BY <1>6 DEF Balanced
  <2>3. A[n + 1] \notin {"{", "}"}
    BY <1>1, <2>1, <2>2
  <2>4. n + 1 = v + 1
    BY <1>7, <2>1, <2>3, Middle
  <2>5. QED
    BY <2>4
<1>9. w = A
  <2>1. Len(w) = Len(A)
    BY <1>6, <1>7, <1>8
  <2>2. w \in Seq(Letters) /\ A \in Seq(Letters)
    BY <1>1 DEF Words
  <2>3. QED
    BY <1>1, <2>1, <2>2, SeqEqual
<1>10. QED
  BY <1>2, <1>9

LEMMA FinalParses ==
    ASSUME meant \in Meant, NEW i \in 1..Len(meant.calls), NEW x \in Words, Final(i, x), Parses(x)
    PROVE  Clear(x) = Arguments(i) \/ Mended(i)
<1> DEFINE A == Arguments(i)
           z == Clear(x)
<1>1. A \in Words /\ z \in Words /\ Parses(z)
  BY MeantParts, ClearParts, ClearParses
<1>2. CASE Got(i, Len(meant.calls[i].frags), x)
  <2> DEFINE k == Len(meant.calls[i].frags)
  <2>1. k \in 0..Len(meant.calls[i].frags) /\ Upto(meant.calls[i].frags, k) = A
    <3>1. Len(meant.calls[i].frags) \in Nat
      BY PiecesParts
    <3>2. k \in 0..Len(meant.calls[i].frags)
      BY <3>1
    <3>3. Upto(meant.calls[i].frags, k) = A
      BY PiecesParts
    <3>4. QED
      BY <3>2, <3>3
  <2> HIDE DEF k
  <2>2. PICK d \in 0..Len(A) : /\ Len(x) = Len(A) - d
                               /\ \A e \in 1..(Len(A) - d) : z[e] = A[e + d]
                               /\ d = 0 => z = A
                               /\ d > 0 => Repeats(i)
                               /\ Parses(A) => Opens(A, d)
    <3>1. Got(i, k, x)
      BY <1>2 DEF k
    <3>2. \E d \in 0..Len(Upto(meant.calls[i].frags, k)) :
             /\ Len(x) = Len(Upto(meant.calls[i].frags, k)) - d
             /\ \A e \in 1..(Len(Upto(meant.calls[i].frags, k)) - d) :
                   z[e] = Upto(meant.calls[i].frags, k)[e + d]
             /\ d = 0 => z = Upto(meant.calls[i].frags, k)
             /\ d > 0 => Repeats(i)
             /\ Parses(A) => Opens(Upto(meant.calls[i].frags, k), d)
      BY <2>1, <3>1, GotParts
    <3>3. QED
      BY <2>1, <3>2
  <2>3. Len(z) = Len(x) /\ Len(A) \in Nat
    BY <1>1, ClearParts DEF Words
  <2>4. CASE d > 0 /\ Parses(A)
    <3> HIDE DEF A, z
    <3>1. A # <<>>
      <4>1. Len(A) > 0
        BY <2>3, <2>4
      <4>2. Len(<<>>) = 0
        OBVIOUS
      <4>3. QED
        BY <4>1, <4>2
    <3>2. PICK v \in Nat : v > 0 /\ Len(A) = 2 * v + 1 /\ Balanced(A, v)
      BY <1>1, <2>4, <3>1, ParsesBalanced
    <3>3. z # <<>>
      <4>1. CASE d = Len(A)
        <5>1. v + 1 \in 1..d
          BY <3>2, <4>1
        <5>2. QED
          BY <2>2, <2>4, <3>2, <5>1 DEF Opens, Balanced
      <4>2. CASE d # Len(A)
        <5>1. Len(z) > 0
          BY <2>2, <2>3, <4>2
        <5>2. Len(<<>>) = 0
          OBVIOUS
        <5>3. QED
          BY <5>1, <5>2
      <4>3. QED
        BY <4>1, <4>2
    <3>4. PICK n \in Nat : n > 0 /\ Len(z) = 2 * n + 1 /\ Balanced(z, n)
      BY <1>1, <3>3, ParsesBalanced
    <3>5. d \in Nat /\ d <= 2 * v + 1 /\ 2 * n + 1 = 2 * v + 1 - d
      <4>1. Len(z) = Len(A) - d
        BY <2>2, <2>3
      <4>2. \A j, k1, m \in Nat : \A e \in 0..j : j = 2 * k1 + 1 /\ 2 * m + 1 = j - e =>
                e \in Nat /\ e <= 2 * k1 + 1 /\ 2 * m + 1 = 2 * k1 + 1 - e
        OBVIOUS
      <4>3. QED
        BY <2>3, <3>2, <3>4, <4>1, <4>2
    <3>6. \A e \in 1..(2 * v + 1 - d) : z[e] = A[e + d]
      BY <2>2, <3>2
    <3>7. d = 0
      BY <2>2, <2>4, <3>2, <3>4, <3>5, <3>6, NoneLacks
    <3>8. QED
      BY <2>4, <3>7
  <2>5. CASE ~(d > 0) \/ ~Parses(A)
    <3>1. ~(d > 0) => d = 0
      OBVIOUS
    <3>2. QED
      BY <2>2, <2>5, <3>1 DEF Mended
  <2>6. QED
    BY <2>4, <2>5
<1>3. CASE SaidTwice(i, x)
  <2>1. PICK y \in Words : /\ A # <<>> /\ y # <<>> /\ z = y \o A
                           /\ Repeats(i) \/ (Len(y) >= Len(A) /\ y[1] = A[1])
    BY <1>3 DEF SaidTwice
  <2> HIDE DEF A, z
  <2> DEFINE l == Len(y)
             a == Len(A)
  <2>2. /\ l \in Nat /\ a \in Nat /\ Len(z) = l + a
        /\ \A e \in 1..l : z[e] = y[e]
        /\ \A e \in 1..a : z[l + e] = A[e]
    <3>1. y \in Seq(Letters) /\ A \in Seq(Letters)
      BY <1>1 DEF Words
    <3>2. /\ l \in Nat /\ a \in Nat /\ Len(y \o A) = l + a
          /\ \A e \in 1..(l + a) : (y \o A)[e] = IF e <= l THEN y[e] ELSE A[e - l]
      BY <3>1
    <3>3. /\ \A e \in 1..l : e \in 1..(l + a) /\ e <= l
          /\ \A e \in 1..a : l + e \in 1..(l + a) /\ ~(l + e <= l) /\ (l + e) - l = e
      BY <3>2
    <3> HIDE DEF l, a
    <3>4. QED
      BY <2>1, <3>2, <3>3
  <2>3. l > 0 /\ a > 0
    <3>1. Len(y) \in Nat /\ (Len(y) = 0 => y = <<>>)
      BY EmptySeq DEF Words
    <3>2. Len(A) \in Nat /\ (Len(A) = 0 => A = <<>>)
      BY <1>1, EmptySeq DEF Words
    <3>3. QED
      BY <2>1, <3>1, <3>2
  <2>4. z # <<>>
    <3>1. Len(z) > 0
      BY <2>2, <2>3
    <3>2. Len(<<>>) = 0
      OBVIOUS
    <3>3. QED
      BY <3>1, <3>2
  <2>5. PICK n \in Nat : n > 0 /\ Len(z) = 2 * n + 1 /\ Balanced(z, n)
    BY <1>1, <2>4, ParsesBalanced
  <2>6. CASE Parses(A)
    <3>1. PICK v \in Nat : v > 0 /\ a = 2 * v + 1 /\ Balanced(A, v)
      BY <1>1, <2>1, <2>6, ParsesBalanced
    <3> HIDE DEF l, a
    <3>2. 2 * n + 1 = l + (2 * v + 1) /\ \A e \in 1..(2 * v + 1) : z[l + e] = A[e]
      BY <2>2, <2>5, <3>1
    <3>3. l = 0
      BY <2>2, <2>5, <3>1, <3>2, NoneFollows
    <3>4. QED
      BY <2>3, <3>3
  <2>7. CASE ~Parses(A)
    <3>1. CASE Repeats(i)
      BY <2>7, <3>1 DEF Mended, A
    <3>2. CASE l >= a /\ y[1] = A[1]
      <4>1. 2 * n + 1 = l + a /\ 1 \in 1..l /\ 1 \in 1..a
        BY <2>2, <2>3, <2>5
      <4>2. z[l + 1] = z[1]
        BY <2>2, <3>2, <4>1
      <4> HIDE DEF l, a
      <4>3. QED
        BY <2>2, <2>3, <2>5, <3>2, <4>1, <4>2, NoneAgain
    <3>3. QED
      BY <2>1, <3>1, <3>2
  <2>8. QED
    BY <2>6, <2>7
<1>4. QED
  BY <1>2, <1>3 DEF Final

LEMMA GotWhole ==
    ASSUME meant \in Meant, NEW i \in 1..Len(meant.calls), NEW f \in Words, Clear(f) = Arguments(i)
    PROVE  Final(i, f)
<1> DEFINE k == Len(meant.calls[i].frags)
           w == Upto(meant.calls[i].frags, k)
<1>1. w = Arguments(i)
  BY PiecesParts
<1>2. w \in Seq(Letters)
  BY <1>1, MeantParts DEF Words
<1> HIDE DEF w
<1>3. Len(w) \in Nat /\ 0 \in 0..Len(w) /\ SubSeq(w, 0 + 1, Len(w)) = w /\ ~(0 > 0)
  <2>1. Len(w) \in Nat
    BY <1>2
  <2>2. 0 \in 0..Len(w)
    BY <2>1
  <2>3. SubSeq(w, 0 + 1, Len(w)) = w
    BY <1>2, <2>2, SubParts
  <2>4. QED
    BY <2>1, <2>2, <2>3
<1>4. \A e \in 1..0 : w[e] = "{"
  <2>1. 1..0 = {}
    OBVIOUS
  <2>2. QED
    BY <2>1
<1>5. Got(i, k, f) <=>
          \E d \in 0..Len(w) : /\ Clear(f) = SubSeq(w, d + 1, Len(w))
                               /\ d > 0 => Repeats(i)
                               /\ Parses(Arguments(i)) => \A e \in 1..d : w[e] = "{"
  BY DEF Got, w
<1>6. Got(i, k, f)
  BY <1>1, <1>3, <1>4, <1>5
<1>7. QED
  BY <1>6 DEF Final

\* The arguments given once more leave them so.
LEMMA FinalMerge ==
    ASSUME meant \in Meant, NEW i \in 1..Len(meant.calls), NEW x \in Words, NEW f \in Words,
           Clear(f) = Arguments(i), Final(i, x)
    PROVE  Final(i, Merge(x, f))
<1> DEFINE A == Arguments(i)
           k == Len(meant.calls[i].frags)
<1>1. CASE IsPrefix(x, f)
  BY <1>1, GotWhole DEF Merge
<1>2. CASE ~IsPrefix(x, f)
  <2>1. Merge(x, f) = x \o f /\ Clear(x \o f) = Clear(x) \o A
    BY <1>2, ClearParts DEF Merge
  <2>2. A \in Seq(Letters) /\ Clear(x) \in Words /\ Clear(x) \in Seq(Letters)
    BY MeantParts, ClearParts DEF Words
  <2>3. x # <<>> /\ Clear(x) # <<>>
    <3>1. x = <<>> => IsPrefix(x, f)
      <4>1. Len(<<>>) = 0 /\ Len(f) \in Nat /\ 1..0 = {}
        BY DEF Words
      <4>2. QED
        BY <4>1 DEF IsPrefix, Words
    <3>2. Len(x) = Len(Clear(x)) /\ Len(<<>>) = 0 /\ (Len(x) = 0 => x = <<>>)
      BY ClearParts, EmptySeq DEF Words
    <3>3. QED
      BY <1>2, <3>1, <3>2
  <2>4. CASE A # <<>> /\ Got(i, k, x)
    <3>1. k \in 0..Len(meant.calls[i].frags) /\ Upto(meant.calls[i].frags, k) = A
      <4>1. Len(meant.calls[i].frags) \in Nat
        BY PiecesParts
      <4>2. k \in 0..Len(meant.calls[i].frags)
        BY <4>1
      <4>3. Upto(meant.calls[i].frags, k) = A
        BY PiecesParts
      <4>4. QED
        BY <4>2, <4>3
    <3> HIDE DEF k
    <3>2. \E d \in 0..Len(Upto(meant.calls[i].frags, k)) :
             /\ d = 0 => Clear(x) = Upto(meant.calls[i].frags, k)
             /\ d > 0 => Repeats(i)
      BY <2>4, <3>1, GotParts
    <3>3. Clear(x) = A \/ Repeats(i)
      <4>1. PICK d \in 0..Len(A) : (d = 0 => Clear(x) = A) /\ (d > 0 => Repeats(i))
        BY <3>1, <3>2
      <4>2. Len(A) \in Nat
        BY <2>2
      <4>3. d = 0 \/ d > 0
        BY <4>1, <4>2
      <4>4. QED
        BY <4>1, <4>3
    <3>4. Clear(x) = A => Len(Clear(x)) >= Len(A) /\ Clear(x)[1] = A[1]
      BY <2>2
    <3>5. SaidTwice(i, x \o f)
      BY <2>1, <2>2, <2>3, <2>4, <3>3, <3>4 DEF SaidTwice
    <3>6. QED
      BY <2>1, <3>5 DEF Final
  <2>5. CASE SaidTwice(i, x)
    <3>1. PICK y \in Words : /\ A # <<>> /\ y # <<>> /\ Clear(x) = y \o A
                             /\ Repeats(i) \/ (Len(y) >= Len(A) /\ y[1] = A[1])
      BY <2>5 DEF SaidTwice
    <3> DEFINE z == y \o A
    <3> HIDE DEF A
    <3>2. y \in Seq(Letters) /\ Len(y) \in Nat /\ Len(A) \in Nat /\ Len(y) > 0
      BY <2>2, <3>1 DEF Words
    <3>3. z \in Words /\ Len(z) = Len(y) + Len(A) /\ z[1] = y[1]
      BY <2>2, <3>2 DEF Words
    <3> HIDE DEF z
    <3>4. z # <<>> /\ (Len(y) >= Len(A) => Len(z) >= Len(A))
      <4>1. Len(<<>>) = 0
        OBVIOUS
      <4>2. QED
        BY <3>2, <3>3, <4>1
    <3>5. Clear(x \o f) = z \o A
      BY <2>1, <3>1 DEF z
    <3>6. SaidTwice(i, x \o f)
      BY <3>1, <3>3, <3>4, <3>5 DEF SaidTwice, A
    <3>7. QED
      BY <2>1, <3>6 DEF Final
  <2>6. CASE A = <<>>
    <3>1. CASE SaidTwice(i, x)
      BY <2>6, <3>1 DEF SaidTwice
    <3>2. CASE Got(i, k, x)
      <4>1. k \in 0..Len(meant.calls[i].frags) /\ Upto(meant.calls[i].frags, k) = <<>>
        <5>1. Len(meant.calls[i].frags) \in Nat
          BY PiecesParts
        <5>2. k \in 0..Len(meant.calls[i].frags)
          BY <5>1
        <5>3. Upto(meant.calls[i].frags, k) = A
          BY PiecesParts
        <5>4. QED
          BY <2>6, <5>2, <5>3
      <4> HIDE DEF k
      <4>2. \E d \in 0..Len(Upto(meant.calls[i].frags, k)) :
               /\ d = 0 => Clear(x) = Upto(meant.calls[i].frags, k)
               /\ d > 0 => Repeats(i)
        BY <3>2, <4>1, GotParts
      <4>3. Len(<<>>) = 0 /\ 0..0 = {0}
        OBVIOUS
      <4>4. Clear(x) = <<>>
        BY <4>1, <4>2, <4>3
      <4>5. QED
        BY <2>3, <4>4
    <3>3. QED
      BY <3>1, <3>2 DEF Final
  <2>7. QED
    BY <2>4, <2>5, <2>6 DEF Final
<1>3. QED
  BY <1>1, <1>2

-----------------------------------------------------------------------------
(* The calls in the accumulator, under the keys their frames have.         *)

\* The first j calls, each under its own key of the sort o.
Lined(a, o, j) ==
    /\ Len(a.order) = j
    /\ \A q \in 1..j : a.order[q] = <<o, q>> /\ a.calls[q].id = <<"call", q>>
    /\ \A e \in 1..Len(a.alias) : \E q \in 1..j : a.alias[e] = <<<<"call", q>>, <<o, q>>>>

LEMMA LinedPlaces ==
    ASSUME NEW a \in Ordered, NEW o \in {"index", "call"}, NEW j \in Nat, Lined(a, o, j), NEW q \in 1..j
    PROVE  /\ Place(a, <<o, q>>) = q /\ Alias(a, <<o, q>>) = <<o, q>>
           /\ Alias(a, <<"call", q>>) \in {<<"call", q>>, <<o, q>>}
           /\ o = "index" => Place(a, <<"call", q>>) = 0
<1>1. a \in Accumulators /\ Len(a.order) = j
  BY DEF Ordered, Lined
<1>2. \A r \in 1..j : a.order[r] = <<o, r>>
  BY DEF Lined
<1>3. \A e \in DOMAIN a.alias : \E r \in 1..j : a.alias[e] = <<<<"call", r>>, <<o, r>>>>
  BY <1>1, AccumulatorParts DEF Lined
<1>4. Place(a, <<o, q>>) = q
  <2>1. Place(a, <<o, q>>) > 0
    BY <1>1, <1>2, PlaceGives
  <2>2. Place(a, <<o, q>>) \in 1..j /\ a.order[Place(a, <<o, q>>)] = <<o, q>>
    BY <1>1, <2>1, PlaceGives
  <2>3. QED
    BY <1>2, <2>2
<1>5. \A k : (\A e \in DOMAIN a.alias : a.alias[e][1] # k) => Alias(a, k) = k
  BY DEF Alias
<1>6. Alias(a, <<"call", q>>) \in {<<"call", q>>, <<o, q>>}
  <2>1. CASE \E e \in DOMAIN a.alias : a.alias[e][1] = <<"call", q>>
    <3>1. PICK e \in DOMAIN a.alias : /\ a.alias[e][1] = <<"call", q>>
                                      /\ Alias(a, <<"call", q>>) = a.alias[e][2]
      BY <2>1 DEF Alias
    <3>2. PICK r \in 1..j : a.alias[e] = <<<<"call", r>>, <<o, r>>>>
      BY <1>3
    <3>3. QED
      BY <3>1, <3>2
  <2>2. QED
    BY <1>5, <2>1
<1>7. Alias(a, <<o, q>>) = <<o, q>>
  <2>1. CASE o = "call"
    BY <1>6, <2>1
  <2>2. CASE o = "index"
    <3>1. \A e \in DOMAIN a.alias : a.alias[e][1] # <<o, q>>
      BY <1>3, <2>2
    <3>2. QED
      BY <1>5, <3>1
  <2>3. QED
    BY <2>1, <2>2
<1>8. o = "index" => Place(a, <<"call", q>>) = 0
  <2> HAVE o = "index"
  <2>1. \A r \in 1..Len(a.order) : a.order[r] # <<"call", q>>
    BY <1>1, <1>2
  <2>2. ~(Place(a, <<"call", q>>) > 0) /\ Place(a, <<"call", q>>) \in 0..Len(a.order)
    BY <1>1, <2>1, PlaceGives
  <2>3. QED
    BY <2>2
<1>9. QED
  BY <1>4, <1>6, <1>7, <1>8

LEMMA LinedPlace ==
    ASSUME NEW a \in Ordered, NEW o \in {"index", "call"}, NEW j \in Nat, Lined(a, o, j), NEW q \in 1..j
    PROVE  Place(a, <<o, q>>) = q
BY LinedPlaces

LEMMA LinedAlias ==
    ASSUME NEW a \in Ordered, NEW o \in {"index", "call"}, NEW j \in Nat, Lined(a, o, j), NEW q \in 1..j
    PROVE  Alias(a, <<o, q>>) = <<o, q>>
BY ZenonT(40), LinedPlaces

LEMMA LinedNext ==
    ASSUME NEW a \in Ordered, NEW o \in {"index", "call"}, NEW j \in Nat, Lined(a, o, j)
    PROVE  Place(a, <<o, j + 1>>) = 0 /\ Alias(a, <<o, j + 1>>) = <<o, j + 1>>
<1>1. a \in Accumulators /\ Len(a.order) = j
  BY DEF Ordered, Lined
<1>2. \A q \in 1..j : a.order[q] = <<o, q>>
  BY DEF Lined
<1>3. \A e \in DOMAIN a.alias : \E q \in 1..j : a.alias[e] = <<<<"call", q>>, <<o, q>>>>
  BY <1>1, AccumulatorParts DEF Lined
<1>5. \A k : (\A e \in DOMAIN a.alias : a.alias[e][1] # k) => Alias(a, k) = k
  BY DEF Alias
<1>9. Place(a, <<o, j + 1>>) = 0
  <2>1. \A r \in 1..j : r # j + 1
    OBVIOUS
  <2>2. \A r \in 1..Len(a.order) : a.order[r] # <<o, j + 1>>
    BY <1>1, <1>2, <2>1
  <2>3. ~(Place(a, <<o, j + 1>>) > 0) /\ Place(a, <<o, j + 1>>) \in 0..Len(a.order)
    BY <1>1, <2>2, PlaceGives
  <2>4. QED
    BY <2>3
<1>10. Alias(a, <<o, j + 1>>) = <<o, j + 1>>
  <2>1. \A r \in 1..j : r # j + 1
    OBVIOUS
  <2>2. \A e \in DOMAIN a.alias : a.alias[e][1] # <<o, j + 1>>
    BY <1>3, <2>1
  <2>3. QED
    BY <1>5, <2>2
<1>11. QED
  BY <1>9, <1>10

\* The text and what else is not of calls stays.
LEMMA EnsureRest ==
    ASSUME NEW a \in Accumulators, NEW key, NEW id
    PROVE  LET b == Ensure(a, key, id) IN b.text = a.text /\ b.usage = a.usage /\ b.errors = a.errors
<1> DEFINE k == Alias(a, key)
           same == {i \in DOMAIN a.calls : id # NoId /\ a.calls[i].id = id}
           linked == [a EXCEPT !.alias = Append(@, <<k, a.order[CHOOSE i \in same : TRUE]>>)]
           b == IF Place(a, k) = 0 /\ same # {} THEN linked ELSE a
           p == Place(b, Alias(b, k))
           added == [b EXCEPT !.order = Append(@, k),
                              !.calls = Append(@, [id |-> id, name |-> <<>>, args |-> <<>>])]
           named == [b EXCEPT !.calls[p].id = id]
           Rest(c) == c.text = a.text /\ c.usage = a.usage /\ c.errors = a.errors
           Fields == {"text", "usage", "errors", "order", "alias", "calls"}
<1>1. Ensure(a, key, id) = IF p = 0 THEN added ELSE IF id = NoId THEN b ELSE named
  BY DEF Ensure
<1>2. DOMAIN a = Fields
  BY DEF Accumulators
<1>3. Rest(linked) /\ DOMAIN linked = Fields
  BY <1>2
<1> HIDE DEF linked
<1>4. Rest(b) /\ DOMAIN b = Fields
  BY <1>2, <1>3
<1> HIDE DEF b, p
<1>5. Rest(added) /\ Rest(named)
  BY <1>4
<1> HIDE DEF added, named
<1>6. QED
  BY <1>1, <1>4, <1>5

LEMMA TellRest ==
    ASSUME NEW a \in Ordered, NEW key \in Keys, NEW id \in Keys, NEW name, NEW args
    PROVE  LET b == Tell(a, key, id, name, args) IN
           /\ b.text = a.text /\ b.usage = a.usage /\ b.errors = a.errors
           /\ b.order = Ensure(a, key, id).order /\ b.alias = Ensure(a, key, id).alias
<1> DEFINE b == Ensure(a, key, id)
           p == Place(b, Alias(b, key))
           told == [b EXCEPT !.calls[p].name = Merge(@, name), !.calls[p].args = Merge(@, args)]
<1>1. Tell(a, key, id, name, args) = told
  BY DEF Tell
<1>2. a \in Accumulators /\ b \in Accumulators
  BY EnsureKeeps DEF Ordered
<1>3. b.text = a.text /\ b.usage = a.usage /\ b.errors = a.errors
  BY <1>2, EnsureRest
<1> HIDE DEF b, p
<1>4. told.text = b.text /\ told.usage = b.usage /\ told.errors = b.errors
      /\ told.order = b.order /\ told.alias = b.alias
  BY <1>2 DEF Accumulators
<1> HIDE DEF told
<1>5. QED
  BY <1>1, <1>3, <1>4 DEF b

\* What becomes of the calls: one at p has got a name and arguments more.
Told(b, c, p, name, args) ==
    /\ Len(c.calls) = Len(b.calls)
    /\ \A q \in 1..Len(b.calls) :
          c.calls[q] = IF q = p THEN [id |-> b.calls[q].id, name |-> Merge(b.calls[q].name, name),
                                      args |-> Merge(b.calls[q].args, args)]
                       ELSE b.calls[q]

LEMMA TellCalls ==
    ASSUME NEW a \in Ordered, NEW key \in Keys, NEW id \in Keys, NEW name \in Words, NEW args \in Words
    PROVE  LET b == Ensure(a, key, id) IN
           Told(b, Tell(a, key, id, name, args), Place(b, Alias(b, key)), name, args)
<1> DEFINE b == Ensure(a, key, id)
           p == Place(b, Alias(b, key))
           told == [b EXCEPT !.calls[p].name = Merge(@, name), !.calls[p].args = Merge(@, args)]
           calls == [b.calls EXCEPT ![p].name = Merge(@, name), ![p].args = Merge(@, args)]
<1>1. Tell(a, key, id, name, args) = told
  BY DEF Tell
<1>2. b \in Accumulators
  BY EnsureKeeps DEF Ordered
<1> HIDE DEF b, p
<1>3. told.calls = calls
  BY <1>2 DEF Accumulators
<1>4. /\ DOMAIN b.calls = 1..Len(b.calls) /\ Len(b.calls) \in Nat
      /\ \A q \in 1..Len(b.calls) : b.calls[q] \in CallRecords
  BY <1>2, AccumulatorParts
<1> HIDE DEF told
<1>5. DOMAIN calls = 1..Len(b.calls)
  BY <1>4
<1>6. \A q \in 1..Len(b.calls) :
         calls[q] = IF q = p THEN [b.calls[q] EXCEPT !.name = Merge(@, name), !.args = Merge(@, args)]
                    ELSE b.calls[q]
  BY <1>4
<1>7. \A r \in CallRecords : [r EXCEPT !.name = Merge(@, name), !.args = Merge(@, args)]
                             = [id |-> r.id, name |-> Merge(r.name, name), args |-> Merge(r.args, args)]
  <2>1. ASSUME NEW r \in CallRecords, NEW m, NEW h
        PROVE  [r EXCEPT !.name = m, !.args = h] = [id |-> r.id, name |-> m, args |-> h]
    <3> DEFINE x == [r EXCEPT !.name = m, !.args = h]
    <3>1. DOMAIN r = {"id", "name", "args"} /\ r = [e \in {"id", "name", "args"} |-> r[e]]
      BY DEF CallRecords
    <3>2. x = [e \in {"id", "name", "args"} |->
                  IF e = "name" THEN m ELSE IF e = "args" THEN h ELSE r[e]]
      BY <3>1
    <3>3. QED
      BY <3>2
  <2>2. QED
    BY <2>1
<1>8. Len(calls) = Len(b.calls)
  <2>1. Tell(a, key, id, name, args) \in Ordered
    BY TellKeeps
  <2>2. DOMAIN calls = 1..Len(calls) /\ Len(calls) \in Nat
    BY <1>1, <1>3, <2>1, AccumulatorParts DEF Ordered
  <2> HIDE DEF calls
  <2>3. QED
    BY <1>4, <1>5, <2>2
<1> HIDE DEF calls
<1>9. QED
  BY <1>1, <1>3, <1>4, <1>6, <1>7, <1>8 DEF b, p, Told

\* A frame of a call that is there already: under its key, or under its id.
Knows(o, q, key, id) ==
    (key = <<o, q>> /\ id \in {NoId, <<"call", q>>}) \/ (key = <<"call", q>> /\ id = key)

LEMMA EnsureHits ==
    ASSUME NEW a \in Ordered, NEW o \in {"index", "call"}, NEW j \in Nat, Lined(a, o, j),
           NEW q \in 1..j, NEW key \in Keys, NEW id \in Keys, Knows(o, q, key, id)
    PROVE  LET b == Ensure(a, key, id) IN
           /\ Lined(b, o, j) /\ Place(b, Alias(b, key)) = q
           /\ Len(b.calls) = Len(a.calls)
           /\ \A r \in 1..j : b.calls[r].name = a.calls[r].name /\ b.calls[r].args = a.calls[r].args
<1> DEFINE k == Alias(a, key)
           same == {i \in DOMAIN a.calls : id # NoId /\ a.calls[i].id = id}
           linked == [a EXCEPT !.alias = Append(@, <<k, a.order[CHOOSE i \in same : TRUE]>>)]
           b == IF Place(a, k) = 0 /\ same # {} THEN linked ELSE a
           p == Place(b, Alias(b, k))
           added == [b EXCEPT !.order = Append(@, k),
                              !.calls = Append(@, [id |-> id, name |-> <<>>, args |-> <<>>])]
           named == [b EXCEPT !.calls[p].id = id]
<1>1. Ensure(a, key, id) = IF p = 0 THEN added ELSE IF id = NoId THEN b ELSE named
  BY DEF Ensure
<1>2. /\ a \in Accumulators /\ Len(a.order) = j /\ Len(a.calls) = j
      /\ DOMAIN a.calls = 1..j /\ DOMAIN a.order = 1..j /\ DOMAIN a.alias = 1..Len(a.alias) /\ Len(a.alias) \in Nat
  BY AccumulatorParts DEF Ordered, OrderOK, Lined
<1>3. /\ Place(a, <<o, q>>) = q /\ Alias(a, <<o, q>>) = <<o, q>>
      /\ Alias(a, <<"call", q>>) \in {<<"call", q>>, <<o, q>>}
      /\ o = "index" => Place(a, <<"call", q>>) = 0
  BY LinedPlaces
<1>4. id \in {NoId, <<"call", q>>} /\ k \in {<<"call", q>>, <<o, q>>} /\ q > 0 /\ q \in Nat
  BY <1>3 DEF Knows
<1> DEFINE Like(c) == /\ c \in Ordered /\ Lined(c, o, j) /\ Len(c.calls) = j /\ c.order = a.order
                      /\ \A r \in 1..j : c.calls[r].name = a.calls[r].name /\ c.calls[r].args = a.calls[r].args
<1>5. Like(b) /\ Alias(b, k) = <<o, q>> /\ p = q /\ (Alias(b, key) = k \/ Alias(b, key) = <<o, q>>)
      /\ Alias(b, key) = <<o, q>>
  <2>1. CASE k = <<o, q>>
    <3>1. b = a
      BY <1>3, <1>4, <2>1
    <3>2. Like(a)
      BY <1>2
    <3> HIDE DEF b
    <3>3. QED
      BY <1>3, <2>1, <3>1, <3>2 DEF b
  <2>2. CASE k # <<o, q>>
    <3>1. k = <<"call", q>> /\ o = "index" /\ key = <<"call", q>> /\ id = <<"call", q>>
      BY <1>3, <1>4, <2>2 DEF Knows
    <3>2. Place(a, k) = 0
      BY <1>3, <3>1
    <3>3. same = {q}
      <4>1. \A r \in 1..j : a.calls[r].id = <<"call", r>>
        BY DEF Lined
      <4>2. <<"call", q>> # NoId
        BY DEF NoId
      <4>3. QED
        BY <1>2, <3>1, <4>1, <4>2
    <3>4. b = [a EXCEPT !.alias = Append(@, <<k, <<o, q>>>>)]
      <4>1. (CHOOSE i \in same : TRUE) = q
        BY <3>3
      <4>2. a.order[q] = <<o, q>>
        BY DEF Lined
      <4> HIDE DEF same, k
      <4>3. same # {}
        BY <3>3
      <4>4. QED
        BY <3>2, <4>1, <4>2, <4>3
    <3> DEFINE more == Append(a.alias, <<k, <<o, q>>>>)
    <3>5. /\ Len(more) = Len(a.alias) + 1 /\ \A e \in 1..Len(a.alias) : more[e] = a.alias[e]
          /\ more[Len(a.alias) + 1] = <<k, <<o, q>>>>
      <4> DEFINE pairs == Keys \X Keys
      <4>1. a.alias \in Seq(pairs) /\ <<k, <<o, q>>>> \in pairs
        <5>1. k \in Keys /\ <<o, q>> \in Keys
          BY <1>4, <3>1 DEF Keys
        <5>2. QED
          BY <1>2, <5>1 DEF Accumulators
      <4> HIDE DEF pairs, k
      <4>2. QED
        BY <4>1, AppendProperties
    <3>6. b.alias = more /\ b.order = a.order /\ b.calls = a.calls
      BY <1>2, <3>4 DEF Accumulators
    <3>7. b \in Ordered
      <4>1. k \in Keys /\ <<o, q>> \in Keys
        BY <1>4, <3>1 DEF Keys
      <4>2. Place(a, <<o, q>>) > 0
        BY <1>3, <1>4
      <4> HIDE DEF b, k
      <4>3. QED
        BY <3>4, <4>1, <4>2, AliasAdded
    <3> HIDE DEF b, more
    <3>8. \A e \in 1..(Len(a.alias) + 1) : e \in 1..Len(a.alias) \/ e = Len(a.alias) + 1
      BY <1>2
    <3>9. Lined(b, o, j)
      BY ZenonT(40), <3>1, <3>5, <3>6, <3>8 DEF Lined
    <3>10. Like(b)
      BY <1>2, <3>6, <3>7, <3>9
    <3>11. Alias(b, k) = <<o, q>>
      <4>1. Len(a.alias) + 1 \in DOMAIN b.alias /\ b.alias[Len(a.alias) + 1][1] = k
        <5>1. DOMAIN b.alias = 1..Len(b.alias)
          BY <3>7, AccumulatorParts DEF Ordered
        <5>2. DOMAIN b.alias = 1..(Len(a.alias) + 1)
          BY <3>5, <3>6, <5>1
        <5>3. Len(a.alias) + 1 \in 1..(Len(a.alias) + 1)
          BY <1>2
        <5>4. b.alias[Len(a.alias) + 1] = <<k, <<o, q>>>>
          BY <3>5, <3>6
        <5>5. QED
          BY <5>2, <5>3, <5>4
      <4>2. PICK e \in DOMAIN b.alias : b.alias[e][1] = k /\ Alias(b, k) = b.alias[e][2]
        BY <4>1 DEF Alias
      <4>3. PICK r \in 1..j : b.alias[e] = <<<<"call", r>>, <<o, r>>>>
        <5>1. DOMAIN b.alias = 1..Len(b.alias)
          BY <3>7, AccumulatorParts DEF Ordered
        <5>2. QED
          BY <3>9, <4>2, <5>1 DEF Lined
      <4>4. r = q
        BY <3>1, <4>2, <4>3
      <4>5. QED
        BY <4>2, <4>3, <4>4
    <3>12. p = q
      <4>1. Place(b, <<o, q>>) = q
        BY <3>7, <3>9, LinedPlace
      <4>2. QED
        BY <3>11, <4>1
    <3>13. QED
      BY <3>1, <3>10, <3>11, <3>12
  <2>3. QED
    BY <2>1, <2>2
<1> HIDE DEF b, p, k, same, linked
<1>6. b \in Accumulators /\ Len(b.calls) = j /\ DOMAIN b.calls = 1..j /\ \A r \in 1..j : b.calls[r] \in CallRecords
  BY <1>5, AccumulatorParts DEF Ordered
<1>7. id # NoId => Like(named) /\ named.alias = b.alias
  <2> DEFINE calls == [b.calls EXCEPT ![p].id = id]
  <2>1. named = [b EXCEPT !.calls = calls]
    BY <1>6 DEF Accumulators
  <2>2. DOMAIN calls = 1..j /\ \A r \in 1..j : calls[r] = IF r = p THEN [b.calls[r] EXCEPT !.id = id] ELSE b.calls[r]
    BY <1>6
  <2>3. \A c \in CallRecords : /\ [c EXCEPT !.id = id] \in CallRecords
                               /\ [c EXCEPT !.id = id].name = c.name /\ [c EXCEPT !.id = id].args = c.args
                               /\ [c EXCEPT !.id = id].id = id
    BY DEF CallRecords
  <2>4. calls \in Seq(CallRecords) /\ Len(calls) = j
    <3>1. \A r \in 1..j : calls[r] \in CallRecords
      <4> HIDE DEF calls
      <4>1. QED
        BY <1>6, <2>2, <2>3
    <3>2. calls = [r \in 1..j |-> calls[r]]
      BY <2>2
    <3> HIDE DEF calls
    <3>3. calls \in [1..j -> CallRecords]
      BY <3>1, <3>2
    <3>4. QED
      BY <3>3
  <2>5. \A r \in 1..j : calls[r].name = b.calls[r].name /\ calls[r].args = b.calls[r].args
    <3> HIDE DEF calls
    <3>1. QED
      BY <1>6, <2>2, <2>3
  <2>6. id # NoId => \A r \in 1..j : calls[r].id = <<"call", r>>
    <3> HIDE DEF calls
    <3>1. \A r \in 1..j : b.calls[r].id = <<"call", r>>
      BY <1>5 DEF Lined
    <3>2. id # NoId => id = <<"call", q>>
      BY <1>4
    <3>3. ASSUME id # NoId, NEW r \in 1..j PROVE calls[r].id = <<"call", r>>
      <4>1. CASE r = p
        <5>1. calls[r] = [b.calls[r] EXCEPT !.id = id] /\ b.calls[r] \in CallRecords
          BY <1>6, <2>2, <4>1
        <5>2. calls[r].id = id
          BY <2>3, <5>1
        <5>3. QED
          BY <1>5, <3>2, <3>3, <4>1, <5>2
      <4>2. CASE r # p
        BY <2>2, <3>1, <4>2
      <4>3. QED
        BY <4>1, <4>2
    <3>4. QED
      BY <3>3
  <2> HIDE DEF calls
  <2>7. named \in Ordered /\ named.order = b.order /\ named.alias = b.alias /\ named.calls = calls
    <3>1. named \in Ordered
      BY <1>5, <1>6, <2>1, <2>4, CallChanged
    <3>2. QED
      BY <1>6, <2>1, <3>1 DEF Accumulators
  <2> HIDE DEF named
  <2>8. id # NoId => Like(named)
    <3> HAVE id # NoId
    <3>1. Lined(named, o, j)
      BY <1>5, <2>6, <2>7 DEF Lined
    <3>2. QED
      BY <1>5, <2>4, <2>5, <2>7, <3>1
  <2>9. QED
    BY <2>7, <2>8
<1> HIDE DEF named, added
<1> DEFINE c == Ensure(a, key, id)
<1>8. c = IF id = NoId THEN b ELSE named
  BY <1>1, <1>4, <1>5
<1>9. Like(c) /\ c.alias = b.alias
  BY <1>5, <1>7, <1>8
<1> HIDE DEF c
<1>10. Alias(c, key) = <<o, q>>
  BY <1>5, <1>9 DEF Alias
<1>11. Place(c, <<o, q>>) = q
  <2>1. c \in Ordered /\ Lined(c, o, j)
    BY <1>9
  <2>2. QED
    BY <2>1, LinedPlace
<1>12. QED
  BY <1>2, <1>9, <1>10, <1>11 DEF c

LEMMA TellHits ==
    ASSUME NEW a \in Ordered, NEW o \in {"index", "call"}, NEW j \in Nat, Lined(a, o, j),
           NEW q \in 1..j, NEW key \in Keys, NEW id \in Keys, Knows(o, q, key, id),
           NEW name \in Words, NEW args \in Words
    PROVE  LET b == Tell(a, key, id, name, args) IN
           /\ Lined(b, o, j)
           /\ \A r \in 1..j :
                 /\ b.calls[r].name = IF r = q THEN Merge(a.calls[r].name, name) ELSE a.calls[r].name
                 /\ b.calls[r].args = IF r = q THEN Merge(a.calls[r].args, args) ELSE a.calls[r].args
<1> DEFINE e == Ensure(a, key, id)
           b == Tell(a, key, id, name, args)
<1>1. /\ Lined(e, o, j) /\ Place(e, Alias(e, key)) = q /\ Len(e.calls) = Len(a.calls)
      /\ \A r \in 1..j : e.calls[r].name = a.calls[r].name /\ e.calls[r].args = a.calls[r].args
  BY EnsureHits
<1>2. Len(a.calls) = j
  BY DEF Ordered, OrderOK, Lined
<1>3. /\ Len(b.calls) = Len(e.calls)
      /\ \A r \in 1..Len(e.calls) :
            b.calls[r] = IF r = Place(e, Alias(e, key))
                         THEN [id |-> e.calls[r].id, name |-> Merge(e.calls[r].name, name),
                               args |-> Merge(e.calls[r].args, args)]
                         ELSE e.calls[r]
  <2>1. Told(e, b, Place(e, Alias(e, key)), name, args)
    BY TellCalls
  <2> HIDE DEF e, b
  <2>2. QED
    BY <2>1 DEF Told
<1>4. b.order = e.order /\ b.alias = e.alias
  BY TellRest
<1> HIDE DEF e, b
<1>5. \A r \in 1..j : b.calls[r] = IF r = q THEN [id |-> e.calls[r].id, name |-> Merge(e.calls[r].name, name),
                                                  args |-> Merge(e.calls[r].args, args)]
                                   ELSE e.calls[r]
  BY <1>1, <1>2, <1>3
<1>6. ASSUME NEW r \in 1..j
      PROVE  /\ b.calls[r].id = e.calls[r].id
             /\ b.calls[r].name = IF r = q THEN Merge(a.calls[r].name, name) ELSE a.calls[r].name
             /\ b.calls[r].args = IF r = q THEN Merge(a.calls[r].args, args) ELSE a.calls[r].args
  <2>1. e.calls[r].name = a.calls[r].name /\ e.calls[r].args = a.calls[r].args
    BY <1>1
  <2>2. CASE r = q
    <3>1. b.calls[r] = [id |-> e.calls[r].id, name |-> Merge(e.calls[r].name, name),
                        args |-> Merge(e.calls[r].args, args)]
      BY <1>5, <2>2
    <3>2. QED
      BY <2>1, <2>2, <3>1
  <2>3. CASE r # q
    <3>1. b.calls[r] = e.calls[r]
      BY <1>5, <2>3
    <3>2. QED
      BY <2>1, <2>3, <3>1
  <2>4. QED
    BY <2>2, <2>3
<1>7. Lined(b, o, j)
  BY <1>1, <1>4, <1>6 DEF Lined
<1>8. \A r \in 1..j :
         /\ b.calls[r].name = IF r = q THEN Merge(a.calls[r].name, name) ELSE a.calls[r].name
         /\ b.calls[r].args = IF r = q THEN Merge(a.calls[r].args, args) ELSE a.calls[r].args
  BY <1>6
<1>9. QED
  BY <1>7, <1>8 DEF b

LEMMA MergeFirst ==
    ASSUME NEW x \in Words
    PROVE  Merge(<<>>, x) = x /\ Merge(x, <<>>) = x /\ Merge(x, x) = x
<1>1. x \in Seq(Letters) /\ Len(x) \in Nat
  BY DEF Words
<1>2. IsPrefix(<<>>, x) /\ IsPrefix(x, x)
  <2>1. Len(<<>>) = 0 /\ 1..0 = {} /\ <<>> \in Seq(Letters)
    OBVIOUS
  <2>2. QED
    BY <1>1, <2>1 DEF IsPrefix
<1>3. x \o <<>> = x
  BY <1>1
<1>4. IsPrefix(x, <<>>) => x = <<>>
  <2>1. IsPrefix(x, <<>>) => Len(x) <= Len(<<>>)
    BY DEF IsPrefix
  <2>2. Len(<<>>) = 0 /\ (Len(x) = 0 => x = <<>>)
    BY <1>1, EmptySeq
  <2>3. QED
    BY <1>1, <2>1, <2>2
<1>5. QED
  BY <1>2, <1>3, <1>4 DEF Merge

LEMMA TellAdds ==
    ASSUME NEW a \in Ordered, NEW o \in {"index", "call"}, NEW j \in Nat, Lined(a, o, j),
           NEW name \in Words, NEW args \in Words
    PROVE  LET b == Tell(a, <<o, j + 1>>, <<"call", j + 1>>, name, args) IN
           /\ Lined(b, o, j + 1)
           /\ \A r \in 1..j : b.calls[r].name = a.calls[r].name /\ b.calls[r].args = a.calls[r].args
           /\ b.calls[j + 1].name = name /\ b.calls[j + 1].args = args
<1> DEFINE key == <<o, j + 1>>
           id == <<"call", j + 1>>
           e == Ensure(a, key, id)
           b == Tell(a, key, id, name, args)
           new == [id |-> id, name |-> <<>>, args |-> <<>>]
           k == Alias(a, key)
           same == {i \in DOMAIN a.calls : id # NoId /\ a.calls[i].id = id}
           made == [a EXCEPT !.order = Append(@, key), !.calls = Append(@, new)]
<1>1. /\ a \in Accumulators /\ Len(a.order) = j /\ Len(a.calls) = j /\ DOMAIN a.calls = 1..j
      /\ a.order \in Seq(Keys) /\ a.calls \in Seq(CallRecords)
  BY AccumulatorParts DEF Ordered, OrderOK, Lined
<1>2. Place(a, key) = 0 /\ k = key
  BY LinedNext
<1>3. same = {}
  <2>1. \A r \in 1..j : a.calls[r].id = <<"call", r>> /\ r # j + 1
    BY DEF Lined
  <2>2. QED
    BY <1>1, <2>1
<1>4. e = made
  <2>1. e = LET b0 == IF Place(a, k) = 0 /\ same # {}
                      THEN [a EXCEPT !.alias = Append(@, <<k, a.order[CHOOSE i \in same : TRUE]>>)] ELSE a
                p == Place(b0, Alias(b0, k))
            IN  IF p = 0 THEN [b0 EXCEPT !.order = Append(@, k), !.calls = Append(@, new)]
                ELSE IF id = NoId THEN b0 ELSE [b0 EXCEPT !.calls[p].id = id]
    BY DEF Ensure
  <2> HIDE DEF e, same, new
  <2>2. QED
    BY <1>2, <1>3, <2>1
<1>5. key \in Keys /\ id \in Keys
  BY DEF Keys
<1>6. new \in CallRecords
  BY <1>5, EmptySeq DEF CallRecords, Words
<1> HIDE DEF e, k, same
<1>7. e \in Ordered
  BY <1>5, EnsureKeeps DEF e
<1>8. e.order = Append(a.order, key) /\ e.calls = Append(a.calls, new) /\ e.alias = a.alias
  BY <1>1, <1>4 DEF Accumulators
<1>9. /\ Len(e.order) = j + 1 /\ Len(e.calls) = j + 1
      /\ \A r \in 1..j : e.order[r] = a.order[r] /\ e.calls[r] = a.calls[r]
      /\ e.order[j + 1] = key /\ e.calls[j + 1] = new
  <2> HIDE DEF new, key
  <2>1. QED
    BY <1>1, <1>5, <1>6, <1>8, AppendProperties
<1>10. \A r \in 1..(j + 1) : r \in 1..j \/ r = j + 1
  OBVIOUS
<1>11. Lined(e, o, j + 1)
  <2>1. \A r \in 1..(j + 1) : e.order[r] = <<o, r>> /\ e.calls[r].id = <<"call", r>>
    BY <1>9, <1>10 DEF Lined
  <2>2. \A m \in 1..Len(e.alias) : \E r \in 1..(j + 1) : e.alias[m] = <<<<"call", r>>, <<o, r>>>>
    <3>1. \A r \in 1..j : r \in 1..(j + 1)
      OBVIOUS
    <3>2. QED
      BY <1>8, <3>1 DEF Lined
  <2>3. QED
    BY <1>9, <2>1, <2>2 DEF Lined
<1>12. Place(e, Alias(e, key)) = j + 1
  <2> DEFINE n == j + 1
  <2>1. n \in Nat /\ n \in 1..n
    OBVIOUS
  <2>2. Lined(e, o, n)
    BY <1>11
  <2> HIDE DEF n
  <2>3. Place(e, <<o, n>>) = n
    BY <1>7, <2>1, <2>2, LinedPlace
  <2>4. Alias(e, <<o, n>>) = <<o, n>>
    BY <1>7, <2>1, <2>2, LinedAlias
  <2>5. QED
    BY <2>3, <2>4 DEF n
<1>13. /\ Len(b.calls) = Len(e.calls)
       /\ \A r \in 1..Len(e.calls) :
             b.calls[r] = IF r = Place(e, Alias(e, key))
                          THEN [id |-> e.calls[r].id, name |-> Merge(e.calls[r].name, name),
                                args |-> Merge(e.calls[r].args, args)]
                          ELSE e.calls[r]
  <2> HIDE DEF key, id
  <2>1. QED
    BY <1>5, TellCalls DEF e, Told
<1>14. b.order = e.order /\ b.alias = e.alias
  <2> HIDE DEF key, id
  <2>1. QED
    BY <1>5, TellRest DEF e
<1> HIDE DEF b
<1>15. /\ \A r \in 1..j : b.calls[r] = a.calls[r]
       /\ b.calls[j + 1] = [id |-> id, name |-> name, args |-> args]
  <2>1. \A r \in 1..j : r \in 1..(j + 1) /\ r # j + 1
    OBVIOUS
  <2>2. j + 1 \in 1..(j + 1)
    OBVIOUS
  <2>3. b.calls[j + 1] = [id |-> e.calls[j + 1].id, name |-> Merge(e.calls[j + 1].name, name),
                          args |-> Merge(e.calls[j + 1].args, args)]
    BY <1>9, <1>12, <1>13, <2>2
  <2>4. \A r \in 1..j : b.calls[r] = e.calls[r]
    BY <1>9, <1>12, <1>13, <2>1
  <2>5. Merge(<<>>, name) = name /\ Merge(<<>>, args) = args
    BY MergeFirst
  <2>6. e.calls[j + 1].id = id /\ e.calls[j + 1].name = <<>> /\ e.calls[j + 1].args = <<>>
    BY <1>9
  <2>7. QED
    BY <1>9, <2>3, <2>4, <2>5, <2>6
<1>16. Lined(b, o, j + 1)
  <2>1. \A r \in 1..(j + 1) : b.calls[r].id = <<"call", r>>
    <3>1. \A r \in 1..j : a.calls[r].id = <<"call", r>>
      BY DEF Lined
    <3>2. QED
      BY <1>10, <1>15, <3>1
  <2>2. \A r \in 1..(j + 1) : b.order[r] = <<o, r>>
    BY <1>11, <1>14 DEF Lined
  <2>3. \A m \in 1..Len(b.alias) : \E r \in 1..(j + 1) : b.alias[m] = <<<<"call", r>>, <<o, r>>>>
    BY <1>11, <1>14 DEF Lined
  <2>4. Len(b.order) = j + 1
    BY <1>9, <1>14
  <2>5. QED
    BY <2>1, <2>2, <2>3, <2>4 DEF Lined
<1>17. QED
  BY <1>15, <1>16 DEF b

\* Every call has its key for its id, if it has one.
Plainly(a) ==
    /\ \A e \in 1..Len(a.alias) : a.alias[e][1] = a.alias[e][2]
    /\ \A q \in 1..Len(a.calls) : a.calls[q].id \in {NoId, a.order[q]}

\* A piece whose frame said nothing of its call made one of its own.
Loose(a) ==
    /\ Plainly(a)
    /\ \E q \in 1..Len(a.calls) : a.calls[q].name = <<>> /\ a.order[q][1] # "call"

LEMMA EnsurePlain ==
    ASSUME NEW a \in Ordered, Plainly(a), NEW key \in Keys, NEW id \in {key, NoId}
    PROVE  LET e == Ensure(a, key, id) IN
           /\ Plainly(e) /\ Alias(e, key) = key /\ Place(e, key) > 0
           /\ Len(e.calls) >= Len(a.calls)
           /\ \A q \in 1..Len(a.calls) : e.order[q] = a.order[q] /\ e.calls[q].name = a.calls[q].name
           /\ \A q \in 1..Len(e.calls) : q \in 1..Len(a.calls) \/ e.calls[q].name = <<>>
<1> DEFINE k == Alias(a, key)
           new == [id |-> id, name |-> <<>>, args |-> <<>>]
           same == {i \in DOMAIN a.calls : id # NoId /\ a.calls[i].id = id}
           n == Len(a.calls)
           p == Place(a, key)
           e == Ensure(a, key, id)
           added == [a EXCEPT !.order = Append(@, key), !.calls = Append(@, new)]
           named == [a EXCEPT !.calls[p].id = id]
<1>1. /\ a \in Accumulators /\ Len(a.order) = n /\ n \in Nat /\ DOMAIN a.calls = 1..n
      /\ a.order \in Seq(Keys) /\ a.calls \in Seq(CallRecords) /\ \A q \in 1..n : a.calls[q] \in CallRecords
      /\ DOMAIN a.alias = 1..Len(a.alias)
  BY AccumulatorParts DEF Ordered, OrderOK
<1>2. id \in Keys
  BY DEF NoId, Keys
<1>3. e \in Ordered
  BY <1>2, EnsureKeeps
<1>4. k = key
  <2>1. CASE \E i \in DOMAIN a.alias : a.alias[i][1] = key
    <3>1. PICK i \in DOMAIN a.alias : a.alias[i][1] = key /\ k = a.alias[i][2]
      BY <2>1 DEF Alias
    <3>2. QED
      BY <1>1, <3>1 DEF Plainly
  <2>2. CASE ~\E i \in DOMAIN a.alias : a.alias[i][1] = key
    BY <2>2 DEF Alias
  <2>3. QED
    BY <2>1, <2>2
<1>5. /\ p \in 0..n /\ (p > 0 <=> \E q \in 1..n : a.order[q] = key)
      /\ p > 0 => a.order[p] = key
  BY <1>1, PlaceGives
<1>6. p = 0 => same = {}
  <2>1. ASSUME NEW i \in same PROVE p > 0
    <3>1. i \in 1..n /\ a.calls[i].id = id /\ id # NoId /\ id = key
      BY <1>1
    <3>2. a.order[i] = key
      BY <3>1 DEF Plainly
    <3>3. QED
      BY <1>5, <3>1, <3>2
  <2>2. QED
    BY <2>1
<1>7. e = IF p = 0 THEN added ELSE IF id = NoId THEN a ELSE named
  <2>1. e = LET b0 == IF Place(a, k) = 0 /\ same # {}
                      THEN [a EXCEPT !.alias = Append(@, <<k, a.order[CHOOSE i \in same : TRUE]>>)] ELSE a
                q == Place(b0, Alias(b0, k))
            IN  IF q = 0 THEN [b0 EXCEPT !.order = Append(@, k), !.calls = Append(@, new)]
                ELSE IF id = NoId THEN b0 ELSE [b0 EXCEPT !.calls[q].id = id]
    BY DEF Ensure
  <2>2. Alias(a, k) = key
    BY <1>4
  <2> HIDE DEF e, same, new, k
  <2>3. QED
    BY <1>4, <1>6, <2>1, <2>2
<1> HIDE DEF e, k, same, p, n
<1>8. e \in Accumulators /\ Len(e.order) = Len(e.calls) /\ DOMAIN e.alias = 1..Len(e.alias)
  BY <1>3, AccumulatorParts DEF Ordered, OrderOK
<1>9. \A q \in 1..n : a.calls[q].id \in {NoId, a.order[q]}
  BY DEF Plainly, n
<1> DEFINE Good == /\ e.alias = a.alias /\ Len(e.calls) >= n
                   /\ \E q \in 1..Len(e.order) : e.order[q] = key
                   /\ \A q \in 1..n : e.order[q] = a.order[q] /\ e.calls[q].name = a.calls[q].name
                   /\ \A q \in 1..Len(e.calls) : /\ q \in 1..n \/ e.calls[q].name = <<>>
                                                 /\ e.calls[q].id \in {NoId, e.order[q]}
<1>10. ASSUME p = 0 PROVE Good
  <2>1. e.order = Append(a.order, key) /\ e.calls = Append(a.calls, new) /\ e.alias = a.alias
    BY <1>1, <1>7, <1>10 DEF Accumulators
  <2>2. new \in CallRecords
    BY <1>2, EmptySeq DEF CallRecords, Words
  <2>3. /\ Len(e.order) = n + 1 /\ Len(e.calls) = n + 1
        /\ \A q \in 1..n : e.order[q] = a.order[q] /\ e.calls[q] = a.calls[q]
        /\ e.order[n + 1] = key /\ e.calls[n + 1] = new
    <3> HIDE DEF new
    <3>1. Len(a.calls) = n
      BY DEF n
    <3>2. QED
      BY <1>1, <2>1, <2>2, <3>1, AppendProperties
  <2>4. n + 1 \in 1..(n + 1) /\ n + 1 >= n /\ \A q \in 1..(n + 1) : q \in 1..n \/ q = n + 1
    BY <1>1
  <2>5. \A q \in 1..(n + 1) : /\ q \in 1..n \/ e.calls[q].name = <<>>
                              /\ e.calls[q].id \in {NoId, e.order[q]}
    BY <1>9, <2>3, <2>4
  <2>6. \E q \in 1..Len(e.order) : e.order[q] = key
    BY <2>3, <2>4
  <2>7. Good
    BY <2>1, <2>3, <2>4, <2>5, <2>6
  <2>8. QED
    BY <2>7
<1>11. ASSUME p # 0, id = NoId PROVE Good
  <2>1. e = a
    BY <1>7, <1>11
  <2>2. p > 0 /\ n >= n
    BY <1>1, <1>5, <1>11
  <2>3. QED
    <3>1. Len(a.calls) = n /\ \E q \in 1..Len(a.order) : a.order[q] = key
      BY <1>1, <1>5, <2>2 DEF n
    <3>2. QED
      BY <1>1, <1>9, <2>1, <2>2, <3>1
<1>12. ASSUME p # 0, id # NoId PROVE Good
  <2> DEFINE calls == [a.calls EXCEPT ![p].id = id]
  <2>1. p \in 1..n /\ id = key /\ a.order[p] = key
    BY <1>1, <1>5, <1>12
  <2>2. e.calls = calls /\ e.order = a.order /\ e.alias = a.alias
    BY <1>1, <1>7, <1>12 DEF Accumulators
  <2>3. DOMAIN calls = 1..n /\ \A q \in 1..n : calls[q] = IF q = p THEN [a.calls[q] EXCEPT !.id = id] ELSE a.calls[q]
    BY <1>1
  <2>4. \A c \in CallRecords : [c EXCEPT !.id = id].name = c.name /\ [c EXCEPT !.id = id].id = id
    BY DEF CallRecords
  <2> HIDE DEF calls
  <2>5. \A q \in 1..n : calls[q].name = a.calls[q].name /\ calls[q].id \in {NoId, a.order[q]}
    <3> TAKE q \in 1..n
    <3>1. CASE q = p
      <4>1. calls[q] = [a.calls[q] EXCEPT !.id = id] /\ a.calls[q] \in CallRecords
        BY <1>1, <2>3, <3>1
      <4>2. calls[q].name = a.calls[q].name /\ calls[q].id = id
        BY <2>4, <4>1
      <4>3. QED
        BY <2>1, <3>1, <4>2
    <3>2. CASE q # p
      <4>1. calls[q] = a.calls[q]
        BY <2>3, <3>2
      <4>2. QED
        BY <1>9, <4>1
    <3>3. QED
      BY <3>1, <3>2
  <2>6. Len(e.calls) = n /\ n >= n
    BY <1>1, <1>8, <2>2
  <2>7. QED
    BY <1>1, <2>1, <2>2, <2>5, <2>6
<1>13. Good
  BY <1>10, <1>11, <1>12
<1>14. Place(e, key) > 0
  BY <1>8, <1>13, PlaceGives
<1>15. Alias(e, key) = key
  <2>1. Alias(a, key) = key
    BY <1>4 DEF k
  <2>2. QED
    BY <1>13, <2>1 DEF Alias
<1>16. Plainly(e)
  BY <1>13 DEF Plainly
<1>17. QED
  BY <1>13, <1>14, <1>15, <1>16 DEF e, n

LEMMA TellPlain ==
    ASSUME NEW a \in Ordered, Plainly(a), NEW key \in Keys, NEW id \in {key, NoId},
           NEW name \in Words, NEW args \in Words
    PROVE  LET b == Tell(a, key, id, name, args) IN
           /\ Plainly(b) /\ Len(b.calls) >= Len(a.calls)
           /\ \A q \in 1..Len(a.calls) :
                 /\ b.order[q] = a.order[q]
                 /\ b.calls[q].name = a.calls[q].name \/ (b.order[q] = key /\ name # <<>>)
           /\ \E p \in 1..Len(b.calls) :
                 b.order[p] = key /\ (p \in 1..Len(a.calls) \/ b.calls[p].name = name)
<1> DEFINE e == Ensure(a, key, id)
           b == Tell(a, key, id, name, args)
           p == Place(e, key)
<1>1. /\ Plainly(e) /\ Alias(e, key) = key /\ p > 0
      /\ Len(e.calls) >= Len(a.calls)
      /\ \A q \in 1..Len(a.calls) : e.order[q] = a.order[q] /\ e.calls[q].name = a.calls[q].name
      /\ \A q \in 1..Len(e.calls) : q \in 1..Len(a.calls) \/ e.calls[q].name = <<>>
  BY EnsurePlain
<1>2. id \in Keys
  BY DEF NoId, Keys
<1>3. e \in Ordered
  BY <1>2, EnsureKeeps
<1>4. /\ Len(b.calls) = Len(e.calls)
      /\ \A q \in 1..Len(e.calls) :
            b.calls[q] = IF q = p
                         THEN [id |-> e.calls[q].id, name |-> Merge(e.calls[q].name, name),
                               args |-> Merge(e.calls[q].args, args)]
                         ELSE e.calls[q]
  <2>1. Told(e, b, Place(e, Alias(e, key)), name, args)
    BY <1>2, TellCalls
  <2>2. Place(e, Alias(e, key)) = p
    BY <1>1
  <2> HIDE DEF e, b, p
  <2>3. QED
    BY <2>1, <2>2 DEF Told
<1>5. b.order = e.order /\ b.alias = e.alias
  BY <1>2, TellRest
<1> HIDE DEF e, b
<1>6. /\ p \in 1..Len(e.calls) /\ e.order[p] = key
      /\ \A q \in 1..Len(e.calls) : e.calls[q] \in CallRecords
      /\ Len(e.calls) \in Nat /\ Len(a.calls) \in Nat
  BY <1>1, <1>3, PlaceGives, AccumulatorParts DEF Ordered, OrderOK
<1> HIDE DEF p
<1>7. ASSUME NEW q \in 1..Len(e.calls)
      PROVE  /\ b.calls[q].id = e.calls[q].id
             /\ b.calls[q].name = IF q = p THEN Merge(e.calls[q].name, name) ELSE e.calls[q].name
  <2>1. CASE q = p
    <3>1. b.calls[q] = [id |-> e.calls[q].id, name |-> Merge(e.calls[q].name, name),
                        args |-> Merge(e.calls[q].args, args)]
      BY <1>4, <2>1
    <3>2. QED
      BY <2>1, <3>1
  <2>2. CASE q # p
    BY <1>4, <2>2
  <2>3. QED
    BY <2>1, <2>2
<1>8. Plainly(b)
  BY <1>1, <1>4, <1>5, <1>7 DEF Plainly
<1>9. \A q \in 1..Len(a.calls) : q \in 1..Len(e.calls)
  BY <1>1, <1>6
<1>10. ASSUME NEW q \in 1..Len(a.calls)
       PROVE  /\ b.order[q] = a.order[q]
              /\ b.calls[q].name = a.calls[q].name \/ (b.order[q] = key /\ name # <<>>)
  <2>1. b.order[q] = a.order[q]
    BY <1>1, <1>5
  <2>2. e.calls[q].name \in Words
    BY <1>6, <1>9 DEF CallRecords
  <2>3. CASE q = p /\ name = <<>>
    <3>1. b.calls[q].name = Merge(e.calls[q].name, <<>>)
      BY <1>7, <1>9, <2>3
    <3>2. b.calls[q].name = e.calls[q].name
      BY <2>2, <3>1, MergeFirst
    <3>3. QED
      BY <1>1, <2>1, <3>2
  <2>4. CASE q = p /\ name # <<>>
    BY <1>5, <1>6, <2>1, <2>4
  <2>5. CASE q # p
    BY <1>1, <1>7, <1>9, <2>1, <2>5
  <2>6. QED
    BY <2>3, <2>4, <2>5
<1>11. p \in 1..Len(a.calls) \/ b.calls[p].name = name
  <2>1. CASE e.calls[p].name = <<>>
    <3>1. b.calls[p].name = Merge(e.calls[p].name, name)
      BY <1>6, <1>7
    <3>2. QED
      BY <2>1, <3>1, MergeFirst
  <2>2. QED
    BY <1>1, <1>6, <2>1
<1>12. \E r \in 1..Len(b.calls) : b.order[r] = key /\ (r \in 1..Len(a.calls) \/ b.calls[r].name = name)
  BY <1>4, <1>5, <1>6, <1>11
<1>13. QED
  BY <1>1, <1>4, <1>8, <1>10, <1>12 DEF b

LEMMA TellLoose ==
    ASSUME NEW a \in Ordered, Loose(a), NEW key \in Keys, NEW id \in {key, NoId},
           NEW name \in Words, NEW args \in Words, name = <<>> \/ key[1] = "call"
    PROVE  Loose(Tell(a, key, id, name, args))
<1> DEFINE b == Tell(a, key, id, name, args)
<1>1. /\ Plainly(b) /\ Len(b.calls) >= Len(a.calls)
      /\ \A q \in 1..Len(a.calls) :
            /\ b.order[q] = a.order[q]
            /\ b.calls[q].name = a.calls[q].name \/ (b.order[q] = key /\ name # <<>>)
  BY TellPlain DEF Loose
<1> HIDE DEF b
<1>2. PICK q \in 1..Len(a.calls) : a.calls[q].name = <<>> /\ a.order[q][1] # "call"
  BY DEF Loose
<1>3. b.calls[q].name = <<>> /\ b.order[q][1] # "call"
  BY <1>1, <1>2
<1>4. Len(b.calls) \in Nat /\ Len(a.calls) \in Nat
  <2>1. id \in Keys
    BY DEF NoId, Keys
  <2>2. b \in Ordered
    BY <2>1, TellKeeps DEF b
  <2>3. QED
    BY <2>2, AccumulatorParts DEF Ordered
<1>5. q \in 1..Len(b.calls)
  BY <1>1, <1>4
<1>6. QED
  BY <1>1, <1>3, <1>5 DEF Loose, b

\* A piece without a key of its call.
LEMMA TellStray ==
    ASSUME NEW a \in Ordered, NEW j \in Nat, Lined(a, "call", j), NEW key \in Keys, key[1] # "call",
           NEW args \in Words
    PROVE  Loose(Tell(a, key, NoId, <<>>, args))
<1> DEFINE b == Tell(a, key, NoId, <<>>, args)
<1>1. Len(a.order) = j /\ Len(a.calls) = j
  BY DEF Ordered, OrderOK, Lined
<1>2. Plainly(a)
  <2>1. \A e \in 1..Len(a.alias) : a.alias[e][1] = a.alias[e][2]
    BY SMTT(30) DEF Lined
  <2>2. \A q \in 1..j : a.calls[q].id = a.order[q]
    BY DEF Lined
  <2>3. QED
    BY <1>1, <2>1, <2>2 DEF Plainly
<1>3. <<>> \in Words
  BY DEF Words
<1>4. /\ Plainly(b)
      /\ \A q \in 1..Len(a.calls) : b.order[q] = a.order[q]
      /\ \E p \in 1..Len(b.calls) : b.order[p] = key /\ (p \in 1..Len(a.calls) \/ b.calls[p].name = <<>>)
  BY <1>2, <1>3, TellPlain
<1> HIDE DEF b
<1>5. PICK p \in 1..Len(b.calls) : b.order[p] = key /\ (p \in 1..Len(a.calls) \/ b.calls[p].name = <<>>)
  BY <1>4
<1>6. p \notin 1..Len(a.calls)
  <2>1. \A q \in 1..j : a.order[q][1] = "call"
    BY DEF Lined
  <2>2. QED
    BY <1>1, <1>4, <1>5, <2>1
<1>7. b.calls[p].name = <<>> /\ b.order[p][1] # "call"
  BY <1>5, <1>6
<1>8. QED
  BY <1>4, <1>7 DEF Loose, b

LEMMA FaultyParts ==
    ASSUME NEW a \in Ordered, ~Faulty(a)
    PROVE  /\ a.errors = 0 /\ Named(a) = a.calls
           /\ \A q \in 1..Len(a.calls) : a.calls[q].name # <<>> /\ Parses(a.calls[q].args)
<1> DEFINE places == {i \in DOMAIN a.calls : a.calls[i].name # <<>>}
<1>1. /\ a.calls \in Seq(CallRecords) /\ DOMAIN a.calls = 1..Len(a.calls) /\ a.errors \in Nat
      /\ Len(a.calls) \in Nat
  BY AccumulatorParts DEF Ordered, Accumulators
<1>2. /\ ~(a.errors > 0) /\ ~(Len(Named(a)) < Len(a.calls))
      /\ \A i \in DOMAIN Named(a) : Parses(Named(a)[i].args)
  BY DEF Faulty
<1>3. Named(a) = Picked(a.calls, places)
  BY DEF Named
<1>4. \A q \in 1..Len(a.calls) : q \in places
  <2> SUFFICES ASSUME NEW q \in 1..Len(a.calls), q \notin places PROVE FALSE
    OBVIOUS
  <2> HIDE DEF places
  <2>1. QED
    BY <1>1, <1>2, <1>3, PickedFewer
<1> HIDE DEF places
<1>5. Named(a) = a.calls
  BY <1>1, <1>3, <1>4, PickedAll
<1>6. \A q \in 1..Len(a.calls) : a.calls[q].name # <<>>
  BY <1>4 DEF places
<1>7. a.errors = 0
  BY <1>1, <1>2
<1>8. QED
  BY <1>1, <1>2, <1>5, <1>6, <1>7

LEMMA LooseFaulty ==
    ASSUME NEW a \in Ordered, Loose(a)
    PROVE  Faulty(a)
BY FaultyParts DEF Loose

\* Only a stream that was cut within a character has marks of it.
Legible(x) == "garbled" \notin harm => x \in Sayings

\* The first j calls, all there is of them.
Gathered(a, o, j) ==
    /\ Lined(a, o, j)
    /\ \A q \in 1..j : /\ a.calls[q].name = meant.calls[q].name
                       /\ Final(q, a.calls[q].args) /\ Legible(a.calls[q].args)

LEMMA CallParts ==
    ASSUME meant \in Meant, NEW i \in 1..Len(meant.calls)
    PROVE  /\ i \in Nat /\ <<"call", i>> \in Keys /\ meant.calls[i].name \in Words
           /\ Arguments(i) \in Words /\ Arguments(i) \in Sayings /\ Clear(Arguments(i)) = Arguments(i)
           /\ Final(i, Arguments(i)) /\ Legible(Arguments(i))
<1>1. i \in Nat /\ meant.calls[i].name \in Words /\ Arguments(i) \in Words /\ Arguments(i) \in Sayings
  <2>1. i \in Nat
    OBVIOUS
  <2>2. meant.calls[i].name \in Words /\ Arguments(i) \in Words
    BY MeantParts
  <2>3. Arguments(i) \in Sayings
    BY MeantSayings
  <2>4. QED
    BY <2>1, <2>2, <2>3
<1>2. <<"call", i>> \in Keys
  BY <1>1 DEF Keys
<1>3. Clear(Arguments(i)) = Arguments(i)
  BY <1>1, ClearParts
<1>4. Final(i, Arguments(i))
  BY <1>1, <1>3, GotWhole
<1>5. QED
  BY <1>1, <1>2, <1>3, <1>4 DEF Legible

LEMMA MergeSayings ==
    ASSUME NEW x \in Sayings, NEW y \in Sayings
    PROVE  Merge(x, y) \in Sayings
BY ConcatProperties DEF Merge, Sayings

LEMMA CallTyped ==
    ASSUME NEW a \in Ordered, NEW q \in 1..Len(a.order)
    PROVE  a.calls[q].name \in Words /\ a.calls[q].args \in Words
<1>1. a \in Accumulators /\ Len(a.order) = Len(a.calls)
  BY DEF Ordered, OrderOK
<1>2. a.calls[q] \in CallRecords
  BY <1>1, AccumulatorParts
<1>3. QED
  BY <1>2 DEF CallRecords

\* The text and the usage are not of calls.
LEMMA AppendRest ==
    ASSUME meant \in Meant, NEW a \in Ordered
    PROVE  LET b == AppendCalls(a) IN b.text = a.text /\ b.usage = a.usage /\ b.errors = a.errors
<1> DEFINE n == Len(meant.calls)
<1>1. PICK w \in [0..n -> Ordered] :
          /\ w[0] = a /\ w[n] = AppendCalls(a)
          /\ \A i \in 1..n : w[i] = WithCall(w[i - 1], i) /\ w[i].errors = a.errors
  BY AppendRun DEF AppendRuns
<1>2. n \in Nat
  BY MeantParts
<1>3. ASSUME NEW i \in 1..n PROVE w[i].text = w[i - 1].text /\ w[i].usage = w[i - 1].usage
                                  /\ w[i].errors = w[i - 1].errors
  <2> DEFINE x == w[i - 1]
             key == <<"call", i>>
             name == meant.calls[i].name
             args == Arguments(i)
  <2>1. x \in Ordered /\ i - 1 \in 0..n
    BY <1>1, <1>2
  <2>2. key \in Keys
    BY CallParts
  <2>3. w[i] = Tell(x, key, key, name, args)
    BY <1>1 DEF WithCall
  <2> HIDE DEF x, key, name, args
  <2>4. LET b == Tell(x, key, key, name, args) IN
        b.text = x.text /\ b.usage = x.usage /\ b.errors = x.errors
    BY <2>1, <2>2, TellRest
  <2>5. QED
    BY <2>3, <2>4 DEF x
<1> DEFINE T == {i \in 0..n : w[i].text = a.text /\ w[i].usage = a.usage /\ w[i].errors = a.errors}
<1> HIDE DEF n
<1>4. 0 \in T
  BY <1>1, <1>2
<1>5. \A i \in 1..n : i - 1 \in T => i \in T
  BY <1>2, <1>3
<1>6. n \in T
  <2> HIDE DEF T
  <2>1. \A i \in 0..n : i \in T
    BY <1>2, <1>4, <1>5, UpTo
  <2>2. QED
    BY <1>2, <2>1
<1>7. QED
  BY <1>1, <1>6

\* What is kept by each of the calls is kept by all of them.
LEMMA AppendKeepsTo ==
    ASSUME meant \in Meant, NEW a \in Ordered, NEW good,
           <<0, a>> \in good,
           \A i \in 1..Len(meant.calls), x \in Ordered :
              <<i - 1, x>> \in good => <<i, WithCall(x, i)>> \in good
    PROVE  <<Len(meant.calls), AppendCalls(a)>> \in good
<1> DEFINE n == Len(meant.calls)
<1>1. PICK w \in [0..n -> Ordered] :
          w[0] = a /\ w[n] = AppendCalls(a) /\ \A i \in 1..n : w[i] = WithCall(w[i - 1], i)
  BY AppendRun DEF AppendRuns
<1>2. n \in Nat
  BY MeantParts
<1> DEFINE T == {i \in 0..n : <<i, w[i]>> \in good}
<1>3. 0 \in T
  BY <1>1, <1>2
<1>4. ASSUME NEW i \in 1..n, i - 1 \in T PROVE i \in T
  <2>1. i \in 0..n /\ w[i - 1] \in Ordered /\ w[i] = WithCall(w[i - 1], i)
    BY SMTT(20), <1>1, <1>2
  <2> DEFINE x == w[i - 1]
  <2>2. <<i - 1, x>> \in good
    BY <1>4
  <2>3. x \in Ordered
    BY <2>1
  <2> HIDE DEF x
  <2>4. <<i, WithCall(x, i)>> \in good
    BY <2>2, <2>3
  <2>5. QED
    BY <2>1, <2>4 DEF x
<1>5. n \in T
  <2> HIDE DEF T, n
  <2>1. \A i \in 0..n : i \in T
    BY <1>2, <1>3, <1>4, UpTo
  <2>2. QED
    BY <1>2, <2>1
<1>6. QED
  BY <1>1, <1>5

\* A call under a new key.
Grown(a, b, o, i, name, args) ==
    /\ Lined(b, o, i)
    /\ \A r \in 1..(i - 1) : b.calls[r].name = a.calls[r].name /\ b.calls[r].args = a.calls[r].args
    /\ b.calls[i].name = name /\ b.calls[i].args = args

LEMMA TellGrows ==
    ASSUME NEW a \in Ordered, NEW o \in {"index", "call"}, NEW i \in Nat \ {0}, Lined(a, o, i - 1),
           NEW name \in Words, NEW args \in Words
    PROVE  Grown(a, Tell(a, <<o, i>>, <<"call", i>>, name, args), o, i, name, args)
<1> DEFINE j == i - 1
           b == Tell(a, <<o, i>>, <<"call", i>>, name, args)
           c == Tell(a, <<o, j + 1>>, <<"call", j + 1>>, name, args)
<1>1. j \in Nat /\ j + 1 = i /\ Lined(a, o, j)
  OBVIOUS
<1>2. c = b
  BY <1>1
<1> HIDE DEF j, b
<1>3. /\ Lined(c, o, j + 1)
      /\ \A r \in 1..j : c.calls[r].name = a.calls[r].name /\ c.calls[r].args = a.calls[r].args
      /\ c.calls[j + 1].name = name /\ c.calls[j + 1].args = args
  BY SMTT(20), <1>1, TellAdds
<1> HIDE DEF c
<1>4. Grown(a, b, o, i, name, args)
  BY <1>1, <1>2, <1>3 DEF Grown, j
<1>5. QED
  BY <1>4 DEF b

LEMMA AppendNew ==
    ASSUME meant \in Meant, NEW a \in Ordered, Lined(a, "call", 0)
    PROVE  Gathered(AppendCalls(a), "call", Len(meant.calls))
<1> DEFINE n == Len(meant.calls)
           good == {p \in (0..n) \X Ordered : Gathered(p[2], "call", p[1])}
<1>1. n \in Nat
  BY MeantParts
<1>2. <<0, a>> \in good
  <2>1. 1..0 = {}
    OBVIOUS
  <2>2. QED
    BY <1>1, <2>1 DEF Gathered
<1>3. ASSUME NEW i \in 1..n, NEW x \in Ordered, <<i - 1, x>> \in good
      PROVE  <<i, WithCall(x, i)>> \in good
  <2> DEFINE j == i - 1
             name == meant.calls[i].name
             args == Arguments(i)
             b == Tell(x, <<"call", i>>, <<"call", i>>, name, args)
  <2>1. /\ i \in Nat /\ <<"call", i>> \in Keys /\ name \in Words /\ args \in Words
        /\ Final(i, args) /\ Legible(args)
    BY CallParts
  <2>2. j \in Nat /\ j + 1 = i /\ i \in 0..n /\ \A q \in 1..i : q = i \/ q \in 1..j
    BY <1>1
  <2>3. Lined(x, "call", j) /\ Gathered(x, "call", j)
    BY <1>3 DEF Gathered
  <2>4. b \in Ordered
    <3> HIDE DEF name, args
    <3>1. QED
      BY <2>1, TellKeeps
  <2>5. /\ Lined(b, "call", i)
        /\ \A r \in 1..j : b.calls[r].name = x.calls[r].name /\ b.calls[r].args = x.calls[r].args
        /\ b.calls[i].name = name /\ b.calls[i].args = args
    <3>1. Grown(x, b, "call", i, name, args)
      <4> HIDE DEF name, args
      <4>1. Lined(x, "call", i - 1) /\ i \in Nat \ {0}
        BY <1>1, <2>3
      <4>2. QED
        BY <2>1, <4>1, TellGrows
    <3> HIDE DEF b
    <3>2. QED
      BY <3>1 DEF Grown
  <2> HIDE DEF b, j
  <2>6. Gathered(b, "call", i)
    <3> SUFFICES ASSUME NEW q \in 1..i
                 PROVE  /\ b.calls[q].name = meant.calls[q].name
                        /\ Final(q, b.calls[q].args) /\ Legible(b.calls[q].args)
      BY <2>5 DEF Gathered
    <3>1. CASE q = i
      BY <2>1, <2>5, <3>1
    <3>2. CASE q \in 1..j
      BY <2>3, <2>5, <3>2 DEF Gathered
    <3>3. QED
      BY <2>2, <3>1, <3>2
  <2>7. WithCall(x, i) = b
    BY DEF WithCall, b
  <2>8. QED
    BY <2>2, <2>4, <2>6, <2>7
<1> HIDE DEF good
<1>4. <<n, AppendCalls(a)>> \in good
  BY <1>2, <1>3, AppendKeepsTo
<1>5. QED
  BY <1>4 DEF good

\* A call that is told again what is known of it.
LEMMA GatheredTold ==
    ASSUME meant \in Meant, NEW a \in Ordered, NEW o \in {"index", "call"},
           NEW j \in 0..Len(meant.calls), Gathered(a, o, j), NEW q \in 1..j,
           NEW key \in Keys, NEW id \in Keys, Knows(o, q, key, id),
           NEW name \in {<<>>, meant.calls[q].name},
           NEW args \in Words, Clear(args) = Arguments(q), Legible(args)
    PROVE  Gathered(Tell(a, key, id, name, args), o, j)
<1> DEFINE b == Tell(a, key, id, name, args)
<1>1. j \in Nat /\ q \in 1..Len(meant.calls) /\ Lined(a, o, j)
  BY MeantParts DEF Gathered
<1>2. meant.calls[q].name \in Words /\ <<>> \in Words
  <2>1. <<>> \in Words
    BY DEF Words
  <2>2. QED
    BY <1>1, <2>1, CallParts
<1>3. name \in Words
  BY <1>2
<1>4. /\ Lined(b, o, j)
      /\ \A r \in 1..j :
            /\ b.calls[r].name = IF r = q THEN Merge(a.calls[r].name, name) ELSE a.calls[r].name
            /\ b.calls[r].args = IF r = q THEN Merge(a.calls[r].args, args) ELSE a.calls[r].args
  BY <1>1, <1>3, TellHits
<1> HIDE DEF b
<1>5. /\ a.calls[q].name = meant.calls[q].name
      /\ Final(q, a.calls[q].args) /\ Legible(a.calls[q].args)
  BY DEF Gathered
<1>6. a.calls[q].args \in Words
  <2>1. Len(a.order) = j
    BY DEF Gathered, Lined
  <2>2. q \in 1..Len(a.order)
    BY <2>1
  <2>3. QED
    BY <2>2, CallTyped
<1>7. Merge(meant.calls[q].name, name) = meant.calls[q].name
  BY <1>2, MergeFirst
<1>8. Final(q, Merge(a.calls[q].args, args))
  <2> DEFINE x == a.calls[q].args
  <2>1. x \in Words /\ Final(q, x)
    BY <1>5, <1>6
  <2> HIDE DEF x
  <2>2. Final(q, Merge(x, args))
    BY <1>1, <2>1, FinalMerge
  <2>3. QED
    BY <2>2 DEF x
<1>9. Legible(Merge(a.calls[q].args, args))
  BY <1>5, MergeSayings DEF Legible
<1>10. SUFFICES ASSUME NEW r \in 1..j
                PROVE  /\ b.calls[r].name = meant.calls[r].name
                       /\ Final(r, b.calls[r].args) /\ Legible(b.calls[r].args)
  BY <1>4 DEF Gathered, b
<1>11. CASE r = q
  BY <1>4, <1>5, <1>7, <1>8, <1>9, <1>11
<1>12. CASE r # q
  BY <1>4, <1>12 DEF Gathered
<1>13. QED
  BY <1>11, <1>12

LEMMA AppendAgain ==
    ASSUME meant \in Meant, NEW a \in Ordered, NEW o \in {"index", "call"},
           Gathered(a, o, Len(meant.calls))
    PROVE  Gathered(AppendCalls(a), o, Len(meant.calls))
<1> DEFINE n == Len(meant.calls)
           good == {p \in (0..n) \X Ordered : Gathered(p[2], o, n)}
<1>1. n \in Nat
  BY MeantParts
<1>2. <<0, a>> \in good
  BY <1>1
<1>3. ASSUME NEW i \in 1..n, NEW x \in Ordered, <<i - 1, x>> \in good
      PROVE  <<i, WithCall(x, i)>> \in good
  <2> DEFINE key == <<"call", i>>
             name == meant.calls[i].name
             args == Arguments(i)
  <2>1. key \in Keys /\ name \in Words /\ args \in Words /\ Clear(args) = args /\ Legible(args)
    BY CallParts
  <2>2. i \in 0..n /\ n \in 0..Len(meant.calls) /\ i \in 1..n
    BY <1>1
  <2>3. Gathered(x, o, n)
    BY <1>3
  <2>4. Knows(o, i, key, key)
    BY DEF Knows
  <2>5. WithCall(x, i) = Tell(x, key, key, name, args)
    BY DEF WithCall
  <2>6. name \in {<<>>, meant.calls[i].name} /\ Clear(args) = Arguments(i)
    BY <2>1
  <2> HIDE DEF key, name, args, n, good
  <2>7. Tell(x, key, key, name, args) \in Ordered
    BY <2>1, TellKeeps
  <2>8. Gathered(Tell(x, key, key, name, args), o, n)
    BY <2>1, <2>2, <2>3, <2>4, <2>6, GatheredTold
  <2>9. QED
    BY <2>2, <2>5, <2>7, <2>8 DEF good
<1> HIDE DEF good
<1>4. <<n, AppendCalls(a)>> \in good
  BY <1>2, <1>3, AppendKeepsTo
<1>5. QED
  BY <1>4 DEF good

LEMMA AppendLoose ==
    ASSUME meant \in Meant, NEW a \in Ordered, Loose(a)
    PROVE  Loose(AppendCalls(a))
<1> DEFINE n == Len(meant.calls)
           good == {p \in (0..n) \X Ordered : Loose(p[2])}
<1>1. n \in Nat
  BY MeantParts
<1>2. <<0, a>> \in good
  BY <1>1
<1>3. ASSUME NEW i \in 1..n, NEW x \in Ordered, <<i - 1, x>> \in good
      PROVE  <<i, WithCall(x, i)>> \in good
  <2> DEFINE key == <<"call", i>>
             name == meant.calls[i].name
             args == Arguments(i)
  <2>1. key \in Keys /\ name \in Words /\ args \in Words /\ key[1] = "call" /\ key \in {key, NoId}
    BY CallParts
  <2>2. i \in 0..n
    BY <1>1
  <2>3. Loose(x)
    BY <1>3
  <2>4. WithCall(x, i) = Tell(x, key, key, name, args)
    BY DEF WithCall
  <2> HIDE DEF key, name, args, n, good
  <2>5. Tell(x, key, key, name, args) \in Ordered
    BY <2>1, TellKeeps
  <2>6. Loose(Tell(x, key, key, name, args))
    BY <2>1, <2>3, TellLoose
  <2>7. QED
    BY <2>2, <2>4, <2>5, <2>6 DEF good
<1> HIDE DEF good
<1>4. <<n, AppendCalls(a)>> \in good
  BY <1>2, <1>3, AppendKeepsTo
<1>5. QED
  BY <1>4 DEF good

-----------------------------------------------------------------------------
(* Where an answer stands: its text, how many of its calls were announced, *)
(* how many pieces of the last one came, and whether its end and its usage  *)
(* were seen.                                                              *)

\* What the text comes to, and how it may begin.
WholeText ==
    IF api.kind = "chat" \/ Messages = <<>> THEN FlattenSeq(Messages) ELSE Last(Messages)
Follows(x) ==
    IF api.kind = "chat" THEN IsPrefix(x, FlattenSeq(Messages))
    ELSE \E i \in 0..Len(Messages) :
            /\ IsPrefix(x, (IF i = 0 THEN <<>> ELSE Messages[i])
                           \o (IF i = Len(Messages) THEN <<>> ELSE Messages[i + 1]))
            /\ i > 0 => Len(x) >= Len(Messages[i])

Full(j) == IF j = 0 THEN 0 ELSE Len(meant.calls[j].frags)

Spots == [text : Sayings, call : Nat, piece : Nat, end : 0..2]
Spot(text, no, piece, end) == [text |-> text, call |-> no, piece |-> piece, end |-> end]
Done(p) ==
    /\ p.text = WholeText /\ p.call = Len(meant.calls) /\ p.piece = Full(p.call)
Points ==
    {p \in Spots : /\ Follows(p.text)
                   /\ p.call <= Len(meant.calls) /\ p.piece <= Full(p.call)
                   /\ p.end > 0 => Done(p)}

Beginning == Spot(<<>>, 0, 0, 0)
Ending == Spot(WholeText, Len(meant.calls), Full(Len(meant.calls)), 2)

\* A piece of text, or the text so far.
Speaks(p, f, q) ==
    /\ api.stream /\ p.end = 0 /\ f.text \in Sayings
    /\ \/ f.type = "text" /\ q = [p EXCEPT !.text = @ \o f.text]
       \/ /\ f.type \in {"text_done", "message"} /\ api.kind = "responses"
          /\ q = [p EXCEPT !.text = f.text]

\* A call is announced, goes on, or is told again.
OfOneCall(f) ==
    /\ f.type \in IF api.kind = "chat" THEN {"call"} ELSE {"item", "delta", "done"}
    /\ f.no \in 1..Len(meant.calls) /\ f.index = api.index
    /\ f.name \in {<<>>, meant.calls[f.no].name}
    /\ \/ f.id = <<"call", f.no>>
       \/ f.id = NoId /\ f.name = <<>>
Announces(p, f, q) ==
    /\ f.id # NoId /\ f.name = meant.calls[f.no].name /\ f.text = <<>>
    /\ p.call = f.no - 1 /\ p.piece = Full(p.call) /\ q = [p EXCEPT !.call = f.no, !.piece = 0]
GoesOn(p, f, q) ==
    /\ p.call = f.no /\ p.piece < Full(f.no) /\ f.text = meant.calls[f.no].frags[p.piece + 1]
    /\ q = [p EXCEPT !.piece = @ + 1]
Repeated(p, f, q) ==
    p.call = f.no /\ p.piece = Full(f.no) /\ f.text = Arguments(f.no) /\ q = p
Tells(p, f, q) ==
    /\ api.stream /\ p.end = 0 /\ OfOneCall(f)
    /\ Announces(p, f, q) \/ GoesOn(p, f, q) \/ Repeated(p, f, q)

\* The end, the usage after it, or all at once.
Closes(p, f, q) ==
    \/ /\ api.kind = "chat" /\ api.stream /\ Done(p)
       /\ \/ f.type = "finish" /\ p.end = 0 /\ q = [p EXCEPT !.end = 1]
          \/ f.type = "usage" /\ p.end = 1 /\ q = Ending
          \/ f.type = "[DONE]" /\ p.end = 2 /\ q = p
    \/ /\ api.kind = "responses" /\ api.stream /\ f.type = "completed"
       /\ Done(p) /\ p.end = 0 /\ q = Ending
    \/ ~api.stream /\ f.type = "body" /\ p = Beginning /\ q = Ending

Leads(p, f, q) == Speaks(p, f, q) \/ Tells(p, f, q) \/ Closes(p, f, q)
Moves == {m \in Points \X Frames \X Points : Leads(m[1], m[2], m[3])}

\* The sort of key the calls have.
Sort == IF api.stream /\ api.index THEN "index" ELSE "call"

\* Of the call under way there are the pieces so far.
Has(q, k, x) == (IF k < Full(q) THEN Got(q, k, x) ELSE Final(q, x)) /\ Legible(x)
Under(p, a) ==
    /\ Lined(a, Sort, p.call)
    /\ \A q \in 1..p.call : /\ a.calls[q].name = meant.calls[q].name
                            /\ Has(q, IF q = p.call THEN p.piece ELSE Full(q), a.calls[q].args)
AccAt(p, a) ==
    /\ Clear(a.text) = p.text /\ Legible(a.text)
    /\ p.end = 2 => a.usage
    /\ (Sort = "call" /\ Loose(a)) \/ Under(p, a)

\* What is read is what was sent so far, and what is on its way, the rest of it,
\* unless something else took its place.
Reached(p) ==
    /\ AccAt(p, acc)
    /\ harm \subseteq {"garbled"} => Path(Points, Moves, wire, p, Ending)
    /\ ending => p.end > 0 \/ ("error" \in harm /\ wire = <<>>)
Replaced ==
    ~(harm \subseteq {"garbled"}) =>
        /\ Len(wire) <= 1
        /\ \A k \in 1..Len(wire) : \/ wire[k].type \in {"failed", "garbage", "break"}
                                   \/ wire[k].type = "error" /\ "error" \in harm
OnItsWay ==
    stage = "reading" =>
        /\ part = "garbled" => "garbled" \in harm
        /\ Replaced
        /\ \E p \in Points : Reached(p)

Unread == stage = "asked" => part = "none" /\ ~ending

AnswerInv == OnItsWay /\ Unread /\ CompleteAnswers /\ CallsRunAsSent /\ TextFollowsSent

-----------------------------------------------------------------------------
(* One frame: from where it leads from to where it leads to.               *)

\* A frame as it is read: of its text, characters may have been cut.
ReadAs(f, g) ==
    /\ g \in Frames /\ g.type = f.type /\ g.no = f.no /\ g.index = f.index
    /\ g.id = f.id /\ g.name = f.name
    /\ Clear(g.text) = f.text /\ Legible(g.text)

LEMMA ReadClean ==
    ASSUME NEW f \in Frames, f.text \in Sayings
    PROVE  ReadAs(f, f)
BY ClearParts DEF ReadAs, Legible

LEMMA ReadGarbled ==
    ASSUME NEW f \in Frames, f.text \in Sayings, "garbled" \in harm
    PROVE  ReadAs(f, Garble(f))
<1> DEFINE g == Garble(f)
           x == f.text
           y == [k \in DOMAIN x |-> IF x[k] = "e'" THEN "?" ELSE x[k]]
<1>1. g \in Frames
  BY FrameParts
<1>2. g = [f EXCEPT !.text = y]
  BY DEF Garble, Frames
<1>3. /\ g.type = f.type /\ g.no = f.no /\ g.index = f.index
      /\ g.id = f.id /\ g.name = f.name /\ g.text = y
  BY <1>2 DEF Frames
<1>4. Clear(y) = x
  <2> DEFINE n == Len(x)
  <2>1. n \in Nat /\ DOMAIN x = 1..n /\ x = [k \in 1..n |-> x[k]] /\ \A k \in 1..n : x[k] # "?"
    BY DEF Sayings, Plain
  <2>2. y = [k \in 1..n |-> IF x[k] = "e'" THEN "?" ELSE x[k]]
    BY <2>1
  <2> HIDE DEF n, x
  <2>3. DOMAIN y = 1..n /\ \A k \in 1..n : y[k] = IF x[k] = "e'" THEN "?" ELSE x[k]
    BY <2>2
  <2> HIDE DEF y
  <2>4. Clear(y) = [k \in 1..n |-> IF y[k] = "?" THEN "e'" ELSE y[k]]
    BY <2>3 DEF Clear
  <2>5. \A k \in 1..n : (IF y[k] = "?" THEN "e'" ELSE y[k]) = x[k]
    BY <2>1, <2>3
  <2>6. Clear(y) = [k \in 1..n |-> x[k]]
    BY <2>4, <2>5
  <2>7. QED
    BY <2>1, <2>6
<1> HIDE DEF g, y
<1>5. QED
  BY <1>1, <1>3, <1>4 DEF ReadAs, Legible, g

\* The key under which a frame tells of a call.
KeyOf(g) == IF api.kind = "chat" THEN ChatKey(g) ELSE StreamKey(g)
CallTypes == IF api.kind = "chat" THEN {"call"} ELSE {"item", "delta", "done"}

LEMMA DecodesText ==
    ASSUME api \in Kinds, NEW a \in Ordered, NEW g \in Frames
    PROVE  /\ g.type = "text" => Decode(a, g) = [a EXCEPT !.text = a.text \o g.text]
           /\ g.type \in {"text_done", "message"} /\ api.kind = "responses" =>
                 Decode(a, g) = [a EXCEPT !.text = g.text]
<1>1. api.kind \in {"chat", "responses"}
  BY DEF Kinds
<1> DEFINE said == [a EXCEPT !.text = a.text \o g.text]
           shot == [a EXCEPT !.text = g.text]
<1>2. Said(a, g.text) = said /\ Snapshot(a, g.text) = shot
  BY DEF Said, Snapshot
<1> HIDE DEF said, shot
<1>3. g.type = "text" => DecodeChat(a, g) = said /\ DecodeResponses(a, g) = said
  BY <1>2 DEF DecodeChat, DecodeResponses
<1>4. g.type \in {"text_done", "message"} => DecodeResponses(a, g) = shot
  BY <1>2 DEF DecodeResponses
<1>5. QED
  BY <1>1, <1>3, <1>4 DEF Decode, said, shot

LEMMA DecodesCall ==
    ASSUME api \in Kinds, NEW a \in Ordered, NEW g \in Frames, g.type \in CallTypes
    PROVE  Decode(a, g) = Tell(a, KeyOf(g), g.id, g.name, g.text)
<1>1. api.kind \in {"chat", "responses"}
  BY DEF Kinds
<1>2. CASE api.kind = "chat"
  BY <1>2 DEF CallTypes, Decode, DecodeChat, KeyOf
<1>3. CASE api.kind = "responses"
  <2>1. g.type \in {"item", "delta", "done"}
    BY <1>3 DEF CallTypes
  <2> DEFINE told == Tell(a, StreamKey(g), g.id, g.name, g.text)
  <2>2. DecodeResponses(a, g) = told
    <3> HIDE DEF told
    <3>1. told = Tell(a, StreamKey(g), g.id, g.name, g.text)
      BY DEF told
    <3>2. QED
      BY <2>1, <3>1 DEF DecodeResponses
  <2>3. QED
    BY <1>3, <2>2 DEF Decode, KeyOf
<1>4. QED
  BY <1>1, <1>2, <1>3

LEMMA DecodesEnd ==
    ASSUME api \in Kinds, NEW a \in Ordered, NEW g \in Frames
    PROVE  /\ g.type \in {"finish", "[DONE]"} /\ api.kind = "chat" => Decode(a, g) = a
           /\ g.type = "usage" /\ api.kind = "chat" => Decode(a, g) = [a EXCEPT !.usage = TRUE]
           /\ g.type \in {"body", "completed"} /\ api.kind = "responses" =>
                 Decode(a, g) = [Output(a) EXCEPT !.usage = TRUE]
           /\ g.type = "body" /\ api.kind = "chat" =>
                 Decode(a, g) = [AppendCalls(Snapshot(a, FlattenSeq(Messages))) EXCEPT !.usage = TRUE]
           /\ g.type \in {"failed", "garbage", "break"} => Decode(a, g) = a
           /\ g.type = "error" => Decode(a, g) \in {a, [a EXCEPT !.errors = @ + 1]}
<1> DEFINE used == [a EXCEPT !.usage = TRUE]
           output == [Output(a) EXCEPT !.usage = TRUE]
           body == [AppendCalls(Snapshot(a, FlattenSeq(Messages))) EXCEPT !.usage = TRUE]
           failed == [a EXCEPT !.errors = @ + 1]
           inChat == DecodeChat(a, g)
           inResponses == DecodeResponses(a, g)
           said == Said(a, g.text)
           shot == Snapshot(a, g.text)
           chat == Tell(a, ChatKey(g), g.id, g.name, g.text)
           told == Tell(a, StreamKey(g), g.id, g.name, g.text)
<1>1. inChat = CASE g.type = "text" -> said
                 [] g.type = "call" -> chat
                 [] g.type = "usage" -> used
                 [] g.type = "error" /\ api.stream -> failed
                 [] g.type = "body" -> body
                 [] OTHER -> a
  BY DEF DecodeChat, Messages
<1>2. inResponses = CASE g.type = "text" -> said
                      [] g.type \in {"text_done", "message"} -> shot
                      [] g.type \in {"item", "delta", "done"} -> told
                      [] g.type = "error" -> failed
                      [] g.type \in {"body", "completed"} -> output
                      [] OTHER -> a
  BY DEF DecodeResponses
<1>3. Decode(a, g) = IF api.kind = "chat" THEN inChat ELSE inResponses
  BY DEF Decode
<1>4. api.kind \in {"chat", "responses"} /\ api.stream \in BOOLEAN
  BY DEF Kinds
<1> HIDE DEF used, output, body, failed, inChat, inResponses, said, shot, chat, told
<1>5. /\ g.type \in {"finish", "[DONE]"} /\ api.kind = "chat" => Decode(a, g) = a
      /\ g.type = "usage" /\ api.kind = "chat" => Decode(a, g) = used
  BY <1>1, <1>3, <1>4
<1>6. g.type \in {"body", "completed"} /\ api.kind = "responses" => Decode(a, g) = output
  BY <1>2, <1>3, <1>4
<1>7. g.type = "body" /\ api.kind = "chat" => Decode(a, g) = body
  BY <1>1, <1>3, <1>4
<1>8. g.type \in {"failed", "garbage", "break"} => Decode(a, g) = a
  BY <1>1, <1>2, <1>3, <1>4
<1>9. g.type = "error" => Decode(a, g) \in {a, failed}
  BY <1>1, <1>2, <1>3, <1>4
<1>10. QED
  BY <1>5, <1>6, <1>7, <1>8, <1>9 DEF used, output, body, failed

\* Frames that say nothing of calls.
SameCalls(a, b) == b.order = a.order /\ b.alias = a.alias /\ b.calls = a.calls

LEMMA CallsSame ==
    ASSUME NEW a, NEW b, SameCalls(a, b)
    PROVE  /\ Loose(a) => Loose(b)
           /\ \A o, j : /\ Lined(a, o, j) => Lined(b, o, j)
                        /\ Gathered(a, o, j) => Gathered(b, o, j)
           /\ \A p : Under(p, a) => Under(p, b)
<1>1. b.order = a.order /\ b.alias = a.alias /\ b.calls = a.calls
  BY DEF SameCalls
<1>2. Loose(a) => Loose(b)
  BY <1>1 DEF Loose, Plainly
<1>3. \A o, j : Lined(a, o, j) => Lined(b, o, j)
  BY <1>1 DEF Lined
<1>4. \A o, j : Gathered(a, o, j) => Gathered(b, o, j)
  BY <1>1, <1>3 DEF Gathered
<1>5. \A p : Under(p, a) => Under(p, b)
  BY <1>1, <1>3 DEF Under
<1>6. QED
  BY <1>2, <1>3, <1>4, <1>5

LEMMA PointParts ==
    ASSUME meant \in Meant, NEW p \in Points
    PROVE  /\ p \in Spots /\ p.text \in Sayings /\ p.call \in 0..Len(meant.calls)
           /\ p.piece \in 0..Full(p.call) /\ p.end \in 0..2 /\ Full(p.call) \in Nat
           /\ p.end > 0 => Done(p)
           /\ Follows(p.text)
<1>1. /\ p \in Spots /\ Follows(p.text) /\ p.call <= Len(meant.calls) /\ p.piece <= Full(p.call)
      /\ p.end > 0 => Done(p)
  BY DEF Points
<1>2. p.text \in Sayings /\ p.call \in Nat /\ p.piece \in Nat /\ p.end \in 0..2
  BY <1>1 DEF Spots
<1>3. Len(meant.calls) \in Nat
  BY MeantParts
<1>4. Full(p.call) \in Nat
  <2>1. CASE p.call = 0
    BY <2>1 DEF Full
  <2>2. CASE p.call # 0
    <3>1. p.call \in 1..Len(meant.calls)
      BY <1>1, <1>2, <1>3, <2>2
    <3>2. QED
      BY <2>2, <3>1, PiecesParts DEF Full
  <2>3. QED
    BY <2>1, <2>2
<1>5. QED
  BY <1>1, <1>2, <1>3, <1>4

LEMMA SayingsJoin ==
    ASSUME NEW x \in Words, NEW y \in Words, Legible(x), Legible(y)
    PROVE  Legible(x \o y) /\ Clear(x \o y) = Clear(x) \o Clear(y)
<1>1. \A s, t \in Sayings : s \o t \in Sayings
  BY ConcatProperties DEF Sayings
<1>2. Legible(x \o y)
  BY <1>1 DEF Legible
<1>3. QED
  BY <1>2, ClearParts

LEMMA AccText ==
    ASSUME NEW a \in Ordered
    PROVE  a.text \in Words /\ a.usage \in BOOLEAN /\ a.errors \in Nat /\ a \in Accumulators
BY DEF Ordered, Accumulators

\* A text frame.
LEMMA SpeaksRead ==
    ASSUME api \in Kinds, meant \in Meant, NEW a \in Ordered, NEW p \in Points, NEW q,
           NEW f \in Frames, NEW g, ReadAs(f, g), AccAt(p, a), Speaks(p, f, q)
    PROVE  AccAt(q, Decode(a, g))
<1> DEFINE b == Decode(a, g)
<1>1. /\ g \in Frames /\ g.type = f.type /\ Clear(g.text) = f.text /\ Legible(g.text)
      /\ g.text \in Words
  BY FrameParts DEF ReadAs
<1>2. a.text \in Words /\ a \in Accumulators /\ Clear(a.text) = p.text /\ Legible(a.text)
  BY AccText DEF AccAt
<1>3. p \in Spots
  BY PointParts
<1>4. SameCalls(a, b) /\ b.usage = a.usage /\ Legible(b.text) /\ Clear(b.text) = q.text
      /\ q.call = p.call /\ q.piece = p.piece /\ q.end = p.end
  <2>1. CASE f.type = "text" /\ q = [p EXCEPT !.text = p.text \o f.text]
    <3>1. b = [a EXCEPT !.text = a.text \o g.text]
      BY <1>1, <2>1, DecodesText
    <3> DEFINE x == a.text \o g.text
               y == p.text \o f.text
    <3>2. Legible(x) /\ Clear(x) = y
      BY <1>1, <1>2, SayingsJoin
    <3> HIDE DEF x, y, b
    <3>3. b = [a EXCEPT !.text = x] /\ q = [p EXCEPT !.text = y]
      BY <2>1, <3>1 DEF x, y, b
    <3>4. QED
      BY <1>2, <1>3, <3>2, <3>3 DEF SameCalls, Accumulators, Spots
  <2>2. CASE f.type \in {"text_done", "message"} /\ api.kind = "responses" /\ q = [p EXCEPT !.text = f.text]
    <3>1. b = [a EXCEPT !.text = g.text]
      BY <1>1, <2>2, DecodesText
    <3> HIDE DEF b
    <3>2. QED
      BY <1>1, <1>2, <1>3, <2>2, <3>1 DEF SameCalls, Accumulators, Spots
  <2>3. QED
    BY <2>1, <2>2 DEF Speaks
<1> HIDE DEF b
<1>5. Under(p, a) => Under(q, b)
  <2>1. Under(p, a) => Under(p, b)
    BY <1>4, CallsSame
  <2>2. QED
    BY <1>4, <2>1 DEF Under
<1>6. Loose(a) => Loose(b)
  BY <1>4, CallsSame
<1>7. QED
  BY <1>4, <1>5, <1>6 DEF AccAt, b

-----------------------------------------------------------------------------
(* A frame of a call.                                                      *)

LEMMA KeyParts ==
    ASSUME api \in Kinds, NEW f \in Frames, NEW g, ReadAs(f, g), OfOneCall(f), api.stream
    PROVE  /\ KeyOf(g) \in Keys /\ g.id \in Keys
           /\ Sort = "index" => KeyOf(g) = <<"index", f.no>>
           /\ Sort = "call" /\ g.id # NoId => KeyOf(g) = g.id
           /\ Sort = "call" /\ g.id = NoId => KeyOf(g)[1] # "call"
<1>1. /\ g \in Frames /\ g.no = f.no /\ g.index = api.index /\ api.index \in BOOLEAN
  BY DEF ReadAs, OfOneCall, Kinds
<1>2. Sort = IF g.index THEN "index" ELSE "call"
  BY <1>1 DEF Sort
<1>3. KeyOf(g) \in Keys /\ g.id \in Keys
  BY <1>1, FrameParts DEF KeyOf
<1>4. g.index => KeyOf(g) = <<"index", f.no>>
  BY <1>1 DEF KeyOf, ChatKey, StreamKey
<1>5. ~g.index /\ g.id # NoId => KeyOf(g) = g.id
  BY DEF KeyOf, ChatKey, StreamKey
<1>6. ~g.index /\ g.id = NoId => KeyOf(g)[1] # "call"
  BY DEF KeyOf, ChatKey, StreamKey
<1>7. QED
  BY <1>1, <1>2, <1>3, <1>4, <1>5, <1>6

\* One that made a call of its own leaves one without a name.
LEMMA TellsLoose ==
    ASSUME api \in Kinds, meant \in Meant, NEW a \in Ordered,
           NEW f \in Frames, NEW g, ReadAs(f, g), OfOneCall(f), api.stream,
           Sort = "call", Loose(a)
    PROVE  Loose(Decode(a, g))
<1> DEFINE key == KeyOf(g)
<1>1. /\ g \in Frames /\ g.id = f.id /\ g.name = f.name /\ g.type = f.type
      /\ g.name \in Words /\ g.text \in Words
  BY FrameParts DEF ReadAs
<1>2. /\ key \in Keys /\ g.id \in Keys
      /\ g.id # NoId => key = g.id
  BY KeyParts
<1>3. f.id = <<"call", f.no>> \/ (f.id = NoId /\ f.name = <<>>)
  BY DEF OfOneCall
<1>4. g.id \in {key, NoId}
  BY <1>2
<1>5. g.name = <<>> \/ key[1] = "call"
  <2>1. CASE f.id = NoId
    BY <1>1, <1>3, <2>1 DEF NoId
  <2>2. CASE f.id # NoId
    <3>1. key = <<"call", f.no>>
      BY <1>1, <1>2, <1>3, <2>2
    <3> HIDE DEF key
    <3>2. QED
      BY <3>1
  <2>3. QED
    BY <2>1, <2>2
<1>6. Decode(a, g) = Tell(a, key, g.id, g.name, g.text)
  <2>1. g.type \in CallTypes
    BY <1>1 DEF OfOneCall, CallTypes
  <2>2. QED
    BY <1>1, <2>1, DecodesCall
<1> HIDE DEF key
<1>7. Loose(Tell(a, key, g.id, g.name, g.text))
  BY <1>1, <1>2, <1>4, <1>5, TellLoose
<1>8. QED
  BY <1>6, <1>7

\* One without a key of its call makes one of its own.
LEMMA TellsStray ==
    ASSUME api \in Kinds, meant \in Meant, NEW a \in Ordered, NEW p \in Points,
           NEW f \in Frames, NEW g, ReadAs(f, g), OfOneCall(f), api.stream,
           Sort = "call", Under(p, a), f.id = NoId
    PROVE  Loose(Decode(a, g))
<1> DEFINE key == KeyOf(g)
<1>1. /\ g \in Frames /\ g.id = NoId /\ g.name = f.name /\ g.type = f.type /\ g.text \in Words
  BY FrameParts DEF ReadAs
<1>2. key \in Keys /\ key[1] # "call"
  BY <1>1, KeyParts
<1>3. g.name = <<>>
  BY <1>1 DEF OfOneCall, NoId
<1>4. Decode(a, g) = Tell(a, key, NoId, <<>>, g.text)
  <2>1. g.type \in CallTypes
    BY <1>1 DEF OfOneCall, CallTypes
  <2>2. QED
    BY <1>1, <1>3, <2>1, DecodesCall
<1> DEFINE j == p.call
<1>5. Lined(a, "call", j) /\ j \in Nat
  BY PointParts DEF Under
<1> HIDE DEF key, j
<1>6. Loose(Tell(a, key, NoId, <<>>, g.text))
  BY <1>1, <1>2, <1>5, TellStray
<1>7. QED
  BY <1>4, <1>6

LEMMA FullParts ==
    ASSUME meant \in Meant, NEW j \in 1..Len(meant.calls)
    PROVE  /\ Full(j) = Len(meant.calls[j].frags) /\ Full(j) \in Nat
           /\ \A x : Has(j, Full(j), x) <=> Final(j, x) /\ Legible(x)
           /\ \A x, k : Has(j, k, x) => Legible(x)
<1>1. Len(meant.calls[j].frags) \in Nat
  BY PiecesParts
<1>2. Full(j) = Len(meant.calls[j].frags)
  BY DEF Full
<1>5. \A x : Has(j, Full(j), x) <=> Final(j, x) /\ Legible(x)
  BY <1>1, <1>2 DEF Has
<1>6. \A x, k : Has(j, k, x) => Legible(x)
  BY DEF Has
<1>7. QED
  BY <1>1, <1>2, <1>5, <1>6

LEMMA GotHas ==
    ASSUME meant \in Meant, NEW j \in 1..Len(meant.calls), NEW k \in 0..Full(j), NEW x,
           Got(j, k, x), Legible(x)
    PROVE  Has(j, k, x)
<1>1. Full(j) \in Nat /\ Full(j) = Len(meant.calls[j].frags)
  BY FullParts
<1>2. CASE k < Full(j)
  BY <1>2 DEF Has
<1>3. CASE ~(k < Full(j))
  <2>1. k = Full(j)
    BY <1>1, <1>3
  <2>2. Final(j, x)
    BY <1>1, <2>1 DEF Final
  <2>3. QED
    BY <1>3, <2>2 DEF Has
<1>4. QED
  BY <1>2, <1>3

\* When the call under way is complete, all of them are.
LEMMA UnderAll ==
    ASSUME meant \in Meant, NEW a \in Ordered, NEW p \in Points, p.piece = Full(p.call)
    PROVE  Under(p, a) <=> Gathered(a, Sort, p.call)
<1> DEFINE j == p.call
<1>1. j \in 0..Len(meant.calls) /\ Len(meant.calls) \in Nat
  BY PointParts, MeantParts
<1>2. ASSUME NEW q \in 1..j
      PROVE  /\ (IF q = j THEN p.piece ELSE Full(q)) = Full(q)
             /\ \A x : Has(q, Full(q), x) <=> Final(q, x) /\ Legible(x)
  <2>1. q \in 1..Len(meant.calls)
    BY <1>1
  <2>2. \A x : Has(q, Full(q), x) <=> Final(q, x) /\ Legible(x)
    BY <2>1, FullParts
  <2>3. QED
    BY <2>2
<1>3. (\A q \in 1..j : /\ a.calls[q].name = meant.calls[q].name
                       /\ Has(q, IF q = j THEN p.piece ELSE Full(q), a.calls[q].args))
      <=> (\A q \in 1..j : /\ a.calls[q].name = meant.calls[q].name
                           /\ Final(q, a.calls[q].args) /\ Legible(a.calls[q].args))
  BY <1>2
<1>4. QED
  BY <1>3 DEF Under, Gathered

\* A call is announced.
LEMMA TellsNew ==
    ASSUME api \in Kinds, meant \in Meant, NEW a \in Ordered, NEW p \in Points, NEW q \in Points,
           NEW f \in Frames, NEW g, ReadAs(f, g), OfOneCall(f), api.stream,
           Under(p, a), Announces(p, f, q)
    PROVE  Under(q, Decode(a, g))
<1> DEFINE j == p.call
           name == meant.calls[f.no].name
           b == Tell(a, <<Sort, j + 1>>, <<"call", j + 1>>, name, <<>>)
<1>1. /\ g \in Frames /\ g.id = f.id /\ g.name = f.name /\ g.type = f.type /\ Clear(g.text) = f.text
      /\ g.text \in Words
  BY FrameParts DEF ReadAs
<1>2. /\ f.id = <<"call", f.no>> /\ f.name = name /\ f.text = <<>>
      /\ j = f.no - 1 /\ p.piece = Full(j) /\ q.call = f.no /\ q.piece = 0
  BY PointParts DEF Announces, OfOneCall, Spots
<1>3. /\ f.no \in 1..Len(meant.calls) /\ j \in Nat /\ f.no = j + 1 /\ f.no \in Nat
      /\ \A r \in 1..f.no : r = f.no \/ (r \in 1..j /\ r # f.no)
  <2>1. f.no \in 1..Len(meant.calls) /\ Len(meant.calls) \in Nat
    BY MeantParts DEF OfOneCall
  <2>2. QED
    BY <1>2, <2>1
<1>4. g.text = <<>>
  BY <1>1, <1>2, ClearParts, EmptySeq DEF Words
<1>5. name \in Words /\ <<>> \in Words
  <2>1. <<>> \in Words
    BY DEF Words
  <2>2. QED
    BY <1>3, <2>1, CallParts
<1>6. KeyOf(g) = <<Sort, j + 1>>
  <2>1. Sort \in {"index", "call"}
    BY DEF Sort
  <2>2. Sort = "index" => KeyOf(g) = <<"index", f.no>>
    BY KeyParts
  <2>3. g.id # NoId
    BY <1>1, <1>2 DEF NoId
  <2>4. Sort = "call" => KeyOf(g) = g.id
    BY <2>3, KeyParts
  <2>5. QED
    BY <1>1, <1>2, <1>3, <2>1, <2>2, <2>4
<1>7. Decode(a, g) = b
  <2>1. g.type \in CallTypes
    BY <1>1 DEF OfOneCall, CallTypes
  <2>2. Decode(a, g) = Tell(a, KeyOf(g), g.id, g.name, g.text)
    BY <1>1, <2>1, DecodesCall
  <2>3. g.id = <<"call", j + 1>> /\ g.name = name
    BY <1>1, <1>2, <1>3
  <2>4. QED
    BY <1>4, <1>6, <2>2, <2>3
<1>8. Gathered(a, Sort, j)
  BY <1>2, UnderAll
<1>9. /\ Lined(b, Sort, j + 1)
      /\ \A r \in 1..j : b.calls[r].name = a.calls[r].name /\ b.calls[r].args = a.calls[r].args
      /\ b.calls[j + 1].name = name /\ b.calls[j + 1].args = <<>>
  <2>1. Lined(a, Sort, j) /\ Sort \in {"index", "call"}
    BY <1>8 DEF Gathered, Sort
  <2> DEFINE i == f.no
             none == <<>>
  <2>2. i \in Nat \ {0} /\ Lined(a, Sort, i - 1) /\ none \in Words
    BY <1>2, <1>3, <1>5, <2>1
  <2>3. b = Tell(a, <<Sort, i>>, <<"call", i>>, name, none)
    BY <1>3
  <2> HIDE DEF j, name, i, none, b
  <2>4. Grown(a, Tell(a, <<Sort, i>>, <<"call", i>>, name, none), Sort, i, name, none)
    BY <1>5, <2>1, <2>2, TellGrows
  <2>5. Grown(a, b, Sort, i, name, none)
    BY <2>3, <2>4
  <2>6. i = j + 1 /\ i - 1 = j
    BY <1>3 DEF i
  <2>7. QED
    BY <2>5, <2>6 DEF Grown, none
<1>10. Has(f.no, 0, <<>>)
  <2>1. Got(f.no, 0, <<>>) /\ Legible(<<>>) /\ Full(f.no) \in Nat
    BY <1>3, GotFirst, FullParts DEF Legible, Sayings
  <2>2. 0 \in 0..Full(f.no)
    BY <2>1
  <2>3. QED
    BY <1>3, <2>1, <2>2, GotHas
<1> HIDE DEF b, j, name
<1>11. SUFFICES ASSUME NEW r \in 1..q.call
                PROVE  /\ b.calls[r].name = meant.calls[r].name
                       /\ Has(r, IF r = q.call THEN q.piece ELSE Full(r), b.calls[r].args)
  BY <1>2, <1>3, <1>7, <1>9 DEF Under
<1>12. CASE r = f.no
  BY <1>2, <1>3, <1>9, <1>10, <1>12 DEF name
<1>13. CASE r \in 1..j /\ r # f.no
  <2>1. /\ a.calls[r].name = meant.calls[r].name
        /\ Final(r, a.calls[r].args) /\ Legible(a.calls[r].args)
    BY <1>8, <1>13 DEF Gathered
  <2>2. r \in 1..Len(meant.calls)
    BY <1>3, <1>13, MeantParts
  <2>3. Has(r, Full(r), a.calls[r].args)
    BY <2>1, <2>2, FullParts
  <2>4. QED
    BY <1>2, <1>9, <1>13, <2>1, <2>3
<1>14. QED
  BY <1>2, <1>3, <1>12, <1>13

\* A frame of the call under way that says which one that is.
LEMMA TellsKnown ==
    ASSUME api \in Kinds, meant \in Meant, NEW f \in Frames, NEW g, ReadAs(f, g), OfOneCall(f), api.stream,
           Sort = "call" => f.id # NoId, NEW a \in Ordered
    PROVE  /\ Knows(Sort, f.no, KeyOf(g), g.id) /\ KeyOf(g) \in Keys /\ g.id \in Keys
           /\ Decode(a, g) = Tell(a, KeyOf(g), g.id, g.name, g.text)
           /\ g.name \in {<<>>, meant.calls[f.no].name} /\ g.text \in Words
           /\ Clear(g.text) = f.text /\ Legible(g.text)
           /\ Sort \in {"index", "call"}
<1>1. /\ g \in Frames /\ g.id = f.id /\ g.name = f.name /\ g.type = f.type /\ Clear(g.text) = f.text
      /\ Legible(g.text) /\ g.text \in Words
  BY FrameParts DEF ReadAs
<1>2. /\ KeyOf(g) \in Keys /\ g.id \in Keys
      /\ Sort = "index" => KeyOf(g) = <<"index", f.no>>
      /\ Sort = "call" /\ g.id # NoId => KeyOf(g) = g.id
  BY KeyParts
<1>3. Sort \in {"index", "call"}
  BY DEF Sort
<1>4. f.id \in {NoId, <<"call", f.no>>} /\ g.name \in {<<>>, meant.calls[f.no].name}
  BY <1>1 DEF OfOneCall
<1>5. Knows(Sort, f.no, KeyOf(g), g.id)
  BY <1>1, <1>2, <1>3, <1>4 DEF Knows
<1>6. Decode(a, g) = Tell(a, KeyOf(g), g.id, g.name, g.text)
  <2>1. g.type \in CallTypes
    BY <1>1 DEF OfOneCall, CallTypes
  <2>2. QED
    BY <1>1, <2>1, DecodesCall
<1>7. QED
  BY <1>1, <1>2, <1>3, <1>4, <1>5, <1>6

\* The call is told again.
LEMMA TellsAgain ==
    ASSUME api \in Kinds, meant \in Meant, NEW a \in Ordered, NEW p \in Points, NEW q \in Points,
           NEW f \in Frames, NEW g, ReadAs(f, g), OfOneCall(f), api.stream,
           Sort = "call" => f.id # NoId,
           Under(p, a), Repeated(p, f, q)
    PROVE  Under(q, Decode(a, g))
<1> DEFINE i == f.no
           key == KeyOf(g)
<1>1. /\ Knows(Sort, i, key, g.id) /\ key \in Keys /\ g.id \in Keys
      /\ Decode(a, g) = Tell(a, key, g.id, g.name, g.text)
      /\ g.name \in {<<>>, meant.calls[i].name} /\ g.text \in Words
      /\ Clear(g.text) = f.text /\ Legible(g.text)
      /\ Sort \in {"index", "call"}
  BY TellsKnown
<1>2. /\ p.call = i /\ p.piece = Full(p.call) /\ f.text = Arguments(i) /\ q = p
      /\ i \in 1..Len(meant.calls)
  BY DEF Repeated, OfOneCall
<1>3. i \in 0..Len(meant.calls) /\ i \in 1..i
  BY <1>2, MeantParts
<1>4. Gathered(a, Sort, i)
  BY <1>2, UnderAll
<1> DEFINE b == Decode(a, g)
<1>5. b = Tell(a, key, g.id, g.name, g.text) /\ Clear(g.text) = Arguments(i)
  BY <1>1, <1>2
<1> HIDE DEF i, key, b
<1>6. Gathered(Tell(a, key, g.id, g.name, g.text), Sort, i)
  BY <1>1, <1>3, <1>4, <1>5, GatheredTold
<1>7. Gathered(b, Sort, p.call) /\ b \in Ordered
  <2>1. g.name \in Words
    <3>1. meant.calls[i].name \in Words
      BY <1>2, CallParts
    <3>2. <<>> \in Words
      BY DEF Words
    <3>3. QED
      BY <1>1, <3>1, <3>2
  <2>2. Tell(a, key, g.id, g.name, g.text) \in Ordered
    BY <1>1, <2>1, TellKeeps
  <2>3. QED
    BY <1>2, <1>5, <1>6, <2>2
<1>8. QED
  BY <1>2, <1>7, UnderAll DEF b

\* One more piece of it.
LEMMA TellsMore ==
    ASSUME api \in Kinds, meant \in Meant, NEW a \in Ordered, NEW p \in Points, NEW q \in Points,
           NEW f \in Frames, NEW g, ReadAs(f, g), OfOneCall(f), api.stream,
           Sort = "call" => f.id # NoId,
           Under(p, a), GoesOn(p, f, q)
    PROVE  Under(q, Decode(a, g))
<1> DEFINE i == f.no
           key == KeyOf(g)
           k == p.piece + 1
           x == a.calls[i].args
<1>1. /\ Knows(Sort, i, key, g.id) /\ key \in Keys /\ g.id \in Keys
      /\ Decode(a, g) = Tell(a, key, g.id, g.name, g.text)
      /\ g.name \in {<<>>, meant.calls[i].name} /\ g.text \in Words
      /\ Clear(g.text) = f.text /\ Legible(g.text)
      /\ Sort \in {"index", "call"}
  BY TellsKnown
<1>2. /\ p.call = i /\ p.piece < Full(i) /\ f.text = meant.calls[i].frags[k]
      /\ q.call = i /\ q.piece = k
      /\ i \in 1..Len(meant.calls)
  BY PointParts DEF GoesOn, OfOneCall, Spots
<1>3. /\ i \in Nat /\ i \in 1..i /\ Full(i) = Len(meant.calls[i].frags) /\ Full(i) \in Nat
      /\ p.piece \in 0..Full(i) /\ k \in 1..Full(i) /\ k \in 0..Full(i) /\ k - 1 = p.piece
  <2>1. i \in Nat /\ i \in 1..i
    BY <1>2, MeantParts
  <2>2. Full(i) = Len(meant.calls[i].frags) /\ Full(i) \in Nat
    BY <1>2, FullParts
  <2>3. p.piece \in 0..Full(i)
    BY <1>2, PointParts
  <2>4. QED
    BY <1>2, <2>1, <2>2, <2>3
<1>4. /\ Lined(a, Sort, i)
      /\ \A r \in 1..i : /\ a.calls[r].name = meant.calls[r].name
                         /\ Has(r, IF r = i THEN p.piece ELSE Full(r), a.calls[r].args)
  BY <1>2 DEF Under
<1>5. x \in Words
  <2>1. i \in 1..Len(a.order)
    BY <1>3, <1>4 DEF Lined
  <2>2. QED
    BY <2>1, CallTyped
<1>6. Got(i, p.piece, x) /\ Legible(x)
  BY <1>2, <1>3, <1>4 DEF Has
<1>7. Got(i, k, Merge(x, g.text))
  <2> DEFINE piece == g.text
  <2>1. k \in 1..Len(meant.calls[i].frags) /\ Clear(piece) = meant.calls[i].frags[k] /\ piece \in Words
        /\ Got(i, k - 1, x)
    BY <1>1, <1>2, <1>3, <1>6
  <2> HIDE DEF piece, i, k, x
  <2>2. Got(i, k, Merge(x, piece))
    BY <1>2, <1>5, <2>1, GotMore
  <2>3. QED
    BY <2>2 DEF piece
<1>8. Has(i, k, Merge(x, g.text))
  <2>1. Legible(Merge(x, g.text))
    BY <1>1, <1>6, MergeSayings DEF Legible
  <2> DEFINE y == Merge(x, g.text)
  <2> HIDE DEF y, i, k
  <2>2. QED
    BY <1>2, <1>3, <1>7, <2>1, GotHas DEF y
<1>9. meant.calls[i].name \in Words /\ <<>> \in Words
  <2>1. <<>> \in Words
    BY DEF Words
  <2>2. QED
    BY <1>2, <2>1, CallParts
<1> DEFINE b == Decode(a, g)
<1>10. /\ Lined(b, Sort, i)
       /\ \A r \in 1..i :
             /\ b.calls[r].name = IF r = i THEN Merge(a.calls[r].name, g.name) ELSE a.calls[r].name
             /\ b.calls[r].args = IF r = i THEN Merge(a.calls[r].args, g.text) ELSE a.calls[r].args
  <2>1. b = Tell(a, key, g.id, g.name, g.text) /\ g.name \in Words
    BY <1>1, <1>9
  <2> HIDE DEF b, i, key, k, x
  <2> DEFINE c == Tell(a, key, g.id, g.name, g.text)
  <2>2. /\ Lined(c, Sort, i)
        /\ \A r \in 1..i :
              /\ c.calls[r].name = IF r = i THEN Merge(a.calls[r].name, g.name) ELSE a.calls[r].name
              /\ c.calls[r].args = IF r = i THEN Merge(a.calls[r].args, g.text) ELSE a.calls[r].args
    BY <1>1, <1>3, <1>4, <2>1, TellHits
  <2> HIDE DEF c
  <2>3. QED
    BY <2>1, <2>2 DEF c
<1> HIDE DEF b
<1>11. \A r \in 1..i : b.calls[r].name = meant.calls[r].name
  <2>1. Merge(meant.calls[i].name, g.name) = meant.calls[i].name
    BY <1>1, <1>9, MergeFirst
  <2>2. QED
    BY <1>4, <1>10, <2>1
<1>12. \A r \in 1..i : Has(r, IF r = i THEN k ELSE Full(r), b.calls[r].args)
  <2> HIDE DEF k
  <2>1. TAKE r \in 1..i
  <2>2. CASE r = i
    BY <1>8, <1>10, <2>2
  <2>3. CASE r # i
    BY <1>4, <1>10, <2>3
  <2>4. QED
    BY <2>2, <2>3
<1>13. QED
  BY <1>2, <1>10, <1>11, <1>12 DEF Under, b

\* A frame of a call.
LEMMA TellsRead ==
    ASSUME api \in Kinds, meant \in Meant, NEW a \in Ordered, NEW p \in Points, NEW q \in Points,
           NEW f \in Frames, NEW g, ReadAs(f, g), AccAt(p, a), Tells(p, f, q)
    PROVE  AccAt(q, Decode(a, g))
<1> DEFINE b == Decode(a, g)
<1>1. api.stream /\ p.end = 0 /\ OfOneCall(f)
  BY DEF Tells
<1>2. q.text = p.text /\ q.end = 0
  BY <1>1, PointParts DEF Tells, Announces, GoesOn, Repeated, Spots
<1>3. b.text = a.text
  <2> DEFINE key == KeyOf(g)
  <2>1. g.type \in CallTypes /\ g \in Frames
    BY <1>1 DEF OfOneCall, CallTypes, ReadAs
  <2>2. b = Tell(a, key, g.id, g.name, g.text)
    BY <2>1, DecodesCall
  <2>3. key \in Keys /\ g.id \in Keys
    BY <1>1, KeyParts
  <2> HIDE DEF key, b
  <2>4. QED
    BY <2>2, <2>3, TellRest
<1>4. Clear(b.text) = q.text /\ Legible(b.text) /\ (q.end = 2 => b.usage)
  BY <1>2, <1>3 DEF AccAt
<1> HIDE DEF b
<1>5. CASE Sort = "call" /\ Loose(a)
  <2>1. Loose(b)
    BY <1>1, <1>5, TellsLoose DEF b
  <2>2. QED
    BY <1>4, <1>5, <2>1 DEF AccAt, b
<1>6. CASE Under(p, a) /\ Sort = "call" /\ f.id = NoId
  <2>1. Loose(b)
    BY <1>1, <1>6, TellsStray DEF b
  <2>2. QED
    BY <1>4, <1>6, <2>1 DEF AccAt, b
<1>7. CASE Under(p, a) /\ (Sort = "call" => f.id # NoId)
  <2>1. Under(q, b)
    BY <1>1, <1>7, TellsNew, TellsMore, TellsAgain DEF Tells, b
  <2>2. QED
    BY <1>4, <2>1 DEF AccAt, b
<1>8. QED
  BY <1>5, <1>6, <1>7 DEF AccAt

-----------------------------------------------------------------------------
(* The frames at the end.                                                  *)

LEMMA MessagesParts ==
    ASSUME meant \in Meant
    PROVE  /\ FlattenSeq(Messages) \in Sayings /\ Len(Messages) \in Nat
           /\ Messages = <<>> => FlattenSeq(Messages) = <<>>
           /\ Messages # <<>> => Last(Messages) \in Sayings /\ Last(Messages) = Messages[Len(Messages)]
           /\ WholeText \in Sayings
<1>1. Messages \in Seq(Sayings) /\ \A i \in 1..Len(Messages) : Messages[i] \in Sayings
  BY MeantSayings DEF Messages
<1>2. FlattenSeq(Messages) \in Sayings
  <2>1. Messages \in Seq(Seq(Plain))
    BY <1>1 DEF Sayings
  <2>2. QED
    BY <2>1, FlattenTyped DEF Sayings
<1>3. Messages = <<>> => FlattenSeq(Messages) = <<>>
  <2> HAVE Messages = <<>>
  <2>1. Messages \in Seq(Seq(Plain)) /\ Len(Messages) = 0
    BY <1>1 DEF Sayings
  <2>2. Upto(Messages, 0) = <<>> /\ Upto(Messages, Len(Messages)) = FlattenSeq(Messages)
    BY <2>1, UptoGrows
  <2>3. QED
    BY <2>1, <2>2
<1>4. Len(Messages) \in Nat /\ (Messages # <<>> => Len(Messages) \in 1..Len(Messages))
  <2> HIDE DEF Sayings
  <2>1. QED
    BY <1>1, EmptySeq, LenProperties
<1>5. Last(Messages) = Messages[Len(Messages)]
  BY DEF Last
<1>6. QED
  BY <1>1, <1>2, <1>3, <1>4, <1>5 DEF WholeText

LEMMA EndingParts ==
    /\ Ending.text = WholeText /\ Ending.call = Len(meant.calls)
    /\ Ending.piece = Full(Ending.call) /\ Ending.end = 2
    /\ Beginning.text = <<>> /\ Beginning.call = 0 /\ Beginning.piece = 0 /\ Beginning.end = 0
BY DEF Ending, Beginning, Spot

LEMMA TextLegible ==
    ASSUME NEW x \in Sayings
    PROVE  Clear(x) = x /\ Legible(x) /\ x \in Words
BY ClearParts, SayingsAreWords DEF Legible

\* Where the calls of all there is to say are.
LEMMA CallsEnd ==
    ASSUME api \in Kinds, meant \in Meant, NEW a \in Ordered, Clear(a.text) = WholeText, Legible(a.text),
           a.usage, (Sort = "call" /\ Loose(a)) \/ Gathered(a, Sort, Len(meant.calls)), Ending \in Points
    PROVE  AccAt(Ending, a)
<1> DEFINE p == Ending
           n == Len(meant.calls)
<1>1. p.text = WholeText /\ p.call = n /\ p.piece = Full(p.call) /\ p.end = 2
  BY EndingParts
<1>2. p \in Points
  OBVIOUS
<1> HIDE DEF p, n
<1>3. Under(p, a) <=> Gathered(a, Sort, p.call)
  BY <1>1, <1>2, UnderAll
<1>4. QED
  BY <1>1, <1>3 DEF AccAt, p, n

\* A frame that gives all the calls.
LEMMA AllGiven ==
    ASSUME api \in Kinds, meant \in Meant, NEW a \in Ordered,
           Clear(a.text) = WholeText, Legible(a.text), Ending \in Points,
           \/ Sort = "call" /\ Loose(a)
           \/ Gathered(a, Sort, Len(meant.calls))
           \/ Sort = "call" /\ Lined(a, "call", 0)
    PROVE  AccAt(Ending, [AppendCalls(a) EXCEPT !.usage = TRUE])
<1> DEFINE b == AppendCalls(a)
           c == [b EXCEPT !.usage = TRUE]
           n == Len(meant.calls)
<1>1. b \in Ordered
  BY AppendKeeps
<1>2. b.text = a.text
  BY AppendRest
<1>3. c \in Ordered /\ SameCalls(b, c) /\ c.text = b.text /\ c.usage
  <2>1. <<>> \in Words /\ b \in Accumulators
    BY <1>1, AccText DEF Words
  <2> HIDE DEF b
  <2>2. c \in Ordered
    BY <1>1, <2>1, FieldsChanged
  <2>3. SameCalls(b, c) /\ c.text = b.text /\ c.usage
    BY <2>1 DEF SameCalls, Accumulators
  <2>4. QED
    BY <2>2, <2>3
<1>4. Sort \in {"index", "call"}
  BY DEF Sort
<1>5. (Sort = "call" /\ Loose(b)) \/ Gathered(b, Sort, n)
  <2>1. CASE Sort = "call" /\ Loose(a)
    BY <2>1, AppendLoose
  <2>2. CASE Gathered(a, Sort, n)
    BY <1>4, <2>2, AppendAgain
  <2>3. CASE Sort = "call" /\ Lined(a, "call", 0)
    BY <2>3, AppendNew
  <2>4. QED
    BY <2>1, <2>2, <2>3
<1> HIDE DEF b, c
<1>6. (Sort = "call" /\ Loose(c)) \/ Gathered(c, Sort, n)
  BY <1>3, <1>5, CallsSame
<1>7. AccAt(Ending, c)
  BY <1>2, <1>3, <1>6, CallsEnd
<1>8. QED
  BY <1>7 DEF b, c

\* The text and the calls of a response.
LEMMA OutputGiven ==
    ASSUME api \in Kinds, meant \in Meant, NEW a \in Ordered, api.kind = "responses", Ending \in Points,
           Clear(a.text) = WholeText \/ a.text = <<>>, Legible(a.text),
           \/ Sort = "call" /\ Loose(a)
           \/ Gathered(a, Sort, Len(meant.calls))
           \/ Sort = "call" /\ Lined(a, "call", 0)
    PROVE  AccAt(Ending, [Output(a) EXCEPT !.usage = TRUE])
<1> DEFINE last == Last(Messages)
           b == IF Messages = <<>> THEN a ELSE [a EXCEPT !.text = last]
<1>1. Output(a) = AppendCalls(b)
  BY DEF Output, Snapshot, Messages
<1>2. WholeText = IF Messages = <<>> THEN <<>> ELSE last
  BY MessagesParts DEF WholeText
<1>3. Messages # <<>> => last \in Sayings
  BY MessagesParts
<1>4. a \in Accumulators /\ Clear(<<>>) = <<>>
  BY AccText, ClearParts, EmptySeq DEF Sayings
<1>5. b \in Ordered /\ SameCalls(a, b) /\ Clear(b.text) = WholeText /\ Legible(b.text)
  <2>1. CASE Messages = <<>>
    BY <1>2, <1>4, <2>1 DEF SameCalls
  <2>2. CASE Messages # <<>>
    <3>1. last \in Words /\ Clear(last) = last /\ Legible(last) /\ WholeText = last
      BY <1>2, <1>3, <2>2, TextLegible
    <3> HIDE DEF last
    <3> DEFINE c == [a EXCEPT !.text = last]
    <3>2. c \in Ordered
      BY <3>1, FieldsChanged
    <3>3. c.text = last /\ SameCalls(a, c)
      BY <1>4 DEF SameCalls, Accumulators
    <3>4. b = c
      BY <2>2
    <3> HIDE DEF b, c
    <3>5. QED
      BY <3>1, <3>2, <3>3, <3>4
  <2>3. QED
    BY <2>1, <2>2
<1> HIDE DEF b
<1>6. \/ Sort = "call" /\ Loose(b)
      \/ Gathered(b, Sort, Len(meant.calls))
      \/ Sort = "call" /\ Lined(b, "call", 0)
  BY <1>5, CallsSame
<1>7. QED
  BY <1>1, <1>5, <1>6, AllGiven

\* One of the last frames; a body is read into an accumulator that is empty.
LEMMA ClosesRead ==
    ASSUME api \in Kinds, meant \in Meant, NEW a \in Ordered, NEW p \in Points, NEW q \in Points,
           NEW f \in Frames, NEW g \in Frames, g.type = f.type, AccAt(p, a), Closes(p, f, q),
           ~api.stream => a = Fresh
    PROVE  AccAt(q, Decode(a, g))
<1>1. ASSUME Done(p)
      PROVE  /\ Clear(a.text) = WholeText /\ Legible(a.text)
             /\ (Sort = "call" /\ Loose(a)) \/ Gathered(a, Sort, Len(meant.calls))
  <2>1. p.text = WholeText /\ p.call = Len(meant.calls) /\ p.piece = Full(p.call)
    BY <1>1 DEF Done
  <2>2. QED
    BY <2>1, UnderAll DEF AccAt
<1>2. CASE api.kind = "chat" /\ Done(p) /\ f.type = "finish" /\ q = [p EXCEPT !.end = 1]
  <2>1. Decode(a, g) = a
    BY <1>2, DecodesEnd
  <2>2. q.text = p.text /\ q.call = p.call /\ q.piece = p.piece /\ q.end = 1
    BY <1>2, PointParts DEF Spots
  <2>3. QED
    BY <2>1, <2>2 DEF AccAt, Under
<1>3. CASE api.kind = "chat" /\ Done(p) /\ f.type = "usage" /\ q = Ending
  <2> DEFINE b == [a EXCEPT !.usage = TRUE]
  <2>1. Decode(a, g) = b
    BY <1>3, DecodesEnd
  <2>2. b \in Ordered /\ SameCalls(a, b) /\ b.text = a.text /\ b.usage
    <3>1. <<>> \in Words /\ a \in Accumulators
      BY AccText DEF Words
    <3>2. b \in Ordered
      BY <3>1, FieldsChanged
    <3>3. QED
      BY <3>1, <3>2 DEF SameCalls, Accumulators
  <2> HIDE DEF b
  <2>3. (Sort = "call" /\ Loose(b)) \/ Gathered(b, Sort, Len(meant.calls))
    BY <1>1, <1>3, <2>2, CallsSame
  <2>4. AccAt(Ending, b)
    BY <1>1, <1>3, <2>2, <2>3, CallsEnd
  <2>5. QED
    BY <1>3, <2>1, <2>4
<1>4. CASE api.kind = "chat" /\ f.type = "[DONE]" /\ q = p
  BY <1>4, DecodesEnd
<1>5. CASE api.kind = "responses" /\ f.type = "completed" /\ Done(p) /\ q = Ending
  <2>1. Decode(a, g) = [Output(a) EXCEPT !.usage = TRUE]
    BY <1>5, DecodesEnd
  <2>2. AccAt(Ending, [Output(a) EXCEPT !.usage = TRUE])
    BY <1>1, <1>5, OutputGiven
  <2>3. QED
    BY <1>5, <2>1, <2>2
<1>6. CASE ~api.stream /\ f.type = "body" /\ q = Ending
  <2>1. a = Fresh /\ Sort = "call"
    BY <1>6 DEF Sort
  <2>2. Lined(Fresh, "call", 0) /\ Fresh.text = <<>> /\ <<>> \in Sayings
    <3>1. 1..0 = {}
      OBVIOUS
    <3>2. QED
      BY <3>1 DEF Lined, Fresh, Sayings
  <2>3. Legible(Fresh.text)
    BY <2>2 DEF Legible
  <2>4. CASE api.kind = "responses"
    <3>1. Decode(a, g) = [Output(a) EXCEPT !.usage = TRUE]
      BY <1>6, <2>4, DecodesEnd
    <3>2. AccAt(Ending, [Output(a) EXCEPT !.usage = TRUE])
      BY <1>6, <2>1, <2>2, <2>3, <2>4, OutputGiven
    <3>3. QED
      BY <1>6, <3>1, <3>2
  <2>5. CASE api.kind = "chat"
    <3> DEFINE whole == FlattenSeq(Messages)
               b == [a EXCEPT !.text = whole]
    <3>1. Decode(a, g) = [AppendCalls(b) EXCEPT !.usage = TRUE]
      BY <1>6, <2>5, DecodesEnd DEF Snapshot
    <3>2. whole \in Words /\ Clear(whole) = whole /\ Legible(whole) /\ WholeText = whole
      BY <2>5, MessagesParts, TextLegible DEF WholeText
    <3> HIDE DEF whole
    <3>3. b \in Ordered /\ SameCalls(a, b) /\ b.text = whole
      <4>1. a \in Accumulators
        BY AccText
      <4>2. b \in Ordered
        BY <3>2, FieldsChanged
      <4>3. QED
        BY <4>1, <4>2 DEF SameCalls, Accumulators
    <3> HIDE DEF b
    <3>4. Lined(b, "call", 0)
      BY <2>1, <2>2, <3>3, CallsSame
    <3>5. AccAt(Ending, [AppendCalls(b) EXCEPT !.usage = TRUE])
      BY <1>6, <2>1, <3>2, <3>3, <3>4, AllGiven
    <3>6. QED
      BY <1>6, <3>1, <3>5
  <2>6. QED
    BY <2>4, <2>5 DEF Kinds
<1>7. QED
  BY <1>2, <1>3, <1>4, <1>5, <1>6 DEF Closes

-----------------------------------------------------------------------------
(* The frames that are sent lead from the beginning to the end.            *)

SpotAt(p, t, i, k) == p \in Points /\ p.text = t /\ p.call = i /\ p.piece = k /\ p.end = 0

LEMMA PointMade ==
    ASSUME meant \in Meant, NEW t \in Sayings, Follows(t), NEW i \in 0..Len(meant.calls),
           NEW k \in 0..Full(i)
    PROVE  SpotAt(Spot(t, i, k, 0), t, i, k)
<1> DEFINE p == Spot(t, i, k, 0)
<1>1. p = [text |-> t, call |-> i, piece |-> k, end |-> 0]
  BY DEF Spot
<1>2. i \in Nat /\ i <= Len(meant.calls)
  BY MeantParts
<1>3. Full(i) \in Nat
  <2>1. CASE i = 0
    BY <2>1 DEF Full
  <2>2. CASE i # 0
    BY <1>2, <2>2, FullParts, MeantParts
  <2>3. QED
    BY <2>1, <2>2
<1>4. k \in Nat /\ k <= Full(i) /\ 0 \in 0..2
  BY <1>3
<1>5. p.text = t /\ p.call = i /\ p.piece = k /\ p.end = 0
  BY <1>1
<1>6. p \in Spots
  <2> HIDE DEF p, Sayings
  <2>1. QED
    BY <1>1, <1>2, <1>4 DEF Spots
<1> HIDE DEF p
<1>7. p \in Points
  BY <1>2, <1>4, <1>5, <1>6 DEF Points
<1>8. QED
  BY <1>5, <1>7 DEF p, SpotAt

LEMMA MoveMade ==
    ASSUME NEW p \in Points, NEW f \in Frames, NEW q \in Points, Leads(p, f, q)
    PROVE  <<p, f, q>> \in Moves
BY DEF Moves

LEMMA TextMade ==
    ASSUME NEW x \in Plain
    PROVE  /\ Text(x).type = "text" /\ Text(x).text = <<x>> /\ <<x>> \in Sayings
           /\ \A type, y : Whole(type, y).type = type /\ Whole(type, y).text = y
<1>1. Text(x).type = "text" /\ Text(x).text = <<x>>
  BY DEF Text, Blank
<1>2. \A type, y : Whole(type, y).type = type /\ Whole(type, y).text = y
  BY DEF Whole, Blank
<1>3. <<x>> \in Sayings
  BY DEF Sayings
<1>4. QED
  BY <1>1, <1>2, <1>3

\* Word by word.
LEMMA DeltasPath ==
    ASSUME api \in Kinds, meant \in Meant, api.stream, NEW u \in Sayings, NEW m \in Sayings,
           \A k \in 0..Len(m) : Follows(u \o SubSeq(m, 1, k))
    PROVE  Path(Points, Moves, Deltas(m), Spot(u, 0, 0, 0), Spot(u \o m, 0, 0, 0))
<1> DEFINE n == Len(m)
           t(k) == u \o SubSeq(m, 1, k)
           by == [k \in 0..n |-> Spot(t(k), 0, 0, 0)]
           s == Deltas(m)
<1>1. n \in Nat /\ DOMAIN m = 1..n /\ \A k \in 1..n : m[k] \in Plain
  BY DEF Sayings
<1>2. s \in Seq(Frames)
  BY DeltasMade, SayingsAreWords
<1>3. s = [k \in 1..n |-> Text(m[k])]
  BY <1>1 DEF Deltas
<1>4. Len(s) = n /\ \A k \in 1..n : s[k] = Text(m[k]) /\ s[k] \in Frames
  <2> HIDE DEF n, s
  <2>1. DOMAIN s = 1..n /\ \A k \in 1..n : s[k] = Text(m[k])
    BY <1>3
  <2>2. Len(s) = n
    BY <1>1, <1>2, <2>1, LenProperties
  <2>3. \A k \in 1..n : s[k] \in Frames
    BY <1>2, <2>2, ElementOfSeq
  <2>4. QED
    BY <2>1, <2>2, <2>3
<1>5. ASSUME NEW k \in 0..n
      PROVE  /\ t(k) \in Sayings /\ (k = 0 => t(k) = u) /\ (k = n => t(k) = u \o m)
             /\ k > 0 => t(k) = t(k - 1) \o <<m[k]>>
  <2> HIDE DEF n
  <2>1. CutAt(Plain, u, m, k)
    BY CutParts DEF Sayings, n
  <2>2. QED
    BY <2>1 DEF CutAt, Sayings, n
<1>6. ASSUME NEW k \in 0..n
      PROVE  /\ by[k] \in Points /\ by[k].text = t(k) /\ by[k].call = 0 /\ by[k].piece = 0 /\ by[k].end = 0
  <2> DEFINE x == t(k)
  <2>1. x \in Sayings /\ Follows(x)
    BY <1>5
  <2>2. by[k] = Spot(x, 0, 0, 0) /\ 0 \in 0..Len(meant.calls) /\ 0 \in 0..Full(0)
    BY MeantParts DEF Full
  <2> HIDE DEF x, by
  <2>3. SpotAt(Spot(x, 0, 0, 0), x, 0, 0)
    BY <2>1, <2>2, PointMade
  <2>4. QED
    BY <2>2, <2>3 DEF x, SpotAt
<1>7. by \in [0..n -> Points]
  BY <1>6
<1>8. ASSUME NEW k \in 1..n PROVE <<by[k - 1], s[k], by[k]>> \in Moves
  <2> DEFINE p == by[k - 1]
             q == by[k]
             f == s[k]
             x == t(k - 1)
             y == t(k)
  <2>1. k \in 0..n /\ k - 1 \in 0..n /\ k > 0
    BY <1>1
  <2>2. /\ p \in Points /\ p.text = x /\ p.call = 0 /\ p.piece = 0 /\ p.end = 0
        /\ q \in Points /\ q.text = y /\ q.call = 0 /\ q.piece = 0 /\ q.end = 0
    BY <1>6, <2>1
  <2>3. f \in Frames /\ f.type = "text" /\ f.text = <<m[k]>> /\ f.text \in Sayings
    <3> DEFINE w == m[k]
    <3>1. w \in Plain /\ f = Text(w) /\ f \in Frames
      BY <1>1, <1>4
    <3> HIDE DEF w, f
    <3>2. f.type = "text" /\ f.text = <<w>> /\ f.text \in Sayings
      BY <3>1, TextMade
    <3>3. QED
      BY <3>1, <3>2 DEF w
  <2>4. y = x \o f.text
    BY <1>5, <2>1, <2>3
  <2> HIDE DEF p, q, f, x, y, by, s
  <2>5. q = [p EXCEPT !.text = x \o f.text]
    BY <2>2, <2>4, PointParts DEF Spots
  <2>6. Leads(p, f, q)
    BY <2>2, <2>3, <2>5 DEF Leads, Speaks
  <2>7. QED
    BY <2>2, <2>3, <2>6, MoveMade DEF p, q, f
<1>9. Path(Points, Moves, s, by[0], by[n])
  <2> HIDE DEF n, s, by
  <2>1. by \in [0..Len(s) -> Points] /\ \A k \in 1..Len(s) : <<by[k - 1], s[k], by[k]>> \in Moves
    BY <1>4, <1>7, <1>8
  <2>2. Path(Points, Moves, s, by[0], by[Len(s)])
    BY <1>2, <2>1, PathOver
  <2>3. QED
    BY <1>4, <2>2
<1>10. by[0] = Spot(u, 0, 0, 0) /\ by[n] = Spot(u \o m, 0, 0, 0)
  <2>1. 0 \in 0..n /\ n \in 0..n
    BY <1>1
  <2>2. t(0) = u /\ t(n) = u \o m
    BY <1>5, <2>1
  <2>3. by[0] = Spot(t(0), 0, 0, 0) /\ by[n] = Spot(t(n), 0, 0, 0)
    BY <2>1
  <2>4. QED
    BY <2>2, <2>3
<1>11. QED
  BY <1>9, <1>10

LEMMA SayingPrefix ==
    ASSUME NEW x \in Sayings
    PROVE  IsPrefix(x, x) /\ (\A y \in Sayings : IsPrefix(x, x \o y)) /\ x \o <<>> = x
<1>1. Len(x) <= Len(x) /\ \A e \in 1..Len(x) : x[e] = x[e]
  BY DEF Sayings
<1>2. IsPrefix(x, x)
  <2> HIDE DEF Plain
  <2>1. QED
    BY <1>1, PrefixIs DEF Sayings
<1>3. ASSUME NEW y \in Sayings PROVE IsPrefix(x, x \o y)
  <2>1. 0 \in 0..Len(y)
    BY DEF Sayings
  <2>2. CutAt(Plain, x, y, 0)
    BY <2>1, CutParts DEF Sayings
  <2> DEFINE z == x \o SubSeq(y, 1, 0)
  <2>3. z = x /\ IsPrefix(z, x \o y)
    BY <2>2 DEF CutAt
  <2>4. QED
    BY <2>3
<1>4. x \o <<>> = x
  BY DEF Sayings
<1>5. QED
  BY <1>2, <1>3, <1>4

\* The texts of a chat completion.
LEMMA ChatMessages ==
    ASSUME api \in Kinds, meant \in Meant, api.stream, api.kind = "chat"
    PROVE  Path(Points, Moves, AllMessages(Deltas), Beginning, Spot(WholeText, 0, 0, 0))
<1> DEFINE m == Len(Messages)
           t(i) == Upto(Messages, i)
           F == Frames
           s == [i \in DOMAIN Messages |-> Deltas(Messages[i])]
           by == [i \in 0..m |-> Spot(t(i), 0, 0, 0)]
<1>1. /\ m \in Nat /\ DOMAIN Messages = 1..m /\ Messages \in Seq(Seq(Plain))
      /\ \A i \in 1..m : Messages[i] \in Sayings /\ Messages[i] \in Words
  BY MeantParts, MeantSayings DEF Messages, Sayings
<1>2. /\ \A i \in 0..m : t(i) \in Sayings
      /\ \A i \in 1..m : t(i) = t(i - 1) \o Messages[i]
      /\ t(0) = <<>> /\ t(m) = FlattenSeq(Messages)
  BY <1>1, UptoGrows DEF Sayings
<1>3. s \in Seq(Seq(F)) /\ Len(s) = m /\ \A i \in 1..m : s[i] = Deltas(Messages[i])
  <2> DEFINE R == Seq(F)
  <2>1. s = [i \in 1..m |-> Deltas(Messages[i])] /\ \A i \in 1..m : Deltas(Messages[i]) \in R
    BY <1>1, DeltasMade
  <2> HIDE DEF R, m
  <2>2. s \in Seq(R) /\ Len(s) = m /\ \A i \in 1..m : s[i] = Deltas(Messages[i])
    BY <1>1, <2>1
  <2>3. QED
    BY <2>2 DEF R, m
<1>4. AllMessages(Deltas) = FlattenSeq(s)
  BY DEF AllMessages, Messages
<1>5. ASSUME NEW i \in 0..m, NEW z \in Sayings, IsPrefix(z, t(i)) PROVE Follows(z)
  <2>1. IsPrefix(z, FlattenSeq(Messages))
    BY <1>1, <1>5, UptoFirst DEF Sayings
  <2>2. QED
    BY <2>1 DEF Follows
<1>6. ASSUME NEW i \in 0..m PROVE by[i] \in Points
  <2> DEFINE x == t(i)
  <2>1. x \in Sayings
    BY <1>2
  <2>2. Follows(x)
    BY <1>5, <2>1, SayingPrefix
  <2>3. by[i] = Spot(x, 0, 0, 0) /\ 0 \in 0..Len(meant.calls) /\ 0 \in 0..Full(0)
    BY MeantParts DEF Full
  <2> HIDE DEF x, by
  <2>4. SpotAt(Spot(x, 0, 0, 0), x, 0, 0)
    BY <2>1, <2>2, <2>3, PointMade
  <2>5. QED
    BY <2>3, <2>4 DEF SpotAt
<1>7. by \in [0..m -> Points]
  BY <1>6
<1>8. ASSUME NEW i \in 1..m PROVE Path(Points, Moves, s[i], by[i - 1], by[i])
  <2> DEFINE u == t(i - 1)
             y == Messages[i]
  <2>1. i \in 0..m /\ i - 1 \in 0..m
    BY <1>1
  <2>2. u \in Sayings /\ y \in Sayings /\ t(i) = u \o y
    BY <1>1, <1>2, <2>1
  <2>3. ASSUME NEW k \in 0..Len(y) PROVE Follows(u \o SubSeq(y, 1, k))
    <3> HIDE DEF u, y
    <3> DEFINE z == u \o SubSeq(y, 1, k)
    <3>1. CutAt(Plain, u, y, k)
      BY <2>2, CutParts DEF Sayings
    <3>2. z \in Sayings /\ IsPrefix(z, u \o y)
      BY <3>1 DEF CutAt, Sayings
    <3> HIDE DEF z
    <3>3. Follows(z)
      BY <1>5, <2>1, <2>2, <3>2
    <3>4. QED
      BY <3>3 DEF z
  <2>4. s[i] = Deltas(y) /\ by[i - 1] = Spot(u, 0, 0, 0) /\ by[i] = Spot(u \o y, 0, 0, 0)
    BY <1>3, <2>1, <2>2
  <2> HIDE DEF u, y, s, by
  <2>5. Path(Points, Moves, Deltas(y), Spot(u, 0, 0, 0), Spot(u \o y, 0, 0, 0))
    BY <2>2, <2>3, DeltasPath
  <2>6. QED
    BY <2>4, <2>5
<1>9. Path(Points, Moves, FlattenSeq(s), by[0], by[m])
  <2> HIDE DEF m, s, by, F
  <2>1. by \in [0..Len(s) -> Points] /\ \A i \in 1..Len(s) : Path(Points, Moves, s[i], by[i - 1], by[i])
    BY <1>3, <1>7, <1>8
  <2>2. Path(Points, Moves, FlattenSeq(s), by[0], by[Len(s)])
    BY <1>3, <2>1, PathFlatten
  <2>3. QED
    BY <1>3, <2>2
<1>10. by[0] = Beginning /\ by[m] = Spot(WholeText, 0, 0, 0)
  <2>1. 0 \in 0..m /\ m \in 0..m
    BY <1>1
  <2>2. by[0] = Spot(t(0), 0, 0, 0) /\ by[m] = Spot(t(m), 0, 0, 0)
    BY <2>1
  <2>3. t(m) = WholeText
    BY <1>2 DEF WholeText
  <2>4. QED
    BY <1>2, <2>2, <2>3 DEF Beginning
<1>11. QED
  BY <1>4, <1>9, <1>10

\* What a response has said when it comes to a message, and within it.
LEMMA ResponseFollows ==
    ASSUME meant \in Meant, api.kind = "responses", NEW i \in 0..Len(Messages)
    PROVE  LET u == IF i = 0 THEN <<>> ELSE Messages[i] IN
           /\ u \in Sayings /\ Follows(u)
           /\ i < Len(Messages) =>
                 \A k \in 0..Len(Messages[i + 1]) : Follows(u \o SubSeq(Messages[i + 1], 1, k))
<1> DEFINE m == Len(Messages)
           u == IF i = 0 THEN <<>> ELSE Messages[i]
           y == IF i = m THEN <<>> ELSE Messages[i + 1]
<1>1. m \in Nat /\ \A j \in 1..m : Messages[j] \in Sayings
  BY MeantParts, MeantSayings DEF Messages
<1>2. <<>> \in Sayings
  BY DEF Sayings
<1>3. u \in Sayings
  <2>1. i # 0 => i \in 1..m
    BY <1>1
  <2>2. QED
    BY <1>1, <1>2, <2>1
<1>4. y \in Sayings /\ (i < m => y = Messages[i + 1])
  <2>1. (i # m => i + 1 \in 1..m) /\ (i < m => i # m)
    BY <1>1
  <2>2. QED
    BY <1>1, <1>2, <2>1
<1>5. ASSUME NEW z, IsPrefix(z, u \o y), Len(z) >= Len(u) PROVE Follows(z)
  <2>1. i > 0 => Len(z) >= Len(Messages[i])
    BY <1>1, <1>5
  <2>2. QED
    BY <1>5, <2>1 DEF Follows
<1>6. Len(u) \in Nat
  BY <1>3 DEF Sayings
<1> HIDE DEF u, y
<1>7. Follows(u)
  <2>1. Len(u) >= Len(u) /\ IsPrefix(u, u \o y)
    BY <1>3, <1>4, <1>6, SayingPrefix
  <2>2. QED
    BY <1>5, <2>1
<1>8. ASSUME NEW k \in 0..Len(y) PROVE Follows(u \o SubSeq(y, 1, k))
  <2> DEFINE z == u \o SubSeq(y, 1, k)
  <2>1. CutAt(Plain, u, y, k)
    BY <1>3, <1>4, CutParts DEF Sayings
  <2>2. IsPrefix(z, u \o y) /\ Len(z) = Len(u) + k /\ k >= 0
    BY <1>4, <2>1 DEF CutAt, Sayings
  <2> HIDE DEF z
  <2>3. Len(z) >= Len(u)
    BY <1>6, <2>2
  <2>4. Follows(z)
    BY <1>5, <2>2, <2>3
  <2>5. QED
    BY <2>4 DEF z
<1>9. QED
  BY <1>3, <1>4, <1>7, <1>8 DEF u

\* A frame that says the whole text of a message.
LEMMA SnapshotMove ==
    ASSUME api \in Kinds, meant \in Meant, api.stream, api.kind = "responses",
           NEW type \in {"text_done", "message"},
           NEW t \in Sayings, Follows(t), NEW y \in Sayings, Follows(y)
    PROVE  <<Spot(t, 0, 0, 0), Whole(type, y), Spot(y, 0, 0, 0)>> \in Moves
<1> DEFINE f == Whole(type, y)
           p == Spot(t, 0, 0, 0)
           q == Spot(y, 0, 0, 0)
<1>1. f \in Frames /\ f.type = type /\ f.text = y
  <2>1. type \in FrameTypes
    BY DEF FrameTypes
  <2>2. f.type = type /\ f.text = y
    BY DEF Whole, Blank
  <2>3. QED
    BY <2>1, <2>2, FramesMade, SayingsAreWords
<1>2. 0 \in 0..Len(meant.calls) /\ 0 \in 0..Full(0)
  BY MeantParts DEF Full
<1>3. SpotAt(p, t, 0, 0) /\ SpotAt(q, y, 0, 0)
  BY <1>2, PointMade
<1> HIDE DEF f, p, q
<1>4. p \in Points /\ q \in Points /\ p.end = 0
  BY <1>3 DEF SpotAt
<1>5. q = [p EXCEPT !.text = y]
  <2>1. p \in Spots /\ q \in Spots
    BY <1>4, PointParts
  <2>2. QED
    BY <1>3, <2>1 DEF Spots, SpotAt
<1>6. Leads(p, f, q)
  BY <1>1, <1>4, <1>5 DEF Leads, Speaks
<1>7. <<p, f, q>> \in Moves
  BY <1>1, <1>4, <1>6, MoveMade
<1>8. QED
  BY <1>7 DEF p, f, q

\* The texts of a response.
LEMMA MessagePath ==
    ASSUME api \in Kinds, meant \in Meant, api.stream, api.kind = "responses",
           NEW u \in Sayings, NEW y \in Sayings, Follows(y),
           \A k \in 0..Len(y) : Follows(u \o SubSeq(y, 1, k))
    PROVE  Path(Points, Moves, ResponsesMessage(y), Spot(u, 0, 0, 0), Spot(y, 0, 0, 0))
<1> DEFINE F == Frames
           d == Deltas(y)
           f == Whole("text_done", y)
           g == Whole("message", y)
           p == Spot(u, 0, 0, 0)
           q == Spot(u \o y, 0, 0, 0)
           r == Spot(y, 0, 0, 0)
           P == Points
           G == Moves
<1>1. u \o y \in Sayings /\ Follows(u \o y)
  <2>1. Len(y) \in 0..Len(y)
    BY DEF Sayings
  <2>2. CutAt(Plain, u, y, Len(y))
    BY <2>1, CutParts DEF Sayings
  <2> DEFINE z == u \o SubSeq(y, 1, Len(y))
  <2>3. z = u \o y /\ z \in Sayings
    BY <2>2 DEF CutAt, Sayings
  <2>4. Follows(z)
    BY <2>1
  <2> HIDE DEF z
  <2>5. QED
    BY <2>3, <2>4
<1>2. Path(P, G, d, p, q)
  BY DeltasPath
<1>3. <<q, f, r>> \in G /\ <<r, g, r>> \in G
  <2> DEFINE w == u \o y
  <2>1. w \in Sayings /\ Follows(w) /\ q = Spot(w, 0, 0, 0)
    BY <1>1
  <2> HIDE DEF w, q
  <2>2. <<Spot(w, 0, 0, 0), f, r>> \in G
    BY <2>1, SnapshotMove
  <2>3. <<r, g, r>> \in G
    BY SnapshotMove
  <2>4. QED
    BY <2>1, <2>2, <2>3
<1>4. q \in P /\ r \in P /\ f \in F /\ g \in F /\ d \in Seq(F)
  <2>1. q \in P /\ f \in F /\ r \in P /\ g \in F
    <3> HIDE DEF q, f, r, g
    <3>1. QED
      BY <1>3 DEF Moves
  <2>2. d \in Seq(F)
    BY DeltasMade, SayingsAreWords
  <2>3. QED
    BY <2>1, <2>2
<1>5. ResponsesMessage(y) = (d \o <<f>>) \o <<g>>
  <2>1. ResponsesMessage(y) = d \o <<f, g>>
    BY DEF ResponsesMessage
  <2> HIDE DEF d, f, g, F
  <2>2. d \o <<f, g>> = (d \o <<f>>) \o <<g>>
    BY <1>4, TwoMore
  <2>3. QED
    BY <2>1, <2>2
<1> HIDE DEF d, f, g, p, q, r, P, G, F
<1>6. Path(P, G, <<f>>, q, r) /\ Path(P, G, <<g>>, r, r)
  BY <1>3, <1>4, PathOne
<1>7. <<f>> \in Seq(F) /\ <<g>> \in Seq(F) /\ d \o <<f>> \in Seq(F)
  BY <1>4
<1>8. Path(P, G, d \o <<f>>, p, r)
  <2> DEFINE one == <<f>>
  <2> HIDE DEF one
  <2>1. one \in Seq(F) /\ Path(P, G, one, q, r)
    BY <1>6, <1>7 DEF one
  <2>2. Path(P, G, d \o one, p, r)
    BY <1>2, <1>4, <2>1, PathJoin
  <2>3. QED
    BY <2>2 DEF one
<1>9. Path(P, G, (d \o <<f>>) \o <<g>>, p, r)
  <2> DEFINE one == <<g>>
             e == d \o <<f>>
  <2> HIDE DEF one, e
  <2>1. one \in Seq(F) /\ Path(P, G, one, r, r) /\ e \in Seq(F) /\ Path(P, G, e, p, r)
    BY <1>6, <1>7, <1>8 DEF one, e
  <2>2. Path(P, G, e \o one, p, r)
    BY <2>1, PathJoin
  <2>3. QED
    BY <2>2 DEF one, e
<1>10. QED
  BY <1>5, <1>9 DEF p, r, P, G

LEMMA ResponseMessages ==
    ASSUME api \in Kinds, meant \in Meant, api.stream, api.kind = "responses"
    PROVE  Path(Points, Moves, AllMessages(ResponsesMessage), Beginning, Spot(WholeText, 0, 0, 0))
<1> DEFINE m == Len(Messages)
           t(i) == IF i = 0 THEN <<>> ELSE Messages[i]
           F == Frames
           s == [i \in DOMAIN Messages |-> ResponsesMessage(Messages[i])]
           by == [i \in 0..m |-> Spot(t(i), 0, 0, 0)]
<1>1. /\ m \in Nat /\ DOMAIN Messages = 1..m
      /\ \A i \in 1..m : Messages[i] \in Sayings /\ Messages[i] \in Words
  BY MeantParts, MeantSayings DEF Messages
<1>3. s \in Seq(Seq(F)) /\ Len(s) = m /\ \A i \in 1..m : s[i] = ResponsesMessage(Messages[i])
  <2> DEFINE R == Seq(F)
  <2>1. s = [i \in 1..m |-> ResponsesMessage(Messages[i])] /\ \A i \in 1..m : ResponsesMessage(Messages[i]) \in R
    BY <1>1, DeltasMade
  <2> HIDE DEF R, m
  <2>2. s \in Seq(R) /\ Len(s) = m /\ \A i \in 1..m : s[i] = ResponsesMessage(Messages[i])
    BY <1>1, <2>1
  <2>3. QED
    BY <2>2 DEF R, m
<1>4. AllMessages(ResponsesMessage) = FlattenSeq(s)
  BY DEF AllMessages, Messages
<1>5. ASSUME NEW i \in 0..m
      PROVE  /\ t(i) \in Sayings /\ Follows(t(i))
             /\ i < m => \A k \in 0..Len(Messages[i + 1]) : Follows(t(i) \o SubSeq(Messages[i + 1], 1, k))
  BY ResponseFollows
<1>6. ASSUME NEW i \in 0..m PROVE by[i] \in Points
  <2> DEFINE x == t(i)
  <2>1. x \in Sayings /\ Follows(x)
    BY <1>5
  <2>2. by[i] = Spot(x, 0, 0, 0) /\ 0 \in 0..Len(meant.calls) /\ 0 \in 0..Full(0)
    BY MeantParts DEF Full
  <2> HIDE DEF x, by
  <2>3. SpotAt(Spot(x, 0, 0, 0), x, 0, 0)
    BY <2>1, <2>2, PointMade
  <2>4. QED
    BY <2>2, <2>3 DEF SpotAt
<1>7. by \in [0..m -> Points]
  BY <1>6
<1>8. ASSUME NEW i \in 1..m PROVE Path(Points, Moves, s[i], by[i - 1], by[i])
  <2> DEFINE u == t(i - 1)
             y == Messages[i]
  <2>1. i \in 0..m /\ i - 1 \in 0..m /\ i - 1 < m /\ (i - 1) + 1 = i /\ i # 0
    BY <1>1
  <2>2. t(i) = y
    BY <2>1
  <2>3. u \in Sayings /\ y \in Sayings /\ Follows(y)
    BY <1>1, <1>5, <2>1, <2>2
  <2>4. \A k \in 0..Len(y) : Follows(u \o SubSeq(y, 1, k))
    <3> DEFINE j == i - 1
    <3>1. j \in 0..m /\ j < m /\ j + 1 = i
      BY <2>1
    <3> HIDE DEF j
    <3>2. \A k \in 0..Len(Messages[j + 1]) : Follows(t(j) \o SubSeq(Messages[j + 1], 1, k))
      BY <1>5, <3>1
    <3>3. QED
      BY <3>1, <3>2 DEF j
  <2>5. s[i] = ResponsesMessage(y) /\ by[i - 1] = Spot(u, 0, 0, 0) /\ by[i] = Spot(y, 0, 0, 0)
    BY <1>3, <2>1, <2>2
  <2> HIDE DEF u, y, s, by
  <2>6. Path(Points, Moves, ResponsesMessage(y), Spot(u, 0, 0, 0), Spot(y, 0, 0, 0))
    BY <2>3, <2>4, MessagePath
  <2>7. QED
    BY <2>5, <2>6
<1>9. Path(Points, Moves, FlattenSeq(s), by[0], by[m])
  <2> HIDE DEF m, s, by, F
  <2>1. by \in [0..Len(s) -> Points] /\ \A i \in 1..Len(s) : Path(Points, Moves, s[i], by[i - 1], by[i])
    BY <1>3, <1>7, <1>8
  <2>2. Path(Points, Moves, FlattenSeq(s), by[0], by[Len(s)])
    BY <1>3, <2>1, PathFlatten
  <2>3. QED
    BY <1>3, <2>2
<1>10. by[0] = Beginning /\ by[m] = Spot(WholeText, 0, 0, 0)
  <2>1. 0 \in 0..m /\ m \in 0..m
    BY <1>1
  <2>2. by[0] = Spot(t(0), 0, 0, 0) /\ by[m] = Spot(t(m), 0, 0, 0)
    BY <2>1
  <2>3. t(m) = WholeText
    <3>1. Messages = <<>> <=> m = 0
      <4>1. Messages \in Seq(Words)
        BY MeantParts DEF Messages
      <4> HIDE DEF Words
      <4>2. QED
        BY <4>1, EmptySeq, LenProperties
    <3>2. QED
      BY <3>1, MessagesParts DEF WholeText
  <2>4. QED
    BY <2>2, <2>3 DEF Beginning
<1>11. QED
  BY <1>4, <1>9, <1>10

LEMMA WholeFollows ==
    ASSUME api \in Kinds, meant \in Meant
    PROVE  WholeText \in Sayings /\ Follows(WholeText)
<1>1. WholeText \in Sayings
  BY MessagesParts
<1>2. CASE api.kind = "chat"
  BY <1>1, <1>2, SayingPrefix DEF Follows, WholeText
<1>3. CASE api.kind = "responses"
  <2> DEFINE m == Len(Messages)
             u == IF m = 0 THEN <<>> ELSE Messages[m]
  <2>1. m \in Nat /\ m \in 0..m
    BY MessagesParts
  <2>2. Follows(u)
    <3>1. m \in 0..Len(Messages)
      BY <2>1
    <3> HIDE DEF m
    <3>2. QED
      BY <1>3, <3>1, ResponseFollows
  <2>3. Messages = <<>> <=> m = 0
    <3>1. Messages \in Seq(Words)
      BY MeantParts DEF Messages
    <3> HIDE DEF Words
    <3>2. QED
      BY <3>1, EmptySeq, LenProperties
  <2>4. u = WholeText
    BY <1>3, <2>3, MessagesParts DEF WholeText
  <2>5. QED
    BY <1>1, <2>2, <2>4
<1>4. QED
  BY <1>2, <1>3 DEF Kinds

\* A frame of a call says which one it is of.
CallFrame(f, i, id, name, text) ==
    /\ f \in Frames /\ OfOneCall(f) /\ f.no = i /\ f.name = name /\ f.text = text
    /\ f.id = IF id THEN <<"call", i>> ELSE NoId

LEMMA CallFrameMade ==
    ASSUME api \in Kinds, meant \in Meant, NEW i \in 1..Len(meant.calls), NEW type \in CallTypes,
           NEW id \in BOOLEAN, NEW name \in {<<>>, meant.calls[i].name}, ~id => name = <<>>,
           NEW text \in Sayings
    PROVE  CallFrame(OfCall(type, i, id, name, text), i, id, name, text)
<1> DEFINE f == OfCall(type, i, id, name, text)
<1>1. /\ f.type = type /\ f.no = i /\ f.index = api.index /\ f.name = name /\ f.text = text
      /\ f.id = IF id THEN <<"call", i>> ELSE NoId
  BY DEF OfCall, Blank
<1>2. f \in Frames
  <2>1. type \in FrameTypes
    BY DEF CallTypes, FrameTypes
  <2>2. i \in Nat /\ meant.calls[i].name \in Words
    BY CallParts
  <2>3. name \in Words /\ text \in Words
    <3>1. <<>> \in Words
      BY DEF Words
    <3>2. QED
      BY <2>2, <3>1, SayingsAreWords
  <2> HIDE DEF f
  <2>4. QED
    BY <2>1, <2>2, <2>3, FramesMade DEF f
<1> HIDE DEF f
<1>3. OfOneCall(f)
  BY <1>1 DEF OfOneCall, CallTypes
<1>4. CallFrame(f, i, id, name, text)
  BY <1>1, <1>2, <1>3 DEF CallFrame
<1>5. QED
  BY <1>4 DEF f

\* Where the i-th call has k of its pieces.
LEMMA CallSpot ==
    ASSUME api \in Kinds, meant \in Meant, NEW i \in 0..Len(meant.calls), NEW k \in 0..Full(i)
    PROVE  SpotAt(Spot(WholeText, i, k, 0), WholeText, i, k)
<1> DEFINE t == WholeText
<1>1. t \in Sayings /\ Follows(t)
  BY WholeFollows
<1> HIDE DEF t
<1>2. SpotAt(Spot(t, i, k, 0), t, i, k)
  BY <1>1, PointMade
<1>3. QED
  BY <1>2 DEF t

LEMMA SpotsEqual ==
    ASSUME meant \in Meant, NEW p \in Points, NEW q \in Points, q.text = p.text, q.end = p.end
    PROVE  q = [p EXCEPT !.call = q.call, !.piece = q.piece]
BY PointParts DEF Spots

LEMMA SpotsFurther ==
    ASSUME meant \in Meant, NEW p \in Points, NEW q \in Points, q.text = p.text, q.end = p.end,
           q.call = p.call
    PROVE  q = [p EXCEPT !.piece = q.piece]
BY PointParts DEF Spots

LEMMA OpenMove ==
    ASSUME api \in Kinds, meant \in Meant, api.stream, NEW i \in 1..Len(meant.calls), NEW type \in CallTypes
    PROVE  <<Spot(WholeText, i - 1, Full(i - 1), 0),
             OfCall(type, i, TRUE, meant.calls[i].name, <<>>), Spot(WholeText, i, 0, 0)>> \in Moves
<1> DEFINE name == meant.calls[i].name
           f == OfCall(type, i, TRUE, name, <<>>)
           p == Spot(WholeText, i - 1, Full(i - 1), 0)
           q == Spot(WholeText, i, 0, 0)
<1>1. f \in Frames /\ OfOneCall(f) /\ f.no = i /\ f.name = name /\ f.text = <<>> /\ f.id = <<"call", i>>
  <2>1. CallFrame(f, i, TRUE, name, <<>>)
    <3>1. <<>> \in Sayings
      BY DEF Sayings
    <3>2. QED
      BY <3>1, CallFrameMade
  <2> HIDE DEF f
  <2>2. QED
    BY <2>1 DEF CallFrame
<1>2. /\ i \in 0..Len(meant.calls) /\ i - 1 \in 0..Len(meant.calls) /\ 0 \in 0..Full(i)
      /\ Full(i - 1) \in 0..Full(i - 1)
  <2>1. i \in 0..Len(meant.calls) /\ i - 1 \in 0..Len(meant.calls)
    BY MeantParts
  <2>2. Full(i) \in Nat
    BY FullParts
  <2>3. Full(i - 1) \in Nat
    <3> DEFINE j == i - 1
    <3>1. j = 0 \/ j \in 1..Len(meant.calls)
      BY <2>1
    <3> HIDE DEF j
    <3>2. Full(j) \in Nat
      <4>1. CASE j = 0
        BY <4>1 DEF Full
      <4>2. CASE j \in 1..Len(meant.calls)
        BY <4>2, FullParts
      <4>3. QED
        BY <3>1, <4>1, <4>2
    <3>3. QED
      BY <3>2 DEF j
  <2>4. QED
    BY <2>1, <2>2, <2>3
<1>3. SpotAt(q, WholeText, i, 0)
  BY <1>2, CallSpot
<1>4. SpotAt(p, WholeText, i - 1, Full(i - 1))
  <2> DEFINE j == i - 1
  <2>1. j \in 0..Len(meant.calls) /\ Full(j) \in 0..Full(j)
    BY <1>2
  <2> HIDE DEF j
  <2>2. SpotAt(Spot(WholeText, j, Full(j), 0), WholeText, j, Full(j))
    BY <2>1, CallSpot
  <2>3. QED
    BY <2>2 DEF j
<1> HIDE DEF f, p, q, name
<1>5. /\ p \in Points /\ q \in Points /\ q.text = p.text /\ q.end = p.end /\ q.call = i /\ q.piece = 0
      /\ p.end = 0 /\ p.call = i - 1 /\ p.piece = Full(p.call)
  BY <1>3, <1>4 DEF SpotAt
<1>6. q = [p EXCEPT !.call = i, !.piece = 0]
  <2>1. q = [p EXCEPT !.call = q.call, !.piece = q.piece]
    BY <1>5, SpotsEqual
  <2>2. QED
    BY <1>5, <2>1
<1>7. f.id # NoId
  BY <1>1 DEF NoId
<1>8. Announces(p, f, q)
  BY <1>1, <1>5, <1>6, <1>7 DEF Announces, name
<1>9. Leads(p, f, q)
  BY <1>1, <1>5, <1>8 DEF Leads, Tells
<1>10. <<p, f, q>> \in Moves
  BY <1>1, <1>5, <1>9, MoveMade
<1>11. QED
  BY <1>10 DEF p, f, q, name

LEMMA AgainMove ==
    ASSUME api \in Kinds, meant \in Meant, api.stream, NEW i \in 1..Len(meant.calls), NEW type \in CallTypes,
           NEW id \in BOOLEAN, NEW name \in {<<>>, meant.calls[i].name}, ~id => name = <<>>
    PROVE  <<Spot(WholeText, i, Full(i), 0), OfCall(type, i, id, name, Arguments(i)),
             Spot(WholeText, i, Full(i), 0)>> \in Moves
<1> DEFINE f == OfCall(type, i, id, name, Arguments(i))
           p == Spot(WholeText, i, Full(i), 0)
<1>1. f \in Frames /\ OfOneCall(f) /\ f.no = i /\ f.text = Arguments(i)
  <2> DEFINE text == Arguments(i)
  <2>1. text \in Sayings
    BY CallParts
  <2> HIDE DEF text
  <2>2. CallFrame(OfCall(type, i, id, name, text), i, id, name, text)
    BY <2>1, CallFrameMade
  <2>3. QED
    BY <2>2 DEF CallFrame, text
<1>2. SpotAt(p, WholeText, i, Full(i))
  <2>1. i \in 0..Len(meant.calls) /\ Full(i) \in 0..Full(i)
    BY FullParts, MeantParts
  <2>2. QED
    BY <2>1, CallSpot
<1> HIDE DEF f, p
<1>3. p \in Points /\ p.end = 0 /\ p.call = i /\ p.piece = Full(i)
  BY <1>2 DEF SpotAt
<1>4. Repeated(p, f, p)
  BY <1>1, <1>3 DEF Repeated
<1>5. Leads(p, f, p)
  BY <1>1, <1>3, <1>4 DEF Leads, Tells
<1>6. <<p, f, p>> \in Moves
  BY <1>1, <1>3, <1>5, MoveMade
<1>7. QED
  BY <1>6 DEF p, f

LEMMA PieceMove ==
    ASSUME api \in Kinds, meant \in Meant, api.stream, NEW i \in 1..Len(meant.calls), NEW type \in CallTypes,
           NEW id \in BOOLEAN, NEW name \in {<<>>, meant.calls[i].name}, ~id => name = <<>>,
           NEW k \in 1..Full(i)
    PROVE  <<Spot(WholeText, i, k - 1, 0), OfCall(type, i, id, name, meant.calls[i].frags[k]),
             Spot(WholeText, i, k, 0)>> \in Moves
<1> DEFINE text == meant.calls[i].frags[k]
           f == OfCall(type, i, id, name, text)
           p == Spot(WholeText, i, k - 1, 0)
           q == Spot(WholeText, i, k, 0)
<1>1. /\ Full(i) \in Nat /\ k \in 0..Full(i) /\ k - 1 \in 0..Full(i) /\ (k - 1) + 1 = k /\ k - 1 < Full(i)
      /\ i \in 0..Len(meant.calls)
  BY FullParts, MeantParts
<1>2. f \in Frames /\ OfOneCall(f) /\ f.no = i /\ f.text = text
  <2>1. text \in Sayings
    BY FullParts, PiecesParts
  <2> HIDE DEF text
  <2>2. CallFrame(OfCall(type, i, id, name, text), i, id, name, text)
    BY <2>1, CallFrameMade
  <2>3. QED
    BY <2>2 DEF CallFrame, text
<1>3. SpotAt(q, WholeText, i, k)
  BY <1>1, CallSpot
<1>4. SpotAt(p, WholeText, i, k - 1)
  <2> DEFINE j == k - 1
  <2>1. j \in 0..Full(i)
    BY <1>1
  <2> HIDE DEF j
  <2>2. SpotAt(Spot(WholeText, i, j, 0), WholeText, i, j)
    BY <1>1, <2>1, CallSpot
  <2>3. QED
    BY <2>2 DEF j
<1> HIDE DEF f, p, q
<1>5. /\ p \in Points /\ q \in Points /\ q.text = p.text /\ q.end = p.end /\ q.call = i /\ q.piece = k
      /\ p.end = 0 /\ p.call = i /\ p.piece = k - 1
  BY <1>3, <1>4 DEF SpotAt
<1>6. q = [p EXCEPT !.piece = p.piece + 1]
  <2>1. q = [p EXCEPT !.piece = q.piece]
    BY <1>5, SpotsFurther
  <2>2. q.piece = p.piece + 1
    BY <1>1, <1>5
  <2>3. QED
    BY <2>1, <2>2
<1>7. GoesOn(p, f, q)
  <2>1. p.piece + 1 = k /\ p.piece < Full(f.no) /\ f.text = meant.calls[f.no].frags[k]
    BY <1>1, <1>2, <1>5
  <2>2. QED
    BY <1>2, <1>5, <1>6, <2>1 DEF GoesOn
<1>8. Leads(p, f, q)
  BY <1>2, <1>5, <1>7 DEF Leads, Tells
<1>9. <<p, f, q>> \in Moves
  BY <1>2, <1>5, <1>8, MoveMade
<1>10. QED
  BY <1>9 DEF p, f, q

Pieces(type, i, id, name) ==
    [k \in DOMAIN meant.calls[i].frags |-> OfCall(type, i, id, name, meant.calls[i].frags[k])]

LEMMA PiecesPath ==
    ASSUME api \in Kinds, meant \in Meant, api.stream, NEW i \in 1..Len(meant.calls), NEW type \in CallTypes,
           NEW id \in BOOLEAN, NEW name \in {<<>>, meant.calls[i].name}, ~id => name = <<>>
    PROVE  /\ Pieces(type, i, id, name) \in Seq(Frames)
           /\ Path(Points, Moves, Pieces(type, i, id, name),
                   Spot(WholeText, i, 0, 0), Spot(WholeText, i, Full(i), 0))
<1> DEFINE n == Full(i)
           F == Frames
           frags == meant.calls[i].frags
           s == Pieces(type, i, id, name)
           by == [k \in 0..n |-> Spot(WholeText, i, k, 0)]
<1>1. n \in Nat /\ n = Len(frags) /\ i \in 0..Len(meant.calls)
  BY FullParts, MeantParts
<1>2. DOMAIN frags = 1..n
  <2>1. frags \in Seq(Words)
    BY MeantParts
  <2> HIDE DEF frags, n, Words
  <2>2. QED
    BY <1>1, <2>1, LenProperties
<1>3. ASSUME NEW k \in 0..n PROVE by[k] \in Points
  <2>1. by[k] = Spot(WholeText, i, k, 0)
    OBVIOUS
  <2>2. SpotAt(Spot(WholeText, i, k, 0), WholeText, i, k)
    BY <1>1, CallSpot
  <2>3. QED
    BY <2>1, <2>2 DEF SpotAt
<1>4. by \in [0..n -> Points]
  BY <1>3
<1>5. ASSUME NEW k \in 1..n
      PROVE  s[k] \in F /\ <<by[k - 1], s[k], by[k]>> \in Moves
  <2>1. k \in 0..n /\ k - 1 \in 0..n
    BY <1>1
  <2>2. s[k] = OfCall(type, i, id, name, frags[k])
    BY <1>2 DEF Pieces
  <2>3. by[k - 1] = Spot(WholeText, i, k - 1, 0) /\ by[k] = Spot(WholeText, i, k, 0)
    BY <2>1
  <2> HIDE DEF s, by
  <2>4. <<Spot(WholeText, i, k - 1, 0), OfCall(type, i, id, name, meant.calls[i].frags[k]),
          Spot(WholeText, i, k, 0)>> \in Moves
    BY PieceMove
  <2>5. <<by[k - 1], s[k], by[k]>> \in Moves
    BY <2>2, <2>3, <2>4
  <2>6. QED
    BY <2>5 DEF Moves
<1>6. s = [k \in 1..n |-> s[k]]
  <2>1. s = [k \in 1..n |-> OfCall(type, i, id, name, frags[k])]
    BY <1>2 DEF Pieces
  <2> HIDE DEF s
  <2>2. QED
    BY <2>1
<1> HIDE DEF n, s, by, F, frags
<1>7. s \in Seq(F) /\ Len(s) = n
  <2> DEFINE r == [k \in 1..n |-> s[k]]
  <2>1. r \in [1..n -> F]
    BY <1>5
  <2>2. r \in Seq(F) /\ Len(r) = n
    BY <1>1, <2>1
  <2>3. s = r
    BY <1>6
  <2> HIDE DEF r
  <2>4. QED
    BY <2>2, <2>3
<1>8. Path(Points, Moves, s, by[0], by[n])
  <2>1. by \in [0..Len(s) -> Points] /\ \A k \in 1..Len(s) : <<by[k - 1], s[k], by[k]>> \in Moves
    BY <1>4, <1>5, <1>7
  <2>2. Path(Points, Moves, s, by[0], by[Len(s)])
    BY <1>7, <2>1, PathOver
  <2>3. QED
    BY <1>7, <2>2
<1>9. by[0] = Spot(WholeText, i, 0, 0) /\ by[n] = Spot(WholeText, i, n, 0)
  <2>1. 0 \in 0..n /\ n \in 0..n
    BY <1>1
  <2>2. QED
    BY <2>1 DEF by
<1>10. QED
  BY <1>7, <1>8, <1>9 DEF s, F, n

\* A move is a path.
LEMMA MovePath ==
    ASSUME NEW p, NEW f, NEW q, <<p, f, q>> \in Moves
    PROVE  <<f>> \in Seq(Frames) /\ Path(Points, Moves, <<f>>, p, q)
<1>1. p \in Points /\ f \in Frames /\ q \in Points
  BY DEF Moves
<1>2. <<f>> \in Seq(Frames)
  BY <1>1
<1>3. QED
  BY <1>1, <1>2, PathOne

LEMMA ChatCallPath ==
    ASSUME api \in Kinds, meant \in Meant, api.stream, api.kind = "chat", NEW i \in 1..Len(meant.calls)
    PROVE  Path(Points, Moves, ChatCall(i),
                Spot(WholeText, i - 1, Full(i - 1), 0), Spot(WholeText, i, Full(i), 0))
<1> DEFINE every == api.every
           name == IF every THEN meant.calls[i].name ELSE <<>>
           opens == <<OfCall("call", i, TRUE, meant.calls[i].name, <<>>)>>
           s == Pieces("call", i, every, name)
           p == Spot(WholeText, i - 1, Full(i - 1), 0)
           q == Spot(WholeText, i, 0, 0)
           r == Spot(WholeText, i, Full(i), 0)
           F == Frames
           P == Points
           G == Moves
<1>1. "call" \in CallTypes /\ every \in BOOLEAN /\ name \in {<<>>, meant.calls[i].name} /\ (~every => name = <<>>)
  BY DEF CallTypes, Kinds
<1>2. ChatCall(i) = opens \o s
  BY DEF ChatCall, Pieces
<1>3. opens \in Seq(F) /\ Path(P, G, opens, p, q)
  <2>1. <<p, OfCall("call", i, TRUE, meant.calls[i].name, <<>>), q>> \in Moves
    BY <1>1, OpenMove
  <2> DEFINE f == OfCall("call", i, TRUE, meant.calls[i].name, <<>>)
  <2> HIDE DEF p, q, f
  <2>2. <<p, f, q>> \in Moves
    BY <2>1 DEF f
  <2>3. <<f>> \in Seq(Frames) /\ Path(Points, Moves, <<f>>, p, q)
    BY <2>2, MovePath
  <2>4. QED
    BY <2>3 DEF f
<1> HIDE DEF opens, p, every, name
<1>4. s \in Seq(F) /\ Path(P, G, s, q, r)
  BY <1>1, PiecesPath
<1> HIDE DEF s, q, r, P, G, F
<1>5. Path(P, G, opens \o s, p, r)
  BY <1>3, <1>4, PathTwo
<1>6. QED
  BY <1>2, <1>5 DEF P, G, p, r

LEMMA ResponsesCallPath ==
    ASSUME api \in Kinds, meant \in Meant, api.stream, api.kind = "responses", NEW i \in 1..Len(meant.calls)
    PROVE  Path(Points, Moves, ResponsesCall(i),
                Spot(WholeText, i - 1, Full(i - 1), 0), Spot(WholeText, i, Full(i), 0))
<1> DEFINE every == api.every
           name == meant.calls[i].name
           f == OfCall("item", i, TRUE, name, <<>>)
           s == Pieces("delta", i, every, <<>>)
           g == OfCall("done", i, every, <<>>, Arguments(i))
           h == OfCall("item", i, TRUE, name, Arguments(i))
           p == Spot(WholeText, i - 1, Full(i - 1), 0)
           q == Spot(WholeText, i, 0, 0)
           r == Spot(WholeText, i, Full(i), 0)
           F == Frames
           P == Points
           G == Moves
<1>1. {"item", "delta", "done"} \subseteq CallTypes /\ every \in BOOLEAN
  BY DEF CallTypes, Kinds
<1>2. ResponsesCall(i) = <<f>> \o s \o <<g, h>>
  BY DEF ResponsesCall, Pieces
<1>3. <<p, f, q>> \in G
  BY <1>1, OpenMove
<1>4. <<r, g, r>> \in G
  <2> DEFINE none == <<>>
             type == "done"
  <2>1. none \in {<<>>, meant.calls[i].name} /\ (~every => none = <<>>) /\ type \in CallTypes
    BY <1>1
  <2> HIDE DEF none, every, type
  <2>2. <<Spot(WholeText, i, Full(i), 0), OfCall(type, i, every, none, Arguments(i)),
          Spot(WholeText, i, Full(i), 0)>> \in Moves
    BY <1>1, <2>1, AgainMove
  <2>3. QED
    BY <2>2 DEF none, every, type
<1>5. <<r, h, r>> \in G
  <2> DEFINE id == TRUE
             type == "item"
  <2>1. name \in {<<>>, meant.calls[i].name} /\ (~id => name = <<>>) /\ type \in CallTypes /\ id \in BOOLEAN
    BY <1>1
  <2> HIDE DEF name, id, type
  <2>2. <<Spot(WholeText, i, Full(i), 0), OfCall(type, i, id, name, Arguments(i)),
          Spot(WholeText, i, Full(i), 0)>> \in Moves
    BY <2>1, AgainMove
  <2>3. QED
    BY <2>2 DEF name, id, type
<1>6. s \in Seq(F) /\ Path(P, G, s, q, r)
  <2> DEFINE none == <<>>
             type == "delta"
  <2>1. none \in {<<>>, meant.calls[i].name} /\ (~every => none = <<>>) /\ type \in CallTypes
    BY <1>1
  <2> HIDE DEF none, every, type
  <2>2. /\ Pieces(type, i, every, none) \in Seq(Frames)
        /\ Path(Points, Moves, Pieces(type, i, every, none),
                Spot(WholeText, i, 0, 0), Spot(WholeText, i, Full(i), 0))
    BY <1>1, <2>1, PiecesPath
  <2>3. QED
    BY <2>2 DEF none, every, type
<1>7. f \in F /\ g \in F /\ h \in F
  <2> HIDE DEF f, g, h, p, q, r
  <2>1. QED
    BY <1>3, <1>4, <1>5 DEF Moves
<1> HIDE DEF f, g, h, s, p, q, r
<1>8. /\ <<f>> \in Seq(F) /\ Path(P, G, <<f>>, p, q)
      /\ <<g>> \in Seq(F) /\ Path(P, G, <<g>>, r, r)
      /\ <<h>> \in Seq(F) /\ Path(P, G, <<h>>, r, r)
  BY <1>3, <1>4, <1>5, MovePath
<1> DEFINE a == <<f>>
           b == <<g>>
           c == <<h>>
<1>9. /\ a \in Seq(F) /\ Path(P, G, a, p, q)
      /\ b \in Seq(F) /\ Path(P, G, b, r, r)
      /\ c \in Seq(F) /\ Path(P, G, c, r, r)
  BY <1>8
<1> HIDE DEF a, b, c, P, G, F
<1>10. a \o s \in Seq(F) /\ Path(P, G, a \o s, p, r)
  BY <1>6, <1>9, PathTwo
<1>11. (a \o s) \o b \in Seq(F) /\ Path(P, G, (a \o s) \o b, p, r)
  BY <1>9, <1>10, PathTwo
<1>12. Path(P, G, ((a \o s) \o b) \o c, p, r)
  BY <1>9, <1>11, PathTwo
<1>13. (a \o s) \o <<g, h>> = ((a \o s) \o b) \o c
  <2> DEFINE d == a \o s
  <2>1. d \in Seq(F)
    BY <1>10
  <2> HIDE DEF d
  <2>2. d \o <<g, h>> = (d \o <<g>>) \o <<h>>
    BY <1>7, <2>1, TwoMore
  <2>3. QED
    BY <2>2 DEF d, b, c
<1>14. QED
  BY <1>2, <1>12, <1>13 DEF P, G, p, r, a

\* The calls, one after the other.
LEMMA CallsPath ==
    ASSUME api \in Kinds, meant \in Meant, NEW s, NEW n \in Nat, n = Len(meant.calls),
           s \in Seq(Seq(Frames)), Len(s) = n,
           \A i \in 1..n : Path(Points, Moves, s[i], Spot(WholeText, i - 1, Full(i - 1), 0),
                                Spot(WholeText, i, Full(i), 0))
    PROVE  Path(Points, Moves, FlattenSeq(s), Spot(WholeText, 0, 0, 0), Spot(WholeText, n, Full(n), 0))
<1> DEFINE by == [i \in 0..n |-> Spot(WholeText, i, Full(i), 0)]
           F == Frames
<1>1. ASSUME NEW i \in 0..n PROVE by[i] \in Points
  <2>1. Full(i) \in 0..Full(i)
    <3>1. i = 0 \/ i \in 1..Len(meant.calls)
      OBVIOUS
    <3>2. Full(i) \in Nat
      <4>1. CASE i = 0
        BY <4>1 DEF Full
      <4>2. CASE i \in 1..Len(meant.calls)
        BY <4>2, FullParts
      <4>3. QED
        BY <3>1, <4>1, <4>2
    <3>3. QED
      BY <3>2
  <2>2. SpotAt(Spot(WholeText, i, Full(i), 0), WholeText, i, Full(i))
    BY <2>1, CallSpot
  <2>3. by[i] = Spot(WholeText, i, Full(i), 0)
    OBVIOUS
  <2>4. QED
    BY <2>2, <2>3 DEF SpotAt
<1>2. by \in [0..n -> Points]
  BY <1>1
<1>3. ASSUME NEW i \in 1..n PROVE Path(Points, Moves, s[i], by[i - 1], by[i])
  <2>1. i \in 0..n /\ i - 1 \in 0..n
    OBVIOUS
  <2>2. by[i - 1] = Spot(WholeText, i - 1, Full(i - 1), 0) /\ by[i] = Spot(WholeText, i, Full(i), 0)
    BY <2>1
  <2> HIDE DEF by
  <2>3. QED
    BY <2>2
<1>4. Path(Points, Moves, FlattenSeq(s), by[0], by[n])
  <2> HIDE DEF by, F
  <2>1. by \in [0..Len(s) -> Points] /\ \A i \in 1..Len(s) : Path(Points, Moves, s[i], by[i - 1], by[i])
    BY <1>2, <1>3
  <2>2. s \in Seq(Seq(F))
    BY DEF F
  <2>3. Path(Points, Moves, FlattenSeq(s), by[0], by[Len(s)])
    BY <2>1, <2>2, PathFlatten
  <2>4. QED
    BY <2>3
<1>5. by[0] = Spot(WholeText, 0, 0, 0) /\ by[n] = Spot(WholeText, n, Full(n), 0)
  <2>1. 0 \in 0..n /\ n \in 0..n /\ Full(0) = 0
    BY DEF Full
  <2>2. QED
    BY <2>1
<1>6. QED
  BY <1>4, <1>5

LEMMA ChatCalls ==
    ASSUME api \in Kinds, meant \in Meant, api.stream, api.kind = "chat"
    PROVE  LET n == Len(meant.calls) IN
           /\ AllCalls(ChatCall) \in Seq(Frames)
           /\ Path(Points, Moves, AllCalls(ChatCall), Spot(WholeText, 0, 0, 0), Spot(WholeText, n, Full(n), 0))
<1> DEFINE n == Len(meant.calls)
           R == Seq(Frames)
           s == [i \in DOMAIN meant.calls |-> ChatCall(i)]
<1>1. n \in Nat /\ DOMAIN meant.calls = 1..n
  BY MeantParts
<1>2. \A i \in 1..n : ChatCall(i) \in R
  BY CallMade
<1>3. s = [i \in 1..n |-> ChatCall(i)]
  BY <1>1
<1>4. AllCalls(ChatCall) = FlattenSeq(s)
  BY DEF AllCalls
<1>5. ASSUME NEW i \in 1..n
      PROVE  Path(Points, Moves, ChatCall(i), Spot(WholeText, i - 1, Full(i - 1), 0),
                  Spot(WholeText, i, Full(i), 0))
  BY ChatCallPath
<1> HIDE DEF s, R
<1>6. s \in Seq(R) /\ Len(s) = n /\ \A i \in 1..n : s[i] = ChatCall(i)
  <2> HIDE DEF n
  <2>1. QED
    BY <1>1, <1>2, <1>3
<1>7. FlattenSeq(s) \in R
  BY <1>6, FlattenTyped DEF R
<1>8. Path(Points, Moves, FlattenSeq(s), Spot(WholeText, 0, 0, 0), Spot(WholeText, n, Full(n), 0))
  <2> HIDE DEF n
  <2>1. \A i \in 1..n : Path(Points, Moves, s[i], Spot(WholeText, i - 1, Full(i - 1), 0),
                             Spot(WholeText, i, Full(i), 0))
    BY <1>5, <1>6
  <2>2. s \in Seq(Seq(Frames)) /\ n = Len(meant.calls)
    BY <1>6 DEF R, n
  <2>3. QED
    BY <1>1, <1>6, <2>1, <2>2, CallsPath
<1>9. QED
  BY <1>4, <1>7, <1>8 DEF R

LEMMA ResponsesCalls ==
    ASSUME api \in Kinds, meant \in Meant, api.stream, api.kind = "responses"
    PROVE  LET n == Len(meant.calls) IN
           /\ AllCalls(ResponsesCall) \in Seq(Frames)
           /\ Path(Points, Moves, AllCalls(ResponsesCall),
                   Spot(WholeText, 0, 0, 0), Spot(WholeText, n, Full(n), 0))
<1> DEFINE n == Len(meant.calls)
           R == Seq(Frames)
           s == [i \in DOMAIN meant.calls |-> ResponsesCall(i)]
<1>1. n \in Nat /\ DOMAIN meant.calls = 1..n
  BY MeantParts
<1>2. \A i \in 1..n : ResponsesCall(i) \in R
  BY CallMade
<1>3. s = [i \in 1..n |-> ResponsesCall(i)]
  BY <1>1
<1>4. AllCalls(ResponsesCall) = FlattenSeq(s)
  BY DEF AllCalls
<1>5. ASSUME NEW i \in 1..n
      PROVE  Path(Points, Moves, ResponsesCall(i), Spot(WholeText, i - 1, Full(i - 1), 0),
                  Spot(WholeText, i, Full(i), 0))
  BY ResponsesCallPath
<1> HIDE DEF s, R
<1>6. s \in Seq(R) /\ Len(s) = n /\ \A i \in 1..n : s[i] = ResponsesCall(i)
  <2> HIDE DEF n
  <2>1. QED
    BY <1>1, <1>2, <1>3
<1>7. FlattenSeq(s) \in R
  BY <1>6, FlattenTyped DEF R
<1>8. Path(Points, Moves, FlattenSeq(s), Spot(WholeText, 0, 0, 0), Spot(WholeText, n, Full(n), 0))
  <2> HIDE DEF n
  <2>1. \A i \in 1..n : Path(Points, Moves, s[i], Spot(WholeText, i - 1, Full(i - 1), 0),
                             Spot(WholeText, i, Full(i), 0))
    BY <1>5, <1>6
  <2>2. s \in Seq(Seq(Frames)) /\ n = Len(meant.calls)
    BY <1>6 DEF R, n
  <2>3. QED
    BY <1>1, <1>6, <2>1, <2>2, CallsPath
<1>9. QED
  BY <1>4, <1>7, <1>8 DEF R

LEMMA MessagesMade ==
    ASSUME api \in Kinds, meant \in Meant
    PROVE  AllMessages(Deltas) \in Seq(Frames) /\ AllMessages(ResponsesMessage) \in Seq(Frames)
<1> DEFINE m == Len(Messages)
           R == Seq(Frames)
           s == [i \in DOMAIN Messages |-> Deltas(Messages[i])]
           t == [i \in DOMAIN Messages |-> ResponsesMessage(Messages[i])]
<1>1. m \in Nat /\ DOMAIN Messages = 1..m /\ \A i \in 1..m : Messages[i] \in Words
  BY MeantParts DEF Messages
<1>2. \A i \in 1..m : Deltas(Messages[i]) \in R /\ ResponsesMessage(Messages[i]) \in R
  BY <1>1, DeltasMade
<1>3. AllMessages(Deltas) = FlattenSeq(s) /\ AllMessages(ResponsesMessage) = FlattenSeq(t)
  BY DEF AllMessages, Messages
<1>4. s \in Seq(R) /\ t \in Seq(R)
  <2>1. s = [i \in 1..m |-> Deltas(Messages[i])] /\ t = [i \in 1..m |-> ResponsesMessage(Messages[i])]
    BY <1>1
  <2> HIDE DEF R, s, t, m
  <2>2. QED
    BY <1>1, <1>2, <2>1
<1> HIDE DEF s, t
<1>5. QED
  BY <1>3, <1>4, FlattenTyped

\* The end.
LEMMA EndSpot ==
    ASSUME api \in Kinds, meant \in Meant, NEW e \in 0..2
    PROVE  LET p == Spot(WholeText, Len(meant.calls), Full(Len(meant.calls)), e) IN
           p \in Points /\ Done(p) /\ p.end = e
<1> DEFINE n == Len(meant.calls)
           p == Spot(WholeText, n, Full(n), e)
<1>1. p = [text |-> WholeText, call |-> n, piece |-> Full(n), end |-> e]
  BY DEF Spot
<1>2. n \in Nat /\ Full(n) \in Nat
  <2>1. n \in Nat /\ (n = 0 \/ n \in 1..n)
    BY MeantParts
  <2>2. Full(n) \in Nat
    <3>1. CASE n = 0
      BY <3>1 DEF Full
    <3>2. CASE n \in 1..n
      BY <3>2, FullParts
    <3>3. QED
      BY <2>1, <3>1, <3>2
  <2>3. QED
    BY <2>1, <2>2
<1>3. p.text = WholeText /\ p.call = n /\ p.piece = Full(n) /\ p.end = e
  BY <1>1
<1>4. WholeText \in Sayings /\ Follows(WholeText)
  BY WholeFollows
<1>5. p \in Spots
  <2> HIDE DEF p, n
  <2>1. QED
    BY <1>1, <1>2, <1>4 DEF Spots
<1> HIDE DEF p
<1>6. Done(p)
  BY <1>3 DEF Done
<1>7. p \in Points
  BY <1>2, <1>3, <1>4, <1>5, <1>6 DEF Points
<1>8. QED
  BY <1>3, <1>6, <1>7 DEF p, n

\* The frame of an end.
LEMMA CloseMove ==
    ASSUME api \in Kinds, NEW type \in FrameTypes, NEW p \in Points, NEW q \in Points,
           \A f : f.type = type => Closes(p, f, q)
    PROVE  <<p, Whisper(type), q>> \in Moves
<1>1. Whisper(type) \in Frames /\ Whisper(type).type = type
  BY FramesMade
<1>2. Closes(p, Whisper(type), q)
  BY <1>1
<1>3. Leads(p, Whisper(type), q)
  BY <1>2 DEF Leads
<1>4. QED
  BY <1>1, <1>3, MoveMade

\* The first point and the last.
LEMMA EndPoints ==
    ASSUME api \in Kinds, meant \in Meant
    PROVE  Beginning \in Points /\ Ending \in Points
<1>1. Ending \in Points
  <2> DEFINE e == 2
  <2>1. e \in 0..2
    OBVIOUS
  <2> HIDE DEF e
  <2>2. Spot(WholeText, Len(meant.calls), Full(Len(meant.calls)), e) \in Points
    BY <2>1, EndSpot
  <2>3. QED
    BY <2>2 DEF e, Ending
<1>2. Beginning \in Points
  <2>1. /\ FlattenSeq(Messages) \in Sayings /\ Len(Messages) \in Nat
        /\ \A i \in 1..Len(Messages) : Messages[i] \in Sayings
    <3>1. Messages \in Seq(Sayings)
      BY MeantSayings DEF Messages
    <3>2. QED
      BY <3>1, MessagesParts
  <2>2. <<>> \in Sayings /\ \A x \in Sayings : IsPrefix(<<>>, x)
    <3>1. <<>> \in Sayings
      BY EmptySeq DEF Sayings
    <3>2. ASSUME NEW x \in Sayings PROVE IsPrefix(<<>>, x)
      BY <3>2 DEF IsPrefix, Sayings
    <3>3. QED
      BY <3>1, <3>2
  <2>3. Follows(<<>>)
    <3>1. CASE api.kind = "chat"
      BY <2>1, <2>2, <3>1 DEF Follows
    <3>2. CASE api.kind = "responses"
      <4>1. 0 \in 0..Len(Messages)
        BY <2>1
      <4>2. <<>> \in Sayings /\ Follows(IF 0 = 0 THEN <<>> ELSE Messages[0])
        BY <3>2, <4>1, ResponseFollows
      <4>3. QED
        BY <4>2
    <3>3. QED
      BY <3>1, <3>2 DEF Kinds
  <2>4. 0 \in 0..Len(meant.calls) /\ 0 \in 0..Full(0)
    BY MeantParts DEF Full
  <2> DEFINE t == <<>>
             n == 0
  <2>5. t \in Sayings /\ Follows(t) /\ n \in 0..Len(meant.calls) /\ n \in 0..Full(n)
    BY <2>2, <2>3, <2>4
  <2> HIDE DEF t, n
  <2>6. SpotAt(Spot(t, n, n, 0), t, n, n)
    BY <2>5, PointMade
  <2>7. Spot(t, n, n, 0) \in Points
    BY <2>6 DEF SpotAt
  <2>8. QED
    BY <2>7 DEF Beginning, t, n
<1>3. QED
  BY <1>1, <1>2

\* Of the end of an answer: the frames of chat completions.
LEMMA ChatEnd ==
    ASSUME api \in Kinds, meant \in Meant, api.stream, api.kind = "chat"
    PROVE  LET n == Len(meant.calls)
               s == <<Whisper("finish"), Whisper("usage"), Whisper("[DONE]")>>
           IN  s \in Seq(Frames) /\ Path(Points, Moves, s, Spot(WholeText, n, Full(n), 0), Ending)
<1> DEFINE n == Len(meant.calls)
           p == Spot(WholeText, n, Full(n), 0)
           r == Spot(WholeText, n, Full(n), 1)
           q == Ending
           f == Whisper("finish")
           g == Whisper("usage")
           h == Whisper("[DONE]")
           P == Points
           G == Moves
           F == Frames
<1>1. /\ p \in Points /\ Done(p) /\ p.end = 0
      /\ r \in Points /\ Done(r) /\ r.end = 1
      /\ q \in Points /\ Done(q) /\ q.end = 2
  <2> DEFINE zero == 0
             one == 1
             two == 2
  <2>1. zero \in 0..2 /\ one \in 0..2 /\ two \in 0..2
    OBVIOUS
  <2> HIDE DEF zero, one, two
  <2>2. \A e \in {zero, one, two} :
          LET x == Spot(WholeText, Len(meant.calls), Full(Len(meant.calls)), e) IN
          x \in Points /\ Done(x) /\ x.end = e
    BY <2>1, EndSpot
  <2>3. QED
    BY <2>2 DEF zero, one, two, Ending
<1>2. r = [p EXCEPT !.end = 1]
  BY DEF Spot
<1> HIDE DEF p, r, n
<1>3. <<p, f, r>> \in G
  <2>1. \A x : x.type = "finish" => Closes(p, x, r)
    BY <1>1, <1>2 DEF Closes
  <2>2. "finish" \in FrameTypes
    BY DEF FrameTypes
  <2>3. QED
    BY <1>1, <2>1, <2>2, CloseMove
<1>4. <<r, g, q>> \in G
  <2>1. \A x : x.type = "usage" => Closes(r, x, q)
    BY <1>1 DEF Closes
  <2>2. "usage" \in FrameTypes
    BY DEF FrameTypes
  <2>3. QED
    BY <1>1, <2>1, <2>2, CloseMove
<1>5. <<q, h, q>> \in G
  <2>1. \A x : x.type = "[DONE]" => Closes(q, x, q)
    BY <1>1 DEF Closes
  <2>2. "[DONE]" \in FrameTypes
    BY DEF FrameTypes
  <2>3. QED
    BY <1>1, <2>1, <2>2, CloseMove
<1> HIDE DEF f, g, h, q
<1> DEFINE a == <<f>>
           b == <<g>>
           c == <<h>>
<1>6. /\ a \in Seq(F) /\ Path(P, G, a, p, r)
      /\ b \in Seq(F) /\ Path(P, G, b, r, q)
      /\ c \in Seq(F) /\ Path(P, G, c, q, q)
  BY <1>3, <1>4, <1>5, MovePath
<1>7. <<f, g, h>> = (a \o b) \o c
  <2>1. f \in F /\ g \in F /\ h \in F
    BY <1>3, <1>4, <1>5 DEF Moves
  <2> HIDE DEF F
  <2>2. QED
    BY <2>1, ThreeJoin
<1> HIDE DEF a, b, c, P, G, F
<1>8. a \o b \in Seq(F) /\ Path(P, G, a \o b, p, q)
  BY <1>6, PathTwo
<1>9. (a \o b) \o c \in Seq(F) /\ Path(P, G, (a \o b) \o c, p, q)
  BY <1>6, <1>8, PathTwo
<1>10. QED
  BY <1>7, <1>9 DEF P, G, F, p, q, n, f, g, h

\* Of a response, and of an answer in one body.
LEMMA ResponseEnd ==
    ASSUME api \in Kinds, meant \in Meant, api.stream, api.kind = "responses"
    PROVE  LET n == Len(meant.calls)
               s == <<Whisper("completed")>>
           IN  s \in Seq(Frames) /\ Path(Points, Moves, s, Spot(WholeText, n, Full(n), 0), Ending)
<1> DEFINE n == Len(meant.calls)
           p == Spot(WholeText, n, Full(n), 0)
<1>1. p \in Points /\ Done(p) /\ p.end = 0 /\ Ending \in Points
  <2> DEFINE zero == 0
  <2>1. zero \in 0..2
    OBVIOUS
  <2> HIDE DEF zero
  <2>2. LET x == Spot(WholeText, Len(meant.calls), Full(Len(meant.calls)), zero) IN
        x \in Points /\ Done(x) /\ x.end = zero
    BY <2>1, EndSpot
  <2>3. QED
    BY <2>2, EndPoints DEF zero
<1> HIDE DEF p, n
<1>2. \A x : x.type = "completed" => Closes(p, x, Ending)
  BY <1>1 DEF Closes
<1>3. "completed" \in FrameTypes
  BY DEF FrameTypes
<1>4. <<p, Whisper("completed"), Ending>> \in Moves
  BY <1>1, <1>2, <1>3, CloseMove
<1>5. QED
  BY <1>4, MovePath DEF p, n

LEMMA BodyPath ==
    ASSUME api \in Kinds, meant \in Meant, ~api.stream
    PROVE  Path(Points, Moves, <<Whisper("body")>>, Beginning, Ending)
<1>1. \A x : x.type = "body" => Closes(Beginning, x, Ending)
  BY DEF Closes
<1>2. "body" \in FrameTypes
  BY DEF FrameTypes
<1>3. <<Beginning, Whisper("body"), Ending>> \in Moves
  BY <1>1, <1>2, EndPoints, CloseMove
<1>4. QED
  BY <1>3, MovePath

\* The whole answer leads from the beginning to the end.
LEMMA StreamPath ==
    ASSUME api \in Kinds, meant \in Meant
    PROVE  Path(Points, Moves, Stream, Beginning, Ending)
<1> DEFINE n == Len(meant.calls)
           p == Spot(WholeText, 0, 0, 0)
           q == Spot(WholeText, n, Full(n), 0)
           P == Points
           G == Moves
           F == Frames
<1>1. CASE ~api.stream
  BY <1>1, BodyPath DEF Stream
<1>2. CASE api.stream /\ api.kind = "chat"
  <2> DEFINE s == AllMessages(Deltas)
             t == AllCalls(ChatCall)
             u == <<Whisper("finish"), Whisper("usage"), Whisper("[DONE]")>>
  <2>1. s \in Seq(F) /\ Path(P, G, s, Beginning, p)
    BY <1>2, MessagesMade, ChatMessages
  <2>2. t \in Seq(F) /\ Path(P, G, t, p, q)
    BY <1>2, ChatCalls
  <2>3. u \in Seq(F) /\ Path(P, G, u, q, Ending)
    BY <1>2, ChatEnd
  <2>4. Stream = s \o t \o u
    BY <1>2 DEF Stream
  <2> HIDE DEF s, t, u, p, q, P, G, F
  <2>5. s \o t \in Seq(F) /\ Path(P, G, s \o t, Beginning, q)
    BY <2>1, <2>2, PathTwo
  <2>6. Path(P, G, (s \o t) \o u, Beginning, Ending)
    BY <2>3, <2>5, PathTwo
  <2>7. QED
    BY <2>4, <2>6 DEF P, G
<1>3. CASE api.stream /\ api.kind = "responses"
  <2> DEFINE s == AllMessages(ResponsesMessage)
             t == AllCalls(ResponsesCall)
             u == <<Whisper("completed")>>
  <2>1. s \in Seq(F) /\ Path(P, G, s, Beginning, p)
    BY <1>3, MessagesMade, ResponseMessages
  <2>2. t \in Seq(F) /\ Path(P, G, t, p, q)
    BY <1>3, ResponsesCalls
  <2>3. u \in Seq(F) /\ Path(P, G, u, q, Ending)
    BY <1>3, ResponseEnd
  <2>4. Stream = s \o t \o u
    BY <1>3 DEF Stream
  <2> HIDE DEF s, t, u, p, q, P, G, F
  <2>5. s \o t \in Seq(F) /\ Path(P, G, s \o t, Beginning, q)
    BY <2>1, <2>2, PathTwo
  <2>6. Path(P, G, (s \o t) \o u, Beginning, Ending)
    BY <2>3, <2>5, PathTwo
  <2>7. QED
    BY <2>4, <2>6 DEF P, G
<1>4. QED
  BY <1>1, <1>2, <1>3 DEF Kinds

\* What goes unchanged with the answer and the interface.
LEMMA SameTexts ==
    ASSUME api' = api, meant' = meant
    PROVE  /\ WholeText' = WholeText
           /\ \A x : Follows(x)' <=> Follows(x)
           /\ \A j : Full(j)' = Full(j)
           /\ \A i : Arguments(i)' = Arguments(i)
<1>1. Messages' = Messages
  BY DEF Messages
<1>2. WholeText' = WholeText
  BY <1>1 DEF WholeText
<1>3. ASSUME NEW x PROVE Follows(x)' <=> Follows(x)
  BY <1>1 DEF Follows
<1>4. ASSUME NEW j PROVE Full(j)' = Full(j)
  BY DEF Full
<1>5. ASSUME NEW j PROVE Arguments(j)' = Arguments(j)
  BY DEF Arguments
<1>6. QED
  BY <1>2, <1>3, <1>4, <1>5

LEMMA SamePoints ==
    ASSUME api' = api, meant' = meant
    PROVE  Points' = Points /\ Ending' = Ending /\ Beginning' = Beginning
<1>1. ASSUME NEW p PROVE Done(p)' <=> Done(p)
  BY SameTexts DEF Done
<1>2. Points' = Points
  BY <1>1, SameTexts DEF Points
<1>3. QED
  BY <1>2, SameTexts DEF Ending, Beginning

LEMMA SameMoves ==
    ASSUME api' = api, meant' = meant
    PROVE  Moves' = Moves
<1>1. ASSUME NEW p, NEW f, NEW q PROVE Speaks(p, f, q)' <=> Speaks(p, f, q)
  BY DEF Speaks
<1>2. ASSUME NEW p, NEW f, NEW q PROVE Tells(p, f, q)' <=> Tells(p, f, q)
  <2>1. OfOneCall(f)' <=> OfOneCall(f)
    BY DEF OfOneCall
  <2>2. Announces(p, f, q)' <=> Announces(p, f, q)
    BY SameTexts DEF Announces
  <2>3. GoesOn(p, f, q)' <=> GoesOn(p, f, q)
    BY SameTexts DEF GoesOn
  <2>4. Repeated(p, f, q)' <=> Repeated(p, f, q)
    BY SameTexts DEF Repeated
  <2>5. QED
    BY <2>1, <2>2, <2>3, <2>4 DEF Tells
<1>3. ASSUME NEW p, NEW f, NEW q PROVE Closes(p, f, q)' <=> Closes(p, f, q)
  <2>1. Done(p)' <=> Done(p)
    BY SameTexts DEF Done
  <2>2. QED
    BY <2>1, SamePoints DEF Closes
<1>4. ASSUME NEW p, NEW f, NEW q PROVE Leads(p, f, q)' <=> Leads(p, f, q)
  BY <1>1, <1>2, <1>3 DEF Leads
<1>5. QED
  BY <1>4, SamePoints DEF Moves

\* The text of a frame that says something is as it was meant.
LEMMA LeadsSayings ==
    ASSUME meant \in Meant, NEW p \in Points, NEW f \in Frames, NEW q, Speaks(p, f, q) \/ Tells(p, f, q)
    PROVE  f.text \in Sayings
<1>1. CASE Speaks(p, f, q)
  BY <1>1 DEF Speaks
<1>2. CASE Tells(p, f, q)
  <2>1. OfOneCall(f) /\ (Announces(p, f, q) \/ GoesOn(p, f, q) \/ Repeated(p, f, q))
    BY <1>2 DEF Tells
  <2>2. f.no \in 1..Len(meant.calls)
    BY <2>1 DEF OfOneCall
  <2>3. CASE Announces(p, f, q)
    <3>1. <<>> \in Sayings
      BY EmptySeq DEF Sayings
    <3>2. QED
      BY <2>3, <3>1 DEF Announces
  <2>4. CASE GoesOn(p, f, q)
    <3>1. p.call = f.no /\ p.piece < Full(f.no) /\ f.text = meant.calls[f.no].frags[p.piece + 1]
      BY <2>4 DEF GoesOn
    <3>2. p.piece \in Nat /\ Full(f.no) = Len(meant.calls[f.no].frags) /\ Full(f.no) \in Nat
      BY <2>2, PointParts, FullParts
    <3>3. p.piece + 1 \in 1..Len(meant.calls[f.no].frags)
      BY <3>1, <3>2
    <3>4. \A k \in 1..Len(meant.calls[f.no].frags) : meant.calls[f.no].frags[k] \in Sayings
      BY <2>2, PiecesParts
    <3>5. QED
      BY <3>1, <3>3, <3>4
  <2>5. CASE Repeated(p, f, q)
    BY <2>2, <2>5, CallParts DEF Repeated
  <2>6. QED
    BY <2>1, <2>3, <2>4, <2>5
<1>3. QED
  BY <1>1, <1>2

\* Where a frame leads, and that it is no error.
LEMMA LeadsTypes ==
    ASSUME meant \in Meant, NEW p \in Points, NEW f, NEW q, Leads(p, f, q)
    PROVE  /\ f.type \notin {"error", "failed", "garbage", "break"}
           /\ f.type \in {"finish", "completed"} => q.end > 0
           /\ p.end > 0 => q.end > 0
<1> DEFINE end == p.end
           type == f.type
<1>1. CASE Speaks(p, f, q)
  <2>1. end = 0 /\ type \in {"text", "text_done", "message"}
    BY <1>1 DEF Speaks
  <2> HIDE DEF end, type
  <2>2. ~(end > 0) /\ type \notin {"error", "failed", "garbage", "break", "finish", "completed"}
    BY <2>1
  <2>3. QED
    BY <2>2 DEF end, type
<1>2. CASE Tells(p, f, q)
  <2>1. end = 0 /\ type \in {"call", "item", "delta", "done"}
    BY <1>2 DEF Tells, OfOneCall
  <2> HIDE DEF end, type
  <2>2. ~(end > 0) /\ type \notin {"error", "failed", "garbage", "break", "finish", "completed"}
    BY <2>1
  <2>3. QED
    BY <2>2 DEF end, type
<1>3. CASE Closes(p, f, q)
  <2> DEFINE one == [p EXCEPT !.end = 1]
             last == Ending
  <2>1. last.end = 2 /\ one.end = 1
    BY EndingParts, PointParts DEF Spots
  <2>2. \/ type = "finish" /\ q = one
        \/ type \in {"usage", "completed", "body"} /\ q = last
        \/ type = "[DONE]" /\ end = 2 /\ q = p
    BY <1>3 DEF Closes
  <2> HIDE DEF one, last, type
  <2>3. q.end > 0 /\ type \notin {"error", "failed", "garbage", "break"}
    BY <2>1, <2>2
  <2>4. QED
    BY <2>3 DEF type
<1>4. QED
  BY <1>1, <1>2, <1>3 DEF Leads

\* A frame on its way is read.
LEMMA FrameRead ==
    ASSUME api \in Kinds, meant \in Meant, NEW a \in Ordered, NEW p \in Points, NEW q \in Points,
           NEW f \in Frames, Leads(p, f, q), NEW g, g = f \/ ("garbled" \in harm /\ g = Garble(f)),
           AccAt(p, a), ~api.stream => a = Fresh
    PROVE  AccAt(q, Decode(a, g))
<1>1. g \in Frames /\ g.type = f.type
  BY FrameParts
<1>2. ASSUME Speaks(p, f, q) \/ Tells(p, f, q) PROVE ReadAs(f, g)
  <2>1. f.text \in Sayings
    BY <1>2, LeadsSayings
  <2>2. QED
    BY <2>1, ReadClean, ReadGarbled
<1>3. CASE Speaks(p, f, q)
  BY <1>2, <1>3, SpeaksRead
<1>4. CASE Tells(p, f, q)
  BY <1>2, <1>4, TellsRead
<1>5. CASE Closes(p, f, q)
  BY <1>1, <1>5, ClosesRead
<1>6. QED
  BY <1>3, <1>4, <1>5 DEF Leads

\* At the beginning nothing was read.
LEMMA FreshAt ==
    AccAt(Beginning, Fresh)
<1>1. Fresh.text = <<>> /\ Fresh.order = <<>> /\ Fresh.alias = <<>> /\ Fresh.calls = <<>>
  BY DEF Fresh
<1>2. <<>> \in Sayings
  BY EmptySeq DEF Sayings
<1>3. Clear(<<>>) = <<>> /\ Legible(<<>>)
  BY <1>2, TextLegible
<1>4. 1..0 = {}
  OBVIOUS
<1>5. Len(<<>>) = 0
  OBVIOUS
<1>6. Lined(Fresh, Sort, 0)
  BY <1>1, <1>4, <1>5 DEF Lined
<1>7. Under(Beginning, Fresh)
  BY <1>4, <1>6, EndingParts DEF Under
<1>8. QED
  BY <1>1, <1>3, <1>7, EndingParts DEF AccAt

\* What was read stays read: more harm makes less legible.
LEMMA AccSame ==
    ASSUME api' = api, meant' = meant, harm \subseteq harm', NEW p, NEW a, acc' = a, AccAt(p, a)
    PROVE  AccAt(p, acc)'
<1>1. Sort' = Sort
  BY DEF Sort
<1>2. ASSUME NEW x, Legible(x) PROVE Legible(x)'
  BY <1>2 DEF Legible
<1>3. ASSUME NEW q, NEW k, NEW x, Has(q, k, x) PROVE Has(q, k, x)'
  <2>1. meant'.calls[q].frags = meant.calls[q].frags
    OBVIOUS
  <2>2. Repeats(q)' <=> Repeats(q)
    BY DEF Repeats
  <2>3. Got(q, k, x)' <=> Got(q, k, x)
    BY <2>2, SameTexts DEF Got
  <2>4. SaidTwice(q, x)' <=> SaidTwice(q, x)
    BY <2>2, SameTexts DEF SaidTwice
  <2>5. Final(q, x)' <=> Final(q, x)
    <3>1. Got(q, Len(meant.calls[q].frags), x)' <=> Got(q, Len(meant.calls[q].frags), x)
      BY <2>2, SameTexts DEF Got
    <3>2. QED
      BY <2>4, <3>1 DEF Final
  <2>6. QED
    BY <1>2, <1>3, <2>3, <2>5, SameTexts DEF Has
<1>4. Lined(acc, Sort, p.call)' <=> Lined(a, Sort, p.call)
  BY <1>1 DEF Lined
<1>5. Under(p, a) => Under(p, acc)'
  <2> SUFFICES ASSUME Under(p, a) PROVE Under(p, acc)'
    OBVIOUS
  <2>1. Lined(acc, Sort, p.call)'
    BY <1>4 DEF Under
  <2>2. ASSUME NEW q \in 1..p.call
        PROVE  /\ acc'.calls[q].name = meant'.calls[q].name
               /\ Has(q, IF q = p.call THEN p.piece ELSE Full(q), acc.calls[q].args)'
    <3>k. PICK k : k = IF q = p.call THEN p.piece ELSE Full(q)
      OBVIOUS
    <3>x. PICK x : x = a.calls[q].args
      OBVIOUS
    <3>1. Has(q, k, x) /\ a.calls[q].name = meant.calls[q].name
      BY <3>k, <3>x DEF Under
    <3>2. k = (IF q = p.call THEN p.piece ELSE Full(q))' /\ x = acc'.calls[q].args
      BY <3>k, <3>x, SameTexts
    <3>3. Has(q, k, x)'
      BY <1>3, <3>1
    <3>4. QED
      BY <3>1, <3>2, <3>3
  <2>3. QED
    BY <2>1, <2>2 DEF Under
<1>6. Loose(acc)' <=> Loose(a)
  BY DEF Loose, Plainly
<1>7. QED
  BY <1>1, <1>2, <1>5, <1>6 DEF AccAt

LEMMA Unsaid ==
    ASSUME ~Answered'
    PROVE  CompleteAnswers' /\ CallsRunAsSent' /\ TextFollowsSent'
BY DEF CompleteAnswers, CallsRunAsSent, TextFollowsSent

LEMMA AnswerInit == SdInit => AnswerInv
<1> SUFFICES ASSUME SdInit PROVE AnswerInv
  OBVIOUS
<1>1. stage = "asked" /\ part = "none" /\ ~ending /\ ~Answered
  BY DEF SdInit, Answered
<1>2. QED
  BY <1>1 DEF AnswerInv, OnItsWay, Unread, CompleteAnswers, CallsRunAsSent, TextFollowsSent

\* What an answer says is kept while nothing is read.
LEMMA StillSaid ==
    ASSUME AnswerInv, UNCHANGED sdVars
    PROVE  AnswerInv'
<1>1. CompleteAnswers' /\ CallsRunAsSent' /\ TextFollowsSent'
  <2>1. \A i : (Mended(i)' <=> Mended(i)) /\ (Repeats(i)' <=> Repeats(i)) /\ Arguments(i)' = Arguments(i)
    BY DEF Mended, Repeats, Arguments, sdVars
  <2>2. CompleteAnswers'
    BY <2>1 DEF AnswerInv, CompleteAnswers, Answered, Messages, sdVars
  <2>3. CallsRunAsSent'
    BY <2>1 DEF AnswerInv, CallsRunAsSent, Answered, sdVars
  <2>4. TextFollowsSent'
    BY DEF AnswerInv, TextFollowsSent, Answered, Messages, sdVars
  <2>5. QED
    BY <2>2, <2>3, <2>4
<1>2. Unread'
  BY DEF AnswerInv, Unread, sdVars
<1>3. OnItsWay'
  <2> SUFFICES ASSUME stage = "reading" PROVE OnItsWay'
    BY DEF OnItsWay, sdVars
  <2>1. PICK p \in Points : Reached(p)
    BY DEF AnswerInv, OnItsWay
  <2>2. PICK a : acc' = a
    OBVIOUS
  <2>3. AccAt(p, acc)'
    BY <2>1, <2>2, AccSame DEF Reached, sdVars
  <2>4. Reached(p)'
    BY <2>1, <2>3, SamePoints, SameMoves DEF Reached, sdVars
  <2>5. Replaced'
    BY DEF AnswerInv, OnItsWay, Replaced, sdVars
  <2>6. QED
    BY <2>4, <2>5, SamePoints DEF AnswerInv, OnItsWay, sdVars
<1>4. QED
  BY <1>1, <1>2, <1>3 DEF AnswerInv

\* A step that leads to a point on the way.
LEMMA OnTheWay ==
    ASSUME DecodeInv, stage' = "reading", result' = result, stage # "ended",
           api' = api, meant' = meant,
           part' = "garbled" => "garbled" \in harm', Replaced', NEW p \in Points, Reached(p)'
    PROVE  AnswerInv'
<1>1. ~Answered'
  BY DEF DecodeInv, Unanswered, Answered
<1>2. OnItsWay'
  BY SamePoints DEF OnItsWay
<1>3. Unread'
  BY DEF Unread
<1>4. QED
  BY <1>1, <1>2, <1>3, Unsaid DEF AnswerInv

LEMMA AnswerRefuse == DecodeInv /\ AnswerInv /\ Refuse => AnswerInv'
<1> SUFFICES ASSUME DecodeInv, AnswerInv, Refuse PROVE AnswerInv'
  OBVIOUS
<1>1. PICK kind \in {"transport", "rate_limited", "http"} : Ends(kind, Fresh)
  BY DEF Refuse
<1>2. ~Answered' /\ stage' = "ended"
  BY <1>1 DEF Ends, Answered
<1>3. QED
  BY <1>2, Unsaid DEF AnswerInv, OnItsWay, Unread

LEMMA AnswerRespond == DecodeInv /\ AnswerInv /\ Respond => AnswerInv'
<1> SUFFICES ASSUME DecodeInv, AnswerInv, Respond PROVE AnswerInv'
  OBVIOUS
<1>1. /\ stage = "asked" /\ stage' = "reading" /\ wire' = Stream
      /\ UNCHANGED <<api, meant, part, acc, ending, refused, harm, result>>
  BY DEF Respond
<1>2. api \in Kinds /\ meant \in Meant /\ acc = Fresh /\ harm = {}
  BY <1>1 DEF DecodeInv, DecodeTypes, Untouched
<1>3. part = "none" /\ ~ending
  BY <1>1 DEF AnswerInv, Unread
<1>4. PICK p : p = Beginning
  OBVIOUS
<1>5. p \in Points /\ AccAt(p, acc) /\ Path(Points, Moves, Stream, p, Ending)
  BY <1>2, <1>4, EndPoints, FreshAt, StreamPath
<1>6. AccAt(p, acc)'
  <2>1. PICK a : acc' = a
    OBVIOUS
  <2>2. QED
    BY <1>1, <1>5, <2>1, AccSame
<1>7. Path(Points, Moves, wire, p, Ending)'
  BY <1>1, <1>5, SamePoints, SameMoves
<1>8. Reached(p)'
  BY <1>1, <1>3, <1>6, <1>7 DEF Reached
<1>9. Replaced'
  BY <1>1, <1>2 DEF Replaced
<1>10. QED
  BY <1>1, <1>3, <1>5, <1>8, <1>9, OnTheWay

LEMMA AnswerHarm ==
    ASSUME DecodeInv, AnswerInv, NEW kind \in Harms \ {"garbled"}, NEW frames \in Seq(Frames), Harm(kind, frames),
           Len(frames) <= 1,
           \A k \in 1..Len(frames) : \/ frames[k].type \in {"failed", "garbage", "break"}
                                     \/ frames[k].type = "error" /\ kind = "error"
    PROVE  AnswerInv'
<1>1. /\ stage = "reading" /\ stage' = "reading" /\ wire # <<>> /\ wire' = frames /\ part' = "none"
      /\ harm \subseteq {"garbled"} /\ harm' = harm \cup {kind}
      /\ UNCHANGED <<api, meant, acc, ending, refused, result>>
  BY DEF Harm
<1>2. PICK p \in Points : Reached(p)
  BY <1>1 DEF AnswerInv, OnItsWay
<1>3. AccAt(p, acc)'
  <2>1. PICK a : acc' = a
    OBVIOUS
  <2>2. harm \subseteq harm' /\ AccAt(p, a)
    BY <1>1, <1>2, <2>1 DEF Reached
  <2>3. QED
    BY <1>1, <2>1, <2>2, AccSame
<1>4. Reached(p)'
  BY <1>1, <1>2, <1>3 DEF Reached
<1>5. Replaced'
  BY <1>1 DEF Replaced
<1>6. QED
  BY <1>1, <1>2, <1>4, <1>5, OnTheWay

LEMMA AnswerDisturb == DecodeInv /\ AnswerInv /\ Disturb => AnswerInv'
<1> SUFFICES ASSUME DecodeInv, AnswerInv, Disturb PROVE AnswerInv'
  OBVIOUS
<1>1. api \in Kinds
  BY DEF DecodeInv, DecodeTypes
<1>2. {"failed", "garbage", "break", "error"} \subseteq FrameTypes
      /\ {"failed", "garbage", "broken", "error", "closed"} \subseteq Harms \ {"garbled"}
  BY DEF FrameTypes, Harms
<1>3. ASSUME NEW kind \in Harms \ {"garbled"}, NEW f \in Frames, Harm(kind, <<f>>),
             f.type \in {"failed", "garbage", "break"} \/ (f.type = "error" /\ kind = "error")
      PROVE  AnswerInv'
  <2> DEFINE frames == <<f>>
  <2>1. frames \in Seq(Frames) /\ Len(frames) = 1 /\ \A k \in 1..1 : frames[k] = f
    OBVIOUS
  <2>2. Harm(kind, frames)
    BY <1>3
  <2>3. /\ Len(frames) <= 1
        /\ \A k \in 1..Len(frames) : \/ frames[k].type \in {"failed", "garbage", "break"}
                                     \/ frames[k].type = "error" /\ kind = "error"
    <3> HIDE DEF frames
    <3>1. QED
      BY <1>3, <2>1
  <2> HIDE DEF frames
  <2>4. QED
    BY <1>3, <2>1, <2>2, <2>3, AnswerHarm
<1>4. \A type \in FrameTypes : Whisper(type) \in Frames /\ Whisper(type).type = type
  BY <1>1, FramesMade
<1>5. \A e \in Errors : ErrorFrame(e) \in Frames /\ ErrorFrame(e).type = "error"
  <2>1. "error" \in FrameTypes
    BY <1>2
  <2>2. QED
    BY <1>1, <2>1, FramesMade
<1>6. ASSUME NEW e \in Errors, Harm("error", <<ErrorFrame(e)>>) PROVE AnswerInv'
  BY <1>2, <1>3, <1>5, <1>6
<1>7. ASSUME Harm("failed", <<Whisper("failed")>>) PROVE AnswerInv'
  BY <1>2, <1>3, <1>4, <1>7
<1>8. ASSUME Harm("garbage", <<Whisper("garbage")>>) PROVE AnswerInv'
  BY <1>2, <1>3, <1>4, <1>8
<1>9. ASSUME Harm("broken", <<Whisper("break")>>) PROVE AnswerInv'
  BY <1>2, <1>3, <1>4, <1>9
<1>10. ASSUME Harm("closed", <<>>) PROVE AnswerInv'
  <2> DEFINE frames == <<>>
  <2>1. frames \in Seq(Frames) /\ Len(frames) = 0 /\ 1..0 = {}
    BY EmptySeq
  <2>2. Harm("closed", frames)
    BY <1>10
  <2> DEFINE kind == "closed"
  <2>3. kind \in Harms \ {"garbled"} /\ Harm(kind, frames)
    BY <1>2, <2>2
  <2> HIDE DEF frames, kind
  <2>4. /\ Len(frames) <= 1
        /\ \A k \in 1..Len(frames) : \/ frames[k].type \in {"failed", "garbage", "break"}
                                     \/ frames[k].type = "error" /\ kind = "error"
    BY <2>1
  <2>5. QED
    BY <2>1, <2>3, <2>4, AnswerHarm
<1>11. QED
  BY <1>6, <1>7, <1>8, <1>9, <1>10 DEF Disturb

LEMMA AnswerReadPart == DecodeInv /\ AnswerInv /\ ReadPart => AnswerInv'
<1> SUFFICES ASSUME DecodeInv, AnswerInv, ReadPart PROVE AnswerInv'
  OBVIOUS
<1>1. /\ stage = "reading" /\ stage' = "reading" /\ harm \subseteq harm' /\ harm' \subseteq harm \cup {"garbled"}
      /\ part' = "garbled" => "garbled" \in harm'
      /\ UNCHANGED <<api, meant, wire, acc, ending, result>>
  BY DEF ReadPart
<1>2. PICK p \in Points : Reached(p)
  BY <1>1 DEF AnswerInv, OnItsWay
<1>3. AccAt(p, acc)'
  <2>1. PICK a : acc' = a
    OBVIOUS
  <2>2. AccAt(p, a)
    BY <1>1, <1>2, <2>1 DEF Reached
  <2>3. QED
    BY <1>1, <2>1, <2>2, AccSame
<1>4. Reached(p)'
  BY <1>1, <1>2, <1>3, SamePoints, SameMoves DEF Reached
<1>5. Replaced'
  BY <1>1 DEF AnswerInv, OnItsWay, Replaced
<1>6. QED
  BY <1>1, <1>2, <1>4, <1>5, OnTheWay

\* An error or a failed response changes nothing that was read.
LEMMA ErrorRead ==
    ASSUME api \in Kinds, NEW a \in Ordered, NEW p, AccAt(p, a),
           NEW g \in Frames, g.type \in {"failed", "error"}
    PROVE  AccAt(p, Decode(a, g))
<1> DEFINE b == Decode(a, g)
<1>1. b = a \/ b = [a EXCEPT !.errors = @ + 1]
  <2> DEFINE type == g.type
             c == [a EXCEPT !.errors = @ + 1]
  <2>1. /\ type \in {"failed", "garbage", "break"} => b = a
        /\ type = "error" => b \in {a, c}
    BY DecodesEnd
  <2>2. type \in {"failed", "error"}
    OBVIOUS
  <2> HIDE DEF b, type, c
  <2>3. b = a \/ b = c
    BY <2>1, <2>2
  <2>4. QED
    BY <2>3 DEF c
<1> HIDE DEF b
<1>2. b.text = a.text /\ b.usage = a.usage /\ SameCalls(a, b)
  <2>1. CASE b = a
    BY <2>1 DEF SameCalls
  <2>2. CASE b = [a EXCEPT !.errors = @ + 1]
    BY <2>2, AccText DEF SameCalls, Accumulators
  <2>3. QED
    BY <1>1, <2>1, <2>2
<1>3. (Loose(a) => Loose(b)) /\ (Under(p, a) => Under(p, b))
  BY <1>2, CallsSame
<1>4. AccAt(p, b)
  BY <1>2, <1>3 DEF AccAt
<1>5. QED
  BY <1>4 DEF b

LEMMA AnswerReadFrame == DecodeInv /\ AnswerInv /\ ReadFrame => AnswerInv'
<1> SUFFICES ASSUME DecodeInv, AnswerInv, ReadFrame PROVE AnswerInv'
  OBVIOUS
<1> DEFINE g == IF part = "garbled" THEN Garble(Head(wire)) ELSE Head(wire)
<1>1. /\ stage = "reading" /\ stage' = "reading" /\ wire # <<>>
      /\ Head(wire).type \notin {"garbage", "break"}
      /\ acc' = Decode(acc, g) /\ wire' = Tail(wire) /\ part' = "none"
      /\ ending' => ending \/ g.type \in {"finish", "completed", "error"}
      /\ UNCHANGED <<api, meant, harm, result>>
  BY DEF ReadFrame
<1>2. api \in Kinds /\ meant \in Meant /\ acc \in Ordered /\ wire \in Seq(Frames)
  BY DEF DecodeInv, DecodeTypes
<1>3. Head(wire) = wire[1] /\ wire[1] \in Frames /\ Tail(wire) \in Seq(Frames)
      /\ (Len(wire) = 1 => Tail(wire) = <<>>) /\ Len(wire) \in Nat \ {0}
  BY <1>1, <1>2
<1>4. PICK f \in Frames : f = wire[1]
  BY <1>3
<1>5. g = f \/ ("garbled" \in harm /\ g = Garble(f))
  BY <1>1, <1>3, <1>4 DEF AnswerInv, OnItsWay
<1>6. g \in Frames /\ g.type = f.type /\ f.type \notin {"garbage", "break"}
  BY <1>1, <1>3, <1>4, <1>5, FrameParts
<1>7. ~api.stream => acc = Fresh
  BY <1>1 DEF DecodeInv, Untouched
<1> HIDE DEF g
<1>8. PICK p \in Points : Reached(p)
  BY <1>1 DEF AnswerInv, OnItsWay
<1>9. PICK a : a = acc
  OBVIOUS
<1>10. a \in Ordered /\ AccAt(p, a)
  BY <1>2, <1>8, <1>9 DEF Reached
<1>11. ASSUME harm \subseteq {"garbled"} PROVE AnswerInv'
  <2>1. Path(Points, Moves, wire, p, Ending)
    BY <1>8, <1>11 DEF Reached
  <2>2. PICK q \in Points : <<p, f, q>> \in Moves /\ Path(Points, Moves, Tail(wire), q, Ending)
    <3> DEFINE P == Points
               G == Moves
               F == Frames
               s == wire
               last == Ending
    <3>1. s \in Seq(F) /\ s # <<>> /\ Path(P, G, s, p, last)
      BY <1>1, <1>2, <2>1
    <3> HIDE DEF P, G, F, s, last
    <3>2. \E q \in P : <<p, s[1], q>> \in G /\ Path(P, G, Tail(s), q, last)
      BY <3>1, PathStep
    <3>3. QED
      BY <1>4, <3>2 DEF P, G, F, s, last
  <2>3. Leads(p, f, q)
    BY <2>2 DEF Moves
  <2>4. AccAt(q, Decode(a, g))
    BY <1>2, <1>5, <1>7, <1>9, <1>10, <2>3, FrameRead
  <2>5. AccAt(q, acc)'
    <3>1. PICK b : acc' = b
      OBVIOUS
    <3>2. AccAt(q, b)
      BY <1>1, <1>9, <2>4, <3>1
    <3>3. QED
      BY <1>1, <3>1, <3>2, AccSame
  <2>6. ending' => q.end > 0
    <3>1. /\ f.type \notin {"error", "failed", "garbage", "break"}
          /\ f.type \in {"finish", "completed"} => q.end > 0
          /\ p.end > 0 => q.end > 0
      BY <1>2, <2>3, LeadsTypes
    <3>2. ending => p.end > 0
      BY <1>1, <1>8 DEF Reached
    <3>3. QED
      BY <1>1, <1>6, <3>1, <3>2
  <2>7. Path(Points, Moves, wire, q, Ending)'
    BY <1>1, <2>2, SamePoints, SameMoves
  <2>8. Reached(q)'
    BY <2>5, <2>6, <2>7 DEF Reached
  <2>9. Replaced'
    BY <1>1, <1>11 DEF Replaced
  <2>10. QED
    BY <1>1, <2>8, <2>9, OnTheWay
<1>12. ASSUME ~(harm \subseteq {"garbled"}) PROVE AnswerInv'
  <2>1. /\ Len(wire) = 1 /\ f.type \in {"failed", "error"}
        /\ f.type = "error" => "error" \in harm
    <3>1. /\ Len(wire) <= 1
          /\ \A k \in 1..Len(wire) : \/ wire[k].type \in {"failed", "garbage", "break"}
                                     \/ wire[k].type = "error" /\ "error" \in harm
      BY <1>1, <1>12 DEF AnswerInv, OnItsWay, Replaced
    <3>2. Len(wire) = 1 /\ 1 \in 1..Len(wire)
      <4> DEFINE n == Len(wire)
      <4>1. n \in Nat \ {0} /\ n <= 1
        BY <1>3, <3>1
      <4> HIDE DEF n
      <4>2. n = 1 /\ 1 \in 1..n
        BY <4>1
      <4>3. QED
        BY <4>2 DEF n
    <3>3. QED
      BY <1>4, <1>6, <3>1, <3>2
  <2>2. wire' = <<>>
    BY <1>1, <1>3, <2>1
  <2>3. AccAt(p, Decode(a, g))
    BY <1>2, <1>6, <1>10, <2>1, ErrorRead
  <2>4. AccAt(p, acc)'
    <3>1. PICK b : acc' = b
      OBVIOUS
    <3>2. AccAt(p, b)
      BY <1>1, <1>9, <2>3, <3>1
    <3>3. QED
      BY <1>1, <3>1, <3>2, AccSame
  <2>5. ending' => p.end > 0 \/ ("error" \in harm /\ wire' = <<>>)
    BY <1>1, <1>6, <1>8, <2>1, <2>2 DEF Reached
  <2>6. Reached(p)'
    BY <1>1, <1>12, <2>4, <2>5 DEF Reached
  <2>7. Replaced'
    <3>1. Len(wire') = 0 /\ 1..0 = {}
      BY <2>2
    <3>2. QED
      BY <3>1 DEF Replaced
  <2>8. QED
    BY <1>1, <2>6, <2>7, OnTheWay
<1>13. QED
  BY <1>11, <1>12

LEMMA AnswerReadFails == DecodeInv /\ AnswerInv /\ ReadFails => AnswerInv'
<1> SUFFICES ASSUME DecodeInv, AnswerInv, ReadFails PROVE AnswerInv'
  OBVIOUS
<1>1. ~Answered' /\ stage' = "ended"
  BY DEF ReadFails, Ends, Answered
<1>2. QED
  BY <1>1, Unsaid DEF AnswerInv, OnItsWay, Unread

\* The calls of an answer: those that were announced, each with what came of it.
Announced(p, a) ==
    /\ Len(a.calls) = p.call /\ Named(a) = a.calls
    /\ \A i \in 1..p.call :
          /\ a.calls[i].id = <<"call", i>> /\ a.calls[i].name = meant.calls[i].name
          /\ a.calls[i].args \in Words /\ Legible(a.calls[i].args)
          /\ \/ Clear(a.calls[i].args) = Arguments(i) \/ Mended(i)
             \/ ~Done(p) /\ (a.calls[i].args = <<>> \/ Repeats(i) \/ ~Parses(Arguments(i)))

LEMMA AnswerCalls ==
    ASSUME meant \in Meant, NEW a \in Ordered, ~Faulty(a), NEW p \in Points, AccAt(p, a)
    PROVE  Announced(p, a)
<1>1. /\ a.errors = 0 /\ Named(a) = a.calls
      /\ \A q \in 1..Len(a.calls) : a.calls[q].name # <<>> /\ Parses(a.calls[q].args)
  BY FaultyParts
<1>2. ~Loose(a)
  BY LooseFaulty
<1>3. Under(p, a)
  BY <1>2 DEF AccAt
<1>4. Len(a.order) = p.call /\ Len(a.calls) = p.call /\ p.call \in 0..Len(meant.calls)
  BY <1>3, PointParts DEF Under, Lined, Ordered, OrderOK
<1>5. ASSUME NEW i \in 1..p.call
      PROVE  /\ a.calls[i].id = <<"call", i>> /\ a.calls[i].name = meant.calls[i].name
             /\ a.calls[i].args \in Words /\ Legible(a.calls[i].args)
             /\ \/ Clear(a.calls[i].args) = Arguments(i) \/ Mended(i)
                \/ ~Done(p) /\ (a.calls[i].args = <<>> \/ Repeats(i) \/ ~Parses(Arguments(i)))
  <2> DEFINE x == a.calls[i].args
             k == IF i = p.call THEN p.piece ELSE Full(i)
  <2>1. i \in 1..Len(meant.calls) /\ i \in 1..Len(a.order) /\ i \in 1..Len(a.calls)
    BY <1>4
  <2>2. /\ a.calls[i].id = <<"call", i>> /\ a.calls[i].name = meant.calls[i].name
        /\ Has(i, k, x)
    BY <1>3 DEF Under, Lined
  <2>3. x \in Words /\ Parses(x) /\ Legible(x)
    <3>1. x \in Words
      BY <2>1, CallTyped
    <3>2. Parses(x)
      BY <1>1, <2>1
    <3>3. Legible(x)
      BY <2>1, <2>2, FullParts
    <3>4. QED
      BY <3>1, <3>2, <3>3
  <2>4. k \in 0..Full(i) /\ Full(i) = Len(meant.calls[i].frags) /\ Full(i) \in Nat
    <3>1. Full(i) = Len(meant.calls[i].frags) /\ Full(i) \in Nat
      BY <2>1, FullParts
    <3>2. p.piece \in 0..Full(p.call)
      BY PointParts
    <3>3. QED
      BY <3>1, <3>2
  <2> HIDE DEF x, k
  <2>5. ASSUME k = Full(i) PROVE Clear(x) = Arguments(i) \/ Mended(i)
    <3>1. Final(i, x)
      BY <2>1, <2>2, <2>5, FullParts
    <3>2. QED
      BY <2>1, <2>3, <3>1, FinalParses
  <2>6. ASSUME k # Full(i)
        PROVE  Clear(x) = Arguments(i) \/ (~Done(p) /\ (x = <<>> \/ Repeats(i) \/ ~Parses(Arguments(i))))
    <3>1. k < Full(i)
      BY <2>4, <2>6
    <3>2. Got(i, k, x)
      BY <2>2, <3>1 DEF Has
    <3>3. x = <<>> \/ Clear(x) = Arguments(i) \/ Repeats(i) \/ ~Parses(Arguments(i))
      BY <2>1, <2>3, <2>4, <3>2, GotParses
    <3>4. ~Done(p)
      BY <2>6 DEF Done, k
    <3>5. QED
      BY <3>3, <3>4
  <2>7. QED
    BY <2>2, <2>3, <2>5, <2>6 DEF x
<1>6. QED
  BY <1>1, <1>4, <1>5 DEF Announced

\* What was reached when the loop is left, but for what is no answer.
LEMMA StopsAt ==
    ASSUME DecodeInv, stage = "reading", wire = <<>> \/ ending, ~Faulty(acc), NEW p \in Points, Reached(p)
    PROVE  /\ harm \subseteq {"garbled"} => Done(p)
           /\ Done(p) \/ harm \cap {"closed", "failed", "error"} # {}
           /\ harm \subseteq {"garbled"} /\ wire = <<>> => acc.usage
<1>1. /\ api \in Kinds /\ meant \in Meant /\ harm \subseteq Harms /\ acc \in Ordered
  BY DEF DecodeInv, DecodeTypes
<1>2. AccAt(p, acc) /\ (p.end > 0 => Done(p))
  BY <1>1, PointParts DEF Reached
<1>3. ASSUME harm \subseteq {"garbled"}, wire = <<>> PROVE Done(p) /\ acc.usage
  <2>1. Path(Points, Moves, <<>>, p, Ending)
    BY <1>3 DEF Reached
  <2>2. Ending \in Points
    BY <1>1, EndPoints
  <2>3. p = Ending
    BY <2>1, <2>2, PathNone
  <2>4. p.end = 2
    BY <2>3, EndingParts
  <2>5. 2 > 0
    OBVIOUS
  <2>6. QED
    BY <1>2, <2>4, <2>5 DEF AccAt
<1>4. ASSUME wire # <<>> PROVE Done(p)
  BY <1>2, <1>4 DEF Reached
<1>5. ASSUME ~(harm \subseteq {"garbled"}), wire = <<>>
      PROVE  harm \cap {"closed", "failed", "error"} # {}
  <2>1. harm \cap {"refused", "late"} = {}
    BY DEF DecodeInv, Marked
  <2>2. harm \cap {"garbage", "broken"} = {}
    <3>1. Len(wire) = 0
      BY <1>5
    <3>2. QED
      BY <3>1 DEF DecodeInv, Marked
  <2>3. QED
    BY <1>1, <1>5, <2>1, <2>2 DEF Harms
<1>6. QED
  BY <1>3, <1>4, <1>5

LEMMA AnswerStop == DecodeInv /\ AnswerInv /\ Stop => AnswerInv'
<1> SUFFICES ASSUME DecodeInv, AnswerInv, Stop PROVE AnswerInv'
  OBVIOUS
<1>1. /\ stage = "reading" /\ stage' = "ended" /\ (wire = <<>> \/ ending)
      /\ harm \subseteq harm' /\ (wire = <<>> \/ "late" \in harm')
      /\ UNCHANGED <<api, meant, wire, part, acc, ending, refused>>
      /\ result' = [kind |-> Built(acc), text |-> Split(acc.text), calls |-> Named(acc), usage |-> acc.usage]
  BY DEF Stop, Ends
<1>2. /\ api \in Kinds /\ meant \in Meant /\ harm \subseteq Harms /\ acc \in Ordered
      /\ harm \cap {"refused", "late"} = {}
  BY <1>1 DEF DecodeInv, DecodeTypes, Marked
<1>3. PICK p \in Points : Reached(p)
  BY <1>1 DEF AnswerInv, OnItsWay
<1>4. OnItsWay' /\ Unread'
  BY <1>1 DEF OnItsWay, Unread
<1>5. CASE ~Answered'
  BY <1>4, <1>5, Unsaid DEF AnswerInv
<1>6. CASE Answered'
  <2>1. ~Faulty(acc) /\ result'.calls = Named(acc) /\ result'.usage = acc.usage
    BY <1>1, <1>6 DEF Answered, Built
  <2>2. /\ harm \subseteq {"garbled"} => Done(p)
        /\ Done(p) \/ harm \cap {"closed", "failed", "error"} # {}
        /\ harm \subseteq {"garbled"} /\ wire = <<>> => acc.usage
    BY <1>1, <1>3, <2>1, StopsAt
  <2>3. AccAt(p, acc)
    BY <1>3 DEF Reached
  <2>4. Announced(p, acc)
    BY <1>2, <2>1, <2>3, AnswerCalls
  <2>5. /\ DOMAIN result'.calls = 1..p.call /\ result'.calls = acc.calls
        /\ Len(result'.calls) = p.call /\ p.call \in 0..Len(meant.calls)
    <3>1. acc.calls \in Seq(CallRecords)
      BY <1>2 DEF Ordered, Accumulators
    <3>2. DOMAIN acc.calls = 1..Len(acc.calls)
      <4> HIDE DEF CallRecords
      <4>1. QED
        BY <3>1, LenProperties
    <3>3. QED
      BY <1>2, <2>1, <2>4, <3>2, PointParts DEF Announced
  <2>6. \A i : (Mended(i)' <=> Mended(i)) /\ (Repeats(i)' <=> Repeats(i)) /\ Arguments(i)' = Arguments(i)
    BY <1>1 DEF Mended, Repeats, Arguments
  <2>7. Clear(acc.text) = p.text /\ Legible(acc.text) /\ acc.text \in Words /\ Follows(p.text)
    BY <1>2, <2>3, AccText, PointParts DEF AccAt
  <2>8. CompleteAnswers'
    <3> SUFFICES ASSUME harm' \subseteq {"late"} PROVE CompleteAnswers'
      BY DEF CompleteAnswers
    <3>1. harm = {}
      BY <1>1, <1>2
    <3>2. Done(p) /\ (wire = <<>> => acc.usage)
      BY <2>2, <3>1
    <3>3. \A x \in Words : Legible(x) => Clear(x) = x
      BY <3>1, TextLegible DEF Legible
    <3>4. Len(result'.calls) = Len(meant'.calls)
      BY <1>1, <2>5, <3>2 DEF Done
    <3>5. ASSUME NEW i \in DOMAIN result'.calls
          PROVE  /\ result'.calls[i].id = <<"call", i>> /\ result'.calls[i].name = meant'.calls[i].name
                 /\ result'.calls[i].args = Arguments(i)' \/ Mended(i)'
      <4>1. i \in 1..p.call
        BY <2>5
      <4>2. /\ acc.calls[i].id = <<"call", i>> /\ acc.calls[i].name = meant.calls[i].name
            /\ acc.calls[i].args \in Words /\ Legible(acc.calls[i].args)
            /\ Clear(acc.calls[i].args) = Arguments(i) \/ Mended(i)
        BY <2>4, <3>2, <4>1 DEF Announced
      <4>3. QED
        BY <1>1, <2>5, <2>6, <3>3, <4>2
    <3>6. acc'.text = (IF api.kind = "chat" \/ Messages = <<>> THEN FlattenSeq(Messages) ELSE Last(Messages))'
      <4>1. acc.text = WholeText
        BY <2>7, <3>2, <3>3 DEF Done
      <4>2. QED
        BY <1>1, <4>1 DEF WholeText, Messages
    <3>7. harm' = {} => result'.usage
      BY <1>1, <2>1, <3>2
    <3>8. QED
      BY <3>4, <3>5, <3>6, <3>7 DEF CompleteAnswers
  <2>9. CallsRunAsSent'
    <3>1. Len(result'.calls) <= Len(meant'.calls)
      BY <1>1, <2>5
    <3>2. ASSUME NEW i \in DOMAIN result'.calls
          PROVE  /\ result'.calls[i].name = meant'.calls[i].name
                 /\ \/ Clear(result'.calls[i].args) = Arguments(i)' \/ Mended(i)'
                    \/ /\ harm' \cap {"closed", "failed", "error"} # {}
                       /\ result'.calls[i].args = <<>> \/ Repeats(i)' \/ ~Parses(Arguments(i)')
      <4>1. i \in 1..p.call
        BY <2>5
      <4>2. /\ acc.calls[i].name = meant.calls[i].name
            /\ \/ Clear(acc.calls[i].args) = Arguments(i) \/ Mended(i)
               \/ ~Done(p) /\ (acc.calls[i].args = <<>> \/ Repeats(i) \/ ~Parses(Arguments(i)))
        BY <2>4, <4>1 DEF Announced
      <4>3. Done(p) \/ harm' \cap {"closed", "failed", "error"} # {}
        BY <1>1, <2>2
      <4>4. QED
        BY <1>1, <2>5, <2>6, <4>2, <4>3
    <3>3. QED
      BY <3>1, <3>2 DEF CallsRunAsSent
  <2>10. TextFollowsSent'
    <3>1. Len(Clear(acc.text)) = Len(acc.text)
      BY <2>7, ClearParts
    <3>2. Clear(acc'.text) = p.text /\ Len(acc'.text) = Len(p.text)
      BY <1>1, <2>7, <3>1
    <3>3. api'.kind = api.kind /\ Messages' = Messages
      BY <1>1 DEF Messages
    <3>4. QED
      BY <2>7, <3>2, <3>3 DEF TextFollowsSent, Follows
  <2>11. QED
    BY <1>4, <2>8, <2>9, <2>10 DEF AnswerInv
<1>7. QED
  BY <1>5, <1>6

LEMMA AnswerStep == DecodeInv /\ AnswerInv /\ [SdNext]_sdVars => AnswerInv'
<1> SUFFICES ASSUME DecodeInv, AnswerInv, [SdNext]_sdVars PROVE AnswerInv'
  OBVIOUS
<1>1. CASE Refuse
  BY <1>1, AnswerRefuse
<1>2. CASE Respond
  BY <1>2, AnswerRespond
<1>3. CASE Disturb
  BY <1>3, AnswerDisturb
<1>4. CASE ReadPart
  BY <1>4, AnswerReadPart
<1>5. CASE ReadFrame
  BY <1>5, AnswerReadFrame
<1>6. CASE ReadFails
  BY <1>6, AnswerReadFails
<1>7. CASE Stop
  BY <1>7, AnswerStop
<1>8. CASE Ended \/ UNCHANGED sdVars
  BY <1>8, StillSaid DEF Ended
<1>9. QED
  BY <1>1, <1>2, <1>3, <1>4, <1>5, <1>6, <1>7, <1>8 DEF SdNext

LEMMA AnswerInvariant == SdSpec => []AnswerInv
<1>1. QED
  BY AnswerInit, AnswerStep, DecodeInvariant, PTL DEF SdSpec

\* Whatever becomes of a stream on its way and in whatever pieces it arrives, an
\* answer says what the provider said: whole if its end was seen, a beginning of
\* it otherwise, every call with the provider's name and arguments, and the text
\* without the reasoning.
THEOREM AnswersAreAsSent == SdSpec => []AnswersAsSent
<1>1. AnswerInv => CompleteAnswers /\ CallsRunAsSent /\ TextFollowsSent
  BY DEF AnswerInv
<1>2. QED
  BY <1>1, AnswerInvariant, ReasoningIsHidden, PTL DEF AnswersAsSent

-----------------------------------------------------------------------------
(* Schemas.                                                                *)

Paths == Seq(STRING)
Places == PlacesOf(SUBSET Entries)

LEMMA PathParts ==
    ASSUME NEW q \in Paths, q # <<>>
    PROVE  Front(q) \in Paths /\ Last(q) \in STRING /\ q = Append(Front(q), Last(q))
BY FrontLast DEF Paths

LEMMA PathAppend ==
    ASSUME NEW p \in Paths, NEW k \in STRING
    PROVE  LET q == Append(p, k) IN
           q \in Paths /\ q # <<>> /\ Front(q) = p /\ Last(q) = k
BY AppendFront DEF Paths

\* What leads on from a place.
LEMMA StepsAre ==
    ASSUME NEW tree, DOMAIN tree \subseteq Paths, NEW p \in Paths
    PROVE  Steps(tree, p) = {k \in STRING : Append(p, k) \in DOMAIN tree}
<1>1. ASSUME NEW k \in Steps(tree, p) PROVE k \in STRING /\ Append(p, k) \in DOMAIN tree
  <2>1. PICK q \in DOMAIN tree : q # <<>> /\ Front(q) = p /\ k = Last(q)
    BY <1>1 DEF Steps
  <2>2. QED
    BY <2>1, PathParts
<1>2. ASSUME NEW k \in STRING, Append(p, k) \in DOMAIN tree PROVE k \in Steps(tree, p)
  BY <1>2, PathAppend DEF Steps
<1>3. QED
  BY <1>1, <1>2

\* What IsSchema says of a place.
LEMMA SchemaParts ==
    ASSUME NEW schema, IsSchema(schema), NEW p \in DOMAIN schema
    PROVE  /\ DOMAIN schema \subseteq Paths /\ p \in Paths
           /\ schema[p] \in Places
           /\ p # <<>> => /\ Front(p) \in DOMAIN schema
                          /\ Last(p) # Item => Last(p) \in Props(schema, Front(p))
           /\ Props(schema, p) \in SUBSET STRING
           /\ Props(schema, p) # {} => IsObject(schema[p])
<1>1. DOMAIN schema \subseteq Paths /\ p \in Paths /\ schema[p] \in Places
  BY DEF IsSchema, IsTree, Paths, Places
<1>2. ASSUME p # <<>>
      PROVE  /\ Front(p) \in DOMAIN schema
             /\ Last(p) # Item => Last(p) \in Props(schema, Front(p))
  <2>1. Front(p) \in DOMAIN schema
    BY <1>2 DEF IsSchema, IsTree
  <2>2. Last(p) \in Steps(schema, Front(p))
    BY <1>2 DEF Steps
  <2>3. QED
    BY <2>1, <2>2 DEF Props
<1>3. Props(schema, p) \in SUBSET STRING
  BY <1>1, StepsAre DEF Props
<1>4. Props(schema, p) # {} => IsObject(schema[p])
  BY DEF IsSchema, IsObject
<1>5. QED
  BY <1>1, <1>2, <1>3, <1>4

-----------------------------------------------------------------------------
(* One place made strict and nullable.                                     *)

\* What is an object gets all four, and the rest stays.
LEMMA MadeStrict ==
    ASSUME NEW X, NEW s \in PlacesOf(X), NEW r \in SUBSET STRING
    PROVE  LET m == MakeStrict(s, r) IN
           /\ m \in PlacesOf(X) /\ m.anyOf = s.anyOf /\ m.enum = s.enum /\ m.ref = s.ref
           /\ IsObject(m) <=> IsObject(s)
           /\ ~IsObject(s) => m = s
           /\ IsObject(s) => /\ m.closed /\ m.hasProps /\ m.required = r /\ m.type # {}
                             /\ m.type = IF s.type = {} THEN {"object"} ELSE s.type
<1>1. CASE IsObject(s)
  <2> DEFINE t == IF s.type = {} THEN {"object"} ELSE s.type
             m == [s EXCEPT !.type = t, !.closed = TRUE, !.hasProps = TRUE, !.required = r]
  <2>1. MakeStrict(s, r) = m
    BY <1>1 DEF MakeStrict
  <2>2. t \in SUBSET JsonTypes
    BY DEF PlacesOf, JsonTypes
  <2>t. t # {} /\ t = IF s.type = {} THEN {"object"} ELSE s.type
    OBVIOUS
  <2> HIDE DEF t
  <2>3. m \in PlacesOf(X)
    BY <2>2 DEF PlacesOf
  <2>4. m.anyOf = s.anyOf /\ m.enum = s.enum /\ m.ref = s.ref
    BY DEF PlacesOf
  <2>5. m.closed = TRUE /\ m.hasProps = TRUE /\ m.required = r /\ m.type = t
    BY DEF PlacesOf
  <2> HIDE DEF m
  <2>6. QED
    BY <1>1, <2>1, <2>3, <2>4, <2>5, <2>t DEF IsObject
<1>2. CASE ~IsObject(s)
  BY <1>2 DEF MakeStrict
<1>3. QED
  BY <1>1, <1>2

\* What is strict stays as it is.
LEMMA StrictStays ==
    ASSUME NEW X, NEW s \in PlacesOf(X), NEW r,
           IsObject(s) => s.closed = TRUE /\ s.hasProps = TRUE /\ s.required = r /\ s.type # {}
    PROVE  MakeStrict(s, r) = s
<1>1. CASE IsObject(s)
  <2> DEFINE m == [s EXCEPT !.type = IF @ = {} THEN {"object"} ELSE @, !.closed = TRUE,
                            !.hasProps = TRUE, !.required = r]
  <2>1. MakeStrict(s, r) = m
    BY <1>1 DEF MakeStrict
  <2>2. m = s
    BY <1>1 DEF PlacesOf
  <2>3. QED
    BY <2>1, <2>2
<1>2. CASE ~IsObject(s)
  BY <1>2 DEF MakeStrict
<1>3. QED
  BY <1>1, <1>2

NullEntry == SchemaOf({"null"})

LEMMA NullEntryParts ==
    /\ NullEntry \in Entries /\ ~IsObject(NullEntry) /\ NullEntry.type = {"null"}
    /\ NullEntry.enum = FALSE /\ NullEntry.ref = FALSE /\ NullEntry.required = {}
    /\ NullEntry.closed = FALSE /\ NullEntry.hasProps = FALSE
<1>1. /\ NullEntry.type = {"null"} /\ NullEntry.enum = FALSE /\ NullEntry.ref = FALSE
      /\ NullEntry.required = {} /\ NullEntry.closed = FALSE /\ NullEntry.hasProps = FALSE
  BY DEF NullEntry, SchemaOf
<1>2. NullEntry \in Entries
  <2>1. ASSUME NEW t \in SUBSET JsonTypes PROVE SchemaOf(t) \in Entries
    BY DEF SchemaOf, Entries, PlacesOf
  <2>2. {"null"} \in SUBSET JsonTypes
    BY DEF JsonTypes
  <2>3. QED
    BY <2>1, <2>2 DEF NullEntry
<1>3. "object" # "null"
  OBVIOUS
<1>4. QED
  BY <1>1, <1>2, <1>3 DEF IsObject, IncludesObject

\* A null is added to the type or to the anyOf, if there is one.
LEMMA MadeNullable ==
    ASSUME NEW s \in Places
    PROVE  LET m == MakeNullable(s) IN
           /\ m \in Places /\ m.enum = s.enum /\ m.ref = s.ref /\ m.hasProps = s.hasProps
           /\ m.required = s.required /\ m.closed = s.closed
           /\ IsObject(m) <=> IsObject(s)
           /\ m.type = {} <=> s.type = {}
           /\ m.type \subseteq s.type \cup {"null"} /\ s.type \subseteq m.type
           /\ s.type # {} => "null" \in m.type
           /\ m.anyOf = {} <=> s.anyOf = {}
           /\ s.anyOf \subseteq m.anyOf
           /\ \A e \in m.anyOf : e \in s.anyOf \/ e = NullEntry
           /\ s.type = {} /\ s.anyOf # {} => \E e \in m.anyOf : e.type = {"null"}
<1>1. CASE s.type # {}
  <2> DEFINE m == [s EXCEPT !.type = @ \cup {"null"}]
  <2>1. MakeNullable(s) = m
    BY <1>1 DEF MakeNullable
  <2>a. s.type \cup {"null"} \in SUBSET JsonTypes
    <3>1. s.type \in SUBSET JsonTypes
      BY DEF Places, PlacesOf
    <3>2. QED
      BY <3>1 DEF JsonTypes
  <2>2. m \in Places /\ m.type = s.type \cup {"null"} /\ m.anyOf = s.anyOf /\ m.enum = s.enum
        /\ m.ref = s.ref /\ m.hasProps = s.hasProps /\ m.required = s.required /\ m.closed = s.closed
    <3> DEFINE t == s.type \cup {"null"}
    <3>1. t \in SUBSET JsonTypes
      BY <2>a
    <3> HIDE DEF t
    <3>2. [s EXCEPT !.type = t] \in Places
      BY <3>1 DEF Places, PlacesOf
    <3>3. QED
      BY <3>2 DEF Places, PlacesOf, t
  <2> HIDE DEF m
  <2>3. IsObject(m) <=> IsObject(s)
    BY <2>2 DEF IsObject, IncludesObject
  <2>4. QED
    BY <1>1, <2>1, <2>2, <2>3
<1>2. CASE s.type = {} /\ s.anyOf # {} /\ \A entry \in s.anyOf : entry.type # {"null"}
  <2> DEFINE m == [s EXCEPT !.anyOf = @ \cup {NullEntry}]
  <2>1. MakeNullable(s) = m
    BY <1>2 DEF MakeNullable, NullEntry
  <2>2. m \in Places /\ m.type = s.type /\ m.anyOf = s.anyOf \cup {NullEntry} /\ m.enum = s.enum
        /\ m.ref = s.ref /\ m.hasProps = s.hasProps /\ m.required = s.required /\ m.closed = s.closed
    <3> DEFINE a == s.anyOf \cup {NullEntry}
    <3>1. a \in SUBSET Entries
      BY NullEntryParts DEF Places, PlacesOf
    <3> HIDE DEF a
    <3>2. [s EXCEPT !.anyOf = a] \in Places
      BY <3>1 DEF Places, PlacesOf
    <3>3. QED
      BY <3>2 DEF Places, PlacesOf, a
  <2> HIDE DEF m
  <2>3. IsObject(m) <=> IsObject(s)
    BY <2>2 DEF IsObject, IncludesObject
  <2>4. NullEntry \in m.anyOf /\ NullEntry.type = {"null"}
    BY <2>2, NullEntryParts
  <2>5. QED
    BY <1>2, <2>1, <2>2, <2>3, <2>4
<1>3. CASE s.type = {} /\ ~(s.anyOf # {} /\ \A entry \in s.anyOf : entry.type # {"null"})
  <2>1. MakeNullable(s) = s
    BY <1>3 DEF MakeNullable
  <2>2. s.anyOf # {} => \E e \in s.anyOf : e.type = {"null"}
    BY <1>3
  <2>3. QED
    BY <1>3, <2>1, <2>2
<1>4. QED
  BY <1>1, <1>2, <1>3

-----------------------------------------------------------------------------
(* A schema made strict, place by place.                                   *)

MadeType(s) == IF IsObject(s) /\ s.type = {} THEN {"object"} ELSE s.type

\* What becomes nullable is what may be missing.
LEMMA MayMissIs ==
    ASSUME NEW schema, IsSchema(schema), NEW p \in DOMAIN schema
    PROVE  (p # <<>> /\ Last(p) \in Optional(schema, Front(p))) <=> p \in MayMiss(schema)
BY SchemaParts DEF Optional, MayMiss, Props

\* The entries of an anyOf are made strict first.
LEMMA InsideStrict ==
    ASSUME NEW s \in Places
    PROVE  LET m == [s EXCEPT !.anyOf = {MakeStrict(entry, {}) : entry \in @}] IN
           /\ m \in Places /\ m.type = s.type /\ m.enum = s.enum /\ m.ref = s.ref
           /\ m.hasProps = s.hasProps /\ m.required = s.required /\ m.closed = s.closed
           /\ m.anyOf = {MakeStrict(entry, {}) : entry \in s.anyOf}
           /\ IsObject(m) <=> IsObject(s)
<1> DEFINE a == {MakeStrict(entry, {}) : entry \in s.anyOf}
           m == [s EXCEPT !.anyOf = a]
<1>1. a \in SUBSET Entries
  <2>1. ASSUME NEW entry \in s.anyOf PROVE MakeStrict(entry, {}) \in Entries
    <3>1. entry \in Entries /\ {} \in SUBSET STRING
      BY DEF Places, PlacesOf
    <3>2. QED
      BY <3>1, MadeStrict DEF Entries
  <2>2. QED
    BY <2>1
<1> HIDE DEF a
<1>2. m \in Places
  BY <1>1 DEF Places, PlacesOf
<1>3. /\ m.type = s.type /\ m.enum = s.enum /\ m.ref = s.ref
      /\ m.hasProps = s.hasProps /\ m.required = s.required /\ m.closed = s.closed
      /\ m.anyOf = a
  BY DEF Places, PlacesOf
<1> HIDE DEF m
<1>4. IsObject(m) <=> IsObject(s)
  BY <1>3 DEF IsObject, IncludesObject
<1>5. QED
  BY <1>2, <1>3, <1>4 DEF m, a

\* What normalize_schema_recursive makes of a place.
LEMMA NormalizeAt ==
    ASSUME NEW schema, IsSchema(schema), NEW p \in DOMAIN schema
    PROVE  LET s == schema[p]
               m == Normalize(schema)[p]
           IN
           /\ m \in Places /\ m.enum = s.enum /\ m.ref = s.ref
           /\ IsObject(m) <=> IsObject(s)
           /\ IsObject(s) => m.closed /\ m.hasProps /\ m.required = Props(schema, p) /\ m.type # {}
           /\ ~IsObject(s) => m.closed = s.closed /\ m.required = s.required
           /\ MadeType(s) \subseteq m.type /\ (m.type = {} <=> MadeType(s) = {})
           /\ m.type \subseteq MadeType(s) \cup (IF p \in MayMiss(schema) THEN {"null"} ELSE {})
           /\ p \in MayMiss(schema) /\ MadeType(s) # {} => "null" \in m.type
           /\ m.anyOf = {} <=> s.anyOf = {}
           /\ \A e \in s.anyOf : MakeStrict(e, {}) \in m.anyOf
           /\ \A f \in m.anyOf : \/ \E e \in s.anyOf : f = MakeStrict(e, {})
                                 \/ p \in MayMiss(schema) /\ f = NullEntry
           /\ p \in MayMiss(schema) /\ MadeType(s) = {} /\ s.anyOf # {} =>
                  \E f \in m.anyOf : f.type = {"null"}
<1> DEFINE s == schema[p]
           props == Props(schema, p)
           inner == [s EXCEPT !.anyOf = {MakeStrict(entry, {}) : entry \in @}]
           made == MakeStrict(inner, props)
           m == Normalize(schema)[p]
           optional == p \in MayMiss(schema)
<1>1. s \in Places /\ props \in SUBSET STRING
  BY SchemaParts
<1>2. m = IF optional THEN MakeNullable(made) ELSE made
  BY MayMissIs DEF Normalize, NowRequired
<1> HIDE DEF s, props
<1>3. /\ inner \in Places /\ inner.type = s.type /\ inner.enum = s.enum /\ inner.ref = s.ref
      /\ inner.hasProps = s.hasProps /\ inner.required = s.required /\ inner.closed = s.closed
      /\ inner.anyOf = {MakeStrict(entry, {}) : entry \in s.anyOf}
      /\ IsObject(inner) <=> IsObject(s)
  BY <1>1, InsideStrict
<1> HIDE DEF inner
<1>4. /\ made \in Places /\ made.anyOf = inner.anyOf /\ made.enum = s.enum /\ made.ref = s.ref
      /\ IsObject(made) <=> IsObject(s)
      /\ ~IsObject(s) => made = inner
      /\ IsObject(s) => made.closed /\ made.hasProps /\ made.required = props /\ made.type # {}
      /\ made.type = MadeType(s)
  <2>1. inner \in PlacesOf(SUBSET Entries)
    BY <1>3 DEF Places
  <2>2. /\ made \in PlacesOf(SUBSET Entries) /\ made.anyOf = inner.anyOf
        /\ made.enum = inner.enum /\ made.ref = inner.ref
        /\ IsObject(made) <=> IsObject(inner)
        /\ ~IsObject(inner) => made = inner
        /\ IsObject(inner) => /\ made.closed /\ made.hasProps /\ made.required = props
                              /\ made.type # {}
                              /\ made.type = IF inner.type = {} THEN {"object"} ELSE inner.type
    BY <1>1, <2>1, MadeStrict
  <2> HIDE DEF made
  <2>3. made.type = MadeType(s)
    BY <1>3, <2>2 DEF MadeType
  <2>4. QED
    BY <1>3, <2>2, <2>3 DEF Places
<1> HIDE DEF made
<1>5. CASE ~optional
  <2>1. m = made
    BY <1>2, <1>5
  <2> HIDE DEF m, optional
  <2>2. /\ m \in Places /\ m.enum = s.enum /\ m.ref = s.ref /\ (IsObject(m) <=> IsObject(s))
        /\ IsObject(s) => m.closed /\ m.hasProps /\ m.required = props /\ m.type # {}
        /\ ~IsObject(s) => m.closed = s.closed /\ m.required = s.required
    BY <1>3, <1>4, <2>1
  <2>3. m.type = MadeType(s) /\ m.anyOf = {MakeStrict(entry, {}) : entry \in s.anyOf}
    BY <1>3, <1>4, <2>1
  <2>4. QED
    BY <1>5, <2>2, <2>3 DEF m, s, props, optional
<1>6. CASE optional
  <2>1. m = MakeNullable(made)
    BY <1>2, <1>6
  <2> HIDE DEF m, optional
  <2>2. /\ m \in Places /\ m.enum = made.enum /\ m.ref = made.ref /\ m.hasProps = made.hasProps
        /\ m.required = made.required /\ m.closed = made.closed
        /\ IsObject(m) <=> IsObject(made)
        /\ m.type = {} <=> made.type = {}
        /\ m.type \subseteq made.type \cup {"null"} /\ made.type \subseteq m.type
        /\ made.type # {} => "null" \in m.type
        /\ m.anyOf = {} <=> made.anyOf = {}
        /\ made.anyOf \subseteq m.anyOf
        /\ \A e \in m.anyOf : e \in made.anyOf \/ e = NullEntry
        /\ made.type = {} /\ made.anyOf # {} => \E e \in m.anyOf : e.type = {"null"}
    BY <1>4, <2>1, MadeNullable
  <2>3. /\ m \in Places /\ m.enum = s.enum /\ m.ref = s.ref /\ (IsObject(m) <=> IsObject(s))
        /\ IsObject(s) => m.closed /\ m.hasProps /\ m.required = props /\ m.type # {}
        /\ ~IsObject(s) => m.closed = s.closed /\ m.required = s.required
    BY <1>3, <1>4, <2>2
  <2>4. made.anyOf = {MakeStrict(entry, {}) : entry \in s.anyOf}
    BY <1>3, <1>4
  <2>5. /\ m.anyOf = {} <=> s.anyOf = {}
        /\ \A e \in s.anyOf : MakeStrict(e, {}) \in m.anyOf
        /\ \A f \in m.anyOf : (\E e \in s.anyOf : f = MakeStrict(e, {})) \/ f = NullEntry
    BY <2>2, <2>4
  <2>6. QED
    BY <1>4, <1>6, <2>2, <2>3, <2>5, <2>4 DEF m, s, props, optional
<1>7. QED
  BY <1>5, <1>6

\* The tree stays as it is.
LEMMA NormalizeSteps ==
    ASSUME NEW schema
    PROVE  /\ DOMAIN Normalize(schema) = DOMAIN schema
           /\ \A p : Steps(Normalize(schema), p) = Steps(schema, p)
           /\ \A p : Props(Normalize(schema), p) = Props(schema, p)
<1>1. DOMAIN Normalize(schema) = DOMAIN schema
  BY DEF Normalize
<1>2. QED
  BY <1>1 DEF Steps, Props

\* What is validated is an object.
LEMMA ValidatedObjects ==
    ASSUME NEW schema, IsSchema(schema), NEW p \in Validated(Normalize(schema))
    PROVE  p \in DOMAIN schema /\ IsObject(schema[p])
<1> DEFINE n == Normalize(schema)
           len == Len(p)
<1>1. p \in DOMAIN schema /\ p \in Paths
  BY NormalizeSteps, SchemaParts DEF Validated
<1>2. CASE p = <<>>
  BY <1>1, <1>2 DEF IsSchema
<1>3. CASE p # <<>>
  <2>1. len \in 1..len /\ ~(len < len) /\ SubSeq(p, 1, len) = p
    <3>1. len \in Nat /\ len > 0 /\ p = [i \in 1..len |-> p[i]]
      BY <1>1, <1>3, EmptySeq, LenProperties DEF Paths
    <3>2. SubSeq(p, 1, len) = [i \in 1..len |-> p[i]]
      BY <1>1, <3>1 DEF Paths
    <3>3. QED
      BY <3>1, <3>2
  <2>2. LET place == n[SubSeq(p, 1, len)] IN
        IF p[len] = Item THEN len > 1 /\ p[len - 1] # Item /\ IncludesObject(place)
        ELSE \/ len < Len(p) /\ p[len + 1] = Item
             \/ (IF place.type # {} THEN IncludesObject(place) ELSE place.hasProps) /\ ~place.ref
    BY <2>1 DEF Validated
  <2>3. IncludesObject(n[p]) \/ n[p].hasProps
    BY <2>1, <2>2
  <2>4. QED
    BY <1>1, <2>3, NormalizeAt DEF IsObject
<1>4. QED
  BY <1>2, <1>3

\* What is an object gets that type.
LEMMA ObjectTyped ==
    ASSUME NEW schema, IsSchema(schema), NEW p \in DOMAIN schema,
           NEW s \in {schema[p]} \cup schema[p].anyOf
    PROVE  /\ s.hasProps => MadeType(s) # {}
           /\ IsObject(s) => "object" \in MadeType(s)
<1>1. s.hasProps /\ s.type # {} => IncludesObject(s)
  BY DEF IsSchema
<1>2. QED
  BY <1>1 DEF MadeType, IsObject, IncludesObject

\* What is made strict is valid.
LEMMA StrictIsValid ==
    ASSUME NEW schema, IsSchema(schema)
    PROVE  ValidStrict(Normalize(schema))
<1> DEFINE n == Normalize(schema)
<1>1. SUFFICES ASSUME NEW p \in Validated(n)
               PROVE  /\ IncludesObject(n[p]) /\ n[p].hasProps /\ n[p].closed
                      /\ Props(n, p) \subseteq n[p].required
                      /\ \A key \in Props(n, p) : LET property == n[Append(p, key)] IN
                            property.type # {} \/ property.anyOf # {} \/ property.ref
  BY DEF ValidStrict
<1>2. p \in DOMAIN schema /\ IsObject(schema[p])
  BY ValidatedObjects
<1>3. n[p].closed /\ n[p].hasProps /\ n[p].required = Props(schema, p)
      /\ MadeType(schema[p]) \subseteq n[p].type
  BY <1>2, NormalizeAt
<1>4. IncludesObject(n[p])
  BY <1>2, <1>3, ObjectTyped DEF IncludesObject
<1>5. Props(n, p) = Props(schema, p)
  BY NormalizeSteps
<1>6. ASSUME NEW key \in Props(n, p)
      PROVE  n[Append(p, key)].type # {} \/ n[Append(p, key)].anyOf # {} \/ n[Append(p, key)].ref
  <2> DEFINE q == Append(p, key)
  <2>1. q \in DOMAIN schema /\ q # <<>> /\ Last(q) = key /\ key # Item
    <3>1. DOMAIN schema \subseteq Paths /\ p \in Paths
      BY <1>2, SchemaParts
    <3>2. key \in Steps(schema, p) /\ key # Item
      BY <1>5, <1>6 DEF Props
    <3>3. key \in STRING /\ q \in DOMAIN schema
      BY <3>1, <3>2, StepsAre
    <3>4. QED
      BY <3>1, <3>2, <3>3, PathAppend
  <2> HIDE DEF q
  <2>2. schema[q].type # {} \/ schema[q].anyOf # {} \/ schema[q].ref \/ schema[q].hasProps
    BY <2>1 DEF IsSchema
  <2>3. schema[q].type # {} \/ schema[q].hasProps => MadeType(schema[q]) # {}
    BY <2>1, ObjectTyped DEF MadeType
  <2>4. /\ n[q].type = {} <=> MadeType(schema[q]) = {}
        /\ n[q].anyOf = {} <=> schema[q].anyOf = {}
        /\ n[q].ref = schema[q].ref
    BY <2>1, NormalizeAt
  <2>5. QED
    BY <2>2, <2>3, <2>4 DEF q
<1>7. QED
  BY <1>3, <1>4, <1>5, <1>6

\* What is made strict once more stays: nothing is optional any more.
LEMMA StrictIsLeft ==
    ASSUME NEW schema, IsSchema(schema)
    PROVE  Normalize(Normalize(schema)) = Normalize(schema)
<1> DEFINE n == Normalize(schema)
           Inner(p) == [n[p] EXCEPT !.anyOf = {MakeStrict(entry, {}) : entry \in @}]
           Made(p) == MakeStrict(Inner(p), Props(n, p))
<1>1. Normalize(n) = [p \in DOMAIN n |-> IF p # <<>> /\ Last(p) \in Optional(n, Front(p))
                                         THEN MakeNullable(Made(p)) ELSE Made(p)]
  BY DEF Normalize, NowRequired
<1>2. ASSUME NEW p \in DOMAIN n PROVE Made(p) = n[p]
  <2>1. p \in DOMAIN schema /\ Props(n, p) = Props(schema, p)
    BY NormalizeSteps
  <2>2. /\ n[p] \in Places /\ (IsObject(n[p]) <=> IsObject(schema[p]))
        /\ IsObject(schema[p]) => n[p].closed /\ n[p].hasProps /\ n[p].required = Props(schema, p)
                                  /\ n[p].type # {}
        /\ \A f \in n[p].anyOf : \/ \E e \in schema[p].anyOf : f = MakeStrict(e, {})
                                 \/ f = NullEntry
    BY <2>1, NormalizeAt
  <2> DEFINE m == n[p]
             props == Props(n, p)
  <2>3. /\ m \in Places
        /\ IsObject(m) => m.closed = TRUE /\ m.hasProps = TRUE /\ m.required = props /\ m.type # {}
    <3>1. m.closed \in BOOLEAN /\ m.hasProps \in BOOLEAN
      BY <2>2 DEF Places, PlacesOf
    <3>2. QED
      BY <2>1, <2>2, <3>1
  <2>4. ASSUME NEW f \in m.anyOf PROVE MakeStrict(f, {}) = f
    <3>1. CASE f = NullEntry
      BY <3>1, NullEntryParts DEF MakeStrict
    <3>2. CASE \E e \in schema[p].anyOf : f = MakeStrict(e, {})
      <4>1. PICK e \in schema[p].anyOf : f = MakeStrict(e, {})
        BY <3>2
      <4>2. e \in PlacesOf({{}}) /\ {} \in SUBSET STRING
        BY <2>1, SchemaParts DEF Places, PlacesOf, Entries
      <4>3. /\ f \in PlacesOf({{}})
            /\ IsObject(f) => f.closed /\ f.hasProps /\ f.required = {} /\ f.type # {}
        BY <4>1, <4>2, MadeStrict
      <4>4. f.closed \in BOOLEAN /\ f.hasProps \in BOOLEAN
        BY <4>3 DEF PlacesOf
      <4>5. IsObject(f) => f.closed = TRUE /\ f.hasProps = TRUE /\ f.required = {} /\ f.type # {}
        BY <4>3, <4>4
      <4>6. QED
        BY <4>3, <4>5, StrictStays
    <3>3. QED
      BY <2>2, <3>1, <3>2
  <2> HIDE DEF m, props
  <2>5. {MakeStrict(entry, {}) : entry \in m.anyOf} = m.anyOf
    BY <2>4
  <2>6. [m EXCEPT !.anyOf = m.anyOf] = m
    BY <2>3 DEF Places, PlacesOf
  <2>7. Inner(p) = m
    BY <2>5, <2>6 DEF m
  <2>8. MakeStrict(m, props) = m
    BY <2>3, StrictStays DEF Places
  <2>9. QED
    BY <2>7, <2>8 DEF m, props
<1>3. ASSUME NEW p \in DOMAIN n, p # <<>> PROVE Last(p) \notin Optional(n, Front(p))
  <2>1. p \in DOMAIN schema /\ Props(n, Front(p)) = Props(schema, Front(p))
    BY NormalizeSteps
  <2>2. Front(p) \in DOMAIN schema
    BY <1>3, <2>1, SchemaParts
  <2>3. Props(schema, Front(p)) # {} => n[Front(p)].required = Props(schema, Front(p))
    BY <2>2, SchemaParts, NormalizeAt
  <2>4. QED
    BY <2>1, <2>3 DEF Optional
<1>4. n = [p \in DOMAIN n |-> n[p]]
  BY DEF Normalize
<1> HIDE DEF n, Made
<1>5. Normalize(n) = [p \in DOMAIN n |-> n[p]]
  BY <1>1, <1>2, <1>3
<1>6. QED
  BY <1>4, <1>5 DEF n

-----------------------------------------------------------------------------
(* Calls.                                                                  *)

\* Where a value keeps what it has, and where it takes a null.
Kept(schema, value) == {q \in DOMAIN value : q \notin MayMiss(schema) \/ value[q] # "null"}
Missed(schema, value) ==
    {q \in MayMiss(schema) \ DOMAIN value : Front(q) \in DOMAIN value /\ value[Front(q)] = "object"}

LEMMA WithoutSteps ==
    ASSUME NEW schema, NEW value, DOMAIN value \subseteq Paths
    PROVE  /\ DOMAIN WithoutNulls(schema, value) = Kept(schema, value)
           /\ \A q \in Kept(schema, value) : WithoutNulls(schema, value)[q] = value[q]
           /\ \A q \in Paths : Steps(WithoutNulls(schema, value), q) =
                                 {k \in Steps(value, q) : Append(q, k) \in Kept(schema, value)}
<1> DEFINE w == WithoutNulls(schema, value)
<1>1. DOMAIN w = Kept(schema, value) /\ \A q \in Kept(schema, value) : w[q] = value[q]
  BY DEF WithoutNulls, Kept
<1>2. DOMAIN w \subseteq Paths /\ Kept(schema, value) \subseteq DOMAIN value
  BY <1>1 DEF Kept
<1> HIDE DEF w
<1>3. ASSUME NEW q \in Paths
      PROVE  Steps(w, q) = {k \in Steps(value, q) : Append(q, k) \in Kept(schema, value)}
  <2>1. Steps(w, q) = {k \in STRING : Append(q, k) \in DOMAIN w}
    BY <1>2, StepsAre
  <2>2. Steps(value, q) = {k \in STRING : Append(q, k) \in DOMAIN value}
    BY StepsAre
  <2>3. QED
    BY <1>1, <1>2, <2>1, <2>2
<1>4. QED
  BY <1>1, <1>3 DEF w

\* A call of the strict schema is, without its nulls, a call of the schema.
LEMMA StrictCalls ==
    ASSUME NEW schema, IsSchema(schema), NEW value, IsTree(value), Admits(Normalize(schema), value)
    PROVE  Admits(schema, WithoutNulls(schema, value))
<1> DEFINE n == Normalize(schema)
           w == WithoutNulls(schema, value)
<1>1. DOMAIN value \subseteq Paths
  BY DEF IsTree, Paths
<1>0. /\ DOMAIN w = Kept(schema, value)
      /\ \A q \in Kept(schema, value) : w[q] = value[q]
      /\ \A q \in Paths : Steps(w, q) = {k \in Steps(value, q) : Append(q, k) \in Kept(schema, value)}
  BY <1>1, WithoutSteps
<1>2. SUFFICES ASSUME NEW q \in DOMAIN schema \cap DOMAIN w
               PROVE  /\ Fits(schema[q], Props(schema, q), w, q)
                      /\ schema[q].anyOf # {} => \E entry \in schema[q].anyOf : Fits(entry, {}, w, q)
  BY DEF Admits
<1> DEFINE s == schema[q]
           m == n[q]
           props == Props(schema, q)
<1>3. /\ q \in DOMAIN schema /\ q \in DOMAIN value /\ q \in Paths /\ w[q] = value[q]
      /\ q \in MayMiss(schema) => value[q] # "null"
  BY <1>0, <1>1, <1>2 DEF Kept
<1>4. Steps(w, q) \subseteq Steps(value, q)
      /\ \A k \in Steps(value, q) : Append(q, k) \notin MayMiss(schema) => k \in Steps(w, q)
  BY <1>0, <1>3, StepsAre, <1>1 DEF Kept
<1>5. /\ Fits(m, props, value, q)
      /\ m.anyOf # {} => \E f \in m.anyOf : Fits(f, {}, value, q)
  BY <1>3, NormalizeSteps DEF Admits
<1>6. /\ m.enum = s.enum /\ m.ref = s.ref
      /\ IsObject(s) => m.closed /\ m.required = props
      /\ ~IsObject(s) => m.closed = s.closed /\ m.required = s.required
      /\ m.type = {} <=> MadeType(s) = {}
      /\ m.type \subseteq MadeType(s) \cup (IF q \in MayMiss(schema) THEN {"null"} ELSE {})
      /\ m.anyOf = {} <=> s.anyOf = {}
      /\ \A f \in m.anyOf : \/ \E e \in s.anyOf : f = MakeStrict(e, {})
                            \/ q \in MayMiss(schema) /\ f = NullEntry
  BY <1>3, NormalizeAt
<1>7. s.required \subseteq props
  BY <1>3 DEF IsSchema
<1>8. \A k \in s.required : Append(q, k) \notin MayMiss(schema)
  <2>1. props \in SUBSET STRING
    BY <1>3, SchemaParts
  <2>2. \A k \in s.required : Front(Append(q, k)) = q /\ Last(Append(q, k)) = k
    BY <1>3, <1>7, <2>1, PathAppend
  <2>3. QED
    BY <2>2 DEF MayMiss
<1>9. Fits(s, props, w, q)
  <2>1. s.type # {} => value[q] \in s.type
    <3>1. ASSUME s.type # {} PROVE value[q] \in s.type
      <4>1. MadeType(s) = s.type
        BY <3>1 DEF MadeType
      <4>2. value[q] \in m.type
        BY <1>5, <1>6, <3>1, <4>1 DEF Fits
      <4>3. QED
        BY <1>3, <1>6, <4>1, <4>2
    <3>2. QED
      BY <3>1
  <2>2. s.enum \/ s.ref => value[q] = "string"
    BY <1>5, <1>6 DEF Fits
  <2>3. value[q] = "object" => /\ m.required \subseteq Steps(value, q)
                               /\ m.closed => Steps(value, q) \subseteq props
    BY <1>5 DEF Fits
  <2>4. s.required \subseteq m.required /\ (s.closed => m.closed)
    BY <1>6, <1>7
  <2> HIDE DEF s, m, props, w
  <2>5. value[q] = "object" => /\ s.required \subseteq Steps(w, q)
                               /\ s.closed => Steps(w, q) \subseteq props
    BY <1>4, <1>8, <2>3, <2>4
  <2>6. QED
    BY <1>3, <2>1, <2>2, <2>5 DEF Fits
<1>10. ASSUME s.anyOf # {} PROVE \E entry \in s.anyOf : Fits(entry, {}, w, q)
  <2>1. PICK f \in m.anyOf : Fits(f, {}, value, q)
    BY <1>5, <1>6, <1>10
  <2>2. f # NullEntry \/ q \notin MayMiss(schema)
    BY <1>3, <2>1, NullEntryParts DEF Fits
  <2>3. PICK e \in s.anyOf : f = MakeStrict(e, {})
    BY <1>6, <2>2
  <2>4. e \in PlacesOf({{}}) /\ {} \in SUBSET STRING /\ e.required = {}
    BY <1>3, SchemaParts DEF Places, PlacesOf, Entries, IsSchema
  <2>5. /\ f.enum = e.enum /\ f.ref = e.ref
        /\ ~IsObject(e) => f = e
        /\ IsObject(e) => f.closed /\ f.type # {} /\ f.type = IF e.type = {} THEN {"object"} ELSE e.type
    BY <2>3, <2>4, MadeStrict
  <2>6. e.type # {} => f.type = e.type
    BY <2>5
  <2>7. e.closed => f.closed
    BY <2>5
  <2>8. Fits(e, {}, w, q)
    <3> HIDE DEF w
    <3>1. e.type # {} => w[q] \in e.type
      BY <1>3, <2>1, <2>6 DEF Fits
    <3>2. e.enum \/ e.ref => w[q] = "string"
      BY <1>3, <2>1, <2>5 DEF Fits
    <3>3. w[q] = "object" /\ e.closed => Steps(w, q) \subseteq {}
      BY <1>3, <1>4, <2>1, <2>7 DEF Fits
    <3>4. QED
      BY <2>4, <3>1, <3>2, <3>3 DEF Fits
  <2>9. QED
    BY <2>8
<1>11. QED
  BY <1>9, <1>10

\* A null where something is missed, and the rest as it was.
LEMMA WithSteps ==
    ASSUME NEW schema, IsSchema(schema), NEW value, DOMAIN value \subseteq Paths
    PROVE  /\ DOMAIN WithNulls(schema, value) = DOMAIN value \cup Missed(schema, value)
           /\ DOMAIN WithNulls(schema, value) \subseteq Paths
           /\ \A q \in DOMAIN value : WithNulls(schema, value)[q] = value[q]
           /\ \A q \in Missed(schema, value) : WithNulls(schema, value)[q] = "null"
           /\ \A q \in DOMAIN value \cap DOMAIN schema :
                 value[q] = "object" =>
                     Steps(WithNulls(schema, value), q) =
                         Steps(value, q) \cup (Props(schema, q) \ schema[q].required)
<1> DEFINE c == WithNulls(schema, value)
           missed == Missed(schema, value)
<1>1. /\ DOMAIN c = DOMAIN value \cup missed
      /\ \A q \in DOMAIN value : c[q] = value[q]
      /\ \A q \in missed : c[q] = "null"
  BY DEF WithNulls, Missed
<1>2. DOMAIN schema \subseteq Paths
  BY DEF IsSchema, IsTree, Paths
<1>3. DOMAIN c \subseteq Paths
  BY <1>1, <1>2 DEF MayMiss, Missed
<1> HIDE DEF c
<1>4. ASSUME NEW q \in DOMAIN value \cap DOMAIN schema, value[q] = "object"
      PROVE  Steps(c, q) = Steps(value, q) \cup (Props(schema, q) \ schema[q].required)
  <2>1. q \in Paths
    BY <1>2
  <2>2. /\ Steps(c, q) = {k \in STRING : Append(q, k) \in DOMAIN c}
        /\ Steps(value, q) = {k \in STRING : Append(q, k) \in DOMAIN value}
        /\ Props(schema, q) = {k \in STRING : Append(q, k) \in DOMAIN schema} \ {Item}
    BY <1>2, <1>3, <2>1, StepsAre DEF Props
  <2>3. \A k \in STRING : Append(q, k) # <<>> /\ Front(Append(q, k)) = q /\ Last(Append(q, k)) = k
    BY <2>1, PathAppend
  <2>4. \A k \in STRING : Append(q, k) \in MayMiss(schema) <=>
           k \in Props(schema, q) \ schema[q].required
    BY <2>2, <2>3 DEF MayMiss
  <2>5. \A k \in STRING : Append(q, k) \in missed <=>
           k \in Props(schema, q) \ schema[q].required /\ Append(q, k) \notin DOMAIN value
    BY <1>4, <2>3, <2>4 DEF Missed
  <2>6. \A k \in STRING : Append(q, k) \in DOMAIN c <=>
           Append(q, k) \in DOMAIN value \/ k \in Props(schema, q) \ schema[q].required
    BY <1>1, <2>5
  <2>7. QED
    BY <2>2, <2>6
<1>5. QED
  BY <1>1, <1>3, <1>4 DEF c

\* A call of the closed schema is, with its nulls, one of the strict schema.
LEMMA SealedCalls ==
    ASSUME NEW schema, IsSchema(schema), Nullable(schema), NEW value, IsTree(value),
           Admits(Sealed(schema), value)
    PROVE  Admits(Normalize(schema), WithNulls(schema, value))
<1> DEFINE n == Normalize(schema)
           c == WithNulls(schema, value)
           z == Sealed(schema)
           missed == Missed(schema, value)
<1>1. DOMAIN value \subseteq Paths
  BY DEF IsTree, Paths
<1>2. /\ DOMAIN c = DOMAIN value \cup missed
      /\ \A q \in DOMAIN value : c[q] = value[q]
      /\ \A q \in missed : c[q] = "null"
      /\ \A q \in DOMAIN value \cap DOMAIN schema :
            value[q] = "object" =>
                Steps(c, q) = Steps(value, q) \cup (Props(schema, q) \ schema[q].required)
  BY <1>1, WithSteps
<1>3. DOMAIN z = DOMAIN schema /\ \A p : Props(z, p) = Props(schema, p)
  BY DEF Sealed, Props, Steps
<1> HIDE DEF c
<1>4. SUFFICES ASSUME NEW q \in DOMAIN schema \cap DOMAIN c
               PROVE  /\ Fits(n[q], Props(schema, q), c, q)
                      /\ n[q].anyOf # {} => \E f \in n[q].anyOf : Fits(f, {}, c, q)
  <2>1. DOMAIN n = DOMAIN schema /\ \A q : Props(n, q) = Props(schema, q)
    BY NormalizeSteps
  <2> HIDE DEF n
  <2>2. Admits(n, c)
    BY <1>4, <2>1 DEF Admits
  <2>3. QED
    BY <2>2 DEF n, c
<1> DEFINE s == schema[q]
           m == n[q]
           props == Props(schema, q)
           optional == q \in MayMiss(schema)
<1>5. /\ m.enum = s.enum /\ m.ref = s.ref
      /\ IsObject(s) => m.closed /\ m.required = props
      /\ ~IsObject(s) => m.closed = s.closed /\ m.required = s.required
      /\ MadeType(s) \subseteq m.type /\ (m.type = {} <=> MadeType(s) = {})
      /\ optional /\ MadeType(s) # {} => "null" \in m.type
      /\ m.anyOf = {} <=> s.anyOf = {}
      /\ \A e \in s.anyOf : MakeStrict(e, {}) \in m.anyOf
      /\ \A f \in m.anyOf : \/ \E e \in s.anyOf : f = MakeStrict(e, {})
                            \/ optional /\ f = NullEntry
      /\ optional /\ MadeType(s) = {} /\ s.anyOf # {} => \E f \in m.anyOf : f.type = {"null"}
  BY NormalizeAt
<1>6. /\ s \in Places /\ s.required \subseteq props
      /\ props # {} => IsObject(s)
      /\ \A e \in s.anyOf : e \in PlacesOf({{}}) /\ e.required = {}
  <2>1. s \in Places /\ s.required \subseteq props /\ (props # {} => IsObject(s))
    BY SchemaParts DEF IsSchema
  <2>2. \A e \in s.anyOf : e \in PlacesOf({{}}) /\ e.required = {}
    BY <2>1 DEF Places, PlacesOf, Entries, IsSchema
  <2>3. QED
    BY <2>1, <2>2
<1>7. /\ s.type = {} \/ s.anyOf = {}
      /\ \A e \in {s} \cup s.anyOf : e.hasProps => IncludesObject(e)
      /\ \A e \in s.anyOf : e.type = {"null"} => ~e.enum /\ ~e.ref
      /\ optional => ~s.enum /\ ~s.ref
  BY DEF Nullable
<1>8. MadeType(s) = s.type /\ (s.anyOf # {} => ~IsObject(s))
      /\ \A e \in s.anyOf : IsObject(e) => e.type # {}
  BY <1>7 DEF MadeType, IsObject, IncludesObject
<1>9. CASE q \in DOMAIN value
  <2> DEFINE zs == [s EXCEPT !.closed = @ \/ IsObject(s),
                             !.anyOf = {[entry EXCEPT !.closed = @ \/ IsObject(entry)] : entry \in @}]
  <2>1. z[q] = zs
    BY DEF Sealed
  <2>2. /\ zs.type = s.type /\ zs.enum = s.enum /\ zs.ref = s.ref /\ zs.required = s.required
        /\ zs.closed <=> s.closed \/ IsObject(s)
        /\ zs.anyOf = {[entry EXCEPT !.closed = @ \/ IsObject(entry)] : entry \in s.anyOf}
    BY <1>6 DEF Places, PlacesOf
  <2> HIDE DEF zs
  <2>3. /\ Fits(zs, props, value, q)
        /\ zs.anyOf # {} => \E f \in zs.anyOf : Fits(f, {}, value, q)
    BY <1>3, <1>9, <2>1 DEF Admits
  <2>4. c[q] = value[q]
    BY <1>2, <1>9
  <2>5. value[q] = "object" => Steps(c, q) = Steps(value, q) \cup (props \ s.required)
    BY <1>2, <1>9
  <2>6. Fits(m, props, c, q)
    <3> HIDE DEF m, s, props, c
    <3>1. m.type # {} => c[q] \in m.type
      BY <1>5, <1>8, <2>2, <2>3, <2>4 DEF Fits
    <3>2. m.enum \/ m.ref => c[q] = "string"
      BY <1>5, <2>2, <2>3, <2>4 DEF Fits
    <3>3. ASSUME c[q] = "object"
          PROVE  m.required \subseteq Steps(c, q) /\ (m.closed => Steps(c, q) \subseteq props)
      <4>1. /\ s.required \subseteq Steps(value, q)
            /\ s.closed \/ IsObject(s) => Steps(value, q) \subseteq props
        BY <2>2, <2>3, <2>4, <3>3 DEF Fits
      <4>2. Steps(c, q) = Steps(value, q) \cup (props \ s.required)
        BY <2>4, <2>5, <3>3
      <4>3. CASE IsObject(s)
        BY <1>5, <1>6, <4>1, <4>2, <4>3
      <4>4. CASE ~IsObject(s)
        BY <1>5, <1>6, <4>1, <4>2, <4>4
      <4>5. QED
        BY <4>3, <4>4
    <3>4. QED
      BY <3>1, <3>2, <3>3 DEF Fits
  <2>7. ASSUME m.anyOf # {} PROVE \E f \in m.anyOf : Fits(f, {}, c, q)
    <3>1. s.anyOf # {} /\ zs.anyOf # {}
      <4>1. s.anyOf # {}
        BY <1>5, <2>7
      <4>2. PICK e \in s.anyOf : TRUE
        BY <4>1
      <4>3. [e EXCEPT !.closed = @ \/ IsObject(e)] \in zs.anyOf
        BY <2>2, <4>2
      <4>4. QED
        BY <4>1, <4>3
    <3>2. PICK g \in zs.anyOf : Fits(g, {}, value, q)
      BY <2>3, <3>1
    <3>3. PICK e \in s.anyOf : g = [e EXCEPT !.closed = @ \/ IsObject(e)]
      BY <2>2, <3>2
    <3>4. e \in PlacesOf({{}}) /\ e.required = {} /\ {} \in SUBSET STRING
      BY <1>6
    <3>5. /\ g.type = e.type /\ g.enum = e.enum /\ g.ref = e.ref
          /\ g.closed <=> e.closed \/ IsObject(e)
      BY <3>3, <3>4 DEF PlacesOf
    <3> DEFINE f == MakeStrict(e, {})
    <3>6. /\ f.enum = e.enum /\ f.ref = e.ref
          /\ ~IsObject(e) => f = e
          /\ IsObject(e) => f.required = {} /\ f.type = IF e.type = {} THEN {"object"} ELSE e.type
      BY <3>4, MadeStrict
    <3>7. f.type = e.type /\ f.required = {} /\ (f.closed => g.closed) /\ f \in m.anyOf
      BY <1>5, <1>8, <3>3, <3>4, <3>5, <3>6
    <3>8. props = {} /\ s.required = {}
      BY <1>6, <1>8, <3>1
    <3> HIDE DEF f, m, s, props, c
    <3>9. c[q] = "object" => Steps(c, q) = Steps(value, q)
      BY <2>4, <2>5, <3>8
    <3>10. Fits(f, {}, c, q)
      <4>1. f.type # {} => c[q] \in f.type
        BY <2>4, <3>2, <3>5, <3>7 DEF Fits
      <4>2. f.enum \/ f.ref => c[q] = "string"
        BY <2>4, <3>2, <3>5, <3>6 DEF Fits
      <4>3. c[q] = "object" /\ f.closed => Steps(c, q) \subseteq {}
        BY <2>4, <3>2, <3>7, <3>9 DEF Fits
      <4>4. QED
        BY <3>7, <4>1, <4>2, <4>3 DEF Fits
    <3>11. QED
      BY <3>7, <3>10
  <2>8. QED
    BY <2>6, <2>7
<1>10. CASE q \notin DOMAIN value
  <2>1. q \in missed /\ c[q] = "null" /\ optional
    BY <1>2, <1>4, <1>10 DEF Missed
  <2>2. ~s.enum /\ ~s.ref /\ ~m.enum /\ ~m.ref
    BY <1>5, <1>7, <2>1
  <2>3. Fits(m, props, c, q)
    <3>1. m.type # {} => "null" \in m.type
      BY <1>5, <2>1
    <3> HIDE DEF m, s, props
    <3>2. QED
      BY <2>1, <2>2, <3>1 DEF Fits
  <2>4. ASSUME m.anyOf # {} PROVE \E f \in m.anyOf : Fits(f, {}, c, q)
    <3>1. s.anyOf # {} /\ MadeType(s) = {}
      BY <1>5, <1>7, <1>8, <2>4
    <3>2. PICK f \in m.anyOf : f.type = {"null"}
      BY <1>5, <2>1, <3>1
    <3>3. ~f.enum /\ ~f.ref
      <4>1. CASE f = NullEntry
        BY <4>1, NullEntryParts
      <4>2. CASE \E e \in s.anyOf : f = MakeStrict(e, {})
        <5>1. PICK e \in s.anyOf : f = MakeStrict(e, {})
          BY <4>2
        <5>2. /\ f.enum = e.enum /\ f.ref = e.ref
              /\ ~IsObject(e) => f = e
              /\ IsObject(e) => f.type = IF e.type = {} THEN {"object"} ELSE e.type
          BY <1>6, <5>1, MadeStrict
        <5>3. e.type = {"null"}
          BY <1>8, <3>2, <5>1, <5>2
        <5>4. QED
          BY <1>7, <5>2, <5>3
      <4>3. QED
        BY <1>5, <3>2, <4>1, <4>2
    <3> HIDE DEF m
    <3>4. Fits(f, {}, c, q)
      BY <2>1, <3>2, <3>3 DEF Fits
    <3>5. QED
      BY <3>4
  <2>5. QED
    BY <2>3, <2>4
<1>11. QED
  BY <1>9, <1>10

\* The nulls that were put in are those that are left out.
LEMMA NullsComeAndGo ==
    ASSUME NEW schema, IsSchema(schema), NEW value, IsTree(value)
    PROVE  WithoutNulls(schema, WithNulls(schema, value)) = WithoutNulls(schema, value)
<1> DEFINE c == WithNulls(schema, value)
           missed == Missed(schema, value)
<1>1. DOMAIN value \subseteq Paths
  BY DEF IsTree, Paths
<1>2. /\ DOMAIN c = DOMAIN value \cup missed
      /\ \A q \in DOMAIN value : c[q] = value[q]
      /\ \A q \in missed : c[q] = "null"
  BY <1>1, WithSteps
<1> HIDE DEF c
<1>3. Kept(schema, c) = Kept(schema, value)
  BY <1>2 DEF Kept, Missed
<1>4. [q \in Kept(schema, c) |-> c[q]] = [q \in Kept(schema, value) |-> value[q]]
  BY <1>2, <1>3 DEF Kept
<1>5. QED
  BY <1>4 DEF WithoutNulls, Kept, c

-----------------------------------------------------------------------------
(* The way of a schema.                                                    *)

SchemaInv ==
    /\ given \in Declared
    /\ phase \in {"declared", "sent", "called"}
    /\ phase # "declared" => strict = Normalize(given)
    /\ phase = "called" => call \in Values /\ Admits(strict, call)

LEMMA SchemaInvariant == SsSpec => []SchemaInv
<1>1. SsInit => SchemaInv
  BY DEF SsInit, SchemaInv
<1>2. SchemaInv /\ [SsNext]_ssVars => SchemaInv'
  <2> SUFFICES ASSUME SchemaInv, [SsNext]_ssVars PROVE SchemaInv'
    OBVIOUS
  <2>1. CASE Send
    BY <2>1 DEF Send, SchemaInv
  <2>2. CASE CallTool
    BY <2>2 DEF CallTool, SchemaInv
  <2>3. CASE UNCHANGED ssVars
    BY <2>3 DEF ssVars, SchemaInv
  <2>4. QED
    BY <2>1, <2>2, <2>3 DEF SsNext
<1>3. QED
  BY <1>1, <1>2, PTL DEF SsSpec

LEMMA SchemaInvShows == SchemaInv => CallsSurvive
<1> SUFFICES ASSUME SchemaInv PROVE CallsSurvive
  OBVIOUS
<1>1. given \in Declared /\ IsSchema(given)
  BY SchemaAssumption DEF SchemaInv
<1>2. SentIsStrict
  BY <1>1, StrictIsValid, StrictIsLeft DEF SentIsStrict, SchemaInv
<1>3. CallsStayCalls
  <2>1. ASSUME phase = "called" PROVE Admits(given, WithoutNulls(given, call))
    <3>1. IsTree(call) /\ Admits(Normalize(given), call)
      BY <2>1, SchemaAssumption DEF SchemaInv, IsValue
    <3>2. QED
      BY <1>1, <3>1, StrictCalls
  <2>2. QED
    BY <2>1 DEF CallsStayCalls
<1>4. NothingTakenAway
  <2>1. ASSUME phase = "sent", Nullable(given), NEW wanted \in Values, Admits(Sealed(given), wanted)
        PROVE  LET sent == WithNulls(given, wanted) IN
               /\ Admits(strict, sent)
               /\ WithoutNulls(given, sent) = WithoutNulls(given, wanted)
    <3>1. IsTree(wanted) /\ strict = Normalize(given)
      BY <2>1, SchemaAssumption DEF SchemaInv, IsValue
    <3>2. QED
      BY <1>1, <2>1, <3>1, SealedCalls, NullsComeAndGo
  <2>2. QED
    BY <2>1 DEF NothingTakenAway
<1>5. QED
  BY <1>2, <1>3, <1>4 DEF CallsSurvive

\* For every schema of an object, of any depth: what normalize_schema_strict
\* makes of it passes validate_strict_schema and stays as it is the next time;
\* what is called of it is, without its nulls, a call of the tool; and what could
\* be called of the tool still can.
THEOREM CallsAllSurvive == SsSpec => []CallsSurvive
BY SchemaInvariant, SchemaInvShows, PTL
=============================================================================
