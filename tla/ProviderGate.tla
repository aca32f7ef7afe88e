---------------------------- MODULE ProviderGate ----------------------------
(***************************************************************************)
(* The runtime-level rate-limit gate in front of the model provider:       *)
(* Runtime::run_and_record_exchange and wait_for_provider_window           *)
(* (runtime/internal.rs) over ProviderThrottle (runtime/throttle.rs).      *)
(*                                                                         *)
(* A caller is one task inside run_and_record_exchange: a turn's model     *)
(* exchange, or a post-turn distillation that falls back to the main       *)
(* engine.  A caller in Dedicated is a distillation whose compressor role  *)
(* has an engine of its own (run_compressor_exchange in runtime/memory.rs  *)
(* calls engine.run without the gate).                                     *)
(*                                                                         *)
(* Time is relative: window, left and owed count ticks still to run, so a  *)
(* deadline at or before "now" is a count of 0 and the state stays finite  *)
(* although time never stops.                                              *)
(***************************************************************************)
EXTENDS Integers, Sequences

CONSTANTS
    Callers,      \* tasks that exchange with the provider
    Dedicated,    \* those whose engine is not the runtime's shared one
    BaseBackoff,  \* ProviderThrottle.base_backoff, in ticks
    RetryAfters,  \* the Retry-After values the provider may send, in ticks
    MaxDuration,  \* Duration::MAX, scaled down
    MaxLimits,    \* bound: how many answers are rate limits
    DbFailures    \* TRUE when a database write may fail

ASSUME GateAssumption ==
    /\ Dedicated \subseteq Callers
    /\ BaseBackoff \in Nat \ {0}
    /\ MaxDuration \in Nat
    /\ BaseBackoff <= MaxDuration
    /\ RetryAfters \subseteq 0..MaxDuration
    /\ MaxLimits \in Nat
    /\ DbFailures \in BOOLEAN

NoWindow == -1       \* blocked_until = None
NoRetryAfter == -1   \* the provider sent no Retry-After

VARIABLES
    pc,           \* where each caller is in the exchange loop
    left,         \* ticks each sleeper still has to sleep
    answer,       \* the Retry-After of a caller's rate-limited answer
    gateQueue,    \* provider_request_gate: the head holds it, FIFO behind
    window,       \* ticks to blocked_until, 0 once it has passed
    nextBackoff,  \* ProviderThrottleState.next_backoff
    limits,       \* rate-limited answers so far (bounded by MaxLimits)
    owed          \* history: ticks the shared provider still asked to be left alone

throttle == <<window, nextBackoff>>
vars == <<pc, left, answer, gateQueue, window, nextBackoff, limits, owed>>

Holding == {"held", "sleepHeld", "call", "limited", "armed"}
Finished == {"done", "failed", "panicked"}
Locations == {"idle", "check", "sleep", "gate", "direct"} \cup Holding \cup Finished

Larger(a, b) == IF a >= b THEN a ELSE b
Elapse(n) == IF n > 0 THEN n - 1 ELSE n

TypeOK ==
    /\ pc \in [Callers -> Locations]
    /\ left \in [Callers -> 0..MaxDuration]
    /\ answer \in [Callers -> RetryAfters \cup {NoRetryAfter}]
    /\ gateQueue \in Seq(Callers)
    /\ window \in NoWindow..MaxDuration
    /\ nextBackoff \in BaseBackoff..MaxDuration
    /\ limits \in 0..MaxLimits
    /\ owed \in 0..MaxDuration

Init ==
    /\ pc = [c \in Callers |-> "idle"]
    /\ left = [c \in Callers |-> 0]
    /\ answer = [c \in Callers |-> NoRetryAfter]
    /\ gateQueue = <<>>
    /\ window = NoWindow
    /\ nextBackoff = BaseBackoff
    /\ limits = 0
    /\ owed = 0

-----------------------------------------------------------------------------
(* Mutants: each is a plausible slip in the definition it is named after,  *)
(* and breaks one of the properties below.                                 *)

MutDoubled(d) == 2 * d                       \* no saturation
MutArmWait(c) ==                             \* Retry-After below the back-off
    IF answer[c] = NoRetryAfter THEN nextBackoff ELSE answer[c]

Goto(c, location) == pc' = [pc EXCEPT ![c] = location]

\* current_wait: a window whose deadline has passed is forgotten on sight.
Blocked == window > 0
ForgetExpired == window' = IF window = 0 THEN NoWindow ELSE window

\* The lock is handed to waiters in the order they asked for it; when its
\* guard goes out of scope the next one has it.
HasGate(c) == gateQueue # <<>> /\ gateQueue[1] = c
ReleaseGate == gateQueue' = Tail(gateQueue)

MutEnterGate(c) ==                           \* no mutual exclusion
    /\ pc[c] = "gate"
    /\ Goto(c, "held")
    /\ UNCHANGED <<left, answer, gateQueue, throttle, limits, owed>>

MutAnswerError(c) ==                         \* the error path keeps the lock
    /\ pc[c] = "call"
    /\ Goto(c, "failed")
    /\ UNCHANGED <<left, answer, gateQueue, throttle, limits, owed>>

MutWakeHolding(c) ==                         \* the guard outlives the iteration
    /\ pc[c] = "sleepHeld" /\ left[c] = 0
    /\ Goto(c, "check")
    /\ UNCHANGED <<left, answer, gateQueue, throttle, limits, owed>>

Start(c) ==
    /\ pc[c] = "idle" /\ c \notin Dedicated
    /\ Goto(c, "check")
    /\ UNCHANGED <<left, answer, gateQueue, throttle, limits, owed>>

\* First look at the window, before queueing: sleep it out and look again ...
SleepOutside(c) ==
    /\ pc[c] = "check" /\ Blocked
    /\ left' = [left EXCEPT ![c] = window]
    /\ Goto(c, "sleep")
    /\ UNCHANGED <<answer, gateQueue, throttle, limits, owed>>

WakeOutside(c) ==
    /\ pc[c] = "sleep" /\ left[c] = 0
    /\ Goto(c, "check")
    /\ UNCHANGED <<left, answer, gateQueue, throttle, limits, owed>>

\* ... or queue for the gate.
QueueForGate(c) ==
    /\ pc[c] = "check" /\ ~Blocked
    /\ ForgetExpired
    /\ gateQueue' = Append(gateQueue, c)
    /\ Goto(c, "gate")
    /\ UNCHANGED <<left, answer, nextBackoff, limits, owed>>

EnterGate(c) ==
    /\ pc[c] = "gate" /\ HasGate(c)
    /\ Goto(c, "held")
    /\ UNCHANGED <<left, answer, gateQueue, throttle, limits, owed>>

\* Second look, under the gate: the window may have been armed in the meantime.
SleepHolding(c) ==
    /\ pc[c] = "held" /\ Blocked
    /\ left' = [left EXCEPT ![c] = window]
    /\ Goto(c, "sleepHeld")
    /\ UNCHANGED <<answer, gateQueue, throttle, limits, owed>>

WakeHolding(c) ==
    /\ pc[c] = "sleepHeld" /\ left[c] = 0
    /\ ReleaseGate
    /\ Goto(c, "check")
    /\ UNCHANGED <<left, answer, throttle, limits, owed>>

SendRequest(c) ==
    /\ pc[c] = "held" /\ ~Blocked
    /\ ForgetExpired
    /\ Goto(c, "call")
    /\ UNCHANGED <<left, answer, gateQueue, nextBackoff, limits, owed>>

-----------------------------------------------------------------------------
(* The provider's answer.  Each branch ends with the gate released.        *)

\* note_success, then the model events are appended, then return Ok.
AnswerOk(c) ==
    /\ pc[c] = "call"
    /\ window' = NoWindow
    /\ nextBackoff' = BaseBackoff
    /\ ReleaseGate
    /\ Goto(c, "done") \/ (DbFailures /\ Goto(c, "failed"))
    /\ UNCHANGED <<left, answer, limits, owed>>

\* A provider error that is no rate limit is recorded and returned.
AnswerError(c) ==
    /\ pc[c] = "call"
    /\ ReleaseGate
    /\ Goto(c, "failed")
    /\ UNCHANGED <<left, answer, throttle, limits, owed>>

\* A rate-limited answer is first traced; the gate stays held meanwhile.
AnswerLimited(c, retryAfter) ==
    /\ pc[c] = "call" /\ limits < MaxLimits
    /\ limits' = limits + 1
    /\ answer' = [answer EXCEPT ![c] = retryAfter]
    /\ owed' = Larger(owed, Larger(retryAfter, nextBackoff))
    /\ Goto(c, "limited")
    /\ UNCHANGED <<left, gateQueue, throttle>>

\* arm: the wait is never below the current back-off, which then doubles,
\* saturating at Duration::MAX.
ArmWait(c) == Larger(answer[c], nextBackoff)
Doubled(d) == IF 2 * d > MaxDuration THEN MaxDuration ELSE 2 * d

Arm(c) ==
    /\ pc[c] = "limited" /\ ArmWait(c) < MaxDuration
    /\ nextBackoff' = Doubled(ArmWait(c))
    /\ window' = Larger(window, ArmWait(c))
    /\ answer' = [answer EXCEPT ![c] = NoRetryAfter]
    /\ Goto(c, "armed")
    /\ UNCHANGED <<left, gateQueue, limits, owed>>

\* "now + wait" has no result for the saturated wait: the task panics after
\* next_backoff was stored and before blocked_until is, so that the limit is
\* forgotten.
ArmOverflow(c) ==
    /\ pc[c] = "limited" /\ ArmWait(c) = MaxDuration
    /\ nextBackoff' = MaxDuration
    /\ owed' = Larger(window, 0)
    /\ answer' = [answer EXCEPT ![c] = NoRetryAfter]
    /\ ReleaseGate
    /\ Goto(c, "panicked")
    /\ UNCHANGED <<left, window, limits>>

\* The rate-limit events are appended and the loop starts over.
Retry(c) ==
    /\ pc[c] = "armed"
    /\ ReleaseGate
    /\ Goto(c, "check")
    /\ UNCHANGED <<left, answer, throttle, limits, owed>>

\* A failing write leaves the function through "?", dropping the guard.  A
\* rate limit is traced before it is armed: when that fails it is forgotten,
\* and only what was armed before is kept to.
DbFailure(c) ==
    /\ DbFailures
    /\ \/ pc[c] = "check" /\ Blocked /\ UNCHANGED <<gateQueue, owed>>
       \/ pc[c] \in {"held", "armed"} /\ ReleaseGate /\ UNCHANGED owed
       \/ pc[c] = "limited" /\ ReleaseGate /\ owed' = Larger(window, 0)
    /\ answer' = [answer EXCEPT ![c] = NoRetryAfter]
    /\ Goto(c, "failed")
    /\ UNCHANGED <<left, throttle, limits>>

\* The tool loop, or the channel's next turn, exchanges again.
NextExchange(c) ==
    /\ pc[c] \in {"done", "failed"}
    /\ Goto(c, "idle")
    /\ UNCHANGED <<left, answer, gateQueue, throttle, limits, owed>>

-----------------------------------------------------------------------------
(* A compressor with an engine of its own: no window, no gate, and a rate  *)
(* limit is an error like any other.                                       *)

DirectSend(c) ==
    /\ pc[c] = "idle" /\ c \in Dedicated
    /\ Goto(c, "direct")
    /\ UNCHANGED <<left, answer, gateQueue, throttle, limits, owed>>

DirectAnswer(c) ==
    /\ pc[c] = "direct"
    /\ pc' \in {[pc EXCEPT ![c] = "done"], [pc EXCEPT ![c] = "failed"]}
    /\ UNCHANGED <<left, answer, gateQueue, throttle, limits, owed>>

DirectLimited(c) ==
    /\ pc[c] = "direct" /\ limits < MaxLimits
    /\ limits' = limits + 1
    /\ Goto(c, "failed")
    /\ UNCHANGED <<left, answer, gateQueue, throttle, owed>>

-----------------------------------------------------------------------------
Tick ==
    /\ window' = Elapse(window)
    /\ left' = [c \in Callers |-> Elapse(left[c])]
    /\ owed' = Elapse(owed)
    /\ UNCHANGED <<pc, answer, gateQueue, nextBackoff, limits>>

Step(c) ==
    \/ Start(c) \/ SleepOutside(c) \/ WakeOutside(c) \/ QueueForGate(c)
    \/ EnterGate(c) \/ SleepHolding(c) \/ WakeHolding(c) \/ SendRequest(c)
    \/ AnswerOk(c) \/ AnswerError(c)
    \/ \E retryAfter \in RetryAfters \cup {NoRetryAfter} : AnswerLimited(c, retryAfter)
    \/ Arm(c) \/ ArmOverflow(c) \/ Retry(c) \/ DbFailure(c) \/ NextExchange(c)
    \/ DirectSend(c) \/ DirectAnswer(c) \/ DirectLimited(c)

Next == (\E c \in Callers : Step(c)) \/ Tick

Spec == Init /\ [][Next]_vars

\* The executor polls every task that can run, time passes, and the HTTP
\* client's timeout (openai_compat.rs) ends a request nobody answers.
Fairness ==
    /\ WF_vars(Tick)
    /\ \A c \in Callers :
        /\ WF_vars(SleepOutside(c) \/ QueueForGate(c))
        /\ WF_vars(WakeOutside(c) \/ WakeHolding(c))
        /\ WF_vars(EnterGate(c))
        /\ WF_vars(SleepHolding(c) \/ SendRequest(c))
        /\ WF_vars(AnswerOk(c) \/ AnswerError(c))
        /\ WF_vars(Arm(c) \/ ArmOverflow(c) \/ Retry(c))
        /\ WF_vars(DirectAnswer(c))

FairSpec == Spec /\ Fairness

-----------------------------------------------------------------------------
(* Properties.                                                             *)

\* The gate is a lock: whoever is past lock().await heads its queue, so two
\* shared-engine requests are never out together.
GateHeldByHead ==
    \A c \in Callers : pc[c] \in Holding => HasGate(c)

\* No request of the shared engine is out while an armed window still runs,
\* although the window is looked at before the gate is waited for and may be
\* armed by the holder in between (runtime/internal.rs, the second
\* wait_for_provider_window).
NoRequestInsideWindow ==
    \A c \in Callers : pc[c] = "call" => ~Blocked

\* docs/provider-engine.md: one rate-limit hit blocks all later requests of
\* this runtime until the window expires.  The shared engine sends nothing
\* while the time its provider asked for (or the back-off, when longer) is
\* still running, whatever a dedicated engine does meanwhile; but for a limit
\* that is forgotten because its trace cannot be written or its wait overflows.
RateLimitHonoured ==
    [][\A c \in Callers : (pc[c] # "call" /\ pc'[c] = "call") => owed = 0]_vars

\* A running window is never shortened: not by the success of a request that
\* was out when it was armed, not by a later rate limit with a smaller
\* Retry-After, not by a caller that clears it early.
WindowNeverCutShort == [][window > 0 => window' >= window - 1]_vars

\* A limit keeps everybody quiet, for as long as it was meant to.
RateLimitsKept == RateLimitHonoured /\ WindowNeverCutShort

\* The gate always belongs to a task that is still running: no way out of
\* the loop, the failing ones and the panic included, keeps it locked.
GateNeverOrphaned ==
    gateQueue # <<>> => pc[gateQueue[1]] \in Holding \cup {"gate"}

\* The gate belongs to one task, which is still running, and whoever sends is
\* outside every window: mutual exclusion, no way out that keeps the lock, and
\* the second look.
GateKept == GateHeldByHead /\ GateNeverOrphaned /\ NoRequestInsideWindow

\* A caller that entered the loop leaves it, however often others are rate
\* limited before it and although sleepers go back to the end of the queue.
EveryExchangeEnds ==
    \A c \in Callers : pc[c] \in {"check", "direct"} ~> pc[c] \in Finished

\* The gate implements the promise of ProviderAccess.  The blackout is the
\* window; what ends it is always the answer to a request that was out when
\* it was armed.  The engines of Dedicated callers are not the provider's.
Access == INSTANCE ProviderAccess WITH
    inFlight <- {c \in Callers : pc[c] \in {"call", "limited"}},
    blackout <- Larger(window, 0)

ImplementsAccess == Access!PSpec
=============================================================================
