--------------------------- MODULE ProviderAccess ---------------------------
(***************************************************************************)
(* What the runtime promises its model provider, whatever the number of    *)
(* turns that want to talk to it: requests are sent one at a time, and     *)
(* none is sent before a blackout announced by a rate-limited answer is    *)
(* over.  docs/provider-engine.md states the promise; ProviderGate         *)
(* implements it with a mutex and a shared back-off window.                *)
(***************************************************************************)
EXTENDS Integers

CONSTANT Callers   \* the tasks that may send a request to the provider

VARIABLES
    inFlight,      \* the callers whose request the provider is serving
    blackout       \* ticks left before the next request may be sent

pvars == <<inFlight, blackout>>

PInit ==
    /\ inFlight = {}
    /\ blackout = 0

\* A request goes out only when nobody else's is out and no blackout runs.
Send(c) ==
    /\ inFlight = {}
    /\ blackout = 0
    /\ inFlight' = {c}
    /\ UNCHANGED blackout

\* The provider answers (or the caller gives up), and may start a blackout.
Answer(c) ==
    /\ c \in inFlight
    /\ inFlight' = inFlight \ {c}
    /\ blackout' \in Nat

Pass ==
    /\ blackout > 0
    /\ blackout' = blackout - 1
    /\ UNCHANGED inFlight

PNext ==
    \/ \E c \in Callers : Send(c) \/ Answer(c)
    \/ Pass

PSpec == PInit /\ [][PNext]_pvars
=============================================================================
