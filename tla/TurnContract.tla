---------------------------- MODULE TurnContract ----------------------------
(***************************************************************************)
(* What the runtime promises about a turn, however many tasks, restarts    *)
(* and background jobs work on its row: it settles once, what it settled   *)
(* as is never rewritten, what it says on the way is recorded while it     *)
(* runs, and a channel is handed what the turn's row and the outbound      *)
(* table hold, and no more.                                                *)
(***************************************************************************)
EXTENDS Naturals

CONSTANTS
    Turns,
    DbFailures   \* TRUE when a write may fail: an error then says less

VARIABLES
    status,    \* the turn's status column, "absent" before it is created
    reply,     \* its assistant message: none, blank or text
    recorded,  \* rows of the outbound table written for it: messages, reply
    handed     \* what the channel was handed, and with how many messages

Replied == {"succeeded", "awaiting"}
NoRows == [messages |-> 0, reply |-> 0]
Outcome(what, messages) == [what |-> what, messages |-> messages]
Nothing == Outcome("nothing", 0)

CInit ==
    /\ status = [t \in Turns |-> "absent"]
    /\ reply = [t \in Turns |-> "none"]
    /\ recorded = [t \in Turns |-> NoRows]
    /\ handed = [t \in Turns |-> Nothing]

Accept(t) ==
    /\ status[t] = "absent"
    /\ status' = [status EXCEPT ![t] = "running"]
    /\ UNCHANGED <<reply, recorded, handed>>

\* A message that the turn sends on its way.
Say(t) ==
    /\ status[t] = "running" /\ handed[t] = Nothing
    /\ recorded' = [recorded EXCEPT ![t].messages = @ + 1]
    /\ UNCHANGED <<status, reply, handed>>

Settle(t) ==
    /\ status[t] = "running"
    /\ \/ \E s \in Replied, r \in {"blank", "text"} :
             /\ status' = [status EXCEPT ![t] = s]
             /\ reply' = [reply EXCEPT ![t] = r]
       \/ status' = [status EXCEPT ![t] = "failed"] /\ UNCHANGED reply
    /\ UNCHANGED <<recorded, handed>>

Record(t) ==
    /\ status[t] \in Replied /\ reply[t] = "text" /\ recorded[t].reply = 0
    /\ recorded' = [recorded EXCEPT ![t].reply = 1]
    /\ UNCHANGED <<status, reply, handed>>

\* All messages, and the reply if there is one.
HandReply(t) ==
    /\ status[t] \in Replied /\ handed[t] = Nothing
    /\ \/ /\ reply[t] = "text" /\ recorded[t].reply = 1
          /\ handed' = [handed EXCEPT ![t] = Outcome("reply", recorded[t].messages)]
       \/ /\ reply[t] = "blank" /\ recorded[t].reply = 0
          /\ handed' = [handed EXCEPT ![t] = Outcome("silence", recorded[t].messages)]
    /\ UNCHANGED <<status, reply, recorded>>

HandError(t) ==
    /\ status[t] = "failed" \/ DbFailures
    /\ status[t] # "absent" /\ handed[t] = Nothing
    /\ handed' = [handed EXCEPT ![t] = Outcome("error", 0)]
    /\ UNCHANGED <<status, reply, recorded>>

CNext ==
    \E t \in Turns :
        \/ Accept(t) \/ Say(t) \/ Settle(t) \/ Record(t)
        \/ HandReply(t) \/ HandError(t)

CSpec == CInit /\ [][CNext]_<<status, reply, recorded, handed>>
=============================================================================
