------------------------------ MODULE Transfer ------------------------------
(***************************************************************************)
(* What a convergence layer promises about the messages that are sent over *)
(* a connection, whatever happens in between: the receiver takes whole     *)
(* messages, each once and in the order they were sent, and none that was  *)
(* not handed over; the sender reports success exactly when it handed all  *)
(* of them over.                                                           *)
(***************************************************************************)
EXTENDS Integers, Sequences

CONSTANTS Connections, Messages

VARIABLES
    offered,   \* the messages to be sent over a connection
    handed,    \* how many of them the network has taken over
    taken,     \* the messages the receiver has taken from it
    outcome    \* what the sender reports

Outcomes == {"unused", "pending", "succeeded", "failed"}

Init ==
    /\ offered = [c \in Connections |-> << >>]
    /\ handed = [c \in Connections |-> 0]
    /\ taken = [c \in Connections |-> << >>]
    /\ outcome = [c \in Connections |-> "unused"]

Offer(c) ==
    /\ outcome[c] = "unused"
    /\ outcome' = [outcome EXCEPT ![c] = "pending"]
    /\ offered'[c] \in Seq(Messages)
    /\ offered' = [offered EXCEPT ![c] = offered'[c]]
    /\ UNCHANGED <<handed, taken>>

HandOver(c) ==
    /\ outcome[c] = "pending"
    /\ handed[c] < Len(offered[c])
    /\ handed' = [handed EXCEPT ![c] = @ + 1]
    /\ UNCHANGED <<offered, taken, outcome>>

Take(c) ==
    /\ Len(taken[c]) < handed[c]
    /\ taken' = [taken EXCEPT ![c] = Append(@, offered[c][Len(@) + 1])]
    /\ UNCHANGED <<offered, handed, outcome>>

Settle(c) ==
    /\ outcome[c] = "pending"
    /\ outcome' = [outcome EXCEPT ![c] =
                       IF handed[c] = Len(offered[c]) THEN "succeeded" ELSE "failed"]
    /\ UNCHANGED <<offered, handed, taken>>

Next == \E c \in Connections : Offer(c) \/ HandOver(c) \/ Take(c) \/ Settle(c)

Spec == Init /\ [][Next]_<<offered, handed, taken, outcome>>
=============================================================================
