------------------------- MODULE MCNotificationAction -------------------------
(***************************************************************************)
(* Instances of NotificationAction for TLC: m1 and m2 carry the same       *)
(* confirmed event, published again by an operator or after the broker's   *)
(* duplicate window.                                                       *)
(***************************************************************************)
EXTENDS NotificationAction, TLC

CONSTANTS d1, m1, m2

MCBody == [m \in Message |-> d1]

MCEvent == [d \in DecisionId |-> [category |-> "DELAY", reasons |-> {"REASON"}]]

MCCandidate ==
    [d \in DecisionId |->
       [delay |-> 45, buffer |-> None, minimum |-> None, weather |-> "none",
        corroborated |-> FALSE]]

\* Processes, requests and the two messages of the event differ only by name.
Symmetry ==
    Permutations(Replica) \cup Permutations(Hook) \cup Permutations(Message)
=============================================================================
