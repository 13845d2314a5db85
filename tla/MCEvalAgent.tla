----------------------------- MODULE MCEvalAgent -----------------------------
(***************************************************************************)
(* Instances of EvalAgent for TLC: one leg whose delay escalates across    *)
(* the boundaries of the policy.  A .cfg chooses which candidates,         *)
(* messages and replicas take part.                                        *)
(***************************************************************************)
EXTENDS EvalAgent

CONSTANTS delay30, delay89, delay90, m1, m2, m3, m4, m5

Delay(minutes) ==
    [trip |-> "trip", leg |-> "leg", category |-> "DELAY", delay |-> minutes,
     weather |-> "none", corroborated |-> FALSE]

MCFact == [c \in Candidate |-> CASE c = delay30 -> Delay(30)
                                 [] c = delay89 -> Delay(89)
                                 [] c = delay90 -> Delay(90)]

\* m1 and m2 carry the same candidate: a publication repeated after the
\* broker's duplicate window.
MCBody == [m \in Message |-> CASE m \in {m1, m2} -> delay30
                               [] m = m3 -> delay89
                               [] m = m4 -> delay90
                               [] m = m5 -> Unreadable]
=============================================================================
