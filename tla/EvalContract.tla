----------------------------- MODULE EvalContract -----------------------------
(***************************************************************************)
(* What the Eval Agent promises the services around it: each candidate is   *)
(* decided once, by the policy, in one atomic step with the memory of its   *)
(* episode; what is approved may be announced, as decided, and nothing      *)
(* else.  Of messages, tables, retries and crashes it knows nothing.        *)
(***************************************************************************)
EXTENDS SuppressionPolicy

CONSTANTS
    Candidate,      \* candidate ids
    Fact            \* the policy-relevant fields of each

VARIABLES
    decision,       \* the decision on each candidate
    band,           \* the highest band notified of each episode
    announced       \* the confirmed events

vars == <<decision, band, announced>>

Undecided == [verdict |-> "NONE", reasons |-> {}]

Init ==
    /\ decision = [c \in Candidate |-> Undecided]
    /\ band = [e \in {EpisodeKey(Fact[c]) : c \in Candidate} |-> NoBand]
    /\ announced = {}

Decide(c) ==
    /\ decision[c] = Undecided
    /\ LET e == EpisodeKey(Fact[c])
       IN  /\ decision' = [decision EXCEPT ![c] = Evaluate(Fact[c], band[e])]
           /\ band' = [band EXCEPT ![e] = BandAfter(Fact[c], band[e])]
    /\ UNCHANGED announced

Announce(c) ==
    /\ decision[c].verdict \in {"NOTIFY", "NOTIFY_AND_SEARCH"}
    /\ announced' = announced \cup {[candidate |-> c, decision |-> decision[c]]}
    /\ UNCHANGED <<decision, band>>

Next == \E c \in Candidate : Decide(c) \/ Announce(c)

Spec == Init /\ [][Next]_vars
=============================================================================
