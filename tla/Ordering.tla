------------------------------- MODULE Ordering -------------------------------
(***************************************************************************)
(* The order in which Python's sort leaves a list: by a key, which it       *)
(* compares as a tuple; what has one key keeps its order.                   *)
(***************************************************************************)
EXTENDS Integers, FiniteSets

\* One tuple is less than another of its length.
Before(k, l) ==
    \E i \in DOMAIN k : /\ k[i] < l[i]
                        /\ \A j \in 1 .. i - 1 : k[j] = l[j]

\* Of two positions in the list, the one whose element is sorted to the front.
Earlier(key, i, j) == Before(key[i], key[j]) \/ (key[i] = key[j] /\ i < j)

Place(S, key, i) == Cardinality({j \in S : Earlier(key, j, i)})

\* Positions S of a list, in the order of the keys of what is there.
Sorted(S, key) ==
    [n \in 1 .. Cardinality(S) |-> CHOOSE i \in S : Place(S, key, i) = n - 1]
=============================================================================
