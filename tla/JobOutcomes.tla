---------------------------- MODULE JobOutcomes ----------------------------
(* What the worker queue promises: a job is performed at most once, and what *)
(* is recorded for it is the outcome of that performance.                    *)
EXTENDS Sequences

CONSTANTS
    Jobs,
    Outcomes   \* "completed" and "failed"

VARIABLES
    performed,  \* job |-> the outcomes of its performances, in order
    recorded    \* job |-> the recorded outcome, <<>> while there is none

vars == <<performed, recorded>>

Init ==
    /\ performed = [j \in Jobs |-> <<>>]
    /\ recorded = [j \in Jobs |-> <<>>]

Perform(j) ==
    /\ performed[j] = <<>>
    /\ \E o \in Outcomes : performed' = [performed EXCEPT ![j] = <<o>>]
    /\ UNCHANGED recorded

Record(j) ==
    /\ performed[j] # <<>>
    /\ recorded[j] = <<>>
    /\ recorded' = [recorded EXCEPT ![j] = performed[j]]
    /\ UNCHANGED performed

Next == \E j \in Jobs : Perform(j) \/ Record(j)

Spec == Init /\ [][Next]_vars
=============================================================================
