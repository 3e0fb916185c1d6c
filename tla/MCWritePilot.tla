---------------------------- MODULE MCWritePilot ----------------------------
(* Instances of WritePilot: requests for one file, which holds a draft.     *)
(* Requests and Runs are sets of model values that no definition tells apart. *)
EXTENDS WritePilot, TLC

CONSTANTS note, draft
OneTarget == [r \in Requests |-> note]
OneDraft  == [t \in Targets |-> draft]
Alike     == Permutations(Requests) \cup Permutations(Runs)
=============================================================================
