------------------------- MODULE MCCloydSmithLoop -------------------------
(* Small instances of CloydSmithLoop for TLC. *)
EXTENDS CloydSmithLoop

(* Every job on the default alias. *)
OneAlias == [j \in Jobs |-> MainAlias]

=============================================================================
