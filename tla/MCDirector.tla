----------------------------- MODULE MCDirector -----------------------------
(* Turns that choose the cloud by hand, one after the other or at once.       *)
EXTENDS DirectorTurn

CloudTurns ==
    [t \in Turns |->
        {r \in TurnRequest :
            /\ r.kind = "chat" /\ r.granted /\ r.via = "cloud" /\ r.tools = "none"
            /\ ~(r.private \/ r.images \/ r.dear \/ r.complex \/ r.instant)}]
=============================================================================
