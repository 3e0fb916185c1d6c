----------------------------- MODULE MCServices -----------------------------
(* The services beside the coding loop: small instances of their modules for *)
(* TLC.  They share no variable and each keeps its promises by itself, so a  *)
(* behaviour runs one of them, active, and the others stay as they begin.    *)
EXTENDS TelegramGateway, IMessageConnector, SignalConnector, GmailConnector,
        ConversationMemory, SharedMemory, WorkerJobs, ScheduleDispatch, DirectorTurn,
        AgentTurn, ServiceShepherd

CONSTANTS mailA, mailB, mailC, mars, hera, d1, d2

VARIABLE active

Services == {"telegram", "imessage", "signal", "gmail", "conversation", "shared",
             "workers", "schedules", "director", "agent", "shepherd"}

(* One of every kind of message a connector tells apart.                     *)
SomeUpdates  == <<"silent", "ask", "local", "ask", "noted">>
SomeIMessages == <<"ask", "observe", "local">>
SomeMails    == <<"ask", "local", "ignored">>
SomeSignals  == mailA :> "ask" @@ mailB :> "refused" @@ mailC :> "foreign"

(* Two machines of one class: every job either of them may claim, and jobs   *)
(* of a class that nobody asks for.                                          *)
OneClass == [m \in Machines |-> "monitoring"]

(* One turn with any request, what does not matter on its way left out;      *)
(* another turn, interleaved with it, that chose the cloud by hand.          *)
Plain(r) == ~(r.private \/ r.images \/ r.dear \/ r.complex \/ r.instant)
AnyTurn ==
    {r \in TurnRequest :
        \/ /\ r.kind = "chat" /\ r.granted
           /\ r.dear => r.tools = "none"
           /\ r.dear \/ r.private => r.via \in {"auto", "cloud"}
           /\ r.complex \/ r.instant => r.via = "auto" /\ ~r.images
           /\ r.complex => ~r.instant
        \/ r.kind = "chat" /\ r.tools = "search" /\ r.via = "local" /\ Plain(r)
        \/ r.kind # "chat" /\ r.via = "auto" /\ r.tools = "none" /\ Plain(r)}
CloudTurn ==
    {r \in TurnRequest : /\ r.kind = "chat" /\ r.granted /\ r.via = "cloud"
                         /\ r.tools # "search" /\ Plain(r)}
TwoTurns == <<AnyTurn, CloudTurn>>
-----------------------------------------------------------------------------
svcVars == <<active, tgVars, imVars, sgVars, gmVars, cvVars, smVars, vars, scVars, drVars,
            agVars, shVars>>

ServicesInit ==
    /\ active \in Services
    /\ TelegramInit /\ IMessageInit /\ SignalInit /\ GmailInit
    /\ ConversationInit /\ SharedInit /\ ScheduleInit /\ AgentInit
    /\ Init
    /\ active # "workers" =>
          \A j \in Jobs : row[j].target = AnyMachine /\ row[j].class = "monitoring"
    /\ DirectorInit
    /\ ShepherdInit
    /\ active # "director" => ~(policy.cloud \/ policy.client)
    /\ active # "shepherd" => failing = {} /\ statusFile = Healthy

(* A step of one service; the others stay as they are.                       *)
Only(x) ==
    /\ active = x /\ UNCHANGED active
    /\ x # "telegram"     => UNCHANGED tgVars
    /\ x # "imessage"     => UNCHANGED imVars
    /\ x # "signal"       => UNCHANGED sgVars
    /\ x # "gmail"        => UNCHANGED gmVars
    /\ x # "conversation" => UNCHANGED cvVars
    /\ x # "shared"       => UNCHANGED smVars
    /\ x # "workers"      => UNCHANGED vars
    /\ x # "schedules"    => UNCHANGED scVars
    /\ x # "director"     => UNCHANGED drVars
    /\ x # "agent"        => UNCHANGED agVars
    /\ x # "shepherd"     => UNCHANGED shVars

ServicesNext ==
    \/ Only("telegram")      /\ TelegramNext
    \/ Only("imessage")      /\ IMessageNext
    \/ Only("signal")        /\ SignalNext
    \/ Only("gmail")         /\ GmailNext
    \/ Only("conversation")  /\ ConversationNext
    \/ Only("shared")        /\ SharedNext
    \/ Only("workers")       /\ Next
    \/ Only("schedules")     /\ ScheduleNext
    \/ Only("director")      /\ DirectorNext
    \/ Only("agent")         /\ AgentNext
    \/ Only("shepherd")      /\ ShepherdNext

(* The fairness of every service, as its module states it.  One service runs, *)
(* so the n-th steps of all of them share a condition.                       *)
First ==
    \/ Only("telegram")  /\ TelegramRuns
    \/ Only("imessage")  /\ PollRuns
    \/ Only("signal")    /\ SignalRuns
    \/ Only("gmail")     /\ GmailRuns
    \/ Only("workers")   /\ RunnerStep(mars)
    \/ Only("schedules") /\ Dispatch(d1)
    \/ Only("director")  /\ TurnRuns(1)
    \/ Only("agent")     /\ AgentRuns
Second ==
    \/ Only("imessage")  /\ WatchRuns
    \/ Only("workers")   /\ RunnerStep(hera)
    \/ Only("schedules") /\ Dispatch(d2)
    \/ Only("director")  /\ TurnRuns(2)
Third == Only("schedules") /\ Tick

ServicesFairness == WF_svcVars(First) /\ WF_svcVars(Second) /\ WF_svcVars(Third)

ServicesSpec == ServicesInit /\ [][ServicesNext]_svcVars /\ ServicesFairness
-----------------------------------------------------------------------------
(* In every service each variable holds what its code may store in it.       *)
ServicesTypeOK ==
    /\ TelegramTypeOK /\ IMessageTypeOK /\ SignalTypeOK /\ GmailTypeOK
    /\ ConversationTypeOK /\ SharedTypeOK /\ TypeOK /\ ScheduleTypeOK /\ DirectorTypeOK
    /\ AgentTypeOK /\ ShepherdTypeOK
=============================================================================
