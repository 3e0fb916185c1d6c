-------------------------- MODULE SignalConnector --------------------------
(***************************************************************************)
(* The Signal connector: SignalRestTransport.poll_once                      *)
(* (connectors/signal/transport.py), SignalGateway.handle                   *)
(* (connectors/signal/gateway.py) and the loop of                           *)
(* scripts/run-signal-connector.py.                                         *)
(*                                                                         *)
(* Receiving takes every waiting event off the REST service, so the batch   *)
(* lives in the memory of the connector alone.  Its events are handled and  *)
(* answered one after the other; the sends are not caught inside the batch. *)
(* The order of the events plays no part: queues are bags, message |-> how  *)
(* many copies of it are there.                                             *)
(***************************************************************************)
EXTENDS Naturals, Sequences, SequencesExt

CONSTANTS
    SignalMessages,    \* message ids
    SignalKind,        \* what a message is to the gateway, see SignalKinds
    SignalLimit,       \* length of _recent_message_ids (the code: 1000)
    MaxCopies,         \* bound: deliveries of one message by the service
    MaxSignalCrashes, MaxSignalFailures
                       \* bounds: deaths of the process; lost responses,
                       \* failures of the Director and of sends

(* ask: forwarded; refused: answered with an error text; foreign: not a data  *)
(* message, or the account's own.                                            *)
SignalKinds == {"ask", "refused", "foreign"}

ASSUME SignalOK ==
    /\ SignalKind \in [SignalMessages -> SignalKinds]
    /\ SignalLimit \in Nat \ {0}
    /\ {MaxCopies, MaxSignalCrashes, MaxSignalFailures} \subseteq Nat

VARIABLES
    service,      \* events waiting at the REST service
    copies,       \* message |-> times it was delivered to the service
    sgPhase,      \* "idle", "handling", "asking", "sending" or "down"
    sgBatch,      \* events received and not handled yet
    sgCurrent,    \* the event that is being handled, at most one
    sgRecent,     \* the gateway's _recent_message_ids
    sgAsked,      \* history: message |-> times the Director was asked
    sgSent,       \* history: message |-> replies sent
    restarts,     \* history: times the process was started again
    sgBudget      \* what is left of the bounds

sgVars == <<service, copies, sgPhase, sgBatch, sgCurrent, sgRecent, sgAsked, sgSent,
            restarts, sgBudget>>

NoEvents == [m \in SignalMessages |-> 0]
Plus(bag, m)  == [bag EXCEPT ![m] = @ + 1]
Minus(bag, m) == [bag EXCEPT ![m] = @ - 1]

SignalInit ==
    /\ service = NoEvents
    /\ copies = NoEvents
    /\ sgPhase = "idle"
    /\ sgBatch = NoEvents
    /\ sgCurrent = {}
    /\ sgRecent = << >>
    /\ sgAsked = NoEvents
    /\ sgSent = NoEvents
    /\ restarts = 0
    /\ sgBudget = [crash |-> MaxSignalCrashes, fail |-> MaxSignalFailures]

SpendSignal(what) ==
    /\ sgBudget[what] > 0
    /\ sgBudget' = [sgBudget EXCEPT ![what] = @ - 1]

(* The service queues a message, and may deliver it once more.               *)
SignalArrives(m) ==
    /\ copies[m] < MaxCopies
    /\ copies' = Plus(copies, m)
    /\ service' = Plus(service, m)
    /\ UNCHANGED <<sgPhase, sgBatch, sgCurrent, sgRecent, sgAsked, sgSent, restarts,
                   sgBudget>>

(* Mutant: receiving leaves the events at the service.                       *)
ReceiveKeeping ==
    /\ sgPhase = "idle"
    /\ sgBatch' = service
    /\ sgPhase' = "handling"
    /\ UNCHANGED <<service, copies, sgCurrent, sgRecent, sgAsked, sgSent, restarts,
                   sgBudget>>

(* GET /v1/receive empties the queue; when the answer is lost the events are  *)
(* gone and the cycle backs off.                                             *)
Receive ==
    /\ sgPhase = "idle"
    /\ sgBatch' = service
    /\ service' = NoEvents
    /\ sgPhase' = "handling"
    /\ UNCHANGED <<copies, sgCurrent, sgRecent, sgAsked, sgSent, restarts, sgBudget>>
ReceiveLost ==
    /\ sgPhase = "idle"
    /\ SpendSignal("fail")
    /\ service' = NoEvents
    /\ UNCHANGED <<copies, sgPhase, sgBatch, sgCurrent, sgRecent, sgAsked, sgSent,
                   restarts>>

IsInBatch(m) == sgPhase = "handling" /\ sgBatch[m] > 0

PassForeign(m) ==
    /\ IsInBatch(m)
    /\ SignalKind[m] = "foreign"
    /\ sgBatch' = Minus(sgBatch, m)
    /\ UNCHANGED <<service, copies, sgPhase, sgCurrent, sgRecent, sgAsked, sgSent,
                   restarts, sgBudget>>

SignalRemembered(m) ==
    LET longer == Append(sgRecent, m)
    IN  IF Len(longer) <= SignalLimit THEN longer ELSE Tail(longer)

(* Mutant: a message is recorded by the batch, not by the process.           *)
RefusesKnown(m) == SignalKind[m] = "refused"

(* A refused message and a duplicate are answered with the same error text.   *)
Refuses(m) == SignalKind[m] = "refused" \/ Contains(sgRecent, m)

(* handle up to its await.                                                   *)
HandleSignal(m) ==
    /\ IsInBatch(m)
    /\ SignalKind[m] # "foreign"
    /\ sgBatch' = Minus(sgBatch, m)
    /\ sgCurrent' = {m}
    /\ \/ /\ Refuses(m)
          /\ sgPhase' = "sending"
          /\ UNCHANGED <<sgRecent, sgAsked>>
       \/ /\ ~Refuses(m)
          /\ sgPhase' = "asking"
          /\ sgRecent' = SignalRemembered(m)
          /\ sgAsked' = Plus(sgAsked, m)
    /\ UNCHANGED <<service, copies, sgSent, restarts, sgBudget>>

SignalAnswered ==
    /\ sgPhase = "asking"
    /\ sgPhase' = "sending"
    /\ UNCHANGED <<service, copies, sgBatch, sgCurrent, sgRecent, sgAsked, sgSent,
                   restarts, sgBudget>>

SendSignal(m) ==
    /\ sgPhase = "sending"
    /\ m \in sgCurrent
    /\ sgSent' = Plus(sgSent, m)
    /\ sgCurrent' = {}
    /\ sgPhase' = "handling"
    /\ UNCHANGED <<service, copies, sgBatch, sgRecent, sgAsked, restarts, sgBudget>>

(* A send that fails raises out of the batch; the loop backs off.            *)
SendSignalFails ==
    /\ sgPhase = "sending"
    /\ SpendSignal("fail")
    /\ sgBatch' = NoEvents
    /\ sgCurrent' = {}
    /\ sgPhase' = "idle"
    /\ UNCHANGED <<service, copies, sgRecent, sgAsked, sgSent, restarts>>

(* The Director fails, handle returns None, and sending None raises what the  *)
(* loop does not catch: the process ends, with what it held.                 *)
SignalDirectorFails ==
    /\ sgPhase = "asking"
    /\ SpendSignal("fail")
    /\ sgBatch' = NoEvents
    /\ sgCurrent' = {}
    /\ sgPhase' = "down"
    /\ UNCHANGED <<service, copies, sgRecent, sgAsked, sgSent, restarts>>
SignalCrash ==
    /\ sgPhase # "down"
    /\ SpendSignal("crash")
    /\ sgBatch' = NoEvents
    /\ sgCurrent' = {}
    /\ sgPhase' = "down"
    /\ UNCHANGED <<service, copies, sgRecent, sgAsked, sgSent, restarts>>

(* Mutant: only a crash is restarted, not a process that ended.              *)
RestartsAfterCrash ==
    /\ sgPhase = "down"
    /\ sgBudget.crash < MaxSignalCrashes
    /\ sgPhase' = "idle"
    /\ sgRecent' = << >>
    /\ restarts' = restarts + 1
    /\ UNCHANGED <<service, copies, sgBatch, sgCurrent, sgAsked, sgSent, sgBudget>>

(* restart: unless-stopped.                                                  *)
SignalRestarts ==
    /\ sgPhase = "down"
    /\ sgPhase' = "idle"
    /\ sgRecent' = << >>
    /\ restarts' = restarts + 1
    /\ UNCHANGED <<service, copies, sgBatch, sgCurrent, sgAsked, sgSent, sgBudget>>

SignalBatchEnds ==
    /\ sgPhase = "handling"
    /\ sgBatch = NoEvents
    /\ sgPhase' = "idle"
    /\ UNCHANGED <<service, copies, sgBatch, sgCurrent, sgRecent, sgAsked, sgSent,
                   restarts, sgBudget>>

SignalRuns ==
    \/ Receive
    \/ \E m \in SignalMessages : PassForeign(m) \/ HandleSignal(m) \/ SendSignal(m)
    \/ SignalAnswered
    \/ SignalBatchEnds
    \/ SignalRestarts

SignalFails == ReceiveLost \/ SendSignalFails \/ SignalDirectorFails \/ SignalCrash

SignalNext == SignalRuns \/ SignalFails \/ \E m \in SignalMessages : SignalArrives(m)

SignalSpec == SignalInit /\ [][SignalNext]_sgVars

(* The loop polls for ever, its requests have timeouts, Docker restarts it.   *)
SignalFairness == WF_sgVars(SignalRuns)
----------------------------------------------------------------------------
(* Every variable holds what the code may store in it.                       *)
SignalTypeOK ==
    /\ service \in [SignalMessages -> Nat] /\ copies \in [SignalMessages -> Nat]
    /\ sgBatch \in [SignalMessages -> Nat]
    /\ sgAsked \in [SignalMessages -> Nat] /\ sgSent \in [SignalMessages -> Nat]
    /\ sgPhase \in {"idle", "handling", "asking", "sending", "down"}
    /\ sgCurrent \subseteq SignalMessages
    /\ sgRecent \in Seq(SignalMessages)
    /\ restarts \in Nat
    /\ sgBudget \in [{"crash", "fail"} -> Nat]

(* However often the service delivers a message, one life of the connector    *)
(* asks the Director about it once: only a restart forgets.  (With no more    *)
(* than SignalLimit messages between two copies, as in the instance.)        *)
SignalOncePerLife == \A m \in SignalMessages : sgAsked[m] <= 1 + restarts

(* Deliveries are conserved: each is waiting, in hand, answered once, or gone *)
(* with a failure; before the first failure none is gone.                    *)
Accounted(m) == service[m] + sgBatch[m] + (IF m \in sgCurrent THEN 1 ELSE 0) + sgSent[m]
DeliveriesConserved ==
    \A m \in SignalMessages :
        /\ Accounted(m) <= copies[m]
        /\ (/\ SignalKind[m] # "foreign"
            /\ sgBudget = [crash |-> MaxSignalCrashes, fail |-> MaxSignalFailures])
                => Accounted(m) = copies[m]

(* The service's queue is emptied again and again: no failure, not even one   *)
(* that ends the process, leaves the connector deaf.                         *)
ServiceIsDrained ==
    \A m \in SignalMessages : []<>(service[m] = 0)

=============================================================================
