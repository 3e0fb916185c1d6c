-------------------------- MODULE TelegramGateway --------------------------
(***************************************************************************)
(* One Telegram bot: gateway.poll_updates and gateway.handle               *)
(* (connectors/telegram/gateway.py), driven by poll_gateway of             *)
(* scripts/run-telegram-gateway.py.                                         *)
(*                                                                         *)
(* A poll acknowledges what was recorded before, takes a batch, handles it  *)
(* update by update and only then sends the replies it collected.  An       *)
(* update is recorded, in memory and in the offset file, before it is       *)
(* handled.  Update ids ascend and every list of them is in that order, so  *)
(* lists are sets here and the next element is the least.                   *)
(***************************************************************************)
EXTENDS Naturals, FiniteSets

CONSTANTS
    NumUpdates,      \* update ids are 1..NumUpdates
    UpdateKind,      \* what an update is to the gateway, see Kinds
    BatchLimit,      \* updates per poll (the code: 100)
    RecentLimit,     \* length of _recent_update_ids (the code: 1000)
    MaxTgCrashes,    \* bound: times the process dies
    MaxSaveFailures, \* bound: times the offset file cannot be written
    MaxTgSendFailures \* bound: replies that Telegram does not take

Updates == 1..NumUpdates

(* ask: forwarded to the Director; local: refused, or a command the gateway   *)
(* answers itself; noted: recorded without a reply; silent: cannot be parsed  *)
(* or holds no message, and is passed over without a record.                 *)
Kinds == {"ask", "local", "noted", "silent"}

ASSUME TelegramOK ==
    /\ NumUpdates \in Nat
    /\ UpdateKind \in [Updates -> Kinds]
    /\ BatchLimit \in Nat \ {0}
    /\ RecentLimit \in Nat \ {0}

VARIABLES
    arrived,        \* updates 1..arrived have reached Telegram
    confirmed,      \* Telegram has dropped 1..confirmed
    lastOffset,     \* _last_offset
    offsetFile,     \* the offset on disk
    recentUpdates,  \* _recent_update_ids
    tgPhase,        \* where poll_gateway is
    tgBatch,        \* updates of the batch not handled yet
    current,        \* the update at the Director, 0 for none
    tgReplies,      \* updates whose reply is collected and not sent
    tgAsked,        \* history: update |-> times the Director was asked
    tgSent,         \* history: update |-> replies Telegram accepted
    tgCrashes, saveFailures, tgSendFailures \* what has been used of the bounds

tgMemory  == <<lastOffset, recentUpdates, tgPhase, tgBatch, current, tgReplies>>
tgBudget  == <<tgCrashes, saveFailures, tgSendFailures>>
tgVars    == <<arrived, confirmed, offsetFile, tgAsked, tgSent, tgMemory, tgBudget>>

TelegramInit ==
    /\ arrived = 0
    /\ confirmed = 0
    /\ lastOffset = 0
    /\ offsetFile = 0
    /\ recentUpdates = {}
    /\ tgPhase = "idle"
    /\ tgBatch = {}
    /\ current = 0
    /\ tgReplies = {}
    /\ tgAsked = [u \in Updates |-> 0]
    /\ tgSent = [u \in Updates |-> 0]
    /\ tgCrashes = 0 /\ saveFailures = 0 /\ tgSendFailures = 0

IsNext(u, S) == u \in S /\ \A v \in S : u <= v
Larger(a, b) == IF a > b THEN a ELSE b

(* Telegram's side: a new update; getUpdates, which drops what lies below the *)
(* requested offset and returns the first BatchLimit of the rest.            *)
UpdateArrives ==
    /\ arrived < NumUpdates
    /\ arrived' = arrived + 1
    /\ UNCHANGED <<confirmed, offsetFile, tgAsked, tgSent, tgMemory, tgBudget>>

Acknowledged == IF lastOffset = 0 THEN confirmed ELSE Larger(confirmed, lastOffset)
Waiting      == {u \in Updates : Acknowledged < u /\ u <= arrived}
FirstOf(S)   == {u \in S : Cardinality({v \in S : v < u}) < BatchLimit}

(* The request and its answer, or the request alone when the answer is lost.  *)
PollUpdates ==
    /\ tgPhase = "idle"
    /\ confirmed' = Acknowledged
    /\ tgBatch' = FirstOf(Waiting)
    /\ tgPhase' = "handling"
    /\ UNCHANGED <<arrived, offsetFile, tgAsked, tgSent, lastOffset,
                   recentUpdates, current, tgReplies, tgBudget>>
PollLost ==
    /\ tgPhase = "idle"
    /\ confirmed' = Acknowledged
    /\ UNCHANGED <<arrived, offsetFile, tgAsked, tgSent, tgMemory, tgBudget>>

(* Mutant: an update without a message ends the batch.                       *)
SkipRest(u) ==
    /\ tgPhase = "handling"
    /\ IsNext(u, tgBatch)
    /\ UpdateKind[u] = "silent" \/ u \in recentUpdates
    /\ tgBatch' = {}
    /\ UNCHANGED <<arrived, confirmed, offsetFile, tgAsked, tgSent, lastOffset,
                   recentUpdates, tgPhase, current, tgReplies, tgBudget>>

(* Passed over: unparsable, without a message, or a duplicate.               *)
Skip(u) ==
    /\ tgPhase = "handling"
    /\ IsNext(u, tgBatch)
    /\ UpdateKind[u] = "silent" \/ u \in recentUpdates
    /\ tgBatch' = tgBatch \ {u}
    /\ UNCHANGED <<arrived, confirmed, offsetFile, tgAsked, tgSent, lastOffset,
                   recentUpdates, tgPhase, current, tgReplies, tgBudget>>

(* A deque of RecentLimit ids; the oldest is the least.                      *)
Remembered(u) ==
    LET longer == recentUpdates \cup {u}
    IN  {v \in longer : Cardinality({w \in longer : w > v}) < RecentLimit}

IsNew(u) ==
    /\ tgPhase = "handling"
    /\ IsNext(u, tgBatch)
    /\ UpdateKind[u] # "silent"
    /\ u \notin recentUpdates

(* Mutant: the offset is not written until the Director has answered.        *)
RecordLate(u) ==
    /\ IsNew(u)
    /\ recentUpdates' = Remembered(u)
    /\ lastOffset' = u
    /\ offsetFile' = IF UpdateKind[u] = "ask" THEN offsetFile ELSE u
    /\ tgBatch' = tgBatch \ {u}
    /\ tgReplies' = IF UpdateKind[u] = "local" THEN tgReplies \cup {u} ELSE tgReplies
    /\ current' = IF UpdateKind[u] = "ask" THEN u ELSE 0
    /\ tgPhase' = IF UpdateKind[u] = "ask" THEN "asking" ELSE "handling"
    /\ tgAsked' = IF UpdateKind[u] = "ask" THEN [tgAsked EXCEPT ![u] = @ + 1] ELSE tgAsked
    /\ UNCHANGED <<arrived, confirmed, tgSent, tgBudget>>

(* handle up to its first await: recorded, then refused, answered or sent on. *)
Record(u) ==
    /\ IsNew(u)
    /\ recentUpdates' = Remembered(u)
    /\ lastOffset' = u
    /\ offsetFile' = u
    /\ tgBatch' = tgBatch \ {u}
    /\ tgReplies' = IF UpdateKind[u] = "local" THEN tgReplies \cup {u} ELSE tgReplies
    /\ current' = IF UpdateKind[u] = "ask" THEN u ELSE 0
    /\ tgPhase' = IF UpdateKind[u] = "ask" THEN "asking" ELSE "handling"
    /\ tgAsked' = IF UpdateKind[u] = "ask" THEN [tgAsked EXCEPT ![u] = @ + 1] ELSE tgAsked
    /\ UNCHANGED <<arrived, confirmed, tgSent, tgBudget>>

(* Mutant: the replies collected so far go with the batch.                   *)
RecordFailsAll(u) ==
    /\ IsNew(u)
    /\ saveFailures < MaxSaveFailures
    /\ saveFailures' = saveFailures + 1
    /\ recentUpdates' = Remembered(u)
    /\ lastOffset' = u
    /\ offsetFile' \in {offsetFile, u}
    /\ tgBatch' = {}
    /\ tgReplies' = {}
    /\ tgPhase' = "sending"
    /\ UNCHANGED <<arrived, confirmed, tgAsked, tgSent, current, tgCrashes,
                   tgSendFailures>>

(* _save_offset raises, before or after the file is in place: the memory has  *)
(* moved on, the batch ends, the replies collected so far are kept.          *)
RecordFails(u) ==
    /\ IsNew(u)
    /\ saveFailures < MaxSaveFailures
    /\ saveFailures' = saveFailures + 1
    /\ recentUpdates' = Remembered(u)
    /\ lastOffset' = u
    /\ offsetFile' \in {offsetFile, u}
    /\ tgBatch' = {}
    /\ tgPhase' = "sending"
    /\ UNCHANGED <<arrived, confirmed, tgAsked, tgSent, current, tgReplies,
                   tgCrashes, tgSendFailures>>

(* The Director's answer, or a safe error text for any failure of it.        *)
DirectorReturns ==
    /\ tgPhase = "asking"
    /\ tgReplies' = tgReplies \cup {current}
    /\ current' = 0
    /\ tgPhase' = "handling"
    /\ UNCHANGED <<arrived, confirmed, offsetFile, tgAsked, tgSent, lastOffset,
                   recentUpdates, tgBatch, tgBudget>>

BatchEnds ==
    /\ tgPhase = "handling"
    /\ tgBatch = {}
    /\ tgPhase' = "sending"
    /\ UNCHANGED <<arrived, confirmed, offsetFile, tgAsked, tgSent, lastOffset,
                   recentUpdates, tgBatch, current, tgReplies, tgBudget>>

(* Mutant: the last reply goes first.                                        *)
SendLast(u) ==
    /\ tgPhase = "sending"
    /\ u \in tgReplies /\ \A v \in tgReplies : v <= u
    /\ tgReplies' = tgReplies \ {u}
    /\ tgSent' = [tgSent EXCEPT ![u] = @ + 1]
    /\ UNCHANGED <<arrived, confirmed, offsetFile, tgAsked, lastOffset,
                   recentUpdates, tgPhase, tgBatch, current, tgBudget>>

(* send_reply, which swallows its errors: a reply is tried once.             *)
SendReply(u) ==
    /\ tgPhase = "sending"
    /\ IsNext(u, tgReplies)
    /\ tgReplies' = tgReplies \ {u}
    /\ tgSent' = [tgSent EXCEPT ![u] = @ + 1]
    /\ UNCHANGED <<arrived, confirmed, offsetFile, tgAsked, lastOffset,
                   recentUpdates, tgPhase, tgBatch, current, tgBudget>>
SendReplyFails(u) ==
    /\ tgPhase = "sending"
    /\ IsNext(u, tgReplies)
    /\ tgSendFailures < MaxTgSendFailures
    /\ tgSendFailures' = tgSendFailures + 1
    /\ tgReplies' = tgReplies \ {u}
    /\ UNCHANGED <<arrived, confirmed, offsetFile, tgAsked, tgSent, lastOffset,
                   recentUpdates, tgPhase, tgBatch, current, tgCrashes, saveFailures>>

RepliesSent ==
    /\ tgPhase = "sending"
    /\ tgReplies = {}
    /\ tgPhase' = "idle"
    /\ UNCHANGED <<arrived, confirmed, offsetFile, tgAsked, tgSent, lastOffset,
                   recentUpdates, tgBatch, current, tgReplies, tgBudget>>

(* The process dies and launchd starts it again: _load_offset.               *)
TelegramCrash ==
    /\ tgCrashes < MaxTgCrashes
    /\ tgCrashes' = tgCrashes + 1
    /\ lastOffset' = offsetFile
    /\ recentUpdates' = {offsetFile} \ {0}
    /\ tgPhase' = "idle"
    /\ tgBatch' = {}
    /\ current' = 0
    /\ tgReplies' = {}
    /\ UNCHANGED <<arrived, confirmed, offsetFile, tgAsked, tgSent, saveFailures,
                   tgSendFailures>>

TelegramRuns ==
    \/ PollUpdates
    \/ DirectorReturns
    \/ BatchEnds
    \/ RepliesSent
    \/ \E u \in Updates : Skip(u) \/ Record(u) \/ SendReply(u)

TelegramFails ==
    \/ PollLost
    \/ TelegramCrash
    \/ \E u \in Updates : RecordFails(u) \/ SendReplyFails(u)

TelegramNext == UpdateArrives \/ TelegramRuns \/ TelegramFails

TelegramSpec == TelegramInit /\ [][TelegramNext]_tgVars

(* The runner polls for ever and every request it makes has a timeout.       *)
TelegramFairness == WF_tgVars(TelegramRuns)
----------------------------------------------------------------------------
(* Every variable holds what the code may store in it.                       *)
TelegramTypeOK ==
    /\ arrived \in 0..NumUpdates
    /\ confirmed \in 0..NumUpdates
    /\ lastOffset \in 0..NumUpdates
    /\ offsetFile \in 0..NumUpdates
    /\ recentUpdates \subseteq Updates
    /\ tgPhase \in {"idle", "handling", "asking", "sending"}
    /\ tgBatch \subseteq Updates
    /\ current \in 0..NumUpdates
    /\ tgReplies \subseteq Updates
    /\ tgAsked \in [Updates -> Nat]
    /\ tgSent \in [Updates -> Nat]
    /\ tgCrashes \in Nat /\ saveFailures \in Nat /\ tgSendFailures \in Nat

(* Through crashes, unsaved offsets and lost polls the Director is asked      *)
(* about an update at most once, and it is answered at most once: what a      *)
(* message makes the assistant do is never done twice.                       *)
UpdateOnce == \A u \in Updates : tgAsked[u] <= 1 /\ tgSent[u] <= 1

(* Updates that call for a reply, will not be fetched again by this process   *)
(* and have no reply sent, collected or under way.                           *)
Passed   == Larger(lastOffset, confirmed)
LostUpdates ==
    {u \in 1..Passed : /\ UpdateKind[u] \in {"ask", "local"}
                       /\ tgSent[u] = 0
                       /\ u \notin tgReplies
                       /\ u # current}

(* An update is lost only by a failure, and each failure costs what it must:  *)
(* one update for an unsaved offset or an unsent reply, a batch for a crash.  *)
UpdateLossBounded ==
    Cardinality(LostUpdates) <= BatchLimit * tgCrashes + saveFailures + tgSendFailures

(* Replies leave in the order of the messages, across batches and restarts.   *)
RepliesInOrder ==
    [][\A u \in Updates : tgSent'[u] # tgSent[u]
                             => \A v \in Updates : v > u => tgSent[v] = 0]_tgVars

(* Every message that reaches Telegram is taken up in the end, although       *)
(* updates without a message are never acknowledged: they can fill a batch    *)
(* only if there are BatchLimit of them.                                     *)
MessagesTaken ==
    \A u \in Updates :
        []<>(u > arrived \/ UpdateKind[u] = "silent" \/ Passed >= u)

=============================================================================
