------------------------- MODULE IMessageConnector -------------------------
(***************************************************************************)
(* The iMessage connector: scripts/run-imessage-connector.py with           *)
(* IMessageGateway.handle (connectors/imessage/gateway.py).                 *)
(*                                                                         *)
(* Two tasks of one event loop take messages: one polls the latest rows of  *)
(* the Messages database, the other follows `imsg watch`.  What they took   *)
(* is kept in the seen list, in memory and in a file, and both look there   *)
(* first.  Tasks interleave only where they await: at the Director and at   *)
(* a send.  Messages are numbered by date.                                  *)
(***************************************************************************)
EXTENDS Naturals, FiniteSets, Sequences, SequencesExt

CONSTANTS
    NumIMessages,   \* messages are 1..NumIMessages
    IMessageKind,   \* what a message is to the gateway, see IMessageKinds
    Window,         \* rows a poll reads (the code: 10 * 3)
    SeenLimit,      \* length of the seen list (the code: 5000)
    GatewayLimit,   \* length of _recent_message_ids (the code: 1000)
    Provisional,    \* imessage_provisional_reply_enabled
    MaxImCrashes, MaxPersistFailures, MaxSeedFailures, MaxImFailures, MaxRaises
                    \* bounds: deaths of the process, seen files not written,
                    \* failed seedings, failures of the Director or a send,
                    \* exceptions out of handle

IMessages == 1..NumIMessages
Tasks     == {"poll", "watch"}

(* ask: forwarded; local: answered with the error text (too long); observe:   *)
(* kept in the family memory; ignored: own, unknown or not addressed.        *)
IMessageKinds == {"ask", "local", "observe", "ignored"}

ASSUME IMessageOK ==
    /\ NumIMessages \in Nat
    /\ IMessageKind \in [IMessages -> IMessageKinds]
    /\ {Window, SeenLimit, GatewayLimit} \subseteq Nat \ {0}
    /\ Provisional \in BOOLEAN
    /\ {MaxImCrashes, MaxPersistFailures, MaxSeedFailures, MaxImFailures, MaxRaises}
           \subseteq Nat

VARIABLES
    delivered,    \* messages 1..delivered are in the Messages database
    imPhase,      \* "starting" (state loaded, not seeded) or "running"
    seen,         \* SeenMessageStore._ordered_ids
    seenFile,     \* the list on disk
    gwRecent,     \* the gateway's _recent_message_ids
    task,         \* task |-> where it is, with which message and rest of a poll
    watchPos,     \* messages up to here are not in the watch stream any more
    imAsked,      \* history: message |-> times the Director was asked
    imSent,       \* history: message |-> final replies sent
    imFate,       \* history: message |-> whether a task has taken it, or a start
                  \* has put it on the seen list before any did
    seedFailed,   \* history: a seeding has failed
    imBudget      \* what has been used of the bounds

imVars == <<delivered, imPhase, seen, seenFile, gwRecent, task, watchPos,
            imAsked, imSent, imFate, seedFailed, imBudget>>

TaskAt(at, m, rest) == [at |-> at, m |-> m, rest |-> rest]
Off == TaskAt("off", 0, {})
Spend(what) == imBudget[what] > 0 /\ imBudget' = [imBudget EXCEPT ![what] = @ - 1]

IMessageInit ==
    /\ delivered = 0
    /\ imPhase = "starting"
    /\ seen = << >>
    /\ seenFile = << >>
    /\ gwRecent = << >>
    /\ task = [t \in Tasks |-> Off]
    /\ watchPos = 0
    /\ imAsked = [m \in IMessages |-> 0]
    /\ imSent = [m \in IMessages |-> 0]
    /\ imFate = [m \in IMessages |-> "none"]
    /\ seedFailed = FALSE
    /\ imBudget = [crash |-> MaxImCrashes, persist |-> MaxPersistFailures,
                   seed |-> MaxSeedFailures, fail |-> MaxImFailures, raise |-> MaxRaises]

LastOf(s, n) == IF Len(s) <= n THEN s ELSE SubSeq(s, Len(s) - n + 1, Len(s))

(* SeenMessageStore.add with its _prune, and add_many, whose argument is a    *)
(* set: the ids come in any order.                                           *)
Added(s, m)     == IF Contains(s, m) THEN s ELSE LastOf(Append(s, m), SeenLimit)
AddedMany(s, p) ==
    LET after[n \in 0..Len(p)] == IF n = 0 THEN s ELSE Added(after[n - 1], p[n])
    IN  after[Len(p)]

(* persist: the file is replaced by the list, or the OSError is logged.       *)
Persist(list, budget) ==
    \/ seenFile' = list /\ imBudget' = budget
    \/ /\ budget["persist"] > 0
       /\ imBudget' = [budget EXCEPT !["persist"] = @ - 1]
       /\ UNCHANGED seenFile

Recent == {m \in IMessages : m <= delivered /\ delivered < m + Window}

IMessageArrives ==
    /\ delivered < NumIMessages
    /\ delivered' = delivered + 1
    /\ UNCHANGED <<imPhase, seen, seenFile, gwRecent, task, watchPos, imAsked, imSent,
                   imFate, seedFailed, imBudget>>

(* _seed_seen_messages: what is recent at the start counts as seen.  After    *)
(* it the poll task is created; a failure is logged and changes nothing.     *)
Seed ==
    /\ imPhase = "starting"
    /\ \E order \in SetToSeqs(Recent) : seen' = AddedMany(seen, order)
    /\ Persist(seen', imBudget)
    /\ imPhase' = "running"
    /\ imFate' = [m \in IMessages |-> IF m \in Recent /\ imFate[m] = "none"
                                      THEN "skipped" ELSE imFate[m]]
    /\ task' = [task EXCEPT !["poll"].at = "sleeping"]
    /\ UNCHANGED <<delivered, gwRecent, watchPos, imAsked, imSent, seedFailed>>
SeedFails ==
    /\ imPhase = "starting"
    /\ Spend("seed")
    /\ seedFailed' = TRUE
    /\ imPhase' = "running"
    /\ task' = [task EXCEPT !["poll"].at = "sleeping"]
    /\ UNCHANGED <<delivered, seen, seenFile, gwRecent, watchPos, imAsked, imSent,
                   imFate>>

(* imsg watch is started without a row id: it streams what arrives from now.  *)
WatchStarts ==
    /\ imPhase = "running"
    /\ task["watch"].at = "off"
    /\ task' = [task EXCEPT !["watch"].at = "sleeping"]
    /\ watchPos' = delivered
    /\ UNCHANGED <<delivered, imPhase, seen, seenFile, gwRecent, imAsked, imSent,
                   imFate, seedFailed, imBudget>>

(* The watch process ends or fails: the task waits for the shutdown.         *)
WatchEnds ==
    /\ task["watch"].at = "sleeping"
    /\ task' = [task EXCEPT !["watch"].at = "ended"]
    /\ UNCHANGED <<delivered, imPhase, seen, seenFile, gwRecent, watchPos, imAsked,
                   imSent, imFate, seedFailed, imBudget>>

(* Mutant: a poll reads one row.                                             *)
PollListsNewest ==
    /\ task["poll"].at = "sleeping"
    /\ task' = [task EXCEPT !["poll"] = TaskAt("listing", 0, Recent \cap {delivered})]
    /\ UNCHANGED <<delivered, imPhase, seen, seenFile, gwRecent, watchPos, imAsked,
                   imSent, imFate, seedFailed, imBudget>>

(* recent_messages: a snapshot that the task then walks through.             *)
PollLists ==
    /\ task["poll"].at = "sleeping"
    /\ task' = [task EXCEPT !["poll"] = TaskAt("listing", 0, Recent)]
    /\ UNCHANGED <<delivered, imPhase, seen, seenFile, gwRecent, watchPos, imAsked,
                   imSent, imFate, seedFailed, imBudget>>
PollDone ==
    /\ task["poll"].at = "listing"
    /\ task["poll"].rest = {}
    /\ task' = [task EXCEPT !["poll"].at = "sleeping"]
    /\ UNCHANGED <<delivered, imPhase, seen, seenFile, gwRecent, watchPos, imAsked,
                   imSent, imFate, seedFailed, imBudget>>

(* The next message of a task: the least of the list, the next of the stream. *)
IsNextFor(t, m) ==
    CASE t = "poll"  -> /\ task[t].at = "listing"
                        /\ m \in task[t].rest
                        /\ \A n \in task[t].rest : m <= n
      [] t = "watch" -> /\ task[t].at = "sleeping"
                        /\ m = watchPos + 1
                        /\ m <= delivered
Past(t, m)  == IF t = "poll" THEN task[t].rest \ {m} ELSE {}
Ready(t)    == IF t = "poll" THEN "listing" ELSE "sleeping"
Advanced(t, m) == IF t = "watch" THEN m ELSE watchPos

PassSeen(t, m) ==
    /\ IsNextFor(t, m)
    /\ Contains(seen, m)
    /\ task' = [task EXCEPT ![t] = TaskAt(Ready(t), 0, Past(t, m))]
    /\ watchPos' = Advanced(t, m)
    /\ UNCHANGED <<delivered, imPhase, seen, seenFile, gwRecent, imAsked, imSent,
                   imFate, seedFailed, imBudget>>

(* handle up to its first await: what the gateway does with the message.      *)
Duplicate(m) == Contains(gwRecent, m)
Forwards(m)  == IMessageKind[m] = "ask" /\ ~Duplicate(m)
Handling(m)  == IF IMessageKind[m] = "local" THEN "sending"
                ELSE IF Forwards(m) THEN "asking" ELSE "none"

(* Mutant: the message is not recorded before it is handled.                 *)
TakeUnseen(t, m) ==
    /\ IsNextFor(t, m)
    /\ ~Contains(seen, m)
    /\ seen' = seen
    /\ seenFile' = seenFile
    /\ gwRecent' = gwRecent
    /\ imAsked' = IF Forwards(m) THEN [imAsked EXCEPT ![m] = @ + 1] ELSE imAsked
    /\ imFate' = [imFate EXCEPT ![m] = "taken"]
    /\ task' = [task EXCEPT ![t] = TaskAt(
                    IF Handling(m) = "none" THEN Ready(t) ELSE Handling(m), m, Past(t, m))]
    /\ watchPos' = Advanced(t, m)
    /\ UNCHANGED <<delivered, imPhase, imSent, seedFailed, imBudget>>

(* Seen and persisted, whether or not that works, before it is handled.      *)
Take(t, m) ==
    /\ IsNextFor(t, m)
    /\ ~Contains(seen, m)
    /\ seen' = Added(seen, m)
    /\ Persist(seen', imBudget)
    /\ gwRecent' = IF IMessageKind[m] \in {"ask", "observe"} /\ ~Duplicate(m)
                   THEN LastOf(Append(gwRecent, m), GatewayLimit) ELSE gwRecent
    /\ imAsked' = IF Forwards(m) THEN [imAsked EXCEPT ![m] = @ + 1] ELSE imAsked
    /\ imFate' = [imFate EXCEPT ![m] = "taken"]
    /\ task' = [task EXCEPT ![t] =
                   IF Handling(m) = "none" THEN TaskAt(Ready(t), 0, Past(t, m))
                                           ELSE TaskAt(Handling(m), m, Past(t, m))]
    /\ watchPos' = Advanced(t, m)
    /\ UNCHANGED <<delivered, imPhase, imSent, seedFailed>>

Back(t) == [task EXCEPT ![t] = TaskAt(Ready(t), 0, task[t].rest)]

(* The Director is slow: the provisional reply, whether or not it is sent.    *)
SendProvisional(t) ==
    /\ Provisional
    /\ task[t].at = "asking"
    /\ task' = [task EXCEPT ![t].at = "told"]
    /\ UNCHANGED <<delivered, imPhase, seen, seenFile, gwRecent, watchPos, imAsked,
                   imSent, imFate, seedFailed, imBudget>>

DirectorAnswers(t) ==
    /\ task[t].at \in {"asking", "told"}
    /\ task' = [task EXCEPT ![t].at = "sending"]
    /\ UNCHANGED <<delivered, imPhase, seen, seenFile, gwRecent, watchPos, imAsked,
                   imSent, imFate, seedFailed, imBudget>>

(* Any failure of the Director makes handle return None.                     *)
DirectorFails(t) ==
    /\ task[t].at \in {"asking", "told"}
    /\ Spend("fail")
    /\ task' = Back(t)
    /\ UNCHANGED <<delivered, imPhase, seen, seenFile, gwRecent, watchPos, imAsked,
                   imSent, imFate, seedFailed>>

FinalReply(t) ==
    /\ task[t].at = "sending"
    /\ task' = Back(t)
    /\ imSent' = [imSent EXCEPT ![task[t].m] = @ + 1]
    /\ UNCHANGED <<delivered, imPhase, seen, seenFile, gwRecent, watchPos, imAsked,
                   imFate, seedFailed, imBudget>>
FinalReplyFails(t) ==
    /\ task[t].at = "sending"
    /\ Spend("fail")
    /\ task' = Back(t)
    /\ UNCHANGED <<delivered, imPhase, seen, seenFile, gwRecent, watchPos, imAsked,
                   imSent, imFate, seedFailed>>

(* The end of the process and its restart by launchd up to the load: what it  *)
(* remembers is the seen file.                                               *)
Restarted ==
    /\ imPhase' = "starting"
    /\ gwRecent' = << >>
    /\ task' = [t \in Tasks |-> Off]

IMessageCrash ==
    /\ Spend("crash")
    /\ Restarted
    /\ seen' = seenFile
    /\ UNCHANGED <<delivered, seenFile, watchPos, imAsked, imSent, imFate, seedFailed>>

(* The family memory cannot be written and handle raises: the poll task ends  *)
(* without a word, the watch task takes the process with it.                 *)
PersistRaising(list) ==
    /\ imBudget["raise"] > 0
    /\ Persist(list, [imBudget EXCEPT !["raise"] = @ - 1])
PollRaises(m) ==
    /\ IsNextFor("poll", m)
    /\ ~Contains(seen, m)
    /\ IMessageKind[m] = "observe" /\ ~Duplicate(m)
    /\ seen' = Added(seen, m)
    /\ PersistRaising(seen')
    /\ gwRecent' = LastOf(Append(gwRecent, m), GatewayLimit)
    /\ task' = [task EXCEPT !["poll"] = TaskAt("dead", 0, {})]
    /\ imFate' = [imFate EXCEPT ![m] = "taken"]
    /\ UNCHANGED <<delivered, imPhase, watchPos, imAsked, imSent, seedFailed>>
WatchRaises(m) ==
    /\ IsNextFor("watch", m)
    /\ ~Contains(seen, m)
    /\ IMessageKind[m] = "observe" /\ ~Duplicate(m)
    /\ PersistRaising(Added(seen, m))
    /\ seen' = seenFile'
    /\ imFate' = [imFate EXCEPT ![m] = "taken"]
    /\ Restarted
    /\ UNCHANGED <<delivered, watchPos, imAsked, imSent, seedFailed>>

PollRuns ==
    \/ Seed
    \/ PollLists \/ PollDone
    \/ \E m \in IMessages : PassSeen("poll", m) \/ Take("poll", m)
    \/ DirectorAnswers("poll") \/ FinalReply("poll")

WatchRuns ==
    \/ WatchStarts
    \/ \E m \in IMessages : PassSeen("watch", m) \/ Take("watch", m)
    \/ DirectorAnswers("watch") \/ FinalReply("watch")

IMessageFails ==
    \/ SeedFails \/ WatchEnds \/ IMessageCrash
    \/ \E t \in Tasks : SendProvisional(t) \/ DirectorFails(t) \/ FinalReplyFails(t)
    \/ \E m \in IMessages : PollRaises(m) \/ WatchRaises(m)

IMessageNext == IMessageArrives \/ PollRuns \/ WatchRuns \/ IMessageFails

IMessageSpec == IMessageInit /\ [][IMessageNext]_imVars

(* The event loop serves both tasks, and every call they await has a timeout. *)
IMessageFairness == WF_imVars(PollRuns) /\ WF_imVars(WatchRuns)
----------------------------------------------------------------------------
(* Every variable holds what the code may store in it.                       *)
IMessageTypeOK ==
    /\ delivered \in 0..NumIMessages
    /\ imPhase \in {"starting", "running"}
    /\ {seen, seenFile, gwRecent} \subseteq Seq(IMessages)
    /\ Len(seen) <= SeenLimit /\ Len(seenFile) <= SeenLimit
    /\ Len(gwRecent) <= GatewayLimit
    /\ task \in [Tasks -> [at : {"off", "sleeping", "listing", "asking", "told",
                                 "sending", "ended", "dead"},
                           m : 0..NumIMessages, rest : SUBSET IMessages]]
    /\ watchPos \in 0..NumIMessages
    /\ imAsked \in [IMessages -> Nat]
    /\ imSent \in [IMessages -> Nat]
    /\ imFate \in [IMessages -> {"none", "skipped", "taken"}]
    /\ seedFailed \in BOOLEAN
    /\ imBudget \in [{"crash", "persist", "seed", "fail", "raise"} -> Nat]

(* The Director is asked about a message once, whichever task takes it and    *)
(* however often the process starts again, unless the seen list has been full  *)
(* and dropped ids, or could not be written and a seeding failed as well.    *)
MessageOnce ==
    \A m \in IMessages :
        imAsked[m] > 1 =>
            \/ delivered > SeenLimit
            \/ seedFailed /\ imBudget.persist < MaxPersistFailures

(* A message in the window of the poll is taken by one of the tasks, or newer   *)
(* ones push it out of the window, or the poll task has died.  The exception  *)
(* is a start: what is recent when the process seeds its list is skipped by    *)
(* both tasks, be it from before the first start or the loss of a restart.     *)
(* So what arrives while the process runs is lost only to the window, to the   *)
(* death of a task or to a restart that comes first.  Taken is not answered:   *)
(* a failure or the end of the process while it is handled is final.          *)
Skipped(m) == imFate[m] = "skipped"
Taken(m)   == imFate[m] = "taken"
WindowIsServed ==
    \A m \in IMessages :
        []<>(\/ m > delivered \/ Taken(m) \/ Skipped(m) \/ m \notin Recent
             \/ task["poll"].at = "dead")

=============================================================================
