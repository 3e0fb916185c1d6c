------------------------ MODULE ConversationMemory ------------------------
(***************************************************************************)
(* The messages of one conversation in the memory store                     *)
(* (src/freyja/memory/store.py): append_message with its message limit,     *)
(* prune and delete_conversation.                                            *)
(*                                                                         *)
(* Writers are processes on one database file.  The module's lock orders    *)
(* the threads of one process only, so between the transactions of one      *)
(* writer come those of the others: an append takes its timestamp, stores   *)
(* the message and then, in two more statements, lists what exceeds the     *)
(* limit and deletes it by id.                                              *)
(***************************************************************************)
EXTENDS Integers, FiniteSets

CONSTANTS
    Appenders,      \* processes that append
    MessageLimit,   \* memory_max_messages_per_conversation (the code: 1000)
    MaxMessages,    \* bound: messages ever stored
    MaxClock,       \* bound: the last timestamp
    MaxAppendDeaths \* bound: appends cut off

ASSUME ConversationOK ==
    /\ IsFiniteSet(Appenders)
    /\ MessageLimit \in Nat \ {0}
    /\ MaxMessages \in Nat /\ MaxClock \in Nat

VARIABLES
    clock,    \* now
    msgs,     \* rows of the conversation: a message is <<timestamp, rowid>>
    append,   \* writer |-> how far its append_message is
    stored,   \* history: every message that was committed
    purged,   \* history: those that prune or delete_conversation removed
    deaths    \* what has been used of MaxAppendDeaths

cvVars == <<clock, msgs, append, stored, purged, deaths>>

Stamps   == 0..MaxClock
Messages == Stamps \X (1..MaxMessages)
Older(m, n) == m[1] < n[1] \/ (m[1] = n[1] /\ m[2] < n[2])

(* at: idle; stamped, waiting for the lock; committed, the limit not looked   *)
(* at; listed, with the ids to be deleted.                                   *)
AppendState == [at : {"idle", "stamped", "committed", "listed"}, stamp : Stamps,
                ids : SUBSET Messages]
NoAppend == [at |-> "idle", stamp |-> 0, ids |-> {}]

ConversationInit ==
    /\ clock = 0
    /\ msgs = {}
    /\ append = [w \in Appenders |-> NoAppend]
    /\ stored = {}
    /\ purged = {}
    /\ deaths = 0

ClockTicks ==
    /\ clock < MaxClock
    /\ clock' = clock + 1
    /\ UNCHANGED <<msgs, append, stored, purged, deaths>>

Stamp(w) ==
    /\ append[w].at = "idle"
    /\ append' = [append EXCEPT ![w] = [at |-> "stamped", stamp |-> clock, ids |-> {}]]
    /\ UNCHANGED <<clock, msgs, stored, purged, deaths>>

(* The upsert of the conversation and the insert of the message.             *)
NextRow == Cardinality(stored) + 1
Commit(w) ==
    /\ append[w].at = "stamped"
    /\ NextRow <= MaxMessages
    /\ LET m == <<append[w].stamp, NextRow>>
       IN  msgs' = msgs \cup {m} /\ stored' = stored \cup {m}
    /\ append' = [append EXCEPT ![w].at = "committed"]
    /\ UNCHANGED <<clock, purged, deaths>>

(* Mutant: the newest rowids are kept, whatever their timestamps.            *)
KeepsByRow == {keep \in SUBSET msgs :
                  /\ Cardinality(keep) = MessageLimit
                  /\ \A m \in keep, n \in msgs \ keep : m[2] > n[2]}

(* ORDER BY timestamp, rowid: what stays when the oldest are removed.        *)
Keeps == {keep \in SUBSET msgs :
             /\ Cardinality(keep) = MessageLimit
             /\ \A m \in keep, n \in msgs \ keep : Older(n, m)}

Exceeds == Cardinality(msgs) > MessageLimit

(* Mutant: one message is removed, however many are too many.                *)
ListOne(w) ==
    /\ append[w].at = "committed" /\ Exceeds
    /\ \E m \in msgs :
          /\ \A n \in msgs \ {m} : Older(m, n)
          /\ append' = [append EXCEPT ![w].at = "listed", ![w].ids = {m}]
    /\ UNCHANGED <<clock, msgs, stored, purged, deaths>>

(* _enforce_message_limit: the SELECT, then the DELETE of those ids.         *)
ListExcess(w) ==
    /\ append[w].at = "committed" /\ Exceeds
    /\ \E keep \in Keeps :
          append' = [append EXCEPT ![w].at = "listed", ![w].ids = msgs \ keep]
    /\ UNCHANGED <<clock, msgs, stored, purged, deaths>>
WithinLimit(w) ==
    /\ append[w].at = "committed" /\ ~Exceeds
    /\ append' = [append EXCEPT ![w] = NoAppend]
    /\ UNCHANGED <<clock, msgs, stored, purged, deaths>>
DeleteExcess(w) ==
    /\ append[w].at = "listed"
    /\ msgs' = msgs \ append[w].ids
    /\ append' = [append EXCEPT ![w] = NoAppend]
    /\ UNCHANGED <<clock, stored, purged, deaths>>

(* The writer dies, or the database is locked for longer than its timeout.    *)
AppendDies(w) ==
    /\ append[w].at # "idle"
    /\ deaths < MaxAppendDeaths
    /\ deaths' = deaths + 1
    /\ append' = [append EXCEPT ![w] = NoAppend]
    /\ UNCHANGED <<clock, msgs, stored, purged>>

(* prune with any cutoff, and delete_conversation, which cascades.           *)
Prune(cutoff) ==
    /\ cutoff <= clock
    /\ msgs' = {m \in msgs : m[1] >= cutoff}
    /\ purged' = purged \cup (msgs \ msgs')
    /\ UNCHANGED <<clock, append, stored, deaths>>
DeleteConversation ==
    /\ msgs' = {}
    /\ purged' = purged \cup msgs
    /\ UNCHANGED <<clock, append, stored, deaths>>

ConversationNext ==
    \/ ClockTicks
    \/ \E w \in Appenders :
          \/ Stamp(w) \/ Commit(w) \/ ListExcess(w) \/ WithinLimit(w) \/ DeleteExcess(w)
          \/ AppendDies(w)
    \/ \E cutoff \in Stamps : Prune(cutoff)
    \/ DeleteConversation

ConversationSpec == ConversationInit /\ [][ConversationNext]_cvVars
----------------------------------------------------------------------------
(* Every variable holds what the code may store in it, and a rowid names one  *)
(* message.                                                                  *)
ConversationTypeOK ==
    /\ clock \in Stamps
    /\ msgs \subseteq stored /\ purged \subseteq stored
    /\ stored \subseteq Messages
    /\ append \in [Appenders -> AppendState]
    /\ deaths \in Nat

(* The newest MessageLimit messages survive every append: whatever the writers *)
(* do to each other's lists, a message that was not pruned and not deleted     *)
(* is gone only when MessageLimit newer ones were stored.                     *)
NewestKept ==
    \A m \in stored \ (purged \cup msgs) :
        Cardinality({n \in stored : Older(m, n)}) >= MessageLimit

(* The conversation is over its limit by no more than the appends that have    *)
(* not deleted yet, and those that were cut off.                              *)
AtWork == {w \in Appenders : append[w].at \in {"committed", "listed"}}
ConversationBounded ==
    Cardinality(msgs) <= MessageLimit + Cardinality(AtWork) + deaths

=============================================================================
