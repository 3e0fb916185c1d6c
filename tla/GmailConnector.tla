-------------------------- MODULE GmailConnector --------------------------
(***************************************************************************)
(* The Gmail connector: GmailImapSmtpTransport.poll_once                    *)
(* (connectors/gmail/transport.py), GmailGateway.handle                     *)
(* (connectors/gmail/gateway.py) and the loop of                            *)
(* scripts/run-gmail-connector.py.                                          *)
(*                                                                         *)
(* A poll searches the unread mails, and for each fetches it, has it        *)
(* handled, sends the reply and marks the mail read.  The fetch asks for    *)
(* RFC822 in a mailbox selected for writing, and by RFC 3501 that alone     *)
(* marks the mail read: the flag does not wait for the reply.               *)
(***************************************************************************)
EXTENDS Naturals, FiniteSets

CONSTANTS
    NumMails,      \* uids are 1..NumMails
    MailKind,      \* what a mail is to the gateway, see MailKinds
    MaxUnread,     \* bound: times the owner marks a mail unread again
    MaxGmCrashes, MaxGmFailures
                   \* bounds: deaths of the process; fetches, sends and stores
                   \* that fail

Mails == 1..NumMails

(* ask: forwarded; local: answered with the error text (too long); ignored:   *)
(* unknown sender or empty.                                                  *)
MailKinds == {"ask", "local", "ignored"}

ASSUME GmailOK ==
    /\ NumMails \in Nat /\ MailKind \in [Mails -> MailKinds]
    /\ MaxUnread \in Nat /\ MaxGmCrashes \in Nat /\ MaxGmFailures \in Nat

VARIABLES
    inbox,      \* mails in the mailbox
    unread,     \* those without the \Seen flag
    gmPhase,    \* "idle", "polling", "asking", "sending" or "marking"
    gmList,     \* uids of the search that are still to be fetched
    mail,       \* the mail that is being handled, 0 for none
    gmRecent,   \* the gateway's _recent_message_ids; its limit is not reached
    gmAsked,    \* history: mail |-> times the Director was asked
    gmSent,     \* history: mail |-> replies sent
    gmLives,    \* history: times the process was started
    gmBudget    \* what is left of the bounds

gmVars == <<inbox, unread, gmPhase, gmList, mail, gmRecent, gmAsked, gmSent, gmLives,
            gmBudget>>

FullBudget == [crash |-> MaxGmCrashes, fail |-> MaxGmFailures, unread |-> MaxUnread]

GmailInit ==
    /\ inbox = {}
    /\ unread = {}
    /\ gmPhase = "idle"
    /\ gmList = {}
    /\ mail = 0
    /\ gmRecent = {}
    /\ gmAsked = [m \in Mails |-> 0]
    /\ gmSent = [m \in Mails |-> 0]
    /\ gmLives = 1
    /\ gmBudget = FullBudget

SpendGmail(what) ==
    /\ gmBudget[what] > 0
    /\ gmBudget' = [gmBudget EXCEPT ![what] = @ - 1]

MailArrives(m) ==
    /\ m \notin inbox
    /\ inbox' = inbox \cup {m}
    /\ unread' = unread \cup {m}
    /\ UNCHANGED <<gmPhase, gmList, mail, gmRecent, gmAsked, gmSent, gmLives, gmBudget>>

(* The owner of the mailbox, in another client.                              *)
MarkUnread(m) ==
    /\ m \in inbox \ unread
    /\ SpendGmail("unread")
    /\ unread' = unread \cup {m}
    /\ UNCHANGED <<inbox, gmPhase, gmList, mail, gmRecent, gmAsked, gmSent, gmLives>>

(* Mutant: the search starts above the mails that were read.                 *)
SearchAbove ==
    /\ gmPhase = "idle"
    /\ gmList' = {m \in unread : \A n \in inbox \ unread : n < m}
    /\ gmPhase' = "polling"
    /\ UNCHANGED <<inbox, unread, mail, gmRecent, gmAsked, gmSent, gmLives, gmBudget>>

(* The mails unread now; those that arrive later wait for the next poll.     *)
Search ==
    /\ gmPhase = "idle"
    /\ gmList' = unread
    /\ gmPhase' = "polling"
    /\ UNCHANGED <<inbox, unread, mail, gmRecent, gmAsked, gmSent, gmLives, gmBudget>>

IsNextMail(m) ==
    /\ gmPhase = "polling"
    /\ m \in gmList
    /\ \A n \in gmList : m <= n

(* handle: None for what is ignored or known, the error text for what is too  *)
(* long; the rest goes to the Director.                                      *)
Known(m)        == m \in gmRecent
GmForwards(m)   == MailKind[m] = "ask" /\ ~Known(m)
PhaseFor(m)     == IF GmForwards(m) THEN "asking"
                   ELSE IF MailKind[m] = "local" THEN "sending" ELSE "marking"

(* Mutant: the mail is recorded once the Director has answered.              *)
FetchUnrecorded(m) ==
    /\ IsNextMail(m)
    /\ unread' = unread \ {m}
    /\ gmList' = gmList \ {m}
    /\ mail' = m
    /\ gmPhase' = PhaseFor(m)
    /\ gmRecent' = gmRecent
    /\ gmAsked' = IF GmForwards(m) THEN [gmAsked EXCEPT ![m] = @ + 1] ELSE gmAsked
    /\ UNCHANGED <<inbox, gmSent, gmLives, gmBudget>>

FetchAndHandle(m) ==
    /\ IsNextMail(m)
    /\ unread' = unread \ {m}
    /\ gmList' = gmList \ {m}
    /\ mail' = m
    /\ gmPhase' = PhaseFor(m)
    /\ gmRecent' = IF GmForwards(m) THEN gmRecent \cup {m} ELSE gmRecent
    /\ gmAsked' = IF GmForwards(m) THEN [gmAsked EXCEPT ![m] = @ + 1] ELSE gmAsked
    /\ UNCHANGED <<inbox, gmSent, gmLives, gmBudget>>

(* A fetch that is refused leaves the mail for the next poll.                *)
FetchRefused(m) ==
    /\ IsNextMail(m)
    /\ SpendGmail("fail")
    /\ gmList' = gmList \ {m}
    /\ UNCHANGED <<inbox, unread, gmPhase, mail, gmRecent, gmAsked, gmSent, gmLives>>

(* The Director's answer, or the error text for any failure of it.           *)
MailAnswered ==
    /\ gmPhase = "asking"
    /\ gmPhase' = "sending"
    /\ UNCHANGED <<inbox, unread, gmList, mail, gmRecent, gmAsked, gmSent, gmLives,
                   gmBudget>>

SendMail ==
    /\ gmPhase = "sending"
    /\ gmPhase' = "marking"
    /\ gmSent' = [gmSent EXCEPT ![mail] = @ + 1]
    /\ UNCHANGED <<inbox, unread, gmList, mail, gmRecent, gmAsked, gmLives, gmBudget>>

StoreSeen ==
    /\ gmPhase = "marking"
    /\ unread' = unread \ {mail}
    /\ mail' = 0
    /\ gmPhase' = "polling"
    /\ UNCHANGED <<inbox, gmList, gmRecent, gmAsked, gmSent, gmLives, gmBudget>>

(* A lost connection, a send or a store that fails ends the poll; the loop    *)
(* backs off and starts over with a new search.                              *)
GmailPollFails ==
    /\ gmPhase \in {"polling", "sending", "marking"}
    /\ SpendGmail("fail")
    /\ gmPhase' = "idle"
    /\ gmList' = {}
    /\ mail' = 0
    /\ UNCHANGED <<inbox, unread, gmRecent, gmAsked, gmSent, gmLives>>

GmailPollEnds ==
    /\ gmPhase = "polling"
    /\ gmList = {}
    /\ gmPhase' = "idle"
    /\ UNCHANGED <<inbox, unread, gmList, mail, gmRecent, gmAsked, gmSent, gmLives,
                   gmBudget>>

(* The process dies and launchd starts it again.                             *)
GmailCrash ==
    /\ SpendGmail("crash")
    /\ gmPhase' = "idle"
    /\ gmList' = {}
    /\ mail' = 0
    /\ gmRecent' = {}
    /\ gmLives' = gmLives + 1
    /\ UNCHANGED <<inbox, unread, gmAsked, gmSent>>

GmailRuns ==
    \/ Search
    \/ \E m \in Mails : FetchAndHandle(m)
    \/ MailAnswered \/ SendMail \/ StoreSeen
    \/ GmailPollEnds

GmailFails == GmailPollFails \/ GmailCrash \/ \E m \in Mails : FetchRefused(m)

GmailNext == GmailRuns \/ GmailFails \/ \E m \in Mails : MailArrives(m) \/ MarkUnread(m)

GmailSpec == GmailInit /\ [][GmailNext]_gmVars

(* The loop polls for ever and every call it makes ends.                     *)
GmailFairness == WF_gmVars(GmailRuns)
----------------------------------------------------------------------------
(* Every variable holds what the code may store in it.                       *)
GmailTypeOK ==
    /\ unread \subseteq inbox /\ inbox \subseteq Mails
    /\ gmPhase \in {"idle", "polling", "asking", "sending", "marking"}
    /\ gmList \subseteq inbox
    /\ mail \in {0} \cup inbox
    /\ gmRecent \subseteq inbox
    /\ gmAsked \in [Mails -> Nat] /\ gmSent \in [Mails -> Nat]
    /\ gmLives \in Nat
    /\ gmBudget \in [{"crash", "fail", "unread"} -> Nat]

(* A mail is read and acted on once per life of the connector, even when its  *)
(* owner marks it unread, once in all while nobody does, and is answered no   *)
(* more often than it is read.                                               *)
MailOnce ==
    \A m \in Mails :
        /\ gmAsked[m] <= gmLives
        /\ gmBudget.unread = MaxUnread => gmAsked[m] <= 1
        /\ MailKind[m] = "ask" => gmSent[m] <= gmAsked[m]

(* Every unread mail is read in the end.                                     *)
MailIsRead == \A m \in Mails : []<>(m \notin unread)

=============================================================================
