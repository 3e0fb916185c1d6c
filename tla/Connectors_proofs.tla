------------------------- MODULE Connectors_proofs -------------------------
(* Proofs about the processes that stand between the Director and the world:  *)
(* what TelegramGateway, GmailConnector, SignalConnector, IMessageConnector    *)
(* and ServiceShepherd promise, for every number of messages or services,     *)
(* every batch and list limit and every number of failures.                  *)
EXTENDS TelegramGateway, GmailConnector, SignalConnector, IMessageConnector, ServiceShepherd,
        FiniteSetTheorems, SequenceTheorems, WellFoundedInduction, TLAPS

(* Telegram.  An update is at the Director exactly while the gateway asks.    *)
AtDirector == tgPhase = "asking" <=> current # 0
TgTyped    == TelegramTypeOK /\ AtDirector

LEMMA TelegramInitTyped == ASSUME TelegramInit PROVE TgTyped
  BY TelegramOK DEF TelegramOK, TelegramInit, TgTyped, AtDirector, TelegramTypeOK, Updates

LEMMA AcknowledgedTyped ==
  ASSUME TelegramTypeOK
  PROVE  /\ Acknowledged \in 0..NumUpdates
         /\ lastOffset <= Acknowledged /\ confirmed <= Acknowledged
         /\ FirstOf(Waiting) \subseteq {u \in Updates : u > Acknowledged}
  <1>1. Acknowledged \in 0..NumUpdates /\ lastOffset <= Acknowledged
        /\ confirmed <= Acknowledged
    BY TelegramOK DEF TelegramOK, TelegramTypeOK, Acknowledged, Larger
  <1>2. FirstOf(Waiting) \subseteq Waiting
    BY DEF FirstOf
  <1>3. \A u \in Waiting : u \in Updates /\ u > Acknowledged
    BY <1>1, TelegramOK DEF TelegramOK, Waiting, Updates
  <1> QED  BY <1>1, <1>2, <1>3

LEMMA RecordTyped ==
  ASSUME TgTyped, NEW u \in Updates, Record(u)
  PROVE  TgTyped'
  <1>1. u \in 1..NumUpdates /\ u \in 0..NumUpdates /\ u # 0
    BY TelegramOK DEF TelegramOK, Updates
  <1>2. recentUpdates' \subseteq Updates
    BY DEF Record, Remembered, TgTyped, TelegramTypeOK
  <1>3. tgAsked' \in [Updates -> Nat]
    BY DEF Record, TgTyped, TelegramTypeOK
  <1>4. current' \in 0..NumUpdates /\ tgPhase' \in {"handling", "asking"} /\ AtDirector'
    BY <1>1, TelegramOK DEF Record, TelegramOK, AtDirector
  <1>5. tgReplies' \subseteq Updates /\ tgBatch' \subseteq Updates
    BY DEF Record, TgTyped, TelegramTypeOK
  <1> QED  BY <1>1, <1>2, <1>3, <1>4, <1>5 DEF Record, TgTyped, TelegramTypeOK, tgBudget

LEMMA RecordFailsTyped ==
  ASSUME TgTyped, NEW u \in Updates, RecordFails(u)
  PROVE  TgTyped'
  <1>1. u \in 0..NumUpdates
    BY TelegramOK DEF TelegramOK, Updates
  <1>2. recentUpdates' \subseteq Updates
    BY DEF RecordFails, Remembered, TgTyped, TelegramTypeOK
  <1>3. offsetFile' \in 0..NumUpdates /\ saveFailures' \in Nat
    BY <1>1 DEF RecordFails, TgTyped, TelegramTypeOK
  <1>4. tgPhase' = "sending" /\ AtDirector'
    BY DEF RecordFails, IsNew, TgTyped, AtDirector
  <1> QED  BY <1>1, <1>2, <1>3, <1>4 DEF RecordFails, TgTyped, TelegramTypeOK

LEMMA TelegramStepTyped ==
  ASSUME TgTyped, [TelegramNext]_tgVars
  PROVE  TgTyped'
  <1> USE DEF TgTyped, AtDirector, tgMemory, tgBudget
  <1>1. CASE UpdateArrives
    BY <1>1, TelegramOK DEF TelegramOK, TelegramTypeOK, UpdateArrives
  <1>2. CASE PollUpdates
    <2>1. confirmed' \in 0..NumUpdates /\ tgBatch' \subseteq Updates
      BY <1>2, AcknowledgedTyped DEF PollUpdates
    <2> QED  BY <1>2, <2>1 DEF TelegramTypeOK, PollUpdates
  <1>3. CASE PollLost
    <2>1. confirmed' \in 0..NumUpdates
      BY <1>3, AcknowledgedTyped DEF PollLost
    <2> QED  BY <1>3, <2>1 DEF TelegramTypeOK, PollLost
  <1>4. CASE DirectorReturns
    <2>1. current \in Updates
      BY <1>4, TelegramOK DEF TelegramOK, TelegramTypeOK, DirectorReturns, Updates
    <2> QED  BY <1>4, <2>1, TelegramOK DEF TelegramOK, TelegramTypeOK, DirectorReturns
  <1>5. CASE BatchEnds \/ RepliesSent
    BY <1>5 DEF TelegramTypeOK, BatchEnds, RepliesSent
  <1>6. ASSUME NEW u \in Updates, Skip(u) \/ SendReply(u) \/ SendReplyFails(u)
        PROVE  TgTyped'
    BY <1>6 DEF TelegramTypeOK, Skip, SendReply, SendReplyFails
  <1>7. CASE TelegramCrash
    <2>1. {offsetFile} \ {0} \subseteq Updates
      BY TelegramOK DEF TelegramOK, TelegramTypeOK, Updates
    <2> QED  BY <1>7, <2>1, TelegramOK DEF TelegramOK, TelegramTypeOK, TelegramCrash
  <1>8. CASE UNCHANGED tgVars
    BY <1>8 DEF TelegramTypeOK, tgVars
  <1> QED
    BY <1>1, <1>2, <1>3, <1>4, <1>5, <1>6, <1>7, <1>8, RecordTyped, RecordFailsTyped
    DEF TelegramNext, TelegramRuns, TelegramFails

(* The types of a Telegram bot.                                              *)
THEOREM TelegramTypeCorrect == TelegramSpec => []TelegramTypeOK
  <1>1. TgTyped => TelegramTypeOK
    BY DEF TgTyped
  <1> QED  BY <1>1, TelegramInitTyped, TelegramStepTyped, PTL DEF TelegramSpec

----------------------------------------------------------------------------
(* Why nothing is done twice.  The offset on disk is at or above every update *)
(* that was asked about or answered, the offset in memory is at or above it,  *)
(* and a batch lies above the offset in memory: what is recorded is new.  A   *)
(* reply that is still due comes after every reply that was sent.            *)
Touched(u) == tgAsked[u] > 0 \/ tgSent[u] > 0 \/ u \in tgReplies \/ u = current
Owed(u)    == u \in tgReplies \/ u = current
OnceInv ==
    /\ offsetFile <= lastOffset
    /\ \A u \in tgBatch : u > lastOffset
    /\ \A u \in Updates : Touched(u) => u <= offsetFile
    /\ \A u, v \in Updates : Owed(u) /\ tgSent[v] > 0 => v < u
    /\ UpdateOnce

LEMMA OnceInit == ASSUME TelegramInit PROVE OnceInv
  BY TelegramOK DEF TelegramOK, TelegramInit, OnceInv, Touched, Owed, UpdateOnce, Updates

LEMMA RecordIsNew ==
  ASSUME TgTyped, OnceInv, NEW u \in Updates, IsNew(u)
  PROVE  /\ u > lastOffset /\ u > offsetFile
         /\ ~Touched(u)
         /\ \A v \in tgBatch \ {u} : v > u
         /\ \A v \in Updates : tgSent[v] > 0 \/ Owed(v) => v < u
         /\ current = 0
  <1>1. u \in Nat /\ lastOffset \in Nat /\ offsetFile \in Nat /\ tgBatch \subseteq Nat
    BY TelegramOK DEF TelegramOK, TgTyped, TelegramTypeOK, Updates
  <1>2. u > lastOffset /\ u > offsetFile
    BY <1>1 DEF IsNew, IsNext, OnceInv
  <1>3. ~Touched(u)
    BY <1>1, <1>2 DEF OnceInv
  <1>4. \A v \in tgBatch \ {u} : v > u
    BY <1>1 DEF IsNew, IsNext
  <1>5. \A v \in Updates : tgSent[v] > 0 \/ Owed(v) => v < u
    BY <1>1, <1>2, TelegramOK DEF TelegramOK, OnceInv, Touched, Owed, Updates
  <1>6. current = 0
    BY DEF IsNew, TgTyped, AtDirector
  <1> QED  BY <1>2, <1>3, <1>4, <1>5, <1>6

LEMMA RecordOnce ==
  ASSUME TgTyped, OnceInv, NEW u \in Updates, Record(u)
  PROVE  OnceInv'
  <1>1. /\ tgAsked \in [Updates -> Nat] /\ tgSent \in [Updates -> Nat]
        /\ tgReplies \subseteq Updates /\ u \in Nat /\ Updates \subseteq Nat
        /\ 0 \notin Updates /\ offsetFile \in Nat
    BY TelegramOK DEF TelegramOK, TgTyped, TelegramTypeOK, Updates
  <1>2. IsNew(u)
    BY DEF Record
  <1>3. /\ u > offsetFile /\ ~Touched(u) /\ current = 0
        /\ \A v \in tgBatch \ {u} : v > u
        /\ \A v \in Updates : tgSent[v] > 0 \/ Owed(v) => v < u
    BY <1>2, RecordIsNew
  <1>4. offsetFile' = u /\ lastOffset' = u /\ tgBatch' = tgBatch \ {u} /\ tgSent' = tgSent
    BY DEF Record
  <1>5. \A v \in Updates : Owed(v)' => Owed(v) \/ v = u
    BY <1>1 DEF Record, Owed
  <1>6. \A v \in Updates : Touched(v)' => Touched(v) \/ v = u
    BY <1>1, <1>4, <1>5 DEF Record, Touched, Owed
  <1>7. \A v \in Updates : Touched(v)' => v <= offsetFile'
    BY <1>1, <1>3, <1>4, <1>6 DEF OnceInv
  <1>8. \A v, w \in Updates : Owed(v)' /\ tgSent'[w] > 0 => w < v
    <2> SUFFICES ASSUME NEW v \in Updates, NEW w \in Updates, Owed(v)', tgSent'[w] > 0
                 PROVE  w < v
      OBVIOUS
    <2>1. CASE v = u
      BY <1>3, <1>4, <2>1
    <2>2. CASE Owed(v)
      BY <1>4, <2>2 DEF OnceInv
    <2> QED  BY <1>5, <2>1, <2>2
  <1>9. UpdateOnce'
    <2>1. tgAsked[u] = 0
      BY <1>1, <1>3 DEF Touched
    <2>2. \A v \in Updates : tgAsked'[v] <= 1
      BY <1>1, <2>1 DEF Record, OnceInv, UpdateOnce
    <2> QED  BY <1>4, <2>2 DEF OnceInv, UpdateOnce
  <1> QED  BY <1>1, <1>3, <1>4, <1>7, <1>8, <1>9 DEF OnceInv

LEMMA SendOnce ==
  ASSUME TgTyped, OnceInv, NEW u \in Updates, SendReply(u)
  PROVE  OnceInv' /\ \A v \in Updates : v > u => tgSent[v] = 0
  <1>1. /\ tgSent \in [Updates -> Nat] /\ tgReplies \subseteq Updates
        /\ Updates \subseteq Nat /\ current = 0 /\ u \in tgReplies
        /\ 0 \notin Updates
    BY TelegramOK DEF TelegramOK, TgTyped, AtDirector, TelegramTypeOK, Updates, SendReply,
                      IsNext
  <1>2. \A v \in Updates : v > u => tgSent[v] = 0
    BY <1>1 DEF OnceInv, Owed
  <1>3. tgSent[u] = 0
    BY <1>1 DEF OnceInv, Owed
  <1>4. \A v \in Updates : tgSent'[v] > 0 => tgSent[v] > 0 \/ v = u
    BY <1>1 DEF SendReply
  <1>5. \A v \in Updates : Owed(v)' => Owed(v) /\ v > u
    BY <1>1 DEF SendReply, IsNext, Owed
  <1>6. \A v, w \in Updates : Owed(v)' /\ tgSent'[w] > 0 => w < v
    BY <1>1, <1>4, <1>5 DEF OnceInv
  <1>7. \A v \in Updates : Touched(v)' => Touched(v)
    BY <1>1, <1>4, <1>5 DEF SendReply, Touched, Owed
  <1>8. UpdateOnce'
    BY <1>1, <1>3 DEF SendReply, OnceInv, UpdateOnce
  <1> QED  BY <1>1, <1>2, <1>6, <1>7, <1>8 DEF SendReply, OnceInv

LEMMA OnceStep ==
  ASSUME TgTyped, OnceInv, [TelegramNext]_tgVars
  PROVE  OnceInv'
  <1> USE DEF tgMemory, tgBudget
  <1>1. CASE UpdateArrives \/ PollLost
    BY <1>1 DEF UpdateArrives, PollLost, OnceInv, Touched, Owed, UpdateOnce
  <1>2. CASE PollUpdates
    <2>1. \A u \in tgBatch' : u > lastOffset
      <3>1. /\ tgBatch' \subseteq {u \in Updates : u > Acknowledged}
            /\ lastOffset <= Acknowledged /\ Acknowledged \in Nat /\ lastOffset \in Nat
        BY <1>2, AcknowledgedTyped DEF PollUpdates, TgTyped, TelegramTypeOK
      <3>2. Updates \subseteq Nat
        BY TelegramOK DEF TelegramOK, Updates
      <3> QED  BY <3>1, <3>2
    <2> QED  BY <1>2, <2>1 DEF PollUpdates, OnceInv, Touched, Owed, UpdateOnce
  <1>3. CASE DirectorReturns
    <2>1. current \in Updates /\ 0 \notin Updates /\ tgReplies \subseteq Updates
      BY <1>3, TelegramOK
      DEF TelegramOK, TgTyped, AtDirector, TelegramTypeOK, DirectorReturns, Updates
    <2>2. \A u \in Updates : Owed(u)' => Owed(u)
      BY <1>3, <2>1 DEF DirectorReturns, Owed
    <2>3. \A u \in Updates : Touched(u)' => Touched(u)
      BY <1>3, <2>2 DEF DirectorReturns, Touched, Owed
    <2> QED  BY <1>3, <2>1, <2>2, <2>3 DEF DirectorReturns, OnceInv, UpdateOnce
  <1>4. CASE BatchEnds \/ RepliesSent
    BY <1>4 DEF BatchEnds, RepliesSent, OnceInv, Touched, Owed, UpdateOnce
  <1>5. ASSUME NEW u \in Updates, Skip(u) \/ SendReplyFails(u)
        PROVE  OnceInv'
    BY <1>5 DEF Skip, SendReplyFails, OnceInv, Touched, Owed, UpdateOnce
  <1>6. ASSUME NEW u \in Updates, RecordFails(u)
        PROVE  OnceInv'
    <2>1. /\ u > lastOffset /\ u > offsetFile /\ u \in Nat
          /\ offsetFile \in Nat /\ Updates \subseteq Nat
      BY <1>6, RecordIsNew, TelegramOK
      DEF TelegramOK, RecordFails, TgTyped, TelegramTypeOK, Updates
    <2>2. offsetFile <= offsetFile' /\ offsetFile' <= lastOffset' /\ offsetFile' \in Nat
      BY <1>6, <2>1 DEF RecordFails
    <2>3. \A v \in Updates : Touched(v)' = Touched(v) /\ Owed(v)' = Owed(v)
      BY <1>6 DEF RecordFails, Touched, Owed
    <2>4. \A v \in Updates : Touched(v)' => v <= offsetFile'
      BY <2>1, <2>2, <2>3 DEF OnceInv
    <2> QED  BY <1>6, <2>2, <2>3, <2>4 DEF RecordFails, OnceInv, UpdateOnce
  <1>7. CASE TelegramCrash
    <2>1. offsetFile \in Nat /\ 0 \notin Updates
      BY TelegramOK DEF TelegramOK, TgTyped, TelegramTypeOK, Updates
    <2>2. \A v \in Updates : ~Owed(v)' /\ (Touched(v)' => Touched(v))
      BY <1>7, <2>1 DEF TelegramCrash, Touched, Owed
    <2> QED  BY <1>7, <2>1, <2>2 DEF TelegramCrash, OnceInv, UpdateOnce
  <1>8. CASE UNCHANGED tgVars
    BY <1>8 DEF tgVars, OnceInv, Touched, Owed, UpdateOnce
  <1> QED
    BY <1>1, <1>2, <1>3, <1>4, <1>5, <1>6, <1>7, <1>8, RecordOnce, SendOnce
    DEF TelegramNext, TelegramRuns, TelegramFails

(* The Director is asked about an update, and the update is answered, at most *)
(* once, whatever fails and however often the process dies.                  *)
THEOREM TelegramActsOnce == TelegramSpec => []UpdateOnce
  <1>1. OnceInv => UpdateOnce
    BY DEF OnceInv
  <1> QED
    BY <1>1, TelegramInitTyped, TelegramStepTyped, OnceInit, OnceStep, PTL
    DEF TelegramSpec

InOrder(u) == tgSent'[u] # tgSent[u] => \A v \in Updates : v > u => tgSent[v] = 0

LEMMA RepliesOrdered ==
  ASSUME TgTyped, OnceInv, [TelegramNext]_tgVars
  PROVE  \A u \in Updates : InOrder(u)
  <1>1. ASSUME NEW w \in Updates, SendReply(w)
        PROVE  \A u \in Updates : InOrder(u)
    <2>1. \A u \in Updates : tgSent'[u] # tgSent[u] => u = w
      BY <1>1 DEF SendReply, TgTyped, TelegramTypeOK
    <2> QED  BY <1>1, <2>1, SendOnce DEF InOrder
  <1>2. CASE tgSent' = tgSent
    BY <1>2 DEF InOrder
  <1>3. tgSent' = tgSent \/ \E w \in Updates : SendReply(w)
    BY DEF TelegramNext, TelegramRuns, TelegramFails, UpdateArrives, PollUpdates, PollLost,
           DirectorReturns, BatchEnds, RepliesSent, Skip, Record, SendReplyFails,
           RecordFails, TelegramCrash, tgVars
  <1> QED  BY <1>1, <1>2, <1>3

(* Replies leave in the order of the messages.                               *)
THEOREM TelegramKeepsOrder == TelegramSpec => RepliesInOrder
  <1>1. TgTyped /\ OnceInv /\ [TelegramNext]_tgVars
            => [\A u \in Updates : tgSent'[u] # tgSent[u]
                    => \A v \in Updates : v > u => tgSent[v] = 0]_tgVars
    BY RepliesOrdered DEF InOrder
  <1> QED
    BY <1>1, TelegramInitTyped, TelegramStepTyped, OnceInit, OnceStep, PTL
    DEF TelegramSpec, RepliesInOrder

----------------------------------------------------------------------------
(* Gmail.  A mail is at hand exactly while it is asked about, answered or     *)
(* marked.                                                                   *)
AtHand  == gmPhase \in {"asking", "sending", "marking"} <=> mail # 0
GmTyped == GmailTypeOK /\ AtHand

LEMMA GmailInitTyped == ASSUME GmailInit PROVE GmTyped
  BY GmailOK DEF GmailOK, GmailInit, FullBudget, GmTyped, AtHand, GmailTypeOK

LEMMA SpendTyped ==
  ASSUME GmailTypeOK, NEW what \in {"crash", "fail", "unread"}, SpendGmail(what)
  PROVE  /\ gmBudget' \in [{"crash", "fail", "unread"} -> Nat]
         /\ what # "unread" => gmBudget'.unread = gmBudget.unread
         /\ what = "unread" => gmBudget'.unread < gmBudget.unread
  BY DEF SpendGmail, GmailTypeOK

LEMMA GmailStepTyped ==
  ASSUME GmTyped, [GmailNext]_gmVars
  PROVE  GmTyped'
  <1> USE DEF GmTyped, AtHand
  <1>a. 0 \notin Mails
    BY GmailOK DEF GmailOK, Mails
  <1>1. ASSUME NEW m \in Mails, MailArrives(m) PROVE GmTyped'
    BY <1>1 DEF MailArrives, GmailTypeOK
  <1>2. ASSUME NEW m \in Mails, MarkUnread(m) PROVE GmTyped'
    BY <1>2, SpendTyped DEF MarkUnread, GmailTypeOK
  <1>3. CASE Search
    BY <1>3 DEF Search, GmailTypeOK
  <1>4. ASSUME NEW m \in Mails, FetchAndHandle(m) PROVE GmTyped'
    <2>1. m \in inbox /\ m # 0
      BY <1>4, <1>a DEF FetchAndHandle, IsNextMail, GmailTypeOK
    <2>2. gmPhase' \in {"asking", "sending", "marking"}
      BY <1>4 DEF FetchAndHandle, PhaseFor
    <2>3. gmAsked' \in [Mails -> Nat]
      BY <1>4 DEF FetchAndHandle, GmailTypeOK
    <2> QED  BY <1>4, <2>1, <2>2, <2>3 DEF FetchAndHandle, GmailTypeOK
  <1>5. ASSUME NEW m \in Mails, FetchRefused(m) PROVE GmTyped'
    BY <1>5, SpendTyped DEF FetchRefused, GmailTypeOK
  <1>6. CASE MailAnswered \/ StoreSeen \/ GmailPollEnds
    BY <1>6 DEF MailAnswered, StoreSeen, GmailPollEnds, GmailTypeOK
  <1>7. CASE SendMail
    BY <1>7 DEF SendMail, GmailTypeOK
  <1>8. CASE GmailPollFails
    BY <1>8, SpendTyped DEF GmailPollFails, GmailTypeOK
  <1>9. CASE GmailCrash
    BY <1>9, SpendTyped DEF GmailCrash, GmailTypeOK
  <1>10. CASE UNCHANGED gmVars
    BY <1>10 DEF gmVars, GmailTypeOK
  <1> QED
    BY <1>1, <1>2, <1>3, <1>4, <1>5, <1>6, <1>7, <1>8, <1>9, <1>10
    DEF GmailNext, GmailRuns, GmailFails

(* Why a mail is acted on once.  A life of the process asks about a mail only *)
(* while it is not in the list of recent ones; while its owner marks nothing  *)
(* unread, a mail that was asked about is read and no search finds it; the    *)
(* mail at hand has been asked about once more than it was answered.          *)
MailInv ==
    /\ gmLives > 0
    /\ mail \notin gmList
    /\ gmBudget.unread <= MaxUnread
    /\ \A m \in Mails :
          /\ m \notin inbox => gmAsked[m] = 0
          /\ gmAsked[m] <= gmLives
          /\ m \notin gmRecent => gmAsked[m] < gmLives
          /\ MailKind[m] = "ask" => gmSent[m] <= gmAsked[m]
          /\ (m = mail /\ gmPhase \in {"asking", "sending"} /\ MailKind[m] = "ask")
                => gmSent[m] < gmAsked[m]
    /\ gmBudget.unread = MaxUnread =>
          /\ gmList \subseteq unread
          /\ \A m \in Mails : gmAsked[m] <= 1 /\ (m \in unread => gmAsked[m] = 0)

LEMMA MailInit == ASSUME GmailInit PROVE MailInv
  BY GmailOK DEF GmailOK, GmailInit, FullBudget, MailInv

LEMMA FetchKeeps ==
  ASSUME GmTyped, MailInv, NEW m \in Mails, FetchAndHandle(m)
  PROVE  MailInv'
  <1>1. /\ gmAsked \in [Mails -> Nat] /\ gmSent \in [Mails -> Nat] /\ gmLives \in Nat
        /\ m \in gmList /\ m \in inbox /\ gmBudget' = gmBudget
        /\ gmSent' = gmSent /\ gmLives' = gmLives /\ mail' = m
        /\ gmList' = gmList \ {m} /\ unread' = unread \ {m} /\ inbox' = inbox
    BY DEF GmTyped, GmailTypeOK, FetchAndHandle, IsNextMail
  <1>2. CASE GmForwards(m)
    <2>1. /\ gmAsked' = [gmAsked EXCEPT ![m] = @ + 1] /\ gmRecent' = gmRecent \cup {m}
          /\ m \notin gmRecent /\ MailKind[m] = "ask"
      BY <1>2 DEF FetchAndHandle, GmForwards, Known
    <2>2. gmAsked'[m] = gmAsked[m] + 1 /\ \A n \in Mails \ {m} : gmAsked'[n] = gmAsked[n]
      BY <1>1, <2>1
    <2>3. gmAsked[m] < gmLives /\ gmSent[m] <= gmAsked[m]
      BY <2>1 DEF MailInv
    <2>4. gmBudget.unread = MaxUnread => gmAsked[m] = 0
      BY <1>1 DEF MailInv
    <2> QED  BY <1>1, <2>1, <2>2, <2>3, <2>4 DEF MailInv
  <1>3. CASE ~GmForwards(m)
    <2>1. gmAsked' = gmAsked /\ gmRecent' = gmRecent
      BY <1>3 DEF FetchAndHandle
    <2>2. MailKind[m] = "ask" => gmPhase' = "marking"
      BY <1>3 DEF FetchAndHandle, PhaseFor
    <2> QED  BY <1>1, <2>1, <2>2 DEF MailInv
  <1> QED  BY <1>2, <1>3

LEMMA MailStep ==
  ASSUME GmTyped, MailInv, [GmailNext]_gmVars
  PROVE  MailInv'
  <1>1. /\ gmAsked \in [Mails -> Nat] /\ gmSent \in [Mails -> Nat] /\ gmLives \in Nat
        /\ unread \subseteq inbox /\ inbox \subseteq Mails /\ gmList \subseteq inbox
        /\ gmRecent \subseteq inbox /\ 0 \notin Mails /\ MaxUnread \in Nat
        /\ gmBudget.unread \in Nat
    BY GmailOK DEF GmailOK, GmTyped, GmailTypeOK, Mails
  <1>2. ASSUME NEW m \in Mails, MailArrives(m) PROVE MailInv'
    BY <1>1, <1>2 DEF MailArrives, MailInv
  <1>3. ASSUME NEW m \in Mails, MarkUnread(m) PROVE MailInv'
    <2>1. gmBudget'.unread < gmBudget.unread /\ gmBudget'.unread \in Nat
      BY <1>3, SpendTyped DEF MarkUnread, GmTyped
    <2> QED  BY <1>1, <1>3, <2>1 DEF MarkUnread, MailInv
  <1>4. CASE Search
    BY <1>1, <1>4 DEF Search, MailInv, GmTyped, AtHand
  <1>5. ASSUME NEW m \in Mails, FetchRefused(m) PROVE MailInv'
    <2>1. gmBudget'.unread = gmBudget.unread
      BY <1>5, SpendTyped DEF FetchRefused, GmTyped
    <2> QED  BY <1>1, <1>5, <2>1 DEF FetchRefused, MailInv
  <1>6. CASE MailAnswered \/ StoreSeen \/ GmailPollEnds
    BY <1>1, <1>6 DEF MailAnswered, StoreSeen, GmailPollEnds, MailInv
  <1>7. CASE SendMail
    <2>1. \A m \in Mails : gmSent'[m] = IF m = mail THEN gmSent[m] + 1 ELSE gmSent[m]
      BY <1>1, <1>7 DEF SendMail
    <2>2. \A m \in Mails : MailKind[m] = "ask" => gmSent'[m] <= gmAsked[m]
      BY <1>1, <1>7, <2>1 DEF SendMail, MailInv
    <2> QED  BY <1>1, <1>7, <2>2 DEF SendMail, MailInv
  <1>8. CASE GmailPollFails
    <2>1. gmBudget'.unread = gmBudget.unread
      BY <1>8, SpendTyped DEF GmailPollFails, GmTyped
    <2> QED  BY <1>1, <1>8, <2>1 DEF GmailPollFails, MailInv
  <1>9. CASE GmailCrash
    <2>1. gmBudget'.unread = gmBudget.unread
      BY <1>9, SpendTyped DEF GmailCrash, GmTyped
    <2> QED  BY <1>1, <1>9, <2>1 DEF GmailCrash, MailInv
  <1>10. CASE UNCHANGED gmVars
    BY <1>10 DEF gmVars, MailInv
  <1> QED
    BY <1>2, <1>3, <1>4, <1>5, <1>6, <1>7, <1>8, <1>9, <1>10, FetchKeeps
    DEF GmailNext, GmailRuns, GmailFails

(* The types of the Gmail connector.                                         *)
THEOREM GmailTypeCorrect == GmailSpec => []GmailTypeOK
  <1>1. GmTyped => GmailTypeOK
    BY DEF GmTyped
  <1> QED  BY <1>1, GmailInitTyped, GmailStepTyped, PTL DEF GmailSpec

(* A mail is acted on once per life of the connector, once in all while its   *)
(* owner leaves it read, and answered no more often than it was read.         *)
THEOREM GmailActsOnce == GmailSpec => []MailOnce
  <1>1. MailInv => MailOnce
    BY DEF MailInv, MailOnce
  <1> QED
    BY <1>1, GmailInitTyped, GmailStepTyped, MailInit, MailStep, PTL DEF GmailSpec
----------------------------------------------------------------------------
(* Signal.  An event is at hand exactly while the Director is asked or a       *)
(* reply is sent, and only a connector at work holds a batch.                *)
SgTyped ==
    /\ SignalTypeOK
    /\ sgPhase \in {"asking", "sending"} <=> sgCurrent # {}
    /\ \A m, n \in sgCurrent : m = n
    /\ sgPhase \in {"idle", "down"} => \A m \in SignalMessages : sgBatch[m] = 0
    /\ sgBudget["crash"] <= MaxSignalCrashes /\ sgBudget["fail"] <= MaxSignalFailures

LEMMA SignalInitTyped == ASSUME SignalInit PROVE SgTyped
  BY SignalOK DEF SignalOK, SignalInit, SgTyped, SignalTypeOK, NoEvents

LEMMA SignalSpends ==
  ASSUME SgTyped, NEW what \in {"crash", "fail"}, SpendSignal(what)
  PROVE  /\ sgBudget' \in [{"crash", "fail"} -> Nat]
         /\ sgBudget'["crash"] <= MaxSignalCrashes /\ sgBudget'["fail"] <= MaxSignalFailures
         /\ sgBudget' # [crash |-> MaxSignalCrashes, fail |-> MaxSignalFailures]
  BY SignalOK DEF SignalOK, SpendSignal, SgTyped, SignalTypeOK

LEMMA BagSteps ==
  ASSUME NEW bag \in [SignalMessages -> Nat], NEW m \in SignalMessages
  PROVE  /\ Plus(bag, m) \in [SignalMessages -> Nat] /\ Plus(bag, m)[m] = bag[m] + 1
         /\ \A n \in SignalMessages \ {m} : Plus(bag, m)[n] = bag[n]
         /\ bag[m] > 0 => Minus(bag, m) \in [SignalMessages -> Nat]
         /\ Minus(bag, m)[m] = bag[m] - 1
         /\ \A n \in SignalMessages \ {m} : Minus(bag, m)[n] = bag[n]
  BY DEF Plus, Minus

LEMMA HandleTyped ==
  ASSUME SgTyped, NEW m \in SignalMessages, HandleSignal(m)
  PROVE  SgTyped'
  <1>1. sgBatch' \in [SignalMessages -> Nat] /\ sgPhase' \in {"asking", "sending"}
    BY BagSteps DEF HandleSignal, IsInBatch, SgTyped, SignalTypeOK
  <1>2. sgRecent' \in Seq(SignalMessages)
    <2>1. sgRecent \in Seq(SignalMessages)
      BY DEF SgTyped, SignalTypeOK
    <2> DEFINE longer == Append(sgRecent, m)
    <2>2. longer \in Seq(SignalMessages)
      BY <2>1
    <2>3. longer # << >>
      <3>1. Len(longer) = Len(sgRecent) + 1 /\ Len(sgRecent) \in Nat
        BY <2>1
      <3>2. Len(longer) # Len(<< >>)
        BY <3>1
      <3> QED  BY <3>2
    <2>4. Tail(longer) \in Seq(SignalMessages)
      BY <2>2, <2>3
    <2>5. SignalRemembered(m) \in Seq(SignalMessages)
      BY <2>2, <2>4 DEF SignalRemembered
    <2> QED  BY <2>1, <2>5 DEF HandleSignal
  <1>3. sgAsked' \in [SignalMessages -> Nat]
    <2>1. sgAsked \in [SignalMessages -> Nat]
      BY DEF SgTyped, SignalTypeOK
    <2>2. Plus(sgAsked, m) \in [SignalMessages -> Nat]
      BY <2>1, BagSteps
    <2> QED  BY <2>1, <2>2 DEF HandleSignal
  <1> QED  BY <1>1, <1>2, <1>3 DEF HandleSignal, SgTyped, SignalTypeOK

LEMMA SignalStepTyped ==
  ASSUME SgTyped, [SignalNext]_sgVars
  PROVE  SgTyped'
  <1> USE DEF SgTyped
  <1>0. NoEvents \in [SignalMessages -> Nat] /\ \A m \in SignalMessages : NoEvents[m] = 0
    BY DEF NoEvents
  <1>1. ASSUME NEW m \in SignalMessages, SignalArrives(m) PROVE SgTyped'
    BY <1>1, BagSteps DEF SignalArrives, SignalTypeOK
  <1>2. CASE Receive
    BY <1>0, <1>2 DEF Receive, SignalTypeOK
  <1>3. CASE ReceiveLost
    BY <1>0, <1>3, SignalSpends DEF ReceiveLost, SignalTypeOK
  <1>4. ASSUME NEW m \in SignalMessages, PassForeign(m) PROVE SgTyped'
    BY <1>4, BagSteps DEF PassForeign, IsInBatch, SignalTypeOK
  <1>5. CASE SignalAnswered
    BY <1>5 DEF SignalAnswered, SignalTypeOK
  <1>6. ASSUME NEW m \in SignalMessages, SendSignal(m) PROVE SgTyped'
    BY <1>6, BagSteps DEF SendSignal, SignalTypeOK
  <1>7. CASE SendSignalFails \/ SignalDirectorFails
    BY <1>0, <1>7, SignalSpends DEF SendSignalFails, SignalDirectorFails, SignalTypeOK
  <1>8. CASE SignalCrash
    BY <1>0, <1>8, SignalSpends DEF SignalCrash, SignalTypeOK
  <1>9. CASE SignalRestarts
    BY <1>9 DEF SignalRestarts, SignalTypeOK
  <1>10. CASE SignalBatchEnds
    BY <1>0, <1>10 DEF SignalBatchEnds, SignalTypeOK
  <1>11. CASE UNCHANGED sgVars
    BY <1>11 DEF sgVars, SignalTypeOK
  <1> QED
    BY <1>1, <1>2, <1>3, <1>4, <1>5, <1>6, <1>7, <1>8, <1>9, <1>10, <1>11, HandleTyped
    DEF SignalNext, SignalRuns, SignalFails

(* The types of the Signal connector.                                        *)
THEOREM SignalTypeCorrect == SignalSpec => []SignalTypeOK
  <1>1. SgTyped => SignalTypeOK
    BY DEF SgTyped
  <1> QED  BY <1>1, SignalInitTyped, SignalStepTyped, PTL DEF SignalSpec

(* Where a delivery goes.  A failure spends what the connector never gets      *)
(* back, so from the first one on only the bound has to be kept.             *)
InHand(n) == IF n \in sgCurrent THEN 1 ELSE 0

LEMMA DeliveriesStep ==
  ASSUME SgTyped, SgTyped', DeliveriesConserved, [SignalNext]_sgVars
  PROVE  DeliveriesConserved'
  <1> DEFINE full == [crash |-> MaxSignalCrashes, fail |-> MaxSignalFailures]
             held(n) == service[n] + sgBatch[n] + InHand(n) + sgSent[n]
  <1>a. \A n \in SignalMessages : Accounted(n) = held(n) /\ Accounted(n)' = held(n)'
    BY DEF Accounted, InHand
  <1> SUFFICES ASSUME NEW n \in SignalMessages
               PROVE  /\ held(n)' <= copies'[n]
                      /\ (SignalKind[n] # "foreign" /\ sgBudget' = full)
                            => held(n)' = copies'[n]
    BY <1>a DEF DeliveriesConserved
  <1>b. /\ held(n) <= copies[n]
        /\ (SignalKind[n] # "foreign" /\ sgBudget = full) => held(n) = copies[n]
    BY <1>a DEF DeliveriesConserved
  <1>c. /\ service[n] \in Nat /\ sgBatch[n] \in Nat /\ sgSent[n] \in Nat /\ copies[n] \in Nat
        /\ service'[n] \in Nat /\ sgBatch'[n] \in Nat /\ sgSent'[n] \in Nat
        /\ copies'[n] \in Nat /\ InHand(n) \in Nat /\ InHand(n)' \in Nat
    BY DEF SgTyped, SignalTypeOK, InHand
  <1>d. NoEvents[n] = 0
    BY DEF NoEvents
  <1>1. ASSUME NEW m \in SignalMessages, SignalArrives(m)
        PROVE  held(n)' - held(n) = copies'[n] - copies[n] /\ sgBudget' = sgBudget
    <2>1. /\ sgBatch' = sgBatch /\ sgSent' = sgSent /\ InHand(n)' = InHand(n)
          /\ sgBudget' = sgBudget
          /\ service' = Plus(service, m) /\ copies' = Plus(copies, m)
      BY <1>1 DEF SignalArrives, InHand
    <2>2. service'[n] - service[n] = copies'[n] - copies[n]
      <3>1. service \in [SignalMessages -> Nat] /\ copies \in [SignalMessages -> Nat]
        BY DEF SgTyped, SignalTypeOK
      <3>2. service'[n] = IF n = m THEN service[n] + 1 ELSE service[n]
        BY <2>1, <3>1, BagSteps
      <3>3. copies'[n] = IF n = m THEN copies[n] + 1 ELSE copies[n]
        BY <2>1, <3>1, BagSteps
      <3> QED  BY <1>c, <3>2, <3>3
    <2> QED  BY <1>c, <2>1, <2>2
  <1>2. CASE Receive
    <2>1. /\ sgBatch' = service /\ service'[n] = 0 /\ sgBatch[n] = 0 /\ sgSent' = sgSent
          /\ InHand(n)' = InHand(n) /\ copies' = copies /\ sgBudget' = sgBudget
      BY <1>2, <1>d DEF Receive, InHand, SgTyped
    <2> QED  BY <1>b, <1>c, <2>1
  <1>3. CASE ReceiveLost
    <2>1. /\ sgBatch' = sgBatch /\ service'[n] = 0 /\ sgSent' = sgSent
          /\ InHand(n)' = InHand(n) /\ copies' = copies /\ sgBudget' # full
      BY <1>3, <1>d, SignalSpends DEF ReceiveLost, InHand
    <2> QED  BY <1>b, <1>c, <2>1
  <1>4. ASSUME NEW m \in SignalMessages, PassForeign(m)
        PROVE  /\ held(n)' <= held(n) /\ copies' = copies /\ sgBudget' = sgBudget
               /\ SignalKind[n] # "foreign" => held(n)' = held(n)
    <2>1. /\ service' = service /\ sgSent' = sgSent /\ InHand(n)' = InHand(n)
          /\ copies' = copies /\ sgBudget' = sgBudget
          /\ sgBatch' = Minus(sgBatch, m) /\ SignalKind[m] = "foreign"
      BY <1>4 DEF PassForeign, InHand
    <2>2. sgBatch'[n] <= sgBatch[n] /\ (n # m => sgBatch'[n] = sgBatch[n])
      <3>1. sgBatch \in [SignalMessages -> Nat]
        BY DEF SgTyped, SignalTypeOK
      <3>2. sgBatch'[n] = IF n = m THEN sgBatch[n] - 1 ELSE sgBatch[n]
        BY <2>1, <3>1, BagSteps
      <3> QED  BY <1>c, <3>2
    <2> QED  BY <1>c, <2>1, <2>2
  <1>5. ASSUME NEW m \in SignalMessages, HandleSignal(m)
        PROVE  held(n)' = held(n) /\ copies' = copies /\ sgBudget' = sgBudget
    <2>1. /\ service' = service /\ sgSent' = sgSent
          /\ copies' = copies /\ sgBudget' = sgBudget
          /\ sgBatch' = Minus(sgBatch, m) /\ sgCurrent' = {m} /\ sgCurrent = {}
      BY <1>5 DEF HandleSignal, IsInBatch, SgTyped
    <2>2. sgBatch'[n] + InHand(n)' = sgBatch[n] + InHand(n)
      <3>1. sgBatch \in [SignalMessages -> Nat]
        BY DEF SgTyped, SignalTypeOK
      <3>2. InHand(n) = 0 /\ InHand(n)' = IF n = m THEN 1 ELSE 0
        BY <2>1 DEF InHand
      <3>3. sgBatch'[n] = IF n = m THEN sgBatch[n] - 1 ELSE sgBatch[n]
        BY <2>1, <3>1, BagSteps
      <3> QED  BY <1>c, <3>2, <3>3
    <2> QED  BY <1>c, <2>1, <2>2
  <1>6. ASSUME NEW m \in SignalMessages, SendSignal(m)
        PROVE  held(n)' = held(n) /\ copies' = copies /\ sgBudget' = sgBudget
    <2>1. /\ service' = service /\ sgBatch' = sgBatch
          /\ copies' = copies /\ sgBudget' = sgBudget
          /\ sgSent' = Plus(sgSent, m) /\ sgCurrent' = {} /\ sgCurrent = {m}
      BY <1>6 DEF SendSignal, SgTyped
    <2>2. sgSent'[n] + InHand(n)' = sgSent[n] + InHand(n)
      <3>1. sgSent \in [SignalMessages -> Nat]
        BY DEF SgTyped, SignalTypeOK
      <3>2. InHand(n)' = 0 /\ InHand(n) = IF n = m THEN 1 ELSE 0
        BY <2>1 DEF InHand
      <3>3. sgSent'[n] = IF n = m THEN sgSent[n] + 1 ELSE sgSent[n]
        BY <2>1, <3>1, BagSteps
      <3> QED  BY <1>c, <3>2, <3>3
    <2> QED  BY <1>c, <2>1, <2>2
  <1>7. CASE SignalAnswered \/ SignalBatchEnds \/ SignalRestarts \/ UNCHANGED sgVars
    <2>1. /\ service' = service /\ sgBatch' = sgBatch /\ sgSent' = sgSent /\ copies' = copies
          /\ InHand(n)' = InHand(n) /\ sgBudget' = sgBudget
      BY <1>7 DEF SignalAnswered, SignalBatchEnds, SignalRestarts, sgVars, InHand
    <2> QED  BY <1>b, <2>1
  <1>8. CASE SendSignalFails \/ SignalDirectorFails \/ SignalCrash
    <2>1. /\ service' = service /\ sgBatch'[n] = 0 /\ sgSent' = sgSent /\ copies' = copies
          /\ InHand(n)' = 0 /\ sgBudget' # full
      BY <1>8, <1>d, SignalSpends DEF SendSignalFails, SignalDirectorFails, SignalCrash, InHand
    <2> QED  BY <1>b, <1>c, <2>1
  <1> HIDE DEF full
  <1> QED
    BY <1>b, <1>c, <1>1, <1>2, <1>3, <1>4, <1>5, <1>6, <1>7, <1>8
    DEF SignalNext, SignalRuns, SignalFails

(* No delivery is answered twice or invented, and before the first failure     *)
(* none is gone.                                                             *)
THEOREM SignalConserves == SignalSpec => []DeliveriesConserved
  <1>1. SignalInit => DeliveriesConserved
    BY DEF SignalInit, DeliveriesConserved, Accounted, NoEvents
  <1> QED  BY <1>1, SignalInitTyped, SignalStepTyped, DeliveriesStep, PTL DEF SignalSpec
----------------------------------------------------------------------------
(* What a life of the Signal connector remembers, as long as its list drops    *)
(* nothing: every message it asked about, each once.                         *)
OnRecentList(m) == \E i \in 1..Len(sgRecent) : sgRecent[i] = m
LifeInv ==
    /\ \A i, j \in 1..Len(sgRecent) : sgRecent[i] = sgRecent[j] => i = j
    /\ \A m \in SignalMessages :
          /\ sgAsked[m] <= 1 + restarts
          /\ ~OnRecentList(m) /\ sgPhase # "down" => sgAsked[m] <= restarts

LEMMA ListHasRoom ==
  ASSUME IsFiniteSet(SignalMessages), Cardinality(SignalMessages) <= SignalLimit,
         SgTyped, LifeInv, NEW m \in SignalMessages, ~OnRecentList(m)
  PROVE  /\ SignalRemembered(m) = Append(sgRecent, m)
         /\ Len(Append(sgRecent, m)) = Len(sgRecent) + 1
         /\ Append(sgRecent, m)[Len(sgRecent) + 1] = m
         /\ \A i \in 1..Len(sgRecent) : Append(sgRecent, m)[i] = sgRecent[i]
         /\ Len(sgRecent) \in Nat
  <1> DEFINE longer == Append(sgRecent, m)
             n == Len(sgRecent)
             f == [i \in 1..(n + 1) |-> longer[i]]
  <1>1. sgRecent \in Seq(SignalMessages) /\ n \in Nat
    BY DEF SgTyped, SignalTypeOK
  <1>2. Len(longer) = n + 1 /\ longer[n + 1] = m /\ \A i \in 1..n : longer[i] = sgRecent[i]
    BY <1>1
  <1>3. \A i \in 1..n : sgRecent[i] \in SignalMessages /\ sgRecent[i] # m
    BY <1>1 DEF OnRecentList
  <1> HIDE DEF n, longer
  <1>4. f \in [1..(n + 1) -> SignalMessages]
    BY <1>1, <1>2, <1>3
  <1>5. \A i, j \in 1..n : sgRecent[i] = sgRecent[j] => i = j
    BY DEF LifeInv, n
  <1>6. \A i, j \in 1..(n + 1) : f[i] = f[j] => i = j
    BY <1>1, <1>2, <1>3, <1>5
  <1>7. f \in Injection(1..(n + 1), SignalMessages)
    BY <1>4, <1>6 DEF Injection, IsInjective
  <1>8. Cardinality(1..(n + 1)) <= Cardinality(SignalMessages)
    BY <1>7, FS_Injection
  <1>9. Cardinality(1..(n + 1)) = n + 1
    BY <1>1, FS_Interval
  <1>10. n + 1 <= SignalLimit
    <2>1. Cardinality(SignalMessages) \in Nat /\ SignalLimit \in Nat
      BY FS_CardinalityType, SignalOK DEF SignalOK
    <2> QED  BY <1>1, <1>8, <1>9, <2>1
  <1> QED  BY <1>1, <1>2, <1>10 DEF SignalRemembered, longer, n

LEMMA LifeStep ==
  ASSUME IsFiniteSet(SignalMessages), Cardinality(SignalMessages) <= SignalLimit,
         SgTyped, SgTyped', LifeInv, [SignalNext]_sgVars
  PROVE  LifeInv'
  <1>a. restarts \in Nat /\ restarts' \in Nat /\ sgAsked \in [SignalMessages -> Nat]
    BY DEF SgTyped, SignalTypeOK
  <1>1. ASSUME NEW m \in SignalMessages, HandleSignal(m), ~Refuses(m)
        PROVE  LifeInv'
    <2>1. ~OnRecentList(m) /\ sgPhase # "down"
      BY <1>1 DEF HandleSignal, IsInBatch, Refuses, Contains, OnRecentList
    <2>2. sgRecent' = Append(sgRecent, m) /\ sgAsked' = Plus(sgAsked, m)
          /\ restarts' = restarts
      BY <1>1, <2>1, ListHasRoom DEF HandleSignal
    <2> DEFINE n == Len(sgRecent)
    <2>3. /\ n \in Nat /\ Len(sgRecent') = n + 1 /\ sgRecent'[n + 1] = m
          /\ \A i \in 1..n : sgRecent'[i] = sgRecent[i]
      BY <2>1, <2>2, ListHasRoom
    <2>4. \A i \in 1..n : sgRecent[i] # m
      BY <2>1 DEF OnRecentList
    <2>5. \A i, j \in 1..n : sgRecent[i] = sgRecent[j] => i = j
      BY DEF LifeInv
    <2> HIDE DEF n
    <2>6. \A i, j \in 1..Len(sgRecent') : sgRecent'[i] = sgRecent'[j] => i = j
      BY <2>3, <2>4, <2>5
    <2>7. ASSUME NEW k \in SignalMessages
          PROVE  /\ sgAsked'[k] <= 1 + restarts'
                 /\ ~OnRecentList(k)' => sgAsked'[k] <= restarts'
      <3>1. CASE k = m
        <4>1. OnRecentList(k)'
          BY <2>3, <3>1 DEF OnRecentList
        <4>2. sgAsked'[k] = sgAsked[k] + 1 /\ sgAsked[k] <= restarts
          BY <1>a, <2>1, <2>2, <3>1, BagSteps DEF LifeInv
        <4> QED  BY <1>a, <2>2, <4>1, <4>2
      <3>2. CASE k # m
        <4>1. OnRecentList(k) => OnRecentList(k)'
          BY <2>3 DEF OnRecentList, n
        <4>2. sgAsked'[k] = sgAsked[k]
          BY <1>a, <2>2, <3>2, BagSteps
        <4> QED  BY <2>1, <2>2, <4>1, <4>2 DEF LifeInv
      <3> QED  BY <3>1, <3>2
    <2> QED  BY <2>6, <2>7 DEF LifeInv
  <1>2. CASE SignalRestarts
    BY <1>a, <1>2 DEF SignalRestarts, LifeInv, OnRecentList
  <1>3. CASE /\ sgRecent' = sgRecent /\ sgAsked' = sgAsked /\ restarts' = restarts
             /\ sgPhase = "down" => sgPhase' = "down"
    BY <1>3 DEF LifeInv, OnRecentList
  <1>4. ASSUME NEW m \in SignalMessages,
               \/ SignalArrives(m) \/ PassForeign(m) \/ SendSignal(m)
               \/ HandleSignal(m) /\ Refuses(m)
        PROVE  /\ sgRecent' = sgRecent /\ sgAsked' = sgAsked /\ restarts' = restarts
               /\ sgPhase = "down" => sgPhase' = "down"
    BY <1>4 DEF SignalArrives, PassForeign, SendSignal, HandleSignal, IsInBatch
  <1>5. ASSUME \/ Receive \/ ReceiveLost \/ SignalAnswered \/ SignalBatchEnds
               \/ SendSignalFails \/ SignalDirectorFails \/ SignalCrash \/ UNCHANGED sgVars
        PROVE  /\ sgRecent' = sgRecent /\ sgAsked' = sgAsked /\ restarts' = restarts
               /\ sgPhase = "down" => sgPhase' = "down"
    BY <1>5 DEF Receive, ReceiveLost, SignalAnswered, SignalBatchEnds, SendSignalFails,
                SignalDirectorFails, SignalCrash, sgVars
  <1> QED
    BY <1>1, <1>2, <1>3, <1>4, <1>5 DEF SignalNext, SignalRuns, SignalFails

(* While the messages are no more than the list of recent ones holds, one life  *)
(* of the connector asks about a message once, however often it is delivered. *)
THEOREM SignalAsksOncePerLife ==
  ASSUME IsFiniteSet(SignalMessages), Cardinality(SignalMessages) <= SignalLimit
  PROVE  SignalSpec => []SignalOncePerLife
  <1>1. SignalInit => LifeInv
    BY DEF SignalInit, LifeInv, NoEvents
  <1>2. LifeInv => SignalOncePerLife
    BY DEF LifeInv, SignalOncePerLife
  <1> QED
    BY <1>1, <1>2, SignalInitTyped, SignalStepTyped, LifeStep, PTL DEF SignalSpec
----------------------------------------------------------------------------
(* What a failure costs Telegram's users.  First: a poll returns no more than  *)
(* BatchLimit updates, of which the last has fewer than BatchLimit before it.  *)
LEMMA LeastOf ==
  ASSUME NEW T \in SUBSET Nat, T # {}
  PROVE  \E x \in T : \A y \in T : x <= y
  <1> DEFINE R == OpToRel(<, Nat)
  <1>1. IsWellFoundedOn(R, Nat)
    BY NatLessThanWellFounded
  <1>2. \A x, y \in Nat : <<x, y>> \in R <=> x < y
    BY DEF OpToRel
  <1> HIDE DEF R
  <1>3. PICK x \in T : \A y \in T : ~ (<<y, x>> \in R)
    BY <1>1, WFMin
  <1>4. \A y \in T : y \in Nat /\ ~ (y < x)
    BY <1>2, <1>3
  <1>5. x \in Nat
    OBVIOUS
  <1> QED  BY <1>4, <1>5

LEMMA UpdatesFinite == ASSUME NEW S, S \subseteq Updates
                       PROVE  IsFiniteSet(S) /\ Cardinality(S) \in Nat
  <1>1. IsFiniteSet(Updates)
    BY TelegramOK, FS_Interval DEF TelegramOK, Updates
  <1> QED  BY <1>1, FS_Subset, FS_CardinalityType

LEMMA GreatestOf ==
  ASSUME NEW S \in SUBSET Updates, S # {}
  PROVE  \E x \in S : \A y \in S : y <= x
  <1> DEFINE T == {NumUpdates - u : u \in S}
  <1>1. \A u \in S : u \in Nat /\ u <= NumUpdates
    BY TelegramOK DEF TelegramOK, Updates
  <1>2. NumUpdates \in Nat /\ T \subseteq Nat /\ T # {}
    BY <1>1, TelegramOK DEF TelegramOK
  <1>3. PICK t \in T : \A v \in T : t <= v
    BY <1>2, LeastOf
  <1>4. PICK x \in S : t = NumUpdates - x
    OBVIOUS
  <1>5. ASSUME NEW y \in S PROVE y <= x
    <2>1. NumUpdates - x <= NumUpdates - y
      BY <1>3, <1>4
    <2> QED  BY <1>1, <1>2, <2>1
  <1> QED  BY <1>5

LEMMA BatchIsLimited ==
  ASSUME NEW S \in SUBSET Updates
  PROVE  /\ Cardinality(FirstOf(S)) <= BatchLimit
         /\ FirstOf(S) \subseteq S
         /\ \A u \in FirstOf(S), v \in S : v < u => v \in FirstOf(S)
  <1> DEFINE before(u) == {v \in S : v < u}
  <1>1. \A u \in Updates : u \in Nat /\ before(u) \subseteq Updates
    <2>1. \A u \in Updates : u \in Nat
      BY TelegramOK DEF TelegramOK, Updates
    <2> QED  BY <2>1
  <1>2. FirstOf(S) \subseteq S /\ \A u \in S : u \in FirstOf(S) <=> Cardinality(before(u)) < BatchLimit
    BY DEF FirstOf
  <1>3. ASSUME NEW u \in FirstOf(S), NEW v \in S, v < u
        PROVE  v \in FirstOf(S)
    <2>1. before(v) \subseteq before(u)
      BY <1>1, <1>2, <1>3
    <2>2. /\ Cardinality(before(v)) <= Cardinality(before(u))
          /\ Cardinality(before(v)) \in Nat /\ Cardinality(before(u)) \in Nat
      BY <1>1, <1>2, <2>1, UpdatesFinite, FS_Subset
    <2> HIDE DEF before
    <2> QED  BY <1>2, <2>2, TelegramOK DEF TelegramOK
  <1>4. CASE FirstOf(S) = {}
    BY <1>4, FS_EmptySet, TelegramOK DEF TelegramOK
  <1>5. CASE FirstOf(S) # {}
    <2>1. PICK u \in FirstOf(S) : \A v \in FirstOf(S) : v <= u
      BY <1>2, <1>5, GreatestOf
    <2>2. FirstOf(S) \subseteq before(u) \cup {u} /\ u \notin before(u)
      BY <1>1, <1>2, <2>1
    <2>3. IsFiniteSet(before(u)) /\ Cardinality(before(u)) \in Nat
      BY <1>1, <1>2, UpdatesFinite
    <2>4. Cardinality(before(u)) < BatchLimit
      BY <1>2
    <2>5. IsFiniteSet(before(u) \cup {u})
          /\ Cardinality(before(u) \cup {u}) = Cardinality(before(u)) + 1
      BY <2>2, <2>3, FS_AddElement
    <2>6. Cardinality(FirstOf(S)) <= Cardinality(before(u) \cup {u})
          /\ Cardinality(FirstOf(S)) \in Nat
      BY <2>2, <2>5, FS_Subset, FS_CardinalityType
    <2> HIDE DEF before
    <2> QED  BY <1>2, <1>3, <2>3, <2>4, <2>5, <2>6, TelegramOK DEF TelegramOK
  <1> QED  BY <1>2, <1>3, <1>4, <1>5

(* Second: nothing is passed over between what was recorded and what is still   *)
(* to be handled but updates without a message, and what is in hand is no      *)
(* more than one batch.                                                      *)
InGateway == tgBatch \cup tgReplies \cup ({current} \ {0})
GapInv ==
    /\ \A u \in tgBatch : u > Passed
    /\ \A u \in tgBatch, v \in Updates :
          (Passed < v /\ v < u /\ UpdateKind[v] # "silent") => v \in tgBatch
    /\ \A v \in recentUpdates : v <= lastOffset
    /\ tgPhase \in {"idle", "sending"} => tgBatch = {}
    /\ tgPhase = "idle" => tgReplies = {}
    /\ Cardinality(InGateway) <= BatchLimit

LEMMA PassedTyped ==
  ASSUME TelegramTypeOK
  PROVE  /\ Passed \in 0..NumUpdates /\ lastOffset <= Passed /\ confirmed <= Passed
         /\ Passed \in {lastOffset, confirmed} /\ Acknowledged = Passed
  BY TelegramOK DEF TelegramOK, TelegramTypeOK, Passed, Acknowledged, Larger

LEMMA GatewayTyped ==
  ASSUME TgTyped
  PROVE  InGateway \subseteq Updates
  BY TelegramOK DEF TelegramOK, TgTyped, TelegramTypeOK, InGateway, Updates

LEMMA FewerInGateway ==
  ASSUME TgTyped, TgTyped', GapInv, InGateway' \subseteq InGateway
  PROVE  Cardinality(InGateway') <= BatchLimit
  <1>1. Cardinality(InGateway') <= Cardinality(InGateway)
        /\ Cardinality(InGateway) \in Nat /\ Cardinality(InGateway') \in Nat
    BY GatewayTyped, UpdatesFinite, FS_Subset
  <1> QED  BY <1>1, TelegramOK DEF TelegramOK, GapInv

(* The offset moves on to the update that is handled.                        *)
LEMMA OffsetMoves ==
  ASSUME TgTyped, TgTyped', GapInv, NEW u \in Updates, IsNew(u),
         lastOffset' = u, confirmed' = confirmed
  PROVE  /\ Passed' = u /\ u > Passed /\ u \in tgBatch
         /\ \A v \in tgBatch \ {u} : v > u
         /\ \A v \in Updates : (Passed < v /\ v < u) => UpdateKind[v] = "silent"
  <1>1. u \in tgBatch /\ \A v \in tgBatch : u <= v
    BY DEF IsNew, IsNext
  <1>2. \A v \in Updates : v \in Nat
    BY TelegramOK DEF TelegramOK, Updates
  <1>3. tgBatch \subseteq Updates
    BY DEF TgTyped, TelegramTypeOK
  <1>4. u > Passed /\ Passed \in Nat
    BY <1>1, PassedTyped, TelegramOK DEF TelegramOK, GapInv, TgTyped
  <1>5. Passed' = u
    <2>1. confirmed <= Passed /\ confirmed \in Nat
      BY PassedTyped, TelegramOK DEF TelegramOK, TgTyped, TelegramTypeOK
    <2>2. confirmed < u
      BY <1>2, <1>4, <2>1
    <2> QED  BY <1>2, <2>1, <2>2 DEF Passed, Larger
  <1>6. \A v \in tgBatch \ {u} : v > u
    BY <1>1, <1>2, <1>3
  <1>7. ASSUME NEW v \in Updates, Passed < v, v < u
        PROVE  UpdateKind[v] = "silent"
    <2>1. v \notin tgBatch
      BY <1>1, <1>2, <1>7
    <2> QED  BY <1>1, <1>7, <2>1 DEF GapInv
  <1> QED  BY <1>1, <1>4, <1>5, <1>6, <1>7
LEMMA GapStep ==
  ASSUME TgTyped, TgTyped', OnceInv, GapInv, [TelegramNext]_tgVars
  PROVE  GapInv'
  <1> USE DEF tgMemory, tgBudget
  <1>a. /\ Passed \in Nat /\ tgBatch \subseteq Updates /\ \A v \in Updates : v \in Nat /\ v # 0
        /\ lastOffset \in Nat /\ lastOffset <= Passed
    <2>1. \A v \in Updates : v \in Nat /\ v # 0
      BY TelegramOK DEF TelegramOK, Updates
    <2>2. lastOffset \in Nat /\ tgBatch \subseteq Updates
      BY TelegramOK DEF TelegramOK, TgTyped, TelegramTypeOK
    <2>3. Passed \in Nat /\ lastOffset <= Passed
      BY PassedTyped, TelegramOK DEF TelegramOK, TgTyped
    <2> QED  BY <2>1, <2>2, <2>3
  <1>1. CASE PollUpdates
    <2>1. Passed' = Passed
      BY <1>1, PassedTyped, TelegramOK
      DEF TelegramOK, TgTyped, TelegramTypeOK, PollUpdates, Passed, Larger
    <2>2. tgBatch' = FirstOf(Waiting) /\ Waiting \in SUBSET Updates
          /\ \A v \in Waiting : v > Passed
      BY <1>1, <1>a, PassedTyped, TelegramOK
      DEF TelegramOK, TgTyped, TelegramTypeOK, PollUpdates, Waiting
    <2>3. tgBatch' \subseteq Waiting /\ Cardinality(tgBatch') <= BatchLimit
          /\ \A u \in tgBatch', v \in Waiting : v < u => v \in tgBatch'
      BY <2>2, BatchIsLimited
    <2>4. InGateway' = tgBatch'
      BY <1>1 DEF PollUpdates, InGateway, GapInv, TgTyped, AtDirector
    <2>5. ASSUME NEW u \in tgBatch', NEW v \in Updates, Passed < v, v < u
          PROVE  v \in tgBatch'
      <3>1. u <= arrived /\ u \in Nat /\ arrived \in Nat
        BY <1>a, <2>2, <2>3, TelegramOK DEF TelegramOK, Waiting, TgTyped, TelegramTypeOK
      <3>2. v \in Waiting
        BY <1>a, <2>5, <3>1, PassedTyped DEF Waiting, TgTyped
      <3> QED  BY <2>3, <2>5, <3>2
    <2> QED  BY <1>1, <2>1, <2>2, <2>3, <2>4, <2>5 DEF PollUpdates, GapInv
  <1>2. ASSUME NEW u \in Updates, Skip(u)
        PROVE  GapInv'
    <2>1. /\ u \in tgBatch /\ tgBatch' = tgBatch \ {u} /\ Passed' = Passed
          /\ lastOffset' = lastOffset /\ recentUpdates' = recentUpdates
          /\ tgPhase = "handling" /\ tgPhase' = tgPhase
          /\ InGateway' \subseteq InGateway
      BY <1>2 DEF Skip, IsNext, Passed, InGateway
    <2>2. UpdateKind[u] = "silent"
      <3>1. u > Passed
        BY <2>1 DEF GapInv
      <3>2. u \notin recentUpdates
        BY <1>a, <3>1 DEF GapInv
      <3> QED  BY <1>2, <3>2 DEF Skip
    <2>3. \A w \in tgBatch', v \in Updates :
             (Passed < v /\ v < w /\ UpdateKind[v] # "silent") => v \in tgBatch'
      BY <2>1, <2>2 DEF GapInv
    <2> QED  BY <2>1, <2>3, FewerInGateway DEF GapInv
  <1>3. ASSUME NEW u \in Updates, Record(u)
        PROVE  GapInv'
    <2>1. /\ IsNew(u) /\ lastOffset' = u /\ confirmed' = confirmed
          /\ tgBatch' = tgBatch \ {u} /\ tgPhase' \in {"asking", "handling"}
          /\ recentUpdates' \subseteq recentUpdates \cup {u}
      BY <1>3 DEF Record, Remembered
    <2>2. /\ Passed' = u /\ u > Passed /\ u \in tgBatch
          /\ \A v \in tgBatch \ {u} : v > u
      BY <2>1, OffsetMoves
    <2>3. \A v \in recentUpdates' : v <= u
      <3>1. \A v \in recentUpdates : v \in Nat /\ v <= lastOffset
        BY <1>a DEF GapInv, TgTyped, TelegramTypeOK
      <3> QED  BY <1>a, <2>1, <2>2, <3>1
    <2>4. InGateway' \subseteq InGateway
      BY <1>3, <2>2 DEF Record, InGateway
    <2>5. \A w \in tgBatch', v \in Updates :
             (u < v /\ v < w /\ UpdateKind[v] # "silent") => v \in tgBatch'
      BY <1>a, <2>1, <2>2 DEF GapInv
    <2> QED  BY <2>1, <2>2, <2>3, <2>4, <2>5, FewerInGateway DEF GapInv
  <1>4. ASSUME NEW u \in Updates, RecordFails(u)
        PROVE  GapInv'
    <2>1. /\ IsNew(u) /\ lastOffset' = u /\ confirmed' = confirmed
          /\ tgBatch' = {} /\ tgPhase' = "sending"
          /\ recentUpdates' \subseteq recentUpdates \cup {u}
          /\ InGateway' \subseteq InGateway
      BY <1>4 DEF RecordFails, Remembered, InGateway
    <2>2. u > Passed
      BY <2>1, OffsetMoves
    <2>3. \A v \in recentUpdates' : v <= u
      <3>1. \A v \in recentUpdates : v \in Nat /\ v <= lastOffset
        BY <1>a DEF GapInv, TgTyped, TelegramTypeOK
      <3> QED  BY <1>a, <2>1, <2>2, <3>1
    <2> QED  BY <2>1, <2>3, FewerInGateway DEF GapInv
  <1>5. CASE TelegramCrash
    <2>1. /\ tgBatch' = {} /\ tgReplies' = {} /\ current' = 0
          /\ \A v \in recentUpdates' : v <= lastOffset'
      BY <1>5, TelegramOK DEF TelegramOK, TelegramCrash, TgTyped, TelegramTypeOK
    <2>2. InGateway' \subseteq InGateway
      BY <2>1 DEF InGateway
    <2> QED  BY <2>1, <2>2, FewerInGateway DEF GapInv
  <1>6. CASE /\ UNCHANGED <<lastOffset, recentUpdates, tgBatch>> /\ Passed' = Passed
             /\ InGateway' \subseteq InGateway
             /\ tgPhase' \in {"idle", "sending"} => tgBatch = {}
             /\ tgPhase' = "idle" => tgReplies' = {}
    BY <1>6, FewerInGateway DEF GapInv
  <1>7. ASSUME NEW u \in Updates, SendReply(u) \/ SendReplyFails(u)
        PROVE  /\ UNCHANGED <<lastOffset, recentUpdates, tgBatch>> /\ Passed' = Passed
               /\ InGateway' \subseteq InGateway
               /\ tgPhase' \in {"idle", "sending"} => tgBatch = {}
               /\ tgPhase' = "idle" => tgReplies' = {}
    BY <1>7 DEF SendReply, SendReplyFails, GapInv, InGateway, Passed
  <1>8. ASSUME UpdateArrives \/ PollLost \/ UNCHANGED tgVars
        PROVE  /\ UNCHANGED <<lastOffset, recentUpdates, tgBatch>> /\ Passed' = Passed
               /\ InGateway' \subseteq InGateway
               /\ tgPhase' \in {"idle", "sending"} => tgBatch = {}
               /\ tgPhase' = "idle" => tgReplies' = {}
    <2>1. Passed' = Passed
      BY <1>8, PassedTyped, TelegramOK
      DEF TelegramOK, UpdateArrives, PollLost, tgVars, Passed, Larger, TgTyped, TelegramTypeOK
    <2> QED  BY <1>8, <2>1 DEF UpdateArrives, PollLost, tgVars, GapInv, InGateway
  <1>9. ASSUME DirectorReturns \/ BatchEnds \/ RepliesSent
        PROVE  /\ UNCHANGED <<lastOffset, recentUpdates, tgBatch>> /\ Passed' = Passed
               /\ InGateway' \subseteq InGateway
               /\ tgPhase' \in {"idle", "sending"} => tgBatch = {}
               /\ tgPhase' = "idle" => tgReplies' = {}
    BY <1>9 DEF DirectorReturns, BatchEnds, RepliesSent, GapInv, InGateway, Passed, TgTyped,
                AtDirector
  <1> QED
    BY <1>1, <1>2, <1>3, <1>4, <1>5, <1>6, <1>7, <1>8, <1>9
    DEF TelegramNext, TelegramRuns, TelegramFails
(* Third: which step loses what.                                             *)
LEMMA LostTyped ==
  ASSUME TgTyped
  PROVE  LostUpdates \subseteq Updates
  <1>1. Passed \in 0..NumUpdates
    BY PassedTyped DEF TgTyped
  <1>2. 1..Passed \subseteq Updates
    BY <1>1, TelegramOK DEF TelegramOK, Updates
  <1> QED  BY <1>2 DEF LostUpdates

(* What passing over updates without a message, or the step that takes up u,   *)
(* leaves of the lost ones.                                                  *)
LEMMA LostByRecord ==
  ASSUME TgTyped, TgTyped', GapInv, NEW u \in Updates, IsNew(u),
         lastOffset' = u, confirmed' = confirmed, tgSent' = tgSent,
         tgReplies \subseteq tgReplies', current = 0
  PROVE  /\ LostUpdates' \subseteq LostUpdates \cup {u}
         /\ u \in LostUpdates' => /\ UpdateKind[u] \in {"ask", "local"}
                                 /\ u \notin tgReplies' /\ u # current'
  <1>1. /\ Passed' = u /\ u > Passed /\ Passed \in Nat /\ u \in Nat
        /\ \A v \in Updates : (Passed < v /\ v < u) => UpdateKind[v] = "silent"
    <2>1. Passed \in Nat /\ u \in Nat
      BY PassedTyped, TelegramOK DEF TelegramOK, TgTyped, Updates
    <2> QED  BY <2>1, OffsetMoves
  <1>2. ASSUME NEW v \in LostUpdates', v # u
        PROVE  v \in LostUpdates
    <2>1. v \in Updates /\ v \in 1..u /\ UpdateKind[v] \in {"ask", "local"}
          /\ tgSent[v] = 0 /\ v \notin tgReplies
      <3>1. 1..u \subseteq Updates
        BY TelegramOK DEF TelegramOK, Updates
      <3> QED  BY <1>1, <3>1 DEF LostUpdates
    <2>2. ~(Passed < v)
      BY <1>1, <1>2, <2>1
    <2>3. v \in 1..Passed /\ v # 0
      BY <1>1, <2>1, <2>2
    <2> QED  BY <2>1, <2>3 DEF LostUpdates
  <1> QED  BY <1>2 DEF LostUpdates

LossBound == BatchLimit * tgCrashes + saveFailures + tgSendFailures

LEMMA LostCounted ==
  ASSUME TgTyped, TgTyped', UpdateLossBounded, NEW S \in SUBSET Updates, NEW k \in Nat,
         Cardinality(S) <= k, LostUpdates' \subseteq LostUpdates \cup S,
         LossBound' = LossBound + k
  PROVE  UpdateLossBounded'
  <1>1. /\ LostUpdates \subseteq Updates /\ LostUpdates \cup S \subseteq Updates
        /\ LostUpdates' \subseteq Updates
    BY LostTyped
  <1>2. /\ IsFiniteSet(LostUpdates) /\ Cardinality(LostUpdates) \in Nat
        /\ IsFiniteSet(S) /\ Cardinality(S) \in Nat
        /\ IsFiniteSet(LostUpdates \cup S) /\ Cardinality(LostUpdates \cup S) \in Nat
        /\ Cardinality(LostUpdates') \in Nat /\ Cardinality(LostUpdates \cap S) \in Nat
    BY <1>1, UpdatesFinite
  <1>3. Cardinality(LostUpdates \cup S) <= Cardinality(LostUpdates) + Cardinality(S)
    <2>1. Cardinality(LostUpdates \cup S)
            = Cardinality(LostUpdates) + Cardinality(S) - Cardinality(LostUpdates \cap S)
      BY <1>2, FS_Union
    <2> QED  BY <1>2, <2>1
  <1>4. Cardinality(LostUpdates') <= Cardinality(LostUpdates \cup S)
    BY <1>2, FS_Subset
  <1>5. LossBound \in Nat
    BY TelegramOK DEF TelegramOK, LossBound, TgTyped, TelegramTypeOK
  <1>6. Cardinality(LostUpdates) <= LossBound
    BY DEF UpdateLossBounded, LossBound
  <1>7. Cardinality(LostUpdates') <= LossBound'
    BY <1>2, <1>3, <1>4, <1>5, <1>6
  <1> QED  BY <1>7 DEF UpdateLossBounded, LossBound

LEMMA LossStep ==
  ASSUME TgTyped, TgTyped', OnceInv, GapInv, UpdateLossBounded, [TelegramNext]_tgVars
  PROVE  UpdateLossBounded'
  <1> USE DEF tgMemory, tgBudget
  <1>a. /\ BatchLimit \in Nat /\ tgCrashes \in Nat /\ saveFailures \in Nat
        /\ tgSendFailures \in Nat
    BY TelegramOK DEF TelegramOK, TgTyped, TelegramTypeOK
  <1>b. \A S : S = {} => Cardinality(S) <= 0
    BY FS_EmptySet
  <1>c. \A u : Cardinality({u}) <= 1
    <2>1. \A u : Cardinality({u}) = 1
      BY FS_Singleton
    <2> QED  BY <2>1
  <1>d. ASSUME LostUpdates' \subseteq LostUpdates, UNCHANGED tgBudget
        PROVE  UpdateLossBounded'
    <2>1. LossBound' = LossBound + 0
      BY <1>a, <1>d DEF LossBound
    <2>2. LostUpdates' \subseteq LostUpdates \cup {}
      BY <1>d
    <2> QED  BY <1>b, <2>1, <2>2, LostCounted
  <1>1. ASSUME NEW u \in Updates, Record(u)
        PROVE  UpdateLossBounded'
    <2>1. /\ IsNew(u) /\ lastOffset' = u /\ confirmed' = confirmed /\ tgSent' = tgSent
          /\ tgReplies \subseteq tgReplies' /\ current = 0 /\ UNCHANGED tgBudget
          /\ UpdateKind[u] = "ask" => current' = u
          /\ UpdateKind[u] = "local" => u \in tgReplies'
      BY <1>1 DEF Record, IsNew, TgTyped, AtDirector
    <2>2. LostUpdates' \subseteq LostUpdates \cup {u} /\ u \notin LostUpdates'
      BY <2>1, LostByRecord
    <2> QED  BY <1>d, <2>1, <2>2
  <1>2. ASSUME NEW u \in Updates, RecordFails(u)
        PROVE  UpdateLossBounded'
    <2>1. /\ IsNew(u) /\ lastOffset' = u /\ confirmed' = confirmed /\ tgSent' = tgSent
          /\ tgReplies \subseteq tgReplies' /\ current = 0
          /\ saveFailures' = saveFailures + 1
          /\ tgCrashes' = tgCrashes /\ tgSendFailures' = tgSendFailures
      BY <1>2 DEF RecordFails, IsNew, TgTyped, AtDirector
    <2>2. LostUpdates' \subseteq LostUpdates \cup {u}
      BY <2>1, LostByRecord
    <2>3. LossBound' = LossBound + 1
      BY <1>a, <2>1 DEF LossBound
    <2> QED  BY <1>c, <2>2, <2>3, LostCounted
  <1>3. ASSUME NEW u \in Updates, SendReplyFails(u)
        PROVE  UpdateLossBounded'
    <2>1. LostUpdates' \subseteq LostUpdates \cup {u}
      BY <1>3 DEF SendReplyFails, LostUpdates, Passed
    <2>2. LossBound' = LossBound + 1
      BY <1>a, <1>3 DEF LossBound, SendReplyFails
    <2> QED  BY <1>c, <2>1, <2>2, LostCounted
  <1>4. CASE TelegramCrash
    <2>1. /\ lastOffset' = offsetFile /\ offsetFile <= lastOffset /\ confirmed' = confirmed
          /\ tgSent' = tgSent /\ tgReplies' = {} /\ current' = 0
      BY <1>4 DEF TelegramCrash, OnceInv
    <2>2. Passed \in Nat /\ Passed' \in Nat /\ Passed' <= Passed
      BY <2>1, TelegramOK DEF TelegramOK, Passed, Larger, TgTyped, TelegramTypeOK
    <2>3. LostUpdates' \subseteq LostUpdates \cup InGateway
      <3>1. ASSUME NEW v \in LostUpdates' PROVE v \in LostUpdates \cup InGateway
        <4>1. /\ v \in 1..Passed' /\ UpdateKind[v] \in {"ask", "local"} /\ tgSent[v] = 0
          BY <2>1 DEF LostUpdates
        <4>2. v \in 1..Passed /\ v # 0
          BY <2>2, <4>1
        <4> QED  BY <4>1, <4>2 DEF LostUpdates, InGateway
      <3> QED  BY <3>1
    <2>4. LossBound' = LossBound + BatchLimit
      <3>1. tgCrashes' = tgCrashes + 1 /\ saveFailures' = saveFailures
            /\ tgSendFailures' = tgSendFailures
        BY <1>4 DEF TelegramCrash
      <3>2. BatchLimit * (tgCrashes + 1) = BatchLimit * tgCrashes + BatchLimit
            /\ BatchLimit * tgCrashes \in Nat
        BY <1>a
      <3> QED  BY <1>a, <3>1, <3>2 DEF LossBound
    <2>5. InGateway \subseteq Updates /\ Cardinality(InGateway) <= BatchLimit
      BY GatewayTyped DEF GapInv
    <2> QED  BY <1>a, <2>3, <2>4, <2>5, LostCounted
  <1>5. ASSUME PollUpdates \/ PollLost
        PROVE  Passed' = Passed /\ UNCHANGED <<tgSent, tgReplies, current, tgBudget>>
    <2>1. Passed' = Passed
      BY <1>5, PassedTyped, TelegramOK
      DEF TelegramOK, TgTyped, TelegramTypeOK, PollUpdates, PollLost, Passed, Larger
    <2> QED  BY <1>5, <2>1 DEF PollUpdates, PollLost
  <1>6. CASE Passed' = Passed /\ UNCHANGED <<tgSent, tgReplies, current, tgBudget>>
    BY <1>d, <1>6 DEF LostUpdates
  <1>7. ASSUME \/ UpdateArrives \/ BatchEnds \/ RepliesSent \/ UNCHANGED tgVars
               \/ \E u \in Updates : Skip(u)
        PROVE  Passed' = Passed /\ UNCHANGED <<tgSent, tgReplies, current, tgBudget>>
    BY <1>7 DEF UpdateArrives, BatchEnds, RepliesSent, Skip, tgVars, Passed
  <1>8. ASSUME DirectorReturns \/ \E u \in Updates : SendReply(u)
        PROVE  UpdateLossBounded'
    <2>1. LostUpdates' \subseteq LostUpdates /\ UNCHANGED tgBudget
      <3>1. CASE DirectorReturns
        BY <3>1 DEF DirectorReturns, LostUpdates, Passed
      <3>2. ASSUME NEW u \in Updates, SendReply(u)
            PROVE  LostUpdates' \subseteq LostUpdates /\ UNCHANGED tgBudget
        <4>1. /\ tgReplies' = tgReplies \ {u} /\ current' = current /\ Passed' = Passed
              /\ tgSent' = [tgSent EXCEPT ![u] = @ + 1] /\ UNCHANGED tgBudget
          BY <3>2 DEF SendReply, Passed
        <4>2. tgSent'[u] # 0 /\ \A v \in Updates \ {u} : tgSent'[v] = tgSent[v]
          BY <4>1 DEF TgTyped, TelegramTypeOK
        <4> QED  BY <4>1, <4>2, LostTyped DEF LostUpdates
      <3> QED  BY <1>8, <3>1, <3>2
    <2> QED  BY <1>d, <2>1
  <1> QED
    BY <1>1, <1>2, <1>3, <1>4, <1>5, <1>6, <1>7, <1>8
    DEF TelegramNext, TelegramRuns, TelegramFails

(* An update is lost only by a failure, and each failure costs what it must:   *)
(* one update for an unsaved offset or an unsent reply, a batch for a crash.  *)
THEOREM TelegramLosesLittle == TelegramSpec => []UpdateLossBounded
  <1>1. ASSUME TelegramInit PROVE GapInv /\ UpdateLossBounded
    <2>1. InGateway = {} /\ LostUpdates = {}
      BY <1>1 DEF TelegramInit, InGateway, LostUpdates, Passed, Larger
    <2>2. LossBound = 0
      BY <1>1, TelegramOK DEF TelegramOK, TelegramInit, LossBound
    <2> QED
      BY <1>1, <2>1, <2>2, FS_EmptySet, TelegramOK
      DEF TelegramOK, TelegramInit, GapInv, UpdateLossBounded, LossBound
  <1> QED
    BY <1>1, TelegramInitTyped, TelegramStepTyped, OnceInit, OnceStep, GapStep, LossStep, PTL
    DEF TelegramSpec


-----------------------------------------------------------------------------
(* The service shepherd.                                                     *)

LEMMA ShepherdInitTyped == ShepherdInit => ShepherdTypeOK
  <1> SUFFICES ASSUME ShepherdInit PROVE ShepherdTypeOK
    OBVIOUS
  <1>1. unseen \in {0, 1}
    BY DEF ShepherdInit
  <1>2. quiet \in BOOLEAN
    BY DEF ShepherdInit
  <1> QED  BY <1>1, <1>2 DEF ShepherdInit, ShepherdTypeOK

LEMMA ShepherdStepTyped ==
  ShepherdTypeOK /\ [ShepherdNext]_shVars => ShepherdTypeOK'
  <1> SUFFICES ASSUME ShepherdTypeOK, [ShepherdNext]_shVars
               PROVE  ShepherdTypeOK'
    OBVIOUS
  <1> USE DEF ShepherdTypeOK, told3, faults
  <1>1. ASSUME NEW c \in Checks, ServiceChanges(c) \/ Look(c)
        PROVE  ShepherdTypeOK'
    BY <1>1 DEF ServiceChanges, Look
  <1>2. CASE BeginCycle \/ Compare
    BY <1>2 DEF BeginCycle, Compare
  <1>3. CASE AlertDelivered \/ AlertRefused
    BY <1>3 DEF AlertDelivered, AlertRefused
  <1>4. CASE TruncateFile
    BY <1>4 DEF TruncateFile, Files, Unread
  <1>5. CASE WriteReport
    <2>1. statusFile' \in Files
      BY <1>5 DEF WriteReport, Files, Reports
    <2>2. quiet' \in BOOLEAN
      BY <1>5 DEF WriteReport
    <2>3. /\ told' \in Nat /\ silent' \in Nat /\ reasons' = {}
          /\ shPhase' = "idle" /\ UNCHANGED <<failing, toLook, faults>>
      BY <1>5 DEF WriteReport
    <2> QED  BY <2>1, <2>2, <2>3
  <1>6. CASE ShepherdDies
    BY <1>6 DEF ShepherdDies
  <1>7. CASE UNCHANGED shVars
    BY <1>7 DEF shVars
  <1> QED  BY <1>1, <1>2, <1>3, <1>4, <1>5, <1>6, <1>7 DEF ShepherdNext

(* The types of the shepherd and its status file.                            *)
THEOREM ShepherdTypeCorrect == ShepherdSpec => []ShepherdTypeOK
  BY ShepherdInitTyped, ShepherdStepTyped, PTL DEF ShepherdSpec

(* While the file is healthy and this cycle has not alerted, each alert since  *)
(* it turned healthy cost a death; an outage that will be recorded in silence *)
(* is paid for already.                                                      *)
Writes      == shPhase \in {"writing", "cut"}
Uncompared  == statusFile = Healthy /\ ~Writes
WillRecord  == IF Writes THEN reasons # {} ELSE statusFile # Healthy
WillBeQuiet == told = 0 /\ ~quiet /\ WillRecord

TellInv ==
    /\ told <= 1 + shDeaths
    /\ Uncompared => told <= shDeaths
    /\ silent <= unseen + shDeaths + refusals
    /\ WillBeQuiet => silent + 1 <= unseen + shDeaths + refusals
    /\ shPhase = "alerting" => statusFile = Healthy /\ reasons # {}
    /\ shPhase = "cut" => statusFile # Healthy

LEMMA TornUnhealthy == Unread(Torn) # Healthy
  BY DEF Unread, Healthy, Torn

LEMMA TellInit == ShepherdInit => TellInv
  BY DEF ShepherdInit, TellInv, Uncompared, Writes, WillBeQuiet, WillRecord

LEMMA TellStep ==
  ShepherdTypeOK /\ TellInv /\ [ShepherdNext]_shVars => TellInv'
  <1> SUFFICES ASSUME ShepherdTypeOK, TellInv, [ShepherdNext]_shVars
               PROVE  TellInv'
    OBVIOUS
  <1> USE DEF TellInv, Uncompared, Writes, WillBeQuiet, WillRecord, told3, faults
  <1>0. /\ told \in Nat /\ silent \in Nat /\ quiet \in BOOLEAN
        /\ unseen \in Nat /\ shDeaths \in Nat /\ refusals \in Nat
    BY DEF ShepherdTypeOK
  <1>1. ASSUME NEW c \in Checks, ServiceChanges(c) \/ Look(c)
        PROVE  TellInv'
    BY <1>0, <1>1 DEF ServiceChanges, Look
  <1>2. CASE BeginCycle
    BY <1>0, <1>2 DEF BeginCycle
  <1>3. CASE Compare
    BY <1>0, <1>3 DEF Compare
  <1>4. CASE AlertDelivered
    BY <1>0, <1>4 DEF AlertDelivered
  <1>5. CASE AlertRefused
    BY <1>0, <1>5 DEF AlertRefused
  <1>6. CASE TruncateFile
    BY <1>0, <1>6, TornUnhealthy DEF TruncateFile
  <1>7. CASE WriteReport
    <2>1. reasons # {} => statusFile' # Healthy
      BY <1>7 DEF WriteReport, Healthy
    <2>2. reasons = {} => statusFile' = Healthy
      BY <1>7 DEF WriteReport, Healthy
    <2>3. CASE reasons = {}
      BY <1>0, <1>7, <2>2, <2>3 DEF WriteReport
    <2>4. CASE reasons # {}
      BY <1>0, <1>7, <2>1, <2>4 DEF WriteReport
    <2> QED  BY <2>3, <2>4
  <1>8. CASE ShepherdDies
    BY <1>0, <1>8 DEF ShepherdDies
  <1>9. CASE UNCHANGED shVars
    BY <1>9 DEF shVars
  <1> QED  BY <1>1, <1>2, <1>3, <1>4, <1>5, <1>6, <1>7, <1>8, <1>9 DEF ShepherdNext

(* An outage is told once, and again only for a death; one that passes in      *)
(* silence was there at the first look, or a death or a refused alert hid it. *)
THEOREM ShepherdTells == ShepherdSpec => []OutagesAreTold
  <1>1. TellInv => OutagesAreTold
    BY DEF TellInv, OutagesAreTold
  <1> QED
    BY <1>1, ShepherdInitTyped, ShepherdStepTyped, TellInit, TellStep, PTL
    DEF ShepherdSpec
----------------------------------------------------------------------------
(* The iMessage connector.  A list as the seen store keeps it.               *)
SeenList(s) == s \in Seq(IMessages) /\ Len(s) \in 0..SeenLimit

LEMMA LastTyped ==
  ASSUME NEW S, NEW s \in Seq(S), NEW n \in Nat \ {0}
  PROVE  LastOf(s, n) \in Seq(S) /\ Len(LastOf(s, n)) \in 0..n
  <1>1. Len(s) \in Nat
    OBVIOUS
  <1>2. CASE Len(s) <= n
    BY <1>1, <1>2 DEF LastOf
  <1>3. CASE Len(s) > n
    <2> DEFINE a == Len(s) - n + 1
    <2>1. a \in 1..(Len(s) + 1) /\ Len(s) - a + 1 = n
      BY <1>1, <1>3
    <2> HIDE DEF a
    <2>4. a \in Int /\ Len(s) \in Int /\ \A i \in a..Len(s) : s[i] \in S
      BY <1>1, <2>1
    <2>2. SubSeq(s, a, Len(s)) \in Seq(S)
          /\ Len(SubSeq(s, a, Len(s))) = IF a <= Len(s) THEN Len(s) - a + 1 ELSE 0
      BY <2>4, SubSeqProperties, Zenon
    <2>3. Len(SubSeq(s, a, Len(s))) \in 0..n
      BY <1>1, <2>1, <2>2
    <2> QED  BY <1>1, <1>3, <2>2, <2>3 DEF LastOf, a
  <1> QED  BY <1>1, <1>2, <1>3

LEMMA AppendedTo ==
  ASSUME NEW S, NEW s \in Seq(S), NEW m \in S
  PROVE  /\ Append(s, m) \in Seq(S) /\ Len(s) \in Nat
         /\ Len(Append(s, m)) = Len(s) + 1 /\ Append(s, m)[Len(s) + 1] = m
         /\ \A i \in 1..Len(s) : Append(s, m)[i] = s[i]
  OBVIOUS

LEMMA AddedTyped ==
  ASSUME NEW s, SeenList(s), NEW m \in IMessages
  PROVE  SeenList(Added(s, m))
  <1>1. SeenLimit \in Nat \ {0}
    BY IMessageOK DEF IMessageOK
  <1>2. s \in Seq(IMessages)
    BY DEF SeenList
  <1>3. Append(s, m) \in Seq(IMessages)
    BY <1>2, AppendedTo, Zenon
  <1>4. SeenList(LastOf(Append(s, m), SeenLimit))
    BY <1>1, <1>3, LastTyped DEF SeenList
  <1> QED  BY <1>4 DEF Added

(* add_many is what its loop does, one id after the other.  The function that  *)
(* describes the loop exists: a shortest loop without one would have it, made  *)
(* from that of the loop that is one id shorter.                             *)
LEMMA AddedManySteps ==
  ASSUME NEW s, NEW p, Len(p) \in Nat
  PROVE  \E f : /\ AddedMany(s, p) = f[Len(p)] /\ f[0] = s
                /\ \A n \in 1..Len(p) : f[n] = Added(f[n - 1], p[n])
  <1> DEFINE N == Len(p)
             Loop(k, f) == f = [n \in 0..k |-> IF n = 0 THEN s ELSE Added(f[n - 1], p[n])]
             Bad == {k \in Nat : ~ \E f : Loop(k, f)}
  <1>1. Bad = {}
    <2>1. SUFFICES ASSUME Bad # {} PROVE FALSE
      OBVIOUS
    <2>2. PICK k \in Bad : \A j \in Bad : k <= j
      <3> HIDE DEF Bad
      <3>1. Bad \in SUBSET Nat
        BY DEF Bad
      <3> QED  BY <2>1, <3>1, LeastOf
    <2>3. k \in Nat /\ ~ \E f : Loop(k, f)
      OBVIOUS
    <2>4. k # 0
      <3>1. SUFFICES ASSUME k = 0 PROVE FALSE
        OBVIOUS
      <3>2. Loop(0, [n \in 0..0 |-> s])
        OBVIOUS
      <3> QED  BY <2>3, <3>1, <3>2
    <2>5. k - 1 \in Nat /\ k - 1 \notin Bad
      <3> HIDE DEF Bad
      <3>1. k - 1 \in Nat /\ ~ (k <= k - 1)
        BY <2>3, <2>4
      <3> QED  BY <2>2, <3>1
    <2>6. PICK g : Loop(k - 1, g)
      BY <2>5
    <2> DEFINE h == [n \in 0..k |-> IF n = k THEN Added(g[k - 1], p[k]) ELSE g[n]]
    <2>7. h = [n \in 0..k |-> IF n = 0 THEN s ELSE Added(h[n - 1], p[n])]
      <3>1. ASSUME NEW n \in 0..k
            PROVE  h[n] = IF n = 0 THEN s ELSE Added(h[n - 1], p[n])
        <4>1. CASE n = k
          <5>1. n # 0 /\ n - 1 \in 0..k /\ n - 1 # k /\ h[n - 1] = g[k - 1]
            BY <2>3, <2>4, <4>1
          <5> QED  BY <4>1, <5>1
        <4>2. CASE n # k
          <5>1. n \in 0..(k - 1) /\ h[n] = g[n]
            BY <2>3, <4>2
          <5>2. g[n] = IF n = 0 THEN s ELSE Added(g[n - 1], p[n])
            BY <2>6, <5>1
          <5>3. n # 0 => n - 1 \in 0..k /\ n - 1 # k /\ h[n - 1] = g[n - 1]
            BY <2>3
          <5> QED  BY <5>1, <5>2, <5>3
        <4> QED  BY <4>1, <4>2
      <3> HIDE DEF h
      <3> QED  BY <3>1 DEF h
    <2> QED  BY <2>3, <2>7
  <1>2. \E f : Loop(N, f)
    BY <1>1
  <1> DEFINE F == CHOOSE f : Loop(N, f)
  <1>3. F = [n \in 0..N |-> IF n = 0 THEN s ELSE Added(F[n - 1], p[n])]
    BY <1>2
  <1>4. AddedMany(s, p) = F[N]
    BY DEF AddedMany
  <1> HIDE DEF F
  <1>5. F[0] = s /\ \A n \in 1..N : F[n] = Added(F[n - 1], p[n])
    <2>1. 0 \in 0..N /\ \A n \in 1..N : n \in 0..N /\ n # 0
      OBVIOUS
    <2> QED  BY <1>3, <2>1
  <1> QED  BY <1>4, <1>5

(* A list that has lost nothing: ids of what has arrived, each once.  Then    *)
(* there is room for one more, and an id that is added pushes none out.      *)
Unpruned(s) ==
    /\ \A i \in 1..Len(s) : s[i] <= delivered
    /\ \A i, j \in 1..Len(s) : s[i] = s[j] => i = j

LEMMA SeenHasRoom ==
  ASSUME IMessageTypeOK, delivered <= SeenLimit, NEW s, SeenList(s), Unpruned(s),
         NEW m \in IMessages, m <= delivered, ~Contains(s, m)
  PROVE  Added(s, m) = Append(s, m)
  <1> DEFINE n == Len(s)
             T == 1..delivered
             f == [i \in 1..(n + 1) |-> IF i = n + 1 THEN m ELSE s[i]]
  <1>1. /\ n \in Nat /\ delivered \in Nat /\ SeenLimit \in Nat /\ NumIMessages \in Nat
        /\ s \in Seq(IMessages) /\ m \in T
    BY IMessageOK DEF IMessageOK, SeenList, IMessageTypeOK, IMessages
  <1>2. \A i \in 1..n : s[i] \in T /\ s[i] # m
    BY <1>1 DEF Unpruned, Contains, IMessages
  <1>3. \A i, j \in 1..n : s[i] = s[j] => i = j
    BY DEF Unpruned
  <1> HIDE DEF n, T
  <1>4. f \in [1..(n + 1) -> T]
    BY <1>1, <1>2
  <1>5. \A i, j \in 1..(n + 1) : f[i] = f[j] => i = j
    BY <1>1, <1>2, <1>3
  <1>6. f \in Injection(1..(n + 1), T)
    BY <1>4, <1>5 DEF Injection, IsInjective
  <1>7. IsFiniteSet(T) /\ Cardinality(T) = delivered
    BY <1>1, FS_Interval DEF T
  <1>8. Cardinality(1..(n + 1)) = n + 1
    BY <1>1, FS_Interval
  <1>9. Cardinality(1..(n + 1)) <= Cardinality(T)
    BY <1>6, <1>7, FS_Injection
  <1>10. n + 1 <= SeenLimit
    BY <1>1, <1>7, <1>8, <1>9
  <1>11. Len(Append(s, m)) <= SeenLimit
    BY <1>1, <1>10, AppendedTo DEF n
  <1> QED  BY <1>11 DEF Added, LastOf

LEMMA AddedFits ==
  ASSUME IMessageTypeOK, delivered <= SeenLimit, NEW s, SeenList(s), Unpruned(s),
         NEW m \in IMessages, m <= delivered
  PROVE  /\ Unpruned(Added(s, m)) /\ Contains(Added(s, m), m)
         /\ \A k : Contains(s, k) => Contains(Added(s, m), k)
         /\ \A k : Contains(Added(s, m), k) => k = m \/ Contains(s, k)
  <1>1. CASE Contains(s, m)
    BY <1>1 DEF Added
  <1>2. CASE ~Contains(s, m)
    <2> DEFINE n == Len(s)
               longer == Added(s, m)
    <2>1. /\ n \in Nat /\ Len(longer) = n + 1 /\ longer[n + 1] = m
          /\ \A i \in 1..n : longer[i] = s[i]
      <3>1. s \in Seq(IMessages) /\ longer = Append(s, m)
        BY <1>2, SeenHasRoom DEF SeenList
      <3> QED  BY <3>1, AppendedTo
    <2>2. \A i \in 1..n : s[i] <= delivered /\ s[i] # m
      BY <1>2 DEF Unpruned, Contains
    <2>3. \A i, j \in 1..n : s[i] = s[j] => i = j
      BY DEF Unpruned
    <2>4. \A k : Contains(s, k) <=> \E i \in 1..n : s[i] = k
      BY DEF Contains
    <2>5. \A k : Contains(longer, k) <=> \E i \in 1..Len(longer) : longer[i] = k
      BY DEF Contains
    <2> HIDE DEF n, longer
    <2>6. Unpruned(longer)
      BY <2>1, <2>2, <2>3 DEF Unpruned
    <2>7. Contains(longer, m)
      BY <2>1, <2>5
    <2>8. \A k : Contains(s, k) => Contains(longer, k)
      BY <2>1, <2>4, <2>5
    <2>9. \A k : Contains(longer, k) => k = m \/ Contains(s, k)
      BY <2>1, <2>4, <2>5
    <2> QED  BY <2>6, <2>7, <2>8, <2>9 DEF longer
  <1> QED  BY <1>1, <1>2

(* The orders of a set are sequences of its elements, and none is left out.   *)
LEMMA OrdersOf ==
  ASSUME NEW S, IsFiniteSet(S), NEW p \in SetToSeqs(S)
  PROVE  /\ Len(p) \in Nat /\ \A i \in 1..Len(p) : p[i] \in S
         /\ \A x \in S : \E i \in 1..Len(p) : p[i] = x
  <1> DEFINE n == Cardinality(S)
  <1>1. n \in Nat
    BY FS_CardinalityType
  <1>2. p \in [1..n -> S] /\ \A i, j \in 1..n : i # j => p[i] # p[j]
    BY DEF SetToSeqs
  <1>3. Cardinality(1..n) = n
    BY <1>1, FS_Interval
  <1>4. p \in Injection(1..n, S)
    BY <1>2 DEF Injection, IsInjective
  <1>5. p \in Surjection(1..n, S)
    <2> HIDE DEF n
    <2>1. Cardinality(1..n) = Cardinality(S)
      BY <1>3 DEF n
    <2> QED  BY <1>4, <2>1, FS_Injection
  <1>6. Len(p) = n
    <2> HIDE DEF n
    <2>1. p \in Seq(S) /\ DOMAIN p = 1..n
      BY <1>1, <1>2
    <2> QED  BY <1>1, <2>1
  <1> HIDE DEF n
  <1> QED  BY <1>1, <1>2, <1>5, <1>6 DEF Surjection

LEMMA RecentFinite ==
  ASSUME IMessageTypeOK
  PROVE  Recent \subseteq IMessages /\ IsFiniteSet(Recent) /\ \A m \in Recent : m <= delivered
  <1>1. IsFiniteSet(IMessages)
    BY IMessageOK, FS_Interval DEF IMessageOK, IMessages
  <1>2. Recent \subseteq IMessages
    BY DEF Recent
  <1> QED  BY <1>1, <1>2, FS_Subset DEF Recent

(* What seeding makes of the list, one id of the window after the other.     *)
LEMMA SeededTyped ==
  ASSUME IMessageTypeOK, NEW p \in SetToSeqs(Recent)
  PROVE  SeenList(AddedMany(seen, p))
  <1>1. Len(p) \in Nat /\ \A i \in 1..Len(p) : p[i] \in IMessages
    BY RecentFinite, OrdersOf
  <1>2. PICK f : /\ AddedMany(seen, p) = f[Len(p)] /\ f[0] = seen
                 /\ \A n \in 1..Len(p) : f[n] = Added(f[n - 1], p[n])
    BY <1>1, AddedManySteps
  <1> DEFINE N == Len(p)
             Bad == {n \in 0..N : ~SeenList(f[n])}
  <1>3. SUFFICES ASSUME Bad # {} PROVE FALSE
    BY <1>1, <1>2
  <1>4. Bad \in SUBSET Nat
    OBVIOUS
  <1>5. PICK k \in Bad : \A j \in Bad : k <= j
    <2> HIDE DEF Bad
    <2> QED  BY <1>3, <1>4, LeastOf
  <1>6. k \in 0..N /\ ~SeenList(f[k])
    OBVIOUS
  <1>7. k # 0
    BY <1>2, <1>6, IMessageOK DEF IMessageOK, SeenList, IMessageTypeOK
  <1>8. k - 1 \in 0..N /\ k \in 1..N /\ ~ (k <= k - 1)
    BY <1>1, <1>6, <1>7
  <1>9. SeenList(f[k - 1])
    <2>1. k - 1 \notin Bad
      <3> HIDE DEF Bad
      <3> QED  BY <1>5, <1>8
    <2> QED  BY <1>8, <2>1
  <1>10. SeenList(Added(f[k - 1], p[k]))
    BY <1>1, <1>8, <1>9, AddedTyped
  <1> QED  BY <1>2, <1>6, <1>8, <1>10

LEMMA SeededFits ==
  ASSUME IMessageTypeOK, delivered <= SeenLimit, Unpruned(seen), NEW p \in SetToSeqs(Recent)
  PROVE  /\ Unpruned(AddedMany(seen, p))
         /\ \A m : Contains(seen, m) => Contains(AddedMany(seen, p), m)
         /\ \A m \in Recent : Contains(AddedMany(seen, p), m)
  <1>1. /\ Len(p) \in Nat /\ \A i \in 1..Len(p) : p[i] \in IMessages /\ p[i] <= delivered
        /\ \A m \in Recent : \E i \in 1..Len(p) : p[i] = m
    BY RecentFinite, OrdersOf
  <1>2. PICK f : /\ AddedMany(seen, p) = f[Len(p)] /\ f[0] = seen
                 /\ \A n \in 1..Len(p) : f[n] = Added(f[n - 1], p[n])
    <2>1. Len(p) \in Nat
      BY <1>1
    <2> QED  BY <2>1, AddedManySteps
  <1> DEFINE N == Len(p)
             Good(n) == /\ SeenList(f[n]) /\ Unpruned(f[n])
                        /\ \A m : Contains(seen, m) => Contains(f[n], m)
                        /\ \A i \in 1..n : Contains(f[n], p[i])
             Bad == {n \in 0..N : ~Good(n)}
  <1>3. SUFFICES Bad = {}
    <2>1. ASSUME Bad = {} PROVE Good(N)
      BY <1>1, <2>1
    <2> QED  BY <1>1, <1>2, <2>1
  <1>4. SUFFICES ASSUME Bad # {} PROVE FALSE
    OBVIOUS
  <1>5. Bad \in SUBSET Nat
    OBVIOUS
  <1>6. PICK k \in Bad : \A j \in Bad : k <= j
    <2> HIDE DEF Bad
    <2> QED  BY <1>4, <1>5, LeastOf
  <1>7. k \in 0..N /\ ~Good(k)
    <2> HIDE DEF Good
    <2> QED  OBVIOUS
  <1>8. k # 0
    <2>1. SeenList(seen)
      BY IMessageOK DEF IMessageOK, SeenList, IMessageTypeOK
    <2>2. Good(0)
      BY <1>2, <2>1
    <2> HIDE DEF Good
    <2> QED  BY <1>7, <2>2
  <1>9. k - 1 \in 0..N /\ k \in 1..N /\ ~ (k <= k - 1)
    BY <1>1, <1>7, <1>8
  <1>10. Good(k - 1)
    <2> HIDE DEF Good
    <2>1. k - 1 \notin Bad
      <3> HIDE DEF Bad
      <3> QED  BY <1>6, <1>9
    <2> QED  BY <1>9, <2>1
  <1>11. f[k] = Added(f[k - 1], p[k]) /\ p[k] \in IMessages /\ p[k] <= delivered
    BY <1>1, <1>2, <1>9
  <1>12. SeenList(f[k])
    BY <1>10, <1>11, AddedTyped
  <1>13. /\ Unpruned(f[k]) /\ Contains(f[k], p[k])
         /\ \A m : Contains(f[k - 1], m) => Contains(f[k], m)
    BY <1>10, <1>11, AddedFits
  <1>14. \A m : Contains(seen, m) => Contains(f[k], m)
    BY <1>10, <1>13
  <1>15. \A i \in 1..k : Contains(f[k], p[i])
    BY <1>9, <1>10, <1>13
  <1> QED  BY <1>7, <1>12, <1>13, <1>14, <1>15

LEMMA ImSpends ==
  ASSUME IMessageTypeOK, NEW what \in {"crash", "seed", "fail"}, Spend(what)
  PROVE  /\ imBudget' \in [{"crash", "persist", "seed", "fail", "raise"} -> Nat]
         /\ imBudget'["persist"] = imBudget["persist"]
  BY DEF Spend, IMessageTypeOK

(* A persist that fails shows in what is left of the bound.                   *)
LEMMA Persisted ==
  ASSUME NEW b \in [{"crash", "persist", "seed", "fail", "raise"} -> Nat],
         NEW list, Persist(list, b)
  PROVE  /\ imBudget' \in [{"crash", "persist", "seed", "fail", "raise"} -> Nat]
         /\ imBudget'["persist"] <= b["persist"]
         /\ \/ seenFile' = list
            \/ seenFile' = seenFile /\ imBudget'["persist"] < b["persist"]
  BY DEF Persist

LEMMA PersistedRaising ==
  ASSUME IMessageTypeOK, NEW list, PersistRaising(list)
  PROVE  /\ imBudget' \in [{"crash", "persist", "seed", "fail", "raise"} -> Nat]
         /\ imBudget'["persist"] <= imBudget["persist"]
         /\ \/ seenFile' = list
            \/ seenFile' = seenFile /\ imBudget'["persist"] < imBudget["persist"]
  <1> DEFINE b == [imBudget EXCEPT !["raise"] = @ - 1]
  <1>1. /\ b \in [{"crash", "persist", "seed", "fail", "raise"} -> Nat]
        /\ b["persist"] = imBudget["persist"]
    BY DEF PersistRaising, IMessageTypeOK
  <1>2. Persist(list, b)
    BY DEF PersistRaising
  <1> HIDE DEF b
  <1> QED  BY <1>1, <1>2, Persisted

(* The tasks by themselves: what a step makes of one of them.                 *)
TaskStates == [at : {"off", "sleeping", "listing", "asking", "told", "sending", "ended", "dead"},
               m : 0..NumIMessages, rest : SUBSET IMessages]

LEMMA TasksTyped ==
  ASSUME IMessageTypeOK, NEW t \in Tasks
  PROVE  /\ Off \in TaskStates /\ task[t] \in TaskStates
         /\ \A at \in {"sleeping", "listing", "asking", "told", "sending", "ended", "dead"} :
               \A m \in 0..NumIMessages, rest \in SUBSET IMessages :
                  TaskAt(at, m, rest) \in TaskStates
         /\ \A x \in TaskStates : [task EXCEPT ![t] = x] \in [Tasks -> TaskStates]
         /\ \A at \in {"sleeping", "listing", "asking", "told", "sending", "ended", "dead"} :
               [task EXCEPT ![t].at = at] \in [Tasks -> TaskStates]
         /\ Back(t) \in [Tasks -> TaskStates]
         /\ \A m \in IMessages : Past(t, m) \in SUBSET IMessages
         /\ Ready(t) \in {"sleeping", "listing"}
  <1>1. 0 \in 0..NumIMessages
    BY IMessageOK DEF IMessageOK
  <1>2. task \in [Tasks -> TaskStates]
    BY DEF IMessageTypeOK, TaskStates
  <1>3. \A at \in {"off", "sleeping", "listing", "asking", "told", "sending", "ended", "dead"} :
               \A m \in 0..NumIMessages, rest \in SUBSET IMessages :
                  TaskAt(at, m, rest) \in TaskStates
    BY DEF TaskStates, TaskAt
  <1>4. Off \in TaskStates
    BY <1>1, <1>3 DEF Off
  <1>5. \A x \in TaskStates : [task EXCEPT ![t] = x] \in [Tasks -> TaskStates]
    BY <1>2
  <1>6. \A at \in {"sleeping", "listing", "asking", "told", "sending", "ended", "dead"} :
               [task EXCEPT ![t].at = at] \in [Tasks -> TaskStates]
    BY <1>2 DEF TaskStates
  <1>7. task[t].rest \in SUBSET IMessages
    BY <1>2 DEF TaskStates
  <1>8. Ready(t) \in {"sleeping", "listing"}
    BY DEF Ready
  <1>9. Back(t) \in [Tasks -> TaskStates]
    BY <1>1, <1>3, <1>5, <1>7, <1>8 DEF Back
  <1>10. \A m \in IMessages : Past(t, m) \in SUBSET IMessages
    BY <1>7 DEF Past
  <1> QED  BY <1>2, <1>3, <1>4, <1>5, <1>6, <1>8, <1>9, <1>10

(* The parts of the type invariant, for the steps that change few of them.    *)
ListsTyped == SeenList(seen) /\ SeenList(seenFile)
              /\ gwRecent \in Seq(IMessages) /\ Len(gwRecent) \in 0..GatewayLimit
ImCountsTyped == /\ delivered \in 0..NumIMessages /\ imPhase \in {"starting", "running"}
               /\ watchPos \in 0..NumIMessages /\ seedFailed \in BOOLEAN
               /\ imAsked \in [IMessages -> Nat] /\ imSent \in [IMessages -> Nat]
               /\ imFate \in [IMessages -> {"none", "skipped", "taken"}]
BudgetTyped == imBudget \in [{"crash", "persist", "seed", "fail", "raise"} -> Nat]

LEMMA TypeParts ==
  /\ IMessageTypeOK <=> /\ ListsTyped /\ ImCountsTyped /\ BudgetTyped
                        /\ task \in [Tasks -> TaskStates]
  /\ IMessageTypeOK' <=> /\ ListsTyped' /\ ImCountsTyped' /\ BudgetTyped'
                         /\ task' \in [Tasks -> TaskStates]
  <1>1. SeenLimit \in Nat /\ GatewayLimit \in Nat
    BY IMessageOK DEF IMessageOK
  <1>2. ListsTyped <=> /\ {seen, seenFile, gwRecent} \subseteq Seq(IMessages)
                       /\ Len(seen) <= SeenLimit /\ Len(seenFile) <= SeenLimit
                       /\ Len(gwRecent) <= GatewayLimit
    BY <1>1 DEF ListsTyped, SeenList
  <1>3. ListsTyped' <=> /\ {seen', seenFile', gwRecent'} \subseteq Seq(IMessages)
                        /\ Len(seen') <= SeenLimit /\ Len(seenFile') <= SeenLimit
                        /\ Len(gwRecent') <= GatewayLimit
    BY <1>1 DEF ListsTyped, SeenList
  <1>4. IMessageTypeOK <=> /\ ListsTyped /\ ImCountsTyped /\ BudgetTyped
                           /\ task \in [Tasks -> TaskStates]
    BY <1>2, Zenon DEF IMessageTypeOK, ImCountsTyped, BudgetTyped, TaskStates
  <1>5. IMessageTypeOK' <=> /\ ListsTyped' /\ ImCountsTyped' /\ BudgetTyped'
                            /\ task' \in [Tasks -> TaskStates]
    BY <1>3, Zenon DEF IMessageTypeOK, ImCountsTyped, BudgetTyped, TaskStates
  <1> QED  BY <1>4, <1>5

LEMMA IMessageInitTyped == ASSUME IMessageInit PROVE IMessageTypeOK
  <1>a. NumIMessages \in Nat /\ SeenLimit \in Nat /\ GatewayLimit \in Nat
    BY IMessageOK DEF IMessageOK
  <1>1. << >> \in Seq(IMessages) /\ Len(<< >>) = 0
    OBVIOUS
  <1>2. ListsTyped
    BY <1>a, <1>1 DEF IMessageInit, ListsTyped, SeenList
  <1>3. ImCountsTyped
    <2>1. [m \in IMessages |-> 0] \in [IMessages -> Nat]
      OBVIOUS
    <2>2. 0 \in 0..NumIMessages
      BY <1>a
    <2> QED  BY <2>1, <2>2 DEF IMessageInit, ImCountsTyped
  <1>5. BudgetTyped
    BY IMessageOK DEF IMessageOK, IMessageInit, BudgetTyped
  <1>4. task \in [Tasks -> TaskStates]
    BY <1>a DEF IMessageInit, TaskStates, Off, TaskAt
  <1> QED  BY <1>2, <1>3, <1>4, <1>5, TypeParts

LEMMA NextMessage ==
  ASSUME IMessageTypeOK, NEW t \in Tasks, NEW m \in IMessages, IsNextFor(t, m)
  PROVE  /\ Advanced(t, m) \in 0..NumIMessages /\ m \in 0..NumIMessages
         /\ TaskAt(Ready(t), 0, Past(t, m)) \in TaskStates
         /\ TaskAt(Handling(m), m, Past(t, m)) \in TaskStates \/ Handling(m) = "none"
  <1>1. m \in 0..NumIMessages /\ 0 \in 0..NumIMessages
    BY IMessageOK DEF IMessageOK, IMessages
  <1>2. Advanced(t, m) \in 0..NumIMessages
    BY <1>1 DEF Advanced, IMessageTypeOK
  <1>3. Handling(m) \in {"sending", "asking", "none"}
    BY DEF Handling
  <1> QED  BY <1>1, <1>2, <1>3, TasksTyped

LEMMA AskedTyped ==
  ASSUME IMessageTypeOK, NEW m \in IMessages
  PROVE  /\ [imAsked EXCEPT ![m] = @ + 1] \in [IMessages -> Nat]
         /\ LastOf(Append(gwRecent, m), GatewayLimit) \in Seq(IMessages)
         /\ Len(LastOf(Append(gwRecent, m), GatewayLimit)) \in 0..GatewayLimit
  <1>1. imAsked \in [IMessages -> Nat] /\ gwRecent \in Seq(IMessages)
        /\ GatewayLimit \in Nat \ {0}
    BY IMessageOK DEF IMessageOK, IMessageTypeOK
  <1>2. Append(gwRecent, m) \in Seq(IMessages)
    BY <1>1, AppendedTo
  <1>3. /\ LastOf(Append(gwRecent, m), GatewayLimit) \in Seq(IMessages)
        /\ Len(LastOf(Append(gwRecent, m), GatewayLimit)) \in 0..GatewayLimit
    BY <1>1, <1>2, LastTyped
  <1>4. [imAsked EXCEPT ![m] = @ + 1] \in [IMessages -> Nat]
    BY <1>1
  <1> QED  BY <1>3, <1>4

LEMMA TakeTyped ==
  ASSUME IMessageTypeOK, NEW t \in Tasks, NEW m \in IMessages, Take(t, m)
  PROVE  IMessageTypeOK'
  <1>a. ListsTyped /\ ImCountsTyped /\ BudgetTyped /\ task \in [Tasks -> TaskStates]
    BY TypeParts
  <1>1. IsNextFor(t, m) /\ seen' = Added(seen, m) /\ Persist(seen', imBudget)
    BY DEF Take
  <1>2. SeenList(seen') /\ SeenList(seenFile')
    BY <1>a, <1>1, AddedTyped, Persisted DEF ListsTyped, BudgetTyped
  <1>3. BudgetTyped'
    BY <1>a, <1>1, Persisted DEF BudgetTyped
  <1>4. gwRecent' \in Seq(IMessages) /\ Len(gwRecent') \in 0..GatewayLimit
    BY <1>a, AskedTyped DEF Take, ListsTyped
  <1>5. ImCountsTyped'
    BY <1>a, <1>1, AskedTyped, NextMessage DEF Take, ImCountsTyped
  <1>6. task' \in [Tasks -> TaskStates]
    <2>1. /\ TaskAt(Ready(t), 0, Past(t, m)) \in TaskStates
          /\ Handling(m) # "none" => TaskAt(Handling(m), m, Past(t, m)) \in TaskStates
      BY <1>1, NextMessage
    <2> QED  BY <1>a, <2>1, TasksTyped DEF Take
  <1> QED  BY <1>2, <1>3, <1>4, <1>5, <1>6, TypeParts DEF ListsTyped

LEMMA SeedTyped == ASSUME IMessageTypeOK, Seed PROVE IMessageTypeOK'
  <1>a. ListsTyped /\ ImCountsTyped /\ BudgetTyped /\ task \in [Tasks -> TaskStates]
    BY TypeParts
  <1>1. SeenList(seen')
    BY SeededTyped DEF Seed
  <1>2. SeenList(seenFile') /\ BudgetTyped'
    BY <1>a, <1>1, Persisted DEF Seed, ListsTyped, BudgetTyped
  <1>3. task' \in [Tasks -> TaskStates]
    BY TasksTyped DEF Seed, Tasks
  <1> QED  BY <1>a, <1>1, <1>2, <1>3, TypeParts DEF Seed, ListsTyped, ImCountsTyped

LEMMA RaisesTyped ==
  ASSUME IMessageTypeOK, NEW m \in IMessages, PollRaises(m) \/ WatchRaises(m)
  PROVE  IMessageTypeOK'
  <1>a. ListsTyped /\ ImCountsTyped /\ BudgetTyped /\ task \in [Tasks -> TaskStates]
    BY TypeParts
  <1>1. PersistRaising(Added(seen, m)) /\ seen' \in {Added(seen, m), seenFile'}
    BY DEF PollRaises, WatchRaises
  <1>2. SeenList(seen') /\ SeenList(seenFile') /\ BudgetTyped'
    <2>1. SeenList(Added(seen, m))
      BY <1>a, AddedTyped DEF ListsTyped
    <2>2. SeenList(seenFile') /\ BudgetTyped'
      BY <1>a, <1>1, <2>1, PersistedRaising DEF ListsTyped, BudgetTyped
    <2> QED  BY <1>1, <2>1, <2>2
  <1>3. gwRecent' \in Seq(IMessages) /\ Len(gwRecent') \in 0..GatewayLimit
    <2>1. << >> \in Seq(IMessages) /\ Len(<< >>) \in 0..GatewayLimit
      BY IMessageOK DEF IMessageOK
    <2>2. gwRecent' \in {LastOf(Append(gwRecent, m), GatewayLimit), << >>}
      BY DEF PollRaises, WatchRaises, Restarted
    <2> QED  BY <2>1, <2>2, AskedTyped
  <1>4. task' \in [Tasks -> TaskStates]
    <2>1. CASE PollRaises(m)
      <3>1. TaskAt("dead", 0, {}) \in TaskStates
        BY IMessageOK DEF IMessageOK, TaskAt, TaskStates
      <3> QED  BY <2>1, <3>1, TasksTyped DEF PollRaises, Tasks
    <2>2. CASE WatchRaises(m)
      BY <2>2, TasksTyped DEF WatchRaises, Restarted
    <2> QED  BY <2>1, <2>2
  <1>5. ImCountsTyped'
    BY <1>a DEF PollRaises, WatchRaises, Restarted, ImCountsTyped
  <1> QED  BY <1>2, <1>3, <1>4, <1>5, TypeParts DEF ListsTyped

(* The steps of a task that is asking or sending, and the shared ends of them. *)
LEMMA ReplyTyped ==
  ASSUME IMessageTypeOK, NEW t \in Tasks,
         \/ SendProvisional(t) \/ DirectorAnswers(t) \/ DirectorFails(t)
         \/ FinalReply(t) \/ FinalReplyFails(t)
  PROVE  IMessageTypeOK'
  <1>a. ListsTyped /\ ImCountsTyped /\ BudgetTyped /\ task \in [Tasks -> TaskStates]
    BY TypeParts
  <1>1. BudgetTyped'
    BY <1>a, ImSpends DEF SendProvisional, DirectorAnswers, DirectorFails, FinalReply,
                          FinalReplyFails, BudgetTyped
  <1>2. task' \in [Tasks -> TaskStates]
    <2>1. task' \in {[task EXCEPT ![t].at = "told"], [task EXCEPT ![t].at = "sending"], Back(t)}
      BY DEF SendProvisional, DirectorAnswers, DirectorFails, FinalReply, FinalReplyFails
    <2>2. /\ [task EXCEPT ![t].at = "told"] \in [Tasks -> TaskStates]
          /\ [task EXCEPT ![t].at = "sending"] \in [Tasks -> TaskStates]
          /\ Back(t) \in [Tasks -> TaskStates]
      BY TasksTyped
    <2> QED  BY <2>1, <2>2
  <1>3. [imSent EXCEPT ![task[t].m] = @ + 1] \in [IMessages -> Nat]
    <2>1. imSent \in [IMessages -> Nat]
      BY <1>a DEF ImCountsTyped
    <2> DEFINE x == task[t].m
    <2> HIDE DEF x
    <2>2. [imSent EXCEPT ![x] = @ + 1] \in [IMessages -> Nat]
      <3>1. CASE x \in IMessages
        BY <2>1, <3>1
      <3>2. CASE x \notin IMessages
        <4>1. [imSent EXCEPT ![x] = @ + 1] = imSent
          BY <2>1, <3>2
        <4> QED  BY <2>1, <4>1
      <3> QED  BY <3>1, <3>2
    <2> QED  BY <2>2 DEF x
  <1>4. ListsTyped' /\ ImCountsTyped'
    BY <1>a, <1>3 DEF SendProvisional, DirectorAnswers, DirectorFails, FinalReply,
                      FinalReplyFails, ListsTyped, ImCountsTyped
  <1> QED  BY <1>1, <1>2, <1>4, TypeParts

LEMMA IMessageStepTyped ==
  ASSUME IMessageTypeOK, [IMessageNext]_imVars
  PROVE  IMessageTypeOK'
  <1>a. ListsTyped /\ ImCountsTyped /\ BudgetTyped /\ task \in [Tasks -> TaskStates]
    BY TypeParts
  <1>1. CASE IMessageArrives
    <2>1. delivered' \in 0..NumIMessages
      BY <1>a, <1>1, IMessageOK DEF IMessageOK, IMessageArrives, ImCountsTyped
    <2> QED
      BY <1>a, <1>1, <2>1, TypeParts
      DEF IMessageArrives, ListsTyped, ImCountsTyped, BudgetTyped
  <1>2. CASE SeedFails
    <2>1. BudgetTyped' /\ task' \in [Tasks -> TaskStates]
      BY <1>2, ImSpends, TasksTyped DEF SeedFails, BudgetTyped, Tasks
    <2> QED  BY <1>a, <1>2, <2>1, TypeParts DEF SeedFails, ListsTyped, ImCountsTyped
  <1>3. CASE WatchStarts \/ WatchEnds \/ PollLists \/ PollDone
    <2>1. task' \in [Tasks -> TaskStates]
      <3>1. TaskAt("listing", 0, Recent) \in TaskStates
        BY RecentFinite, IMessageOK DEF IMessageOK, TaskAt, TaskStates
      <3> QED
        BY <1>3, <3>1, TasksTyped DEF WatchStarts, WatchEnds, PollLists, PollDone, Tasks
    <2> QED
      BY <1>a, <1>3, <2>1, TypeParts DEF WatchStarts, WatchEnds, PollLists, PollDone,
                                         ListsTyped, ImCountsTyped, BudgetTyped
  <1>4. ASSUME NEW t \in Tasks, NEW m \in IMessages, PassSeen(t, m)
        PROVE  IMessageTypeOK'
    <2>1. task' \in [Tasks -> TaskStates] /\ watchPos' \in 0..NumIMessages
      BY <1>4, NextMessage, TasksTyped DEF PassSeen
    <2> QED
      BY <1>a, <1>4, <2>1, TypeParts DEF PassSeen, ListsTyped, ImCountsTyped, BudgetTyped
  <1>5. CASE IMessageCrash
    <2>1. task' \in [Tasks -> TaskStates]
      BY <1>5, TasksTyped DEF IMessageCrash, Restarted, Tasks
    <2>2. BudgetTyped'
      BY <1>5, ImSpends DEF IMessageCrash, BudgetTyped
    <2>3. ListsTyped'
      <3>1. << >> \in Seq(IMessages) /\ Len(<< >>) = 0 /\ GatewayLimit \in Nat
        BY IMessageOK DEF IMessageOK
      <3> QED  BY <1>a, <1>5, <3>1 DEF IMessageCrash, Restarted, ListsTyped
    <2>4. ImCountsTyped'
      BY <1>a, <1>5 DEF IMessageCrash, Restarted, ImCountsTyped
    <2> QED  BY <2>1, <2>2, <2>3, <2>4, TypeParts
  <1>6. CASE UNCHANGED imVars
    BY <1>6 DEF imVars, IMessageTypeOK
  <1>7. "poll" \in Tasks /\ "watch" \in Tasks
    BY DEF Tasks
  <1> QED
    BY <1>1, <1>2, <1>3, <1>4, <1>5, <1>6, <1>7, TakeTyped, SeedTyped, RaisesTyped, ReplyTyped
    DEF IMessageNext, PollRuns, WatchRuns, IMessageFails

(* The types of the iMessage connector.                                      *)
THEOREM IMessageTypeCorrect == IMessageSpec => []IMessageTypeOK
  BY IMessageInitTyped, IMessageStepTyped, PTL DEF IMessageSpec

(* What keeps the iMessage connector from asking twice, as long as the seen    *)
(* list has lost nothing.  While every persist worked, what was asked about is *)
(* in the list and in the file.  While every seeding worked, what was asked    *)
(* about and is not in the list has left the window, and neither task will     *)
(* come upon it.                                                             *)
Written == imBudget["persist"] = MaxPersistFailures
Behind(m) ==
    /\ m \notin Recent /\ m \notin task["poll"].rest
    /\ task["watch"].at = "off" \/ m <= watchPos
ImOnceInv ==
    /\ imBudget["persist"] <= MaxPersistFailures
    /\ imPhase = "starting" => \A t \in Tasks : task[t] = Off
    /\ \A m \in task["poll"].rest : m <= delivered
    /\ \A m \in IMessages : imAsked[m] > 0 => m <= delivered
    /\ delivered <= SeenLimit =>
          /\ Unpruned(seen) /\ Unpruned(seenFile)
          /\ Written => /\ seen = seenFile
                        /\ \A m \in IMessages : imAsked[m] > 0 => Contains(seen, m)
          /\ ~seedFailed => \A m \in IMessages :
                imAsked[m] > 0 /\ imPhase = "running" => Contains(seen, m) \/ Behind(m)
          /\ Written \/ ~seedFailed => \A m \in IMessages : imAsked[m] <= 1

LEMMA ImOnceInit == ASSUME IMessageInit PROVE ImOnceInv
  <1>a. MaxPersistFailures \in Nat
    BY IMessageOK DEF IMessageOK
  <1>1. Len(<< >>) = 0
    OBVIOUS
  <1>2. Unpruned(seen) /\ Unpruned(seenFile)
    BY <1>1 DEF IMessageInit, Unpruned
  <1>3. imBudget["persist"] <= MaxPersistFailures
    BY <1>a DEF IMessageInit
  <1>4. \A t \in Tasks : task[t] = Off
    BY DEF IMessageInit
  <1>5. \A m \in task["poll"].rest : m <= delivered
    BY <1>4 DEF Off, TaskAt, Tasks
  <1>6. \A m \in IMessages : imAsked[m] = 0
    BY DEF IMessageInit
  <1> QED  BY <1>2, <1>3, <1>4, <1>5, <1>6 DEF ImOnceInv, IMessageInit

(* The steps that ask nobody and leave the lists as they are.                 *)
Quiet ==
    /\ UNCHANGED <<delivered, seen, seenFile, imAsked, seedFailed, imPhase>>
    /\ imBudget'["persist"] = imBudget["persist"]
    /\ imPhase = "running"
    /\ \A m \in task'["poll"].rest : m \in task["poll"].rest \/ m \in Recent
    /\ \/ task["watch"].at = "off" /\ task'["watch"].at = "off"
       \/ task["watch"].at # "off" /\ watchPos <= watchPos'
       \/ watchPos' = delivered

LEMMA TaskAtWork ==
  ASSUME ImOnceInv, IMessageTypeOK, NEW t \in Tasks, task[t].at # "off"
  PROVE  imPhase = "running"
  <1>1. imPhase = "starting" => task[t].at = "off"
    BY DEF ImOnceInv, Off, TaskAt
  <1> QED  BY <1>1 DEF IMessageTypeOK

LEMMA QuietSteps ==
  ASSUME ImOnceInv, IMessageTypeOK, IMessageTypeOK',
         \/ WatchStarts \/ WatchEnds \/ PollLists \/ PollDone
         \/ \E t \in Tasks : \/ SendProvisional(t) \/ DirectorAnswers(t) \/ DirectorFails(t)
                             \/ FinalReply(t) \/ FinalReplyFails(t)
         \/ \E t \in Tasks : \E m \in IMessages : PassSeen(t, m)
  PROVE  Quiet
  <1>a. "poll" \in Tasks /\ "watch" \in Tasks /\ task \in [Tasks -> TaskStates]
    BY TypeParts DEF Tasks
  <1>b. watchPos \in Nat /\ delivered \in Nat
    BY IMessageOK DEF IMessageOK, IMessageTypeOK
  <1>1. CASE WatchStarts
    BY <1>1, <1>a DEF WatchStarts, Quiet, TaskStates, TaskAt
  <1>2. CASE WatchEnds
    <2>1. imPhase = "running"
      BY <1>2, <1>a, TaskAtWork DEF WatchEnds
    <2> QED  BY <1>2, <1>a, <1>b, <2>1 DEF WatchEnds, Quiet, TaskStates
  <1>3. CASE PollLists \/ PollDone
    <2>1. imPhase = "running"
      BY <1>3, <1>a, TaskAtWork DEF PollLists, PollDone
    <2>2. task'["watch"] = task["watch"] /\ watchPos' = watchPos
      BY <1>3, <1>a DEF PollLists, PollDone
    <2>3. \A m \in task'["poll"].rest : m \in task["poll"].rest \/ m \in Recent
      BY <1>3, <1>a DEF PollLists, PollDone, TaskAt, TaskStates
    <2> QED  BY <1>3, <1>b, <2>1, <2>2, <2>3 DEF PollLists, PollDone, Quiet
  <1>4. ASSUME NEW t \in Tasks,
               \/ SendProvisional(t) \/ DirectorAnswers(t) \/ DirectorFails(t)
               \/ FinalReply(t) \/ FinalReplyFails(t)
        PROVE  Quiet
    <2>1. task[t].at # "off" /\ imPhase = "running"
      BY <1>4, TaskAtWork DEF SendProvisional, DirectorAnswers, DirectorFails, FinalReply,
                          FinalReplyFails
    <2>2. task' \in {[task EXCEPT ![t].at = "told"], [task EXCEPT ![t].at = "sending"], Back(t)}
      BY <1>4 DEF SendProvisional, DirectorAnswers, DirectorFails, FinalReply, FinalReplyFails
    <2>3. /\ task'[t].rest = task[t].rest
          /\ \A u \in Tasks \ {t} : task'[u] = task[u]
      BY <1>a, <2>2 DEF Back, TaskAt, TaskStates
    <2>4. imBudget'["persist"] = imBudget["persist"]
      BY <1>4, ImSpends DEF SendProvisional, DirectorAnswers, DirectorFails, FinalReply,
                            FinalReplyFails
    <2>5. UNCHANGED <<delivered, seen, seenFile, imAsked, seedFailed, imPhase, watchPos>>
      BY <1>4 DEF SendProvisional, DirectorAnswers, DirectorFails, FinalReply, FinalReplyFails
    <2>6. \A m \in task'["poll"].rest : m \in task["poll"].rest
      BY <1>a, <2>3
    <2>7. task["watch"].at = "off" => task'["watch"].at = "off"
      BY <1>a, <2>1, <2>3
    <2> QED  BY <1>b, <2>1, <2>4, <2>5, <2>6, <2>7 DEF Quiet
  <1>5. ASSUME NEW t \in Tasks, NEW m \in IMessages, PassSeen(t, m)
        PROVE  Quiet
    <2>1. task[t].at # "off" /\ imPhase = "running" /\ IsNextFor(t, m)
      BY <1>5, TaskAtWork DEF PassSeen, IsNextFor, Tasks
    <2>2. watchPos <= watchPos'
      <3>1. CASE t = "watch"
        <4>1. m = watchPos + 1 /\ watchPos' = m
          BY <1>5, <2>1, <3>1 DEF PassSeen, Advanced, IsNextFor
        <4> QED  BY <1>b, <4>1
      <3>2. CASE t # "watch"
        BY <1>5, <1>b, <3>2 DEF PassSeen, Advanced
      <3> QED  BY <3>1, <3>2
    <2>3. /\ \A n \in task'[t].rest : n \in task[t].rest \/ t = "watch"
          /\ \A u \in Tasks \ {t} : task'[u] = task[u]
      BY <1>5, <1>a DEF PassSeen, TaskAt, Past
    <2>4. task'["watch"].at = "off" \/ task["watch"].at # "off"
      BY <1>a, <2>1, <2>3
    <2>5. \A n \in task'["poll"].rest : n \in task["poll"].rest
      BY <1>a, <2>3
    <2>6. task["watch"].at = "off" => task'["watch"].at = "off"
      BY <1>a, <2>1, <2>3
    <2> QED  BY <1>5, <2>1, <2>2, <2>5, <2>6 DEF Quiet, PassSeen
  <1> QED  BY <1>1, <1>2, <1>3, <1>4, <1>5

LEMMA QuietOnce ==
  ASSUME ImOnceInv, IMessageTypeOK, IMessageTypeOK', Quiet
  PROVE  ImOnceInv'
  <1>1. /\ delivered' = delivered /\ seen' = seen /\ seenFile' = seenFile
        /\ imAsked' = imAsked /\ seedFailed' = seedFailed /\ imPhase' = imPhase
        /\ imPhase = "running" /\ imBudget'["persist"] = imBudget["persist"]
    BY DEF Quiet
  <1>2. Recent' = Recent /\ \A m \in Recent : m <= delivered
    BY <1>1 DEF Recent
  <1>3. \A m \in task'["poll"].rest : m <= delivered'
    BY <1>1, <1>2 DEF ImOnceInv, Quiet
  <1>4. watchPos \in Nat /\ watchPos' \in Nat /\ delivered \in Nat
    BY IMessageOK DEF IMessageOK, IMessageTypeOK
  <1>5. ASSUME NEW m \in IMessages, imAsked[m] > 0, Behind(m)
        PROVE  Behind(m)'
    <2>1. m <= delivered /\ m \in Nat
      BY <1>5 DEF ImOnceInv, IMessages
    <2>2. task'["watch"].at = "off" \/ m <= watchPos'
      BY <1>4, <1>5, <2>1 DEF Quiet, Behind
    <2>3. m \notin Recent' /\ m \notin task'["poll"].rest
      BY <1>2, <1>5 DEF Quiet, Behind
    <2> QED  BY <2>2, <2>3 DEF Behind
  <1>6. (Unpruned(seen) => Unpruned(seen)') /\ (Unpruned(seenFile) => Unpruned(seenFile)')
    BY <1>1 DEF Unpruned
  <1>7. Written' = Written
    BY <1>1 DEF Written
  <1> QED  BY <1>1, <1>3, <1>5, <1>6, <1>7 DEF ImOnceInv

LEMMA ArrivesOnce ==
  ASSUME ImOnceInv, IMessageTypeOK, IMessageArrives
  PROVE  ImOnceInv'
  <1>1. delivered \in Nat /\ delivered' = delivered + 1 /\ SeenLimit \in Nat /\ Window \in Nat
    BY IMessageOK DEF IMessageOK, IMessageTypeOK, IMessageArrives
  <1>2. UNCHANGED <<imPhase, seen, seenFile, task, watchPos, imAsked, seedFailed, imBudget>>
    BY DEF IMessageArrives
  <1>3. \A m \in IMessages : m \in Nat
    BY DEF IMessages
  <1>4. ASSUME NEW m \in IMessages, imAsked[m] > 0, Behind(m)
        PROVE  Behind(m)'
    <2>1. m <= delivered
      BY <1>4 DEF ImOnceInv
    <2>2. m \notin Recent'
      BY <1>1, <1>3, <1>4, <2>1 DEF Behind, Recent
    <2> QED  BY <1>2, <1>4, <2>2 DEF Behind
  <1>5. /\ \A m \in IMessages : imAsked[m] > 0 => m <= delivered'
        /\ \A m \in task["poll"].rest : m <= delivered'
    <2>1. task["poll"].rest \subseteq IMessages
      BY TypeParts DEF Tasks, TaskStates
    <2> QED  BY <1>1, <1>3, <2>1 DEF ImOnceInv
  <1>6. delivered' <= SeenLimit => delivered <= SeenLimit
    BY <1>1
  <1>7. ASSUME NEW s, SeenList(s), Unpruned(s) PROVE \A i \in 1..Len(s) : s[i] <= delivered'
    <2>1. \A i \in 1..Len(s) : s[i] \in Nat
      <3>1. s \in Seq(IMessages)
        BY <1>7 DEF SeenList
      <3>2. \A i \in 1..Len(s) : s[i] \in IMessages
        BY <3>1
      <3> QED  BY <1>3, <3>2
    <2> QED  BY <1>1, <1>7, <2>1 DEF Unpruned
  <1>8. (Unpruned(seen) => Unpruned(seen)') /\ (Unpruned(seenFile) => Unpruned(seenFile)')
    <2>1. SeenList(seen) /\ SeenList(seenFile)
      BY TypeParts DEF ListsTyped
    <2> QED  BY <1>2, <1>7, <2>1 DEF Unpruned
  <1>9. Written' = Written
    BY <1>2 DEF Written
  <1> QED  BY <1>2, <1>4, <1>5, <1>6, <1>8, <1>9 DEF ImOnceInv

LEMMA SeedOnce ==
  ASSUME ImOnceInv, IMessageTypeOK, IMessageTypeOK', Seed
  PROVE  ImOnceInv'
  <1>1. /\ UNCHANGED <<delivered, watchPos, imAsked, seedFailed>> /\ imPhase = "starting"
        /\ imPhase' = "running"
    BY DEF Seed
  <1>2. task["poll"] = Off /\ task["watch"] = Off
    BY <1>1 DEF ImOnceInv, Tasks
  <1>3. task'["poll"].rest = {} /\ task'["watch"].at = "off"
    <2>1. task \in [Tasks -> TaskStates]
      BY TypeParts
    <2> QED  BY <1>2, <2>1 DEF Seed, Tasks, TaskStates, Off, TaskAt
  <1>4. PICK p \in SetToSeqs(Recent) : seen' = AddedMany(seen, p)
    BY DEF Seed
  <1>5. /\ imBudget \in [{"crash", "persist", "seed", "fail", "raise"} -> Nat]
        /\ imBudget'["persist"] <= imBudget["persist"]
        /\ \/ seenFile' = seen'
           \/ seenFile' = seenFile /\ imBudget'["persist"] < imBudget["persist"]
    BY TypeParts, Persisted DEF Seed, BudgetTyped
  <1>6. /\ imBudget["persist"] \in Nat /\ imBudget'["persist"] \in Nat
        /\ MaxPersistFailures \in Nat /\ imBudget["persist"] <= MaxPersistFailures
    BY TypeParts, IMessageOK DEF IMessageOK, BudgetTyped, ImOnceInv
  <1>7. imBudget'["persist"] <= MaxPersistFailures /\ (Written' => Written /\ seenFile' = seen')
    BY <1>5, <1>6 DEF Written
  <1>8. CASE delivered <= SeenLimit
    <2>1. /\ Unpruned(seen') /\ \A m : Contains(seen, m) => Contains(seen', m)
          /\ \A m \in Recent : Contains(seen', m)
      BY <1>4, <1>8, SeededFits DEF ImOnceInv
    <2>2. Unpruned(seen)' /\ Unpruned(seenFile)'
      BY <1>1, <1>5, <1>8, <2>1 DEF ImOnceInv, Unpruned
    <2>3. \A m \in IMessages : m \notin Recent => Behind(m)'
      BY <1>1, <1>3 DEF Behind, Recent
    <2>4. \A m \in IMessages : Contains(seen', m) \/ Behind(m)'
      BY <2>1, <2>3
    <2>5. Written' => \A m \in IMessages : imAsked[m] > 0 => Contains(seen', m)
      BY <1>7, <1>8, <2>1 DEF ImOnceInv
    <2>6. Written' \/ ~seedFailed => \A m \in IMessages : imAsked[m] <= 1
      BY <1>7, <1>8 DEF ImOnceInv
    <2>7. \A m \in IMessages : imAsked[m] > 0 => m <= delivered
      BY DEF ImOnceInv
    <2> QED  BY <1>1, <1>3, <1>7, <2>2, <2>4, <2>5, <2>6, <2>7 DEF ImOnceInv
  <1>9. CASE ~(delivered <= SeenLimit)
    BY <1>1, <1>3, <1>7, <1>9 DEF ImOnceInv
  <1> QED  BY <1>8, <1>9

LEMMA SeedFailsOnce ==
  ASSUME ImOnceInv, IMessageTypeOK, SeedFails
  PROVE  ImOnceInv'
  <1>1. /\ UNCHANGED <<delivered, watchPos, imAsked, seen, seenFile>> /\ imPhase = "starting"
        /\ imPhase' = "running" /\ seedFailed' = TRUE
        /\ imBudget'["persist"] = imBudget["persist"]
    BY ImSpends DEF SeedFails
  <1>2. task["poll"] = Off
    BY <1>1 DEF ImOnceInv, Tasks
  <1>3. task'["poll"].rest = {}
    <2>1. task \in [Tasks -> TaskStates]
      BY TypeParts
    <2> QED  BY <1>2, <2>1 DEF SeedFails, Tasks, TaskStates, Off, TaskAt
  <1>4. (Unpruned(seen) => Unpruned(seen)') /\ (Unpruned(seenFile) => Unpruned(seenFile)')
    BY <1>1 DEF Unpruned
  <1>5. Written' = Written
    BY <1>1 DEF Written
  <1> QED  BY <1>1, <1>3, <1>4, <1>5 DEF ImOnceInv

(* A restart: only the file is left, and no task is at work.                  *)
LEMMA RestartOnce ==
  ASSUME ImOnceInv, IMessageTypeOK, Restarted,
         UNCHANGED <<delivered, watchPos, imAsked, seedFailed>>, seen' = seenFile',
         imBudget["persist"] \in Nat, imBudget'["persist"] \in Nat,
         imBudget'["persist"] <= imBudget["persist"],
         delivered <= SeenLimit => Unpruned(seenFile'),
         delivered <= SeenLimit /\ Written' /\ Written =>
            \A m \in IMessages : Contains(seen, m) => Contains(seenFile', m)
  PROVE  ImOnceInv'
  <1>1. imPhase' = "starting" /\ task' = [t \in Tasks |-> Off]
    BY DEF Restarted
  <1>2. (\A t \in Tasks : task'[t] = Off) /\ task'["poll"].rest = {}
    BY <1>1 DEF Tasks, Off, TaskAt
  <1>3. MaxPersistFailures \in Nat /\ imBudget["persist"] <= MaxPersistFailures
    BY IMessageOK DEF IMessageOK, ImOnceInv
  <1>4. imBudget'["persist"] <= MaxPersistFailures /\ (Written' => Written)
    BY <1>3 DEF Written
  <1>5. delivered <= SeenLimit => Unpruned(seen)' /\ Unpruned(seenFile)'
    BY DEF Unpruned
  <1>6. \A m \in IMessages : imAsked[m] > 0 => m <= delivered
    BY DEF ImOnceInv
  <1>7. ASSUME delivered <= SeenLimit, Written'
        PROVE  \A m \in IMessages : imAsked[m] > 0 => Contains(seen', m)
    BY <1>4, <1>7 DEF ImOnceInv
  <1>8. ASSUME delivered <= SeenLimit, Written' \/ ~seedFailed
        PROVE  \A m \in IMessages : imAsked[m] <= 1
    BY <1>4, <1>8 DEF ImOnceInv
  <1> QED  BY <1>1, <1>2, <1>4, <1>5, <1>6, <1>7, <1>8 DEF ImOnceInv

LEMMA CrashOnce ==
  ASSUME ImOnceInv, IMessageTypeOK, IMessageCrash
  PROVE  ImOnceInv'
  <1>1. /\ UNCHANGED <<delivered, watchPos, imAsked, seedFailed>> /\ seen' = seenFile'
        /\ seenFile' = seenFile /\ Restarted
    BY DEF IMessageCrash
  <1>2. imBudget'["persist"] = imBudget["persist"] /\ imBudget["persist"] \in Nat
    BY ImSpends, TypeParts DEF IMessageCrash, BudgetTyped
  <1>3. delivered <= SeenLimit => Unpruned(seenFile')
    BY <1>1 DEF ImOnceInv
  <1>4. delivered <= SeenLimit /\ Written => \A m : Contains(seen, m) => Contains(seenFile', m)
    BY <1>1 DEF ImOnceInv
  <1>5. imBudget'["persist"] <= imBudget["persist"] /\ imBudget'["persist"] \in Nat
    BY <1>2
  <1> QED  BY <1>1, <1>2, <1>3, <1>4, <1>5, RestartOnce

(* A task takes up a message: that its persist worked, whether the Director is *)
(* asked, and where the task goes differ.                                    *)
TakesUp(t, m) ==
    /\ IsNextFor(t, m) /\ ~Contains(seen, m) /\ seen' = Added(seen, m)
    /\ UNCHANGED <<delivered, imPhase, seedFailed>>
    /\ imAsked' \in {imAsked, [imAsked EXCEPT ![m] = @ + 1]}
    /\ imBudget'["persist"] <= imBudget["persist"]
    /\ \/ seenFile' = seen'
       \/ seenFile' = seenFile /\ imBudget'["persist"] < imBudget["persist"]
    /\ \A n \in task'["poll"].rest : n \in task["poll"].rest
    /\ task["watch"].at = "off" => task'["watch"].at = "off"
    /\ watchPos <= watchPos'

LEMMA NextIsDelivered ==
  ASSUME ImOnceInv, IMessageTypeOK, NEW t \in Tasks, NEW m \in IMessages, IsNextFor(t, m)
  PROVE  /\ m <= delivered /\ imPhase = "running" /\ ~Behind(m)
         /\ t = "watch" => watchPos <= Advanced(t, m)
         /\ t = "poll" => watchPos <= Advanced(t, m)
  <1>1. t \in {"poll", "watch"} /\ watchPos \in Nat
    BY IMessageOK DEF IMessageOK, Tasks, IMessageTypeOK
  <1>2. task[t].at # "off"
    BY <1>1 DEF IsNextFor
  <1>3. CASE t = "poll"
    BY <1>2, <1>3, <1>1, TaskAtWork DEF IsNextFor, ImOnceInv, Behind, Advanced
  <1>4. CASE t = "watch"
    <2>1. m = watchPos + 1 /\ m <= delivered
      BY <1>4 DEF IsNextFor
    <2> QED  BY <1>1, <1>2, <1>4, <2>1, TaskAtWork DEF Behind, Advanced
  <1> QED  BY <1>1, <1>3, <1>4

LEMMA TakesUpOnce ==
  ASSUME ImOnceInv, IMessageTypeOK, IMessageTypeOK',
         NEW t \in Tasks, NEW m \in IMessages, TakesUp(t, m)
  PROVE  ImOnceInv'
  <1>1. m <= delivered /\ imPhase = "running" /\ ~Behind(m)
    BY NextIsDelivered DEF TakesUp
  <1>2. /\ delivered' = delivered /\ imPhase' = imPhase /\ seedFailed' = seedFailed
        /\ ~Contains(seen, m) /\ seen' = Added(seen, m)
    BY DEF TakesUp
  <1>3. /\ imBudget["persist"] \in Nat /\ imBudget'["persist"] \in Nat
        /\ MaxPersistFailures \in Nat /\ imBudget["persist"] <= MaxPersistFailures
    BY TypeParts, IMessageOK DEF IMessageOK, BudgetTyped, ImOnceInv
  <1>4. imBudget'["persist"] <= MaxPersistFailures /\ (Written' => Written /\ seenFile' = seen')
    BY <1>3 DEF Written, TakesUp
  <1>5. /\ imAsked \in [IMessages -> Nat] /\ watchPos \in Nat /\ watchPos' \in Nat
        /\ watchPos <= watchPos'
    BY TypeParts, IMessageOK DEF IMessageOK, IMessageTypeOK, TakesUp
  <1>6. /\ imAsked'[m] <= imAsked[m] + 1
        /\ \A n \in IMessages \ {m} : imAsked'[n] = imAsked[n]
    BY <1>5 DEF TakesUp
  <1>7. \A n \in task'["poll"].rest : n <= delivered'
    BY <1>2 DEF ImOnceInv, TakesUp
  <1>8. \A n \in IMessages : imAsked'[n] > 0 => n <= delivered'
    BY <1>1, <1>2, <1>6 DEF ImOnceInv
  <1>9. ASSUME NEW n \in IMessages, Behind(n)
        PROVE  Behind(n)'
    <2>1. n \notin Recent' /\ n \notin task'["poll"].rest
      BY <1>2, <1>9 DEF Behind, Recent, TakesUp
    <2>2. task'["watch"].at = "off" \/ n <= watchPos'
      BY <1>5, <1>9 DEF Behind, TakesUp, IMessages
    <2> QED  BY <2>1, <2>2 DEF Behind
  <1>10. ASSUME delivered <= SeenLimit
         PROVE  /\ Unpruned(seen)' /\ Unpruned(seenFile)'
                /\ \A k : Contains(seen, k) => Contains(seen', k)
                /\ Contains(seen', m)
    <2>1. SeenList(seen)
      BY TypeParts DEF ListsTyped
    <2>2. /\ Unpruned(seen') /\ Contains(seen', m)
          /\ \A k : Contains(seen, k) => Contains(seen', k)
      BY <1>1, <1>2, <1>10, <2>1, AddedFits DEF ImOnceInv
    <2>3. Unpruned(seen)'
      BY <1>2, <2>2 DEF Unpruned
    <2>4. Unpruned(seenFile)'
      BY <1>2, <1>10, <2>2 DEF ImOnceInv, Unpruned, TakesUp
    <2> QED  BY <2>2, <2>3, <2>4
  <1>11. ASSUME delivered <= SeenLimit, Written \/ ~seedFailed
         PROVE  imAsked[m] = 0 /\ \A n \in IMessages : imAsked[n] <= 1
    <2>1. ~ (imAsked[m] > 0)
      BY <1>1, <1>2, <1>11 DEF ImOnceInv
    <2> QED  BY <1>5, <1>11, <2>1 DEF ImOnceInv
  <1>12. ASSUME delivered <= SeenLimit, Written' \/ ~seedFailed'
         PROVE  \A n \in IMessages : imAsked'[n] <= 1
    BY <1>2, <1>4, <1>5, <1>6, <1>11, <1>12
  <1>13. ASSUME delivered <= SeenLimit, Written'
         PROVE  \A n \in IMessages : imAsked'[n] > 0 => Contains(seen', n)
    BY <1>4, <1>6, <1>10, <1>13 DEF ImOnceInv
  <1>14. ASSUME delivered <= SeenLimit, ~seedFailed'
         PROVE  \A n \in IMessages : imAsked'[n] > 0 => Contains(seen', n) \/ Behind(n)'
    BY <1>1, <1>2, <1>6, <1>9, <1>10, <1>14 DEF ImOnceInv
  <1> QED
    BY <1>1, <1>2, <1>4, <1>7, <1>8, <1>10, <1>12, <1>13, <1>14 DEF ImOnceInv

LEMMA TakeOnce ==
  ASSUME ImOnceInv, IMessageTypeOK, IMessageTypeOK', NEW t \in Tasks, NEW m \in IMessages,
         Take(t, m)
  PROVE  ImOnceInv'
  <1>a. task \in [Tasks -> TaskStates] /\ BudgetTyped
    BY TypeParts
  <1>1. IsNextFor(t, m) /\ t \in {"poll", "watch"} /\ "poll" \in Tasks /\ "watch" \in Tasks
    BY DEF Take, Tasks
  <1>2. /\ imBudget'["persist"] <= imBudget["persist"]
        /\ \/ seenFile' = seen'
           \/ seenFile' = seenFile /\ imBudget'["persist"] < imBudget["persist"]
    BY <1>a, Persisted DEF Take, BudgetTyped
  <1>3. task' \in {[task EXCEPT ![t] = TaskAt(Ready(t), 0, Past(t, m))],
                   [task EXCEPT ![t] = TaskAt(Handling(m), m, Past(t, m))]}
    BY DEF Take
  <1>4. task'[t].rest = Past(t, m) /\ \A u \in Tasks \ {t} : task'[u] = task[u]
    BY <1>a, <1>3 DEF TaskAt
  <1>5. \A n \in task'["poll"].rest : n \in task["poll"].rest
    BY <1>1, <1>4 DEF Past
  <1>6. task["watch"].at = "off" => task'["watch"].at = "off"
    BY <1>1, <1>4 DEF IsNextFor
  <1>7. watchPos <= watchPos'
    BY <1>1, NextIsDelivered DEF Take
  <1>8. imAsked' \in {imAsked, [imAsked EXCEPT ![m] = @ + 1]}
    BY DEF Take
  <1>9. TakesUp(t, m)
    BY <1>2, <1>5, <1>6, <1>7, <1>8 DEF Take, TakesUp
  <1> QED  BY <1>9, TakesUpOnce

LEMMA PollRaisesOnce ==
  ASSUME ImOnceInv, IMessageTypeOK, IMessageTypeOK', NEW m \in IMessages, PollRaises(m)
  PROVE  ImOnceInv'
  <1>a. task \in [Tasks -> TaskStates] /\ watchPos \in Nat
    BY TypeParts, IMessageOK DEF IMessageOK, ImCountsTyped
  <1>1. /\ imBudget'["persist"] <= imBudget["persist"]
        /\ \/ seenFile' = seen'
           \/ seenFile' = seenFile /\ imBudget'["persist"] < imBudget["persist"]
    BY PersistedRaising DEF PollRaises
  <1>2. task'["poll"].rest = {} /\ task'["watch"] = task["watch"]
    BY <1>a DEF PollRaises, Tasks, TaskAt
  <1>3. TakesUp("poll", m)
    BY <1>a, <1>1, <1>2 DEF PollRaises, TakesUp
  <1> QED  BY <1>3, TakesUpOnce DEF Tasks

LEMMA WatchRaisesOnce ==
  ASSUME ImOnceInv, IMessageTypeOK, NEW m \in IMessages, WatchRaises(m)
  PROVE  ImOnceInv'
  <1>1. /\ UNCHANGED <<delivered, watchPos, imAsked, seedFailed>> /\ seen' = seenFile'
        /\ Restarted /\ ~Contains(seen, m)
    BY DEF WatchRaises
  <1>2. /\ imBudget'["persist"] \in Nat /\ imBudget'["persist"] <= imBudget["persist"]
        /\ \/ seenFile' = Added(seen, m)
           \/ seenFile' = seenFile /\ imBudget'["persist"] < imBudget["persist"]
    BY PersistedRaising DEF WatchRaises
  <1>3. imBudget["persist"] \in Nat /\ MaxPersistFailures \in Nat
    BY TypeParts, IMessageOK DEF IMessageOK, BudgetTyped
  <1>4. m <= delivered
    BY NextIsDelivered DEF WatchRaises, Tasks
  <1>5. ASSUME delivered <= SeenLimit
        PROVE  /\ Unpruned(seenFile)
               /\ Unpruned(Added(seen, m))
               /\ \A k : Contains(seen, k) => Contains(Added(seen, m), k)
    <2>1. SeenList(seen) /\ Unpruned(seen) /\ Unpruned(seenFile)
      BY <1>5, TypeParts DEF ListsTyped, ImOnceInv
    <2> QED  BY <1>4, <1>5, <2>1, AddedFits
  <1>6. delivered <= SeenLimit => Unpruned(seenFile')
    BY <1>2, <1>5
  <1>7. Written' /\ Written => seenFile' = Added(seen, m)
    BY <1>2, <1>3 DEF Written
  <1>8. delivered <= SeenLimit /\ Written' /\ Written =>
            \A k \in IMessages : Contains(seen, k) => Contains(seenFile', k)
    BY <1>5, <1>7
  <1> QED  BY <1>1, <1>2, <1>3, <1>6, <1>8, RestartOnce

LEMMA ImOnceStep ==
  ASSUME ImOnceInv, IMessageTypeOK, IMessageTypeOK', [IMessageNext]_imVars
  PROVE  ImOnceInv'
  <1>1. CASE UNCHANGED imVars
    BY <1>1 DEF imVars, ImOnceInv, Unpruned, Written, Behind, Recent
  <1>2. "poll" \in Tasks /\ "watch" \in Tasks
    BY DEF Tasks
  <1> QED
    BY <1>1, <1>2, QuietSteps, QuietOnce, ArrivesOnce, SeedOnce, SeedFailsOnce, CrashOnce,
       TakeOnce, PollRaisesOnce, WatchRaisesOnce
    DEF IMessageNext, PollRuns, WatchRuns, IMessageFails

(* Whatever the two tasks do between each other's awaits, and however often the *)
(* process dies, the Director is asked about a message once, while the seen    *)
(* list drops nothing and not both a seeding and a persist failed.            *)
THEOREM IMessageAsksOnce == IMessageSpec => []MessageOnce
  <1>1. ImOnceInv /\ IMessageTypeOK => MessageOnce
    <2>1. SUFFICES ASSUME ImOnceInv, IMessageTypeOK PROVE MessageOnce
      OBVIOUS
    <2>2. /\ imAsked \in [IMessages -> Nat] /\ delivered \in Nat /\ SeenLimit \in Nat
          /\ imBudget["persist"] \in Nat /\ imBudget["persist"] <= MaxPersistFailures
          /\ MaxPersistFailures \in Nat /\ seedFailed \in BOOLEAN
      BY <2>1, TypeParts, IMessageOK
      DEF IMessageOK, IMessageTypeOK, BudgetTyped, ImOnceInv
    <2>3. ASSUME delivered <= SeenLimit, Written \/ ~seedFailed
          PROVE  \A m \in IMessages : imAsked[m] <= 1
      BY <2>1, <2>3 DEF ImOnceInv
    <2> QED  BY <2>2, <2>3 DEF MessageOnce, Written
  <1> QED
    BY <1>1, IMessageInitTyped, IMessageStepTyped, ImOnceInit, ImOnceStep, PTL
    DEF IMessageSpec
============================================================================
