--------------------------- MODULE Services_proofs ---------------------------
(* The services together, as MCServices runs them: what is proved of each by  *)
(* itself holds beside the others, whichever of them is at work.             *)
EXTENDS MCServices, Connectors_proofs, Memory_proofs, Queues_proofs, DirectorTurn_proofs,
        AgentTurn_proofs

(* A step of the whole is a step of a service, or leaves it alone.            *)
EachSteps ==
    /\ [TelegramNext]_tgVars /\ [IMessageNext]_imVars /\ [SignalNext]_sgVars
    /\ [GmailNext]_gmVars /\ [ConversationNext]_cvVars /\ [SharedNext]_smVars
    /\ [Next]_vars /\ [ScheduleNext]_scVars /\ [DirectorNext]_drVars
    /\ [AgentNext]_agVars /\ [ShepherdNext]_shVars

LEMMA OneSteps ==
  ASSUME [ServicesNext]_svcVars
  PROVE  EachSteps
  <1>1. CASE UNCHANGED svcVars
    BY <1>1 DEF svcVars, EachSteps
  <1>2. CASE ServicesNext
    BY <1>2 DEF ServicesNext, Only, EachSteps
  <1> QED  BY <1>1, <1>2

(* The run of the services checks nothing but the services' own specifications. *)
THEOREM ServicesRunAlone ==
  ServicesSpec => /\ TelegramSpec /\ IMessageSpec /\ SignalSpec /\ GmailSpec
                  /\ ConversationSpec /\ SharedSpec /\ Spec /\ ScheduleSpec
                  /\ DirectorSpec /\ AgentSpec /\ ShepherdSpec
  <1>1. ServicesInit => /\ TelegramInit /\ IMessageInit /\ SignalInit /\ GmailInit
                        /\ ConversationInit /\ SharedInit /\ ScheduleInit /\ AgentInit
                        /\ Init /\ DirectorInit /\ ShepherdInit
    BY DEF ServicesInit
  <1>2. [ServicesNext]_svcVars =>
          /\ [TelegramNext]_tgVars /\ [IMessageNext]_imVars /\ [SignalNext]_sgVars
          /\ [GmailNext]_gmVars /\ [ConversationNext]_cvVars /\ [SharedNext]_smVars
          /\ [Next]_vars /\ [ScheduleNext]_scVars /\ [DirectorNext]_drVars
          /\ [AgentNext]_agVars /\ [ShepherdNext]_shVars
    BY OneSteps DEF EachSteps
  <1> QED
    BY <1>1, <1>2, PTL
    DEF ServicesSpec, TelegramSpec, IMessageSpec, SignalSpec, GmailSpec, ConversationSpec,
        SharedSpec, Spec, ScheduleSpec, DirectorSpec, AgentSpec, ShepherdSpec

(* In whatever order the services act, every variable of every one of them     *)
(* holds what its code may store in it.                                      *)
THEOREM ServicesTypeCorrect == ServicesSpec => []ServicesTypeOK
  <1>1. /\ TelegramTypeOK /\ IMessageTypeOK /\ SignalTypeOK /\ GmailTypeOK
        /\ ConversationTypeOK /\ SharedTypeOK /\ TypeOK /\ ScheduleTypeOK /\ DirectorTypeOK
        /\ AgentTypeOK /\ ShepherdTypeOK
        => ServicesTypeOK
    BY DEF ServicesTypeOK
  <1> QED
    BY <1>1, ServicesRunAlone, TelegramTypeCorrect, IMessageTypeCorrect, SignalTypeCorrect,
       GmailTypeCorrect, ConversationTypeCorrect, SharedTypeCorrect, WorkersTypeCorrect,
       ScheduleTypeCorrect, DirectorTypeCorrect, AgentTypeCorrect, ShepherdTypeCorrect, PTL

(* The safety promises of all of them, in one system.                        *)
THEOREM ServicesKeepPromises ==
  ASSUME IsFiniteSet(SignalMessages), Cardinality(SignalMessages) <= SignalLimit
  PROVE  ServicesSpec =>
           /\ []UpdateOnce /\ []UpdateLossBounded /\ RepliesInOrder
           /\ []MessageOnce /\ []MailOnce
           /\ []SignalOncePerLife /\ []DeliveriesConserved
           /\ []NewestKept /\ []ConversationBounded
           /\ []QuotasHold /\ EvictedForFresher
           /\ []PromiseInv /\ []OldestFirst /\ KeepsPromise
           /\ []DispatchedWasExecuted /\ []RunsBounded
           /\ []CloudIsPermitted /\ []TranscriptKeepsAnswers
           /\ []MutationsGuarded /\ []RetriedOnce
           /\ []OutagesAreTold
  BY ServicesRunAlone, TelegramActsOnce, TelegramLosesLittle, TelegramKeepsOrder,
     IMessageAsksOnce, GmailActsOnce, SignalAsksOncePerLife, SignalConserves,
     ConversationKeepsNewest, ConversationStaysBounded, SharedQuotasHold,
     SharedEvictsForFresher, PromiseHolds, OldestLeavesFirst, QueueImplementsOutcomes,
     NothingMarkedUndone, ScheduleRunsBounded, CloudOnlyPermitted, AnswersAreKept,
     MutationsAreGuarded, LoopRetriesOnce, ShepherdTells
==============================================================================
