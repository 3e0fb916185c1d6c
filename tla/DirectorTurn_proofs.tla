------------------------- MODULE DirectorTurn_proofs -------------------------
(* Theorems about DirectorTurn, for every set of turns and of requests and    *)
(* every number of rounds of the tool loop.                                  *)
EXTENDS DirectorTurn, TLAPS

LEMMA RoutesTyped ==
  ASSUME NEW r \in TurnRequest, NEW private \in BOOLEAN,
         NEW target \in {"none", "local_heavy", "cloud", "iris"}
  PROVE  /\ r.via # "auto" => Manual(r) \in Providers
         /\ AutoImage(r) \in Providers
         /\ Classified(r, private, target) \in Providers
  <1>1. r.via \in {"auto", "local", "local_reasoning", "cloud", "unknown"}
        /\ r.private \in BOOLEAN
    BY DEF TurnRequest
  <1>2. Local(r) \in Providers
    BY DEF Local, Providers
  <1>3. r.via # "auto" => Manual(r) \in Providers
    BY <1>1, <1>2 DEF Manual, Providers
  <1>4. AutoImage(r) \in Providers
    BY DEF AutoImage, Providers
  <1>5. Classified(r, private, target) \in Providers
    BY DEF Classified, Providers
  <1> QED  BY <1>3, <1>4, <1>5

LEMMA EnteredTyped ==
  ASSUME NEW r, NEW p
  PROVE  Entered(r, p) \in {"asking", "searching", "told", "failed"}
  BY DEF Entered

LEMMA DirectorInitTyped == DirectorOK /\ DirectorInit => DirectorTypeOK
  <1> SUFFICES ASSUME DirectorOK, DirectorInit PROVE DirectorTypeOK
    OBVIOUS
  <1>1. AnyRequest \in TurnRequest
    BY DEF AnyRequest, TurnRequest
  <1>2. [at |-> "new", r |-> AnyRequest, provider |-> "none", private |-> FALSE,
         round |-> 0, flagged |-> FALSE, over |-> FALSE] \in TurnState
    BY <1>1 DEF DirectorOK, TurnState, Providers
  <1> QED  BY <1>2 DEF DirectorOK, DirectorInit, DirectorTypeOK

LEMMA EntryTyped ==
  ASSUME DirectorOK, DirectorTypeOK, NEW t \in Turns, NEW r \in TurnRequest
  PROVE  Entry(t, r) \in TurnState
  <1> DEFINE over == spent >= HardLimit
             entry == [turn[t] EXCEPT !.r = r, !.private = r.private, !.round = 1,
                                      !.over = over]
  <1>1. /\ turn[t] \in TurnState /\ r.private \in BOOLEAN /\ over \in BOOLEAN
        /\ r.kind \in {"exact", "read", "control", "chat"} /\ r.images \in BOOLEAN
        /\ 1 \in 0..MaxRounds
    BY DEF DirectorTypeOK, DirectorOK, TurnRequest
  <1>2. entry \in TurnState
    <2> HIDE DEF over
    <2> QED  BY <1>1 DEF TurnState
  <1>3. ASSUME NEW a \in {"answered", "capability", "told", "classifying"}
        PROVE  [entry EXCEPT !.at = a] \in TurnState
    <2> HIDE DEF entry
    <2> QED  BY <1>2 DEF TurnState, Ended
  <1>4. ASSUME NEW p \in Providers
        PROVE  [entry EXCEPT !.provider = p, !.at = Entered(r, p)] \in TurnState
    <2> HIDE DEF entry
    <2> QED  BY <1>2, EnteredTyped DEF TurnState, Ended
  <1>5. /\ r.via # "auto" => Manual(r) \in Providers
        /\ AutoImage(r) \in Providers
    BY RoutesTyped
  <1> HIDE DEF entry, over
  <1>6. Entry(t, r) \in
          {[entry EXCEPT !.at = a] : a \in {"answered", "capability", "told", "classifying"}}
            \cup {[entry EXCEPT !.provider = p, !.at = Entered(r, p)] : p \in Providers}
    BY <1>1, <1>5 DEF Entry, entry, over
  <1> QED  BY <1>3, <1>4, <1>6

(* One turn moves, to another state of a turn; the rest follows.             *)
LEMMA RecordsTyped ==
  ASSUME DirectorOK, DirectorTypeOK, NEW t \in Turns,
         Records(t) \/ RecordsNothing \/ RecordsPrompt(t)
  PROVE  /\ transcript' \in Seq(Turns \X {"user", "assistant"})
         /\ storeFailures' \in 0..MaxStoreFailures
  <1>1. /\ <<t, "user">> \in Turns \X {"user", "assistant"}
        /\ <<t, "assistant">> \in Turns \X {"user", "assistant"}
    OBVIOUS
  <1> DEFINE S == Turns \X {"user", "assistant"}
  <1>2. /\ transcript \o <<<<t, "user">>, <<t, "assistant">>>> \in Seq(S)
        /\ Append(transcript, <<t, "user">>) \in Seq(S)
    <2>1. transcript \in Seq(S) /\ <<t, "user">> \in S /\ <<t, "assistant">> \in S
      BY <1>1 DEF DirectorTypeOK
    <2> HIDE DEF S
    <2> QED  BY <2>1
  <1>3. transcript \in Seq(S) /\ storeFailures \in 0..MaxStoreFailures
    BY DEF DirectorTypeOK
  <1> HIDE DEF S
  <1>4. transcript' \in Seq(S)
    BY <1>2, <1>3 DEF Records, RecordsNothing, RecordsPrompt
  <1>5. storeFailures' \in 0..MaxStoreFailures
    BY <1>3 DEF Records, RecordsNothing, RecordsPrompt, DirectorOK
  <1> QED  BY <1>4, <1>5 DEF S

LEMMA PaysTyped ==
  ASSUME DirectorOK, DirectorTypeOK, NEW t \in Turns, Pays(t)
  PROVE  spent' \in 0..HardLimit
  BY DEF DirectorOK, DirectorTypeOK, Pays

LEMMA MovesTyped ==
  ASSUME DirectorTypeOK, NEW t \in Turns, NEW n \in TurnState,
         turn' = [turn EXCEPT ![t] = n]
  PROVE  turn' \in [Turns -> TurnState]
  BY DEF DirectorTypeOK

LEMMA GoesTyped ==
  ASSUME DirectorTypeOK, NEW t \in Turns, NEW a,
         a \in {"searching", "telling", "tool", "closing", "asking", "failed", "told",
                "answered", "blank", "raised"},
         Goes(t, a)
  PROVE  turn' \in [Turns -> TurnState]
  <1>1. [turn[t] EXCEPT !.at = a] \in TurnState
    BY DEF DirectorTypeOK, TurnState, Ended
  <1> QED  BY <1>1, MovesTyped DEF Goes

LEMMA RoundTyped ==
  ASSUME DirectorOK, DirectorTypeOK, NEW t \in Turns, RoundEnds(t)
  PROVE  turn' \in [Turns -> TurnState]
  <1> DEFINE n == [turn[t] EXCEPT
                     !.at = IF turn[t].round < MaxRounds THEN "asking" ELSE "closing",
                     !.round = IF @ < MaxRounds THEN @ + 1 ELSE @]
  <1>a. turn[t] \in TurnState /\ turn[t].round \in 0..MaxRounds
    BY DEF DirectorTypeOK, TurnState
  <1>b. (IF turn[t].round < MaxRounds THEN turn[t].round + 1 ELSE turn[t].round)
            \in 0..MaxRounds
    BY <1>a DEF DirectorOK
  <1>1. n \in TurnState
    BY <1>a, <1>b DEF TurnState
  <1>2. turn' = [turn EXCEPT ![t] = n]
    BY DEF RoundEnds, DirectorTypeOK
  <1> HIDE DEF n
  <1> QED  BY <1>1, <1>2, MovesTyped

LEMMA TurnTyped ==
  ASSUME DirectorOK, DirectorTypeOK, NEW t \in Turns, TurnRuns(t)
  PROVE  turn' \in [Turns -> TurnState]
  <1>1. CASE CapabilityReturns(t) \/ CapabilityFails(t)
    BY <1>1, GoesTyped DEF CapabilityReturns, CapabilityFails
  <1>2. ASSUME NEW found \in BOOLEAN, NEW target \in {"none", "local_heavy", "cloud", "iris"},
               ClassifierReturns(t, found, target)
        PROVE  turn' \in [Turns -> TurnState]
    <2> DEFINE r == turn[t].r
               private == r.private \/ found
               p == Classified(r, private, target)
               a == IF p = "none" THEN "health" ELSE Entered(r, p)
               n == [turn[t] EXCEPT !.flagged = found, !.private = private,
                                    !.provider = p, !.at = a]
    <2>1. turn[t] \in TurnState /\ r \in TurnRequest /\ private \in BOOLEAN
      BY DEF DirectorTypeOK, TurnState, TurnRequest
    <2>2. p \in Providers
      BY <2>1, RoutesTyped
    <2>3. a \in {"health", "asking", "searching", "told", "failed"}
      BY EnteredTyped
    <2>4. turn' = [turn EXCEPT ![t] = n]
      BY <1>2 DEF ClassifierReturns, DirectorTypeOK
    <2> HIDE DEF private, p, a, r
    <2>5. n \in TurnState
      BY <2>1, <2>2, <2>3 DEF TurnState, Ended
    <2> QED  BY <2>4, <2>5, MovesTyped
  <1>3. CASE HealthReturns(t)
    <2>1. PICK p \in {"local_reasoning", "error"} : Routed(t, p)
      BY <1>3 DEF HealthReturns
    <2> DEFINE a == Entered(turn[t].r, p)
               n == [turn[t] EXCEPT !.at = a, !.provider = p, !.round = 1]
    <2>2. a \in {"asking", "searching", "told", "failed"}
      BY EnteredTyped
    <2>3. turn' = [turn EXCEPT ![t] = n]
      BY <2>1 DEF Routed, DirectorTypeOK
    <2> HIDE DEF a
    <2>a. turn[t] \in TurnState /\ 1 \in 0..MaxRounds /\ p \in Providers
      BY DEF DirectorTypeOK, DirectorOK, Providers
    <2>4. n \in TurnState
      BY <2>2, <2>a DEF TurnState, Ended
    <2> QED  BY <2>3, <2>4, MovesTyped
  <1>4. CASE SearchReturns(t) \/ SearchFails(t) \/ ModelAnswers(t) \/ AnswerRaises(t)
    BY <1>4, GoesTyped DEF SearchReturns, SearchFails, ModelAnswers, AnswerRaises
  <1>5. CASE ModelFails(t)
    <2>1. CASE Goes(t, "failed")
      BY <2>1, GoesTyped
    <2>2. CASE turn' = [turn EXCEPT ![t].at = "fallback", ![t].provider = "openrouter"]
      <3> DEFINE n == [turn[t] EXCEPT !.at = "fallback", !.provider = "openrouter"]
      <3>1. n \in TurnState
        <4>1. turn[t] \in TurnState /\ "openrouter" \in Providers
          BY DEF DirectorTypeOK, Providers
        <4> QED  BY <4>1 DEF TurnState
      <3>2. turn' = [turn EXCEPT ![t] = n]
        BY <2>2 DEF DirectorTypeOK
      <3> HIDE DEF n
      <3> QED  BY <3>1, <3>2, MovesTyped
    <2> QED  BY <1>5, <2>1, <2>2 DEF ModelFails
  <1>5a. CASE LoopAnswers(t) \/ LoopCalls(t)
    BY <1>5a, GoesTyped DEF LoopAnswers, LoopCalls
  <1>6. CASE LoopRefuses(t) \/ ToolReturns(t)
    BY <1>6, RoundTyped DEF LoopRefuses, ToolReturns
  <1> QED  BY <1>1, <1>2, <1>3, <1>4, <1>5, <1>5a, <1>6 DEF TurnRuns

LEMMA DirectorStepTyped ==
  ASSUME DirectorOK, DirectorTypeOK, [DirectorNext]_drVars
  PROVE  DirectorTypeOK'
  <1>1. ASSUME NEW t \in Turns, BeginTurn(t) PROVE DirectorTypeOK'
    <2>1. PICK r \in RequestsOf[t] : turn' = [turn EXCEPT ![t] = Entry(t, r)]
      BY <1>1 DEF BeginTurn
    <2>2. r \in TurnRequest
      BY DEF DirectorOK
    <2>3. turn' \in [Turns -> TurnState]
      BY <2>1, <2>2, EntryTyped, MovesTyped
    <2> QED  BY <1>1, <2>3 DEF BeginTurn, DirectorTypeOK
  <1>2. ASSUME NEW t \in Turns, TurnRuns(t) PROVE DirectorTypeOK'
    <2>1. policy' = policy
      BY <1>2 DEF TurnRuns, CapabilityReturns, CapabilityFails, ClassifierReturns,
         HealthReturns, SearchReturns, SearchFails, ModelAnswers, AnswerRaises, ModelFails, LoopAnswers,
         LoopRefuses, LoopCalls, ToolReturns
    <2>2. spent' \in 0..HardLimit
      <3>1. Pays(t) \/ spent' = spent
        BY <1>2 DEF TurnRuns, CapabilityReturns, CapabilityFails, ClassifierReturns,
           HealthReturns, SearchReturns, SearchFails, ModelAnswers, AnswerRaises, ModelFails, LoopAnswers,
           LoopRefuses, LoopCalls, ToolReturns
      <3> QED  BY <3>1, PaysTyped DEF DirectorTypeOK
    <2>3. Records(t) \/ RecordsNothing \/ RecordsPrompt(t)
      BY <1>2 DEF TurnRuns, CapabilityReturns, CapabilityFails, ClassifierReturns,
         HealthReturns, SearchReturns, SearchFails, ModelAnswers, AnswerRaises, ModelFails, LoopAnswers,
         LoopRefuses, LoopCalls, ToolReturns, RecordsNothing
    <2> QED  BY <1>2, <2>1, <2>2, <2>3, TurnTyped, RecordsTyped DEF DirectorTypeOK
  <1>3. CASE UNCHANGED drVars
    BY <1>3 DEF drVars, DirectorTypeOK
  <1> QED  BY <1>1, <1>2, <1>3 DEF DirectorNext

(* The types of a conversation, however its turns interleave.                *)
THEOREM DirectorTypeCorrect == DirectorSpec => []DirectorTypeOK
  <1>1. DirectorOK
    BY DirectorOK
  <1> QED  BY <1>1, DirectorInitTyped, DirectorStepTyped, PTL DEF DirectorSpec

----------------------------------------------------------------------------
(* Why the cloud is permitted: a turn that is not private was found so by     *)
(* nobody, the provider openrouter was chosen under the policy for a turn     *)
(* that is not private, and a turn goes on with it only if there is a client. *)
Clear(n) ==
    /\ ~n.private => ~n.r.private /\ ~n.flagged
    /\ n.provider = "openrouter" => policy.cloud /\ ~n.private /\ ~n.r.dear
    /\ n.provider = "openrouter" /\ n.at \notin Ended => policy.client
    /\ n.at \in {"new", "capability", "classifying"} => n.provider = "none"
    /\ n.at = "new" => ~n.flagged
CloudInv == \A t \in Turns : Clear(turn[t])

LEMMA DirectorInitClear == DirectorInit => CloudInv
  <1> SUFFICES ASSUME DirectorInit, NEW t \in Turns
               PROVE  Clear(turn[t])
    BY DEF CloudInv
  <1>1. /\ turn[t].at = "new" /\ turn[t].provider = "none"
        /\ turn[t].r = AnyRequest /\ turn[t].private = FALSE /\ turn[t].flagged = FALSE
    BY DEF DirectorInit
  <1>2. AnyRequest.private = FALSE
    BY DEF AnyRequest
  <1> QED  BY <1>1, <1>2 DEF Clear

(* Whoever routes, the cloud comes out under the policy only.                *)
LEMMA RoutesClear ==
  ASSUME NEW r \in TurnRequest, NEW private \in BOOLEAN, NEW target,
         r.private => private
  PROVE  /\ Manual(r) = "openrouter" /\ r.via # "auto" =>
               policy.cloud /\ ~r.private /\ ~r.dear
         /\ AutoImage(r) = "openrouter" => policy.cloud /\ ~r.private /\ ~r.dear
         /\ Classified(r, private, target) = "openrouter" =>
               policy.cloud /\ ~private /\ ~r.dear
  <1>1. r.via \in {"auto", "local", "local_reasoning", "cloud", "unknown"}
        /\ r.private \in BOOLEAN
    BY DEF TurnRequest
  <1>2. Manual(r) = "openrouter" /\ r.via # "auto" => policy.cloud /\ ~r.private /\ ~r.dear
    BY <1>1 DEF Manual, Local, MayUseCloud
  <1>3. AutoImage(r) = "openrouter" => policy.cloud /\ ~r.private /\ ~r.dear
    BY DEF AutoImage, MayUseCloud
  <1>4. Classified(r, private, target) = "openrouter" => policy.cloud /\ ~private /\ ~r.dear
    BY DEF Classified, MayUseCloud
  <1> QED  BY <1>2, <1>3, <1>4

LEMMA EnteredClear ==
  ASSUME NEW r, NEW p
  PROVE  /\ p = "openrouter" /\ Entered(r, p) \notin Ended => policy.client
         /\ Entered(r, p) \notin {"new", "capability", "classifying"}
  BY DEF Entered, Ended

LEMMA EntryClear ==
  ASSUME DirectorTypeOK, CloudInv, NEW t \in Turns, turn[t].at = "new",
         NEW r \in TurnRequest
  PROVE  Clear(Entry(t, r))
  <1> DEFINE over == spent >= HardLimit
             entry == [turn[t] EXCEPT !.r = r, !.private = r.private, !.round = 1,
                                      !.over = over]
  <1>1. /\ r.kind \in {"exact", "read", "control", "chat"} /\ r.images \in BOOLEAN
        /\ r.private \in BOOLEAN
    BY DEF TurnRequest
  <1>2. /\ entry.r = r /\ entry.private = r.private
        /\ entry.flagged = FALSE /\ entry.provider = "none"
        /\ entry \in [at : {"new"}, r : {r}, provider : {"none"},
                      private : {r.private}, round : {1}, flagged : {FALSE},
                      over : {over}]
    <2>1. turn[t] \in TurnState
      BY DEF DirectorTypeOK
    <2>2. turn[t].flagged \in BOOLEAN
      BY <2>1 DEF TurnState
    <2>3. turn[t].flagged = FALSE /\ turn[t].provider = "none"
      BY <2>2 DEF CloudInv, Clear
    <2> QED  BY <2>1, <2>3 DEF TurnState
  <1> HIDE DEF entry
  <1>3. ASSUME NEW a \in {"answered", "capability", "told", "classifying"}
        PROVE  Clear([entry EXCEPT !.at = a])
    BY <1>2 DEF Clear
  <1>4. ASSUME NEW p, p = "openrouter" => policy.cloud /\ ~r.private /\ ~r.dear
        PROVE  Clear([entry EXCEPT !.provider = p, !.at = Entered(r, p)])
    <2> DEFINE n == [entry EXCEPT !.provider = p, !.at = Entered(r, p)]
    <2>1. /\ n.r = r /\ n.private = r.private /\ n.flagged = FALSE
          /\ n.provider = p /\ n.at = Entered(r, p)
      BY <1>2
    <2> HIDE DEF n
    <2>2. Clear(n)
      BY <1>4, <2>1, EnteredClear DEF Clear
    <2> QED  BY <2>2 DEF n
  <1>5. /\ Manual(r) = "openrouter" /\ r.via # "auto" =>
              policy.cloud /\ ~r.private /\ ~r.dear
        /\ AutoImage(r) = "openrouter" => policy.cloud /\ ~r.private /\ ~r.dear
    BY <1>1, RoutesClear
  <1> HIDE DEF over
  <1>6. CASE r.kind # "chat" \/ (r.via = "auto" /\ ~r.images)
    <2>1. PICK a \in {"answered", "capability", "told", "classifying"} :
              Entry(t, r) = [entry EXCEPT !.at = a]
      BY <1>1, <1>6 DEF Entry, entry, over
    <2> QED  BY <1>3, <2>1
  <1>7. CASE r.kind = "chat" /\ r.via # "auto"
    <2>1. Entry(t, r) = [entry EXCEPT !.provider = Manual(r), !.at = Entered(r, Manual(r))]
      BY <1>7 DEF Entry, entry, over
    <2> QED  BY <1>4, <1>5, <1>7, <2>1
  <1>8. CASE r.kind = "chat" /\ r.via = "auto" /\ r.images
    <2>1. Entry(t, r) = [entry EXCEPT !.provider = AutoImage(r),
                                      !.at = Entered(r, AutoImage(r))]
      BY <1>8 DEF Entry, entry, over
    <2> QED  BY <1>4, <1>5, <2>1
  <1> QED  BY <1>1, <1>6, <1>7, <1>8

LEMMA GoesClear ==
  ASSUME DirectorTypeOK, NEW t \in Turns, Clear(turn[t]), NEW a,
         a \notin {"new", "capability", "classifying"},
         turn[t].at \in Ended => a \in Ended,
         Goes(t, a)
  PROVE  Clear(turn'[t])
  BY DEF DirectorTypeOK, TurnState, Goes, Clear, Ended

LEMMA RoundClear ==
  ASSUME DirectorTypeOK, NEW t \in Turns, Clear(turn[t]), turn[t].at \notin Ended,
         RoundEnds(t)
  PROVE  Clear(turn'[t])
  <1>1. /\ turn'[t].private = turn[t].private /\ turn'[t].r = turn[t].r
        /\ turn'[t].flagged = turn[t].flagged /\ turn'[t].provider = turn[t].provider
        /\ turn'[t].at \in {"asking", "closing"}
    BY DEF DirectorTypeOK, TurnState, RoundEnds
  <1> QED  BY <1>1 DEF Clear

LEMMA TurnClear ==
  ASSUME DirectorTypeOK, NEW t \in Turns, Clear(turn[t]), TurnRuns(t)
  PROVE  Clear(turn'[t])
  <1>1. CASE CapabilityReturns(t) \/ CapabilityFails(t)
    BY <1>1, GoesClear DEF CapabilityReturns, CapabilityFails, Ended
  <1>2. ASSUME NEW found \in BOOLEAN, NEW target \in {"none", "local_heavy", "cloud", "iris"},
               ClassifierReturns(t, found, target)
        PROVE  Clear(turn'[t])
    <2> DEFINE r == turn[t].r
               private == r.private \/ found
               p == Classified(r, private, target)
               a == IF p = "none" THEN "health" ELSE Entered(r, p)
    <2>1. r \in TurnRequest /\ r.private \in BOOLEAN
      BY DEF DirectorTypeOK, TurnState, TurnRequest
    <2>2. p = "openrouter" => policy.cloud /\ ~private /\ ~r.dear
      BY <2>1, RoutesClear
    <2>3. /\ p = "openrouter" /\ a \notin Ended => policy.client
          /\ a \notin {"new", "capability", "classifying"}
      BY EnteredClear
    <2>4. turn'[t].r = r /\ turn'[t].private = private /\ turn'[t].flagged = found
          /\ turn'[t].provider = p /\ turn'[t].at = a
      BY <1>2 DEF ClassifierReturns, DirectorTypeOK, TurnState
    <2>5. ~private => ~r.private /\ ~found
      BY <2>1
    <2> HIDE DEF private, p, a, r
    <2> QED  BY <2>2, <2>3, <2>4, <2>5 DEF Clear
  <1>3. CASE HealthReturns(t)
    <2>1. PICK p \in {"local_reasoning", "error"} : Routed(t, p)
      BY <1>3 DEF HealthReturns
    <2>2. /\ turn'[t].r = turn[t].r /\ turn'[t].private = turn[t].private
          /\ turn'[t].flagged = turn[t].flagged /\ turn'[t].provider = p
          /\ turn'[t].at = Entered(turn[t].r, p)
      BY <2>1 DEF Routed, DirectorTypeOK, TurnState
    <2> QED  BY <2>2, EnteredClear DEF Clear
  <1>4. CASE SearchReturns(t) \/ SearchFails(t) \/ ModelAnswers(t) \/ AnswerRaises(t)
    BY <1>4, GoesClear DEF SearchReturns, SearchFails, ModelAnswers, AnswerRaises, Ended
  <1>5. CASE ModelFails(t)
    <2>1. CASE HasFallback(t)
      <3>1. /\ turn'[t].r = turn[t].r /\ turn'[t].private = turn[t].private
            /\ turn'[t].flagged = turn[t].flagged /\ turn'[t].provider = "openrouter"
            /\ turn'[t].at = "fallback"
        BY <1>5, <2>1 DEF ModelFails, DirectorTypeOK, TurnState
      <3>2. policy.client /\ policy.cloud /\ ~turn[t].private /\ ~turn[t].r.dear
        BY <2>1 DEF HasFallback, MayUseCloud
      <3> QED  BY <3>1, <3>2 DEF Clear
    <2>2. CASE ~HasFallback(t)
      BY <1>5, <2>2, GoesClear DEF ModelFails, Ended
    <2> QED  BY <2>1, <2>2
  <1>6. CASE LoopAnswers(t) \/ LoopCalls(t)
    BY <1>6, GoesClear DEF LoopAnswers, LoopCalls, InLoop, Ended
  <1>7. CASE LoopRefuses(t) \/ ToolReturns(t)
    BY <1>7, RoundClear DEF LoopRefuses, ToolReturns, InLoop, Ended
  <1> QED  BY <1>1, <1>2, <1>3, <1>4, <1>5, <1>6, <1>7 DEF TurnRuns

LEMMA CloudStep ==
  ASSUME DirectorOK, DirectorTypeOK, CloudInv, [DirectorNext]_drVars
  PROVE  CloudInv'
  <1>1. ASSUME NEW t \in Turns, BeginTurn(t) \/ TurnRuns(t) PROVE CloudInv'
    <2>1. policy' = policy
      BY <1>1 DEF BeginTurn, TurnRuns, CapabilityReturns, CapabilityFails, ClassifierReturns,
         HealthReturns, SearchReturns, SearchFails, ModelAnswers, AnswerRaises, ModelFails, LoopAnswers,
         LoopRefuses, LoopCalls, ToolReturns
    <2>2. \A u \in Turns \ {t} : turn'[u] = turn[u]
      BY <1>1 DEF BeginTurn, TurnRuns, CapabilityReturns, CapabilityFails, ClassifierReturns,
         HealthReturns, SearchReturns, SearchFails, ModelAnswers, AnswerRaises, ModelFails, LoopAnswers,
         LoopRefuses, LoopCalls, ToolReturns, Goes, Routed, RoundEnds, DirectorTypeOK
    <2>3. Clear(turn'[t])
      <3>1. CASE BeginTurn(t)
        <4>1. PICK r \in RequestsOf[t] : turn' = [turn EXCEPT ![t] = Entry(t, r)]
          BY <3>1 DEF BeginTurn
        <4>2. r \in TurnRequest /\ turn[t].at = "new"
          BY <3>1 DEF DirectorOK, BeginTurn
        <4> QED  BY <4>1, <4>2, EntryClear DEF DirectorTypeOK
      <3> QED  BY <1>1, <3>1, TurnClear DEF CloudInv
    <2> QED  BY <2>1, <2>2, <2>3 DEF CloudInv, Clear
  <1>2. CASE UNCHANGED drVars
    BY <1>2 DEF drVars, CloudInv, Clear
  <1> QED  BY <1>1, <1>2 DEF DirectorNext

(* Whichever way a prompt takes to the cloud, the policy permits it and       *)
(* neither the request, its words nor the classifier called it private.      *)
THEOREM CloudOnlyPermitted == DirectorSpec => []CloudIsPermitted
  <1>1. CloudInv => CloudIsPermitted
    BY DEF CloudInv, Clear, CloudIsPermitted, AtCloud, Ended
  <1>2. DirectorOK
    BY DirectorOK
  <1> QED
    BY <1>1, <1>2, DirectorTypeCorrect, DirectorInitClear, CloudStep, PTL DEF DirectorSpec
----------------------------------------------------------------------------
(* Why the conversation keeps what was said.  Where a turn can be depends on   *)
(* its request: a loop never reaches a step that records.                    *)
Fits(n) ==
    /\ n.at \in {"classifying", "health", "asking", "searching", "telling", "tool",
                "closing", "fallback"} => n.r.kind = "chat"
    /\ n.at = "capability" => n.r.kind \in {"read", "control"}
    /\ n.at \in {"tool", "closing"} => n.r.tools = "loop"
    /\ n.at \in {"searching", "telling", "fallback"} => n.r.tools # "loop"
FitInv == \A t \in Turns : Fits(turn[t])

LEMMA EnteredFits ==
  ASSUME NEW r, NEW p
  PROVE  /\ Entered(r, p) \in {"asking", "searching", "told", "failed"}
         /\ Entered(r, p) = "searching" => r.tools # "loop"
  BY DEF Entered

LEMMA EntryFits ==
  ASSUME DirectorTypeOK, NEW t \in Turns, NEW r \in TurnRequest
  PROVE  /\ Fits(Entry(t, r))
         /\ Entry(t, r).at \in {"answered", "blank"} => Entry(t, r).r.kind = "exact"
  <1> DEFINE over == spent >= HardLimit
             entry == [turn[t] EXCEPT !.r = r, !.private = r.private, !.round = 1,
                                      !.over = over]
             routed(p) == [entry EXCEPT !.provider = p, !.at = Entered(r, p)]
  <1>1. /\ r.kind \in {"exact", "read", "control", "chat"} /\ r.images \in BOOLEAN
        /\ turn[t] \in TurnState
    BY DEF TurnRequest, DirectorTypeOK
  <1>2. entry \in [at : {turn[t].at}, r : {r}, provider : {turn[t].provider},
                    private : {r.private}, round : {1}, flagged : {turn[t].flagged},
                    over : {over}]
    BY <1>1 DEF TurnState
  <1> HIDE DEF entry, over
  <1>3. ASSUME NEW a
        PROVE  [entry EXCEPT !.at = a].at = a /\ [entry EXCEPT !.at = a].r = r
    BY <1>2
  <1>4. ASSUME NEW p
        PROVE  routed(p).at = Entered(r, p) /\ routed(p).r = r
    BY <1>2
  <1> HIDE DEF routed
  <1>5. CASE r.kind = "exact"
    <2>1. Entry(t, r) = [entry EXCEPT !.at = "answered"]
      BY <1>5 DEF Entry, entry, over
    <2> QED  BY <1>3, <1>5, <2>1 DEF Fits
  <1>6. CASE r.kind \in {"read", "control"}
    <2>1. PICK a \in {"capability", "told"} : Entry(t, r) = [entry EXCEPT !.at = a]
      BY <1>6 DEF Entry, entry, over
    <2> QED  BY <1>3, <1>6, <2>1 DEF Fits
  <1>7. CASE r.kind = "chat"
    <2>1. \/ \E p : Entry(t, r) = routed(p)
          \/ Entry(t, r) = [entry EXCEPT !.at = "classifying"]
      BY <1>1, <1>7 DEF Entry, entry, over, routed
    <2>2. ASSUME NEW p, Entry(t, r) = routed(p)
          PROVE  Fits(Entry(t, r)) /\ Entry(t, r).at \notin {"answered", "blank"}
      BY <1>4, <1>7, <2>2, EnteredFits DEF Fits
    <2>3. CASE Entry(t, r) = [entry EXCEPT !.at = "classifying"]
      BY <1>3, <1>7, <2>3 DEF Fits
    <2> QED  BY <2>1, <2>2, <2>3
  <1> QED  BY <1>1, <1>5, <1>6, <1>7

(* A step records its turn, or nothing, which answers only what is exact or    *)
(* came out of the loop, or the prompt of a turn that raises.                *)
Tells(t) ==
    /\ Records(t)
    /\ turn'[t].at \in {"answered", "blank", "told"}
    /\ turn'[t].at # "told" =>
          turn'[t].r.kind # "exact" /\ (turn'[t].r.kind # "chat" \/ turn'[t].r.tools # "loop")
KeepsTalk(t) ==
    /\ RecordsNothing
    /\ turn'[t].at \in {"answered", "blank"} =>
          turn'[t].r.kind = "exact" \/ (turn'[t].r.kind = "chat" /\ turn'[t].r.tools = "loop")
Asks(t) ==
    /\ RecordsPrompt(t)
    /\ turn'[t].at = "raised"
Steps(t) ==
    /\ turn[t].at \notin Ended
    /\ Fits(turn'[t])
    /\ Tells(t) \/ KeepsTalk(t) \/ Asks(t)

LEMMA GoesTo ==
  ASSUME DirectorTypeOK, NEW t \in Turns, NEW a, Goes(t, a)
  PROVE  turn'[t].at = a /\ turn'[t].r = turn[t].r
  BY DEF Goes, DirectorTypeOK, TurnState

LEMMA RoundGoesTo ==
  ASSUME DirectorTypeOK, NEW t \in Turns, RoundEnds(t)
  PROVE  turn'[t].at \in {"asking", "closing"} /\ turn'[t].r = turn[t].r
  BY DEF RoundEnds, DirectorTypeOK, TurnState

LEMMA TurnSteps ==
  ASSUME DirectorTypeOK, FitInv, NEW t \in Turns, TurnRuns(t)
  PROVE  Steps(t)
  <1>a. Fits(turn[t]) /\ turn[t] \in TurnState /\ turn[t].r \in TurnRequest
    BY DEF FitInv, DirectorTypeOK, TurnState
  <1>1. CASE CapabilityReturns(t) \/ CapabilityFails(t)
    <2>1. turn[t].at = "capability" /\ turn'[t].at \in {"answered", "told"}
          /\ turn'[t].r = turn[t].r
      BY <1>1, GoesTo DEF CapabilityReturns, CapabilityFails
    <2>2. turn[t].r.kind \in {"read", "control"} /\ Fits(turn'[t])
      BY <1>a, <2>1 DEF Fits
    <2>3. CASE CapabilityReturns(t)
      BY <2>1, <2>2, <2>3 DEF Steps, Tells, CapabilityReturns, Ended
    <2>4. CASE CapabilityFails(t)
      <3>1. turn'[t].at = "told"
        BY <2>4, GoesTo DEF CapabilityFails
      <3> QED  BY <2>1, <2>2, <2>4, <3>1 DEF Steps, Tells, KeepsTalk, CapabilityFails, Ended
    <2> QED  BY <1>1, <2>3, <2>4
  <1>2. ASSUME NEW found \in BOOLEAN, NEW target \in {"none", "local_heavy", "cloud", "iris"},
               ClassifierReturns(t, found, target)
        PROVE  Steps(t)
    <2>1. PICK p : turn[t].at = "classifying" /\ turn'[t].r = turn[t].r
                   /\ turn'[t].at = IF p = "none" THEN "health" ELSE Entered(turn[t].r, p)
      BY <1>2, <1>a DEF ClassifierReturns, DirectorTypeOK, TurnState
    <2>2. RecordsNothing
      BY <1>2 DEF ClassifierReturns, RecordsNothing
    <2>3. turn'[t].at \in {"health", "asking", "searching", "told", "failed"}
          /\ (turn'[t].at = "searching" => turn[t].r.tools # "loop")
      BY <2>1, EnteredFits
    <2> QED  BY <1>a, <2>1, <2>2, <2>3 DEF Steps, KeepsTalk, Fits, Ended
  <1>3. CASE HealthReturns(t)
    <2>1. PICK p : turn[t].at = "health" /\ turn'[t].r = turn[t].r
                   /\ turn'[t].at = Entered(turn[t].r, p)
      BY <1>3, <1>a DEF HealthReturns, Routed, DirectorTypeOK, TurnState
    <2>2. RecordsNothing
      BY <1>3 DEF HealthReturns, RecordsNothing
    <2>3. turn'[t].at \in {"asking", "searching", "told", "failed"}
          /\ (turn'[t].at = "searching" => turn[t].r.tools # "loop")
      BY <2>1, EnteredFits
    <2> QED  BY <1>a, <2>1, <2>2, <2>3 DEF Steps, KeepsTalk, Fits, Ended
  <1>4. CASE SearchReturns(t)
    <2>1. turn[t].at = "searching" /\ turn'[t].at = "telling" /\ turn'[t].r = turn[t].r
          /\ RecordsNothing
      BY <1>4, GoesTo DEF SearchReturns, RecordsNothing
    <2> QED  BY <1>a, <2>1 DEF Steps, KeepsTalk, Fits, Ended
  <1>5. CASE SearchFails(t)
    <2>1. turn[t].at = "searching" /\ turn'[t].at = "told" /\ turn'[t].r = turn[t].r
          /\ Records(t)
      BY <1>5, GoesTo DEF SearchFails
    <2> QED  BY <1>a, <2>1 DEF Steps, Tells, Fits, Ended
  <1>6. CASE ModelAnswers(t)
    <2>1. /\ turn[t].at \in {"asking", "telling", "fallback"}
          /\ turn'[t].at \in {"answered", "blank"}
          /\ turn'[t].r = turn[t].r /\ Records(t)
          /\ turn[t].at = "asking" => turn[t].r.tools # "loop"
      BY <1>6, GoesTo DEF ModelAnswers
    <2>2. turn[t].r.kind = "chat" /\ turn[t].r.tools # "loop"
      BY <1>a, <2>1 DEF Fits
    <2> QED  BY <2>1, <2>2 DEF Steps, Tells, Fits, Ended
  <1>7. CASE ModelFails(t)
    <2>1. turn[t].at \in {"asking", "telling", "closing", "fallback"} /\ RecordsNothing
      BY <1>7 DEF ModelFails, RecordsNothing
    <2>2. CASE HasFallback(t)
      <3>1. /\ turn'[t].at = "fallback" /\ turn'[t].r = turn[t].r
            /\ turn[t].at = "asking" /\ turn[t].r.tools # "loop"
        BY <1>7, <2>2 DEF ModelFails, HasFallback, DirectorTypeOK, TurnState
      <3> QED  BY <1>a, <2>1, <3>1 DEF Steps, KeepsTalk, Fits, Ended
    <2>3. CASE ~HasFallback(t)
      <3>1. turn'[t].at = "failed"
        BY <1>7, <2>3, GoesTo DEF ModelFails
      <3> QED  BY <2>1, <3>1 DEF Steps, KeepsTalk, Fits, Ended
    <2> QED  BY <2>2, <2>3
  <1>8. CASE LoopAnswers(t)
    <2>1. /\ InLoop(t) \/ turn[t].at = "closing"
          /\ turn'[t].at \in {"answered", "blank"} /\ turn'[t].r = turn[t].r
          /\ RecordsNothing
      BY <1>8, GoesTo DEF LoopAnswers, RecordsNothing
    <2>2. turn[t].r.kind = "chat" /\ turn[t].r.tools = "loop" /\ turn[t].at \notin Ended
      BY <1>a, <2>1 DEF InLoop, Fits, Ended
    <2> QED  BY <2>1, <2>2 DEF Steps, KeepsTalk, Fits
  <1>9. CASE LoopCalls(t)
    <2>1. InLoop(t) /\ turn'[t].at = "tool" /\ turn'[t].r = turn[t].r /\ RecordsNothing
      BY <1>9, GoesTo DEF LoopCalls, RecordsNothing
    <2> QED  BY <1>a, <2>1 DEF Steps, KeepsTalk, Fits, InLoop, Ended
  <1>10. CASE LoopRefuses(t) \/ ToolReturns(t)
    <2>1. /\ InLoop(t) \/ turn[t].at = "tool"
          /\ turn'[t].at \in {"asking", "closing"} /\ turn'[t].r = turn[t].r
          /\ RecordsNothing
      BY <1>10, RoundGoesTo DEF LoopRefuses, ToolReturns, RecordsNothing
    <2>2. turn[t].r.kind = "chat" /\ turn[t].r.tools = "loop" /\ turn[t].at \notin Ended
      BY <1>a, <2>1 DEF InLoop, Fits, Ended
    <2> QED  BY <2>1, <2>2 DEF Steps, KeepsTalk, Fits
  <1>11. CASE AnswerRaises(t)
    <2>1. /\ turn[t].at \in {"asking", "telling", "closing", "fallback"}
          /\ turn'[t].at = "raised" /\ turn'[t].r = turn[t].r
      BY <1>11, GoesTo DEF AnswerRaises
    <2>2. RecordsNothing \/ RecordsPrompt(t)
      BY <1>11 DEF AnswerRaises
    <2> QED  BY <2>1, <2>2 DEF Steps, KeepsTalk, Asks, Fits, Ended
  <1> QED
    BY <1>1, <1>2, <1>3, <1>4, <1>5, <1>6, <1>7, <1>8, <1>9, <1>10, <1>11 DEF TurnRuns

(* The transcript as two properties of its parts.                            *)
Told == {"answered", "told", "blank", "raised"}
OfTexts ==
    \A i \in 1..Len(transcript) :
        LET t == transcript[i][1]
        IN  /\ turn[t].at \in Told
            /\ turn[t].at = "raised" => transcript[i][2] = "user"
            /\ turn[t].at # "raised" /\ transcript[i][2] = "user" /\ storeFailures = 0 =>
                  i < Len(transcript) /\ transcript[i + 1] = <<t, "assistant">>
OfTurns ==
    \A t \in Turns :
        (/\ turn[t].at \in {"answered", "blank"}
         /\ turn[t].r.kind # "exact"
         /\ storeFailures = 0) =>
            (Remembers(t) <=> turn[t].r.kind # "chat" \/ turn[t].r.tools # "loop")

LEMMA TranscriptParts ==
  ASSUME DirectorTypeOK
  PROVE  /\ TranscriptKeepsAnswers <=> OfTexts /\ OfTurns
         /\ \A i \in 1..Len(transcript) : transcript[i][1] \in Turns
         /\ Len(transcript) \in Nat
         /\ DOMAIN transcript = 1..Len(transcript)
  <1>1. transcript \in Seq(Turns \X {"user", "assistant"})
    BY DEF DirectorTypeOK
  <1>2. DOMAIN transcript = 1..Len(transcript) /\ Len(transcript) \in Nat
    BY <1>1
  <1>3. \A i \in 1..Len(transcript) : transcript[i] \in Turns \X {"user", "assistant"}
    BY <1>1
  <1>4. Ended \ {"failed"} = Told
    BY DEF Ended, Told
  <1> QED  BY <1>2, <1>3, <1>4 DEF TranscriptKeepsAnswers, OfTexts, OfTurns

LEMMA KeepsTranscript ==
  ASSUME DirectorTypeOK, DirectorTypeOK', OfTexts, OfTurns, NEW t \in Turns, Steps(t),
         KeepsTalk(t), \A u \in Turns \ {t} : turn'[u] = turn[u]
  PROVE  OfTexts' /\ OfTurns'
  <1>1. transcript' = transcript /\ storeFailures' = storeFailures
    BY DEF KeepsTalk, RecordsNothing
  <1>2. \A i \in 1..Len(transcript) : transcript[i][1] \in Turns \ {t}
    BY TranscriptParts DEF OfTexts, Steps, Ended, Told
  <1>3. OfTexts'
    BY <1>1, <1>2 DEF OfTexts
  <1>4. ~Remembers(t)
    <2>1. \A i \in 1..Len(transcript) : transcript[i] # <<t, "assistant">>
      BY <1>2
    <2> QED  BY <2>1, TranscriptParts DEF Remembers
  <1>5. ASSUME NEW u \in Turns
        PROVE  (/\ turn'[u].at \in {"answered", "blank"}
                /\ turn'[u].r.kind # "exact"
                /\ storeFailures' = 0) =>
                  (Remembers(u) <=> turn'[u].r.kind # "chat" \/ turn'[u].r.tools # "loop")
    <2>1. CASE u = t
      BY <1>4, <2>1 DEF KeepsTalk
    <2>2. CASE u # t
      BY <1>1, <2>2 DEF OfTurns
    <2> QED  BY <2>1, <2>2
  <1>6. \A u \in Turns : Remembers(u)' <=> Remembers(u)
    BY <1>1 DEF Remembers
  <1> QED  BY <1>3, <1>5, <1>6 DEF OfTurns

LEMMA TellsTranscript ==
  ASSUME DirectorTypeOK, DirectorTypeOK', OfTexts, OfTurns, NEW t \in Turns, Steps(t),
         Tells(t), \A u \in Turns \ {t} : turn'[u] = turn[u]
  PROVE  OfTexts' /\ OfTurns'
  <1> DEFINE n == Len(transcript)
  <1>1. \A i \in 1..n : transcript[i][1] \in Turns \ {t}
    BY TranscriptParts DEF OfTexts, Steps, Ended, Told
  <1>2. transcript \in Seq(Turns \X {"user", "assistant"}) /\ n \in Nat
        /\ DOMAIN transcript = 1..n
    BY TranscriptParts DEF DirectorTypeOK
  <1>3. \A i \in 1..n : turn'[transcript[i][1]].at \in Told
    BY <1>1 DEF OfTexts
  <1>4. turn'[t].at \in Told \ {"raised"}
    BY DEF Tells, Told
  <1>5. CASE transcript' = transcript \o <<<<t, "user">>, <<t, "assistant">>>>
             /\ storeFailures' = storeFailures
    <2>1. /\ Len(transcript') = n + 2
          /\ \A i \in 1..n : transcript'[i] = transcript[i]
          /\ transcript'[n + 1] = <<t, "user">> /\ transcript'[n + 2] = <<t, "assistant">>
      BY <1>2, <1>5
    <2>2. 1..Len(transcript') = 1..n \cup {n + 1, n + 2}
      BY <1>2, <2>1
    <2>3. ASSUME NEW i \in 1..n
          PROVE  /\ turn'[transcript'[i][1]].at \in Told
                 /\ turn'[transcript'[i][1]].at = "raised" => transcript'[i][2] = "user"
                 /\ (/\ turn'[transcript'[i][1]].at # "raised"
                     /\ transcript'[i][2] = "user"
                     /\ storeFailures' = 0) =>
                       /\ i < Len(transcript')
                       /\ transcript'[i + 1] = <<transcript'[i][1], "assistant">>
      <3>1. turn'[transcript'[i][1]].at \in Told
        BY <1>3, <2>1
      <3>2. /\ turn'[transcript[i][1]].at = "raised" => transcript[i][2] = "user"
            /\ (/\ turn'[transcript[i][1]].at # "raised"
                /\ transcript[i][2] = "user"
                /\ storeFailures = 0) =>
                   i < n /\ transcript[i + 1] = <<transcript[i][1], "assistant">>
        BY <1>1 DEF OfTexts
      <3>3. i < n => i + 1 \in 1..n /\ i < Len(transcript')
        BY <1>2, <2>1
      <3> QED  BY <1>5, <2>1, <3>1, <3>2, <3>3
    <2>4. OfTexts'
      <3> HIDE DEF n
      <3>1. n + 1 < Len(transcript') /\ (n + 1) + 1 = n + 2
        BY <1>2, <2>1
      <3> QED  BY <1>4, <2>1, <2>2, <2>3, <3>1 DEF OfTexts
    <2>5. Remembers(t)'
      <3>1. DOMAIN transcript' = 1..Len(transcript')
        BY DEF DirectorTypeOK
      <3>2. n + 2 \in DOMAIN transcript'
        BY <2>2, <3>1
      <3> QED  BY <2>1, <3>2 DEF Remembers
    <2>6. ASSUME NEW u \in Turns \ {t}
          PROVE  Remembers(u)' <=> Remembers(u)
      <3>1. DOMAIN transcript' = 1..n \cup {n + 1, n + 2}
        <4>1. DOMAIN transcript' = 1..Len(transcript')
          BY DEF DirectorTypeOK
        <4> QED  BY <2>2, <4>1
      <3>2. transcript'[n + 1] # <<u, "assistant">> /\ transcript'[n + 2] # <<u, "assistant">>
        BY <2>1
      <3> HIDE DEF n
      <3> QED  BY <1>2, <2>1, <3>1, <3>2 DEF Remembers
    <2>7. OfTurns'
      <3>1. ASSUME NEW u \in Turns
            PROVE  (/\ turn'[u].at \in {"answered", "blank"}
                    /\ turn'[u].r.kind # "exact"
                    /\ storeFailures' = 0) =>
                     (Remembers(u)' <=> turn'[u].r.kind # "chat" \/ turn'[u].r.tools # "loop")
        <4>1. CASE u = t
          BY <2>5, <4>1 DEF Tells
        <4>2. CASE u # t
          BY <1>5, <2>6, <4>2 DEF OfTurns
        <4> QED  BY <4>1, <4>2
      <3> QED  BY <3>1 DEF OfTurns
    <2> QED  BY <2>4, <2>7
  <1>6. CASE transcript' \in {transcript, Append(transcript, <<t, "user">>)}
             /\ storeFailures' = storeFailures + 1
    <2>1. storeFailures' # 0
      BY <1>6 DEF DirectorTypeOK
    <2>2. \A i \in 1..Len(transcript') :
              /\ turn'[transcript'[i][1]].at \in Told
              /\ turn'[transcript'[i][1]].at = "raised" => transcript'[i][2] = "user"
      <3>0. \A i \in 1..n : turn'[transcript[i][1]].at = "raised" => transcript[i][2] = "user"
        BY <1>1 DEF OfTexts
      <3>1. CASE transcript' = transcript
        BY <1>3, <3>0, <3>1
      <3>2. CASE transcript' = Append(transcript, <<t, "user">>)
        <4>1. /\ Len(transcript') = n + 1 /\ transcript'[n + 1] = <<t, "user">>
              /\ \A i \in 1..n : transcript'[i] = transcript[i]
          BY <1>2, <3>2
        <4>2. 1..Len(transcript') = 1..n \cup {n + 1}
          BY <1>2, <4>1
        <4> HIDE DEF n
        <4> QED  BY <1>3, <1>4, <3>0, <4>1, <4>2
      <3> QED  BY <1>6, <3>1, <3>2
    <2> QED  BY <2>1, <2>2 DEF OfTexts, OfTurns
  <1> QED  BY <1>5, <1>6 DEF Tells, Records

LEMMA AsksTranscript ==
  ASSUME DirectorTypeOK, DirectorTypeOK', OfTexts, OfTurns, NEW t \in Turns, Steps(t),
         Asks(t), \A u \in Turns \ {t} : turn'[u] = turn[u]
  PROVE  OfTexts' /\ OfTurns'
  <1> DEFINE n == Len(transcript)
  <1>1. \A i \in 1..n : transcript[i][1] \in Turns \ {t}
    BY TranscriptParts DEF OfTexts, Steps, Ended, Told
  <1>2. transcript \in Seq(Turns \X {"user", "assistant"}) /\ n \in Nat
        /\ DOMAIN transcript = 1..n
    BY TranscriptParts DEF DirectorTypeOK
  <1>3. \A i \in 1..n :
            /\ turn'[transcript[i][1]].at \in Told
            /\ turn'[transcript[i][1]].at = "raised" => transcript[i][2] = "user"
    BY <1>1 DEF OfTexts
  <1>4. turn'[t].at = "raised"
    BY DEF Asks
  <1>5. CASE transcript' = Append(transcript, <<t, "user">>)
             /\ storeFailures' = storeFailures
    <2>1. /\ Len(transcript') = n + 1 /\ transcript'[n + 1] = <<t, "user">>
          /\ \A i \in 1..n : transcript'[i] = transcript[i]
      BY <1>2, <1>5
    <2>2. 1..Len(transcript') = 1..n \cup {n + 1}
      BY <1>2, <2>1
    <2>3. ASSUME NEW i \in 1..n
          PROVE  (/\ turn'[transcript'[i][1]].at # "raised"
                  /\ transcript'[i][2] = "user"
                  /\ storeFailures' = 0) =>
                       /\ i < Len(transcript')
                       /\ transcript'[i + 1] = <<transcript'[i][1], "assistant">>
      <3>1. (/\ turn'[transcript[i][1]].at # "raised"
             /\ transcript[i][2] = "user"
             /\ storeFailures = 0) =>
                   i < n /\ transcript[i + 1] = <<transcript[i][1], "assistant">>
        BY <1>1 DEF OfTexts
      <3>2. i < n => i + 1 \in 1..n /\ i < Len(transcript')
        BY <1>2, <2>1
      <3> QED  BY <1>5, <2>1, <3>1, <3>2
    <2>4. OfTexts'
      <3>1. turn'[t].at \in Told
        BY <1>4 DEF Told
      <3> HIDE DEF n
      <3> QED  BY <1>3, <1>4, <2>1, <2>2, <2>3, <3>1 DEF OfTexts
    <2>5. ASSUME NEW u \in Turns
          PROVE  Remembers(u)' <=> Remembers(u)
      <3>1. DOMAIN transcript' = 1..n \cup {n + 1}
        <4>1. DOMAIN transcript' = 1..Len(transcript')
          BY DEF DirectorTypeOK
        <4> QED  BY <2>2, <4>1
      <3>2. transcript'[n + 1] # <<u, "assistant">>
        BY <2>1
      <3> HIDE DEF n
      <3> QED  BY <1>2, <2>1, <3>1, <3>2 DEF Remembers
    <2>6. OfTurns'
      <3>1. ASSUME NEW u \in Turns
            PROVE  (/\ turn'[u].at \in {"answered", "blank"}
                    /\ turn'[u].r.kind # "exact"
                    /\ storeFailures' = 0) =>
                     (Remembers(u)' <=> turn'[u].r.kind # "chat" \/ turn'[u].r.tools # "loop")
        <4>1. CASE u = t
          BY <1>4, <4>1
        <4>2. CASE u # t
          BY <1>5, <2>5, <4>2 DEF OfTurns
        <4> QED  BY <4>1, <4>2
      <3> QED  BY <3>1 DEF OfTurns
    <2> QED  BY <2>4, <2>6
  <1>6. CASE transcript' = transcript /\ storeFailures' = storeFailures + 1
    <2>1. storeFailures' # 0
      BY <1>6 DEF DirectorTypeOK
    <2> QED  BY <1>3, <1>6, <2>1 DEF OfTexts, OfTurns
  <1> QED  BY <1>5, <1>6 DEF Asks, RecordsPrompt

LEMMA TranscriptStep ==
  ASSUME DirectorOK, DirectorTypeOK, DirectorTypeOK', FitInv, OfTexts, OfTurns,
         [DirectorNext]_drVars
  PROVE  FitInv' /\ OfTexts' /\ OfTurns'
  <1>1. ASSUME NEW t \in Turns, BeginTurn(t) \/ TurnRuns(t)
        PROVE  FitInv' /\ OfTexts' /\ OfTurns'
    <2>1. \A u \in Turns \ {t} : turn'[u] = turn[u]
      BY <1>1 DEF BeginTurn, TurnRuns, CapabilityReturns, CapabilityFails, ClassifierReturns,
         HealthReturns, SearchReturns, SearchFails, ModelAnswers, AnswerRaises, ModelFails, LoopAnswers,
         LoopRefuses, LoopCalls, ToolReturns, Goes, Routed, RoundEnds, DirectorTypeOK
    <2>2. Steps(t)
      <3>1. CASE BeginTurn(t)
        <4>1. PICK r \in RequestsOf[t] : turn' = [turn EXCEPT ![t] = Entry(t, r)]
          BY <3>1 DEF BeginTurn
        <4>2. r \in TurnRequest /\ turn[t].at = "new" /\ RecordsNothing
          BY <3>1 DEF DirectorOK, BeginTurn, RecordsNothing
        <4>3. turn'[t] = Entry(t, r)
          BY <4>1 DEF DirectorTypeOK
        <4> QED  BY <4>2, <4>3, EntryFits DEF Steps, KeepsTalk, Ended
      <3> QED  BY <1>1, <3>1, TurnSteps
    <2>3. FitInv'
      BY <2>1, <2>2 DEF FitInv, Steps
    <2> QED  BY <2>1, <2>2, <2>3, KeepsTranscript, TellsTranscript, AsksTranscript DEF Steps
  <1>2. CASE UNCHANGED drVars
    BY <1>2 DEF drVars, FitInv, OfTexts, OfTurns, Remembers
  <1> QED  BY <1>1, <1>2 DEF DirectorNext

(* Prompt and answer stay together in the conversation, belong to a turn that   *)
(* did not fail, and are missing only after an exact answer, a loop, a failure *)
(* of the store or an answer without content, however the turns interleave.   *)
THEOREM AnswersAreKept == DirectorSpec => []TranscriptKeepsAnswers
  <1>1. ASSUME DirectorInit PROVE FitInv /\ OfTexts /\ OfTurns
    <2>1. \A t \in Turns : turn[t].at = "new"
      BY <1>1 DEF DirectorInit
    <2>2. Len(transcript) = 0
      BY <1>1 DEF DirectorInit
    <2> QED  BY <2>1, <2>2 DEF FitInv, Fits, OfTexts, OfTurns
  <1>2. DirectorTypeOK /\ OfTexts /\ OfTurns => TranscriptKeepsAnswers
    BY TranscriptParts
  <1>3. DirectorOK
    BY DirectorOK
  <1> QED
    BY <1>1, <1>2, <1>3, DirectorInitTyped, DirectorStepTyped, TranscriptStep, PTL
    DEF DirectorSpec

=============================================================================
