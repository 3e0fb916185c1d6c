---------------------------- MODULE DirectorTurn ----------------------------
(***************************************************************************)
(* One conversation with the Director: Router.execute and Router.decide     *)
(* (src/freyja/router.py) behind POST /route and the canonical endpoint.    *)
(*                                                                         *)
(* A turn is one call of execute.  It suspends at the classifier, at a      *)
(* health check, at a tool and at every model; turns of one conversation    *)
(* interleave there, and what lies between two suspensions is one step.     *)
(* A request is reduced to the answers the routing code gets about it.      *)
(***************************************************************************)
EXTENDS Naturals, Sequences

CONSTANTS
    Turns,           \* calls of execute in the conversation
    RequestsOf,      \* turn |-> the requests it may carry
    MaxRounds,       \* rounds of the tool loop (chat_max_tool_iterations)
    HardLimit,       \* openrouter_monthly_hard_limit, in cloud answers
    MaxStoreFailures \* bound: records the memory store does not take

(* kind: an exact answer, a deterministic read or control capability, or a    *)
(* chat; granted: the registry knows the capability (or the web search) and   *)
(* authorizes it; private: private or sensitive, by the request or by its     *)
(* words; dear: over the limit of one request; complex: coding, or a higher   *)
(* score for reasoning than for routine.                                     *)
TurnRequest ==
    [kind : {"exact", "read", "control", "chat"}, granted : BOOLEAN,
     via : {"auto", "local", "local_reasoning", "cloud", "unknown"},
     private : BOOLEAN, images : BOOLEAN, dear : BOOLEAN, complex : BOOLEAN,
     instant : BOOLEAN, tools : {"none", "search", "loop"}]

ASSUME DirectorOK ==
    /\ RequestsOf \in [Turns -> SUBSET TurnRequest]
    /\ MaxRounds \in Nat \ {0}
    /\ HardLimit \in Nat \ {0}
    /\ MaxStoreFailures \in Nat

VARIABLES
    policy,        \* cloud: cloud_enabled; client: there is an OpenRouter client
    turn,          \* turn |-> its request and how far it is
    transcript,    \* the messages of the conversation: <<turn, role>>
    spent,         \* history: answers the cloud was paid for this month
    storeFailures  \* what has been used of MaxStoreFailures

drVars == <<policy, turn, transcript, spent, storeFailures>>

Providers == {"none", "ollama", "local_reasoning", "local_vision", "openrouter", "error"}
(* told: a text that says why not; blank: the model's answer is empty, which  *)
(* the caller gets as a 503; raised: it has no content at all and execute      *)
(* raises; failed: no answer.                                                *)
Ended     == {"answered", "told", "blank", "raised", "failed"}
TurnState ==
    [at : {"new", "capability", "classifying", "health", "asking", "searching",
           "telling", "tool", "closing", "fallback"} \cup Ended,
     r : TurnRequest, provider : Providers, private : BOOLEAN, round : 0..MaxRounds,
     flagged : BOOLEAN, over : BOOLEAN]
     \* history: flagged, by the classifier; over, the month's limit was spent
     \* when the turn began

AnyRequest == [kind |-> "exact", granted |-> FALSE, via |-> "auto", private |-> FALSE,
               images |-> FALSE, dear |-> FALSE, complex |-> FALSE, instant |-> FALSE,
               tools |-> "none"]

DirectorInit ==
    /\ policy \in [cloud : BOOLEAN, client : BOOLEAN]
    /\ turn = [t \in Turns |-> [at |-> "new", r |-> AnyRequest, provider |-> "none",
                                private |-> FALSE, round |-> 0, flagged |-> FALSE,
                                over |-> FALSE]]
    /\ transcript = << >>
    /\ spent = 0
    /\ storeFailures = 0
----------------------------------------------------------------------------
(* decide.  Nobody tells execute what was spent: it goes by its default.      *)
SpentThisMonth == 0
MayUseCloud(r, private) ==
    /\ ~private
    /\ policy.cloud
    /\ SpentThisMonth < HardLimit
    /\ ~r.dear

Local(r) == IF r.images THEN "local_vision" ELSE "ollama"

Manual(r) ==
    CASE r.via = "local_reasoning" -> "local_reasoning"
      [] r.via = "local"           -> Local(r)
      [] r.via = "unknown"         -> "error"
      [] r.via = "cloud" /\ r.private ->
             IF r.complex THEN "local_reasoning" ELSE "ollama"
      [] r.via = "cloud" /\ ~r.private ->
             IF MayUseCloud(r, FALSE) THEN "openrouter" ELSE Local(r)

AutoImage(r) == IF MayUseCloud(r, r.private) THEN "openrouter" ELSE "local_vision"

(* What a confident classifier proposes goes first; "none" is its silence.    *)
Classified(r, private, target) ==
    CASE target = "local_heavy"                       -> "local_reasoning"
      [] target = "cloud" /\ MayUseCloud(r, private)  -> "openrouter"
      [] target = "iris"                              -> "ollama"
      [] OTHER ->
             IF r.instant /\ ~private THEN "ollama"
             ELSE IF private /\ ~r.complex THEN "none" ELSE "local_reasoning"
----------------------------------------------------------------------------
(* Where a turn goes once it has its provider.                               *)
Entered(r, provider) ==
    IF provider = "error" \/ (provider = "openrouter" /\ ~policy.client) THEN "failed"
    ELSE IF r.tools # "search" THEN "asking"
    ELSE IF r.granted THEN "searching" ELSE "told"

Goes(t, at) == turn' = [turn EXCEPT ![t].at = at]
Routed(t, provider) ==
    turn' = [turn EXCEPT ![t].at = Entered(turn[t].r, provider), ![t].provider = provider,
                         ![t].round = 1]

(* The request, and the first thing execute finds in it.                     *)
Entry(t, r) ==
    LET entry == [turn[t] EXCEPT !.r = r, !.private = r.private, !.round = 1,
                                 !.over = (spent >= HardLimit)]
        routed(p) == [entry EXCEPT !.provider = p, !.at = Entered(r, p)]
    IN  CASE r.kind = "exact" -> [entry EXCEPT !.at = "answered"]
          [] r.kind \in {"read", "control"} ->
                 [entry EXCEPT !.at = IF r.granted THEN "capability" ELSE "told"]
          [] r.kind = "chat" /\ r.via # "auto" -> routed(Manual(r))
          [] r.kind = "chat" /\ r.via = "auto" /\ r.images -> routed(AutoImage(r))
          [] r.kind = "chat" /\ r.via = "auto" /\ ~r.images ->
                 [entry EXCEPT !.at = "classifying"]
BeginTurn(t) ==
    /\ turn[t].at = "new"
    /\ \E r \in RequestsOf[t] : turn' = [turn EXCEPT ![t] = Entry(t, r)]
    /\ UNCHANGED <<policy, transcript, spent, storeFailures>>

(* _record_memory, in one step for want of an await: the conversation, the    *)
(* prompt and the answer.  A store that fails is logged and passed over.      *)
Records(t) ==
    \/ /\ transcript' = transcript \o <<<<t, "user">>, <<t, "assistant">>>>
       /\ UNCHANGED storeFailures
    \/ /\ storeFailures < MaxStoreFailures
       /\ storeFailures' = storeFailures + 1
       /\ transcript' \in {transcript, Append(transcript, <<t, "user">>)}
RecordsNothing == UNCHANGED <<transcript, storeFailures>>

(* The same for an answer without content: the prompt is stored, the answer    *)
(* is no message.                                                            *)
RecordsPrompt(t) ==
    \/ /\ transcript' = Append(transcript, <<t, "user">>)
       /\ UNCHANGED storeFailures
    \/ /\ storeFailures < MaxStoreFailures
       /\ storeFailures' = storeFailures + 1
       /\ UNCHANGED transcript

(* Counted up to the limit.                                                  *)
Pays(t) ==
    spent' = IF turn[t].provider = "openrouter" /\ spent < HardLimit THEN spent + 1
                                                                     ELSE spent

(* A deterministic capability: a read is recorded when it succeeds, a control *)
(* in any case.                                                              *)
CapabilityReturns(t) ==
    /\ turn[t].at = "capability"
    /\ Goes(t, "answered")
    /\ Records(t)
    /\ UNCHANGED <<policy, spent>>
CapabilityFails(t) ==
    /\ turn[t].at = "capability"
    /\ Goes(t, "told")
    /\ IF turn[t].r.kind = "control" THEN Records(t) ELSE RecordsNothing
    /\ UNCHANGED <<policy, spent>>

(* Mutant: the sensitivity the classifier found is not taken over.           *)
ClassifierIgnored(t, found, target) ==
    LET r == turn[t].r
        p == Classified(r, r.private, target)
    IN  /\ turn[t].at = "classifying"
        /\ turn' = [turn EXCEPT ![t].flagged = found, ![t].provider = p,
                      ![t].at = IF p = "none" THEN "health" ELSE Entered(r, p)]
        /\ UNCHANGED <<policy, transcript, spent, storeFailures>>

(* The classifier returns, or is off and says nothing: found, the prompt is   *)
(* private or sensitive; target, with enough confidence.                     *)
ClassifierReturns(t, found, target) ==
    LET r == turn[t].r
        private == r.private \/ found
        p == Classified(r, private, target)
    IN  /\ turn[t].at = "classifying"
        /\ turn' = [turn EXCEPT ![t].flagged = found, ![t].private = private,
                      ![t].provider = p,
                      ![t].at = IF p = "none" THEN "health" ELSE Entered(r, p)]
        /\ UNCHANGED <<policy, transcript, spent, storeFailures>>

(* _route_sensitive: the internal model or nothing.                          *)
HealthReturns(t) ==
    /\ turn[t].at = "health"
    /\ \E p \in {"local_reasoning", "error"} : Routed(t, p)
    /\ UNCHANGED <<policy, transcript, spent, storeFailures>>

(* The deterministic web search; its failure is told and recorded.           *)
SearchReturns(t) ==
    /\ turn[t].at = "searching"
    /\ Goes(t, "telling")
    /\ UNCHANGED <<policy, transcript, spent, storeFailures>>
SearchFails(t) ==
    /\ turn[t].at = "searching"
    /\ Goes(t, "told")
    /\ Records(t)
    /\ UNCHANGED <<policy, spent>>

(* Mutant: the answer of the fallback is not recorded.                       *)
ModelAnswersOnce(t) ==
    /\ \/ turn[t].at = "asking" /\ turn[t].r.tools # "loop"
       \/ turn[t].at \in {"telling", "fallback"}
    /\ Goes(t, "answered")
    /\ IF turn[t].at = "fallback" THEN RecordsNothing ELSE Records(t)
    /\ Pays(t)
    /\ UNCHANGED policy

(* A model answers the prompt, the search results or the fallback.  The answer *)
(* may be empty (all the search left was a tool call that is stripped, or the  *)
(* cloud model said nothing): it is recorded, and refused to the caller.      *)
ModelAnswers(t) ==
    /\ \/ turn[t].at = "asking" /\ turn[t].r.tools # "loop"
       \/ turn[t].at \in {"telling", "fallback"}
    /\ \E at \in {"answered", "blank"} : Goes(t, at)
    /\ Records(t)
    /\ Pays(t)
    /\ UNCHANGED policy

(* A cloud model's message without content (null) is no text: stripping it     *)
(* raises before anything is recorded, and otherwise the result does, after    *)
(* the prompt was.                                                           *)
AnswerRaises(t) ==
    /\ turn[t].at \in {"asking", "telling", "closing", "fallback"}
    /\ turn[t].provider = "openrouter"
    /\ Goes(t, "raised")
    /\ IF turn[t].at = "telling" \/ turn[t].r.tools = "loop"
       THEN RecordsNothing
       ELSE RecordsPrompt(t)
    /\ Pays(t)
    /\ UNCHANGED policy

(* A model fails; only local vision without tools has a second one to ask.    *)
HasFallback(t) ==
    /\ turn[t].at = "asking" /\ turn[t].r.tools # "loop"
    /\ turn[t].provider = "local_vision" /\ turn[t].r.images
    /\ policy.client
    /\ MayUseCloud(turn[t].r, turn[t].private)
ModelFails(t) ==
    /\ turn[t].at \in {"asking", "telling", "closing", "fallback"}
    /\ IF HasFallback(t)
       THEN turn' = [turn EXCEPT ![t].at = "fallback", ![t].provider = "openrouter"]
       ELSE Goes(t, "failed")
    /\ UNCHANGED <<policy, transcript, spent, storeFailures>>
----------------------------------------------------------------------------
(* _execute_with_tools: at most MaxRounds rounds, then an answer without      *)
(* tools.  The loop records nothing in the conversation.                     *)
InLoop(t) == turn[t].at = "asking" /\ turn[t].r.tools = "loop"

(* Mutant: the rounds are not counted.                                       *)
RoundAgain(t) == turn' = [turn EXCEPT ![t].at = "asking"]

RoundEnds(t) ==
    turn' = [turn EXCEPT ![t].at = IF turn[t].round < MaxRounds THEN "asking" ELSE "closing",
                         ![t].round = IF @ < MaxRounds THEN @ + 1 ELSE @]

LoopAnswers(t) ==
    /\ InLoop(t) \/ turn[t].at = "closing"
    /\ \E at \in {"answered", "blank"} : Goes(t, at)
    /\ Pays(t)
    /\ UNCHANGED <<policy, transcript, storeFailures>>

(* A call of a tool that is unknown, disabled, malformed or not authorized    *)
(* costs a round; the others are executed.                                   *)
LoopRefuses(t) ==
    /\ InLoop(t)
    /\ RoundEnds(t)
    /\ Pays(t)
    /\ UNCHANGED <<policy, transcript, storeFailures>>
LoopCalls(t) ==
    /\ InLoop(t)
    /\ Goes(t, "tool")
    /\ Pays(t)
    /\ UNCHANGED <<policy, transcript, storeFailures>>
ToolReturns(t) ==
    /\ turn[t].at = "tool"
    /\ RoundEnds(t)
    /\ UNCHANGED <<policy, transcript, spent, storeFailures>>

TurnRuns(t) ==
    \/ CapabilityReturns(t) \/ CapabilityFails(t)
    \/ \E found \in BOOLEAN, target \in {"none", "local_heavy", "cloud", "iris"} :
          ClassifierReturns(t, found, target)
    \/ HealthReturns(t)
    \/ SearchReturns(t) \/ SearchFails(t)
    \/ ModelAnswers(t) \/ AnswerRaises(t) \/ ModelFails(t)
    \/ LoopAnswers(t) \/ LoopRefuses(t) \/ LoopCalls(t) \/ ToolReturns(t)

DirectorNext ==
    \E t \in Turns : BeginTurn(t) \/ TurnRuns(t)

DirectorSpec == DirectorInit /\ [][DirectorNext]_drVars

(* Every call a turn waits for returns or times out.                         *)
DirectorFairness == \A t \in Turns : WF_drVars(TurnRuns(t))
----------------------------------------------------------------------------
(* Every variable holds what the code may store in it.                       *)
DirectorTypeOK ==
    /\ policy \in [cloud : BOOLEAN, client : BOOLEAN]
    /\ turn \in [Turns -> TurnState]
    /\ transcript \in Seq(Turns \X {"user", "assistant"})
    /\ spent \in 0..HardLimit
    /\ storeFailures \in 0..MaxStoreFailures

(* On every path to the cloud (chosen by hand, by the classifier, for an      *)
(* image, after local vision failed, in the tool loop or after a search) the  *)
(* prompt is not private, by the request, its words or the classifier, the    *)
(* cloud is enabled and the price is under the limit of a request.           *)
AtCloud(t) ==
    /\ turn[t].provider = "openrouter"
    /\ turn[t].at \in {"asking", "telling", "closing", "fallback"}
CloudIsPermitted ==
    \A t \in Turns : AtCloud(t) =>
        /\ policy.cloud /\ policy.client
        /\ ~turn[t].r.private /\ ~turn[t].flagged
        /\ ~turn[t].r.dear

(* The conversation keeps what models said.  Prompt and answer of a turn stay   *)
(* together whatever other turns do, and only a turn that ended, and not by a  *)
(* failure, has left something.  An answer is missing only after an exact      *)
(* answer, a tool loop or a failure of the store; a prompt is left without     *)
(* one only by such a failure or when the answer had no content.  An empty     *)
(* answer is kept like any other: that a turn is remembered does not say its   *)
(* caller got a text.                                                        *)
Remembers(t) == \E i \in DOMAIN transcript : transcript[i] = <<t, "assistant">>
TranscriptKeepsAnswers ==
    /\ \A i \in DOMAIN transcript :
          LET t == transcript[i][1]
          IN  /\ turn[t].at \in Ended \ {"failed"}
              /\ turn[t].at = "raised" => transcript[i][2] = "user"
              /\ turn[t].at # "raised" /\ transcript[i][2] = "user" /\ storeFailures = 0 =>
                    i < Len(transcript) /\ transcript[i + 1] = <<t, "assistant">>
    /\ \A t \in Turns :
          (/\ turn[t].at \in {"answered", "blank"}
           /\ turn[t].r.kind # "exact"
           /\ storeFailures = 0) =>
              (Remembers(t) <=> turn[t].r.kind # "chat" \/ turn[t].r.tools # "loop")

(* Every turn returns: the tool loop ends whatever the model asks for.        *)
TurnReturns ==
    \A t \in Turns : []<>(turn[t].at \in Ended \cup {"new"})

(* A turn that begins when the month's hard limit is spent stays local.       *)
CloudWithinBudget == \A t \in Turns : AtCloud(t) => ~turn[t].over

=============================================================================
