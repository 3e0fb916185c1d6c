-------------------------- MODULE AgentTurn_proofs --------------------------
(* Theorems about AgentTurn, for every set of granted tools, every number of *)
(* iterations and every number of calls in an answer of the model.           *)
EXTENDS AgentTurn, TLAPS

LEMMA FollowUpsTyped == Retries \in SUBSET selected /\ Health \in Capabilities
  BY DEF Retries, Capabilities

LEMMA AgentInitTyped == AgentOK /\ AgentInit => AgentTypeOK
  BY DEF AgentOK, AgentInit, AgentTypeOK

LEMMA PerformedTyped ==
  ASSUME AgentTypeOK, NEW c, Performed(c)
  PROVE  mutated' \in [Mutations -> Nat]
  BY DEF AgentTypeOK, Performed

LEMMA AgentStepTyped ==
  ASSUME AgentOK, AgentTypeOK, [AgentNext]_agVars
  PROVE  AgentTypeOK'
  <1>1. CASE BeginObjective
    BY <1>1 DEF BeginObjective, AgentOK, AgentTypeOK, Capabilities
  <1>2. ASSUME NEW c \in Capabilities, ExecuteTool(c) PROVE AgentTypeOK'
    <2>1. mutated' \in [Mutations -> Nat]
      BY <1>2, PerformedTyped DEF ExecuteTool, AgentTypeOK
    <2>2. failed' \in SUBSET Capabilities /\ nextTools' \in SUBSET Capabilities
      BY <1>2 DEF ExecuteTool, AgentTypeOK
    <2>3. looped' \in [Capabilities -> Nat]
      BY <1>2 DEF ExecuteTool, AgentTypeOK
    <2> QED  BY <1>2, <2>1, <2>2, <2>3 DEF ExecuteTool, AgentTypeOK
  <1>3. ASSUME NEW c \in Capabilities, PassToolless(c) PROVE AgentTypeOK'
    BY <1>3 DEF PassToolless, AgentTypeOK
  <1>4. ASSUME NEW c \in Capabilities, CallTool(c) PROVE AgentTypeOK'
    <2>1. mutated' \in [Mutations -> Nat]
      BY <1>4, PerformedTyped DEF CallTool, AgentTypeOK
    <2>2. /\ calls' \in 0..MaxCalls /\ (agPhase' = "calling" => calls' > 0)
          /\ iteration' \in 0..MaxIterations
      BY <1>4 DEF CallTool, AgentTypeOK, AgentOK
    <2> QED  BY <1>4, <2>1, <2>2 DEF CallTool, AgentTypeOK
  <1>5. CASE GoOn
    <2>1. nextTools' \in SUBSET Capabilities /\ retried' \in SUBSET Capabilities
      BY <1>5, FollowUpsTyped DEF GoOn, AgentTypeOK
    <2> QED  BY <1>5, <2>1 DEF GoOn, AgentTypeOK, AgentOK
  <1>6. CASE LoopEnds
    BY <1>6 DEF LoopEnds, AgentTypeOK, AgentOK
  <1>7. CASE ModelSaysIt \/ ModelErrs \/ Remember \/ RememberFails
    BY <1>7 DEF ModelSaysIt, ModelErrs, Remember, RememberFails, AgentTypeOK
  <1>8. ASSUME NEW n \in 1..MaxCalls, ModelCalls(n) PROVE AgentTypeOK'
    BY <1>8 DEF ModelCalls, AgentTypeOK, AgentOK
  <1>9. CASE UNCHANGED agVars
    BY <1>9 DEF agVars, AgentTypeOK
  <1> QED
    BY <1>1, <1>2, <1>3, <1>4, <1>5, <1>6, <1>7, <1>8, <1>9 DEF AgentNext, AgentRuns

(* The types of an agent's turn, whatever it plans and the model calls.      *)
THEOREM AgentTypeCorrect == AgentSpec => []AgentTypeOK
  <1>1. AgentOK
    BY AgentOK
  <1> QED  BY <1>1, AgentInitTyped, AgentStepTyped, PTL DEF AgentSpec

----------------------------------------------------------------------------
(* Why the bounds hold: what a capability may still cost the loop.  What is   *)
(* next counts as used; a retry is paid for by its entry in retried, where    *)
(* no mutation comes; what was not selected was not used.                    *)
Uses(c) == looped[c] + (IF c \in nextTools THEN 1 ELSE 0)
LoopBounded ==
    /\ retried \cap Mutations = {}
    /\ nextTools \subseteq selected
    /\ \A c \in Capabilities :
          /\ c \notin selected => looped[c] = 0
          /\ Uses(c) <= (IF c \in retried THEN 2 ELSE 1)
    /\ agPhase = "new" =>
          nextTools = {} /\ \A c \in Capabilities : looped[c] = 0

(* With a question there is no mutation in the loop and no inference; what    *)
(* needs an approval is performed by the loop only.                          *)
MutationInv ==
    /\ agPhase = "new" => \A c \in Mutations : mutated[c] = 0
    /\ \A c \in Approvable :
          /\ mutated[c] <= looped[c]
          /\ mutated[c] > 0 => c \in objective.approved
    /\ objective.question =>
          /\ agPhase \notin {"asking", "calling", "closing"}
          /\ nextTools \cap Mutations = {}
          /\ \A c \in Mutations : mutated[c] = 0

LEMMA AgentInitInv == AgentInit => LoopBounded /\ MutationInv
  <1>1. Approvable \subseteq Mutations /\ Approvable \subseteq Capabilities
    BY DEF Mutations, Capabilities
  <1> QED  BY <1>1 DEF AgentInit, LoopBounded, MutationInv, Uses

LEMMA LoopStep ==
  ASSUME AgentTypeOK, LoopBounded, [AgentNext]_agVars
  PROVE  LoopBounded'
  <1> USE DEF LoopBounded, Uses
  <1>1. CASE BeginObjective
    <2>1. nextTools' \subseteq selected' /\ agPhase' # "new"
      BY <1>1 DEF BeginObjective
    <2> QED  BY <1>1, <2>1 DEF BeginObjective, AgentTypeOK
  <1>2. ASSUME NEW c \in Capabilities, ExecuteTool(c) PROVE LoopBounded'
    <2>1. c \in nextTools /\ looped' = [looped EXCEPT ![c] = @ + 1]
                          /\ nextTools' = nextTools \ {c}
      BY <1>2 DEF ExecuteTool
    <2>2. \A d \in Capabilities : Uses(d)' = Uses(d)
      BY <2>1 DEF AgentTypeOK
    <2>3. \A d \in Capabilities : d \notin selected => looped'[d] = 0
      BY <2>1 DEF AgentTypeOK
    <2> QED  BY <1>2, <2>1, <2>2, <2>3 DEF ExecuteTool, AgentTypeOK
  <1>3. ASSUME NEW c \in Capabilities, PassToolless(c) PROVE LoopBounded'
    BY <1>3 DEF PassToolless, AgentTypeOK
  <1>4. ASSUME NEW c \in Capabilities, CallTool(c) PROVE LoopBounded'
    BY <1>4 DEF CallTool, AgentTypeOK
  <1>5. CASE GoOn
    <2>1. CASE Diagnoses
      <3>1. /\ nextTools = {} /\ nextTools' = {Health} /\ Health \notin selected
            /\ retried' = retried /\ looped' = looped /\ selected' = selected \cup {Health}
            /\ agPhase' # "new"
        BY <1>5, <2>1 DEF GoOn, Diagnoses
      <3> QED  BY <3>1 DEF AgentTypeOK
    <2>2. CASE ~Diagnoses
      <3>1. /\ nextTools = {} /\ nextTools' = Retries
            /\ retried' = retried \cup Retries /\ looped' = looped
            /\ selected' = selected \cup Retries /\ agPhase' # "new"
        BY <1>5, <2>2 DEF GoOn
      <3>2. Retries \cap (retried \cup Mutations) = {} /\ Retries \subseteq selected
        BY DEF Retries
      <3> HIDE DEF Retries
      <3> QED  BY <3>1, <3>2 DEF AgentTypeOK
    <2> QED  BY <2>1, <2>2
  <1>6. CASE LoopEnds
    BY <1>6 DEF LoopEnds, AgentTypeOK
  <1>7. CASE ModelSaysIt \/ ModelErrs \/ Remember \/ RememberFails
    BY <1>7 DEF ModelSaysIt, ModelErrs, Remember, RememberFails
  <1>8. ASSUME NEW n \in 1..MaxCalls, ModelCalls(n) PROVE LoopBounded'
    BY <1>8 DEF ModelCalls
  <1>9. CASE UNCHANGED agVars
    BY <1>9 DEF agVars
  <1> QED
    BY <1>1, <1>2, <1>3, <1>4, <1>5, <1>6, <1>7, <1>8, <1>9 DEF AgentNext, AgentRuns

LEMMA MutationStep ==
  ASSUME AgentTypeOK, MutationInv, [AgentNext]_agVars
  PROVE  MutationInv'
  <1> USE DEF MutationInv
  <1>a. Approvable \subseteq Mutations /\ Mutations \subseteq Capabilities
    BY DEF Mutations, Capabilities
  <1>1. CASE BeginObjective
    <2>1. /\ agPhase = "new" /\ agPhase' = "looping"
          /\ mutated' = mutated /\ looped' = looped
          /\ objective'.question => nextTools' \cap Mutations = {}
      BY <1>1 DEF BeginObjective
    <2> QED  BY <1>a, <2>1 DEF AgentTypeOK
  <1>2. ASSUME NEW c \in Capabilities, ExecuteTool(c) PROVE MutationInv'
    <2>1. /\ c \in nextTools /\ nextTools' = nextTools \ {c}
          /\ looped' = [looped EXCEPT ![c] = @ + 1]
          /\ agPhase = "looping" /\ agPhase' = agPhase /\ objective' = objective
      BY <1>2 DEF ExecuteTool
    <2>2. CASE mutated' = mutated
      BY <1>a, <2>1, <2>2 DEF AgentTypeOK
    <2>3. CASE c \in Mutations /\ mutated' = [mutated EXCEPT ![c] = @ + 1]
                               /\ (c \in Approvable => c \in objective.approved)
      <3>1. ~objective.question
        BY <2>1, <2>3
      <3> QED  BY <1>a, <2>1, <2>3, <3>1 DEF AgentTypeOK
    <2> QED  BY <1>2, <2>2, <2>3 DEF ExecuteTool, Performed
  <1>3. ASSUME NEW c \in Capabilities, PassToolless(c) PROVE MutationInv'
    BY <1>3 DEF PassToolless
  <1>4. ASSUME NEW c \in Capabilities, CallTool(c) PROVE MutationInv'
    <2>1. /\ ~objective.question /\ objective' = objective /\ looped' = looped
          /\ agPhase' # "new"
      BY <1>4 DEF CallTool
    <2>2. \A d \in Approvable : mutated'[d] = mutated[d]
      BY <1>4, <1>a DEF CallTool, Performed, AgentTypeOK
    <2> QED  BY <2>1, <2>2
  <1>5. CASE GoOn
    <2>1. nextTools' \cap Mutations = {}
      BY <1>5 DEF GoOn, Retries, Health, Mutations, Approvable, Toolless
    <2> QED  BY <1>5, <2>1 DEF GoOn
  <1>6. CASE LoopEnds
    BY <1>6 DEF LoopEnds
  <1>7. CASE ModelSaysIt \/ ModelErrs \/ Remember \/ RememberFails
    BY <1>7 DEF ModelSaysIt, ModelErrs, Remember, RememberFails
  <1>8. ASSUME NEW n \in 1..MaxCalls, ModelCalls(n) PROVE MutationInv'
    BY <1>8 DEF ModelCalls
  <1>9. CASE UNCHANGED agVars
    BY <1>9 DEF agVars
  <1> QED
    BY <1>1, <1>2, <1>3, <1>4, <1>5, <1>6, <1>7, <1>8, <1>9 DEF AgentNext, AgentRuns

LEMMA AgentInvs == AgentSpec => [](AgentTypeOK /\ LoopBounded /\ MutationInv)
  <1>1. AgentOK
    BY AgentOK
  <1> QED
    BY <1>1, AgentInitTyped, AgentStepTyped, AgentInitInv, LoopStep, MutationStep, PTL
    DEF AgentSpec

(* The loop ends with its budget for every tool kept: a read is tried twice,  *)
(* a mutation once, whatever fails and however many iterations are allowed.   *)
THEOREM LoopRetriesOnce == AgentSpec => []RetriedOnce
  <1>1. AgentTypeOK /\ LoopBounded => RetriedOnce
    BY DEF AgentTypeOK, LoopBounded, Uses, RetriedOnce
  <1> QED  BY <1>1, AgentInvs, PTL

(* What needs an approval happens at most once for an objective, approved,    *)
(* and nothing is changed while a question is open.                          *)
THEOREM MutationsAreGuarded == AgentSpec => []MutationsGuarded
  <1>1. ASSUME AgentTypeOK, LoopBounded, MutationInv
        PROVE  MutationsGuarded
    <2>1. ASSUME NEW c \in Approvable
          PROVE  mutated[c] <= 1
      <3>1. c \in Mutations /\ c \in Capabilities
        BY DEF Mutations, Capabilities
      <3>2. looped[c] <= 1 /\ looped[c] \in Nat /\ mutated[c] \in Nat
        BY <1>1, <3>1 DEF AgentTypeOK, LoopBounded, Uses
      <3> QED  BY <1>1, <3>2 DEF MutationInv
    <2> QED  BY <1>1, <2>1 DEF MutationsGuarded, MutationInv
  <1> QED  BY <1>1, AgentInvs, PTL

=============================================================================
