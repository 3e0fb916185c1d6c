------------------------------ MODULE AgentTurn ------------------------------
(***************************************************************************)
(* One objective of a persistent agent: AgentRuntimeV3.arun                 *)
(* (src/freyja/agent_runtime_v3.py) over the tool registry                  *)
(* (src/freyja/tools/registry.py).                                         *)
(*                                                                         *)
(* The agent plans tools, executes them in a bounded loop that diagnoses    *)
(* and retries what failed, lets a model call more of them, writes its      *)
(* memory and answers; it waits for each tool and each model in turn.  An    *)
(* objective is reduced to the capabilities it selects, the approvals that   *)
(* come with it and whether something is missing in it.                      *)
(***************************************************************************)
EXTENDS Naturals

CONSTANTS
    Granted,       \* the agent's tool_grants that the handoff makes available
    MaxIterations, \* max_tool_iterations
    MaxCalls       \* bound: tool calls of one answer of the model

(* _MUTATION_CAPABILITIES: for two of them the registry wants an approval,    *)
(* two have no tool behind them.                                             *)
Approvable == {"home-assistant.control", "calendar.write"}
Toolless   == {"messaging.send", "scheduling.create"}
Mutations  == Approvable \cup Toolless \cup {"coding.execute"}
Health     == "system.health"

(* What a plan or a model may name.                                          *)
Capabilities == Granted \cup Mutations \cup {Health}

ASSUME AgentOK == MaxIterations \in Nat \ {0} /\ MaxCalls \in Nat

VARIABLES
    agPhase,    \* where arun is
    objective,  \* approved: capabilities; question: a follow-up question is due
    selected,   \* selected_tools
    nextTools,  \* what is left of next_tools
    iteration,  \* of the loop the agent is in
    failed,     \* capabilities with a failed result
    retried,    \* attempted_retries
    calls,      \* what is left of the tool calls in the model's answer
    looped,     \* history: capability |-> times the agent's own loop executed it
    mutated     \* history: mutation |-> times its implementation has run

agVars == <<agPhase, objective, selected, nextTools, iteration, failed, retried, calls,
            looped, mutated>>

AgentInit ==
    /\ agPhase = "new"
    /\ objective = [approved |-> {}, question |-> FALSE]
    /\ selected = {} /\ nextTools = {} /\ failed = {} /\ retried = {}
    /\ iteration = 0 /\ calls = 0
    /\ looped = [c \in Capabilities |-> 0]
    /\ mutated = [c \in Mutations |-> 0]

(* choose_tools and _follow_up_questions: a calendar entry without approval   *)
(* is asked about, and so is whatever the objective does not tell of another  *)
(* mutation.  With a question no mutation is executed.                       *)
BeginObjective ==
    /\ agPhase = "new"
    /\ \E plan \in SUBSET Granted, approved \in SUBSET Approvable, question \in BOOLEAN :
          /\ "calendar.write" \in plan \ approved => question
          /\ question => plan \cap (Toolless \cup Approvable) # {}
          /\ objective' = [approved |-> approved, question |-> question]
          /\ selected' = plan
          /\ nextTools' = IF question THEN plan \ Mutations ELSE plan
          /\ agPhase' = "looping"
          /\ iteration' = 1
    /\ UNCHANGED <<failed, retried, calls, looped, mutated>>
----------------------------------------------------------------------------
(* The registry runs the implementation, whose error or timeout may come      *)
(* after its effect, or refuses the call: unknown, disabled, not valid or     *)
(* not approved.                                                             *)
Performed(c) == mutated' = IF c \in Mutations THEN [mutated EXCEPT ![c] = @ + 1] ELSE mutated

ExecuteTool(c) ==
    /\ agPhase = "looping"
    /\ c \in nextTools \ Toolless
    /\ nextTools' = nextTools \ {c}
    /\ looped' = [looped EXCEPT ![c] = @ + 1]
    /\ \/ /\ c \in Approvable => c \in objective.approved
          /\ Performed(c)
          /\ failed' \in {failed, failed \cup {c}}
       \/ /\ failed' = failed \cup {c}
          /\ UNCHANGED mutated
    /\ UNCHANGED <<agPhase, objective, selected, iteration, retried, calls>>
PassToolless(c) ==
    /\ agPhase = "looping"
    /\ c \in nextTools \cap Toolless
    /\ nextTools' = nextTools \ {c}
    /\ UNCHANGED <<agPhase, objective, selected, iteration, failed, retried, calls, looped,
                   mutated>>

(* _choose_follow_up_tools: one diagnosis, then one retry of each read.       *)
Diagnoses == failed # {} /\ Health \in Granted \ selected

(* Mutant: whatever failed is retried.                                       *)
RetriesAll == (selected \cap failed) \ retried
Retries   == (selected \cap failed) \ (retried \cup Mutations)

(* Mutant: retries are not remembered.                                       *)
GoOnForgetting ==
    /\ agPhase = "looping" /\ nextTools = {} /\ iteration < MaxIterations
    /\ Diagnoses \/ Retries # {}
    /\ nextTools' = IF Diagnoses THEN {Health} ELSE Retries
    /\ selected' = selected \cup nextTools'
    /\ iteration' = iteration + 1
    /\ UNCHANGED <<agPhase, objective, failed, retried, calls, looped, mutated>>

GoOn ==
    /\ agPhase = "looping" /\ nextTools = {} /\ iteration < MaxIterations
    /\ Diagnoses \/ Retries # {}
    /\ nextTools' = IF Diagnoses THEN {Health} ELSE Retries
    /\ retried' = IF Diagnoses THEN retried ELSE retried \cup Retries
    /\ selected' = selected \cup nextTools'
    /\ iteration' = iteration + 1
    /\ UNCHANGED <<agPhase, objective, failed, calls, looped, mutated>>

(* The loop ends.  With a question, with an answer taken from the results or   *)
(* without an endpoint that may be used there is no inference; an endpoint     *)
(* is asked once, or the model on it may call tools.                          *)
LoopEnds ==
    /\ agPhase = "looping" /\ nextTools = {}
    /\ iteration = MaxIterations \/ ~(Diagnoses \/ Retries # {})
    /\ agPhase' \in IF objective.question THEN {"remembering"}
                    ELSE {"remembering", "closing", "asking"}
    /\ iteration' = 1
    /\ UNCHANGED <<objective, selected, nextTools, failed, retried, calls, looped, mutated>>
----------------------------------------------------------------------------
(* _run_text_tool_calling_inference.                                         *)
ModelSaysIt ==
    /\ agPhase \in {"asking", "closing"}
    /\ agPhase' = "remembering"
    /\ UNCHANGED <<objective, selected, nextTools, iteration, failed, retried, calls, looped,
                   mutated>>

(* An error of the model ends the inference when there are no results.        *)
ModelErrs ==
    /\ agPhase = "asking"
    /\ agPhase' = "closing"
    /\ iteration > 1 \/ \E c \in Capabilities : looped[c] > 0
    /\ UNCHANGED <<objective, selected, nextTools, iteration, failed, retried, calls, looped,
                   mutated>>
ModelCalls(n) ==
    /\ agPhase = "asking"
    /\ agPhase' = "calling"
    /\ calls' = n
    /\ UNCHANGED <<objective, selected, nextTools, iteration, failed, retried, looped, mutated>>

(* Mutant: the model is asked again as long as it calls tools.                *)
CallToolAgain(c) ==
    /\ agPhase = "calling"
    /\ calls' = calls - 1
    /\ selected' = selected \cup {c}
    /\ agPhase' = IF calls > 1 THEN "calling" ELSE "asking"
    /\ UNCHANGED <<objective, nextTools, iteration, failed, retried, looped, mutated>>

(* _execute_model_tool_call: any name, never with an approval.                *)
CallTool(c) ==
    /\ agPhase = "calling"
    /\ calls' = calls - 1
    /\ selected' = selected \cup {c}
    /\ \/ c \notin Approvable \cup Toolless /\ Performed(c)
       \/ UNCHANGED mutated
    /\ agPhase' = IF calls > 1 THEN "calling"
                  ELSE IF iteration < MaxIterations THEN "asking" ELSE "closing"
    /\ iteration' = IF calls = 1 /\ iteration < MaxIterations THEN iteration + 1
                                                              ELSE iteration
    /\ UNCHANGED <<objective, nextTools, failed, retried, looped>>
----------------------------------------------------------------------------
(* The candidate, the explicit memory and the summary; a store that fails     *)
(* ends arun with an exception, whatever the tools have done.                *)
Remember ==
    /\ agPhase = "remembering"
    /\ agPhase' = "answered"
    /\ UNCHANGED <<objective, selected, nextTools, iteration, failed, retried, calls, looped,
                   mutated>>
RememberFails ==
    /\ agPhase = "remembering"
    /\ agPhase' = "raised"
    /\ UNCHANGED <<objective, selected, nextTools, iteration, failed, retried, calls, looped,
                   mutated>>

AgentRuns ==
    \/ \E c \in Capabilities : ExecuteTool(c) \/ PassToolless(c) \/ CallTool(c)
    \/ GoOn \/ LoopEnds
    \/ ModelSaysIt \/ ModelErrs \/ \E n \in 1..MaxCalls : ModelCalls(n)
    \/ Remember \/ RememberFails

AgentNext == BeginObjective \/ AgentRuns

AgentSpec == AgentInit /\ [][AgentNext]_agVars

(* Every tool and every model the agent waits for returns or times out.       *)
AgentFairness == WF_agVars(AgentRuns)
----------------------------------------------------------------------------
(* Every variable holds what the code may store in it.                       *)
AgentTypeOK ==
    /\ agPhase \in {"new", "looping", "asking", "calling", "closing", "remembering",
                    "answered", "raised"}
    /\ objective \in [approved : SUBSET Approvable, question : BOOLEAN]
    /\ selected \in SUBSET Capabilities /\ nextTools \in SUBSET Capabilities
    /\ failed \in SUBSET Capabilities /\ retried \in SUBSET Capabilities
    /\ iteration \in 0..MaxIterations
    /\ calls \in 0..MaxCalls /\ (agPhase = "calling" => calls > 0)
    /\ looped \in [Capabilities -> Nat]
    /\ mutated \in [Mutations -> Nat]

(* What needs an approval happens at most once for an objective, with the     *)
(* approval and never while a question about the objective is open: neither   *)
(* the diagnosis and retry of a failed or overdue mutation nor a call of the  *)
(* model brings it about again.                                              *)
MutationsGuarded ==
    \A c \in Mutations :
        /\ c \in Approvable => mutated[c] <= 1
        /\ c \in Approvable /\ mutated[c] > 0 => c \in objective.approved
        /\ objective.question => mutated[c] = 0

(* The agent's loop executes a read at most twice and a mutation once,        *)
(* whatever fails again.                                                     *)
RetriedOnce ==
    \A c \in Capabilities : looped[c] <= (IF c \in Mutations THEN 1 ELSE 2)

(* Every objective comes to an answer or an exception.                       *)
AgentReturns == []<>(agPhase \in {"new", "answered", "raised"})

=============================================================================
