----------------------------- MODULE WritePilot -----------------------------
(***************************************************************************)
(* Agent Smith's approved-write pilot: a request proposes a content for one *)
(* file and passes four gates -- path, content, stage, commit -- each with  *)
(* a record in the approval store that an operator decides on.  Every       *)
(* resume replays the run from its beginning: gates already consumed let it *)
(* pass, the next one is consumed if approved, and the run ends at the      *)
(* first gate that is not.                                                  *)
(*                                                                         *)
(* The handlers suspend only at the three tools (write, git add, git        *)
(* commit): the registry awaits each in a task of its own, so other         *)
(* requests run before and after it.  All else between two suspensions is   *)
(* one step.                                                                *)
(***************************************************************************)
EXTENDS Naturals, FiniteSets

CONSTANTS
    Requests,    \* write-pilot requests; r also names the content r proposes
    Targets,     \* files under docs/smith-pilot
    TargetOf,    \* request |-> the file it is for
    DraftOf,     \* target |-> what the file holds before any pilot
    Absent,      \* no such file, or a path git does not know
    Runs,        \* resume calls that may be under way together
    Rollbacks,   \* the values of rollback_on_unapproved that callers send
    Operations,  \* what the operators do in this instance
    MaxStarts,   \* bound: calls of the start endpoint
    MaxLapses,   \* bound: pending records left until they expire
    MaxFailures, \* bound: tools that fail, writes that do not validate
    MaxCrashes   \* bound: deaths of the Director

Gates == {"path", "content", "stage", "commit"}

(* The gates a run passes before it comes to g. *)
Before == [path |-> {}, content |-> {"path"}, stage |-> {"path", "content"},
           commit |-> {"path", "content", "stage"}]

(* Record statuses; "none" is no row, "overdue" a pending row whose          *)
(* expires_at has passed.                                                    *)
Statuses == {"none", "pending", "overdue", "approved", "denied", "expired",
             "consumed", "cancelled"}

Contents == (Requests \cup {DraftOf[t] : t \in Targets}) \ {Absent}

ASSUME PilotOK ==
    /\ TargetOf \in [Requests -> Targets]
    /\ Absent \notin Requests
    /\ Rollbacks \subseteq BOOLEAN
    /\ DraftOf \in [Targets -> Contents \cup {Absent}]
    /\ \A t \in Targets : DraftOf[t] \notin Requests

VARIABLES
    record,    \* request |-> gate |-> the status of its approval record
    file,      \* target |-> its content in the working tree
    index,     \* target |-> its content in git's index
    head,      \* target |-> its content in the last commit
    backups,   \* target |-> the contents of its .bak files
    run,       \* run |-> where the resume call is
    committed, \* history: requests whose commit succeeded
    spent      \* what has been used of the bounds

vars == <<record, file, index, head, backups, run, committed, spent>>
tree == <<file, index, backups>>

(* at: the tool it is about to run or has run; existed, original: what       *)
(* execute found at the target before the write; eager: rollback_on_unapproved; *)
(* ok: the tool succeeded.                                                   *)
Run == [at : {"write", "wrote", "add", "added", "commit", "committed"},
        request : Requests, id : Gates, eager : BOOLEAN,
        original : Contents \cup {Absent}, ok : BOOLEAN]
NoRun == [at |-> "none"]

Init ==
    /\ record = [r \in Requests |-> [g \in Gates |-> "none"]]
    /\ file = DraftOf
    /\ head \in [Targets -> Contents \cup {Absent}]
    /\ \A t \in Targets : head[t] \in {Absent, DraftOf[t]}
    /\ index = head
    /\ backups = [t \in Targets |-> {}]
    /\ run = [d \in Runs |-> NoRun]
    /\ committed = {}
    /\ spent = [starts |-> 0, lapses |-> 0, failures |-> 0, crashes |-> 0]

-----------------------------------------------------------------------------
(* The approval store. *)

Decide(r, g, from, to) ==
    /\ record[r][g] \in from
    /\ record' = [record EXCEPT ![r][g] = to]
    /\ UNCHANGED <<tree, head, run, committed, spent>>

(* Mutant: the expiry of a pending record is not looked at. *)
ApproveOverdue(r, g) == Decide(r, g, {"pending", "overdue"}, "approved")

(* approve: an overdue record is refused, and the update to expired is       *)
(* rolled back by the exception that says so.                                *)
Approve(r, g) == Decide(r, g, {"pending"}, "approved")

Deny(r, g) ==
    "deny" \in Operations /\ Decide(r, g, {"pending", "overdue"}, "denied")

Cancel(r, g) ==
    "cancel" \in Operations /\ Decide(r, g, {"pending", "overdue"}, "cancelled")

CleanupExpired ==
    /\ "cleanup" \in Operations
    /\ \E r \in Requests, g \in Gates : record[r][g] = "overdue"
    /\ record' = [r \in Requests |-> [g \in Gates |->
                     IF record[r][g] = "overdue" THEN "expired" ELSE record[r][g]]]
    /\ UNCHANGED <<tree, head, run, committed, spent>>

(* Time passes: 900 s without a decision. *)
Lapse(r, g) ==
    /\ spent.lapses < MaxLapses
    /\ spent' = [spent EXCEPT !.lapses = @ + 1]
    /\ record[r][g] = "pending"
    /\ record' = [record EXCEPT ![r][g] = "overdue"]
    /\ UNCHANGED <<tree, head, run, committed>>

-----------------------------------------------------------------------------
(* What a run does at a gate. *)

(* Mutant: a consumed record no longer passes. *)
PassesOnce(r, g, id) == record[r][g] = "approved" /\ g = id

(* resume_approval_for_request: a consumed record passes, an approved one    *)
(* only if the caller named it.                                              *)
Passes(r, g, id) ==
    record[r][g] = "consumed" \/ (record[r][g] = "approved" /\ g = id)

(* Mutant: the record is stored with the state of the run. *)
AskedState(r, g) ==
    [h \in Gates |->
        CASE h \in Before[g] -> "consumed"
          [] h = g /\ record[r][h] = "none" -> "awaiting"
          [] OTHER -> record[r][h]]

(* The records once the gates before g are passed and g has been asked for;  *)
(* create refuses a second record for a request and gate.                    *)
Asked(r, g) ==
    [h \in Gates |->
        CASE h \in Before[g] -> "consumed"
          [] h = g /\ record[r][h] = "none" -> "pending"
          [] OTHER -> record[r][h]]

Passed(r, g) ==
    [h \in Gates |-> IF h \in Before[g] \cup {g} THEN "consumed" ELSE record[r][h]]

(* _rollback: the original content, or no file if execute found none or has  *)
(* not looked yet.                                                           *)
Rollback(t, original) ==
    /\ file' = [file EXCEPT ![t] = original]
    /\ backups' = [backups EXCEPT ![t] = {}]
    /\ index' = [index EXCEPT ![t] = head[t]]

(* _rollback_if_denied: the file is taken for one the pilot created. *)
RollbackDenied(t, eager) ==
    /\ file' = [file EXCEPT ![t] = Absent]
    /\ backups' = IF file[t] = Absent /\ ~eager
                  THEN backups ELSE [backups EXCEPT ![t] = {}]
    /\ index' = [index EXCEPT ![t] = head[t]]

(* The gate g is not passed: the run ends. *)
StopAt(r, g, eager, original) ==
    /\ record' = [record EXCEPT ![r] = Asked(r, g)]
    /\ LET t == TargetOf[r]
       IN IF g \in {"stage", "commit"} /\ record[r][g] = "denied"
          THEN RollbackDenied(t, eager)
          ELSE IF eager THEN Rollback(t, original) ELSE UNCHANGED tree

-----------------------------------------------------------------------------
(* The endpoints. *)

(* POST write-pilot: asks for the path gate and, because nothing is approved *)
(* yet and rollback_on_unapproved is left at its default, rolls back.        *)
Start(r) ==
    /\ spent.starts < MaxStarts
    /\ spent' = [spent EXCEPT !.starts = @ + 1]
    /\ StopAt(r, "path", TRUE, Absent)
    /\ UNCHANGED <<head, run, committed>>

(* POST write-pilot/resume with the record of gate id: up to the write. *)
ResumeStops(r, g, id, eager) ==
    /\ record[r][id] # "none"
    /\ g \in {"path", "content"}
    /\ \A h \in Before[g] : Passes(r, h, id)
    /\ ~Passes(r, g, id)
    /\ StopAt(r, g, eager, Absent)
    /\ UNCHANGED <<head, run, committed, spent>>

(* Mutant: the content gate is asked for only after the write. *)
ResumeUngated(d, r, id, eager) ==
    /\ run[d] = NoRun
    /\ record[r][id] # "none"
    /\ Passes(r, "path", id)
    /\ record' = [record EXCEPT ![r] = Passed(r, "path")]
    /\ run' = [run EXCEPT ![d] =
          [at |-> "write", request |-> r, id |-> id, eager |-> eager,
           original |-> file[TargetOf[r]], ok |-> TRUE]]
    /\ UNCHANGED <<tree, head, committed, spent>>

ResumeWrites(d, r, id, eager) ==
    /\ run[d] = NoRun
    /\ record[r][id] # "none"
    /\ Passes(r, "path", id) /\ Passes(r, "content", id)
    /\ record' = [record EXCEPT ![r] = Passed(r, "content")]
    /\ run' = [run EXCEPT ![d] =
          [at |-> "write", request |-> r, id |-> id, eager |-> eager,
           original |-> file[TargetOf[r]], ok |-> TRUE]]
    /\ UNCHANGED <<tree, head, committed, spent>>

-----------------------------------------------------------------------------
(* The tools, and what the run does with their results. *)

Reached(d, p) == run[d] # NoRun /\ run[d].at = p
Target(d) == TargetOf[run[d].request]
Goes(d, p, ok) == run' = [run EXCEPT ![d] = [@ EXCEPT !.at = p, !.ok = ok]]
Ends(d) == run' = [run EXCEPT ![d] = NoRun]
Fail == spent.failures < MaxFailures /\ spent' = [spent EXCEPT !.failures = @ + 1]

(* write_pilot_file_write: a backup of what is there now, unless execute     *)
(* found nothing, then the new content.                                      *)
WriteTool(d) ==
    /\ Reached(d, "write")
    /\ LET t == Target(d)
           kept == IF file[t] = Absent \/ run[d].original = Absent
                   THEN backups ELSE [backups EXCEPT ![t] = @ \cup {file[t]}]
       IN \/ /\ file' = [file EXCEPT ![t] = run[d].request]
             /\ backups' = kept
             /\ Goes(d, "wrote", TRUE)
             /\ UNCHANGED spent
          \/ /\ Fail
             /\ backups' \in {backups, kept}
             /\ Goes(d, "wrote", FALSE)
             /\ UNCHANGED file
    /\ UNCHANGED <<record, index, head, committed>>

(* The run passes gate g and goes on to a tool, or ends at the gate. *)
GateOpens(d, g, tool) ==
    LET r == run[d].request
    IN IF Passes(r, g, run[d].id)
       THEN /\ record' = [record EXCEPT ![r] = Passed(r, g)]
            /\ Goes(d, tool, TRUE)
            /\ UNCHANGED tree
       ELSE /\ StopAt(r, g, run[d].eager, run[d].original)
            /\ Ends(d)

(* A failed write ends the run as it is; a write that does not validate is   *)
(* rolled back; a valid one goes to the stage gate.                          *)
AfterWrite(d) ==
    /\ Reached(d, "wrote")
    /\ \/ ~run[d].ok /\ Ends(d) /\ UNCHANGED <<record, tree, spent>>
       \/ /\ run[d].ok
          /\ (file[Target(d)] = Absent /\ UNCHANGED spent) \/ Fail
          /\ Rollback(Target(d), run[d].original)
          /\ Ends(d)
          /\ UNCHANGED record
       \/ /\ run[d].ok /\ file[Target(d)] # Absent
          /\ GateOpens(d, "stage", "add")
          /\ UNCHANGED spent
    /\ UNCHANGED <<head, committed>>

(* git add -- target *)
AddTool(d) ==
    /\ Reached(d, "add")
    /\ LET t == Target(d)
           known == file[t] # Absent \/ index[t] # Absent
       IN \/ /\ known
             /\ index' = [index EXCEPT ![t] = file[t]]
             /\ Goes(d, "added", TRUE)
             /\ UNCHANGED spent
          \/ /\ (~known /\ UNCHANGED spent) \/ Fail
             /\ Goes(d, "added", FALSE)
             /\ UNCHANGED index
    /\ UNCHANGED <<record, file, backups, head, committed>>

AfterAdd(d) ==
    /\ Reached(d, "added")
    /\ \/ /\ ~run[d].ok
          /\ Rollback(Target(d), run[d].original)
          /\ Ends(d)
          /\ UNCHANGED record
       \/ run[d].ok /\ GateOpens(d, "commit", "commit")
    /\ UNCHANGED <<head, committed, spent>>

(* git commit -- target: the file as it is in the working tree, if git knows *)
(* the path and there is a change.                                           *)
CommitTool(d) ==
    /\ Reached(d, "commit")
    /\ LET t == Target(d)
           changed == (index[t] # Absent \/ head[t] # Absent) /\ file[t] # head[t]
       IN \/ /\ changed
             /\ head' = [head EXCEPT ![t] = file[t]]
             /\ index' = [index EXCEPT ![t] = file[t]]
             /\ committed' = committed \cup {run[d].request}
             /\ Goes(d, "committed", TRUE)
             /\ UNCHANGED spent
          \/ /\ (~changed /\ UNCHANGED spent) \/ Fail
             /\ Goes(d, "committed", FALSE)
             /\ UNCHANGED <<head, index, committed>>
    /\ UNCHANGED <<record, file, backups>>

(* A failed commit is not rolled back. *)
AfterCommit(d) ==
    /\ Reached(d, "committed")
    /\ backups' = IF run[d].ok THEN [backups EXCEPT ![Target(d)] = {}] ELSE backups
    /\ Ends(d)
    /\ UNCHANGED <<record, file, index, head, committed, spent>>

(* The Director dies: its calls are gone, the store and the tree stay. *)
Crash ==
    /\ spent.crashes < MaxCrashes
    /\ spent' = [spent EXCEPT !.crashes = @ + 1]
    /\ \E d \in Runs : run[d] # NoRun
    /\ run' = [d \in Runs |-> NoRun]
    /\ UNCHANGED <<record, tree, head, committed>>

RunStep(d) ==
    \/ WriteTool(d) \/ AfterWrite(d) \/ AddTool(d) \/ AfterAdd(d)
    \/ CommitTool(d) \/ AfterCommit(d)

Resume(r, id, eager) ==
    \/ \E g \in Gates : ResumeStops(r, g, id, eager)
    \/ \E d \in Runs : ResumeWrites(d, r, id, eager)

Next ==
    \/ \E r \in Requests, g \in Gates :
          \/ Approve(r, g) \/ Deny(r, g) \/ Cancel(r, g) \/ Lapse(r, g)
          \/ \E eager \in Rollbacks : Resume(r, g, eager)
    \/ CleanupExpired
    \/ \E r \in Requests : Start(r)
    \/ \E d \in Runs : RunStep(d)
    \/ Crash

Spec == Init /\ [][Next]_vars

(* The operator approves what is pending and resumes with the record that    *)
(* was approved last, as resume-pilot and run-pilot do, until the commit;    *)
(* a call that has begun goes on.                                            *)
Latest(r, id) ==
    /\ record[r][id] \in {"approved", "consumed"}
    /\ \A g \in Gates : id \in Before[g] => record[r][g] \notin {"approved", "consumed"}
FairSpec ==
    /\ Spec
    /\ \A r \in Requests, g \in Gates : WF_vars(Approve(r, g))
    /\ \A r \in Requests, id \in Gates :
          SF_vars(Latest(r, id) /\ \E eager \in Rollbacks : Resume(r, id, eager))
    /\ \A d \in Runs : WF_vars(RunStep(d))

-----------------------------------------------------------------------------
TypeOK ==
    /\ record \in [Requests -> [Gates -> Statuses]]
    /\ file \in [Targets -> Contents \cup {Absent}]
    /\ index \in [Targets -> Contents \cup {Absent}]
    /\ head \in [Targets -> Contents \cup {Absent}]
    /\ backups \in [Targets -> SUBSET Contents]
    /\ run \in [Runs -> Run \cup {NoRun}]
    /\ committed \in SUBSET Requests
    /\ spent \in [starts : Nat, lapses : Nat, failures : Nat, crashes : Nat]

(* An operator is asked for a gate only when those before it are consumed,   *)
(* and a request is committed only when all four are, whichever calls of     *)
(* resume overlap, are repeated or die on the way.                           *)
GatesInOrder ==
    \A r \in Requests :
        /\ \A g \in Gates : record[r][g] # "none" =>
              \A h \in Before[g] : record[r][h] = "consumed"
        /\ r \in committed => record[r]["commit"] = "consumed"

(* A proposed content reaches the file, the index, a commit or a backup only *)
(* once its request's content gate was approved, though runs of several      *)
(* requests write, restore and stage the same file.                          *)
ContentIsApproved ==
    \A t \in Targets :
        \A r \in ({file[t], index[t], head[t]} \cup backups[t]) \cap Requests :
            TargetOf[r] = t /\ record[r]["content"] = "consumed"

(* Why: a run is never ahead of its gates, and what it would restore was     *)
(* approved when it read it.                                                 *)
RunsApproved ==
    \A d \in Runs : run[d] # NoRun =>
        LET r == run[d].request
            o == run[d].original
        IN /\ record[r]["content"] = "consumed"
           /\ run[d].at \in {"add", "added", "commit", "committed"} =>
                 record[r]["stage"] = "consumed"
           /\ run[d].at \in {"commit", "committed"} => record[r]["commit"] = "consumed"
           /\ o \in Requests => TargetOf[o] = TargetOf[r] /\ record[o]["content"] = "consumed"
PilotInv == GatesInOrder /\ ContentIsApproved /\ RunsApproved

(* Decisions stand: a decided record is never decided again, only an         *)
(* approved one is consumed, and one that has expired is never approved.     *)
Life == {<<"none", "pending">>, <<"pending", "overdue">>, <<"pending", "approved">>,
         <<"approved", "consumed">>, <<"overdue", "expired">>}
          \cup ({"pending", "overdue"} \X {"denied", "cancelled"})
DecisionsStand ==
    [][\A r \in Requests, g \in Gates :
         record'[r][g] # record[r][g] => <<record[r][g], record'[r][g]>> \in Life]_vars

(* A pilot that has been asked for ends in a commit, through crashes, failing *)
(* tools and stale or repeated resumes, unless an operator turns a gate down. *)
ApprovedIsCommitted ==
    \A r \in Requests :
        record[r]["path"] # "none" ~>
            \/ r \in committed
            \/ \E g \in Gates : record[r][g] \in {"denied", "cancelled"}

(* Until a commit replaces it, what the file held before the pilot is still  *)
(* there: in the file, in a backup or in the last commit.                    *)
OriginalKept ==
    \A t \in Targets :
        \/ DraftOf[t] \in {file[t], head[t], Absent} \cup backups[t]
        \/ \E r \in committed : TargetOf[r] = t
=============================================================================
