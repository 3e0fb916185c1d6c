-------------------------- MODULE WritePilot_proofs --------------------------
(* Theorems about WritePilot, for every set of requests, files, overlapping   *)
(* calls and operators, and every number of crashes and failing tools.        *)
EXTENDS WritePilot, TLAPS

Held == Contents \cup {Absent}
TreeTyped ==
    /\ file \in [Targets -> Held]
    /\ index \in [Targets -> Held]
    /\ backups \in [Targets -> SUBSET Contents]
RecordsTyped == record \in [Requests -> [Gates -> Statuses]]
RunsTyped == run \in [Runs -> Run \cup {NoRun}]
SpentTyped == spent \in [starts : Nat, lapses : Nat, failures : Nat, crashes : Nat]

LEMMA AskedTyped ==
  ASSUME TypeOK, NEW r \in Requests, NEW g \in Gates
  PROVE  Asked(r, g) \in [Gates -> Statuses]
  BY DEF Asked, TypeOK, Statuses

LEMMA PassedTyped ==
  ASSUME TypeOK, NEW r \in Requests, NEW g \in Gates
  PROVE  Passed(r, g) \in [Gates -> Statuses]
  BY DEF Passed, TypeOK, Statuses

LEMMA NoRunIsNoRun == NoRun \notin Run
  BY DEF NoRun, Run

LEMMA RunFields ==
  ASSUME TypeOK, NEW d \in Runs, run[d] # NoRun
  PROVE  /\ run[d] \in Run
         /\ run[d].request \in Requests
         /\ run[d].id \in Gates
         /\ run[d].eager \in BOOLEAN
         /\ run[d].original \in Held
         /\ run[d].ok \in BOOLEAN
  BY DEF TypeOK, Run, Held

LEMMA RollbackTyped ==
  ASSUME TypeOK, NEW t \in Targets, NEW o \in Held, Rollback(t, o)
  PROVE  TreeTyped'
  BY DEF Rollback, TypeOK, TreeTyped, Held

LEMMA RollbackDeniedTyped ==
  ASSUME TypeOK, NEW t \in Targets, NEW eager \in BOOLEAN, RollbackDenied(t, eager)
  PROVE  TreeTyped'
  BY DEF RollbackDenied, TypeOK, TreeTyped, Held

LEMMA StopTyped ==
  ASSUME PilotOK, TypeOK, NEW r \in Requests, NEW g \in Gates, NEW eager \in BOOLEAN,
         NEW o \in Held, StopAt(r, g, eager, o)
  PROVE  RecordsTyped' /\ TreeTyped'
  <1>1. RecordsTyped'
    BY AskedTyped DEF StopAt, TypeOK, RecordsTyped
  <1>2. TargetOf[r] \in Targets
    BY DEF PilotOK
  <1>3. \/ RollbackDenied(TargetOf[r], eager)
        \/ Rollback(TargetOf[r], o)
        \/ UNCHANGED tree
    BY DEF StopAt
  <1> QED  BY <1>1, <1>2, <1>3, RollbackTyped, RollbackDeniedTyped
           DEF TypeOK, TreeTyped, Held, tree

LEMMA GoesTyped ==
  ASSUME TypeOK, NEW d \in Runs, run[d] # NoRun, NEW ok \in BOOLEAN,
         NEW p \in {"write", "wrote", "add", "added", "commit", "committed"},
         Goes(d, p, ok)
  PROVE  RunsTyped'
  <1>1. [run[d] EXCEPT !.at = p, !.ok = ok] \in Run
    BY RunFields DEF Run
  <1> QED  BY <1>1 DEF Goes, TypeOK, RunsTyped

LEMMA EndsTyped ==
  ASSUME TypeOK, NEW d \in Runs, Ends(d)
  PROVE  RunsTyped'
  BY DEF Ends, TypeOK, RunsTyped

LEMMA FailTyped ==
  ASSUME TypeOK, Fail \/ UNCHANGED spent
  PROVE  SpentTyped'
  BY DEF Fail, TypeOK, SpentTyped

LEMMA GateTyped ==
  ASSUME PilotOK, TypeOK, NEW d \in Runs, run[d] # NoRun, NEW g \in Gates,
         NEW p \in {"add", "commit"}, GateOpens(d, g, p)
  PROVE  RecordsTyped' /\ TreeTyped' /\ RunsTyped'
  <1>1. CASE Passes(run[d].request, g, run[d].id)
    <2>1. RecordsTyped'
      <3>1. Passed(run[d].request, g) \in [Gates -> Statuses]
        BY RunFields, PassedTyped
      <3> QED  BY <1>1, <3>1 DEF GateOpens, TypeOK, RecordsTyped
    <2>2. RunsTyped'
      BY <1>1, GoesTyped DEF GateOpens
    <2> QED  BY <1>1, <2>1, <2>2 DEF GateOpens, TypeOK, TreeTyped, Held, tree
  <1>2. CASE ~Passes(run[d].request, g, run[d].id)
    BY <1>2, RunFields, StopTyped, EndsTyped DEF GateOpens
  <1> QED  BY <1>1, <1>2

LEMMA InitTyped ==
  ASSUME PilotOK, Init
  PROVE  TypeOK
  <1>1. DraftOf \in [Targets -> Held]
    BY DEF PilotOK, Held
  <1>2. Contents \subseteq Held /\ Absent \in Held
    BY DEF Held
  <1> QED  BY <1>1, <1>2 DEF Init, TypeOK, Held, Statuses

LEMMA StepTyped ==
  ASSUME PilotOK, TypeOK, [Next]_vars
  PROVE  TypeOK'
  <1> USE DEF tree
  <1>1. ASSUME NEW r \in Requests, NEW g \in Gates,
               Approve(r, g) \/ Deny(r, g) \/ Cancel(r, g) \/ Lapse(r, g)
        PROVE  TypeOK'
    <2>1. ASSUME NEW from, NEW to \in Statuses, Decide(r, g, from, to) PROVE TypeOK'
      BY <2>1 DEF Decide, TypeOK
    <2>2. CASE Lapse(r, g)
      <3>1. SpentTyped'
        BY <2>2 DEF Lapse, TypeOK, SpentTyped
      <3> QED  BY <2>2, <3>1 DEF Lapse, TypeOK, SpentTyped, Statuses
    <2> QED  BY <1>1, <2>1, <2>2 DEF Approve, Deny, Cancel, Statuses
  <1>2. ASSUME CleanupExpired PROVE TypeOK'
    BY <1>2 DEF CleanupExpired, TypeOK, Statuses
  <1>3. ASSUME NEW r \in Requests, NEW id \in Gates, NEW eager \in Rollbacks,
               NEW g \in Gates, ResumeStops(r, g, id, eager)
        PROVE  TypeOK'
    <2>1. RecordsTyped' /\ TreeTyped'
      BY <1>3, StopTyped DEF ResumeStops, PilotOK, Held
    <2> QED  BY <1>3, <2>1 DEF ResumeStops, TypeOK, RecordsTyped, TreeTyped, Held
  <1>4. ASSUME NEW r \in Requests, NEW id \in Gates, NEW eager \in Rollbacks,
               NEW d \in Runs, ResumeWrites(d, r, id, eager)
        PROVE  TypeOK'
    <2>1. record' \in [Requests -> [Gates -> Statuses]]
      BY <1>4, PassedTyped DEF ResumeWrites, TypeOK, Gates
    <2>2. [at |-> "write", request |-> r, id |-> id, eager |-> eager,
           original |-> file[TargetOf[r]], ok |-> TRUE] \in Run
      BY DEF PilotOK, TypeOK, Run
    <2> QED  BY <1>4, <2>1, <2>2 DEF ResumeWrites, TypeOK
  <1>5. ASSUME NEW r \in Requests, Start(r) PROVE TypeOK'
    <2>1. RecordsTyped' /\ TreeTyped'
      BY <1>5, StopTyped DEF Start, Held, Gates
    <2>2. SpentTyped'
      BY <1>5 DEF Start, TypeOK, SpentTyped
    <2> QED  BY <1>5, <2>1, <2>2 DEF Start, TypeOK, RecordsTyped, TreeTyped, SpentTyped, Held
  <1>6. ASSUME NEW d \in Runs, RunStep(d) PROVE TypeOK'
    <2> DEFINE t == Target(d)
    <2>1. \A p : Reached(d, p) =>
             /\ run[d] # NoRun /\ run[d].request \in Requests
             /\ t \in Targets /\ run[d].original \in Held
      BY RunFields DEF Reached, Target, PilotOK
    <2>2. CASE WriteTool(d)
      <3>1. RunsTyped'
        BY <2>1, <2>2, GoesTyped DEF WriteTool
      <3>2. SpentTyped'
        BY <2>2, FailTyped DEF WriteTool
      <3>3. run[d].request \in Contents
        BY <2>1, <2>2, RunFields DEF WriteTool, Contents, PilotOK
      <3>4. TreeTyped'
        <4> DEFINE kept == IF file[t] = Absent \/ run[d].original = Absent
                           THEN backups ELSE [backups EXCEPT ![t] = @ \cup {file[t]}]
        <4>1. kept \in [Targets -> SUBSET Contents]
          BY <2>1, <2>2 DEF WriteTool, TypeOK
        <4>2. backups' \in {backups, kept}
          BY <2>2 DEF WriteTool
        <4>3. file' \in [Targets -> Held]
          BY <2>1, <2>2, <3>3 DEF WriteTool, TypeOK, Held
        <4> QED  BY <2>2, <4>1, <4>2, <4>3 DEF WriteTool, TypeOK, TreeTyped, Held
      <3> QED  BY <2>2, <3>1, <3>2, <3>4
               DEF WriteTool, TypeOK, RunsTyped, SpentTyped, TreeTyped, Held
    <2>3. CASE AfterWrite(d)
      <3>1. SpentTyped'
        BY <2>3, FailTyped DEF AfterWrite
      <3>2. RecordsTyped' /\ TreeTyped' /\ RunsTyped'
        <4>1. CASE Ends(d) /\ UNCHANGED <<record, tree>>
          BY <4>1, EndsTyped DEF TypeOK, RecordsTyped, TreeTyped, Held
        <4>2. CASE Rollback(t, run[d].original) /\ Ends(d) /\ UNCHANGED record
          BY <2>1, <2>3, <4>2, EndsTyped, RollbackTyped DEF AfterWrite, TypeOK, RecordsTyped
        <4>3. CASE GateOpens(d, "stage", "add")
          BY <2>1, <2>3, <4>3, GateTyped DEF AfterWrite, Gates
        <4> QED  BY <2>3, <4>1, <4>2, <4>3 DEF AfterWrite
      <3> QED  BY <2>3, <3>1, <3>2
               DEF AfterWrite, TypeOK, RecordsTyped, RunsTyped, SpentTyped, TreeTyped, Held
    <2>4. CASE AddTool(d)
      <3>1. RunsTyped'
        BY <2>1, <2>4, GoesTyped DEF AddTool
      <3>2. SpentTyped'
        BY <2>4, FailTyped DEF AddTool
      <3>3. TreeTyped'
        BY <2>1, <2>4 DEF AddTool, TypeOK, TreeTyped, Held
      <3> QED  BY <2>4, <3>1, <3>2, <3>3
               DEF AddTool, TypeOK, RunsTyped, SpentTyped, TreeTyped, Held
    <2>5. CASE AfterAdd(d)
      <3>1. RecordsTyped' /\ TreeTyped' /\ RunsTyped'
        <4>1. CASE Rollback(t, run[d].original) /\ Ends(d) /\ UNCHANGED record
          BY <2>1, <2>5, <4>1, EndsTyped, RollbackTyped DEF AfterAdd, TypeOK, RecordsTyped
        <4>2. CASE GateOpens(d, "commit", "commit")
          BY <2>1, <2>5, <4>2, GateTyped DEF AfterAdd, Gates
        <4> QED  BY <2>5, <4>1, <4>2 DEF AfterAdd
      <3> QED  BY <2>5, <3>1 DEF AfterAdd, TypeOK, RecordsTyped, RunsTyped, TreeTyped, Held
    <2>6. CASE CommitTool(d)
      <3>1. RunsTyped'
        BY <2>1, <2>6, GoesTyped DEF CommitTool
      <3>2. SpentTyped'
        BY <2>6, FailTyped DEF CommitTool
      <3>3. TreeTyped' /\ head' \in [Targets -> Held]
        <4>1. file \in [Targets -> Held] /\ index \in [Targets -> Held]
              /\ head \in [Targets -> Held]
          BY DEF TypeOK, TreeTyped, Held
        <4>2. \/ /\ head' = [head EXCEPT ![t] = file[t]]
                 /\ index' = [index EXCEPT ![t] = file[t]]
              \/ head' = head /\ index' = index
          BY <2>1, <2>6 DEF CommitTool
        <4>3. head' \in [Targets -> Held] /\ index' \in [Targets -> Held]
          BY <2>1, <4>1, <4>2
        <4>4. file' = file /\ backups' = backups
          BY <2>6 DEF CommitTool
        <4> QED  BY <4>1, <4>3, <4>4 DEF TypeOK, TreeTyped
      <3>4. committed' \in SUBSET Requests
        <4>1. run[d].request \in Requests
          BY <2>1, <2>6 DEF CommitTool
        <4>2. \/ committed' = committed \cup {run[d].request}
              \/ UNCHANGED committed
          BY <2>6 DEF CommitTool
        <4> QED  BY <4>1, <4>2 DEF TypeOK
      <3> QED  BY <2>6, <3>1, <3>2, <3>3, <3>4
               DEF CommitTool, TypeOK, RunsTyped, SpentTyped, TreeTyped, Held
    <2>7. CASE AfterCommit(d)
      BY <2>7, EndsTyped DEF AfterCommit, TypeOK, RunsTyped
    <2> QED  BY <1>6, <2>2, <2>3, <2>4, <2>5, <2>6, <2>7 DEF RunStep
  <1>7. ASSUME Crash PROVE TypeOK'
    BY <1>7 DEF Crash, TypeOK
  <1>8. ASSUME UNCHANGED vars PROVE TypeOK'
    BY <1>8 DEF vars, TypeOK
  <1> QED  BY <1>1, <1>2, <1>3, <1>4, <1>5, <1>6, <1>7, <1>8 DEF Next, Resume

(* Every reachable state is well typed: whatever the calls do to the records, *)
(* the files, git's index and the runs stays within what the store, the tree  *)
(* and a run can hold.                                                        *)
THEOREM PilotTypeCorrect == Spec => []TypeOK
  BY PilotOK, InitTyped, StepTyped, PTL DEF Spec

-----------------------------------------------------------------------------
(* How a step moves the records. *)

Moved ==
    \A r \in Requests, g \in Gates :
        record'[r][g] # record[r][g] => <<record[r][g], record'[r][g]>> \in Life

LEMMA AskedMoves ==
  ASSUME TypeOK, NEW r \in Requests, NEW g \in Gates,
         \A h \in Before[g] : record[r][h] \in {"consumed", "approved"},
         record' = [record EXCEPT ![r] = Asked(r, g)]
  PROVE  Moved
  BY DEF Moved, Asked, Life, TypeOK

LEMMA PassedMoves ==
  ASSUME TypeOK, NEW r \in Requests, NEW g \in Gates,
         \A h \in Before[g] \cup {g} : record[r][h] \in {"consumed", "approved"},
         record' = [record EXCEPT ![r] = Passed(r, g)]
  PROVE  Moved
  BY DEF Moved, Passed, Life, TypeOK

LEMMA GateMoves ==
  ASSUME PilotOK, TypeOK, NEW d \in Runs, run[d] # NoRun, NEW g \in Gates, NEW p,
         \A h \in Before[g] : record[run[d].request][h] = "consumed",
         GateOpens(d, g, p)
  PROVE  Moved
  <1> DEFINE r == run[d].request
  <1>1. r \in Requests
    BY RunFields
  <1>2. CASE Passes(r, g, run[d].id)
    <2>1. record' = [record EXCEPT ![r] = Passed(r, g)]
      BY <1>2 DEF GateOpens
    <2>2. \A h \in Before[g] \cup {g} : record[r][h] \in {"consumed", "approved"}
      BY <1>2 DEF Passes
    <2> QED  BY <1>1, <2>1, <2>2, PassedMoves
  <1>3. CASE ~Passes(r, g, run[d].id)
    <2>1. record' = [record EXCEPT ![r] = Asked(r, g)]
      BY <1>3 DEF GateOpens, StopAt
    <2> QED  BY <1>1, <2>1, AskedMoves
  <1> QED  BY <1>2, <1>3

LEMMA RunsGates ==
  ASSUME TypeOK, PilotInv, NEW d \in Runs, run[d] # NoRun
  PROVE  /\ \A h \in Before["stage"] : record[run[d].request][h] = "consumed"
         /\ run[d].at \in {"add", "added", "commit", "committed"} =>
               \A h \in Before["commit"] : record[run[d].request][h] = "consumed"
  <1>1. run[d].request \in Requests
    BY RunFields
  <1>2. record[run[d].request]["content"] = "consumed"
    BY DEF PilotInv, RunsApproved
  <1>3. record[run[d].request]["path"] = "consumed"
    BY <1>1, <1>2 DEF PilotInv, GatesInOrder, Gates, Before
  <1> QED  BY <1>2, <1>3 DEF PilotInv, RunsApproved, Before

LEMMA StepMoves ==
  ASSUME PilotOK, TypeOK, PilotInv, [Next]_vars
  PROVE  Moved
  <1>0. ASSUME UNCHANGED record PROVE Moved
    BY <1>0 DEF Moved
  <1>1. ASSUME NEW r \in Requests, NEW g \in Gates,
               Approve(r, g) \/ Deny(r, g) \/ Cancel(r, g) \/ Lapse(r, g)
        PROVE  Moved
    BY <1>1 DEF Approve, Deny, Cancel, Lapse, Decide, TypeOK, Moved, Life
  <1>2. ASSUME CleanupExpired PROVE Moved
    BY <1>2 DEF CleanupExpired, TypeOK, Moved, Life
  <1>3. ASSUME NEW r \in Requests, NEW id \in Gates, NEW eager \in Rollbacks,
               NEW g \in Gates, ResumeStops(r, g, id, eager)
        PROVE  Moved
    <2>1. \A h \in Before[g] : record[r][h] \in {"consumed", "approved"}
      BY <1>3 DEF ResumeStops, Passes
    <2> QED  BY <1>3, <2>1, AskedMoves DEF ResumeStops, StopAt
  <1>4. ASSUME NEW r \in Requests, NEW id \in Gates, NEW eager \in Rollbacks,
               NEW d \in Runs, ResumeWrites(d, r, id, eager)
        PROVE  Moved
    <2>1. "content" \in Gates /\ Before["content"] = {"path"}
      BY DEF Gates, Before
    <2>2. \A h \in Before["content"] \cup {"content"} :
             record[r][h] \in {"consumed", "approved"}
      BY <1>4, <2>1 DEF ResumeWrites, Passes
    <2> QED  BY <1>4, <2>1, <2>2, PassedMoves DEF ResumeWrites
  <1>5. ASSUME NEW r \in Requests, Start(r) PROVE Moved
    <2>1. "path" \in Gates /\ Before["path"] = {}
      BY DEF Gates, Before
    <2> QED  BY <1>5, <2>1, AskedMoves DEF Start, StopAt
  <1>6. ASSUME NEW d \in Runs, RunStep(d) PROVE Moved
    <2>1. CASE WriteTool(d) \/ AddTool(d) \/ CommitTool(d) \/ AfterCommit(d)
      BY <2>1, <1>0 DEF WriteTool, AddTool, CommitTool, AfterCommit
    <2>2. CASE AfterWrite(d)
      <3>1. UNCHANGED record \/ GateOpens(d, "stage", "add")
        BY <2>2 DEF AfterWrite
      <3> QED  BY <2>2, <3>1, <1>0, RunsGates, GateMoves DEF AfterWrite, Reached, Gates
    <2>3. CASE AfterAdd(d)
      <3>1. UNCHANGED record \/ GateOpens(d, "commit", "commit")
        BY <2>3 DEF AfterAdd
      <3> QED  BY <2>3, <3>1, <1>0, RunsGates, GateMoves DEF AfterAdd, Reached, Gates
    <2> QED  BY <1>6, <2>1, <2>2, <2>3 DEF RunStep
  <1>7. CASE Crash \/ UNCHANGED vars
    BY <1>7, <1>0 DEF Crash, vars
  <1> QED  BY <1>1, <1>2, <1>3, <1>4, <1>5, <1>6, <1>7 DEF Next, Resume

LEMMA ConsumedStays ==
  ASSUME Moved, NEW r \in Requests, NEW g \in Gates, record[r][g] = "consumed"
  PROVE  record'[r][g] = "consumed"
  BY DEF Moved, Life

(* What a step does to a record is a step of its life. *)
LEMMA StepDecides ==
  ASSUME PilotOK, TypeOK, PilotInv, [Next]_vars
  PROVE  [\A r \in Requests, g \in Gates :
            record'[r][g] # record[r][g] => <<record[r][g], record'[r][g]>> \in Life]_vars
  BY StepMoves DEF Moved

-----------------------------------------------------------------------------
(* A step keeps the records in the order of the gates. *)

Ordered(s) ==
    \A g \in Gates : s[g] # "none" => \A h \in Before[g] : s[h] = "consumed"

LEMMA BeforeBefore ==
  ASSUME NEW g \in Gates, NEW h \in Before[g]
  PROVE  h \in Gates /\ Before[h] \subseteq Before[g] /\ g \notin Before[h]
  BY DEF Gates, Before

LEMMA AskedOrdered ==
  ASSUME NEW r \in Requests, NEW g \in Gates, Ordered(record[r])
  PROVE  Ordered(Asked(r, g))
  <1> SUFFICES ASSUME NEW k \in Gates, Asked(r, g)[k] # "none", NEW h \in Before[k]
               PROVE  Asked(r, g)[h] = "consumed"
    BY DEF Ordered
  <1> USE BeforeBefore
  <1>1. CASE k \in Before[g] \cup {g}
    BY <1>1 DEF Asked
  <1>2. CASE k \notin Before[g] \cup {g}
    <2>1. record[r][h] = "consumed"
      BY <1>2 DEF Asked, Ordered
    <2> QED  BY <2>1 DEF Asked
  <1> QED  BY <1>1, <1>2

LEMMA PassedOrdered ==
  ASSUME NEW r \in Requests, NEW g \in Gates, Ordered(record[r])
  PROVE  Ordered(Passed(r, g))
  <1> SUFFICES ASSUME NEW k \in Gates, Passed(r, g)[k] # "none", NEW h \in Before[k]
               PROVE  Passed(r, g)[h] = "consumed"
    BY DEF Ordered
  <1> USE BeforeBefore
  <1>1. CASE k \in Before[g] \cup {g}
    BY <1>1 DEF Passed
  <1>2. CASE k \notin Before[g] \cup {g}
    <2>1. record[r][h] = "consumed"
      BY <1>2 DEF Passed, Ordered
    <2> QED  BY <2>1 DEF Passed
  <1> QED  BY <1>1, <1>2

AllOrdered == \A r \in Requests : Ordered(record[r])

LEMMA GateOrdered ==
  ASSUME TypeOK, AllOrdered, NEW r \in Requests, NEW g \in Gates,
         \/ record' = [record EXCEPT ![r] = Asked(r, g)]
         \/ record' = [record EXCEPT ![r] = Passed(r, g)]
  PROVE  AllOrdered'
  BY AskedOrdered, PassedOrdered DEF AllOrdered, TypeOK

LEMMA DecideOrdered ==
  ASSUME TypeOK, AllOrdered, Moved,
         \A r \in Requests, g \in Gates : record[r][g] = "none" => record'[r][g] = "none"
  PROVE  AllOrdered'
  BY ConsumedStays, BeforeBefore DEF AllOrdered, Ordered

LEMMA StepOrdered ==
  ASSUME PilotOK, TypeOK, PilotInv, [Next]_vars
  PROVE  AllOrdered'
  <1>a. Moved
    BY StepMoves
  <1>b. AllOrdered
    BY DEF PilotInv, GatesInOrder, AllOrdered, Ordered
  <1>0. ASSUME UNCHANGED record PROVE AllOrdered'
    BY <1>0, <1>b DEF AllOrdered, Ordered
  <1>1. ASSUME NEW r \in Requests, NEW g \in Gates,
               Approve(r, g) \/ Deny(r, g) \/ Cancel(r, g) \/ Lapse(r, g)
        PROVE  AllOrdered'
    <2>1. \A q \in Requests, k \in Gates : record[q][k] = "none" => record'[q][k] = "none"
      BY <1>1 DEF Approve, Deny, Cancel, Lapse, Decide, TypeOK
    <2> QED  BY <2>1, <1>a, <1>b, DecideOrdered
  <1>2. ASSUME CleanupExpired PROVE AllOrdered'
    <2>1. \A q \in Requests, k \in Gates : record[q][k] = "none" => record'[q][k] = "none"
      BY <1>2 DEF CleanupExpired, TypeOK
    <2> QED  BY <2>1, <1>a, <1>b, DecideOrdered
  <1>3. ASSUME NEW r \in Requests, NEW id \in Gates, NEW eager \in Rollbacks,
               Resume(r, id, eager)
        PROVE  AllOrdered'
    BY <1>3, <1>b, GateOrdered DEF Resume, ResumeStops, ResumeWrites, StopAt, Gates
  <1>4. ASSUME NEW r \in Requests, Start(r) PROVE AllOrdered'
    BY <1>4, <1>b, GateOrdered DEF Start, StopAt, Gates
  <1>5. ASSUME NEW d \in Runs, RunStep(d) PROVE AllOrdered'
    <2>1. CASE UNCHANGED record
      BY <2>1, <1>0
    <2>2. CASE \E g \in Gates : \E p : GateOpens(d, g, p) /\ run[d] # NoRun
      BY <2>2, <1>b, RunFields, GateOrdered DEF GateOpens, StopAt
    <2> QED  BY <1>5, <2>1, <2>2
             DEF RunStep, WriteTool, AfterWrite, AddTool, AfterAdd, CommitTool,
                 AfterCommit, Reached, Gates
  <1>6. CASE Crash \/ UNCHANGED vars
    BY <1>6, <1>0 DEF Crash, vars
  <1> QED  BY <1>1, <1>2, <1>3, <1>4, <1>5, <1>6 DEF Next

-----------------------------------------------------------------------------
(* Where a step takes the contents of a target from. *)

Contained(t) == {file[t], index[t], head[t]} \cup backups[t]
At(t) == {d \in Runs : run[d] # NoRun /\ Target(d) = t}
Sources(t) ==
    Contained(t) \cup {Absent}
      \cup {run[d].request : d \in At(t)} \cup {run[d].original : d \in At(t)}

LEMMA RollbackContains ==
  ASSUME TypeOK, NEW t \in Targets, NEW o, Rollback(t, o), head' = head,
         NEW u \in Targets
  PROVE  Contained(u)' \subseteq Contained(u) \cup (IF u = t THEN {o} ELSE {})
  BY DEF Rollback, Contained, TypeOK

LEMMA RollbackDeniedContains ==
  ASSUME TypeOK, NEW t \in Targets, NEW eager, RollbackDenied(t, eager), head' = head,
         NEW u \in Targets
  PROVE  Contained(u)' \subseteq Contained(u) \cup {Absent}
  BY DEF RollbackDenied, Contained, TypeOK

LEMMA StopContains ==
  ASSUME PilotOK, TypeOK, NEW r \in Requests, NEW g, NEW eager, NEW o,
         StopAt(r, g, eager, o), head' = head, NEW u \in Targets
  PROVE  Contained(u)' \subseteq
            Contained(u) \cup {Absent} \cup (IF u = TargetOf[r] THEN {o} ELSE {})
  <1>1. TargetOf[r] \in Targets
    BY DEF PilotOK
  <1>2. \/ RollbackDenied(TargetOf[r], eager)
        \/ Rollback(TargetOf[r], o)
        \/ UNCHANGED tree
    BY DEF StopAt
  <1>3. CASE UNCHANGED tree
    BY <1>3 DEF tree, Contained
  <1> QED  BY <1>1, <1>2, <1>3, RollbackContains, RollbackDeniedContains

LEMMA StepContains ==
  ASSUME PilotOK, TypeOK, [Next]_vars, NEW u \in Targets
  PROVE  Contained(u)' \subseteq Sources(u)
  <1>0. ASSUME UNCHANGED tree, UNCHANGED head PROVE Contained(u)' \subseteq Sources(u)
    BY <1>0 DEF tree, Contained, Sources
  <1>1. ASSUME NEW r \in Requests, NEW g \in Gates,
               Approve(r, g) \/ Deny(r, g) \/ Cancel(r, g) \/ Lapse(r, g)
        PROVE  Contained(u)' \subseteq Sources(u)
    BY <1>1, <1>0 DEF Approve, Deny, Cancel, Lapse, Decide
  <1>2. ASSUME NEW r \in Requests, NEW id \in Gates, NEW eager \in Rollbacks,
               NEW g \in Gates, ResumeStops(r, g, id, eager)
        PROVE  Contained(u)' \subseteq Sources(u)
    BY <1>2, StopContains DEF ResumeStops, Sources
  <1>3. ASSUME NEW r \in Requests, NEW id \in Gates, NEW eager \in Rollbacks,
               NEW d \in Runs, ResumeWrites(d, r, id, eager)
        PROVE  Contained(u)' \subseteq Sources(u)
    BY <1>3, <1>0 DEF ResumeWrites
  <1>4. ASSUME NEW r \in Requests, Start(r) PROVE Contained(u)' \subseteq Sources(u)
    BY <1>4, StopContains DEF Start, Sources
  <1>5. ASSUME NEW d \in Runs, RunStep(d) PROVE Contained(u)' \subseteq Sources(u)
    <2> DEFINE t == Target(d)
    <2>1. \A p : Reached(d, p) =>
             run[d] # NoRun /\ run[d].request \in Requests /\ t \in Targets
      BY RunFields DEF Reached, Target, PilotOK
    <2>2. ASSUME run[d] # NoRun
          PROVE  u = t => {run[d].request, run[d].original} \subseteq Sources(u)
      BY <2>2 DEF Sources, At
    <2>3. ASSUME run[d] # NoRun, t \in Targets, Rollback(t, run[d].original), UNCHANGED head
          PROVE  Contained(u)' \subseteq Sources(u)
      BY <2>2, <2>3, RollbackContains DEF Sources
    <2>4. ASSUME NEW g, NEW p, run[d] # NoRun, run[d].request \in Requests, t \in Targets,
                 GateOpens(d, g, p), UNCHANGED head
          PROVE  Contained(u)' \subseteq Sources(u)
      <3>1. CASE UNCHANGED tree
        BY <3>1, <2>4, <1>0
      <3>2. CASE StopAt(run[d].request, g, run[d].eager, run[d].original)
        BY <3>2, <2>2, <2>4, StopContains DEF Sources, Target
      <3> QED  BY <2>4, <3>1, <3>2 DEF GateOpens
    <2>5. CASE WriteTool(d)
      <3>1. backups'[u] \subseteq backups[u] \cup {file[u]}
        <4>1. \/ backups' = backups
              \/ backups' = [backups EXCEPT ![t] = @ \cup {file[t]}]
          BY <2>5 DEF WriteTool
        <4> QED  BY <2>1, <2>5, <4>1 DEF WriteTool, TypeOK
      <3>2. file'[u] = file[u] \/ (u = t /\ file'[u] = run[d].request)
        BY <2>1, <2>5 DEF WriteTool, TypeOK
      <3> QED  BY <2>1, <2>2, <2>5, <3>1, <3>2 DEF WriteTool, Contained, Sources
    <2>6. CASE AfterWrite(d)
      <3>1. \/ UNCHANGED tree
            \/ Rollback(t, run[d].original)
            \/ GateOpens(d, "stage", "add")
        BY <2>6 DEF AfterWrite
      <3> QED  BY <2>1, <2>3, <2>4, <2>6, <3>1, <1>0 DEF AfterWrite
    <2>7. CASE AddTool(d)
      <3>1. index'[u] \in {index[u], file[u]}
        BY <2>1, <2>7 DEF AddTool, TypeOK
      <3> QED  BY <2>7, <3>1 DEF AddTool, Contained, Sources
    <2>8. CASE AfterAdd(d)
      <3>1. \/ Rollback(t, run[d].original)
            \/ GateOpens(d, "commit", "commit")
        BY <2>8 DEF AfterAdd
      <3> QED  BY <2>1, <2>3, <2>4, <2>8, <3>1 DEF AfterAdd
    <2>9. CASE CommitTool(d)
      <3>1. {index'[u], head'[u]} \subseteq {index[u], head[u], file[u]}
        BY <2>1, <2>9 DEF CommitTool, TypeOK
      <3> QED  BY <2>9, <3>1 DEF CommitTool, Contained, Sources
    <2>10. CASE AfterCommit(d)
      <3>1. backups'[u] \subseteq backups[u]
        BY <2>1, <2>10 DEF AfterCommit, TypeOK
      <3> QED  BY <2>10, <3>1 DEF AfterCommit, Contained, Sources
    <2> QED  BY <1>5, <2>5, <2>6, <2>7, <2>8, <2>9, <2>10 DEF RunStep
  <1>6. CASE CleanupExpired \/ Crash \/ UNCHANGED vars
    BY <1>6, <1>0 DEF CleanupExpired, Crash, vars, tree
  <1> QED  BY <1>1, <1>2, <1>3, <1>4, <1>5, <1>6 DEF Next, Resume

LEMMA SourcesApproved ==
  ASSUME PilotOK, PilotInv, NEW t \in Targets, NEW r \in Sources(t), r \in Requests
  PROVE  TargetOf[r] = t /\ record[r]["content"] = "consumed"
  <1>1. CASE r \in Contained(t)
    BY <1>1 DEF Contained, PilotInv, ContentIsApproved
  <1>2. ASSUME NEW d \in At(t), r \in {run[d].request, run[d].original}
        PROVE  TargetOf[r] = t /\ record[r]["content"] = "consumed"
    BY <1>2 DEF At, Target, PilotInv, RunsApproved
  <1> QED  BY <1>1, <1>2 DEF Sources, PilotOK

LEMMA StepApproved ==
  ASSUME PilotOK, TypeOK, PilotInv, [Next]_vars
  PROVE  ContentIsApproved'
  <1> SUFFICES ASSUME NEW t \in Targets, NEW r \in Contained(t)', r \in Requests
               PROVE  TargetOf[r] = t /\ record'[r]["content"] = "consumed"
    BY DEF ContentIsApproved, Contained
  <1>1. r \in Sources(t)
    BY StepContains
  <1>2. TargetOf[r] = t /\ record[r]["content"] = "consumed"
    BY <1>1, SourcesApproved
  <1> QED  BY <1>2, StepMoves, ConsumedStays DEF Gates

-----------------------------------------------------------------------------
(* A step keeps the runs behind their gates. *)

LEMMA StepRuns ==
  ASSUME PilotOK, TypeOK, PilotInv, [Next]_vars
  PROVE  RunsApproved'
  <1>a. \A r \in Requests, g \in Gates : record[r][g] = "consumed" => record'[r][g] = "consumed"
    BY StepMoves, ConsumedStays
  <1> DEFINE Good(d) ==
        run[d] # NoRun =>
          LET r == run[d].request
              o == run[d].original
          IN /\ record[r]["content"] = "consumed"
             /\ run[d].at \in {"add", "added", "commit", "committed"} =>
                   record[r]["stage"] = "consumed"
             /\ run[d].at \in {"commit", "committed"} => record[r]["commit"] = "consumed"
             /\ o \in Requests => TargetOf[o] = TargetOf[r] /\ record[o]["content"] = "consumed"
  <1>b. \A d \in Runs : Good(d)
    BY DEF PilotInv, RunsApproved
  <1>0. ASSUME NEW d \in Runs, run'[d] \in {run[d], NoRun} PROVE Good(d)'
    BY <1>0, <1>a, <1>b, RunFields DEF Gates
  <1>1. ASSUME NEW r \in Requests, NEW id \in Gates, NEW eager \in Rollbacks,
               NEW e \in Runs, ResumeWrites(e, r, id, eager), NEW d \in Runs
        PROVE  Good(d)'
    <2>1. CASE d # e
      BY <1>0, <1>1, <2>1 DEF ResumeWrites, TypeOK
    <2>2. CASE d = e
      <3>1. /\ run'[d].at = "write" /\ run'[d].request = r
            /\ run'[d].original = file[TargetOf[r]]
        BY <1>1, <2>2 DEF ResumeWrites, TypeOK
      <3>2. record'[r]["content"] = "consumed"
        BY <1>1 DEF ResumeWrites, TypeOK, Passed, Gates
      <3>3. file[TargetOf[r]] \in Requests =>
               /\ TargetOf[file[TargetOf[r]]] = TargetOf[r]
               /\ record[file[TargetOf[r]]]["content"] = "consumed"
        BY DEF PilotInv, ContentIsApproved, PilotOK
      <3> QED  BY <3>1, <3>2, <3>3, <1>a DEF Gates
    <2> QED  BY <2>1, <2>2
  <1>2. ASSUME NEW e \in Runs, RunStep(e), NEW d \in Runs PROVE Good(d)'
    <2>1. CASE d # e
      <3>1. run'[d] = run[d]
        BY <1>2, <2>1
           DEF RunStep, WriteTool, AfterWrite, AddTool, AfterAdd, CommitTool, AfterCommit,
               GateOpens, Goes, Ends, TypeOK
      <3> QED  BY <3>1, <1>0
    <2>2. CASE d = e
      <3>0. run[d] # NoRun
        BY <1>2, <2>2
           DEF RunStep, WriteTool, AfterWrite, AddTool, AfterAdd, CommitTool, AfterCommit, Reached
      <3>1. ASSUME NEW p, NEW ok, Goes(d, p, ok),
                   \/ p = "wrote"
                   \/ p = "added" /\ run[d].at = "add"
                   \/ p = "committed" /\ run[d].at = "commit"
                   \/ p = "add" /\ record'[run[d].request]["stage"] = "consumed"
                   \/ /\ p = "commit" /\ run[d].at = "added"
                      /\ record'[run[d].request]["commit"] = "consumed"
            PROVE  Good(d)'
        <4>1. /\ run'[d].at = p /\ run'[d].request = run[d].request
              /\ run'[d].original = run[d].original
          BY <3>0, <3>1, RunFields DEF Goes, TypeOK, Run
        <4> QED  BY <3>0, <3>1, <4>1, <1>a, <1>b, RunFields DEF Gates
      <3>2. ASSUME Ends(d) PROVE Good(d)'
        BY <3>2, <1>0 DEF Ends, TypeOK
      <3>3. ASSUME NEW g \in Gates, NEW p, GateOpens(d, g, p)
            PROVE  \/ Ends(d)
                   \/ Goes(d, p, TRUE) /\ record'[run[d].request][g] = "consumed"
        <4>1. CASE Passes(run[d].request, g, run[d].id)
          <5>1. record'[run[d].request] = Passed(run[d].request, g)
            BY <3>0, <3>3, <4>1, RunFields DEF GateOpens, TypeOK
          <5> QED  BY <3>3, <4>1, <5>1 DEF GateOpens, Passed
        <4>2. CASE ~Passes(run[d].request, g, run[d].id)
          BY <3>3, <4>2 DEF GateOpens
        <4> QED  BY <4>1, <4>2
      <3>4. CASE WriteTool(d)
        BY <3>1, <3>4 DEF WriteTool
      <3>5. CASE AfterWrite(d)
        BY <3>1, <3>2, <3>3, <3>5 DEF AfterWrite, Gates
      <3>6. CASE AddTool(d)
        BY <3>1, <3>6 DEF AddTool, Reached
      <3>7. CASE AfterAdd(d)
        BY <3>1, <3>2, <3>3, <3>7 DEF AfterAdd, Reached, Gates
      <3>8. CASE CommitTool(d)
        BY <3>1, <3>8 DEF CommitTool, Reached
      <3>9. CASE AfterCommit(d)
        BY <3>2, <3>9 DEF AfterCommit
      <3> QED  BY <1>2, <2>2, <3>4, <3>5, <3>6, <3>7, <3>8, <3>9 DEF RunStep
    <2> QED  BY <2>1, <2>2
  <1>3. ASSUME UNCHANGED run \/ Crash, NEW d \in Runs PROVE Good(d)'
    BY <1>3, <1>0 DEF Crash, TypeOK
  <1>4. \/ UNCHANGED run \/ Crash
        \/ \E r \in Requests, id \in Gates, eager \in Rollbacks, e \in Runs :
              ResumeWrites(e, r, id, eager)
        \/ \E e \in Runs : RunStep(e)
    BY DEF Next, Resume, Approve, Deny, Cancel, Lapse, Decide, CleanupExpired,
           ResumeStops, Start, vars
  <1> QED  BY <1>1, <1>2, <1>3, <1>4 DEF RunsApproved

LEMMA StepCommitted ==
  ASSUME PilotOK, TypeOK, PilotInv, [Next]_vars, NEW r \in Requests, r \in committed'
  PROVE  record'[r]["commit"] = "consumed"
  <1>1. CASE r \in committed
    BY <1>1, StepMoves, ConsumedStays DEF PilotInv, GatesInOrder, Gates
  <1>2. CASE r \notin committed
    <2>1. PICK d \in Runs : CommitTool(d) /\ r = run[d].request
      <3>1. committed' # committed
        BY <1>2
      <3>2. ASSUME NEW d \in Runs, RunStep(d) PROVE CommitTool(d)
        BY <3>1, <3>2 DEF RunStep, WriteTool, AfterWrite, AddTool, AfterAdd, AfterCommit
      <3>3. PICK d \in Runs : RunStep(d)
        <4>1. ASSUME NEW q \in Requests, NEW g \in Gates,
                     Approve(q, g) \/ Deny(q, g) \/ Cancel(q, g) \/ Lapse(q, g)
              PROVE  committed' = committed
          BY <4>1 DEF Approve, Deny, Cancel, Lapse, Decide
        <4>2. ASSUME NEW q \in Requests, NEW g \in Gates, NEW eager \in Rollbacks,
                     Resume(q, g, eager)
              PROVE  committed' = committed
          BY <4>2 DEF Resume, ResumeStops, ResumeWrites
        <4>3. ASSUME CleanupExpired \/ Crash \/ \E q \in Requests : Start(q)
              PROVE  committed' = committed
          BY <4>3 DEF CleanupExpired, Crash, Start
        <4> QED  BY <3>1, <4>1, <4>2, <4>3 DEF Next, vars
      <3> QED  BY <1>2, <3>2, <3>3 DEF CommitTool
    <2>2. record[r]["commit"] = "consumed"
      BY <2>1 DEF CommitTool, Reached, PilotInv, RunsApproved
    <2> QED  BY <2>2, StepMoves, ConsumedStays DEF Gates
  <1> QED  BY <1>1, <1>2

-----------------------------------------------------------------------------
LEMMA InitPilot ==
  ASSUME PilotOK, Init
  PROVE  PilotInv
  <1>1. \A t \in Targets : {file[t], index[t], head[t]} \cup backups[t] \subseteq {DraftOf[t], Absent}
    BY DEF Init
  <1>2. ContentIsApproved
    BY <1>1 DEF ContentIsApproved, PilotOK
  <1>3. GatesInOrder /\ RunsApproved
    BY DEF Init, GatesInOrder, RunsApproved
  <1> QED  BY <1>2, <1>3 DEF PilotInv

LEMMA StepPilot ==
  ASSUME PilotOK, TypeOK, PilotInv, [Next]_vars
  PROVE  PilotInv'
  <1>1. GatesInOrder'
    BY StepOrdered, StepCommitted DEF GatesInOrder, AllOrdered, Ordered
  <1> QED  BY <1>1, StepApproved, StepRuns DEF PilotInv

(* The gates hold: for any number of requests, targets and overlapping calls, *)
(* with decisions, lapses, failing tools and crashes anywhere between them,   *)
(* no gate is asked for before those ahead of it are consumed, no request is  *)
(* committed without all four, and no content that was not approved reaches a *)
(* file, the index, a commit or a backup.                                     *)
THEOREM GatesHold == Spec => []PilotInv
  BY PilotOK, InitTyped, StepTyped, InitPilot, StepPilot, PTL DEF Spec

(* Decisions stand: no interleaving of calls, lapses and crashes decides a    *)
(* record twice, consumes one that was not approved, or approves one that     *)
(* has expired.                                                               *)
THEOREM DecisionsAreFinal == Spec => DecisionsStand
  BY PilotOK, InitTyped, StepTyped, InitPilot, StepPilot, StepDecides, PTL
     DEF Spec, DecisionsStand

=============================================================================
