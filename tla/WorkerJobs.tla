----------------------------- MODULE WorkerJobs -----------------------------
(***************************************************************************)
(* The durable worker-job queue of Freyja 3: Atlas stores jobs in SQLite    *)
(* (freyja3_workers.py) behind the endpoints of freyja3_app.py, and a       *)
(* runner on each machine (cli/worker_runner.py, started by a systemd       *)
(* timer) claims one job, performs it and reports its outcome.              *)
(*                                                                         *)
(* An endpoint runs one SQL statement and never suspends, so a request      *)
(* takes effect in one step.  A request or its response may be lost, and a  *)
(* request may still reach Atlas after its runner has given up on it.       *)
(***************************************************************************)
EXTENDS Naturals, Sequences, FiniteSets

CONSTANTS
    NumJobs,    \* jobs the queue can hold, numbered in (created_at, job_id) order
    Machines,   \* the machines with a runner
    Classes,    \* worker classes
    ClassOf,    \* machine |-> the worker class its runner asks for
    AnyMachine, \* the NULL of target_machine_id
    MaxLosses   \* bound: runs and requests cut short

Jobs     == 1..NumJobs
Outcomes == {"completed", "failed"}
Targets  == Machines \cup {AnyMachine}

ASSUME WorkersOK ==
    /\ NumJobs \in Nat
    /\ ClassOf \in [Machines -> Classes]
    /\ AnyMachine \notin Machines

(* A row; "absent" stands for no row, by is claimed_by_machine_id. *)
Row == [status : {"absent", "pending", "running"} \cup Outcomes,
        class : Classes, target : Targets, by : Targets]

(* A runner between two requests; got is the job its claim returned.        *)
Runner == [at : {"idle", "claiming"}, got : {0}, outcome : {"none"}]
            \cup [at : {"working"}, got : Jobs, outcome : {"none"}]
            \cup [at : {"completing"}, got : Jobs, outcome : Outcomes]

(* Requests of runs that gave up, which Atlas may yet receive. *)
Late == [kind : {"claim"}, machine : Machines, class : Classes]
          \cup [kind : {"complete"}, machine : Machines, job : Jobs,
                outcome : Outcomes]

VARIABLES
    row,        \* job |-> its row in freyja3_worker_jobs
    runner,     \* machine |-> its runner
    late,       \* the requests nobody waits for
    performed,  \* history: job |-> the outcomes of its performances
    losses      \* what has been used of MaxLosses

vars == <<row, runner, late, performed, losses>>

Idle == [at |-> "idle", got |-> 0, outcome |-> "none"]

Init ==
    /\ row \in [Jobs -> {r \in Row : r.status = "absent" /\ r.by = AnyMachine}]
    /\ runner = [m \in Machines |-> Idle]
    /\ late = {}
    /\ performed = [j \in Jobs |-> <<>>]
    /\ losses = 0

-----------------------------------------------------------------------------
(* What Atlas does with a request. *)

(* create: the class and the target of the row are those it was given. *)
Create(j) ==
    /\ row[j].status = "absent"
    /\ \A k \in 1..(j - 1) : row[k].status # "absent"
    /\ row' = [row EXCEPT ![j].status = "pending"]
    /\ UNCHANGED <<runner, late, performed, losses>>

(* Mutants: a machine takes its running jobs up again; the NULL target is    *)
(* not anyone's.                                                             *)
ClaimableAgain(m, c) ==
    {j \in Jobs : /\ row[j].class = c
                  /\ \/ /\ row[j].status = "pending"
                        /\ row[j].target \in {AnyMachine, m}
                     \/ /\ row[j].status = "running"
                        /\ row[j].by = m}
ClaimableTargeted(m, c) ==
    {j \in Jobs : /\ row[j].status = "pending"
                  /\ row[j].target = m
                  /\ row[j].class = c}

Claimable(m, c) ==
    {j \in Jobs : /\ row[j].status = "pending"
                  /\ row[j].target \in {AnyMachine, m}
                  /\ row[j].class = c}

(* Mutant: newest first. *)
ClaimNewest(m, c, j) ==
    /\ j \in Claimable(m, c)
    /\ \A k \in Claimable(m, c) : k <= j
    /\ row' = [row EXCEPT ![j].status = "running", ![j].by = m]

(* claim_next: the oldest claimable job. *)
Claim(m, c, j) ==
    /\ j \in Claimable(m, c)
    /\ \A k \in Claimable(m, c) : j <= k
    /\ row' = [row EXCEPT ![j].status = "running", ![j].by = m]

(* complete: only a running job claimed by this machine, else 404. *)
Complete(m, j, o) ==
    IF row[j].status = "running" /\ row[j].by = m
    THEN row' = [row EXCEPT ![j].status = o]
    ELSE UNCHANGED row

-----------------------------------------------------------------------------
(* The runner: one job per run. *)

StartRun(m) ==
    /\ runner[m].at = "idle"
    /\ runner' = [runner EXCEPT ![m].at = "claiming"]
    /\ UNCHANGED <<row, late, performed, losses>>

ClaimJob(m) ==
    /\ runner[m].at = "claiming"
    /\ \E j \in Jobs :
          /\ Claim(m, ClassOf[m], j)
          /\ runner' = [runner EXCEPT ![m] =
                           [at |-> "working", got |-> j, outcome |-> "none"]]
    /\ UNCHANGED <<late, performed, losses>>

(* Mutant: the runner does not look whether it was given a job. *)
ClaimUnchecked(m) ==
    /\ runner[m].at = "claiming"
    /\ Claimable(m, ClassOf[m]) = {}
    /\ runner' = [runner EXCEPT ![m].at = "working"]
    /\ UNCHANGED <<row, late, performed, losses>>

ClaimNothing(m) ==
    /\ runner[m].at = "claiming"
    /\ Claimable(m, ClassOf[m]) = {}
    /\ runner' = [runner EXCEPT ![m] = Idle]
    /\ UNCHANGED <<row, late, performed, losses>>

(* _run_job *)
PerformJob(m) ==
    /\ runner[m].at = "working"
    /\ \E o \in Outcomes :
          /\ performed' = [performed EXCEPT ![runner[m].got] = Append(@, o)]
          /\ runner' = [runner EXCEPT ![m].at = "completing", ![m].outcome = o]
    /\ UNCHANGED <<row, late, losses>>

CompleteJob(m) ==
    /\ runner[m].at = "completing"
    /\ Complete(m, runner[m].got, runner[m].outcome)
    /\ runner' = [runner EXCEPT ![m] = Idle]
    /\ UNCHANGED <<late, performed, losses>>

-----------------------------------------------------------------------------
(* What can go wrong. *)

Lose == losses < MaxLosses /\ losses' = losses + 1

(* Mutant: the job of a run cut short is offered again. *)
RunReleased(m) ==
    /\ Lose
    /\ runner[m].at \in {"working", "completing"}
    /\ row' = [row EXCEPT ![runner[m].got].status = "pending"]
    /\ runner' = [runner EXCEPT ![m] = Idle]
    /\ UNCHANGED <<late, performed>>

(* The run ends here: it is killed, _run_job raises, or the request it       *)
(* waits for is lost on the way.                                             *)
RunAborted(m) ==
    /\ Lose
    /\ runner[m].at # "idle"
    /\ runner' = [runner EXCEPT ![m] = Idle]
    /\ UNCHANGED <<row, late, performed>>

(* The 15 s of a request pass before Atlas has received it. *)
RequestTimesOut(m) ==
    /\ Lose
    /\ runner[m].at \in {"claiming", "completing"}
    /\ runner' = [runner EXCEPT ![m] = Idle]
    /\ late' = late \cup
          {IF runner[m].at = "claiming"
           THEN [kind |-> "claim", machine |-> m, class |-> ClassOf[m]]
           ELSE [kind |-> "complete", machine |-> m, job |-> runner[m].got,
                 outcome |-> runner[m].outcome]}
    /\ UNCHANGED <<row, performed>>

(* Atlas receives it, or it is lost after all.                               *)
LateArrives(r) ==
    /\ late' = late \ {r}
    /\ \/ /\ r.kind = "claim"
          /\ \E j \in Jobs : Claim(r.machine, r.class, j)
       \/ /\ r.kind = "complete"
          /\ Complete(r.machine, r.job, r.outcome)
       \/ UNCHANGED row
    /\ UNCHANGED <<runner, performed, losses>>

Next ==
    \/ \E j \in Jobs : Create(j)
    \/ \E m \in Machines :
          \/ StartRun(m) \/ ClaimJob(m) \/ ClaimNothing(m)
          \/ PerformJob(m) \/ CompleteJob(m)
          \/ RunAborted(m) \/ RequestTimesOut(m)
    \/ \E r \in late : LateArrives(r)

Spec == Init /\ [][Next]_vars

(* The timer starts a run every minute, a run goes on, Atlas answers. *)
RunnerStep(m) ==
    StartRun(m) \/ ClaimJob(m) \/ ClaimNothing(m) \/ PerformJob(m) \/ CompleteJob(m)
FairSpec == Spec /\ \A m \in Machines : WF_vars(RunnerStep(m))

-----------------------------------------------------------------------------
TypeOK ==
    /\ row \in [Jobs -> Row]
    /\ runner \in [Machines -> Runner]
    /\ late \in SUBSET Late
    /\ performed \in [Jobs -> Seq(Outcomes)]
    /\ losses \in Nat

(* The queue keeps its promise: runs cut short at any point, late claims     *)
(* and late reports never make Atlas hand out a job twice or record an       *)
(* outcome that its performance did not have.                                *)
Outcome == INSTANCE JobOutcomes WITH
    performed <- performed,
    recorded  <- [j \in Jobs |-> IF row[j].status \in Outcomes
                                 THEN <<row[j].status>> ELSE <<>>]
KeepsPromise == Outcome!Spec

(* Why it keeps it: who holds a job, and what was done with it so far. *)
Holds(m) ==
    LET j == runner[m].got IN
    /\ runner[m].at \in {"working", "completing"} =>
          row[j].status = "running" /\ row[j].by = m
    /\ runner[m].at = "working" => performed[j] = <<>>
    /\ runner[m].at = "completing" => performed[j] = <<runner[m].outcome>>
HolderIsClaimer == \A m \in Machines : Holds(m)
LateIsTrue ==
    \A r \in late :
        r.kind = "complete" =>
            /\ performed[r.job] = <<r.outcome>>
            /\ \A m \in Machines : runner[m].got # r.job
RowsAgree ==
    \A j \in Jobs :
        /\ row[j].status \in {"absent", "pending"} => performed[j] = <<>>
        /\ row[j].status \in Outcomes => performed[j] = <<row[j].status>>
PromiseInv == HolderIsClaimer /\ LateIsTrue /\ RowsAgree

(* Jobs that any claimer sees alike leave the queue in the order they were   *)
(* created, so none is overtaken for ever.                                   *)
OldestFirst ==
    \A j, k \in Jobs :
        /\ j < k
        /\ row[j].class = row[k].class /\ row[j].target = row[k].target
        /\ row[j].status = "pending"
        => row[k].status \in {"absent", "pending"}

(* A job that some runner is configured for does not stay in the queue.      *)
Served(j) ==
    \E m \in Machines : row[j].class = ClassOf[m] /\ row[j].target \in {AnyMachine, m}
ServedJobsLeave ==
    \A j \in Jobs : []<>(row[j].status # "pending" \/ ~Served(j))
=============================================================================
