---------------------------- MODULE Queues_proofs ----------------------------
(* Theorems about WorkerJobs, for every number of jobs and machines and every *)
(* number of runs and requests cut short, and about ScheduleDispatch, for     *)
(* every number of envelopes, every set of overlapping requests and every     *)
(* limit.                                                                    *)
EXTENDS WorkerJobs, ScheduleDispatch, FiniteSetTheorems, TLAPS

LEMMA OutcomeSeqs ==
  /\ <<>> \in Seq(Outcomes)
  /\ \A s \in Seq(Outcomes), o \in Outcomes : Append(s, o) \in Seq(Outcomes)
  OBVIOUS

LEMMA IdleTyped == Idle \in Runner
  BY DEF Idle, Runner

LEMMA ClaimTyped ==
  ASSUME WorkersOK, TypeOK, NEW m \in Machines, NEW c, NEW j \in Jobs,
         Claim(m, c, j)
  PROVE  row' \in [Jobs -> Row]
  <1> DEFINE r == [row[j] EXCEPT !.status = "running", !.by = m]
  <1>1. row \in [Jobs -> Row] /\ row[j] \in Row
    BY DEF TypeOK
  <1>2. r \in Row
    BY <1>1 DEF Row, Targets
  <1>3. row' = [row EXCEPT ![j] = r]
    BY <1>1 DEF Claim
  <1> HIDE DEF r
  <1> QED  BY <1>1, <1>2, <1>3

LEMMA CompleteTyped ==
  ASSUME TypeOK, NEW m, NEW j \in Jobs, NEW o \in Outcomes, Complete(m, j, o)
  PROVE  row' \in [Jobs -> Row]
  BY DEF Complete, TypeOK, Row

LEMMA WorkersInitTyped ==
  ASSUME WorkersOK, Init
  PROVE  TypeOK
  <1>1. row \in [Jobs -> Row]
    BY DEF Init
  <1>2. runner \in [Machines -> Runner]
    BY IdleTyped DEF Init
  <1>3. performed \in [Jobs -> Seq(Outcomes)]
    BY OutcomeSeqs DEF Init
  <1> QED  BY <1>1, <1>2, <1>3 DEF Init, TypeOK

LEMMA WorkersStepTyped ==
  ASSUME WorkersOK, TypeOK, [Next]_vars
  PROVE  TypeOK'
  <1>1. ASSUME NEW j \in Jobs, Create(j) PROVE TypeOK'
    BY <1>1 DEF Create, TypeOK, Row
  <1>2. ASSUME NEW m \in Machines, StartRun(m) PROVE TypeOK'
    <2>1. [runner[m] EXCEPT !.at = "claiming"] \in Runner
      BY <1>2 DEF StartRun, TypeOK, Runner
    <2> QED  BY <1>2, <2>1 DEF StartRun, TypeOK
  <1>3. ASSUME NEW m \in Machines, ClaimJob(m) PROVE TypeOK'
    <2>1. PICK j \in Jobs :
            /\ Claim(m, ClassOf[m], j)
            /\ runner' = [runner EXCEPT ![m] =
                             [at |-> "working", got |-> j, outcome |-> "none"]]
      BY <1>3 DEF ClaimJob
    <2>2. [at |-> "working", got |-> j, outcome |-> "none"] \in Runner
      BY DEF Runner
    <2>3. row' \in [Jobs -> Row]
      BY <2>1, ClaimTyped
    <2> QED  BY <1>3, <2>1, <2>2, <2>3 DEF ClaimJob, TypeOK
  <1>4. ASSUME NEW m \in Machines, ClaimNothing(m) \/ RunAborted(m) PROVE TypeOK'
    BY <1>4, IdleTyped DEF ClaimNothing, RunAborted, Lose, TypeOK
  <1>5. ASSUME NEW m \in Machines, PerformJob(m) PROVE TypeOK'
    <2>1. PICK o \in Outcomes :
            /\ performed' = [performed EXCEPT ![runner[m].got] = Append(@, o)]
            /\ runner' = [runner EXCEPT ![m].at = "completing", ![m].outcome = o]
      BY <1>5 DEF PerformJob
    <2>2. runner[m].got \in Jobs
      BY <1>5 DEF PerformJob, TypeOK, Runner
    <2>3. [runner[m] EXCEPT !.at = "completing", !.outcome = o] \in Runner
      BY <2>2 DEF TypeOK, Runner
    <2>4. performed' \in [Jobs -> Seq(Outcomes)]
      BY <2>1, <2>2, OutcomeSeqs DEF TypeOK
    <2>5. runner' \in [Machines -> Runner]
      BY <2>1, <2>3 DEF TypeOK
    <2> QED  BY <1>5, <2>4, <2>5 DEF PerformJob, TypeOK
  <1>6. ASSUME NEW m \in Machines, CompleteJob(m) PROVE TypeOK'
    <2>1. runner[m].got \in Jobs /\ runner[m].outcome \in Outcomes
      BY <1>6 DEF CompleteJob, TypeOK, Runner
    <2>2. row' \in [Jobs -> Row]
      BY <1>6, <2>1, CompleteTyped DEF CompleteJob
    <2> QED  BY <1>6, <2>2, IdleTyped DEF CompleteJob, TypeOK
  <1>7. ASSUME NEW m \in Machines, RequestTimesOut(m) PROVE TypeOK'
    <2>1. CASE runner[m].at = "claiming"
      <3>1. [kind |-> "claim", machine |-> m, class |-> ClassOf[m]] \in Late
        BY DEF Late, WorkersOK
      <3> QED  BY <1>7, <2>1, <3>1, IdleTyped DEF RequestTimesOut, Lose, TypeOK
    <2>2. CASE runner[m].at = "completing"
      <3>1. [kind |-> "complete", machine |-> m, job |-> runner[m].got,
             outcome |-> runner[m].outcome] \in Late
        BY <2>2 DEF Late, TypeOK, Runner
      <3> QED  BY <1>7, <2>2, <3>1, IdleTyped DEF RequestTimesOut, Lose, TypeOK
    <2> QED  BY <1>7, <2>1, <2>2 DEF RequestTimesOut
  <1>8. ASSUME NEW r \in late, LateArrives(r) PROVE TypeOK'
    <2>1. r \in Late
      BY DEF TypeOK
    <2>2. CASE r.kind = "claim"
      <3>1. r.machine \in Machines
        BY <2>1, <2>2 DEF Late
      <3>2. row' \in [Jobs -> Row]
        BY <1>8, <2>2, <3>1, ClaimTyped DEF LateArrives, TypeOK
      <3> QED  BY <1>8, <3>2 DEF LateArrives, TypeOK
    <2>3. CASE r.kind = "complete"
      <3>1. r.job \in Jobs /\ r.outcome \in Outcomes
        BY <2>1, <2>3 DEF Late
      <3>2. row' \in [Jobs -> Row]
        BY <1>8, <2>3, <3>1, CompleteTyped DEF LateArrives, TypeOK
      <3> QED  BY <1>8, <3>2 DEF LateArrives, TypeOK
    <2> QED  BY <2>1, <2>2, <2>3 DEF Late
  <1>9. CASE UNCHANGED vars
    BY <1>9 DEF vars, TypeOK
  <1> QED
    BY <1>1, <1>2, <1>3, <1>4, <1>5, <1>6, <1>7, <1>8, <1>9 DEF Next

(* The types of the queue, its runners and the requests on the way. *)
THEOREM WorkersTypeCorrect == Spec => []TypeOK
  BY WorkersOK, WorkersInitTyped, WorkersStepTyped, PTL DEF Spec

-----------------------------------------------------------------------------
(* A runner that is working or completing holds a job, any other none. *)
LEMMA Holding ==
  ASSUME TypeOK, NEW n \in Machines
  PROVE  /\ runner[n].at \in {"working", "completing"} <=> runner[n].got \in Jobs
         /\ runner[n].at = "completing" => runner[n].outcome \in Outcomes
         /\ runner[n].got \in Jobs \cup {0}
  BY DEF TypeOK, Runner, Jobs

(* Who holds a job, whoever asks for one. *)

LEMMA HoldsOnly ==
  ASSUME TypeOK, PromiseInv, NEW m \in Machines, NEW n \in Machines,
         runner[m].got \in Jobs, runner[n].got = runner[m].got
  PROVE  n = m
  <1>1. Holds(m) /\ Holds(n)
    BY DEF PromiseInv, HolderIsClaimer
  <1>2. /\ runner[m].at \in {"working", "completing"}
        /\ runner[n].at \in {"working", "completing"}
    BY Holding
  <1> QED  BY <1>1, <1>2 DEF Holds

LEMMA HoldsKept ==
  ASSUME TypeOK, PromiseInv, NEW n \in Machines, runner'[n] = runner[n],
         \A k \in Jobs : k = runner[n].got =>
            row'[k] = row[k] /\ performed'[k] = performed[k]
  PROVE  Holds(n)'
  <1>1. Holds(n)
    BY DEF PromiseInv, HolderIsClaimer
  <1>2. CASE runner[n].at \in {"working", "completing"}
    <2>1. runner[n].got \in Jobs
      BY <1>2, Holding
    <2> QED  BY <1>1, <2>1 DEF Holds
  <1>3. CASE runner[n].at \notin {"working", "completing"}
    BY <1>3 DEF Holds
  <1> QED  BY <1>2, <1>3

LEMMA ClaimIsFree ==
  ASSUME TypeOK, PromiseInv, NEW m \in Machines, NEW c \in Classes, NEW j \in Jobs,
         Claim(m, c, j)
  PROVE  /\ row[j].status = "pending"
         /\ performed[j] = <<>>
         /\ \A n \in Machines : runner[n].got # j
         /\ row'[j].status = "running" /\ row'[j].by = m
         /\ \A k \in Jobs : k # j => row'[k] = row[k]
  <1>1. /\ row[j].status = "pending"
        /\ row' = [row EXCEPT ![j].status = "running", ![j].by = m]
    BY DEF Claim, Claimable
  <1>2. performed[j] = <<>>
    BY <1>1 DEF PromiseInv, RowsAgree
  <1>3. ASSUME NEW n \in Machines, runner[n].got = j PROVE FALSE
    <2>1. runner[n].at \in {"working", "completing"}
      BY <1>3, Holding
    <2>2. Holds(n)
      BY DEF PromiseInv, HolderIsClaimer
    <2> QED  BY <1>1, <1>3, <2>1, <2>2 DEF Holds
  <1>4. row'[j].status = "running" /\ row'[j].by = m
    BY <1>1 DEF TypeOK, Row
  <1>5. \A k \in Jobs : k # j => row'[k] = row[k]
    BY <1>1 DEF TypeOK
  <1> QED  BY <1>1, <1>2, <1>3, <1>4, <1>5

LEMMA ClaimKeeps ==
  ASSUME TypeOK, PromiseInv, NEW m \in Machines, NEW c \in Classes, NEW j \in Jobs,
         Claim(m, c, j), UNCHANGED <<runner, performed>>, late' \subseteq late
  PROVE  PromiseInv'
  <1>1. /\ row[j].status = "pending" /\ \A n \in Machines : runner[n].got # j
        /\ row'[j].status = "running" /\ row'[j].by = m
        /\ \A k \in Jobs : k # j => row'[k] = row[k]
    BY ClaimIsFree
  <1>2. HolderIsClaimer'
    BY <1>1, HoldsKept DEF HolderIsClaimer, TypeOK
  <1>3. LateIsTrue'
    BY DEF PromiseInv, LateIsTrue
  <1>4. RowsAgree'
    BY <1>1 DEF PromiseInv, RowsAgree, Outcomes
  <1> QED  BY <1>2, <1>3, <1>4 DEF PromiseInv

(* A report of what was performed, from a machine that holds the job no more. *)
LEMMA CompleteKeeps ==
  ASSUME TypeOK, PromiseInv, NEW m \in Machines, NEW j \in Jobs, NEW o \in Outcomes,
         Complete(m, j, o), performed[j] = <<o>>,
         performed' = performed, late' \subseteq late,
         \A n \in Machines : runner'[n] = runner[n] \/ runner'[n] = Idle,
         \A n \in Machines : runner'[n].got # j
  PROVE  PromiseInv'
  <1>1. /\ row'[j] = row[j] \/ (row[j].status = "running" /\ row'[j].status = o)
        /\ \A k \in Jobs : k # j => row'[k] = row[k]
    BY DEF Complete, TypeOK, Row
  <1>2. HolderIsClaimer'
    <2> SUFFICES ASSUME NEW n \in Machines PROVE Holds(n)'
      BY DEF HolderIsClaimer
    <2>1. CASE runner'[n] = Idle
      BY <2>1 DEF Holds, Idle
    <2>2. CASE runner'[n] = runner[n]
      BY <1>1, <2>2, HoldsKept
    <2> QED  BY <2>1, <2>2
  <1>3. LateIsTrue'
    <2> SUFFICES ASSUME NEW r \in late, r.kind = "complete", NEW n \in Machines
                 PROVE  /\ performed[r.job] = <<r.outcome>>
                        /\ runner'[n].got # r.job
      BY DEF LateIsTrue
    <2>1. performed[r.job] = <<r.outcome>> /\ runner[n].got # r.job
      BY DEF PromiseInv, LateIsTrue
    <2>2. r.job # 0
      BY DEF TypeOK, Late, Jobs
    <2> QED  BY <2>1, <2>2 DEF Idle
  <1>4. RowsAgree'
    BY <1>1 DEF PromiseInv, RowsAgree, Outcomes
  <1> QED  BY <1>2, <1>3, <1>4 DEF PromiseInv

LEMMA StepPromise ==
  ASSUME WorkersOK, TypeOK, PromiseInv, [Next]_vars
  PROVE  PromiseInv'
  <1>1. ASSUME NEW j \in Jobs, Create(j) PROVE PromiseInv'
    <2>1. /\ row[j].status = "absent" /\ row'[j].status = "pending"
          /\ \A k \in Jobs : k # j => row'[k] = row[k]
          /\ UNCHANGED <<runner, late, performed>>
      BY <1>1 DEF Create, TypeOK, Row
    <2>2. HolderIsClaimer'
      <3> SUFFICES ASSUME NEW n \in Machines PROVE Holds(n)'
        BY DEF HolderIsClaimer
      <3>1. runner[n].got # j
        <4> SUFFICES ASSUME runner[n].got = j PROVE FALSE
          OBVIOUS
        <4>1. Holds(n) /\ runner[n].at \in {"working", "completing"}
          BY Holding DEF PromiseInv, HolderIsClaimer
        <4> QED  BY <2>1, <4>1 DEF Holds
      <3> QED  BY <2>1, <3>1, HoldsKept
    <2>3. LateIsTrue'
      BY <2>1 DEF PromiseInv, LateIsTrue
    <2>4. RowsAgree'
      BY <2>1 DEF PromiseInv, RowsAgree, Outcomes
    <2> QED  BY <2>2, <2>3, <2>4 DEF PromiseInv
  <1>2. ASSUME NEW m \in Machines,
               StartRun(m) \/ ClaimNothing(m) \/ RunAborted(m)
        PROVE  PromiseInv'
    <2>1. /\ UNCHANGED <<row, late, performed>>
          /\ \A n \in Machines : runner'[n] = runner[n] \/
                (runner'[n].at \in {"idle", "claiming"} /\ runner'[n].got \in {0, runner[n].got})
      BY <1>2 DEF StartRun, ClaimNothing, RunAborted, Idle, TypeOK, Runner
    <2>2. HolderIsClaimer'
      <3> SUFFICES ASSUME NEW n \in Machines PROVE Holds(n)'
        BY DEF HolderIsClaimer
      <3>1. CASE runner'[n] = runner[n]
        BY <2>1, <3>1, HoldsKept
      <3>2. CASE runner'[n].at \in {"idle", "claiming"}
        BY <3>2 DEF Holds
      <3> QED  BY <2>1, <3>1, <3>2
    <2>3. LateIsTrue'
      <3> SUFFICES ASSUME NEW r \in late, r.kind = "complete", NEW n \in Machines
                   PROVE  performed[r.job] = <<r.outcome>> /\ runner'[n].got # r.job
        BY <2>1 DEF LateIsTrue
      <3>1. performed[r.job] = <<r.outcome>> /\ runner[n].got # r.job
        BY DEF PromiseInv, LateIsTrue
      <3>2. r.job # 0
        BY DEF TypeOK, Late, Jobs
      <3> QED  BY <2>1, <3>1, <3>2
    <2>4. RowsAgree'
      BY <2>1 DEF PromiseInv, RowsAgree
    <2> QED  BY <2>2, <2>3, <2>4 DEF PromiseInv
  <1>3. ASSUME NEW m \in Machines, ClaimJob(m) PROVE PromiseInv'
    <2>1. PICK j \in Jobs :
            /\ Claim(m, ClassOf[m], j)
            /\ runner' = [runner EXCEPT ![m] =
                             [at |-> "working", got |-> j, outcome |-> "none"]]
      BY <1>3 DEF ClaimJob
    <2>2. /\ runner'[m] = [at |-> "working", got |-> j, outcome |-> "none"]
          /\ \A n \in Machines : n # m => runner'[n] = runner[n]
          /\ UNCHANGED <<late, performed>>
      BY <1>3, <2>1 DEF ClaimJob, TypeOK
    <2>0. ClassOf[m] \in Classes
      BY DEF WorkersOK
    <2>3. /\ row[j].status = "pending" /\ performed[j] = <<>>
          /\ \A n \in Machines : runner[n].got # j
          /\ row'[j].status = "running" /\ row'[j].by = m
          /\ \A k \in Jobs : k # j => row'[k] = row[k]
      BY <2>0, <2>1, ClaimIsFree
    <2>4. HolderIsClaimer'
      <3> SUFFICES ASSUME NEW n \in Machines PROVE Holds(n)'
        BY DEF HolderIsClaimer
      <3>1. CASE n = m
        BY <2>2, <2>3, <3>1 DEF Holds
      <3>2. CASE n # m
        BY <2>2, <2>3, <3>2, HoldsKept
      <3> QED  BY <3>1, <3>2
    <2>5. LateIsTrue'
      <3> SUFFICES ASSUME NEW r \in late, r.kind = "complete"
                   PROVE  r.job # j
        BY <2>2 DEF PromiseInv, LateIsTrue
      <3> QED  BY <2>3 DEF PromiseInv, LateIsTrue
    <2>6. RowsAgree'
      BY <2>2, <2>3 DEF PromiseInv, RowsAgree, Outcomes
    <2> QED  BY <2>4, <2>5, <2>6 DEF PromiseInv
  <1>4. ASSUME NEW m \in Machines, PerformJob(m) PROVE PromiseInv'
    <2>1. PICK j \in Jobs, o \in Outcomes :
            /\ runner[m].got = j
            /\ performed' = [performed EXCEPT ![j] = Append(@, o)]
            /\ runner' = [runner EXCEPT ![m].at = "completing", ![m].outcome = o]
      BY <1>4 DEF PerformJob, TypeOK, Runner
    <2>2. /\ row[j].status = "running" /\ row[j].by = m /\ performed[j] = <<>>
      <3>1. Holds(m)
        BY DEF PromiseInv, HolderIsClaimer
      <3> QED  BY <1>4, <2>1, <3>1 DEF PerformJob, Holds
    <2>3. /\ performed'[j] = <<o>>
          /\ \A k \in Jobs : k # j => performed'[k] = performed[k]
      BY <2>1, <2>2 DEF TypeOK
    <2>4. /\ runner'[m].at = "completing" /\ runner'[m].outcome = o
          /\ runner'[m].got = j
          /\ \A n \in Machines : n # m => runner'[n] = runner[n]
      BY <2>1 DEF TypeOK, Runner
    <2>5. \A n \in Machines : n # m => runner[n].got # j
      BY <2>1, HoldsOnly
    <2>6. UNCHANGED <<row, late>>
      BY <1>4 DEF PerformJob
    <2>7. HolderIsClaimer'
      <3> SUFFICES ASSUME NEW n \in Machines PROVE Holds(n)'
        BY DEF HolderIsClaimer
      <3>1. CASE n = m
        BY <2>2, <2>3, <2>4, <2>6, <3>1 DEF Holds
      <3>2. CASE n # m
        BY <2>3, <2>4, <2>5, <2>6, <3>2, HoldsKept
      <3> QED  BY <3>1, <3>2
    <2>8. LateIsTrue'
      <3> SUFFICES ASSUME NEW r \in late, r.kind = "complete"
                   PROVE  /\ performed'[r.job] = <<r.outcome>>
                          /\ \A n \in Machines : runner'[n].got # r.job
        BY <2>6 DEF LateIsTrue
      <3>1. r.job \in Jobs /\ performed[r.job] = <<r.outcome>>
              /\ \A n \in Machines : runner[n].got # r.job
        BY DEF PromiseInv, LateIsTrue, TypeOK, Late
      <3> QED  BY <2>1, <2>3, <2>4, <3>1
    <2>9. RowsAgree'
      BY <2>2, <2>3, <2>6 DEF PromiseInv, RowsAgree, Outcomes
    <2> QED  BY <2>7, <2>8, <2>9 DEF PromiseInv
  <1>5. ASSUME NEW m \in Machines, CompleteJob(m) PROVE PromiseInv'
    <2>1. PICK j \in Jobs, o \in Outcomes :
            /\ runner[m].got = j /\ runner[m].outcome = o
      BY <1>5 DEF CompleteJob, TypeOK, Runner
    <2>2. /\ row[j].status = "running" /\ row[j].by = m
          /\ performed[j] = <<o>>
      <3>1. Holds(m)
        BY DEF PromiseInv, HolderIsClaimer
      <3> QED  BY <1>5, <2>1, <3>1 DEF CompleteJob, Holds
    <2>3. /\ runner'[m] = Idle
          /\ \A n \in Machines : n # m => runner'[n] = runner[n]
          /\ UNCHANGED <<late, performed>> /\ Complete(m, j, o)
      BY <1>5, <2>1 DEF CompleteJob, TypeOK
    <2>4. \A n \in Machines : runner'[n].got # j
      <3>1. \A n \in Machines : n # m => runner[n].got # j
        BY <2>1, HoldsOnly
      <3> QED  BY <2>3, <3>1 DEF Idle, Jobs
    <2> QED  BY <2>2, <2>3, <2>4, CompleteKeeps
  <1>6. ASSUME NEW m \in Machines, RequestTimesOut(m) PROVE PromiseInv'
    <2>1. /\ UNCHANGED <<row, performed>> /\ runner'[m] = Idle
          /\ \A n \in Machines : n # m => runner'[n] = runner[n]
      BY <1>6 DEF RequestTimesOut, TypeOK
    <2>2. HolderIsClaimer'
      <3> SUFFICES ASSUME NEW n \in Machines PROVE Holds(n)'
        BY DEF HolderIsClaimer
      <3>1. CASE n = m
        BY <2>1, <3>1 DEF Holds, Idle
      <3>2. CASE n # m
        BY <2>1, <3>2, HoldsKept
      <3> QED  BY <3>1, <3>2
    <2>3. RowsAgree'
      BY <2>1 DEF PromiseInv, RowsAgree
    <2>4. ASSUME NEW r \in late', r.kind = "complete"
          PROVE  /\ performed[r.job] = <<r.outcome>>
                 /\ \A n \in Machines : runner'[n].got # r.job
      <3>1. CASE r \in late
        <4>1. /\ performed[r.job] = <<r.outcome>>
              /\ \A n \in Machines : runner[n].got # r.job
              /\ r.job # 0
          BY <2>4, <3>1 DEF PromiseInv, LateIsTrue, TypeOK, Late, Jobs
        <4> QED  BY <2>1, <4>1 DEF Idle
      <3>2. CASE r \notin late
        <4>1. /\ runner[m].at = "completing"
              /\ r.job = runner[m].got /\ r.outcome = runner[m].outcome
          BY <1>6, <2>4, <3>2 DEF RequestTimesOut
        <4>2. performed[r.job] = <<r.outcome>> /\ r.job \in Jobs
          BY <4>1, Holding DEF PromiseInv, HolderIsClaimer, Holds
        <4>3. ASSUME NEW n \in Machines PROVE runner'[n].got # r.job
          <5>1. CASE n = m
            BY <2>1, <4>2, <5>1 DEF Idle, Jobs
          <5>2. CASE n # m
            BY <2>1, <4>1, <4>2, <5>2, HoldsOnly
          <5> QED  BY <5>1, <5>2
        <4> QED  BY <4>2, <4>3
      <3> QED  BY <3>1, <3>2
    <2>5. LateIsTrue'
      BY <2>1, <2>4 DEF LateIsTrue
    <2> QED  BY <2>2, <2>3, <2>5 DEF PromiseInv
  <1>7. ASSUME NEW r \in late, LateArrives(r) PROVE PromiseInv'
    <2>1. r \in Late /\ UNCHANGED <<runner, performed>> /\ late' \subseteq late
      BY <1>7 DEF LateArrives, TypeOK
    <2>2. CASE UNCHANGED row
      BY <2>1, <2>2 DEF PromiseInv, HolderIsClaimer, Holds, LateIsTrue, RowsAgree
    <2>3. CASE r.kind = "claim" /\ \E j \in Jobs : Claim(r.machine, r.class, j)
      <3>1. r.machine \in Machines /\ r.class \in Classes
        BY <2>1, <2>3 DEF Late
      <3> QED  BY <2>1, <2>3, <3>1, ClaimKeeps
    <2>4. CASE r.kind = "complete" /\ Complete(r.machine, r.job, r.outcome)
      <3>1. r.machine \in Machines /\ r.job \in Jobs /\ r.outcome \in Outcomes
        BY <2>1, <2>4 DEF Late
      <3>2. performed[r.job] = <<r.outcome>>
              /\ \A n \in Machines : runner[n].got # r.job
        BY <2>4 DEF PromiseInv, LateIsTrue
      <3>3. r.job = r.job' /\ \A n \in Machines : runner'[n] = runner[n]
        BY <2>1
      <3> QED  BY <2>1, <2>4, <3>1, <3>2, <3>3, CompleteKeeps
    <2> QED  BY <1>7, <2>2, <2>3, <2>4 DEF LateArrives
  <1>8. CASE UNCHANGED vars
    BY <1>8 DEF vars, PromiseInv, HolderIsClaimer, Holds, LateIsTrue, RowsAgree
  <1> QED
    BY <1>1, <1>2, <1>3, <1>4, <1>5, <1>6, <1>7, <1>8 DEF Next

LEMMA InitPromise ==
  ASSUME Init
  PROVE  PromiseInv
  <1>1. HolderIsClaimer
    BY DEF Init, HolderIsClaimer, Holds, Idle
  <1>2. LateIsTrue
    BY DEF Init, LateIsTrue
  <1>3. RowsAgree
    BY DEF Init, RowsAgree, Outcomes
  <1> QED  BY <1>1, <1>2, <1>3 DEF PromiseInv

(* A job has one holder, its claimer, and what is recorded or still on its   *)
(* way about it is what was performed.                                       *)
THEOREM PromiseHolds == Spec => []PromiseInv
  BY WorkersOK, InitPromise, StepPromise, WorkersTypeCorrect, PTL DEF Spec

-----------------------------------------------------------------------------
(* The queue and its runners implement JobOutcomes. *)

Recorded == [j \in Jobs |-> IF row[j].status \in Outcomes
                            THEN <<row[j].status>> ELSE <<>>]

LEMMA NotRecorded ==
  ASSUME \A j \in Jobs :
           \/ row'[j] = row[j]
           \/ row[j].status \notin Outcomes /\ row'[j].status \notin Outcomes
  PROVE  Recorded' = Recorded
  BY DEF Recorded

(* A report to Atlas is recorded, or comes too late and changes nothing. *)
LEMMA CompleteRecords ==
  ASSUME TypeOK, NEW m, NEW j \in Jobs, NEW o \in Outcomes, Complete(m, j, o),
         performed[j] = <<o>>, UNCHANGED performed
  PROVE  [Outcome!Next]_(Outcome!vars)
  <1>1. CASE row[j].status = "running" /\ row[j].by = m
    <2>1. /\ row' = [row EXCEPT ![j].status = o]
          /\ row[j].status \notin Outcomes
      BY <1>1 DEF Complete, Outcomes
    <2>2. Recorded[j] = <<>> /\ performed[j] # <<>>
      BY <2>1 DEF Recorded
    <2>3. Recorded' = [Recorded EXCEPT ![j] = performed[j]]
      BY <2>1 DEF Recorded, TypeOK, Row
    <2>4. Outcome!Record(j)
      BY <2>2, <2>3 DEF Outcome!Record, Recorded
    <2> QED  BY <2>4 DEF Outcome!Next
  <1>2. CASE ~(row[j].status = "running" /\ row[j].by = m)
    <2>1. UNCHANGED <<row, performed>>
      BY <1>2 DEF Complete
    <2> QED  BY <2>1 DEF Outcome!vars
  <1> QED  BY <1>1, <1>2

LEMMA ClaimRecordsNothing ==
  ASSUME TypeOK, NEW m \in Machines, NEW c, NEW j \in Jobs, Claim(m, c, j),
         UNCHANGED performed
  PROVE  UNCHANGED Outcome!vars
  <1>1. /\ row[j].status = "pending"
        /\ row' = [row EXCEPT ![j].status = "running", ![j].by = m]
    BY DEF Claim, Claimable
  <1>2. row'[j].status = "running" /\ \A k \in Jobs : k # j => row'[k] = row[k]
    BY <1>1 DEF TypeOK, Row
  <1>3. \A k \in Jobs :
           \/ row'[k] = row[k]
           \/ row[k].status \notin Outcomes /\ row'[k].status \notin Outcomes
    BY <1>1, <1>2 DEF Outcomes
  <1> QED  BY <1>3, NotRecorded DEF Outcome!vars, Recorded

LEMMA StepOutcome ==
  ASSUME WorkersOK, TypeOK, PromiseInv, [Next]_vars
  PROVE  [Outcome!Next]_(Outcome!vars)
  <1>1. ASSUME NEW j \in Jobs, Create(j) PROVE UNCHANGED Outcome!vars
    <2>1. /\ row[j].status = "absent" /\ row'[j].status = "pending"
          /\ \A k \in Jobs : k # j => row'[k] = row[k]
          /\ UNCHANGED performed
      BY <1>1 DEF Create, TypeOK, Row
    <2>2. \A k \in Jobs :
             \/ row'[k] = row[k]
             \/ row[k].status \notin Outcomes /\ row'[k].status \notin Outcomes
      BY <2>1 DEF Outcomes
    <2> QED  BY <2>1, <2>2, NotRecorded DEF Outcome!vars, Recorded
  <1>2. ASSUME NEW m \in Machines,
               StartRun(m) \/ ClaimNothing(m) \/ RunAborted(m) \/ RequestTimesOut(m)
        PROVE  UNCHANGED Outcome!vars
    BY <1>2 DEF StartRun, ClaimNothing, RunAborted, RequestTimesOut, Outcome!vars
  <1>3. ASSUME NEW m \in Machines, ClaimJob(m) PROVE UNCHANGED Outcome!vars
    BY <1>3, ClaimRecordsNothing DEF ClaimJob
  <1>4. ASSUME NEW m \in Machines, PerformJob(m) PROVE Outcome!Next
    <2>1. PICK j \in Jobs, o \in Outcomes :
            /\ runner[m].got = j
            /\ performed' = [performed EXCEPT ![j] = Append(@, o)]
      BY <1>4, Holding DEF PerformJob
    <2>2. performed[j] = <<>>
      BY <1>4, <2>1 DEF PerformJob, PromiseInv, HolderIsClaimer, Holds
    <2>3. performed' = [performed EXCEPT ![j] = <<o>>]
      BY <2>1, <2>2
    <2>4. UNCHANGED row
      BY <1>4 DEF PerformJob
    <2>5. Outcome!Perform(j)
      BY <2>2, <2>3, <2>4 DEF Outcome!Perform
    <2> QED  BY <2>5 DEF Outcome!Next
  <1>5. ASSUME NEW m \in Machines, CompleteJob(m)
        PROVE  [Outcome!Next]_(Outcome!vars)
    <2>1. runner[m].got \in Jobs /\ runner[m].outcome \in Outcomes
      BY <1>5, Holding DEF CompleteJob
    <2>2. performed[runner[m].got] = <<runner[m].outcome>>
      BY <1>5 DEF CompleteJob, PromiseInv, HolderIsClaimer, Holds
    <2> QED  BY <1>5, <2>1, <2>2, CompleteRecords DEF CompleteJob
  <1>6. ASSUME NEW r \in late, LateArrives(r)
        PROVE  [Outcome!Next]_(Outcome!vars)
    <2>1. r \in Late /\ UNCHANGED performed
      BY <1>6 DEF LateArrives, TypeOK
    <2>2. CASE UNCHANGED row
      BY <2>1, <2>2 DEF Outcome!vars
    <2>3. CASE r.kind = "claim" /\ \E j \in Jobs : Claim(r.machine, r.class, j)
      <3>1. r.machine \in Machines
        BY <2>1, <2>3 DEF Late
      <3> QED  BY <2>1, <2>3, <3>1, ClaimRecordsNothing
    <2>4. CASE r.kind = "complete" /\ Complete(r.machine, r.job, r.outcome)
      <3>1. r.job \in Jobs /\ r.outcome \in Outcomes
        BY <2>1, <2>4 DEF Late
      <3>2. performed[r.job] = <<r.outcome>>
        BY <2>4 DEF PromiseInv, LateIsTrue
      <3> QED  BY <2>1, <2>4, <3>1, <3>2, CompleteRecords
    <2> QED  BY <1>6, <2>2, <2>3, <2>4 DEF LateArrives
  <1>7. CASE UNCHANGED vars
    BY <1>7 DEF vars, Outcome!vars
  <1> QED
    BY <1>1, <1>2, <1>3, <1>4, <1>5, <1>6, <1>7 DEF Next

(* The promise: whatever is lost, cut short or late, a job is performed at    *)
(* most once and what Atlas records for it is what its performance returned.  *)
THEOREM QueueImplementsOutcomes == Spec => KeepsPromise
  <1>1. Init => Outcome!Init
    BY DEF Init, Outcome!Init, Outcomes
  <1> QED
    BY <1>1, WorkersOK, StepOutcome, WorkersTypeCorrect, PromiseHolds, PTL
    DEF Spec, KeepsPromise, Outcome!Spec

-----------------------------------------------------------------------------
(* Jobs are created in their order, so the ones not there yet are the last. *)
CreatedInOrder ==
    \A j, k \in Jobs : j < k /\ row[j].status = "absent" => row[k].status = "absent"
OrderInv == CreatedInOrder /\ OldestFirst

LEMMA ClaimInOrder ==
  ASSUME TypeOK, OrderInv, NEW m \in Machines, NEW c, NEW i \in Jobs, Claim(m, c, i)
  PROVE  OrderInv'
  <1>1. /\ row[i].status = "pending" /\ row[i].class = c
        /\ row[i].target \in {AnyMachine, m}
        /\ row' = [row EXCEPT ![i].status = "running", ![i].by = m]
        /\ \A k \in Claimable(m, c) : i <= k
    BY DEF Claim, Claimable
  <1>2. /\ row'[i].status = "running" /\ row'[i].class = c
        /\ row'[i].target = row[i].target
        /\ \A k \in Jobs : k # i => row'[k] = row[k]
    BY <1>1 DEF TypeOK, Row
  <1>3. CreatedInOrder'
    BY <1>1, <1>2 DEF OrderInv, CreatedInOrder
  <1>4. ASSUME NEW j \in Jobs, NEW k \in Jobs, j < k,
               row'[j].class = row'[k].class, row'[j].target = row'[k].target,
               row'[j].status = "pending"
        PROVE  row'[k].status \in {"absent", "pending"}
    <2>1. j # i /\ row'[j] = row[j]
      BY <1>2, <1>4
    <2>2. CASE k = i
      <3>1. j \in Claimable(m, c)
        BY <1>1, <1>2, <1>4, <2>1, <2>2 DEF Claimable
      <3> QED  BY <1>1, <1>4, <2>2, <3>1 DEF Jobs
    <2>3. CASE k # i
      BY <1>2, <1>4, <2>1, <2>3 DEF OrderInv, OldestFirst
    <2> QED  BY <2>2, <2>3
  <1> QED  BY <1>3, <1>4 DEF OrderInv, OldestFirst

LEMMA CompleteInOrder ==
  ASSUME TypeOK, OrderInv, NEW m, NEW i \in Jobs, NEW o \in Outcomes,
         Complete(m, i, o)
  PROVE  OrderInv'
  <1>1. CASE UNCHANGED row
    BY <1>1 DEF OrderInv, CreatedInOrder, OldestFirst
  <1>2. CASE row[i].status = "running" /\ row' = [row EXCEPT ![i].status = o]
    <2>1. /\ row'[i].status = o /\ row'[i].class = row[i].class
          /\ row'[i].target = row[i].target
          /\ \A k \in Jobs : k # i => row'[k] = row[k]
      BY <1>2 DEF TypeOK, Row
    <2> QED  BY <1>2, <2>1 DEF OrderInv, CreatedInOrder, OldestFirst, Outcomes
  <1> QED  BY <1>1, <1>2 DEF Complete

LEMMA StepOrder ==
  ASSUME WorkersOK, TypeOK, OrderInv, [Next]_vars
  PROVE  OrderInv'
  <1>1. ASSUME NEW i \in Jobs, Create(i) PROVE OrderInv'
    <2>1. /\ row[i].status = "absent" /\ row'[i].status = "pending"
          /\ row'[i].class = row[i].class /\ row'[i].target = row[i].target
          /\ \A k \in Jobs : k # i => row'[k] = row[k]
          /\ \A k \in 1..(i - 1) : row[k].status # "absent"
      BY <1>1 DEF Create, TypeOK, Row
    <2>2. ASSUME NEW j \in Jobs, j < i PROVE row[j].status # "absent"
      BY <2>1, <2>2, WorkersOK DEF Jobs, WorkersOK
    <2>3. ASSUME NEW k \in Jobs, i < k PROVE row[k].status = "absent"
      BY <2>1, <2>3 DEF OrderInv, CreatedInOrder
    <2>4. CreatedInOrder'
      BY <2>1, <2>2 DEF OrderInv, CreatedInOrder
    <2>5. OldestFirst'
      <3> SUFFICES ASSUME NEW j \in Jobs, NEW k \in Jobs, j < k,
                          row'[j].class = row'[k].class,
                          row'[j].target = row'[k].target,
                          row'[j].status = "pending"
                   PROVE  row'[k].status \in {"absent", "pending"}
        BY DEF OldestFirst
      <3>1. CASE j = i
        BY <2>1, <2>3, <3>1 DEF Jobs
      <3>2. CASE k = i
        BY <2>1, <3>2
      <3>3. CASE j # i /\ k # i
        BY <2>1, <3>3 DEF OrderInv, OldestFirst
      <3> QED  BY <3>1, <3>2, <3>3
    <2> QED  BY <2>4, <2>5 DEF OrderInv
  <1>2. CASE UNCHANGED row
    BY <1>2 DEF OrderInv, CreatedInOrder, OldestFirst
  <1>3. ASSUME NEW m \in Machines, ClaimJob(m) PROVE OrderInv'
    BY <1>3, ClaimInOrder DEF ClaimJob
  <1>4. ASSUME NEW m \in Machines, CompleteJob(m) PROVE OrderInv'
    <2>1. runner[m].got \in Jobs /\ runner[m].outcome \in Outcomes
      BY <1>4, Holding DEF CompleteJob
    <2> QED  BY <1>4, <2>1, CompleteInOrder DEF CompleteJob
  <1>5. ASSUME NEW r \in late, LateArrives(r) PROVE OrderInv'
    <2>1. r \in Late
      BY DEF TypeOK
    <2>2. CASE r.kind = "claim" /\ \E j \in Jobs : Claim(r.machine, r.class, j)
      <3>1. r.machine \in Machines
        BY <2>1, <2>2 DEF Late
      <3> QED  BY <2>2, <3>1, ClaimInOrder
    <2>3. CASE r.kind = "complete" /\ Complete(r.machine, r.job, r.outcome)
      <3>1. r.job \in Jobs /\ r.outcome \in Outcomes
        BY <2>1, <2>3 DEF Late
      <3> QED  BY <2>3, <3>1, CompleteInOrder
    <2> QED  BY <1>2, <1>5, <2>2, <2>3 DEF LateArrives
  <1>6. (\E m \in Machines : StartRun(m) \/ ClaimNothing(m) \/ PerformJob(m)
            \/ RunAborted(m) \/ RequestTimesOut(m)) \/ UNCHANGED vars
           => UNCHANGED row
    BY DEF StartRun, ClaimNothing, PerformJob, RunAborted, RequestTimesOut, vars
  <1> QED  BY <1>1, <1>2, <1>3, <1>4, <1>5, <1>6 DEF Next

(* Jobs that any claimer sees alike leave the queue in creation order. *)
THEOREM OldestLeavesFirst == Spec => []OldestFirst
  <1>1. Init => OrderInv
    BY DEF Init, OrderInv, CreatedInOrder, OldestFirst
  <1>2. OrderInv => OldestFirst
    BY DEF OrderInv
  <1> QED  BY <1>1, <1>2, WorkersOK, StepOrder, WorkersTypeCorrect, PTL DEF Spec
------------------------------------------------------------------------------
LEMMA ScheduleInitTyped == SchedulesOK /\ ScheduleInit => ScheduleTypeOK
  BY DEF SchedulesOK, ScheduleInit, ScheduleTypeOK, Request, NoRequest

LEMMA ListedTyped == Listed \in SUBSET Schedules
  BY DEF Listed, Due

LEMMA ScheduleStepTyped ==
  ASSUME ScheduleTypeOK, [ScheduleNext]_scVars
  PROVE  ScheduleTypeOK'
  <1>1. CASE \E s \in Schedules : CreateSchedule(s)
    BY <1>1 DEF CreateSchedule, ScheduleTypeOK
  <1>2. CASE Tick
    BY <1>2 DEF Tick, ScheduleTypeOK
  <1>3. ASSUME NEW d \in Dispatchers, Begin(d) PROVE ScheduleTypeOK'
    BY <1>3, ListedTyped DEF Begin, ScheduleTypeOK, Request
  <1>4. ASSUME NEW d \in Dispatchers, Submit(d) PROVE ScheduleTypeOK'
    <2>1. PICK s \in request[d].due :
            request' = [request EXCEPT ![d] = NoRequest] \/
            request' = [request EXCEPT ![d] =
                          [at |-> "agent", s |-> s, due |-> @.due \ {s}]]
      BY <1>4 DEF Submit
    <2>2. request[d].due \in SUBSET Schedules
      BY DEF ScheduleTypeOK, Request
    <2>3. /\ NoRequest \in Request
          /\ [at |-> "agent", s |-> s, due |-> request[d].due \ {s}] \in Request
      BY <2>2 DEF NoRequest, Request
    <2>4. request' \in [Dispatchers -> Request]
      BY <2>1, <2>3 DEF ScheduleTypeOK
    <2> QED  BY <1>4, <2>4 DEF Submit, ScheduleTypeOK
  <1>5. ASSUME NEW d \in Dispatchers, Mark(d) PROVE ScheduleTypeOK'
    <2>1. request[d].s \in Schedules /\ request[d].due \in SUBSET Schedules
      BY <1>5 DEF Mark, ScheduleTypeOK, Request
    <2>2. request' \in [Dispatchers -> Request]
      BY <1>5, <2>1 DEF Mark, ScheduleTypeOK, Request, NoRequest
    <2> QED  BY <1>5, <2>1, <2>2 DEF Mark, ScheduleTypeOK
  <1>6. ASSUME NEW d \in Dispatchers, Finish(d) PROVE ScheduleTypeOK'
    BY <1>6 DEF Finish, ScheduleTypeOK, Request, NoRequest
  <1>7. ASSUME NEW d \in Dispatchers, Fail(d) PROVE ScheduleTypeOK'
    <2>1. request[d].s \in Schedules
      BY <1>7 DEF Fail, ScheduleTypeOK, Request
    <2>2. request' \in [Dispatchers -> Request]
      BY <1>7 DEF Fail, ScheduleTypeOK, Request, NoRequest
    <2> QED  BY <1>7, <2>1, <2>2 DEF Fail, ScheduleTypeOK
  <1>8. CASE UNCHANGED scVars
    BY <1>8 DEF scVars, ScheduleTypeOK
  <1> QED
    BY <1>1, <1>2, <1>3, <1>4, <1>5, <1>6, <1>7, <1>8 DEF ScheduleNext, Dispatch

(* The types of the scheduler's state, whatever is dispatched when. *)
THEOREM ScheduleTypeCorrect == ScheduleSpec => []ScheduleTypeOK
  <1>1. SchedulesOK
    BY SchedulesOK
  <1> QED  BY <1>1, ScheduleInitTyped, ScheduleStepTyped, PTL DEF ScheduleSpec

-----------------------------------------------------------------------------
(* An envelope is marked by the step that sees its agent finish. *)
LEMMA StepExecuted ==
  ASSUME ScheduleTypeOK, DispatchedWasExecuted, [ScheduleNext]_scVars
  PROVE  DispatchedWasExecuted'
  <1>1. CASE \E s \in Schedules : CreateSchedule(s)
    BY <1>1 DEF CreateSchedule, ScheduleTypeOK, DispatchedWasExecuted
  <1>2. ASSUME NEW d \in Dispatchers, Mark(d) PROVE DispatchedWasExecuted'
    BY <1>2 DEF Mark, ScheduleTypeOK, Request, DispatchedWasExecuted
  <1>3. ASSUME NEW d \in Dispatchers, Fail(d) PROVE DispatchedWasExecuted'
    BY <1>3 DEF Fail, ScheduleTypeOK, Request, DispatchedWasExecuted
  <1>4. CASE Tick \/ \E d \in Dispatchers : Begin(d) \/ Submit(d) \/ Finish(d)
    BY <1>4 DEF Tick, Begin, Submit, Finish, DispatchedWasExecuted
  <1>5. CASE UNCHANGED scVars
    BY <1>5 DEF scVars, DispatchedWasExecuted
  <1> QED  BY <1>1, <1>2, <1>3, <1>4, <1>5 DEF ScheduleNext, Dispatch

(* No due envelope is dropped: mark_dispatched runs only after its agent has  *)
(* finished, in every overlap of requests and wherever one of them ends.      *)
THEOREM NothingMarkedUndone == ScheduleSpec => []DispatchedWasExecuted
  <1>1. ScheduleInit => DispatchedWasExecuted
    BY DEF ScheduleInit, DispatchedWasExecuted
  <1> QED  BY <1>1, StepExecuted, ScheduleTypeCorrect, PTL DEF ScheduleSpec

-----------------------------------------------------------------------------
(* The requests that will still execute an envelope: each of them once.  An   *)
(* envelope that is not marked has only been executed by requests that died;  *)
(* the request that marks it leaves at most the others still holding it.      *)
HoldsEnvelope(d, s) ==
    s \in request[d].due \/ (request[d].at = "agent" /\ request[d].s = s)
Holders(s) == {d \in Dispatchers : HoldsEnvelope(d, s)}

HeldOnce ==
    \A d \in Dispatchers :
        request[d].at = "agent" => request[d].s \notin request[d].due
RunsCovered(s) ==
    IF envelope[s] = "dispatched"
    THEN executed[s] + Cardinality(Holders(s)) <= failures + Cardinality(Dispatchers)
    ELSE executed[s] <= failures
RunsInv == HeldOnce /\ \A s \in Schedules : RunsCovered(s)

LEMMA HoldersFinite ==
  ASSUME NEW s
  PROVE  /\ IsFiniteSet(Holders(s)) /\ Cardinality(Holders(s)) \in Nat
         /\ Cardinality(Dispatchers) \in Nat
         /\ Cardinality(Holders(s)) <= Cardinality(Dispatchers)
  <1>1. IsFiniteSet(Dispatchers) /\ Holders(s) \in SUBSET Dispatchers
    BY SchedulesOK DEF SchedulesOK, Holders
  <1> QED  BY <1>1, FS_Subset, FS_CardinalityType

(* Losing a holder, and only that one. *)
LEMMA HolderLost ==
  ASSUME NEW s, NEW d \in Dispatchers, d \in Holders(s),
         Holders(s)' \subseteq Holders(s) \ {d}
  PROVE  /\ Cardinality(Holders(s)') \in Nat
         /\ Cardinality(Holders(s)') + 1 <= Cardinality(Holders(s))
  <1>1. IsFiniteSet(Holders(s)) /\ Cardinality(Holders(s)) \in Nat
    BY HoldersFinite
  <1>2. /\ IsFiniteSet(Holders(s) \ {d})
        /\ Cardinality(Holders(s) \ {d}) = Cardinality(Holders(s)) - 1
    BY <1>1, FS_RemoveElement
  <1>3. /\ IsFiniteSet(Holders(s)') /\ Cardinality(Holders(s)') \in Nat
        /\ Cardinality(Holders(s)') <= Cardinality(Holders(s) \ {d})
    BY <1>2, FS_Subset, FS_CardinalityType
  <1> QED  BY <1>1, <1>2, <1>3

LEMMA HoldersShrink ==
  ASSUME NEW s, Holders(s)' \subseteq Holders(s)
  PROVE  /\ Cardinality(Holders(s)') \in Nat /\ Cardinality(Holders(s)) \in Nat
         /\ Cardinality(Holders(s)') <= Cardinality(Holders(s))
  BY HoldersFinite, FS_Subset, FS_CardinalityType

LEMMA StepRuns ==
  ASSUME ScheduleTypeOK, RunsInv, [ScheduleNext]_scVars
  PROVE  RunsInv'
  <1> USE DEF RunsInv
  <1> DEFINE N == Cardinality(Dispatchers)
  <1>0. N \in Nat
    BY HoldersFinite
  <1>1. CASE \E s \in Schedules : CreateSchedule(s)
    <2>1. PICK c \in Schedules : CreateSchedule(c)
      BY <1>1
    <2>2. HeldOnce'
      BY <2>1 DEF CreateSchedule, HeldOnce
    <2>3. ASSUME NEW s \in Schedules PROVE RunsCovered(s)'
      <3>1. Holders(s)' = Holders(s)
        BY <2>1 DEF CreateSchedule, Holders, HoldsEnvelope
      <3> QED  BY <2>1, <3>1 DEF CreateSchedule, RunsCovered, ScheduleTypeOK
    <2> QED  BY <2>2, <2>3
  <1>2. CASE Tick \/ UNCHANGED scVars
    <2>1. UNCHANGED <<envelope, request, executed, failures>>
      BY <1>2 DEF Tick, scVars
    <2>2. \A s \in Schedules : Holders(s)' = Holders(s)
      BY <2>1 DEF Holders, HoldsEnvelope
    <2> QED  BY <2>1, <2>2 DEF HeldOnce, RunsCovered
  <1>3. ASSUME NEW d \in Dispatchers, Begin(d) PROVE RunsInv'
    <2>1. HeldOnce'
      BY <1>3 DEF Begin, HeldOnce, ScheduleTypeOK
    <2>2. ASSUME NEW s \in Schedules PROVE RunsCovered(s)'
      <3>1. CASE envelope[s] = "dispatched"
        <4>1. s \notin Listed
          BY <3>1 DEF Listed, Due
        <4>2. Holders(s)' \subseteq Holders(s)
          BY <1>3, <4>1 DEF Begin, Holders, HoldsEnvelope, ScheduleTypeOK
        <4> QED  BY <1>0, <1>3, <3>1, <4>2, HoldersShrink
                 DEF Begin, RunsCovered, ScheduleTypeOK
      <3>2. CASE envelope[s] # "dispatched"
        BY <1>3, <3>2 DEF Begin, RunsCovered
      <3> QED  BY <3>1, <3>2
    <2> QED  BY <2>1, <2>2
  <1>4. ASSUME NEW d \in Dispatchers, Submit(d) \/ Finish(d) PROVE RunsInv'
    <2>1. HeldOnce'
      BY <1>4 DEF Submit, Finish, HeldOnce, NoRequest, ScheduleTypeOK
    <2>2. ASSUME NEW s \in Schedules PROVE RunsCovered(s)'
      <3>1. Holders(s)' \subseteq Holders(s)
        BY <1>4 DEF Submit, Finish, Holders, HoldsEnvelope, NoRequest, ScheduleTypeOK
      <3>2. UNCHANGED <<envelope, executed, failures>>
        BY <1>4 DEF Submit, Finish
      <3> QED  BY <1>0, <3>1, <3>2, HoldersShrink DEF RunsCovered, ScheduleTypeOK
    <2> QED  BY <2>1, <2>2
  <1>5. ASSUME NEW d \in Dispatchers, Mark(d) PROVE RunsInv'
    <2>0. PICK m \in Schedules : m = request[d].s
      BY <1>5 DEF Mark, ScheduleTypeOK, Request
    <2>1. m \notin request[d].due /\ d \in Holders(m)
      BY <1>5, <2>0 DEF Mark, ScheduleTypeOK, HeldOnce, Holders, HoldsEnvelope
    <2>2. HeldOnce'
      BY <1>5 DEF Mark, HeldOnce, NoRequest, ScheduleTypeOK
    <2>3. Holders(m)' \subseteq Holders(m) \ {d}
      BY <1>5, <2>0, <2>1 DEF Mark, Holders, HoldsEnvelope, NoRequest, ScheduleTypeOK
    <2>4. RunsCovered(m)'
      <3>1. /\ Cardinality(Holders(m)') \in Nat
            /\ Cardinality(Holders(m)') + 1 <= Cardinality(Holders(m))
        BY <2>1, <2>3, HolderLost
      <3>2. Cardinality(Holders(m)) \in Nat /\ Cardinality(Holders(m)) <= N
        BY HoldersFinite
      <3>3. executed'[m] = executed[m] + 1 /\ envelope'[m] = "dispatched"
        BY <1>5, <2>0 DEF Mark, ScheduleTypeOK
      <3>4. executed[m] \in Nat /\ failures \in Nat /\ failures' = failures
        BY <1>5, <2>1 DEF Mark, ScheduleTypeOK
      <3>5. RunsCovered(m)
        BY <2>1
      <3> QED  BY <1>0, <3>1, <3>2, <3>3, <3>4, <3>5 DEF RunsCovered
    <2>5. ASSUME NEW s \in Schedules, s # m PROVE RunsCovered(s)'
      <3>1. Holders(s)' \subseteq Holders(s)
        BY <1>5 DEF Mark, Holders, HoldsEnvelope, NoRequest, ScheduleTypeOK
      <3>2. envelope'[s] = envelope[s] /\ executed'[s] = executed[s] /\ failures' = failures
        BY <1>5, <2>0, <2>5 DEF Mark, ScheduleTypeOK
      <3> QED  BY <1>0, <3>1, <3>2, HoldersShrink DEF RunsCovered, ScheduleTypeOK
    <2> QED  BY <2>2, <2>4, <2>5
  <1>6. ASSUME NEW d \in Dispatchers, Fail(d) PROVE RunsInv'
    <2>1. HeldOnce'
      BY <1>6 DEF Fail, HeldOnce, NoRequest, ScheduleTypeOK
    <2>2. ASSUME NEW s \in Schedules PROVE RunsCovered(s)'
      <3>1. Holders(s)' \subseteq Holders(s)
        BY <1>6 DEF Fail, Holders, HoldsEnvelope, NoRequest, ScheduleTypeOK
      <3>2. /\ executed'[s] \in {executed[s], executed[s] + 1}
            /\ failures' = failures + 1 /\ envelope' = envelope
        BY <1>6 DEF Fail, ScheduleTypeOK
      <3>3. executed[s] \in Nat /\ failures \in Nat /\ RunsCovered(s)
        BY DEF ScheduleTypeOK
      <3> QED  BY <1>0, <3>1, <3>2, <3>3, HoldersShrink DEF RunsCovered
    <2> QED  BY <2>1, <2>2
  <1> QED  BY <1>1, <1>2, <1>3, <1>4, <1>5, <1>6 DEF ScheduleNext, Dispatch

(* An envelope is executed at most once per death of a request and per        *)
(* request that may overlap: exactly once when none dies and the caller of    *)
(* dispatch-due waits for its answer.                                         *)
THEOREM ScheduleRunsBounded == ScheduleSpec => []RunsBounded
  <1>1. ScheduleInit => RunsInv
    BY DEF ScheduleInit, RunsInv, HeldOnce, RunsCovered, NoRequest
  <1>2. ScheduleTypeOK /\ RunsInv => RunsBounded
    <2> SUFFICES ASSUME ScheduleTypeOK, RunsInv, NEW s \in Schedules
                 PROVE  executed[s] <= failures + Cardinality(Dispatchers)
      BY DEF RunsBounded
    <2>1. RunsCovered(s) /\ executed[s] \in Nat /\ failures \in Nat
      BY DEF RunsInv, ScheduleTypeOK
    <2>2. Cardinality(Dispatchers) \in Nat /\ Cardinality(Holders(s)) \in Nat
      BY HoldersFinite
    <2> QED  BY <2>1, <2>2 DEF RunsCovered
  <1> QED  BY <1>1, <1>2, StepRuns, ScheduleTypeCorrect, PTL DEF ScheduleSpec
==============================================================================
