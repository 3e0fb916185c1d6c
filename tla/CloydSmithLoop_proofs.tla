----------------------- MODULE CloydSmithLoop_proofs -----------------------
(* Theorems about CloydSmithLoop, for every number of jobs, aliases,       *)
(* limits and bounds.                                                      *)
EXTENDS CloydSmithLoop, TLAPS

(* Replacing the head of a list of operations keeps it such a list. *)
LEMMA OpSeqs ==
    /\ \A s \in Seq(Op) : s # <<>> => Head(s) \in Op /\ Tail(s) \in Seq(Op)
    /\ \A o \in Op : <<o>> \in Seq(Op)
    /\ \A o, p \in Op : <<o, p>> \in Seq(Op)
    /\ \A o, p, q \in Op : <<o, p, q>> \in Seq(Op)
    /\ <<>> \in Seq(Op)
  OBVIOUS

LEMMA OpKinds ==
  ASSUME NEW o \in Op
  PROVE  /\ o.kind = "look" => o \in LookOp
         /\ o.kind = "beat" => o \in BeatOp
         /\ o.kind = "update" => o \in UpdateOp
         /\ o.kind = "save" => o \in SaveOp
         /\ o.kind = "abort" => o \in AbortOp
  BY DEF Op, LookOp, BeatOp, UpdateOp, SaveOp, AbortOp

LEMMA OpsTyped ==
  /\ \A j \in Jobs, s \in Beats :
        /\ Beat(j, s) \in Op /\ FreshBeat(j, s) \in Op
        /\ Upsert(j, s, StartOf(j)) \in Op
  /\ \A j \in Jobs, s \in Statuses \cup {Keep}, m \in Meta \cup {Keep} :
        Update(j, s, m) \in Op
  /\ \A a \in Aliases : Abort(a) \in Op
  BY DEF Op, LookOp, BeatOp, UpdateOp, AbortOp, Beat, FreshBeat, Upsert, StartOf,
         Update, Abort

LEMMA StatusSets ==
  /\ Statuses \subseteq Beats
  /\ "busy_timeout" \in Beats
  /\ \A s \in {"queued", "running", "needs_review", "blocked", "done",
               "stopped", "stale"} : s \in Statuses
  BY DEF Beats, Statuses

(* Snapshots of rows are typed, and so is every part of a list of them. *)
LEMMA RowsTyped ==
  ASSUME TypeOK, NEW S \in SUBSET Jobs
  PROVE  Rows(S) \in SUBSET Snapshot
  BY DEF TypeOK, Rows, Snapshot

LEMMA ListsTyped ==
  ASSUME TypeOK
  PROVE  /\ RunningRows \in SUBSET Snapshot
         /\ \A S, T : Rows(Listed(InState(S), ListLimit) \ InState(T))
                        \in SUBSET Snapshot
         /\ \A S : Rows(InState(S)) \in SUBSET Snapshot
         /\ \A S : Rows({j \in InState(S) : hb[j].state = "busy_timeout"})
                     \in SUBSET Snapshot
  BY RowsTyped DEF RunningRows, Listed, InState

LEMMA GotoTyped ==
  ASSUME TypeOK, NEW a \in Actors, NEW p \in Points, NEW j \in Jobs \cup {0},
         NEW L \in SUBSET Snapshot, p \in Sending => j \in Jobs,
         Goto(a, p, j, L)
  PROVE  ctl' \in [Actors -> Control]
  BY DEF TypeOK, Goto, Control

(* Control points outside a send need no job. *)
LEMMA GotoNoJobTyped ==
  ASSUME TypeOK, NEW a \in Actors, NEW p \in Points \ Sending,
         NEW L \in SUBSET Snapshot, Goto(a, p, 0, L)
  PROVE  ctl' \in [Actors -> Control]
  <1>1. 0 \in Jobs \cup {0} /\ p \in Points /\ (p \in Sending => 0 \in Jobs)
    OBVIOUS
  <1> QED  BY <1>1, GotoTyped

LEMMA ThenTyped ==
  ASSUME TypeOK, NEW a \in Actors, NEW s \in Seq(Op), Then(a, s)
  PROVE  todo' \in [Actors -> Seq(Op)]
  BY DEF TypeOK, Then

LEMMA HeadTyped ==
  ASSUME TypeOK, NEW a \in Actors, todo[a] # <<>>
  PROVE  Head(todo[a]) \in Op /\ Tail(todo[a]) \in Seq(Op)
  BY OpSeqs DEF TypeOK

LEMMA DoneTyped ==
  ASSUME TypeOK, NEW a \in Actors, todo[a] # <<>>, Done(a)
  PROVE  todo' \in [Actors -> Seq(Op)]
  BY HeadTyped DEF TypeOK, Done

LEMMA SupActors == Sup \in Actors /\ Dir \in Actors /\ "cli" \in Actors
  BY DEF Sup, Dir, Actors

LEMMA ReportTyped ==
  ASSUME NEW j \in Jobs, NEW s \in Statuses
  PROVE  Report(j, s) \in Seq(Op)
  <1>1. Beat(j, s) \in Op /\ Update(j, s, Keep) \in Op
    BY OpsTyped, StatusSets
  <1> QED  BY <1>1, OpSeqs DEF Report

LEMMA AfterStatusTyped ==
  ASSUME ConstantsOK, NEW j \in Jobs, NEW seen
  PROVE  AfterStatus(j, seen) \in Seq(Op)
  <1>1. /\ Report(j, "blocked") \in Seq(Op)
        /\ Report(j, "needs_review") \in Seq(Op)
        /\ Report(j, "running") \in Seq(Op)
    BY ReportTyped, StatusSets
  <1>2. AliasOf[j] \in Aliases
    BY DEF ConstantsOK
  <1>3. /\ Abort(AliasOf[j]) \in Op
        /\ Beat(j, "busy_timeout") \in Op
        /\ Beat(j, "running") \in Op
        /\ Update(j, "blocked", Keep) \in Op
        /\ Update(j, Keep, Keep) \in Op
    BY <1>2, OpsTyped, StatusSets
  <1>4. /\ <<Abort(AliasOf[j]), Beat(j, "busy_timeout"), Update(j, "blocked", Keep)>>
             \in Seq(Op)
        /\ <<Beat(j, "running"), Update(j, Keep, Keep)>> \in Seq(Op)
    BY <1>3, OpSeqs
  <1> QED  BY <1>1, <1>4 DEF AfterStatus

-----------------------------------------------------------------------------
(* Every ledger operation keeps the types. *)
LEMMA LedgerStepTyped ==
  ASSUME TypeOK, NEW a \in Actors, LedgerStep(a)
  PROVE  TypeOK'
  <1>1. CASE ReadRow(a)
    <2> DEFINE u == Head(todo[a])
               r == row[u.job]
               new == [status |-> IF u.to = Keep THEN r.status ELSE u.to,
                       meta |-> IF u.meta = Keep THEN r.meta ELSE u.meta]
               sv == [kind |-> "save", job |-> u.job, row |-> new]
    <2>1. todo[a] # <<>> /\ u.kind = "update"
      BY <1>1 DEF ReadRow, Doing
    <2>2. u \in UpdateOp /\ Tail(todo[a]) \in Seq(Op)
      BY <2>1, HeadTyped, OpKinds
    <2>3. r \in Row
      BY <2>2 DEF TypeOK, UpdateOp
    <2>4. new \in Row
      BY <2>2, <2>3 DEF UpdateOp, Row
    <2>5. sv \in Op
      BY <2>2, <2>4 DEF UpdateOp, SaveOp, Op
    <2>6. [todo[a] EXCEPT ![1] = sv] \in Seq(Op)
      BY <2>1, <2>5 DEF TypeOK
    <2>7. todo' \in [Actors -> Seq(Op)]
      BY <1>1, <2>6 DEF ReadRow, TypeOK
    <2> QED  BY <1>1, <2>7 DEF ReadRow, TypeOK, ledger, history
  <1>2. CASE WriteRow(a)
    <2>1. todo[a] # <<>> /\ Head(todo[a]).kind = "save"
      BY <1>2 DEF WriteRow, Doing
    <2>2. Head(todo[a]) \in SaveOp
      BY <2>1, HeadTyped, OpKinds
    <2>3. todo' \in [Actors -> Seq(Op)]
      BY <1>2, <2>1, DoneTyped DEF WriteRow
    <2>4. row' \in [Jobs -> Row] /\ entered' \in [Jobs -> Nat]
      BY <1>2, <2>2 DEF WriteRow, TypeOK, SaveOp
    <2> QED  BY <1>2, <2>3, <2>4 DEF WriteRow, TypeOK
  <1>a. CASE ReadHeartbeat(a)
    <2> DEFINE b == Head(todo[a])
               w == Upsert(b.job, b.state, StartOf(b.job))
    <2>1. todo[a] # <<>> /\ b.kind = "look"
      BY <1>a DEF ReadHeartbeat, Doing
    <2>2. b \in LookOp
      BY <2>1, HeadTyped, OpKinds
    <2>3. w \in Op
      BY <2>2, OpsTyped DEF LookOp
    <2>4. [todo[a] EXCEPT ![1] = w] \in Seq(Op)
      BY <2>1, <2>3 DEF TypeOK
    <2> HIDE DEF w
    <2>5. todo' = [todo EXCEPT ![a][1] = w]
      BY <1>a DEF ReadHeartbeat, w
    <2>6. todo' \in [Actors -> Seq(Op)]
      BY <2>4, <2>5 DEF TypeOK
    <2> QED  BY <1>a, <2>6 DEF ReadHeartbeat, TypeOK, ledger, history
  <1>3. CASE RecordHeartbeat(a)
    <2>1. todo[a] # <<>> /\ Head(todo[a]).kind = "beat"
      BY <1>3 DEF RecordHeartbeat, Doing
    <2>2. Head(todo[a]) \in BeatOp
      BY <2>1, HeadTyped, OpKinds
    <2>3. todo' \in [Actors -> Seq(Op)]
      BY <1>3, <2>1, DoneTyped DEF RecordHeartbeat
    <2>4. hb' \in [Jobs -> Heartbeat]
      BY <1>3, <2>2 DEF RecordHeartbeat, TypeOK, BeatOp, Heartbeat
    <2> QED  BY <1>3, <2>3, <2>4 DEF RecordHeartbeat, TypeOK, history
  <1>4. CASE AbortSession(a)
    <2>1. todo[a] # <<>> /\ Head(todo[a]).kind = "abort"
      BY <1>4 DEF AbortSession, Doing
    <2>2. Head(todo[a]) \in AbortOp
      BY <2>1, HeadTyped, OpKinds
    <2>3. todo' \in [Actors -> Seq(Op)]
      BY <1>4, <2>1, DoneTyped DEF AbortSession
    <2>4. session' \in [Aliases -> Session]
      <3>1. <<>> \in Seq(Jobs)
        OBVIOUS
      <3> QED  BY <1>4, <2>2, <3>1 DEF AbortSession, TypeOK, AbortOp, Session
    <2> QED  BY <1>4, <2>3, <2>4 DEF AbortSession, TypeOK, history, ledger
  <1> QED  BY <1>1, <1>2, <1>a, <1>3, <1>4 DEF LedgerStep

LEMMA MarkNextStaleTyped ==
  ASSUME TypeOK, NEW a \in Actors, MarkNextStale(a)
  PROVE  TypeOK'
  <1>1. PICK s \in First(ctl[a].list) :
           /\ Goto(a, "marks", 0, ctl[a].list \ {s})
           /\ Then(a, IF hb[s.job].old
                      THEN <<Upsert(s.job, "stale", StartOf(s.job)), Update(s.job, "stale", Keep)>>
                      ELSE <<>>)
    BY DEF MarkNextStale
  <1>2. ctl[a].list \in SUBSET Snapshot /\ s \in Snapshot
    BY <1>1 DEF TypeOK, Control, First
  <1>3. ctl' \in [Actors -> Control]
    BY <1>1, <1>2, GotoNoJobTyped DEF Points, Sending
  <1>4. /\ Upsert(s.job, "stale", StartOf(s.job)) \in Op
        /\ Update(s.job, "stale", Keep) \in Op
    BY <1>2, OpsTyped, StatusSets DEF Snapshot
  <1>5. todo' \in [Actors -> Seq(Op)]
    BY <1>1, <1>4, OpSeqs, ThenTyped
  <1> QED  BY <1>3, <1>5 DEF MarkNextStale, TypeOK, ledger, history

LEMMA SupervisorStepTyped ==
  ASSUME ConstantsOK, TypeOK, SupervisorStep
  PROVE  TypeOK'
  <1> USE SupActors
  <1> DEFINE L == ctl[Sup].list
             j == ctl[Sup].job
  <1>0. L \in SUBSET Snapshot /\ j \in Jobs \cup {0} /\ {} \in SUBSET Snapshot
    BY DEF TypeOK, Control
  <1>1. CASE TickStarts
    <2>1. ctl' \in [Actors -> Control]
      BY <1>1, ListsTyped, GotoNoJobTyped DEF TickStarts, Points, Sending
    <2> QED  BY <1>1, <2>1 DEF TickStarts, TypeOK, ledger, history
  <1>2. CASE MarkNextStale(Sup)
    BY <1>2, MarkNextStaleTyped
  <1>3. CASE ListActive
    <2>1. ctl' \in [Actors -> Control]
      BY <1>3, ListsTyped, GotoNoJobTyped DEF ListActive, Points, Sending
    <2> QED  BY <1>3, <2>1 DEF ListActive, TypeOK, ledger, history
  <1>4. CASE EndTick
    <2>1. ctl' \in [Actors -> Control]
      BY <1>4, <1>0, GotoNoJobTyped DEF EndTick, Points, Sending
    <2> QED  BY <1>4, <2>1 DEF EndTick, TypeOK, ledger, history
  <1>5. CASE CheckJob
    <2>1. PICK s \in First(L) :
             /\ Goto(Sup, "runs", 0, L \ {s})
             /\ Then(Sup, AfterStatus(s.job, s.row.status))
      BY <1>5 DEF CheckJob
    <2>2. s.job \in Jobs /\ L \ {s} \in SUBSET Snapshot
      BY <1>0, <2>1 DEF First, Snapshot
    <2>3. ctl' \in [Actors -> Control]
      BY <2>1, <2>2, GotoNoJobTyped DEF Points, Sending
    <2>4. todo' \in [Actors -> Seq(Op)]
      BY <2>1, <2>2, AfterStatusTyped, ThenTyped
    <2> QED  BY <1>5, <2>3, <2>4 DEF CheckJob, TypeOK, ledger, history
  <1>6. CASE BeginSend
    <2>1. PICK s \in First(L) :
             /\ Goto(Sup, "send", s.job, L \ {s})
             /\ Then(Sup, <<Update(s.job, "running", Keep),
                            FreshBeat(s.job, "running")>>)
      BY <1>6 DEF BeginSend
    <2>2. s.job \in Jobs /\ L \ {s} \in SUBSET Snapshot
      BY <1>0, <2>1 DEF First, Snapshot
    <2>3. ctl' \in [Actors -> Control]
      BY <2>1, <2>2, GotoTyped DEF Points, Sending
    <2>4. todo' \in [Actors -> Seq(Op)]
      BY <2>1, <2>2, OpsTyped, OpSeqs, StatusSets, ThenTyped
    <2> QED  BY <1>6, <2>3, <2>4 DEF BeginSend, TypeOK, ledger, history
  <1>7. CASE SendPrompt
    <2>1. j \in Jobs
      BY <1>7 DEF SendPrompt, Ready, TypeOK, Control, Sending
    <2>2. ctl' \in [Actors -> Control]
      BY <1>7, <1>0, <2>1, GotoTyped DEF SendPrompt, Points, Sending
    <2>3. session' \in [Aliases -> Session]
      <3>1. AliasOf[j] \in Aliases
        BY <2>1 DEF ConstantsOK
      <3>2. session[AliasOf[j]].queue \in Seq(Jobs)
        BY <3>1 DEF TypeOK, Session
      <3>3. Append(session[AliasOf[j]].queue, j) \in Seq(Jobs)
        BY <2>1, <3>2
      <3> QED  BY <1>7, <3>1, <3>3 DEF SendPrompt, TypeOK, Session
    <2>4. sent' \in [Jobs -> Nat]
      BY <1>7, <2>1 DEF SendPrompt, TypeOK
    <2> QED  BY <1>7, <2>2, <2>3, <2>4 DEF SendPrompt, TypeOK, ledger
  <1>8. CASE SendRefused \/ SendAnswered \/ SendFailed
    <2>1. j \in Jobs
      BY <1>8 DEF SendRefused, SendAnswered, SendFailed, Ready, TypeOK, Control, Sending
    <2>2. Goto(Sup, "runs", 0, L)
      BY <1>8 DEF SendRefused, SendAnswered, SendFailed
    <2>3. ctl' \in [Actors -> Control]
      BY <1>0, <2>2, GotoNoJobTyped DEF Points, Sending
    <2>4. Then(Sup, Report(j, "blocked")) \/ Then(Sup, Report(j, "running"))
      BY <1>8 DEF SendRefused, SendAnswered, SendFailed
    <2>5. todo' \in [Actors -> Seq(Op)]
      BY <2>1, <2>4, ReportTyped, StatusSets, ThenTyped
    <2> QED
      BY <1>8, <2>3, <2>5
      DEF SendRefused, SendAnswered, SendFailed, TypeOK, ledger, history
  <1>9. CASE SendTimedOut
    <2>1. j \in Jobs
      BY <1>9 DEF SendTimedOut, Ready, TypeOK, Control, Sending
    <2>2. ctl' \in [Actors -> Control]
      BY <1>9, <1>0, <2>1, GotoTyped DEF SendTimedOut, Points, Sending
    <2> QED  BY <1>9, <2>2 DEF SendTimedOut, TypeOK, ledger, history
  <1>10. CASE CheckAfterTimeout
    <2>1. j \in Jobs
      BY <1>10 DEF CheckAfterTimeout, Ready, TypeOK, Control, Sending
    <2>2. ctl' \in [Actors -> Control]
      BY <1>10, <1>0, GotoNoJobTyped DEF CheckAfterTimeout, Points, Sending
    <2>3. todo' \in [Actors -> Seq(Op)]
      BY <1>10, <2>1, AfterStatusTyped, ThenTyped DEF CheckAfterTimeout
    <2> QED  BY <1>10, <2>2, <2>3 DEF CheckAfterTimeout, TypeOK, ledger, history
  <1> QED
    BY <1>1, <1>2, <1>3, <1>4, <1>5, <1>6, <1>7, <1>8, <1>9, <1>10 DEF SupervisorStep

LEMMA RequestTyped ==
  ASSUME TypeOK, NEW a \in Actors, NEW op, Request(a, op)
  PROVE  spent' \in [ops : Nat, crashes : Nat, outages : Nat]
  <1>1. spent \in [ops : Nat, crashes : Nat, outages : Nat]
    BY DEF TypeOK
  <1>2. spent.ops + 1 \in Nat
    BY <1>1
  <1> QED  BY <1>1, <1>2 DEF Request

LEMMA HandleTyped ==
  ASSUME TypeOK, NEW op, NEW j \in Jobs, NEW from, NEW s \in Seq(Op),
         Handle(op, j, from, s), granted' \in [Jobs -> Meta]
  PROVE  TypeOK'
  <1>1. spent' \in [ops : Nat, crashes : Nat, outages : Nat]
    BY SupActors, RequestTyped DEF Handle
  <1>2. todo' \in [Actors -> Seq(Op)]
    BY SupActors, ThenTyped DEF Handle
  <1> QED  BY <1>1, <1>2 DEF Handle, TypeOK, ledger

LEMMA InsertTyped ==
  ASSUME TypeOK, NEW j \in Jobs, Insert(j)
  PROVE  row' \in [Jobs -> Row] /\ entered' \in [Jobs -> Nat]
  <1>1. [row[j] EXCEPT !.status = "queued"] \in Row
    <2>1. row[j] \in Row /\ "queued" \in Statuses
      BY StatusSets DEF TypeOK
    <2> QED  BY <2>1 DEF Row
  <1>2. row' \in [Jobs -> Row]
    BY <1>1 DEF TypeOK, Insert
  <1>3. entered' \in [Jobs -> Nat]
    BY DEF TypeOK, Insert
  <1> QED  BY <1>2, <1>3

(* The pair of operations most requests end in. *)
LEMMA PairTyped ==
  ASSUME NEW j \in Jobs, NEW s \in Statuses, NEW m \in Meta \cup {Keep}
  PROVE  /\ <<Update(j, s, m), Beat(j, s)>> \in Seq(Op)
         /\ <<Update(j, s, m), FreshBeat(j, s)>> \in Seq(Op)
         /\ <<Update(j, s, m)>> \in Seq(Op)
  <1>1. Update(j, s, m) \in Op /\ Beat(j, s) \in Op /\ FreshBeat(j, s) \in Op
    BY OpsTyped, StatusSets
  <1> QED  BY <1>1, OpSeqs

LEMMA JobRequestTyped ==
  ASSUME ConstantsOK, TypeOK, NEW j \in Jobs
  PROVE  /\ Submit(j) => TypeOK'
         /\ MarkDone(j) \/ ClearDone(j) \/ MarkBlocked(j) => TypeOK'
         /\ StopJob(j) \/ ToolStop(j) => TypeOK'
         /\ Record(j) => TypeOK'
         /\ FollowUp(j) => TypeOK'
         /\ Retry(j) => TypeOK'
         /\ \A r \in Jobs : Replace(j, r) => TypeOK'
  <1> USE SupActors
  <1>a. row[j].meta \in Meta /\ Keep \in Meta \cup {Keep}
    BY DEF TypeOK, Row
  <1>b. row[j].meta.followUps + 1 \in Nat
    BY <1>a DEF Meta
  <1>0. /\ row[j].meta \in Meta /\ Keep \in Meta \cup {Keep}
        /\ [row[j].meta EXCEPT !.followUps = @ + 1] \in Meta
    BY <1>a, <1>b DEF Meta
  <1>1. ASSUME Submit(j) PROVE TypeOK'
    BY <1>1, InsertTyped DEF Submit, TypeOK
  <1>2. ASSUME MarkDone(j) \/ ClearDone(j) \/ MarkBlocked(j) PROVE TypeOK'
    <2>1. granted' \in [Jobs -> Meta]
      BY <1>2 DEF MarkDone, ClearDone, MarkBlocked, TypeOK
    <2>2. \E op, from : \E s \in Statuses :
             Handle(op, j, from, <<Update(j, s, Keep), Beat(j, s)>>)
      BY <1>2, StatusSets DEF MarkDone, ClearDone, MarkBlocked
    <2> QED  BY <1>0, <2>1, <2>2, PairTyped, HandleTyped
  <1>3. ASSUME StopJob(j) \/ ToolStop(j) PROVE TypeOK'
    <2>1. granted' \in [Jobs -> Meta]
      BY <1>3 DEF StopJob, ToolStop, TypeOK
    <2>2. \E op, from : \E s \in Statuses :
             \/ Handle(op, j, from, <<Update(j, s, Keep), Beat(j, s)>>)
             \/ Handle(op, j, from, <<Update(j, s, Keep)>>)
      BY <1>3, StatusSets DEF StopJob, ToolStop
    <2> QED  BY <1>0, <2>1, <2>2, PairTyped, HandleTyped
  <1>4. ASSUME Record(j) PROVE TypeOK'
    <2>1. granted' \in [Jobs -> Meta]
      BY <1>4 DEF Record, TypeOK
    <2>2. PICK s \in Statuses \cup {Keep} :
             Handle("record", j, Statuses, <<Update(j, s, Keep)>>)
      BY <1>4 DEF Record, ConstantsOK
    <2>3. <<Update(j, s, Keep)>> \in Seq(Op)
      BY <2>2, OpsTyped, OpSeqs
    <2> QED  BY <2>1, <2>2, <2>3, HandleTyped
  <1>5. ASSUME FollowUp(j) PROVE TypeOK'
    <2>1. granted' \in [Jobs -> Meta]
      <3>1. granted \in [Jobs -> Meta]
        BY DEF TypeOK
      <3>2. [granted[j] EXCEPT !.followUps = @ + 1] \in Meta
        BY <3>1 DEF Meta
      <3>3. granted' = [granted EXCEPT ![j] = [granted[j] EXCEPT !.followUps = @ + 1]]
        BY <1>5, <3>1 DEF FollowUp
      <3> QED  BY <3>1, <3>2, <3>3
    <2>2. <<Update(j, "queued", [row[j].meta EXCEPT !.followUps = @ + 1]),
            FreshBeat(j, "queued")>> \in Seq(Op)
      BY <1>0, PairTyped, StatusSets
    <2> QED  BY <1>5, <2>1, <2>2, HandleTyped DEF FollowUp
  <1>6. ASSUME Retry(j) PROVE TypeOK'
    <2>1. spent' \in [ops : Nat, crashes : Nat, outages : Nat]
      BY <1>6, RequestTyped DEF Retry
    <2>2. Rows({j}) \in SUBSET Snapshot
      BY RowsTyped
    <2>3. ctl' \in [Actors -> Control]
      BY <1>6, <2>2, GotoNoJobTyped DEF Retry, Points, Sending
    <2> QED  BY <1>6, <2>1, <2>3 DEF Retry, TypeOK, ledger, history
  <1>7. ASSUME NEW r \in Jobs, Replace(j, r) PROVE TypeOK'
    <2>1. spent' \in [ops : Nat, crashes : Nat, outages : Nat]
      BY <1>7, RequestTyped DEF Replace
    <2>2. /\ Update(j, "stopped", row[j].meta) \in Op
          /\ Beat(j, "stopped") \in Op /\ Beat(r, "queued") \in Op
      BY <1>0, OpsTyped, StatusSets
    <2>3. todo' \in [Actors -> Seq(Op)]
      BY <1>7, <2>2, OpSeqs, ThenTyped DEF Replace
    <2> QED  BY <1>7, <2>1, <2>3, InsertTyped DEF Replace, TypeOK
  <1> QED  BY <1>1, <1>2, <1>3, <1>4, <1>5, <1>6, <1>7

LEMMA PreflightTyped ==
  ASSUME ConstantsOK, TypeOK, PreflightRetry
  PROVE  TypeOK'
  <1> USE SupActors
  <1>1. PICK s \in ctl[Dir].list :
          \/ UNCHANGED <<todo, granted>>
          \/ /\ Then(Dir, <<Update(s.job, Keep, Keep)>>)
             /\ UNCHANGED granted
          \/ /\ Then(Dir, <<Update(s.job, "queued",
                                   [s.row.meta EXCEPT !.retries = @ + 1]),
                            FreshBeat(s.job, "queued")>>)
             /\ granted' = [granted EXCEPT ![s.job].retries = @ + 1]
    BY DEF PreflightRetry
  <1>2. s.job \in Jobs /\ s.row.meta \in Meta
    BY <1>1 DEF TypeOK, Control, Snapshot, Row
  <1>3. s.row.meta.retries + 1 \in Nat /\ granted[s.job].retries + 1 \in Nat
    <2>1. granted[s.job] \in Meta
      BY <1>2 DEF TypeOK
    <2> QED  BY <1>2, <2>1 DEF Meta
  <1>4. [s.row.meta EXCEPT !.retries = @ + 1] \in Meta
    BY <1>2, <1>3 DEF Meta
  <1>5. /\ <<Update(s.job, Keep, Keep)>> \in Seq(Op)
        /\ <<Update(s.job, "queued", [s.row.meta EXCEPT !.retries = @ + 1]),
             FreshBeat(s.job, "queued")>> \in Seq(Op)
    <2>1. Update(s.job, Keep, Keep) \in Op
      BY <1>2, OpsTyped
    <2> QED  BY <1>2, <1>4, <2>1, OpSeqs, PairTyped, StatusSets
  <1>6. todo' \in [Actors -> Seq(Op)]
    BY <1>1, <1>5, ThenTyped DEF TypeOK
  <1>7. granted' \in [Jobs -> Meta]
    <2>1. [granted[s.job] EXCEPT !.retries = @ + 1] \in Meta
      BY <1>2, <1>3 DEF TypeOK, Meta
    <2> QED  BY <1>1, <1>2, <2>1 DEF TypeOK
  <1>8. ctl' \in [Actors -> Control]
    <2>1. {} \in SUBSET Snapshot
      OBVIOUS
    <2> QED  BY <2>1, GotoNoJobTyped DEF PreflightRetry, Points, Sending
  <1> QED  BY <1>6, <1>7, <1>8 DEF PreflightRetry, TypeOK, ledger

LEMMA BulkOpsTyped ==
  ASSUME NEW s \in Snapshot, NEW at \in {"requeue", "stop_all", "reset"}
  PROVE  BulkOps(at, s) \in Seq(Op)
  <1>1. s.job \in Jobs /\ s.row.meta \in Meta
    BY DEF Snapshot, Row
  <1>2. Update(s.job, Keep, s.row.meta) \in Op
    BY <1>1, OpsTyped
  <1>3. /\ <<Update(s.job, "queued", s.row.meta), FreshBeat(s.job, "queued")>>
              \in Seq(Op)
        /\ <<Update(s.job, "stopped", Keep), Beat(s.job, "stopped")>> \in Seq(Op)
        /\ <<Update(s.job, Keep, s.row.meta)>> \in Seq(Op)
    BY <1>1, <1>2, OpSeqs, PairTyped, StatusSets
  <1> QED  BY <1>3 DEF BulkOps

(* The requests that concern no job in particular, and what follows them.  *)
LEMMA BulkTyped ==
  ASSUME ConstantsOK, TypeOK
  PROVE  /\ StatusPoll \/ EndPoll \/ EndBulk => TypeOK'
         /\ RequeueIncomplete \/ StopAll => TypeOK'
         /\ RuntimeStop \/ RuntimeReset => TypeOK'
         /\ BulkNext => TypeOK'
         /\ RestartSession => TypeOK'
  <1> USE SupActors
  <1>0. /\ {} \in SUBSET Snapshot
        /\ <<Abort(MainAlias)>> \in Seq(Op) /\ <<>> \in Seq(Op)
    BY OpsTyped, OpSeqs DEF ConstantsOK
  <1>1. ASSUME StatusPoll \/ EndPoll \/ EndBulk PROVE TypeOK'
    <2>1. ctl' \in [Actors -> Control]
      BY <1>0, <1>1, ListsTyped, GotoNoJobTyped
      DEF StatusPoll, EndPoll, EndBulk, Points, Sending
    <2> QED
      BY <1>1, <2>1 DEF StatusPoll, EndPoll, EndBulk, TypeOK, ledger, history
  <1>2. ASSUME RequeueIncomplete \/ StopAll PROVE TypeOK'
    <2>1. ctl' \in [Actors -> Control]
      BY <1>2, ListsTyped, GotoNoJobTyped DEF RequeueIncomplete, StopAll, Points, Sending
    <2>2. todo' \in [Actors -> Seq(Op)]
      BY <1>0, <1>2, ThenTyped DEF RequeueIncomplete, StopAll
    <2>3. spent' \in [ops : Nat, crashes : Nat, outages : Nat]
      BY <1>2, RequestTyped DEF RequeueIncomplete, StopAll
    <2> QED
      BY <1>2, <2>1, <2>2, <2>3
      DEF RequeueIncomplete, StopAll, TypeOK, ledger, history
  <1>3. ASSUME RuntimeStop \/ RuntimeReset PROVE TypeOK'
    <2>1. ctl' \in [Actors -> Control]
      BY <1>0, <1>3, GotoNoJobTyped
      DEF RuntimeStop, RuntimeReset, Points, Sending, TypeOK
    <2>2. todo' \in [Actors -> Seq(Op)]
      BY <1>0, <1>3, ThenTyped DEF RuntimeStop, RuntimeReset
    <2>3. spent' \in [ops : Nat, crashes : Nat, outages : Nat]
      BY <1>3, RequestTyped DEF RuntimeStop, RuntimeReset
    <2> QED
      BY <1>3, <2>1, <2>2, <2>3
      DEF RuntimeStop, RuntimeReset, TypeOK, ledger, history
  <1>4. ASSUME BulkNext PROVE TypeOK'
    <2>1. PICK s \in ctl[Dir].list :
             /\ Goto(Dir, ctl[Dir].at, 0, ctl[Dir].list \ {s})
             /\ Then(Dir, BulkOps(ctl[Dir].at, s))
      BY <1>4 DEF BulkNext
    <2>2. ctl[Dir].at \in {"requeue", "stop_all", "reset"}
      BY <1>4 DEF BulkNext, Ready
    <2>3. s \in Snapshot /\ ctl[Dir].list \ {s} \in SUBSET Snapshot
      BY DEF TypeOK, Control
    <2>4. ctl' \in [Actors -> Control]
      BY <2>1, <2>2, <2>3, GotoNoJobTyped DEF Points, Sending
    <2>5. todo' \in [Actors -> Seq(Op)]
      BY <2>1, <2>2, <2>3, BulkOpsTyped, ThenTyped
    <2> QED  BY <1>4, <2>4, <2>5 DEF BulkNext, TypeOK, ledger, history
  <1>5. ASSUME RestartSession PROVE TypeOK'
    <2>1. ctl' \in [Actors -> Control]
      BY <1>0, <1>5, ListsTyped, GotoNoJobTyped DEF RestartSession, Points, Sending
    <2>2. session' \in [Aliases -> Session]
      <3>1. <<>> \in Seq(Jobs)
        OBVIOUS
      <3>2. [started |-> TRUE, queue |-> <<>>] \in Session
        BY <3>1 DEF Session
      <3> QED  BY <1>5, <3>2 DEF RestartSession, TypeOK
    <2> QED  BY <1>5, <2>1, <2>2 DEF RestartSession, TypeOK, ledger, history
  <1> QED  BY <1>1, <1>2, <1>3, <1>4, <1>5

LEMMA CliStopTyped ==
  ASSUME ConstantsOK, TypeOK, NEW j \in Jobs, CliStop(j)
  PROVE  TypeOK'
  <1> USE SupActors
  <1>1. /\ Abort(AliasOf[j]) \in Op /\ Beat(j, "stopped") \in Op
        /\ Update(j, "stopped", Keep) \in Op
    BY OpsTyped, StatusSets DEF ConstantsOK
  <1>2. todo' \in [Actors -> Seq(Op)]
    BY <1>1, OpSeqs, ThenTyped DEF CliStop
  <1>3. spent' \in [ops : Nat, crashes : Nat, outages : Nat]
    BY RequestTyped DEF CliStop
  <1> QED  BY <1>2, <1>3 DEF CliStop, TypeOK, ledger, history

LEMMA EnvironmentTyped ==
  ASSUME TypeOK, Environment
  PROVE  TypeOK'
  <1>0. /\ spent.ops \in Nat /\ spent.crashes + 1 \in Nat
        /\ spent.outages + 1 \in Nat
    BY DEF TypeOK
  <1>1. ASSUME NEW a \in Aliases, SmithAnswers(a) PROVE TypeOK'
    <2>1. session[a].queue \in Seq(Jobs) /\ session[a].queue # <<>>
      BY <1>1 DEF SmithAnswers, TypeOK, Session
    <2>2. Tail(session[a].queue) \in Seq(Jobs)
      BY <2>1
    <2>3. session' \in [Aliases -> Session]
      BY <1>1, <2>2 DEF SmithAnswers, TypeOK, Session
    <2> QED  BY <1>1, <2>3 DEF SmithAnswers, TypeOK, ledger, history
  <1>2. ASSUME NEW j \in Jobs, BusyWindowPasses(j) \/ HeartbeatAges(j) PROVE TypeOK'
    <2>1. hb' \in [Jobs -> Heartbeat]
      <3>1. hb[j] \in Heartbeat /\ hb \in [Jobs -> Heartbeat]
        BY DEF TypeOK
      <3>2. /\ [hb[j] EXCEPT !.long = TRUE] \in Heartbeat
            /\ [[hb[j] EXCEPT !.long = TRUE] EXCEPT !.old = TRUE] \in Heartbeat
        BY <3>1 DEF Heartbeat
      <3>3. CASE BusyWindowPasses(j)
        BY <3>1, <3>2, <3>3 DEF BusyWindowPasses
      <3>4. CASE HeartbeatAges(j)
        BY <3>1, <3>2, <3>4 DEF HeartbeatAges
      <3> QED  BY <1>2, <3>3, <3>4
    <2> QED
      BY <1>2, <2>1 DEF BusyWindowPasses, HeartbeatAges, TypeOK, history
  <1>3. ASSUME ServerDown PROVE TypeOK'
    <2>1. spent' \in [ops : Nat, crashes : Nat, outages : Nat]
      BY <1>0, <1>3 DEF ServerDown, TypeOK
    <2> QED  BY <1>3, <2>1 DEF ServerDown, TypeOK, ledger, history
  <1>4. ASSUME ServerUp PROVE TypeOK'
    <2>1. <<>> \in Seq(Jobs)
      OBVIOUS
    <2>2. \A a \in Aliases : session[a] \in Session
      BY <1>0 DEF TypeOK
    <2>3. \A x \in Session : [x EXCEPT !.queue = <<>>] \in Session
      BY <2>1 DEF Session
    <2>4. session' \in [Aliases -> Session]
      <3>1. CASE UNCHANGED session
        BY <1>0, <3>1 DEF TypeOK
      <3>2. CASE session' = [a \in Aliases |-> [session[a] EXCEPT !.queue = <<>>]]
        BY <2>2, <2>3, <3>2
      <3> QED  BY <1>4, <3>1, <3>2 DEF ServerUp
    <2> QED  BY <1>4, <2>4 DEF ServerUp, TypeOK, ledger, history
  <1>5. ASSUME NEW a \in Actors, Crash(a) PROVE TypeOK'
    <2>1. spent' \in [ops : Nat, crashes : Nat, outages : Nat]
      BY <1>0, <1>5 DEF Crash, TypeOK
    <2>2. {} \in SUBSET Snapshot
      OBVIOUS
    <2>3. ctl' \in [Actors -> Control]
      BY <1>5, <2>2, GotoNoJobTyped DEF Crash, Points, Sending
    <2>4. todo' \in [Actors -> Seq(Op)]
      BY <1>5, OpSeqs, ThenTyped DEF Crash
    <2> QED  BY <1>5, <2>1, <2>3, <2>4 DEF Crash, TypeOK, ledger, history
  <1> QED  BY <1>1, <1>2, <1>3, <1>4, <1>5 DEF Environment

LEMMA NextTyped ==
  ASSUME ConstantsOK, TypeOK, [Next]_vars
  PROVE  TypeOK'
  <1>1. CASE UNCHANGED vars
    BY <1>1 DEF vars, TypeOK
  <1>2. CASE \E a \in Actors : LedgerStep(a)
    BY <1>2, LedgerStepTyped
  <1>3. CASE SupervisorStep
    BY <1>3, SupervisorStepTyped
  <1>4. CASE DirectorRequest
    BY <1>4, JobRequestTyped, BulkTyped DEF DirectorRequest
  <1>5. CASE DirectorStep
    BY <1>5, SupActors, MarkNextStaleTyped, BulkTyped, PreflightTyped DEF DirectorStep
  <1>6. CASE \E j \in Jobs : CliStop(j)
    BY <1>6, CliStopTyped
  <1>7. CASE Environment
    BY <1>7, EnvironmentTyped
  <1> QED  BY <1>1, <1>2, <1>3, <1>4, <1>5, <1>6, <1>7 DEF Next

LEMMA InitTyped ==
  ASSUME ConstantsOK, Init
  PROVE  TypeOK
  <1>1. <<>> \in Seq(Jobs) /\ <<>> \in Seq(Op)
    OBVIOUS
  <1>2. row \in [Jobs -> Row] /\ hb \in [Jobs -> Heartbeat]
    BY DEF Init, Row, NoMeta, Meta, Heartbeat, Beats
  <1>3. session \in [Aliases -> Session] /\ up \in BOOLEAN
    BY <1>1 DEF Init, Session
  <1>4. todo \in [Actors -> Seq(Op)] /\ ctl \in [Actors -> Control]
    BY <1>1 DEF Init, Control, Points, Sending
  <1> QED  BY <1>2, <1>3, <1>4 DEF Init, TypeOK, NoMeta, Meta

(* The types of the ledger, the sessions and the actors' control state, for *)
(* every instance: in particular an actor never holds an operation on a job *)
(* that does not exist.                                                     *)
THEOREM TypeCorrect == Spec => []TypeOK
  <1>1. Init => TypeOK
    BY InitTyped, ConstantsOK
  <1>2. TypeOK /\ [Next]_vars => TypeOK'
    BY NextTyped, ConstantsOK
  <1> QED  BY <1>1, <1>2, PTL DEF Spec

-----------------------------------------------------------------------------
(* DispatchInv depends on the ledger rows, the counts and the supervisor.  *)
LEMMA DispatchFrame ==
  ASSUME DispatchInv,
         UNCHANGED <<row, entered, sent>>,
         ctl'[Sup] = ctl[Sup], todo'[Sup] = todo[Sup]
  PROVE  DispatchInv'
  BY DEF DispatchInv, SendShape, ListApart, Covered, Claimed, Open, Saving,
         AtSend, Pending, Listing, Doing

(* What the supervisor does outside a send neither opens nor claims.       *)
LEMMA DispatchSettled ==
  ASSUME TypeOK, DispatchInv, UNCHANGED <<row, entered, sent>>,
         ctl'[Sup].at # "send",
         ctl'[Sup].list \subseteq ctl[Sup].list,
         ctl'[Sup].at \in {"runs", "send", "reply", "recheck"} => Listing
  PROVE  DispatchInv'
  <1>1. SendShape' /\ ListApart'
    BY DEF DispatchInv, SendShape, ListApart
  <1>2. ASSUME NEW j \in Jobs PROVE Covered(j)'
    <2>1. ~Claimed(j)' /\ ~Saving(j)'
      BY DEF Claimed, Saving, AtSend
    <2>2. Open(j)' => Open(j)
      BY <2>1 DEF Open, Pending, Listing
    <2>3. Covered(j)
      BY DEF DispatchInv
    <2>4. sent'[j] = sent[j] /\ entered'[j] = entered[j]
      OBVIOUS
    <2> QED  BY <2>1, <2>2, <2>3, <2>4 DEF Covered
  <1> QED  BY <1>1, <1>2 DEF DispatchInv

(* A row that turns to queued adds the entry that covers it. *)
LEMMA DispatchRow ==
  ASSUME TypeOK, DispatchInv, NEW k \in Jobs, NEW q \in BOOLEAN,
         \A j \in Jobs : j # k => row'[j] = row[j] /\ entered'[j] = entered[j],
         q <=> row'[k].status = "queued",
         entered'[k] = IF q /\ row[k].status # "queued"
                       THEN entered[k] + 1 ELSE entered[k],
         sent' = sent, ctl'[Sup] = ctl[Sup],
         \/ todo'[Sup] = todo[Sup]
         \/ ctl[Sup].at # "send"
  PROVE  DispatchInv'
  <1>1. SendShape' /\ ListApart'
    BY DEF DispatchInv, SendShape, ListApart
  <1>2. ASSUME NEW j \in Jobs PROVE Covered(j)'
    <2>1. /\ Claimed(j)' <=> Claimed(j)
          /\ Saving(j)' <=> Saving(j)
          /\ Pending(j)' <=> Pending(j)
      BY DEF Claimed, Saving, Pending, Listing, AtSend, Doing
    <2>2. Covered(j) /\ entered[j] \in Nat /\ sent[j] \in Nat
      BY DEF DispatchInv, TypeOK
    <2>3. CASE j # k
      BY <2>1, <2>2, <2>3 DEF Covered, Open
    <2>4. CASE j = k
      BY <2>1, <2>2, <2>4 DEF Covered, Open
    <2> QED  BY <2>3, <2>4
  <1> QED  BY <1>1, <1>2 DEF DispatchInv

LEMMA OtherActors ==
  ASSUME TypeOK, NEW a \in Actors, a # Sup
  PROVE  /\ \A s : Then(a, s) => todo'[Sup] = todo[Sup]
         /\ Done(a) => todo'[Sup] = todo[Sup]
         /\ \A p, j, L : Goto(a, p, j, L) => ctl'[Sup] = ctl[Sup]
  BY SupActors DEF TypeOK, Then, Done, Goto

LEMMA SupMoves ==
  ASSUME TypeOK
  PROVE  /\ \A s : Then(Sup, s) => todo'[Sup] = s
         /\ Done(Sup) => todo'[Sup] = Tail(todo[Sup])
         /\ \A p, j, L : Goto(Sup, p, j, L) =>
              ctl'[Sup] = [at |-> p, job |-> j, list |-> L]
  BY SupActors DEF TypeOK, Then, Done, Goto

(* The saves of anyone: outside a send as above; in a send the supervisor   *)
(* saves "running", which turns its open queueing into the claimed one.     *)
LEMMA DispatchWrite ==
  ASSUME TypeOK, DispatchInv, NEW a \in Actors, WriteRow(a)
  PROVE  DispatchInv'
  <1> DEFINE w == Head(todo[a])
  <1>1. w \in SaveOp /\ w.job \in Jobs /\ w.row \in Row
    BY HeadTyped, OpKinds DEF WriteRow, Doing, SaveOp
  <1>2. /\ row' = [row EXCEPT ![w.job] = w.row]
        /\ entered' = [entered EXCEPT ![w.job] =
              IF w.row.status = "queued" /\ row[w.job].status # "queued"
              THEN @ + 1 ELSE @]
        /\ sent' = sent /\ ctl' = ctl /\ Done(a)
    BY DEF WriteRow
  <1>3. /\ \A j \in Jobs : j # w.job => row'[j] = row[j] /\ entered'[j] = entered[j]
        /\ row'[w.job] = w.row
        /\ entered'[w.job] =
              IF w.row.status = "queued" /\ row[w.job].status # "queued"
              THEN entered[w.job] + 1 ELSE entered[w.job]
    BY <1>1, <1>2 DEF TypeOK
  <1>4. CASE a # Sup \/ ctl[Sup].at # "send"
    <2>1. todo'[Sup] = todo[Sup] \/ ctl[Sup].at # "send"
      BY <1>2, <1>4, OtherActors
    <2> DEFINE q == w.row.status = "queued"
    <2>2. /\ q \in BOOLEAN
          /\ q <=> row'[w.job].status = "queued"
          /\ entered'[w.job] = IF q /\ row[w.job].status # "queued"
                               THEN entered[w.job] + 1 ELSE entered[w.job]
          /\ ctl'[Sup] = ctl[Sup]
      BY <1>2, <1>3
    <2> HIDE DEF q, w
    <2> QED  BY <1>1, <1>2, <1>3, <2>1, <2>2, DispatchRow
  <1>5. CASE a = Sup /\ ctl[Sup].at = "send"
    <2> DEFINE k == ctl[Sup].job
    <2>1. Doing(Sup, "save")
      BY <1>5 DEF WriteRow
    <2>2. /\ todo[Sup] = <<todo[Sup][1], FreshBeat(k, "running")>>
          /\ todo[Sup][1].job = k /\ todo[Sup][1].row.status = "running"
      BY <1>5, <2>1
      DEF DispatchInv, SendShape, Doing, Update, FreshBeat, Upsert
    <2>3. w = todo[Sup][1] /\ Tail(todo[Sup]) = <<FreshBeat(k, "running")>>
      <3>1. ASSUME NEW x, NEW b PROVE Head(<<x, b>>) = x /\ Tail(<<x, b>>) = <<b>>
        OBVIOUS
      <3> DEFINE first == todo[Sup][1]
                 beat  == FreshBeat(k, "running")
      <3>2. todo[a] = <<first, beat>> /\ todo[Sup] = <<first, beat>>
        BY <1>5, <2>2
      <3> HIDE DEF first, beat
      <3>3. Head(todo[a]) = first /\ Tail(todo[Sup]) = <<beat>>
        BY <3>1, <3>2
      <3> QED  BY <3>3 DEF first, beat
    <2>4. w.job = k /\ w.row.status = "running"
      BY <2>2, <2>3
    <2>5. todo'[Sup] = <<FreshBeat(k, "running")>>
      BY <1>2, <1>5, <2>3, SupMoves
    <2>6. SendShape' /\ ListApart'
      BY <1>2, <2>5 DEF DispatchInv, SendShape, ListApart
    <2>7. ASSUME NEW j \in Jobs PROVE Covered(j)'
      <3>1. Covered(j) /\ entered[j] \in Nat /\ sent[j] \in Nat
        BY DEF DispatchInv, TypeOK
      <3>2. entered'[j] = entered[j] /\ sent'[j] = sent[j]
        BY <1>1, <1>2, <1>3, <2>4
      <3>3. ~Saving(j)'
        BY <2>5 DEF Saving, Doing, FreshBeat, Upsert
      <3>4. Pending(j)' <=> Pending(j)
        BY <1>2 DEF Pending, Listing
      <3>5. CASE j # k
        <4>1. ~Claimed(j)' /\ ~Claimed(j) /\ ~Saving(j)
          BY <1>2, <3>5 DEF Claimed, Saving, AtSend
        <4>2. Open(j)' => Open(j)
          BY <1>3, <2>4, <3>3, <3>4, <3>5 DEF Open
        <4> QED  BY <3>1, <3>2, <4>1, <4>2 DEF Covered
      <3>6. CASE j = k
        <4>1. Saving(j)
          BY <1>5, <2>1, <3>6 DEF Saving, AtSend
        <4>2. ~Pending(j)
          BY <1>5, <3>6 DEF Pending, DispatchInv, ListApart
        <4>3. ~Open(j)'
          BY <1>3, <2>4, <3>3, <3>4, <3>6, <4>2 DEF Open
        <4> QED  BY <3>1, <3>2, <4>1, <4>3 DEF Covered, Open
      <3> QED  BY <3>5, <3>6
    <2> QED  BY <2>6, <2>7 DEF DispatchInv
  <1> QED  BY <1>4, <1>5

(* The head of the supervisor's list while it is in a send. *)
LEMMA SendHeads ==
  ASSUME DispatchInv, ctl[Sup].at = "send"
  PROVE  LET j == ctl[Sup].job
             b == FreshBeat(j, "running")
         IN /\ Doing(Sup, "update") => todo[Sup] = <<Update(j, "running", Keep), b>>
            /\ Doing(Sup, "beat") => todo[Sup] = <<b>>
            /\ ~Doing(Sup, "abort") /\ ~Doing(Sup, "look")
  BY DEF DispatchInv, SendShape, Doing, Update, FreshBeat, Upsert

LEMMA DispatchRead ==
  ASSUME ConstantsOK, TypeOK, DispatchInv, NEW a \in Actors, ReadRow(a)
  PROVE  DispatchInv'
  <1>1. UNCHANGED <<row, entered, sent>> /\ ctl' = ctl
    BY DEF ReadRow, ledger, history
  <1>2. CASE a # Sup
    <2>1. todo'[Sup] = todo[Sup]
      BY <1>2, SupActors DEF ReadRow, TypeOK
    <2> QED  BY <1>1, <2>1, DispatchFrame
  <1>3. CASE ctl[Sup].at # "send"
    BY <1>1, <1>3, DispatchSettled DEF Listing
  <1>4. CASE a = Sup /\ ctl[Sup].at = "send"
    <2> DEFINE k == ctl[Sup].job
               b == FreshBeat(k, "running")
    <2>1. Doing(Sup, "update") /\ todo[Sup] = <<Update(k, "running", Keep), b>>
      BY <1>4, SendHeads DEF ReadRow
    <2>2. Head(todo[Sup]) = Update(k, "running", Keep) /\ Tail(todo[Sup]) = <<b>>
      BY <2>1
    <2>3. "running" # Keep
      BY DEF ConstantsOK, Statuses
    <2> DEFINE new == [status |-> "running", meta |-> row[k].meta]
               sv == [kind |-> "save", job |-> k, row |-> new]
    <2>4. todo'[Sup] = [<<Update(k, "running", Keep), b>> EXCEPT ![1] = sv]
      <3> DEFINE u == Head(todo[Sup])
      <3>1. u.job = k /\ u.to = "running" /\ u.meta = Keep
        BY <2>2 DEF Update
      <3>2. todo' = [todo EXCEPT ![Sup][1] =
              [kind |-> "save", job |-> u.job,
               row |-> [status |-> IF u.to = Keep THEN row[u.job].status ELSE u.to,
                        meta |-> IF u.meta = Keep THEN row[u.job].meta ELSE u.meta]]]
        BY <1>4, SupActors DEF ReadRow, TypeOK
      <3> QED  BY <2>1, <2>3, <3>1, <3>2, SupActors DEF TypeOK
    <2>5. todo'[Sup] = <<sv, b>>
      <3>1. ASSUME NEW x, NEW y, NEW z PROVE [<<x, y>> EXCEPT ![1] = z] = <<z, y>>
        OBVIOUS
      <3> HIDE DEF sv, b
      <3> QED  BY <2>4, <3>1
    <2>6. SendShape'
      <3>1. sv.kind = "save" /\ sv.job = k /\ sv.row.status = "running"
        OBVIOUS
      <3> HIDE DEF sv
      <3>2. Len(todo'[Sup]) = 2 /\ todo'[Sup][1] = sv
        BY <2>5
      <3> QED  BY <1>1, <2>5, <3>1, <3>2 DEF SendShape
    <2>7. ListApart'
      BY <1>1 DEF DispatchInv, ListApart
    <2>8. Doing(Sup, "save")'
      <3>1. Head(<<sv, b>>) = sv /\ <<sv, b>> # <<>>
        OBVIOUS
      <3> QED  BY <2>5, <3>1 DEF Doing
    <2>9. ASSUME NEW j \in Jobs PROVE Covered(j)'
      <3>1. /\ Saving(j)' <=> Saving(j)
            /\ Pending(j)' <=> Pending(j)
        BY <1>1, <2>1, <2>8 DEF Saving, AtSend, Pending, Listing
      <3>2. Claimed(j)' <=> Claimed(j)
        BY <1>1, <3>1 DEF Claimed, AtSend
      <3>3. Covered(j)
        BY DEF DispatchInv
      <3> QED  BY <1>1, <3>1, <3>2, <3>3 DEF Covered, Open
    <2> QED  BY <2>6, <2>7, <2>9 DEF DispatchInv
  <1> QED  BY <1>2, <1>3, <1>4

LEMMA DispatchBeat ==
  ASSUME TypeOK, DispatchInv, NEW a \in Actors, RecordHeartbeat(a) \/ AbortSession(a)
  PROVE  DispatchInv'
  <1>1. UNCHANGED <<row, entered, sent>> /\ ctl' = ctl /\ Done(a)
    BY DEF RecordHeartbeat, AbortSession, ledger, history
  <1>2. CASE a # Sup
    <2>1. todo'[Sup] = todo[Sup]
      BY <1>1, <1>2, OtherActors
    <2> QED  BY <1>1, <2>1, DispatchFrame
  <1>3. CASE ctl[Sup].at # "send"
    BY <1>1, <1>3, DispatchSettled DEF Listing
  <1>4. CASE a = Sup /\ ctl[Sup].at = "send"
    <2> DEFINE k == ctl[Sup].job
    <2>1. todo[Sup] = <<FreshBeat(k, "running")>> /\ Doing(Sup, "beat")
      BY <1>4, SendHeads DEF RecordHeartbeat, AbortSession
    <2>2. todo'[Sup] = <<>>
      BY <1>1, <1>4, <2>1, SupMoves
    <2>3. SendShape' /\ ListApart'
      BY <1>1, <2>2 DEF DispatchInv, SendShape, ListApart
    <2>4. ASSUME NEW j \in Jobs PROVE Covered(j)'
      <3>1. ~Saving(j) /\ ~Saving(j)' /\ (Pending(j)' <=> Pending(j))
        BY <1>1, <2>1, <2>2 DEF Saving, Doing, Pending, Listing
      <3>2. Claimed(j)' <=> Claimed(j)
        BY <1>1, <3>1 DEF Claimed, AtSend
      <3>3. Covered(j)
        BY DEF DispatchInv
      <3> QED  BY <1>1, <3>1, <3>2, <3>3 DEF Covered, Open
    <2> QED  BY <2>3, <2>4 DEF DispatchInv
  <1> QED  BY <1>2, <1>3, <1>4

LEMMA DispatchLook ==
  ASSUME TypeOK, DispatchInv, NEW a \in Actors, ReadHeartbeat(a)
  PROVE  DispatchInv'
  <1>1. UNCHANGED <<row, entered, sent>> /\ ctl' = ctl
    BY DEF ReadHeartbeat, ledger, history
  <1>2. CASE a # Sup
    <2>1. todo'[Sup] = todo[Sup]
      BY <1>2, SupActors DEF ReadHeartbeat, TypeOK
    <2> QED  BY <1>1, <2>1, DispatchFrame
  <1>3. CASE ctl[Sup].at # "send"
    BY <1>1, <1>3, DispatchSettled DEF Listing
  <1> QED  BY <1>2, <1>3, SendHeads DEF ReadHeartbeat

LEMMA DispatchLedger ==
  ASSUME ConstantsOK, TypeOK, DispatchInv, NEW a \in Actors, LedgerStep(a)
  PROVE  DispatchInv'
  BY DispatchRead, DispatchWrite, DispatchLook, DispatchBeat DEF LedgerStep

(* A tick takes one entry per row, and only rows it saw queued are pending. *)
LEMMA DispatchList ==
  ASSUME TypeOK, DispatchInv, TickStarts \/ ListActive
  PROVE  DispatchInv'
  <1>1. UNCHANGED <<row, entered, sent, todo>>
    BY DEF TickStarts, ListActive, ledger, history
  <1>2. PICK p \in {"marks", "runs"}, S \in SUBSET Jobs :
           ctl'[Sup] = [at |-> p, job |-> 0, list |-> Rows(S)]
    <2>1. CASE TickStarts
      <3> DEFINE S == Listed(InState(Active), StaleListLimit) \cap InState({"running"})
      <3>1. S \in SUBSET Jobs
        BY DEF Listed, InState
      <3>2. ctl'[Sup] = [at |-> "marks", job |-> 0, list |-> Rows(S)]
        BY <2>1, SupMoves DEF TickStarts, RunningRows
      <3> QED  BY <3>1, <3>2
    <2>2. CASE ListActive
      <3> DEFINE S == Listed(InState(Active), ListLimit) \ InState({"needs_review"})
      <3>1. S \in SUBSET Jobs
        BY DEF Listed, InState
      <3>2. ctl'[Sup] = [at |-> "runs", job |-> 0, list |-> Rows(S)]
        BY <2>2, SupMoves DEF ListActive
      <3> QED  BY <3>1, <3>2
    <2> QED  BY <2>1, <2>2
  <1>3. SendShape' /\ ListApart'
    BY <1>2 DEF SendShape, ListApart, Rows
  <1>4. ASSUME NEW j \in Jobs PROVE Covered(j)'
    <2>1. ~Claimed(j)' /\ ~Saving(j)'
      BY <1>2 DEF Claimed, Saving, AtSend
    <2>2. Pending(j)' => row[j].status = "queued"
      BY <1>2 DEF Pending, Rows
    <2>3. Open(j)' => Open(j)
      BY <1>1, <2>1, <2>2 DEF Open
    <2>4. Covered(j)
      BY DEF DispatchInv
    <2> QED  BY <1>1, <2>1, <2>3, <2>4 DEF Covered
  <1> QED  BY <1>3, <1>4 DEF DispatchInv

(* The tick goes from the entry to the send: what was pending is now being  *)
(* saved.                                                                   *)
LEMMA DispatchBegin ==
  ASSUME TypeOK, DispatchInv, BeginSend
  PROVE  DispatchInv'
  <1> DEFINE L == ctl[Sup].list
  <1>1. PICK s \in First(L) :
           /\ s.row.status = "queued"
           /\ Goto(Sup, "send", s.job, L \ {s})
           /\ Then(Sup, <<Update(s.job, "running", Keep),
                          FreshBeat(s.job, "running")>>)
    BY DEF BeginSend
  <1>2. UNCHANGED <<row, entered, sent>> /\ ctl[Sup].at = "runs" /\ s \in L
    BY <1>1 DEF BeginSend, Ready, ledger, history, First
  <1>3. /\ ctl'[Sup] = [at |-> "send", job |-> s.job, list |-> L \ {s}]
        /\ todo'[Sup] = <<Update(s.job, "running", Keep), FreshBeat(s.job, "running")>>
    BY <1>1, SupMoves
  <1>4. SendShape'
    BY <1>3 DEF SendShape
  <1>5. ListApart'
    BY <1>2, <1>3 DEF DispatchInv, ListApart
  <1>6. ASSUME NEW j \in Jobs PROVE Covered(j)'
    <2>1. ~Claimed(j)'
      BY <1>3 DEF Claimed, Saving, AtSend, Doing, Update
    <2>2. Saving(j)' => j = s.job /\ Pending(j)
      BY <1>1, <1>2, <1>3 DEF Saving, AtSend, Pending, Listing
    <2>3. Pending(j)' => Pending(j)
      BY <1>2, <1>3 DEF Pending, Listing
    <2>4. Open(j)' => Open(j)
      BY <1>2, <2>2, <2>3 DEF Open
    <2>5. Covered(j)
      BY DEF DispatchInv
    <2> QED  BY <1>2, <2>1, <2>4, <2>5 DEF Covered
  <1> QED  BY <1>4, <1>5, <1>6 DEF DispatchInv

(* The send spends the claim. *)
LEMMA DispatchSend ==
  ASSUME TypeOK, DispatchInv, SendPrompt
  PROVE  DispatchInv'
  <1> DEFINE k == ctl[Sup].job
             L == ctl[Sup].list
  <1>1. /\ UNCHANGED <<row, entered>> /\ ctl[Sup].at = "send" /\ todo[Sup] = <<>>
        /\ todo' = todo
        /\ sent' = [sent EXCEPT ![k] = @ + 1]
        /\ ctl'[Sup] = [at |-> "reply", job |-> k, list |-> L]
    <2>1. Goto(Sup, "reply", k, L) /\ Ready(Sup, "send") /\ UNCHANGED ledger
          /\ UNCHANGED <<todo, entered>>
          /\ sent' = [sent EXCEPT ![k] = @ + 1]
      BY DEF SendPrompt
    <2>2. ctl'[Sup] = [at |-> "reply", job |-> k, list |-> L]
      BY <2>1, SupMoves
    <2> QED  BY <2>1, <2>2 DEF Ready, ledger
  <1>2. SendShape' /\ ListApart'
    BY <1>1 DEF DispatchInv, SendShape, ListApart
  <1>3. ASSUME NEW j \in Jobs PROVE Covered(j)'
    <2>1. ~Claimed(j)' /\ ~Saving(j)' /\ ~Saving(j)
      BY <1>1 DEF Claimed, Saving, AtSend, Doing
    <2>2. Pending(j)' => Pending(j)
      BY <1>1 DEF Pending, Listing
    <2>3. Open(j)' => Open(j)
      BY <1>1, <2>1, <2>2 DEF Open
    <2>4. Covered(j) /\ entered[j] \in Nat /\ sent[j] \in Nat
      BY DEF DispatchInv, TypeOK
    <2>5. CASE j = k
      <3>1. Claimed(j) /\ sent'[j] = sent[j] + 1
        BY <1>1, <2>1, <2>5 DEF Claimed, AtSend, TypeOK
      <3> QED  BY <1>1, <2>1, <2>3, <2>4, <3>1 DEF Covered
    <2>6. CASE j # k
      <3>1. sent'[j] = sent[j]
        BY <1>1, <2>6 DEF TypeOK
      <3> QED  BY <1>1, <2>1, <2>3, <2>4, <3>1 DEF Covered
    <2> QED  BY <2>5, <2>6
  <1> QED  BY <1>2, <1>3 DEF DispatchInv

(* The rest of the supervisor's steps, all outside a send or leaving one.  *)
LEMMA DispatchSupervisor ==
  ASSUME TypeOK, DispatchInv, SupervisorStep
  PROVE  DispatchInv'
  <1>1. CASE MarkNextStale(Sup) \/ EndTick
    <2>1. UNCHANGED <<row, entered, sent>>
      BY <1>1 DEF MarkNextStale, EndTick, ledger, history
    <2>2. PICK p \in {"marks", "idle"}, L \in SUBSET ctl[Sup].list : Goto(Sup, p, 0, L)
      BY <1>1 DEF MarkNextStale, EndTick
    <2>3. ctl'[Sup] = [at |-> p, job |-> 0, list |-> L]
      BY <2>2, SupMoves
    <2> QED  BY <2>1, <2>3, DispatchSettled
  <1>2. CASE CheckJob
    <2>1. UNCHANGED <<row, entered, sent>> /\ Listing
      BY <1>2 DEF CheckJob, Ready, Listing, ledger, history
    <2>2. PICK L \in SUBSET ctl[Sup].list : Goto(Sup, "runs", 0, L)
      BY <1>2 DEF CheckJob
    <2>3. ctl'[Sup] = [at |-> "runs", job |-> 0, list |-> L]
      BY <2>2, SupMoves
    <2> QED  BY <2>1, <2>3, DispatchSettled
  <1>3. CASE SendRefused \/ SendAnswered \/ SendFailed \/ SendTimedOut
             \/ CheckAfterTimeout
    <2>1. UNCHANGED <<row, entered, sent>>
      BY <1>3 DEF SendRefused, SendAnswered, SendFailed, SendTimedOut,
                  CheckAfterTimeout, ledger, history
    <2>2. Listing
      BY <1>3 DEF SendRefused, SendAnswered, SendFailed, SendTimedOut,
                  CheckAfterTimeout, Ready, Listing
    <2>3. PICK p \in {"runs", "recheck"} : \E j : Goto(Sup, p, j, ctl[Sup].list)
      BY <1>3 DEF SendRefused, SendAnswered, SendFailed, SendTimedOut,
                  CheckAfterTimeout
    <2>4. PICK j : Goto(Sup, p, j, ctl[Sup].list)
      BY <2>3
    <2>5. ctl'[Sup] = [at |-> p, job |-> j, list |-> ctl[Sup].list]
      BY <2>4, SupMoves
    <2> QED  BY <2>1, <2>2, <2>5, DispatchSettled
  <1> QED
    BY <1>1, <1>2, <1>3, DispatchList, DispatchBegin, DispatchSend
    DEF SupervisorStep

(* A job inserted by Submit or Replace is a row that turns to queued. *)
LEMMA DispatchInsert ==
  ASSUME TypeOK, DispatchInv, NEW k \in Jobs, NextJob(k), Insert(k),
         sent' = sent, ctl'[Sup] = ctl[Sup], todo'[Sup] = todo[Sup]
  PROVE  DispatchInv'
  <1>1. /\ \A j \in Jobs : j # k => row'[j] = row[j] /\ entered'[j] = entered[j]
        /\ row'[k].status = "queued" /\ entered'[k] = entered[k] + 1
        /\ row[k].status # "queued"
    BY DEF TypeOK, Row, NextJob, Insert
  <1> QED  BY <1>1, DispatchRow

LEMMA DispatchJobRequest ==
  ASSUME TypeOK, DispatchInv, NEW j \in Jobs
  PROVE  /\ Submit(j) => DispatchInv'
         /\ \A r \in Jobs : Replace(j, r) => DispatchInv'
         /\ MarkDone(j) \/ ClearDone(j) \/ MarkBlocked(j) \/ StopJob(j) => DispatchInv'
         /\ ToolStop(j) \/ Record(j) \/ FollowUp(j) \/ Retry(j) => DispatchInv'
         /\ CliStop(j) => DispatchInv'
  <1>0. Sup # Dir /\ Sup # "cli" /\ Dir \in Actors /\ "cli" \in Actors
    BY DEF Sup, Dir, Actors
  <1>1. ASSUME Submit(j) PROVE DispatchInv'
    BY <1>1, DispatchInsert DEF Submit
  <1>2. ASSUME NEW r \in Jobs, Replace(j, r) PROVE DispatchInv'
    <2>1. todo'[Sup] = todo[Sup]
      BY <1>0, <1>2, OtherActors DEF Replace
    <2> QED  BY <1>2, <2>1, DispatchInsert DEF Replace
  <1>3. ASSUME NEW op, NEW from, NEW s, Handle(op, j, from, s) PROVE DispatchInv'
    <2>1. todo'[Sup] = todo[Sup]
      BY <1>0, <1>3, OtherActors DEF Handle
    <2> QED  BY <1>3, <2>1, DispatchFrame DEF Handle, ledger
  <1>4. ASSUME Retry(j) PROVE DispatchInv'
    <2>1. ctl'[Sup] = ctl[Sup]
      BY <1>0, <1>4, OtherActors DEF Retry
    <2> QED  BY <1>4, <2>1, DispatchFrame DEF Retry, ledger, history
  <1>5. ASSUME CliStop(j) PROVE DispatchInv'
    <2>1. todo'[Sup] = todo[Sup]
      BY <1>0, <1>5, OtherActors DEF CliStop
    <2> QED  BY <1>5, <2>1, DispatchFrame DEF CliStop, ledger, history
  <1> QED
    BY <1>1, <1>2, <1>3, <1>4, <1>5
    DEF MarkDone, ClearDone, MarkBlocked, StopJob, ToolStop, Record, FollowUp

LEMMA DispatchDirector ==
  ASSUME TypeOK, DispatchInv,
         \/ RequeueIncomplete \/ StopAll \/ RuntimeStop \/ RuntimeReset
         \/ StatusPoll \/ DirectorStep
  PROVE  DispatchInv'
  <1>0. Sup # Dir /\ Dir \in Actors
    BY DEF Sup, Dir, Actors
  <1>1. UNCHANGED <<row, entered, sent>>
    BY DEF RequeueIncomplete, StopAll, RuntimeStop, RuntimeReset, StatusPoll,
           DirectorStep, MarkNextStale, EndPoll, PreflightRetry, BulkNext,
           EndBulk, RestartSession, ledger, history
  <1>2. ctl' = ctl \/ \E p, j, L : Goto(Dir, p, j, L)
    BY DEF RequeueIncomplete, StopAll, RuntimeStop, RuntimeReset, StatusPoll,
           DirectorStep, MarkNextStale, EndPoll, PreflightRetry, BulkNext,
           EndBulk, RestartSession
  <1>3. todo' = todo \/ \E s : Then(Dir, s)
    BY DEF RequeueIncomplete, StopAll, RuntimeStop, RuntimeReset, StatusPoll,
           DirectorStep, MarkNextStale, EndPoll, PreflightRetry, BulkNext,
           EndBulk, RestartSession
  <1>4. ctl'[Sup] = ctl[Sup] /\ todo'[Sup] = todo[Sup]
    BY <1>0, <1>2, <1>3, OtherActors
  <1> QED  BY <1>1, <1>4, DispatchFrame

LEMMA DispatchEnvironment ==
  ASSUME TypeOK, DispatchInv, Environment
  PROVE  DispatchInv'
  <1>1. ASSUME NEW a \in Actors, Crash(a) PROVE DispatchInv'
    <2>1. UNCHANGED <<row, entered, sent>>
      BY <1>1 DEF Crash, ledger, history
    <2>2. CASE a = Sup
      <3>1. ctl'[Sup] = [at |-> "idle", job |-> 0, list |-> {}]
        BY <1>1, <2>2, SupMoves DEF Crash
      <3> QED  BY <2>1, <3>1, DispatchSettled
    <2>3. CASE a # Sup
      <3>1. ctl'[Sup] = ctl[Sup] /\ todo'[Sup] = todo[Sup]
        BY <1>1, <2>3, OtherActors DEF Crash
      <3> QED  BY <2>1, <3>1, DispatchFrame
    <2> QED  BY <2>2, <2>3
  <1>2. ASSUME NEW a \in Aliases, SmithAnswers(a) PROVE DispatchInv'
    BY <1>2, DispatchFrame DEF SmithAnswers, ledger, history
  <1>3. ASSUME NEW j \in Jobs, BusyWindowPasses(j) \/ HeartbeatAges(j)
        PROVE  DispatchInv'
    BY <1>3, DispatchFrame DEF BusyWindowPasses, HeartbeatAges, history
  <1>4. ASSUME ServerDown \/ ServerUp PROVE DispatchInv'
    BY <1>4, DispatchFrame DEF ServerDown, ServerUp, ledger, history
  <1> QED  BY <1>1, <1>2, <1>3, <1>4 DEF Environment

LEMMA DispatchNext ==
  ASSUME ConstantsOK, TypeOK, DispatchInv, [Next]_vars
  PROVE  DispatchInv'
  <1>1. CASE UNCHANGED vars
    BY <1>1, DispatchFrame DEF vars
  <1>2. CASE \E a \in Actors : LedgerStep(a)
    BY <1>2, DispatchLedger
  <1>3. CASE SupervisorStep
    BY <1>3, DispatchSupervisor
  <1>4. CASE DirectorRequest
    BY <1>4, DispatchJobRequest, DispatchDirector DEF DirectorRequest
  <1>5. CASE DirectorStep
    BY <1>5, DispatchDirector
  <1>6. CASE \E j \in Jobs : CliStop(j)
    BY <1>6, DispatchJobRequest
  <1>7. CASE Environment
    BY <1>7, DispatchEnvironment
  <1> QED  BY <1>1, <1>2, <1>3, <1>4, <1>5, <1>6, <1>7 DEF Next

LEMMA InitDispatch ==
  ASSUME Init
  PROVE  DispatchInv
  <1>1. ctl[Sup] = [at |-> "idle", job |-> 0, list |-> {}]
    BY SupActors DEF Init
  <1>2. SendShape /\ ListApart
    BY <1>1 DEF SendShape, ListApart
  <1>3. \A j \in Jobs : Covered(j)
    BY <1>1 DEF Init, Covered, Claimed, Open, Pending, Saving, AtSend, Listing
  <1> QED  BY <1>2, <1>3 DEF DispatchInv

(* No queueing of a job is dispatched twice, for any number of jobs and     *)
(* operators' requests and any interleaving of the three processes' ledger  *)
(* operations with crashes and outages.                                     *)
THEOREM DispatchOnce == Spec => []DispatchedOncePerQueueing
  <1>1. Init => TypeOK /\ DispatchInv
    BY InitTyped, InitDispatch, ConstantsOK
  <1>2. TypeOK /\ DispatchInv /\ [Next]_vars => (TypeOK /\ DispatchInv)'
    BY NextTyped, DispatchNext, ConstantsOK
  <1>3. DispatchInv => DispatchedOncePerQueueing
    BY DEF DispatchInv, Covered, DispatchedOncePerQueueing
  <1> QED  BY <1>1, <1>2, <1>3, PTL DEF Spec

(* The claims of a tick on the queueings of a job are covered, at every      *)
(* point of a tick: what the run loop_two_jobs checks as an invariant.       *)
THEOREM DispatchInvHolds == Spec => []DispatchInv
  <1>1. Init => TypeOK /\ DispatchInv
    BY InitTyped, InitDispatch, ConstantsOK
  <1>2. TypeOK /\ DispatchInv /\ [Next]_vars => (TypeOK /\ DispatchInv)'
    BY NextTyped, DispatchNext, ConstantsOK
  <1> QED  BY <1>1, <1>2, PTL DEF Spec
-----------------------------------------------------------------------------
(* Review and done.  Who may still write a row that waits for review or is   *)
(* done: an actor's list holds at most one operation on the ledger's rows.   *)
Ops(a)       == {todo[a][i] : i \in 1..Len(todo[a])}
OnRow(o)     == o.kind \in {"update", "save"}
Gives(o)     == IF o.kind = "update" THEN o.to ELSE o.row.status
RowOps(a, j) == {o \in Ops(a) : OnRow(o) /\ o.job = j}
OneRowOp(a)  == \A i, k \in 1..Len(todo[a]) :
                   OnRow(todo[a][i]) /\ OnRow(todo[a][k]) => i = k
Verdicts     == {"needs_review", "done"}

(* The tick is not concerned with the job; the Director is about to write a   *)
(* verdict it read or was given; the tick is about to put it up for review.  *)
SupApart(j)   == /\ \A s \in ctl[Sup].list : s.job # j
                 /\ ctl[Sup].at \in Sending => ctl[Sup].job # j
DirHolds(j)   == \E o \in RowOps(Dir, j) :
                    \/ o.kind = "save" /\ Gives(o) \in Verdicts
                    \/ Gives(o) = "done"
Rested(j)     == row[j].status \in Verdicts \/ DirHolds(j)
SupReviews(j) == \E o \in RowOps(Sup, j) : Gives(o) = "needs_review"
Due(j)        == Rested(j) \/ SupReviews(j)

RestsApart(j) ==
    /\ Rested(j) => SupApart(j) /\ RowOps(Sup, j) = {}
    /\ DirHolds(j) => row[j].status \in Verdicts \cup {"stopped"}
    /\ SupReviews(j) => SupApart(j)
    /\ \A o \in RowOps(Sup, j) : Gives(o) # "done"
    /\ \A o \in RowOps(Dir, j) : o.kind = "update" => o.to # "needs_review"
    /\ \A o \in RowOps("cli", j) : Gives(o) = "stopped"
SendsApart == ctl[Sup].at \in Sending => \A s \in ctl[Sup].list : s.job # ctl[Sup].job
RestInv ==
    /\ \A a \in Actors : OneRowOp(a)
    /\ SendsApart
    /\ \A j \in Jobs : RestsApart(j)
RestStep == RestInv' /\ \A j \in Jobs : Due(j)' => Due(j)

(* The lists the actors are given.                                           *)
LEMMA ThenNone ==
  ASSUME TypeOK, NEW a \in Actors, Then(a, <<>>)
  PROVE  Ops(a)' = {} /\ OneRowOp(a)'
  <1>1. todo'[a] = <<>>
    BY DEF TypeOK, Then
  <1>2. Len(todo'[a]) = 0
    BY <1>1
  <1> QED  BY <1>2 DEF Ops, OneRowOp

LEMMA ThenOne ==
  ASSUME TypeOK, NEW a \in Actors, NEW x, Then(a, <<x>>)
  PROVE  Ops(a)' = {x} /\ OneRowOp(a)'
  <1>1. todo'[a] = <<x>>
    BY DEF TypeOK, Then
  <1>2. Len(todo'[a]) = 1 /\ todo'[a][1] = x
    BY <1>1
  <1> QED  BY <1>2 DEF Ops, OneRowOp

LEMMA ThenTwo ==
  ASSUME TypeOK, NEW a \in Actors, NEW x, NEW y, Then(a, <<x, y>>), ~OnRow(x) \/ ~OnRow(y)
  PROVE  Ops(a)' = {x, y} /\ OneRowOp(a)'
  <1>1. todo'[a] = <<x, y>>
    BY DEF TypeOK, Then
  <1>2. Len(todo'[a]) = 2 /\ todo'[a][1] = x /\ todo'[a][2] = y
    BY <1>1
  <1>3. \A i \in 1..2 : i = 1 \/ i = 2
    OBVIOUS
  <1>4. 1 \in 1..2 /\ 2 \in 1..2
    OBVIOUS
  <1>5. Ops(a)' = {x, y}
    BY <1>2, <1>3, <1>4 DEF Ops
  <1> QED  BY <1>2, <1>3, <1>5 DEF OneRowOp

LEMMA ThenThree ==
  ASSUME TypeOK, NEW a \in Actors, NEW x, NEW y, NEW z, Then(a, <<x, y, z>>),
         ~OnRow(y), ~OnRow(x) \/ ~OnRow(z)
  PROVE  Ops(a)' = {x, y, z} /\ OneRowOp(a)'
  <1>1. todo'[a] = <<x, y, z>>
    BY DEF TypeOK, Then
  <1>2. Len(todo'[a]) = 3 /\ todo'[a][1] = x /\ todo'[a][2] = y /\ todo'[a][3] = z
    BY <1>1
  <1>3. \A i \in 1..3 : i = 1 \/ i = 2 \/ i = 3
    OBVIOUS
  <1>4. 1 \in 1..3 /\ 2 \in 1..3 /\ 3 \in 1..3
    OBVIOUS
  <1>5. Ops(a)' = {x, y, z}
    BY <1>2, <1>3, <1>4 DEF Ops
  <1> QED  BY <1>2, <1>3, <1>5 DEF OneRowOp

(* An operation done leaves the rest; one on a row leaves none on rows.       *)
LEMMA DoneOps ==
  ASSUME TypeOK, NEW a \in Actors, todo[a] # <<>>, OneRowOp(a), Done(a)
  PROVE  /\ Head(todo[a]) \in Ops(a) /\ Ops(a)' \subseteq Ops(a)
         /\ OneRowOp(a)'
         /\ OnRow(Head(todo[a])) => \A o \in Ops(a)' : ~OnRow(o)
  <1> DEFINE s == todo[a]
             n == Len(s)
  <1>1. s \in Seq(Op) /\ n \in Nat /\ n > 0 /\ Head(s) = s[1]
    BY DEF TypeOK
  <1>2. todo'[a] = Tail(s)
    BY DEF TypeOK, Done
  <1>3. Len(todo'[a]) = n - 1 /\ \A i \in 1..(n - 1) : todo'[a][i] = s[i + 1]
    BY <1>1, <1>2
  <1>4. \A i \in 1..(n - 1) : i + 1 \in 1..n /\ i + 1 # 1
    BY <1>1
  <1>5. 1 \in 1..n
    BY <1>1
  <1>6. \A i, k \in 1..n : OnRow(s[i]) /\ OnRow(s[k]) => i = k
    BY DEF OneRowOp
  <1>7. Head(s) \in Ops(a)
    BY <1>1, <1>5 DEF Ops
  <1> HIDE DEF s, n
  <1>8. Ops(a) = {s[i] : i \in 1..n}
    BY DEF Ops, s, n
  <1>9. Ops(a)' = {s[i + 1] : i \in 1..(n - 1)}
    BY <1>3 DEF Ops
  <1>10. Ops(a)' \subseteq Ops(a)
    BY <1>4, <1>8, <1>9
  <1>11. OneRowOp(a)'
    <2>1. ASSUME NEW i \in 1..(n - 1), NEW k \in 1..(n - 1), OnRow(s[i + 1]), OnRow(s[k + 1])
          PROVE  i = k
      <3>1. i + 1 = k + 1
        BY <1>4, <1>6, <2>1
      <3> QED  BY <3>1
    <2> QED  BY <1>3, <2>1 DEF OneRowOp
  <1>12. OnRow(Head(s)) => \A o \in Ops(a)' : ~OnRow(o)
    BY <1>1, <1>4, <1>5, <1>6, <1>9
  <1> QED  BY <1>7, <1>10, <1>11, <1>12 DEF s

(* A read turns the only operation on a row into the save of what it read.    *)
LEMMA ReadOps ==
  ASSUME TypeOK, NEW a \in Actors, OneRowOp(a), ReadRow(a)
  PROVE  \E u, sv :
            /\ u.kind = "update" /\ u.job \in Jobs /\ u \in Ops(a) /\ OneRowOp(a)'
            /\ sv.kind = "save" /\ sv.job = u.job
            /\ sv.row.status = IF u.to = Keep THEN row[u.job].status ELSE u.to
            /\ \A o \in Ops(a)' : OnRow(o) => o = sv
  <1> DEFINE s == todo[a]
             n == Len(s)
             u == Head(s)
             sv == [kind |-> "save", job |-> u.job,
                    row |-> [status |-> IF u.to = Keep THEN row[u.job].status ELSE u.to,
                             meta |-> IF u.meta = Keep THEN row[u.job].meta ELSE u.meta]]
  <1>1. s \in Seq(Op) /\ s # <<>> /\ u.kind = "update"
    BY DEF TypeOK, ReadRow, Doing
  <1>2. n \in Nat /\ n > 0 /\ u = s[1] /\ 1 \in 1..n
    BY <1>1
  <1>3. u \in Op /\ u \in Ops(a)
    BY <1>1, <1>2 DEF Ops
  <1>4. u \in UpdateOp /\ u.job \in Jobs
    BY <1>1, <1>3, OpKinds DEF UpdateOp
  <1>5. todo'[a] = [s EXCEPT ![1] = sv]
    BY DEF TypeOK, ReadRow
  <1>6. /\ sv.kind = "save" /\ sv.job = u.job
        /\ sv.row.status = IF u.to = Keep THEN row[u.job].status ELSE u.to
    OBVIOUS
  <1> HIDE DEF u, sv
  <1>7. /\ Len(todo'[a]) = n /\ todo'[a][1] = sv
        /\ \A i \in 1..n : i # 1 => todo'[a][i] = s[i]
    BY <1>1, <1>2, <1>5
  <1>8. \A i \in 1..n : OnRow(s[i]) => i = 1
    BY <1>1, <1>2 DEF OneRowOp, OnRow
  <1> HIDE DEF s, n
  <1>9. \A i \in 1..n : OnRow(todo'[a][i]) => i = 1
    BY <1>7, <1>8
  <1>10. OneRowOp(a)'
    BY <1>7, <1>9 DEF OneRowOp
  <1>11. \A o \in Ops(a)' : OnRow(o) => o = sv
    BY <1>7, <1>9 DEF Ops
  <1> QED  BY <1>1, <1>3, <1>4, <1>6, <1>10, <1>11

(* A look at a heartbeat leaves every operation on a row as it is.            *)
LEMMA LookOps ==
  ASSUME TypeOK, NEW a \in Actors, OneRowOp(a), ReadHeartbeat(a)
  PROVE  OneRowOp(a)' /\ \A o \in Ops(a)' : OnRow(o) => o \in Ops(a)
  <1> DEFINE s == todo[a]
             n == Len(s)
             w == Upsert(Head(s).job, Head(s).state, StartOf(Head(s).job))
  <1>1. s \in Seq(Op) /\ s # <<>>
    BY DEF TypeOK, ReadHeartbeat, Doing
  <1>2. n \in Nat /\ n > 0 /\ 1 \in 1..n
    BY <1>1
  <1>3. ~OnRow(w)
    BY DEF OnRow, Upsert
  <1> HIDE DEF w
  <1>4. todo'[a] = [s EXCEPT ![1] = w]
    BY DEF TypeOK, ReadHeartbeat, w
  <1>5. /\ Len(todo'[a]) = n /\ todo'[a][1] = w
        /\ \A i \in 1..n : i # 1 => todo'[a][i] = s[i]
    BY <1>1, <1>2, <1>4
  <1>6. \A i, k \in 1..n : OnRow(s[i]) /\ OnRow(s[k]) => i = k
    BY DEF OneRowOp
  <1>7. Ops(a) = {s[i] : i \in 1..n}
    BY DEF Ops
  <1> HIDE DEF s, n
  <1>8. \A i \in 1..n : OnRow(todo'[a][i]) => i # 1 /\ todo'[a][i] = s[i]
    BY <1>3, <1>5
  <1>9. OneRowOp(a)'
    BY <1>5, <1>6, <1>8 DEF OneRowOp
  <1>10. \A o \in Ops(a)' : OnRow(o) => o \in Ops(a)
    BY <1>5, <1>7, <1>8 DEF Ops
  <1> QED  BY <1>9, <1>10

LEMMA SameOps ==
  ASSUME NEW a, todo'[a] = todo[a]
  PROVE  /\ Ops(a)' = Ops(a) /\ OneRowOp(a)' = OneRowOp(a)
         /\ \A j : RowOps(a, j)' = RowOps(a, j)
  BY DEF Ops, OneRowOp, RowOps, OnRow

LEMMA FewerOps ==
  ASSUME NEW a, \A o \in Ops(a)' : OnRow(o) => o \in Ops(a)
  PROVE  \A j : RowOps(a, j)' \subseteq RowOps(a, j)
  BY DEF RowOps, OnRow

(* A job stays apart while nothing new is to be written on its row.           *)
LEMMA RestMoves ==
  ASSUME NEW j \in Jobs, RestsApart(j), Rested(j)' => Rested(j),
         RowOps(Sup, j)' \subseteq RowOps(Sup, j), SupApart(j) => SupApart(j)',
         DirHolds(j)' => row'[j].status \in Verdicts \cup {"stopped"},
         \A o \in RowOps(Dir, j)' : o.kind = "update" => o.to # "needs_review",
         \A o \in RowOps("cli", j)' : Gives(o) = "stopped"
  PROVE  RestsApart(j)'
  BY DEF RestsApart, SupReviews, Gives, Verdicts

LEMMA DueMoves ==
  ASSUME NEW j, Rested(j)' => Rested(j), RowOps(Sup, j)' \subseteq RowOps(Sup, j)
  PROVE  Due(j)' => Due(j)
  BY DEF Due, SupReviews, Gives

LEMMA RestRead ==
  ASSUME ConstantsOK, TypeOK, RestInv, NEW a \in Actors, ReadRow(a)
  PROVE  RestStep
  <1>1. UNCHANGED <<row, ctl>> /\ \A b \in Actors \ {a} : todo'[b] = todo[b]
    BY DEF ReadRow, TypeOK, ledger
  <1>2. PICK u, sv :
            /\ u.kind = "update" /\ u.job \in Jobs /\ u \in Ops(a) /\ OneRowOp(a)'
            /\ sv.kind = "save" /\ sv.job = u.job
            /\ sv.row.status = IF u.to = Keep THEN row[u.job].status ELSE u.to
            /\ \A o \in Ops(a)' : OnRow(o) => o = sv
    BY ReadOps DEF RestInv
  <1>3. \A b \in Actors : OneRowOp(b)'
    BY <1>1, <1>2, SameOps DEF RestInv
  <1>4. SendsApart' /\ \A j \in Jobs : SupApart(j) <=> SupApart(j)'
    BY <1>1 DEF RestInv, SendsApart, SupApart
  <1>5. u \in RowOps(a, u.job) /\ Gives(u) = u.to /\ Gives(sv) = sv.row.status
    BY <1>2 DEF RowOps, OnRow, Gives
  <1>6. \A j : \A o \in RowOps(a, j)' : o = sv /\ j = u.job
    BY <1>2 DEF RowOps, OnRow
  <1>7. ASSUME NEW j \in Jobs PROVE RestsApart(j)' /\ (Due(j)' => Due(j))
    <2>1. RestsApart(j)
      BY DEF RestInv
    <2>2. CASE a = Dir
      <3>1. RowOps(Sup, j)' = RowOps(Sup, j) /\ RowOps("cli", j)' = RowOps("cli", j)
        BY <1>1, <2>2, SupActors, SameOps DEF Dir, Sup
      <3>2. \A o \in RowOps(Dir, j)' : o.kind = "update" => o.to # "needs_review"
        BY <1>2, <1>6, <2>2
      <3>3. ASSUME DirHolds(j)' PROVE Rested(j) /\ row[j].status \in Verdicts \cup {"stopped"}
        <4>1. j = u.job /\ sv.row.status \in Verdicts
          BY <1>2, <1>5, <1>6, <2>2, <3>3 DEF DirHolds, Verdicts, Gives
        <4>2. CASE u.to = Keep
          BY <1>2, <4>1, <4>2 DEF Rested
        <4>3. CASE u.to # Keep
          <5>1. u.to = "done"
            BY <1>2, <1>5, <2>1, <2>2, <4>1, <4>3 DEF RestsApart, Verdicts
          <5>2. DirHolds(j)
            BY <1>5, <2>2, <4>1, <5>1 DEF DirHolds
          <5> QED  BY <2>1, <5>2 DEF RestsApart, Rested
        <4> QED  BY <4>2, <4>3
      <3>4. Rested(j)' => Rested(j)
        BY <1>1, <3>3 DEF Rested
      <3>5. \A o \in RowOps("cli", j)' : Gives(o) = "stopped"
        BY <2>1, <3>1 DEF RestsApart
      <3> QED  BY <1>1, <1>4, <2>1, <3>1, <3>2, <3>3, <3>4, <3>5, RestMoves, DueMoves
    <2>3. CASE a # Dir
      <3>1. RowOps(Dir, j)' = RowOps(Dir, j)
        BY <1>1, <2>3, SupActors, SameOps
      <3>2. (DirHolds(j)' <=> DirHolds(j)) /\ (Rested(j)' <=> Rested(j))
        BY <1>1, <3>1 DEF DirHolds, Rested, Gives, Verdicts
      <3>3. \A o \in RowOps("cli", j)' : Gives(o) = "stopped"
        <4>1. CASE a = "cli"
          <5>1. u.to = "stopped"
            BY <1>2, <1>5, <4>1 DEF RestInv, RestsApart
          <5>2. "stopped" # Keep
            BY DEF ConstantsOK, Statuses
          <5> QED  BY <1>2, <1>5, <1>6, <4>1, <5>1, <5>2
        <4>2. CASE a # "cli"
          BY <1>1, <2>1, <4>2, SupActors, SameOps DEF RestsApart
        <4> QED  BY <4>1, <4>2
      <3>4. CASE RowOps(Sup, j)' \subseteq RowOps(Sup, j)
        BY <1>1, <1>4, <2>1, <3>1, <3>2, <3>3, <3>4, RestMoves, DueMoves DEF RestsApart
      <3>5. CASE ~(RowOps(Sup, j)' \subseteq RowOps(Sup, j))
        <4>1. a = Sup
          BY <1>1, <3>5, SupActors, SameOps
        <4>2. j = u.job /\ ~Rested(j)
          BY <1>5, <1>6, <2>1, <3>5, <4>1 DEF RestsApart
        <4>3. row[j].status \notin Verdicts
          BY <4>2 DEF Rested
        <4>4. \A o \in RowOps(Sup, j)' : Gives(o) # "done"
          BY <1>2, <1>5, <1>6, <2>1, <4>1, <4>2, <4>3 DEF RestsApart, Verdicts
        <4>5. SupReviews(j)' => SupReviews(j)
          BY <1>2, <1>5, <1>6, <4>1, <4>2, <4>3 DEF SupReviews, Verdicts, Gives
        <4>6. Due(j)' => Due(j)
          BY <3>2, <4>5 DEF Due
        <4> QED  BY <1>1, <1>4, <2>1, <3>1, <3>2, <3>3, <4>2, <4>4, <4>5, <4>6 DEF RestsApart
      <3> QED  BY <3>4, <3>5
    <2> QED  BY <2>2, <2>3
  <1> QED  BY <1>3, <1>4, <1>7 DEF RestInv, RestStep

LEMMA RestWrite ==
  ASSUME TypeOK, RestInv, NEW a \in Actors, WriteRow(a)
  PROVE  RestStep
  <1> DEFINE w == Head(todo[a])
  <1>1. w \in SaveOp /\ w.job \in Jobs /\ w.row \in Row /\ w.kind = "save"
    BY HeadTyped, OpKinds DEF WriteRow, Doing, SaveOp
  <1>2. /\ row' = [row EXCEPT ![w.job] = w.row] /\ ctl' = ctl /\ Done(a)
        /\ todo[a] # <<>>
    BY DEF WriteRow, Doing
  <1>3. \A b \in Actors \ {a} : todo'[b] = todo[b]
    BY <1>2 DEF Done, TypeOK
  <1>4. /\ w \in Ops(a) /\ Ops(a)' \subseteq Ops(a) /\ OneRowOp(a)'
        /\ \A o \in Ops(a)' : ~OnRow(o)
    BY <1>1, <1>2, DoneOps DEF RestInv, OnRow
  <1> HIDE DEF w
  <1>5. \A b \in Actors : OneRowOp(b)'
    BY <1>3, <1>4, SameOps DEF RestInv
  <1>6. SendsApart' /\ \A j \in Jobs : SupApart(j) <=> SupApart(j)'
    BY <1>2 DEF RestInv, SendsApart, SupApart
  <1>7. w \in RowOps(a, w.job) /\ Gives(w) = w.row.status /\ \A j : RowOps(a, j)' = {}
    BY <1>1, <1>4 DEF RowOps, OnRow, Gives
  <1>8. row'[w.job] = w.row /\ \A j \in Jobs \ {w.job} : row'[j] = row[j]
    BY <1>1, <1>2 DEF TypeOK
  <1>9. \A b \in Actors, j \in Jobs : RowOps(b, j)' \subseteq RowOps(b, j)
    BY <1>3, <1>7, SameOps
  <1>10. ASSUME NEW j \in Jobs PROVE RestsApart(j)' /\ (Due(j)' => Due(j))
    <2>1. RestsApart(j)
      BY DEF RestInv
    <2>2. /\ \A o \in RowOps(Dir, j)' : o.kind = "update" => o.to # "needs_review"
          /\ \A o \in RowOps("cli", j)' : Gives(o) = "stopped"
      BY <1>9, <2>1, SupActors DEF RestsApart
    <2>3. DirHolds(j)' => DirHolds(j) /\ a # Dir
      BY <1>7, <1>9, SupActors DEF DirHolds, Gives, Verdicts
    <2>4. RowOps(Sup, j)' \subseteq RowOps(Sup, j)
      BY <1>9, SupActors
    <2>5. CASE j # w.job
      <3>1. row'[j] = row[j]
        BY <1>8, <2>5
      <3>2. Rested(j)' => Rested(j)
        BY <2>3, <3>1 DEF Rested
      <3> QED  BY <1>6, <2>1, <2>2, <2>3, <2>4, <3>1, <3>2, RestMoves, DueMoves DEF RestsApart
    <2>6. CASE j = w.job
      <3>0. row'[j].status = Gives(w)
        BY <1>7, <1>8, <2>6
      <3>1. CASE a = Dir
        <4>1. Rested(j)' => Rested(j)
          BY <1>1, <1>7, <2>3, <2>6, <3>0, <3>1 DEF Rested, DirHolds
        <4> QED  BY <1>6, <2>1, <2>2, <2>3, <2>4, <3>1, <4>1, RestMoves, DueMoves
      <3>2. CASE a = "cli"
        <4>1. row'[j].status = "stopped"
          BY <1>7, <2>1, <2>6, <3>0, <3>2 DEF RestsApart
        <4>2. Rested(j)' => Rested(j)
          BY <2>3, <4>1 DEF Rested, Verdicts
        <4> QED  BY <1>6, <2>1, <2>2, <2>4, <4>1, <4>2, RestMoves, DueMoves
      <3>3. CASE a = Sup
        <4>1. ~Rested(j) /\ Gives(w) # "done"
          BY <1>7, <2>1, <2>6, <3>3 DEF RestsApart
        <4>2. ~DirHolds(j)'
          BY <2>3, <4>1 DEF Rested
        <4>3. Rested(j)' => SupApart(j)'
          BY <1>6, <1>7, <2>1, <2>6, <3>0, <3>3, <4>1, <4>2
          DEF Rested, Verdicts, RestsApart, SupReviews
        <4>4. RowOps(Sup, j)' = {}
          BY <1>7, <3>3
        <4>5. Rested(j)' => SupReviews(j)
          BY <1>7, <2>6, <3>0, <3>3, <4>1, <4>2 DEF Rested, Verdicts, SupReviews
        <4>6. Due(j)' => Due(j)
          BY <4>4, <4>5 DEF Due, SupReviews
        <4> QED  BY <2>2, <4>2, <4>3, <4>4, <4>6 DEF RestsApart, SupReviews
      <3> QED  BY <3>1, <3>2, <3>3 DEF Actors, Sup, Dir
    <2> QED  BY <2>5, <2>6
  <1> QED  BY <1>5, <1>6, <1>10 DEF RestInv, RestStep

(* What an actor drops, and where the tick is not, changes nothing.          *)
LEMMA RestFewer ==
  ASSUME TypeOK, RestInv, row' = row, ctl'[Sup] = ctl[Sup],
         \A b \in Actors : OneRowOp(b)' /\ \A o \in Ops(b)' : OnRow(o) => o \in Ops(b)
  PROVE  RestStep
  <1>1. \A b \in Actors, j \in Jobs : RowOps(b, j)' \subseteq RowOps(b, j)
    BY FewerOps
  <1>2. SendsApart' /\ \A j \in Jobs : SupApart(j) <=> SupApart(j)'
    BY DEF RestInv, SendsApart, SupApart
  <1>3. ASSUME NEW j \in Jobs PROVE RestsApart(j)' /\ (Due(j)' => Due(j))
    <2>1. RestsApart(j)
      BY DEF RestInv
    <2>a. RowOps(Dir, j)' \subseteq RowOps(Dir, j) /\ RowOps("cli", j)' \subseteq RowOps("cli", j)
      BY <1>1, SupActors
    <2>2. /\ \A o \in RowOps(Dir, j)' : o.kind = "update" => o.to # "needs_review"
          /\ \A o \in RowOps("cli", j)' : Gives(o) = "stopped"
      BY <2>1, <2>a DEF RestsApart
    <2>3. DirHolds(j)' => DirHolds(j)
      BY <1>1, SupActors DEF DirHolds, Gives, Verdicts
    <2>4. Rested(j)' => Rested(j)
      BY <2>3 DEF Rested
    <2> QED  BY <1>1, <1>2, <2>1, <2>2, <2>3, <2>4, SupActors, RestMoves, DueMoves DEF RestsApart
  <1> QED  BY <1>2, <1>3 DEF RestInv, RestStep

LEMMA RestLedger ==
  ASSUME ConstantsOK, TypeOK, RestInv, NEW a \in Actors, LedgerStep(a)
  PROVE  RestStep
  <1>1. CASE RecordHeartbeat(a) \/ AbortSession(a)
    <2>1. row' = row /\ ctl' = ctl /\ Done(a) /\ todo[a] # <<>>
      <3>1. CASE RecordHeartbeat(a)
        BY <3>1 DEF RecordHeartbeat, Doing
      <3>2. CASE AbortSession(a)
        BY <3>2 DEF AbortSession, Doing, ledger
      <3> QED  BY <1>1, <3>1, <3>2
    <2>2. \A b \in Actors \ {a} : todo'[b] = todo[b]
      BY <2>1 DEF Done, TypeOK
    <2>3. \A b \in Actors : Ops(b)' \subseteq Ops(b) /\ OneRowOp(b)'
      BY <2>1, <2>2, DoneOps, SameOps DEF RestInv
    <2> QED  BY <2>1, <2>3, RestFewer
  <1>2. CASE ReadHeartbeat(a)
    <2>1. row' = row /\ ctl' = ctl /\ \A b \in Actors \ {a} : todo'[b] = todo[b]
      BY <1>2 DEF ReadHeartbeat, TypeOK, ledger
    <2>2. \A b \in Actors : OneRowOp(b)' /\ \A o \in Ops(b)' : OnRow(o) => o \in Ops(b)
      BY <1>2, <2>1, LookOps, SameOps DEF RestInv
    <2> QED  BY <2>1, <2>2, RestFewer
  <1> QED  BY <1>1, <1>2, RestRead, RestWrite DEF LedgerStep

(* A step of the tick. *)
LEMMA RestSup ==
  ASSUME RestInv, row' = row, \A b \in Actors \ {Sup} : todo'[b] = todo[b],
         OneRowOp(Sup)', SendsApart',
         \A j \in Jobs : Rested(j) => SupApart(j)' /\ RowOps(Sup, j)' = {},
         \A j \in Jobs : SupReviews(j)' => SupApart(j)',
         \A j \in Jobs : \A o \in RowOps(Sup, j)' : Gives(o) # "done"
  PROVE  RestInv' /\ \A j \in Jobs : Due(j)' => Due(j) \/ SupReviews(j)'
  <1>1. Dir \in Actors \ {Sup} /\ "cli" \in Actors \ {Sup}
    BY DEF Sup, Dir, Actors
  <1>2. \A b \in Actors : OneRowOp(b)'
    BY SameOps DEF RestInv
  <1>3. ASSUME NEW j \in Jobs PROVE RestsApart(j)' /\ (Due(j)' => Due(j) \/ SupReviews(j)')
    <2>1. RestsApart(j)
      BY DEF RestInv
    <2>2. RowOps(Dir, j)' = RowOps(Dir, j) /\ RowOps("cli", j)' = RowOps("cli", j)
      BY <1>1, SameOps
    <2>3. (DirHolds(j)' <=> DirHolds(j)) /\ (Rested(j)' <=> Rested(j))
      BY <2>2 DEF DirHolds, Rested, Gives, Verdicts
    <2>4. \A o \in RowOps("cli", j)' : Gives(o) = "stopped"
      BY <2>1, <2>2 DEF RestsApart
    <2> QED  BY <2>1, <2>2, <2>3, <2>4 DEF RestsApart, Due
  <1> QED  BY <1>2, <1>3 DEF RestInv

(* ... that only moves it on, with a list of rows that do not rest;          *)
LEMMA RestMove ==
  ASSUME TypeOK, RestInv, UNCHANGED <<row, todo>>, todo[Sup] = <<>>, NEW p, NEW k, NEW L,
         Goto(Sup, p, k, L),
         p \in Sending => \A s \in L : s.job # k,
         \A j \in Jobs : Rested(j) => /\ \A s \in L : s.job # j
                                      /\ p \in Sending => k # j
  PROVE  RestStep
  <1>1. ctl'[Sup] = [at |-> p, job |-> k, list |-> L]
    BY SupMoves
  <1>2. Ops(Sup)' = {}
    BY DEF Ops
  <1>3. \A j : RowOps(Sup, j)' = {}
    BY <1>2 DEF RowOps
  <1>4. OneRowOp(Sup)'
    BY SameOps, SupActors DEF RestInv
  <1>5. SendsApart'
    BY <1>1 DEF SendsApart
  <1>6. \A j \in Jobs : Rested(j) => SupApart(j)'
    BY <1>1 DEF SupApart
  <1>7. \A j \in Jobs : ~SupReviews(j)'
    BY <1>3 DEF SupReviews
  <1>8. \A b \in Actors \ {Sup} : todo'[b] = todo[b]
    OBVIOUS
  <1> QED  BY <1>3, <1>4, <1>5, <1>6, <1>7, <1>8, RestSup DEF RestStep

(* ... and one that takes up operations on a job it was concerned with.      *)
LEMMA RestReport ==
  ASSUME TypeOK, RestInv, row' = row, NEW c \in Jobs, ~SupApart(c),
         NEW p, NEW k, NEW L \in SUBSET ctl[Sup].list, Goto(Sup, p, k, L),
         \A s \in L : s.job # c, p \in Sending => k = c,
         NEW t, Then(Sup, t), OneRowOp(Sup)',
         \A o \in Ops(Sup)' : OnRow(o) =>
            /\ o.job = c /\ Gives(o) # "done"
            /\ Gives(o) = "needs_review" => p \notin Sending
  PROVE  /\ RestInv'
         /\ \A j \in Jobs : Due(j)' =>
               \/ Due(j)
               \/ j = c /\ \E o \in Ops(Sup)' : OnRow(o) /\ Gives(o) = "needs_review"
  <1>1. ctl'[Sup] = [at |-> p, job |-> k, list |-> L]
    BY SupMoves
  <1>2. \A b \in Actors \ {Sup} : todo'[b] = todo[b]
    BY DEF Then, TypeOK
  <1>3. SendsApart'
    BY <1>1 DEF SendsApart
  <1>4. \A j : \A o \in RowOps(Sup, j)' : o \in Ops(Sup)' /\ OnRow(o) /\ o.job = j
    BY DEF RowOps, OnRow
  <1>5. \A j : \A o \in RowOps(Sup, j)' :
            j = c /\ Gives(o) # "done" /\ (Gives(o) = "needs_review" => p \notin Sending)
    BY <1>4
  <1>6. ASSUME NEW j \in Jobs, Rested(j) PROVE SupApart(j)' /\ RowOps(Sup, j)' = {}
    <2>1. SupApart(j) /\ j # c
      BY <1>6 DEF RestInv, RestsApart
    <2> QED  BY <1>1, <1>5, <2>1 DEF SupApart
  <1>7. ASSUME NEW j \in Jobs, SupReviews(j)' PROVE SupApart(j)'
    <2>1. j = c /\ p \notin Sending
      BY <1>5, <1>7 DEF SupReviews, Gives
    <2> QED  BY <1>1, <2>1 DEF SupApart
  <1>8. \A j : \A o \in RowOps(Sup, j)' : Gives(o) # "done"
    BY <1>5
  <1>9. RestInv' /\ \A j \in Jobs : Due(j)' => Due(j) \/ SupReviews(j)'
    BY <1>2, <1>3, <1>6, <1>7, <1>8, RestSup DEF Gives
  <1>10. ASSUME NEW j \in Jobs, SupReviews(j)'
         PROVE  j = c /\ \E o \in Ops(Sup)' : OnRow(o) /\ Gives(o) = "needs_review"
    BY <1>4, <1>5, <1>10 DEF SupReviews, Gives
  <1> QED  BY <1>9, <1>10

(* The reports of a status: one operation on the row at most, never done.    *)
LEMMA ReportOps ==
  ASSUME TypeOK, NEW j \in Jobs, NEW s \in Statuses \ {"done"}, Then(Sup, Report(j, s))
  PROVE  /\ OneRowOp(Sup)'
         /\ \A o \in Ops(Sup)' : OnRow(o) =>
               o.job = j /\ Gives(o) = s
  <1>1. ~OnRow(Beat(j, s)) /\ OnRow(Update(j, s, Keep))
    BY DEF OnRow, Beat, Update
  <1>2. Ops(Sup)' = {Beat(j, s), Update(j, s, Keep)} /\ OneRowOp(Sup)'
    BY <1>1, ThenTwo, SupActors DEF Report
  <1> QED  BY <1>1, <1>2 DEF Update, Gives

LEMMA AfterStatusOps ==
  ASSUME ConstantsOK, TypeOK, NEW j \in Jobs, NEW seen, Then(Sup, AfterStatus(j, seen))
  PROVE  /\ OneRowOp(Sup)'
         /\ \A o \in Ops(Sup)' : OnRow(o) =>
               /\ o.job = j /\ Gives(o) # "done"
               /\ Gives(o) = "needs_review" => StatusOf(AliasOf[j]) = "idle"
  <1> DEFINE x == Abort(AliasOf[j])
             y == Beat(j, "busy_timeout")
             z == Update(j, "blocked", Keep)
             b == Beat(j, "running")
             k == Update(j, Keep, Keep)
  <1>1. /\ ~OnRow(x) /\ ~OnRow(y) /\ ~OnRow(b)
        /\ z.job = j /\ z.kind = "update" /\ z.to = "blocked"
        /\ k.job = j /\ k.kind = "update" /\ k.to = Keep
    BY DEF OnRow, Beat, Update, Abort
  <1>2. Keep # "done" /\ Keep # "needs_review"
    BY DEF ConstantsOK, Statuses
  <1>3. "blocked" \in Statuses /\ "needs_review" \in Statuses /\ "running" \in Statuses
    BY DEF Statuses
  <1> HIDE DEF x, y, z, b, k
  <1>4. CASE \E s \in {"blocked", "running"} : Then(Sup, Report(j, s))
    BY <1>3, <1>4, ReportOps
  <1>5. CASE StatusOf(AliasOf[j]) = "idle" /\ Then(Sup, Report(j, "needs_review"))
    BY <1>3, <1>5, ReportOps
  <1>6. CASE Then(Sup, <<x, y, z>>)
    <2>1. Ops(Sup)' = {x, y, z} /\ OneRowOp(Sup)'
      BY <1>1, <1>6, ThenThree, SupActors
    <2> QED  BY <1>1, <2>1 DEF Gives
  <1>7. CASE Then(Sup, <<b, k>>)
    <2>1. Ops(Sup)' = {b, k} /\ OneRowOp(Sup)'
      BY <1>1, <1>7, ThenTwo, SupActors
    <2> QED  BY <1>1, <1>2, <2>1 DEF Gives
  <1> QED  BY <1>4, <1>5, <1>6, <1>7 DEF AfterStatus, x, y, z, b, k

LEMMA StaleOps ==
  ASSUME TypeOK, NEW a \in Actors, NEW j,
         Then(a, IF hb[j].old THEN <<Upsert(j, "stale", StartOf(j)), Update(j, "stale", Keep)>>
                              ELSE <<>>)
  PROVE  /\ OneRowOp(a)'
         /\ \A o \in Ops(a)' : OnRow(o) =>
               o.kind = "update" /\ o.job = j /\ o.to = "stale"
  <1>1. ~OnRow(Upsert(j, "stale", StartOf(j)))
    BY DEF OnRow, Upsert
  <1>2. CASE Then(a, <<>>)
    BY <1>2, ThenNone
  <1>3. CASE Then(a, <<Upsert(j, "stale", StartOf(j)), Update(j, "stale", Keep)>>)
    <2>1. Ops(a)' = {Upsert(j, "stale", StartOf(j)), Update(j, "stale", Keep)} /\ OneRowOp(a)'
      BY <1>1, <1>3, ThenTwo
    <2> QED  BY <1>1, <2>1 DEF Update
  <1> QED  BY <1>2, <1>3

(* The rows a tick takes up do not rest.                                     *)
LEMMA ListsActive ==
  ASSUME RestInv, NEW L,
         L = RunningRows
         \/ L = Rows(Listed(InState(Active), ListLimit) \ InState({"needs_review"})),
         NEW j \in Jobs, Rested(j)
  PROVE  \A s \in L : s.job # j
  <1>1. row[j].status \in Verdicts \cup {"stopped"}
    BY DEF RestInv, RestsApart, Rested
  <1>2. \A S : \A s \in Rows(S) : s.job \in S
    BY DEF Rows
  <1>3. /\ \A k \in Listed(InState(Active), StaleListLimit) \cap InState({"running"}) :
              row[k].status = "running"
        /\ \A k \in Listed(InState(Active), ListLimit) \ InState({"needs_review"}) :
              row[k].status \in Active \ {"needs_review"}
    BY DEF Listed, InState
  <1>4. \A s \in L : row[s.job].status \in Active \ {"needs_review"}
    BY <1>2, <1>3 DEF Active, RunningRows
  <1> QED  BY <1>1, <1>4 DEF Verdicts, Active

LEMMA RestSupervisor ==
  ASSUME ConstantsOK, TypeOK, DispatchInv, RestInv, SupervisorStep
  PROVE  /\ RestInv'
         /\ \A j \in Jobs : Due(j)' => Due(j) \/ StatusOf(AliasOf[j]) = "idle"
  <1> USE SupActors
  <1> DEFINE L == ctl[Sup].list
             c == ctl[Sup].job
  <1>1. L \in SUBSET Snapshot
    BY DEF TypeOK, Control
  <1>2. \A s \in First(L) : /\ s \in L /\ s.job \in Jobs /\ ~SupApart(s.job)
                            /\ L \ {s} \in SUBSET L
                            /\ \A t \in L \ {s} : t.job # s.job
    BY <1>1 DEF First, Snapshot, SupApart, DispatchInv, ListApart
  <1>3. ctl[Sup].at \in Sending => /\ c \in Jobs /\ ~SupApart(c)
                                   /\ \A s \in L : s.job # c
                                   /\ \A j \in Jobs : Rested(j) =>
                                         j # c /\ \A s \in L : s.job # j
    BY DEF RestInv, SendsApart, SupApart, TypeOK, Control, RestsApart
  <1>4. CASE TickStarts \/ ListActive
    <2>1. UNCHANGED <<row, todo>> /\ todo[Sup] = <<>>
      BY <1>4 DEF TickStarts, ListActive, Ready, ledger
    <2>2. PICK p \in {"marks", "runs"},
               M \in {RunningRows, Rows(Listed(InState(Active), ListLimit)
                                          \ InState({"needs_review"}))} : Goto(Sup, p, 0, M)
      BY <1>4 DEF TickStarts, ListActive
    <2>3. p \notin Sending
      BY <2>2 DEF Sending
    <2>4. \A j \in Jobs : Rested(j) => \A s \in M : s.job # j
      BY <2>2, ListsActive
    <2> QED  BY <2>1, <2>2, <2>3, <2>4, RestMove DEF RestStep
  <1>5. CASE EndTick
    <2>1. UNCHANGED <<row, todo>> /\ todo[Sup] = <<>> /\ Goto(Sup, "idle", 0, {})
      BY <1>5 DEF EndTick, Ready, ledger
    <2>2. "idle" \notin Sending
      BY DEF Sending
    <2> QED  BY <2>1, <2>2, RestMove DEF RestStep
  <1>6. CASE MarkNextStale(Sup)
    <2>1. PICK s \in First(L) :
             /\ Goto(Sup, "marks", 0, L \ {s})
             /\ Then(Sup, IF hb[s.job].old
                          THEN <<Upsert(s.job, "stale", StartOf(s.job)), Update(s.job, "stale", Keep)>>
                          ELSE <<>>)
      BY <1>6 DEF MarkNextStale
    <2>2. row' = row /\ "marks" \notin Sending
      BY <1>6 DEF MarkNextStale, ledger, Sending
    <2>3. OneRowOp(Sup)' /\ \A o \in Ops(Sup)' : OnRow(o) =>
               o.kind = "update" /\ o.job = s.job /\ o.to = "stale"
      BY <2>1, StaleOps
    <2>4. \A o \in Ops(Sup)' : OnRow(o) => o.job = s.job /\ Gives(o) = "stale"
      BY <2>3 DEF Gives
    <2> QED  BY <1>2, <2>1, <2>2, <2>3, <2>4, RestReport
  <1>7. CASE CheckJob
    <2>1. PICK s \in First(L) :
             /\ Goto(Sup, "runs", 0, L \ {s})
             /\ Then(Sup, AfterStatus(s.job, s.row.status))
      BY <1>7 DEF CheckJob
    <2>2. row' = row /\ "runs" \notin Sending
      BY <1>7 DEF CheckJob, ledger, Sending
    <2> QED  BY <1>2, <2>1, <2>2, AfterStatusOps, RestReport
  <1>8. CASE BeginSend
    <2>1. PICK s \in First(L) :
             /\ Goto(Sup, "send", s.job, L \ {s})
             /\ Then(Sup, <<Update(s.job, "running", Keep),
                            FreshBeat(s.job, "running")>>)
      BY <1>8 DEF BeginSend
    <2>2. row' = row
      BY <1>8 DEF BeginSend, ledger
    <2>3. ~OnRow(FreshBeat(s.job, "running"))
      BY DEF OnRow, FreshBeat, Upsert
    <2>4. /\ Ops(Sup)' = {Update(s.job, "running", Keep), FreshBeat(s.job, "running")}
          /\ OneRowOp(Sup)'
      BY <2>1, <2>3, ThenTwo
    <2>5. \A o \in Ops(Sup)' : OnRow(o) => o.job = s.job /\ Gives(o) = "running"
      BY <2>3, <2>4 DEF Update, Gives
    <2> QED  BY <1>2, <2>1, <2>2, <2>4, <2>5, RestReport
  <1>9. CASE SendPrompt \/ SendTimedOut
    <2>1. UNCHANGED <<row, todo>> /\ todo[Sup] = <<>> /\ ctl[Sup].at \in Sending
      BY <1>9 DEF SendPrompt, SendTimedOut, Ready, ledger, Sending
    <2>2. Goto(Sup, "reply", c, L) \/ Goto(Sup, "recheck", c, L)
      BY <1>9 DEF SendPrompt, SendTimedOut
    <2> QED  BY <1>3, <2>1, <2>2, RestMove DEF RestStep
  <1>10. CASE SendRefused \/ SendAnswered \/ SendFailed \/ CheckAfterTimeout
    <2>1. row' = row /\ ctl[Sup].at \in Sending /\ Goto(Sup, "runs", 0, L)
      BY <1>10 DEF SendRefused, SendAnswered, SendFailed, CheckAfterTimeout,
                   Ready, ledger, Sending
    <2>2. \/ Then(Sup, Report(c, "blocked")) \/ Then(Sup, Report(c, "running"))
          \/ Then(Sup, AfterStatus(c, "stale"))
      BY <1>10 DEF SendRefused, SendAnswered, SendFailed, CheckAfterTimeout
    <2>3. PICK t : /\ Then(Sup, t) /\ OneRowOp(Sup)'
                   /\ \A o \in Ops(Sup)' : OnRow(o) =>
                         /\ o.job = c /\ Gives(o) # "done"
                         /\ Gives(o) = "needs_review" => StatusOf(AliasOf[c]) = "idle"
      <3>1. "blocked" \in Statuses \ {"done"} /\ "running" \in Statuses \ {"done"}
        BY DEF Statuses
      <3> QED  BY <1>3, <2>1, <2>2, <3>1, ReportOps, AfterStatusOps
    <2>4. "runs" \notin Sending
      BY DEF Sending
    <2> QED  BY <1>3, <2>1, <2>3, <2>4, RestReport
  <1> QED
    BY <1>4, <1>5, <1>6, <1>7, <1>8, <1>9, <1>10 DEF SupervisorStep

(* A step of the Director: it takes up operations, none of them giving a     *)
(* verdict but "done" on a job under review, and may insert queued jobs.     *)
LEMMA RestDir ==
  ASSUME RestInv, ctl'[Sup] = ctl[Sup], \A b \in Actors \ {Dir} : todo'[b] = todo[b],
         \A j \in Jobs : \/ row'[j] = row[j]
                         \/ row[j].status = "absent" /\ row'[j].status = "queued",
         OneRowOp(Dir)',
         \A o \in Ops(Dir)' : OnRow(o) =>
            /\ o.kind = "update" /\ o.to # "needs_review"
            /\ o.to = "done" => row[o.job].status = "needs_review"
  PROVE  RestStep
  <1>1. Sup \in Actors \ {Dir} /\ "cli" \in Actors \ {Dir}
    BY DEF Sup, Dir, Actors
  <1>2. \A b \in Actors : OneRowOp(b)'
    BY SameOps DEF RestInv
  <1>3. SendsApart' /\ \A j \in Jobs : SupApart(j) <=> SupApart(j)'
    BY DEF RestInv, SendsApart, SupApart
  <1>4. \A j : \A o \in RowOps(Dir, j)' :
            /\ o.kind = "update" /\ o.to # "needs_review"
            /\ o.to = "done" => row[j].status = "needs_review"
    BY DEF RowOps, OnRow
  <1>5. ASSUME NEW j \in Jobs PROVE RestsApart(j)' /\ (Due(j)' => Due(j))
    <2>1. RestsApart(j)
      BY DEF RestInv
    <2>2. RowOps(Sup, j)' = RowOps(Sup, j) /\ RowOps("cli", j)' = RowOps("cli", j)
      BY <1>1, SameOps
    <2>3. DirHolds(j)' => row[j].status = "needs_review"
      BY <1>4 DEF DirHolds, Gives, Verdicts
    <2>4. DirHolds(j)' => row'[j].status \in Verdicts \cup {"stopped"}
      BY <2>3 DEF Verdicts
    <2>5. Rested(j)' => Rested(j)
      BY <2>3 DEF Rested, Verdicts
    <2>6. \A o \in RowOps("cli", j)' : Gives(o) = "stopped"
      BY <2>1, <2>2 DEF RestsApart
    <2> QED  BY <1>3, <1>4, <2>1, <2>2, <2>4, <2>5, <2>6, RestMoves, DueMoves
  <1> QED  BY <1>2, <1>3, <1>5 DEF RestInv, RestStep

(* The pair of operations most requests end in.                              *)
LEMMA PairOps ==
  ASSUME TypeOK, NEW a \in Actors, NEW u, NEW b, u.kind = "update", ~OnRow(b),
         Then(a, <<u, b>>) \/ Then(a, <<u>>)
  PROVE  OneRowOp(a)' /\ \A o \in Ops(a)' : OnRow(o) => o = u
  <1>1. Ops(a)' \subseteq {u, b} /\ OneRowOp(a)'
    BY ThenOne, ThenTwo
  <1> QED  BY <1>1

LEMMA UpdateParts ==
  /\ \A j, s, m : /\ Update(j, s, m).kind = "update" /\ Update(j, s, m).job = j
                  /\ Update(j, s, m).to = s
  /\ \A j, s : ~OnRow(Beat(j, s)) /\ ~OnRow(FreshBeat(j, s))
  BY DEF Update, Beat, FreshBeat, Upsert, OnRow

LEMMA RestHandle ==
  ASSUME TypeOK, RestInv, NEW op, NEW j \in Jobs, NEW from, NEW to, NEW m,
         to # "needs_review", to = "done" => from = {"needs_review"},
         \/ Handle(op, j, from, <<Update(j, to, m), Beat(j, to)>>)
         \/ Handle(op, j, from, <<Update(j, to, m), FreshBeat(j, to)>>)
         \/ Handle(op, j, from, <<Update(j, to, m)>>)
  PROVE  RestStep
  <1> DEFINE u == Update(j, to, m)
  <1>0. PICK b : /\ ~OnRow(b)
                 /\ Handle(op, j, from, <<u, b>>) \/ Handle(op, j, from, <<u>>)
    BY UpdateParts
  <1>a. u.kind = "update" /\ u.job = j /\ u.to = to
    BY UpdateParts
  <1> HIDE DEF u
  <1>1. /\ UNCHANGED <<row, ctl>> /\ row[j].status \in from
        /\ Then(Dir, <<u, b>>) \/ Then(Dir, <<u>>)
    BY <1>0 DEF Handle, ledger
  <1>2. \A c \in Actors \ {Dir} : todo'[c] = todo[c]
    BY <1>1 DEF Then, TypeOK
  <1>3. OneRowOp(Dir)' /\ \A o \in Ops(Dir)' : OnRow(o) => o = u
    BY <1>0, <1>a, <1>1, PairOps, SupActors
  <1> QED  BY <1>a, <1>1, <1>2, <1>3, RestDir

LEMMA RestJobRequest ==
  ASSUME ConstantsOK, TypeOK, RestInv, NEW j \in Jobs,
         RecordStatuses \cap Verdicts = {}
  PROVE  /\ MarkDone(j) \/ ClearDone(j) \/ MarkBlocked(j) \/ StopJob(j) => RestStep
         /\ ToolStop(j) \/ Record(j) \/ FollowUp(j) => RestStep
         /\ Submit(j) \/ Retry(j) => RestStep
         /\ \A r \in Jobs : Replace(j, r) => RestStep
  <1>0. Dir \in Actors /\ Sup # Dir
    BY DEF Sup, Dir, Actors
  <1>1. ASSUME MarkDone(j) PROVE RestStep
    BY <1>1, RestHandle, UpdateParts DEF MarkDone
  <1>2. ASSUME ClearDone(j) \/ MarkBlocked(j) \/ StopJob(j) PROVE RestStep
    <2>1. \E op, from : \E s \in {"stopped", "blocked"} :
             Handle(op, j, from, <<Update(j, s, Keep), Beat(j, s)>>)
      BY <1>2 DEF ClearDone, MarkBlocked, StopJob
    <2> QED  BY <2>1, RestHandle, UpdateParts
  <1>3. ASSUME ToolStop(j) PROVE RestStep
    BY <1>3, RestHandle, UpdateParts DEF ToolStop
  <1>4. ASSUME Record(j) PROVE RestStep
    <2>1. PICK s \in RecordStatuses :
             Handle("record", j, Statuses, <<Update(j, s, Keep)>>)
      BY <1>4 DEF Record
    <2>2. s # "needs_review" /\ s # "done"
      BY <2>1 DEF Verdicts
    <2> QED  BY <2>1, <2>2, RestHandle, UpdateParts
  <1>5. ASSUME FollowUp(j) PROVE RestStep
    BY <1>5, RestHandle, UpdateParts DEF FollowUp
  <1>6. ASSUME Submit(j) PROVE RestStep
    <2>1. /\ UNCHANGED <<todo, ctl>> /\ todo[Dir] = <<>>
          /\ row[j].status = "absent" /\ row'[j].status = "queued"
          /\ \A k \in Jobs \ {j} : row'[k] = row[k]
      BY <1>6 DEF Submit, Ready, NextJob, Insert, TypeOK, Row
    <2>2. Ops(Dir)' = {}
      BY <2>1 DEF Ops
    <2>3. OneRowOp(Dir)'
      BY <1>0, <2>1, SameOps DEF RestInv
    <2> QED  BY <2>1, <2>2, <2>3, RestDir
  <1>7. ASSUME Retry(j) PROVE RestStep
    <2>1. UNCHANGED <<row, todo>> /\ ctl'[Sup] = ctl[Sup]
      BY <1>0, <1>7, OtherActors DEF Retry, ledger
    <2>2. \A b \in Actors : Ops(b)' \subseteq Ops(b) /\ OneRowOp(b)'
      BY <2>1, SameOps DEF RestInv
    <2> QED  BY <2>1, <2>2, RestFewer
  <1>8. ASSUME NEW r \in Jobs, Replace(j, r) PROVE RestStep
    <2> DEFINE u == Update(j, "stopped", row[j].meta)
               x == Beat(j, "stopped")
               y == Beat(r, "queued")
    <2>1. /\ ctl' = ctl /\ Then(Dir, <<u, x, y>>)
          /\ row[r].status = "absent" /\ row'[r].status = "queued"
          /\ \A k \in Jobs \ {r} : row'[k] = row[k]
      BY <1>8 DEF Replace, NextJob, Insert, TypeOK, Row
    <2>2. \A c \in Actors \ {Dir} : todo'[c] = todo[c]
      BY <2>1 DEF Then, TypeOK
    <2>3. ~OnRow(x) /\ ~OnRow(y) /\ u.kind = "update" /\ u.to = "stopped"
      BY UpdateParts DEF OnRow
    <2> HIDE DEF u, x, y
    <2>4. Ops(Dir)' = {u, x, y} /\ OneRowOp(Dir)'
      BY <1>0, <2>1, <2>3, ThenThree
    <2> QED  BY <2>1, <2>2, <2>3, <2>4, RestDir
  <1> QED  BY <1>1, <1>2, <1>3, <1>4, <1>5, <1>6, <1>7, <1>8

LEMMA RestDirector ==
  ASSUME ConstantsOK, TypeOK, RestInv,
         \/ RequeueIncomplete \/ StopAll \/ RuntimeStop \/ RuntimeReset
         \/ StatusPoll \/ DirectorStep
  PROVE  RestStep
  <1>0. Sup # Dir /\ Dir \in Actors
    BY DEF Sup, Dir, Actors
  <1>1. row' = row
    BY DEF RequeueIncomplete, StopAll, RuntimeStop, RuntimeReset, StatusPoll,
           DirectorStep, MarkNextStale, EndPoll, PreflightRetry, BulkNext,
           EndBulk, RestartSession, ledger, history
  <1>2. ctl' = ctl \/ \E p, j, L : Goto(Dir, p, j, L)
    BY DEF RequeueIncomplete, StopAll, RuntimeStop, RuntimeReset, StatusPoll,
           DirectorStep, MarkNextStale, EndPoll, PreflightRetry, BulkNext,
           EndBulk, RestartSession
  <1>3. ctl'[Sup] = ctl[Sup]
    BY <1>0, <1>2, OtherActors
  <1>4. CASE todo' = todo
    <2>1. \A b \in Actors : Ops(b)' \subseteq Ops(b) /\ OneRowOp(b)'
      BY <1>4, SameOps DEF RestInv
    <2> QED  BY <1>1, <1>3, <2>1, RestFewer
  <1>5. CASE /\ \E s : Then(Dir, s)
             /\ OneRowOp(Dir)'
             /\ \A o \in Ops(Dir)' : OnRow(o) =>
                   o.kind = "update" /\ o.to \notin Verdicts
    <2>1. \A c \in Actors \ {Dir} : todo'[c] = todo[c]
      BY <1>5 DEF Then, TypeOK
    <2> QED  BY <1>1, <1>3, <1>5, <2>1, RestDir DEF Verdicts
  <1>6. Keep \notin Verdicts
    BY DEF ConstantsOK, Statuses, Verdicts
  <1>7. CASE RequeueIncomplete \/ StopAll \/ RuntimeStop \/ RuntimeReset
    <2>1. Then(Dir, <<>>) \/ Then(Dir, <<Abort(MainAlias)>>)
      BY <1>7 DEF RequeueIncomplete, StopAll, RuntimeStop, RuntimeReset
    <2>2. ~OnRow(Abort(MainAlias))
      BY DEF OnRow, Abort
    <2>3. OneRowOp(Dir)' /\ \A o \in Ops(Dir)' : ~OnRow(o)
      BY <1>0, <2>1, <2>2, ThenNone, ThenOne
    <2> QED  BY <1>5, <2>1, <2>3
  <1>8. CASE StatusPoll \/ EndPoll \/ EndBulk \/ RestartSession
    BY <1>4, <1>8 DEF StatusPoll, EndPoll, EndBulk, RestartSession
  <1>9. CASE MarkNextStale(Dir)
    <2>1. PICK j : Then(Dir, IF hb[j].old
                             THEN <<Upsert(j, "stale", StartOf(j)), Update(j, "stale", Keep)>>
                             ELSE <<>>)
      BY <1>9 DEF MarkNextStale
    <2> QED  BY <1>0, <1>5, <2>1, StaleOps DEF Verdicts
  <1>10. CASE PreflightRetry
    <2>1. \/ todo' = todo
          \/ \E j, s, m : /\ \/ Then(Dir, <<Update(j, s, m), FreshBeat(j, "queued")>>)
                             \/ Then(Dir, <<Update(j, s, m)>>)
                          /\ s \in {Keep, "queued"}
      BY <1>10 DEF PreflightRetry
    <2>2. ASSUME NEW j, NEW s \in {Keep, "queued"}, NEW m,
                 \/ Then(Dir, <<Update(j, s, m), FreshBeat(j, "queued")>>)
                 \/ Then(Dir, <<Update(j, s, m)>>)
          PROVE  RestStep
      <3>1. OneRowOp(Dir)' /\ \A o \in Ops(Dir)' : OnRow(o) => o = Update(j, s, m)
        BY <1>0, <2>2, PairOps, UpdateParts
      <3>2. s \notin Verdicts
        BY <1>6, <2>2 DEF Verdicts
      <3> QED  BY <1>5, <2>2, <3>1, <3>2, UpdateParts
    <2> QED  BY <1>4, <2>1, <2>2
  <1>11. CASE BulkNext
    <2>1. PICK s : Then(Dir, BulkOps(ctl[Dir].at, s))
      BY <1>11 DEF BulkNext
    <2>2. ctl[Dir].at \in {"requeue", "stop_all", "reset"}
      BY <1>11 DEF BulkNext, Ready
    <2>a. \/ Then(Dir, <<Update(s.job, "queued", s.row.meta), FreshBeat(s.job, "queued")>>)
          \/ Then(Dir, <<Update(s.job, "stopped", Keep), Beat(s.job, "stopped")>>)
          \/ Then(Dir, <<Update(s.job, Keep, s.row.meta)>>)
      BY <2>1, <2>2 DEF BulkOps
    <2>3. PICK to, m, b :
             /\ ~OnRow(b) /\ to \in {"queued", "stopped", Keep}
             /\ \/ Then(Dir, <<Update(s.job, to, m), b>>)
                \/ Then(Dir, <<Update(s.job, to, m)>>)
      <3>1. \A t : ~OnRow(FreshBeat(s.job, t)) /\ ~OnRow(Beat(s.job, t))
        BY UpdateParts
      <3>2. CASE Then(Dir, <<Update(s.job, "queued", s.row.meta),
                             FreshBeat(s.job, "queued")>>)
        BY <3>1, <3>2
      <3>3. CASE Then(Dir, <<Update(s.job, "stopped", Keep), Beat(s.job, "stopped")>>)
        BY <3>1, <3>3
      <3>4. CASE Then(Dir, <<Update(s.job, Keep, s.row.meta)>>)
        BY <3>1, <3>4
      <3> QED  BY <2>a, <3>2, <3>3, <3>4
    <2>4. OneRowOp(Dir)' /\ \A o \in Ops(Dir)' : OnRow(o) => o = Update(s.job, to, m)
      BY <1>0, <2>3, PairOps, UpdateParts
    <2>5. to \notin Verdicts
      BY <1>6, <2>3 DEF Verdicts
    <2> QED  BY <1>5, <2>1, <2>4, <2>5, UpdateParts
  <1> QED
    BY <1>7, <1>8, <1>9, <1>10, <1>11 DEF DirectorStep

(* --stop-job only ever stops.                                               *)
LEMMA RestCli ==
  ASSUME TypeOK, RestInv, NEW k \in Jobs, CliStop(k)
  PROVE  RestStep
  <1> DEFINE x == Abort(AliasOf[k])
             y == Beat(k, "stopped")
             z == Update(k, "stopped", Keep)
  <1>0. Sup # "cli" /\ Dir # "cli"
    BY DEF Sup, Dir
  <1>1. UNCHANGED <<row, ctl>> /\ Then("cli", <<x, y, z>>)
    BY DEF CliStop, ledger
  <1>2. \A b \in Actors \ {"cli"} : todo'[b] = todo[b]
    BY <1>1 DEF Then, TypeOK
  <1>3. ~OnRow(x) /\ ~OnRow(y) /\ z.kind = "update" /\ z.to = "stopped"
    BY DEF OnRow, Abort, Beat, Update
  <1> HIDE DEF x, y, z
  <1>4. Ops("cli")' = {x, y, z} /\ OneRowOp("cli")'
    BY <1>1, <1>3, SupActors, ThenThree
  <1>5. \A b \in Actors : OneRowOp(b)'
    BY <1>2, <1>4, SameOps DEF RestInv
  <1>6. SendsApart' /\ \A j \in Jobs : SupApart(j) <=> SupApart(j)'
    BY <1>1 DEF RestInv, SendsApart, SupApart
  <1>7. ASSUME NEW j \in Jobs PROVE RestsApart(j)' /\ (Due(j)' => Due(j))
    <2>1. RestsApart(j)
      BY DEF RestInv
    <2>2. RowOps(Sup, j)' = RowOps(Sup, j) /\ RowOps(Dir, j)' = RowOps(Dir, j)
      BY <1>0, <1>2, SupActors, SameOps
    <2>3. \A o \in RowOps("cli", j)' : o = z
      BY <1>3, <1>4 DEF RowOps
    <2>4. \A o \in RowOps("cli", j)' : Gives(o) = "stopped"
      BY <1>3, <2>3 DEF Gives
    <2>5. (DirHolds(j)' => DirHolds(j)) /\ (Rested(j)' => Rested(j))
      BY <1>1, <2>2 DEF DirHolds, Rested, Gives, Verdicts
    <2> QED  BY <1>1, <1>6, <2>1, <2>2, <2>4, <2>5, RestMoves, DueMoves DEF RestsApart
  <1> QED  BY <1>5, <1>6, <1>7 DEF RestInv, RestStep

LEMMA RestEnvironment ==
  ASSUME TypeOK, RestInv, Environment
  PROVE  RestStep
  <1>1. CASE UNCHANGED <<row, todo, ctl>>
    <2>1. \A b \in Actors : Ops(b)' \subseteq Ops(b) /\ OneRowOp(b)'
      BY <1>1, SameOps DEF RestInv
    <2> QED  BY <1>1, <2>1, RestFewer
  <1>2. ASSUME NEW a \in Actors, Crash(a) PROVE RestStep
    <2>1. row' = row /\ Then(a, <<>>) /\ Goto(a, "idle", 0, {})
      BY <1>2 DEF Crash, ledger
    <2>2. \A b \in Actors \ {a} : todo'[b] = todo[b]
      BY <2>1 DEF Then, TypeOK
    <2>3. Ops(a)' = {} /\ OneRowOp(a)'
      BY <2>1, ThenNone
    <2>4. \A b \in Actors : Ops(b)' \subseteq Ops(b) /\ OneRowOp(b)'
      BY <2>2, <2>3, SameOps DEF RestInv
    <2>5. CASE a # Sup
      <3>1. ctl'[Sup] = ctl[Sup]
        BY <2>1, <2>5, OtherActors
      <3> QED  BY <2>1, <2>4, <3>1, RestFewer
    <2>6. CASE a = Sup
      <3>1. ctl'[Sup] = [at |-> "idle", job |-> 0, list |-> {}]
        BY <2>1, <2>6, SupMoves
      <3>2. SendsApart' /\ \A j : SupApart(j)'
        BY <3>1 DEF SendsApart, SupApart, Sending
      <3>3. \A j : RowOps(Sup, j)' = {}
        BY <2>3, <2>6 DEF RowOps
      <3>4. \A j : ~SupReviews(j)'
        BY <3>3 DEF SupReviews
      <3> QED  BY <2>1, <2>2, <2>3, <2>6, <3>2, <3>3, <3>4, RestSup DEF RestStep
    <2> QED  BY <2>5, <2>6
  <1> QED
    BY <1>1, <1>2
    DEF Environment, SmithAnswers, BusyWindowPasses, HeartbeatAges, ServerDown,
        ServerUp, ledger

LEMMA RestNext ==
  ASSUME ConstantsOK, RecordStatuses \cap Verdicts = {}, TypeOK, DispatchInv, RestInv,
         [Next]_vars
  PROVE  /\ RestInv'
         /\ \A j \in Jobs : Due(j)' =>
               Due(j) \/ (SupervisorStep /\ StatusOf(AliasOf[j]) = "idle")
  <1>1. CASE UNCHANGED vars
    <2>1. \A b \in Actors : Ops(b)' \subseteq Ops(b) /\ OneRowOp(b)'
      BY <1>1, SameOps DEF vars, RestInv
    <2> QED  BY <1>1, <2>1, RestFewer DEF vars, RestStep
  <1>2. CASE \E a \in Actors : LedgerStep(a)
    BY <1>2, RestLedger DEF RestStep
  <1>3. CASE SupervisorStep
    BY <1>3, RestSupervisor
  <1>4. CASE DirectorRequest
    <2>1. RestStep
      BY <1>4, RestJobRequest, RestDirector DEF DirectorRequest
    <2> QED  BY <2>1 DEF RestStep
  <1>5. CASE DirectorStep
    BY <1>5, RestDirector DEF RestStep
  <1>6. CASE \E j \in Jobs : CliStop(j)
    BY <1>6, RestCli DEF RestStep
  <1>7. CASE Environment
    BY <1>7, RestEnvironment DEF RestStep
  <1> QED  BY <1>1, <1>2, <1>3, <1>4, <1>5, <1>6, <1>7 DEF Next

LEMMA InitRest ==
  ASSUME Init
  PROVE  RestInv /\ \A j \in Jobs : ~Due(j)
  <1>1. /\ ctl[Sup] = [at |-> "idle", job |-> 0, list |-> {}]
        /\ \A a \in Actors : todo[a] = <<>>
        /\ \A j \in Jobs : row[j].status = "absent"
    BY SupActors DEF Init
  <1>2. \A a \in Actors : Len(todo[a]) = 0
    BY <1>1
  <1>3. \A a \in Actors : Ops(a) = {} /\ OneRowOp(a)
    BY <1>2 DEF Ops, OneRowOp
  <1>4. \A a \in Actors, j \in Jobs : RowOps(a, j) = {}
    BY <1>3 DEF RowOps
  <1>5. \A j \in Jobs : ~DirHolds(j) /\ ~Rested(j) /\ ~SupReviews(j)
    BY <1>1, <1>4, SupActors DEF DirHolds, Rested, SupReviews, Verdicts
  <1>6. SendsApart
    BY <1>1 DEF SendsApart
  <1> QED  BY <1>3, <1>4, <1>5, <1>6, SupActors DEF RestInv, RestsApart, Due

(* A job under review, or about to be, is not at work: while the server can   *)
(* be reached the tick asked for its status after the last prompt.           *)
IdleInv == spent.outages = 0 /\ up /\ \A j \in Jobs : Due(j) => ~Working(j)

LEMMA QueueGrows ==
  ASSUME NEW q \in Seq(Jobs), NEW j, NEW c \in Jobs, c # j, \A i \in DOMAIN q : q[i] # j
  PROVE  \A i \in DOMAIN Append(q, c) : Append(q, c)[i] # j
  <1>1. DOMAIN q = 1..Len(q) /\ Len(q) \in Nat
    OBVIOUS
  <1>2. DOMAIN Append(q, c) = 1..(Len(q) + 1)
    OBVIOUS
  <1>3. \A i \in 1..Len(q) : Append(q, c)[i] = q[i]
    OBVIOUS
  <1>4. Append(q, c)[Len(q) + 1] = c
    OBVIOUS
  <1> QED  BY <1>1, <1>2, <1>3, <1>4

LEMMA QueueTail ==
  ASSUME NEW q \in Seq(Jobs), q # <<>>
  PROVE  /\ DOMAIN q = 1..Len(q) /\ Len(q) \in Nat
         /\ DOMAIN Tail(q) = 1..(Len(q) - 1)
         /\ \A i \in 1..(Len(q) - 1) : Tail(q)[i] = q[i + 1]
  <1>1. DOMAIN q = 1..Len(q) /\ Len(q) \in Nat /\ Len(q) > 0
    OBVIOUS
  <1>2. Tail(q) \in Seq(Jobs) /\ Len(Tail(q)) = Len(q) - 1
    BY <1>1
  <1>3. DOMAIN Tail(q) = 1..(Len(q) - 1)
    BY <1>2
  <1> QED  BY <1>1, <1>3

LEMMA QueueShrinks ==
  ASSUME NEW q \in Seq(Jobs), NEW j, \A i \in DOMAIN q : q[i] # j
  PROVE  q # <<>> => \A i \in DOMAIN Tail(q) : Tail(q)[i] # j
  <1> SUFFICES ASSUME q # <<>> PROVE \A i \in DOMAIN Tail(q) : Tail(q)[i] # j
    OBVIOUS
  <1>1. \A i \in 1..(Len(q) - 1) : i + 1 \in DOMAIN q
    BY QueueTail
  <1>2. \A i \in 1..(Len(q) - 1) : Tail(q)[i] # j
    BY <1>1, QueueTail
  <1> QED  BY <1>2, QueueTail

LEMMA IdleNext ==
  ASSUME ConstantsOK, RecordStatuses \cap Verdicts = {}, MaxOutages = 0,
         TypeOK, DispatchInv, RestInv, IdleInv, [Next]_vars
  PROVE  IdleInv'
  <1>1. spent'.outages = 0 /\ up'
    <2>1. spent \in [ops : Nat, crashes : Nat, outages : Nat] /\ ~ServerDown
      BY DEF TypeOK, IdleInv, ServerDown
    <2>2. /\ spent' = spent
             \/ spent' = [spent EXCEPT !.ops = @ + 1]
             \/ spent' = [spent EXCEPT !.crashes = @ + 1]
          /\ up' = up \/ up'
      <3>1. CASE UNCHANGED vars \/ SupervisorStep \/ DirectorStep
                 \/ \E a \in Actors : LedgerStep(a)
        BY <3>1 DEF vars, SupervisorStep, TickStarts, MarkNextStale, ListActive, EndTick,
                  CheckJob, BeginSend, SendPrompt, SendRefused, SendAnswered,
                  SendFailed, SendTimedOut, CheckAfterTimeout, DirectorStep, EndPoll,
                  PreflightRetry, BulkNext, EndBulk, RestartSession, LedgerStep,
                  ReadRow, WriteRow, ReadHeartbeat, RecordHeartbeat, AbortSession
      <3>2. CASE DirectorRequest \/ \E j \in Jobs : CliStop(j)
        BY <3>2 DEF DirectorRequest, Submit, MarkDone, ClearDone, MarkBlocked, StopJob,
                  ToolStop, Record, FollowUp, Retry, Replace, RequeueIncomplete,
                  StopAll, RuntimeStop, RuntimeReset, StatusPoll, CliStop,
                  Handle, Request
      <3>3. CASE Environment
        BY <2>1, <3>3 DEF Environment, SmithAnswers, BusyWindowPasses, HeartbeatAges,
                  ServerUp, Crash
      <3> QED  BY <3>1, <3>2, <3>3 DEF Next
    <2> QED  BY <2>1, <2>2 DEF IdleInv
  <1>2. ASSUME NEW j \in Jobs, Due(j)' PROVE ~Working(j)'
    <2> DEFINE A == AliasOf[j]
    <2>1. A \in Aliases /\ session[A].queue \in Seq(Jobs)
      BY DEF ConstantsOK, TypeOK, Session
    <2>2. Due(j) \/ (SupervisorStep /\ StatusOf(A) = "idle")
      BY <1>2, RestNext
    <2>3. ~Working(j)
      <3>1. CASE StatusOf(A) = "idle"
        <4>1. session[A].queue = <<>>
          BY <3>1 DEF StatusOf, IdleInv
        <4> QED  BY <4>1 DEF Working
      <3> QED  BY <2>2, <3>1 DEF IdleInv
    <2>4. \A i \in DOMAIN session[A].queue : session[A].queue[i] # j
      BY <2>3 DEF Working
    <2>5. CASE SendPrompt
      <3> DEFINE c == ctl[Sup].job
      <3>1. c \in Jobs /\ c # j
        <4>a. ctl[Sup].at = "send" /\ todo[Sup] = <<>> /\ todo' = todo
              /\ Goto(Sup, "reply", c, ctl[Sup].list)
          BY <2>5 DEF SendPrompt, Ready
        <4>b. ctl'[Sup] = [at |-> "reply", job |-> c, list |-> ctl[Sup].list]
          BY <4>a, SupMoves
        <4>1. ctl[Sup].at = "send" /\ ctl'[Sup] = [at |-> "reply", job |-> c, list |-> ctl[Sup].list]
              /\ todo'[Sup] = todo[Sup] /\ todo[Sup] = <<>>
          BY <4>a, <4>b
        <4>2. c \in Jobs
          BY <4>1, SupActors DEF TypeOK, Control, Sending
        <4>3. Ops(Sup)' = {}
          BY <4>1 DEF Ops
        <4>4. ~SupReviews(j)'
          BY <4>3 DEF SupReviews, RowOps
        <4>5. SupApart(j)'
          BY <1>2, <4>4, RestNext DEF Due, RestInv, RestsApart
        <4> QED  BY <4>1, <4>2, <4>5 DEF SupApart, Sending
      <3>2. /\ session'[A].queue = session[A].queue
               \/ session'[A].queue = Append(session[A].queue, c)
        BY <2>1, <2>5 DEF SendPrompt, TypeOK
      <3>3. \A i \in DOMAIN session'[A].queue : session'[A].queue[i] # j
        BY <2>1, <2>4, <3>1, <3>2, QueueGrows
      <3> QED  BY <3>3 DEF Working
    <2>6. CASE ~SendPrompt
      <3>1. \/ session'[A].queue = session[A].queue
            \/ session'[A].queue = <<>>
            \/ session'[A].queue = Tail(session[A].queue) /\ session[A].queue # <<>>
        <4>1. CASE UNCHANGED session
          BY <4>1
        <4>2. CASE \E a \in Actors : AbortSession(a)
          BY <2>1, <4>2 DEF AbortSession, TypeOK
        <4>3. CASE RestartSession
          <5>1. session'[A] = session[A] \/ session'[A] = [started |-> TRUE, queue |-> <<>>]
            BY <2>1, <4>3 DEF RestartSession, TypeOK
          <5> QED  BY <5>1
        <4>4. CASE ServerUp
          BY <4>4 DEF ServerUp, IdleInv
        <4>5. CASE \E a \in Aliases : SmithAnswers(a)
          BY <2>1, <4>5 DEF SmithAnswers, TypeOK
        <4>6. CASE UNCHANGED vars \/ SupervisorStep \/ DirectorStep
                   \/ \E a \in Actors : LedgerStep(a)
          BY <2>6, <4>1, <4>2, <4>3, <4>6
          DEF vars, SupervisorStep, TickStarts, MarkNextStale, ListActive, EndTick,
              CheckJob, BeginSend, SendRefused, SendAnswered,
              SendFailed, SendTimedOut, CheckAfterTimeout, DirectorStep, EndPoll,
              PreflightRetry, BulkNext, EndBulk, LedgerStep,
              ReadRow, WriteRow, ReadHeartbeat, RecordHeartbeat
        <4>7. CASE DirectorRequest \/ \E k \in Jobs : CliStop(k)
          BY <4>1, <4>7
          DEF DirectorRequest, Submit, MarkDone, ClearDone, MarkBlocked, StopJob,
              ToolStop, Record, FollowUp, Retry, Replace, RequeueIncomplete,
              StopAll, RuntimeStop, RuntimeReset, StatusPoll, CliStop, Handle
        <4>8. CASE Environment
          BY <4>1, <4>4, <4>5, <4>8
          DEF Environment, BusyWindowPasses, HeartbeatAges, ServerDown, Crash
        <4> QED  BY <4>6, <4>7, <4>8 DEF Next
      <3>2. \A i \in DOMAIN session'[A].queue : session'[A].queue[i] # j
        <4>1. CASE session'[A].queue = <<>>
          <5>1. DOMAIN session'[A].queue = {}
            BY <4>1
          <5> QED  BY <5>1
        <4> QED  BY <2>1, <2>4, <3>1, <4>1, QueueShrinks
      <3> QED  BY <3>2 DEF Working
    <2> QED  BY <2>5, <2>6
  <1> QED  BY <1>1, <1>2 DEF IdleInv

(* While OpenCode can be reached, and no verdict is recorded by hand, a job   *)
(* that waits for review has nothing left to answer in its session: whatever *)
(* the tick read and the operators write meanwhile, the supervisor puts a    *)
(* job up for review only after the session said it was idle, and sends it   *)
(* no prompt afterwards.                                                      *)
THEOREM ReviewedAreIdle ==
  ASSUME MaxOutages = 0, RecordStatuses \cap {"needs_review", "done"} = {}
  PROVE  Spec => []ReviewIsIdle
  <1> USE ConstantsOK
  <1>0. RecordStatuses \cap Verdicts = {}
    BY DEF Verdicts
  <1>1. Init => TypeOK /\ DispatchInv /\ RestInv /\ IdleInv
    <2>1. Init => spent.outages = 0 /\ up
      BY DEF Init
    <2> QED  BY <2>1, InitTyped, InitDispatch, InitRest DEF IdleInv
  <1>2. TypeOK /\ DispatchInv /\ RestInv /\ IdleInv /\ [Next]_vars
          => (TypeOK /\ DispatchInv /\ RestInv /\ IdleInv)'
    BY <1>0, NextTyped, DispatchNext, RestNext, IdleNext
  <1>3. RestInv /\ IdleInv => ReviewIsIdle
    BY DEF IdleInv, ReviewIsIdle, Due, Rested, Verdicts
  <1> QED  BY <1>1, <1>2, <1>3, PTL DEF Spec

-----------------------------------------------------------------------------
(* Done.  The Director's operation that gives "done" finds the job under      *)
(* review or done when it is carried out, and what it does to a done job     *)
(* leaves it done or stops it; its lists never hold a done job.              *)
DirDoes(j) == \E o \in RowOps(Dir, j) : Gives(o) = "done"
Mild(o)    == \/ Gives(o) \in {"done", "stopped"}
              \/ o.kind = "update" /\ o.to = Keep
DoneApart(j) ==
    /\ DirHolds(j) => row[j].status \in Verdicts
    /\ row[j].status = "done" \/ DirDoes(j) => \A s \in ctl[Dir].list : s.job # j
    /\ row[j].status = "done" => \A o \in RowOps(Dir, j) : Mild(o)
DirFree == ctl[Dir].at = "idle" => ctl[Dir].list = {}
DoneInv == todo["cli"] = <<>> /\ DirFree /\ \A j \in Jobs : DoneApart(j)

LEMMA DoneFewer ==
  ASSUME DoneInv, row' = row, todo'["cli"] = <<>>, DirFree',
         \A o \in Ops(Dir)' : OnRow(o) => o \in Ops(Dir),
         ctl'[Dir].list \subseteq ctl[Dir].list
  PROVE  DoneInv'
  <1>1. ASSUME NEW j \in Jobs PROVE DoneApart(j)'
    <2>1. DoneApart(j) /\ RowOps(Dir, j)' \subseteq RowOps(Dir, j)
      BY FewerOps DEF DoneInv
    <2>2. (DirHolds(j)' => DirHolds(j)) /\ (DirDoes(j)' => DirDoes(j))
      BY <2>1 DEF DirHolds, DirDoes, Gives, Verdicts
    <2> QED  BY <2>1, <2>2 DEF DoneApart, Mild, Gives
  <1> QED  BY <1>1 DEF DoneInv

(* A step of the Director: the operations it takes up, the list it takes.    *)
LEMMA DoneDir ==
  ASSUME DoneInv, todo'["cli"] = <<>>, DirFree',
         \A j \in Jobs : \/ row'[j] = row[j]
                         \/ row[j].status = "absent" /\ row'[j].status = "queued",
         \A s \in ctl'[Dir].list : row[s.job].status # "done",
         \A o \in Ops(Dir)' : OnRow(o) =>
            /\ o.kind = "update"
            /\ o.to = "done" => row[o.job].status = "needs_review" /\ ctl'[Dir].list = {}
            /\ row[o.job].status = "done" => o.to \in {"stopped", Keep}
  PROVE  DoneInv'
  <1>1. ASSUME NEW j \in Jobs PROVE DoneApart(j)'
    <2>1. \A o \in RowOps(Dir, j)' :
            /\ o.kind = "update"
            /\ o.to = "done" => row[j].status = "needs_review" /\ ctl'[Dir].list = {}
            /\ row[j].status = "done" => o.to \in {"stopped", Keep}
      BY DEF RowOps, OnRow
    <2>2. row'[j].status = "done" <=> row[j].status = "done"
      OBVIOUS
    <2>3. row[j].status = "needs_review" => row'[j].status \in Verdicts
      BY DEF Verdicts
    <2>4. DirHolds(j)' => row'[j].status \in Verdicts
      BY <2>1, <2>3 DEF DirHolds, Gives
    <2>5. DirDoes(j)' => ctl'[Dir].list = {}
      BY <2>1 DEF DirDoes, Gives
    <2>6. row'[j].status = "done" => \A o \in RowOps(Dir, j)' : Mild(o)
      BY <2>1, <2>2 DEF Mild, Gives
    <2>7. row'[j].status = "done" => \A s \in ctl'[Dir].list : s.job # j
      BY <2>2
    <2> QED  BY <2>4, <2>5, <2>6, <2>7 DEF DoneApart
  <1> QED  BY <1>1 DEF DoneInv

LEMMA DoneRead ==
  ASSUME ConstantsOK, TypeOK, RestInv, DoneInv, NEW a \in Actors, ReadRow(a)
  PROVE  DoneInv'
  <1>1. UNCHANGED <<row, ctl>> /\ \A b \in Actors \ {a} : todo'[b] = todo[b]
    BY DEF ReadRow, TypeOK, ledger
  <1>2. a # "cli"
    BY DEF DoneInv, ReadRow, Doing
  <1>3. todo'["cli"] = <<>> /\ DirFree'
    BY <1>1, <1>2, SupActors DEF DoneInv, DirFree
  <1>4. CASE a # Dir
    <2>1. Ops(Dir)' = Ops(Dir)
      BY <1>1, <1>4, SupActors, SameOps
    <2> QED  BY <1>1, <1>3, <2>1, DoneFewer
  <1>5. CASE a = Dir
    <2>1. PICK u, sv :
            /\ u.kind = "update" /\ u.job \in Jobs /\ u \in Ops(Dir)
            /\ sv.kind = "save" /\ sv.job = u.job
            /\ sv.row.status = IF u.to = Keep THEN row[u.job].status ELSE u.to
            /\ \A o \in Ops(Dir)' : OnRow(o) => o = sv
      BY <1>5, ReadOps DEF RestInv
    <2>2. u \in RowOps(Dir, u.job) /\ Gives(u) = u.to /\ Gives(sv) = sv.row.status
      BY <2>1 DEF RowOps, OnRow, Gives
    <2>3. \A j : \A o \in RowOps(Dir, j)' : o = sv /\ j = u.job
      BY <2>1 DEF RowOps, OnRow
    <2>4. ASSUME NEW j \in Jobs PROVE DoneApart(j)'
      <3>1. DoneApart(j)
        BY DEF DoneInv
      <3>2. CASE RowOps(Dir, j)' = {}
        BY <1>1, <3>1, <3>2 DEF DoneApart, DirHolds, DirDoes
      <3>3. CASE RowOps(Dir, j)' # {}
        <4>0. j = u.job
          BY <2>3, <3>3
        <4>1. CASE u.to = Keep
          <5>1. Gives(sv) = row[j].status
            BY <2>1, <2>2, <4>0, <4>1
          <5> QED  BY <1>1, <2>3, <3>1, <5>1 DEF DoneApart, DirHolds, DirDoes, Mild, Verdicts, Gives
        <4>2. CASE u.to # Keep
          <5>1. Gives(sv) = u.to /\ u.to # "needs_review"
            BY <2>1, <2>2, <4>0, <4>2 DEF RestInv, RestsApart
          <5>2. u.to = "done" => DirHolds(j) /\ DirDoes(j)
            BY <2>1, <2>2, <4>0 DEF DirHolds, DirDoes
          <5>3. row[j].status = "done" => u.to \in {"done", "stopped"}
            BY <2>2, <3>1, <4>0, <4>2 DEF DoneApart, Mild
          <5> QED  BY <1>1, <2>1, <2>3, <3>1, <5>1, <5>2, <5>3
                   DEF DoneApart, DirHolds, DirDoes, Mild, Verdicts, Gives
        <4> QED  BY <4>1, <4>2
      <3> QED  BY <3>2, <3>3
    <2> QED  BY <1>3, <2>4 DEF DoneInv
  <1> QED  BY <1>4, <1>5

(* The property, of one step.                                                *)
DoneStep ==
    \A j \in Jobs :
        /\ row'[j].status = "done" /\ row[j].status # "done"
             => row[j].status = "needs_review"
        /\ row[j].status = "done" => row'[j].status \in {"done", "stopped"}

LEMMA DoneWrite ==
  ASSUME TypeOK, RestInv, DoneInv, NEW a \in Actors, WriteRow(a)
  PROVE  DoneInv' /\ DoneStep
  <1> DEFINE w == Head(todo[a])
  <1>1. w \in SaveOp /\ w.job \in Jobs /\ w.row \in Row /\ w.kind = "save"
    BY HeadTyped, OpKinds DEF WriteRow, Doing, SaveOp
  <1>2. /\ row' = [row EXCEPT ![w.job] = w.row] /\ ctl' = ctl /\ Done(a)
        /\ todo[a] # <<>>
    BY DEF WriteRow, Doing
  <1>3. \A b \in Actors \ {a} : todo'[b] = todo[b]
    BY <1>2 DEF Done, TypeOK
  <1>4. w \in Ops(a) /\ \A o \in Ops(a)' : ~OnRow(o)
    BY <1>1, <1>2, DoneOps DEF RestInv, OnRow
  <1> HIDE DEF w
  <1>5. a # "cli" /\ todo'["cli"] = <<>> /\ DirFree'
    BY <1>2, <1>3, SupActors DEF DoneInv, DirFree
  <1>6. w \in RowOps(a, w.job) /\ Gives(w) = w.row.status /\ \A j : RowOps(a, j)' = {}
    BY <1>1, <1>4 DEF RowOps, OnRow, Gives
  <1>7. row'[w.job] = w.row /\ \A j \in Jobs \ {w.job} : row'[j] = row[j]
    BY <1>1, <1>2 DEF TypeOK
  <1>8. a \in {Sup, Dir}
    BY <1>5 DEF Actors, Sup, Dir
  <1>9. ASSUME NEW j \in Jobs
        PROVE  /\ DoneApart(j)'
               /\ row'[j].status = "done" /\ row[j].status # "done"
                    => row[j].status = "needs_review"
               /\ row[j].status = "done" => row'[j].status \in {"done", "stopped"}
    <2>1. DoneApart(j) /\ RestsApart(j)
      BY DEF DoneInv, RestInv
    <2>2. RowOps(Dir, j)' \subseteq RowOps(Dir, j)
      BY <1>3, <1>6, SupActors, SameOps
    <2>3. (DirHolds(j)' => DirHolds(j)) /\ (DirDoes(j)' => DirDoes(j))
      BY <2>2 DEF DirHolds, DirDoes, Gives, Verdicts
    <2>4. CASE j # w.job
      <3>1. row'[j] = row[j]
        BY <1>7, <2>4
      <3> QED  BY <1>2, <2>1, <2>2, <2>3, <3>1 DEF DoneApart, Mild, Gives
    <2>5. CASE j = w.job /\ a = Sup
      <3>1. ~Rested(j) /\ Gives(w) # "done"
        BY <1>6, <2>1, <2>5 DEF RestsApart
      <3>2. row[j].status # "done" /\ row'[j].status # "done" /\ ~DirHolds(j)
        BY <1>6, <1>7, <2>5, <3>1 DEF Rested, Verdicts
      <3>3. ~DirDoes(j)
        BY <3>2 DEF DirHolds, DirDoes
      <3> QED  BY <2>3, <3>2, <3>3 DEF DoneApart
    <2>6. CASE j = w.job /\ a = Dir
      <3>1. RowOps(Dir, j)' = {} /\ row'[j].status = Gives(w) /\ w \in RowOps(Dir, j)
        BY <1>6, <1>7, <2>6
      <3>2. ~DirHolds(j)' /\ ~DirDoes(j)'
        BY <3>1 DEF DirHolds, DirDoes
      <3>3. row'[j].status = "done" =>
               /\ row[j].status \in Verdicts
               /\ \A s \in ctl[Dir].list : s.job # j
        BY <2>1, <3>1 DEF DirHolds, DirDoes, DoneApart
      <3>4. row[j].status = "done" => row'[j].status \in {"done", "stopped"}
        BY <1>1, <2>1, <3>1 DEF DoneApart, Mild
      <3> QED  BY <1>2, <3>1, <3>2, <3>3, <3>4 DEF DoneApart, Verdicts
    <2> QED  BY <1>8, <2>4, <2>5, <2>6
  <1> QED  BY <1>5, <1>9 DEF DoneInv, DoneStep

(* What leaves the rows and the Director alone.                              *)
LEMMA DoneElsewhere ==
  ASSUME DoneInv, row' = row, todo'["cli"] = <<>>, todo'[Dir] = todo[Dir],
         ctl'[Dir] = ctl[Dir]
  PROVE  DoneInv' /\ DoneStep
  <1>1. DirFree' /\ Ops(Dir)' = Ops(Dir)
    BY SameOps DEF DoneInv, DirFree
  <1>2. DoneInv'
    BY <1>1, DoneFewer
  <1>3. DoneStep
    BY DEF DoneStep
  <1> QED  BY <1>2, <1>3

LEMMA OtherSteps ==
  ASSUME TypeOK, NEW a \in Actors, NEW b \in Actors \ {a}
  PROVE  /\ \A s : Then(a, s) => todo'[b] = todo[b]
         /\ Done(a) => todo'[b] = todo[b]
         /\ \A p, j, L : Goto(a, p, j, L) => ctl'[b] = ctl[b]
  BY DEF TypeOK, Then, Done, Goto

LEMMA OwnSteps ==
  ASSUME TypeOK, NEW a \in Actors, NEW p, NEW j, NEW L, Goto(a, p, j, L)
  PROVE  ctl'[a] = [at |-> p, job |-> j, list |-> L]
  BY DEF TypeOK, Goto

LEMMA DoneSupervisor ==
  ASSUME TypeOK, DoneInv, SupervisorStep
  PROVE  DoneInv' /\ DoneStep
  <1>0. Sup \in Actors /\ Dir \in Actors \ {Sup} /\ "cli" \in Actors \ {Sup}
    BY DEF Sup, Dir, Actors
  <1>1. row' = row
    BY DEF SupervisorStep, TickStarts, MarkNextStale, ListActive, EndTick, CheckJob,
           BeginSend, SendPrompt, SendRefused, SendAnswered, SendFailed,
           SendTimedOut, CheckAfterTimeout, ledger
  <1>2. \E p, j, L : Goto(Sup, p, j, L)
    BY DEF SupervisorStep, TickStarts, MarkNextStale, ListActive, EndTick, CheckJob,
           BeginSend, SendPrompt, SendRefused, SendAnswered, SendFailed,
           SendTimedOut, CheckAfterTimeout
  <1>3. todo' = todo \/ \E s : Then(Sup, s)
    BY DEF SupervisorStep, TickStarts, MarkNextStale, ListActive, EndTick, CheckJob,
           BeginSend, SendPrompt, SendRefused, SendAnswered, SendFailed,
           SendTimedOut, CheckAfterTimeout
  <1>4. ctl'[Dir] = ctl[Dir]
    BY <1>0, <1>2, OtherSteps
  <1>5. todo'[Dir] = todo[Dir] /\ todo'["cli"] = todo["cli"]
    BY <1>0, <1>3, OtherSteps
  <1> QED  BY <1>1, <1>4, <1>5, DoneElsewhere DEF DoneInv

LEMMA DoneEnvironment ==
  ASSUME TypeOK, DoneInv, Environment
  PROVE  DoneInv' /\ DoneStep
  <1>1. CASE UNCHANGED <<row, todo, ctl>>
    BY <1>1, DoneElsewhere DEF DoneInv
  <1>2. ASSUME NEW a \in Actors, Crash(a) PROVE DoneInv' /\ DoneStep
    <2>1. row' = row /\ Then(a, <<>>) /\ Goto(a, "idle", 0, {})
      BY <1>2 DEF Crash, ledger
    <2>2. todo'["cli"] = <<>>
      <3>1. CASE a = "cli"
        BY <2>1, <3>1, SupActors DEF Then, TypeOK
      <3>2. CASE a # "cli"
        BY <2>1, <3>2, SupActors, OtherSteps DEF DoneInv
      <3> QED  BY <3>1, <3>2
    <2>3. CASE a # Dir
      <3>1. todo'[Dir] = todo[Dir] /\ ctl'[Dir] = ctl[Dir]
        BY <2>1, <2>3, SupActors, OtherSteps
      <3> QED  BY <2>1, <2>2, <3>1, DoneElsewhere
    <2>4. CASE a = Dir
      <3>1. ctl'[Dir] = [at |-> "idle", job |-> 0, list |-> {}] /\ Ops(Dir)' = {}
        <4>1. Ops(Dir)' = {}
          BY <2>1, <2>4, ThenNone
        <4>2. ctl'[a] = [at |-> "idle", job |-> 0, list |-> {}]
          BY <2>1 DEF Goto, TypeOK
        <4> QED  BY <2>4, <4>1, <4>2
      <3>2. DirFree' /\ ctl'[Dir].list \subseteq ctl[Dir].list
        BY <3>1 DEF DirFree
      <3>3. DoneInv'
        BY <2>1, <2>2, <3>1, <3>2, DoneFewer
      <3> QED  BY <2>1, <3>3 DEF DoneStep
    <2> QED  BY <2>3, <2>4
  <1> QED
    BY <1>1, <1>2
    DEF Environment, SmithAnswers, BusyWindowPasses, HeartbeatAges, ServerDown,
        ServerUp, ledger

(* A handler's update of a row it checked.                                   *)
LEMMA DoneHandle ==
  ASSUME TypeOK, DoneInv, NEW op, NEW j \in Jobs, NEW from, NEW to, NEW m,
         to = "done" => from = {"needs_review"},
         "done" \in from => to \in {"stopped", Keep},
         \/ Handle(op, j, from, <<Update(j, to, m), Beat(j, to)>>)
         \/ Handle(op, j, from, <<Update(j, to, m), FreshBeat(j, to)>>)
         \/ Handle(op, j, from, <<Update(j, to, m)>>)
  PROVE  DoneInv' /\ DoneStep
  <1> DEFINE u == Update(j, to, m)
  <1>0. PICK b : /\ ~OnRow(b)
                 /\ Handle(op, j, from, <<u, b>>) \/ Handle(op, j, from, <<u>>)
    BY UpdateParts
  <1>1. u.kind = "update" /\ u.job = j /\ u.to = to
    BY UpdateParts
  <1> HIDE DEF u
  <1>2. /\ UNCHANGED <<row, ctl>> /\ row[j].status \in from
        /\ Then(Dir, <<u, b>>) \/ Then(Dir, <<u>>)
        /\ ctl[Dir].at = "idle"
    BY <1>0 DEF Handle, Request, Ready, ledger
  <1>3. todo'["cli"] = <<>>
    BY <1>2, SupActors, OtherSteps DEF DoneInv, Dir
  <1>4. \A o \in Ops(Dir)' : OnRow(o) => o = u
    BY <1>0, <1>1, <1>2, PairOps, SupActors
  <1>5. ctl'[Dir].list = {} /\ DirFree'
    BY <1>2 DEF DoneInv, DirFree
  <1>6. DoneInv'
    BY <1>1, <1>2, <1>3, <1>4, <1>5, DoneDir
  <1> QED  BY <1>2, <1>6 DEF DoneStep

LEMMA DoneJobRequest ==
  ASSUME ConstantsOK, TypeOK, DoneInv, NEW j \in Jobs,
         RecordStatuses \subseteq {Keep, "stopped"}
  PROVE  /\ MarkDone(j) \/ ClearDone(j) \/ MarkBlocked(j) \/ StopJob(j) => DoneInv' /\ DoneStep
         /\ ToolStop(j) \/ Record(j) \/ FollowUp(j) => DoneInv' /\ DoneStep
         /\ Submit(j) \/ Retry(j) => DoneInv' /\ DoneStep
         /\ \A r \in Jobs : Replace(j, r) => DoneInv' /\ DoneStep
  <1>0. Dir \in Actors /\ "cli" \in Actors \ {Dir}
    BY DEF Dir, Actors
  <1>1. ASSUME MarkDone(j) PROVE DoneInv' /\ DoneStep
    BY <1>1, DoneHandle DEF MarkDone
  <1>2. ASSUME ClearDone(j) PROVE DoneInv' /\ DoneStep
    <2>1. Handle("clear", j, {"done"}, <<Update(j, "stopped", Keep), Beat(j, "stopped")>>)
      BY <1>2 DEF ClearDone
    <2>2. "stopped" # "done" /\ "stopped" \in {"stopped", Keep}
      OBVIOUS
    <2> QED  BY <2>1, <2>2, DoneHandle
  <1>3. ASSUME MarkBlocked(j) PROVE DoneInv' /\ DoneStep
    <2>1. /\ "done" \in Active => "blocked" \in {"stopped", Keep}
          /\ "blocked" = "done" => Active = {"needs_review"}
      BY DEF Active
    <2>2. Handle("block", j, Active, <<Update(j, "blocked", Keep), Beat(j, "blocked")>>)
      BY <1>3 DEF MarkBlocked
    <2> QED  BY <2>1, <2>2, DoneHandle
  <1>4. ASSUME StopJob(j) PROVE DoneInv' /\ DoneStep
    <2>1. Handle("stop", j, {"queued", "running"},
                 <<Update(j, "stopped", Keep), Beat(j, "stopped")>>)
      BY <1>4 DEF StopJob
    <2>2. "stopped" # "done" /\ "stopped" \in {"stopped", Keep}
      OBVIOUS
    <2> QED  BY <2>1, <2>2, DoneHandle
  <1>5. ASSUME ToolStop(j) PROVE DoneInv' /\ DoneStep
    <2>1. Handle("tool_stop", j, Statuses, <<Update(j, "stopped", Keep)>>)
      BY <1>5 DEF ToolStop
    <2>2. "stopped" # "done" /\ "stopped" \in {"stopped", Keep}
      OBVIOUS
    <2> QED  BY <2>1, <2>2, DoneHandle
  <1>6. ASSUME Record(j) PROVE DoneInv' /\ DoneStep
    <2>1. PICK s \in RecordStatuses :
             Handle("record", j, Statuses, <<Update(j, s, Keep)>>)
      BY <1>6 DEF Record
    <2>2. s # "done" /\ s \in {"stopped", Keep}
      BY <2>1 DEF ConstantsOK, Statuses
    <2> QED  BY <2>1, <2>2, DoneHandle
  <1>7. ASSUME FollowUp(j) PROVE DoneInv' /\ DoneStep
    <2>1. PICK m : Handle("follow_up", j, {"needs_review", "blocked", "stale"},
                          <<Update(j, "queued", m), FreshBeat(j, "queued")>>)
      BY <1>7 DEF FollowUp
    <2>2. "queued" # "done" /\ "done" \notin {"needs_review", "blocked", "stale"}
      OBVIOUS
    <2> QED  BY <2>1, <2>2, DoneHandle
  <1>8. ASSUME Submit(j) PROVE DoneInv' /\ DoneStep
    <2>1. /\ UNCHANGED <<todo, ctl>> /\ todo[Dir] = <<>> /\ ctl[Dir].at = "idle"
          /\ row[j].status = "absent" /\ row'[j].status = "queued"
          /\ \A k \in Jobs \ {j} : row'[k] = row[k]
      BY <1>8 DEF Submit, Ready, NextJob, Insert, TypeOK, Row
    <2>2. Ops(Dir)' = {}
      BY <2>1 DEF Ops
    <2>3. DirFree' /\ ctl'[Dir].list = {}
      BY <2>1 DEF DoneInv, DirFree
    <2>4. DoneInv'
      BY <2>1, <2>2, <2>3, DoneDir DEF DoneInv
    <2> QED  BY <2>1, <2>4 DEF DoneStep
  <1>9. ASSUME Retry(j) PROVE DoneInv' /\ DoneStep
    <2>1. /\ UNCHANGED <<row, todo>> /\ todo[Dir] = <<>> /\ row[j].status # "done"
          /\ Goto(Dir, "retry", 0, Rows({j}))
      BY <1>9 DEF Retry, Request, Ready, ledger
    <2>2. ctl'[Dir] = [at |-> "retry", job |-> 0, list |-> Rows({j})]
      BY <1>0, <2>1, OwnSteps
    <2>3. Ops(Dir)' = {}
      BY <2>1 DEF Ops
    <2>4. DirFree' /\ \A s \in ctl'[Dir].list : s.job = j
      BY <2>2 DEF DirFree, Rows
    <2>5. DoneInv'
      BY <2>1, <2>3, <2>4, DoneDir DEF DoneInv
    <2> QED  BY <2>1, <2>5 DEF DoneStep
  <1>10. ASSUME NEW r \in Jobs, Replace(j, r) PROVE DoneInv' /\ DoneStep
    <2> DEFINE u == Update(j, "stopped", row[j].meta)
               x == Beat(j, "stopped")
               y == Beat(r, "queued")
    <2>1. /\ ctl' = ctl /\ Then(Dir, <<u, x, y>>) /\ ctl[Dir].at = "idle"
          /\ row[r].status = "absent" /\ row'[r].status = "queued"
          /\ \A k \in Jobs \ {r} : row'[k] = row[k]
      BY <1>10 DEF Replace, Request, Ready, NextJob, Insert, TypeOK, Row
    <2>2. todo'["cli"] = <<>>
      BY <1>0, <2>1, OtherSteps DEF DoneInv
    <2>3. ~OnRow(x) /\ ~OnRow(y) /\ u.kind = "update" /\ u.to = "stopped"
      BY UpdateParts DEF OnRow
    <2> HIDE DEF u, x, y
    <2>4. Ops(Dir)' = {u, x, y}
      BY <1>0, <2>1, <2>3, ThenThree
    <2>5. DirFree' /\ ctl'[Dir].list = {}
      BY <2>1 DEF DoneInv, DirFree
    <2>6. DoneInv'
      BY <2>1, <2>2, <2>3, <2>4, <2>5, DoneDir
    <2> QED  BY <2>1, <2>6 DEF DoneStep
  <1> QED  BY <1>1, <1>2, <1>3, <1>4, <1>5, <1>6, <1>7, <1>8, <1>9, <1>10

LEMMA DoneDirector ==
  ASSUME ConstantsOK, TypeOK, DoneInv,
         \/ RequeueIncomplete \/ StopAll \/ RuntimeStop \/ RuntimeReset
         \/ StatusPoll \/ DirectorStep
  PROVE  DoneInv' /\ DoneStep
  <1>0. Dir \in Actors /\ "cli" \in Actors \ {Dir}
    BY DEF Dir, Actors
  <1>1. row' = row
    BY DEF RequeueIncomplete, StopAll, RuntimeStop, RuntimeReset, StatusPoll,
           DirectorStep, MarkNextStale, EndPoll, PreflightRetry, BulkNext,
           EndBulk, RestartSession, ledger, history
  <1>2. todo' = todo \/ \E s : Then(Dir, s)
    BY DEF RequeueIncomplete, StopAll, RuntimeStop, RuntimeReset, StatusPoll,
           DirectorStep, MarkNextStale, EndPoll, PreflightRetry, BulkNext,
           EndBulk, RestartSession
  <1>3. todo'["cli"] = <<>>
    BY <1>0, <1>2, OtherSteps DEF DoneInv
  <1>4. DoneStep
    BY <1>1 DEF DoneStep
  <1>5. ASSUME NEW p, NEW k, NEW L, Goto(Dir, p, k, L), p = "idle" => L = {},
               \A s \in L : row[s.job].status # "done",
               \A o \in Ops(Dir)' : OnRow(o) =>
                  /\ o.kind = "update" /\ o.to # "done"
                  /\ row[o.job].status = "done" => o.to \in {"stopped", Keep}
        PROVE  DoneInv'
    <2>1. ctl'[Dir] = [at |-> p, job |-> k, list |-> L]
      BY <1>0, <1>5, OwnSteps
    <2>2. DirFree'
      BY <1>5, <2>1 DEF DirFree
    <2> QED  BY <1>1, <1>3, <1>5, <2>1, <2>2, DoneDir
  <1>6. ASSUME NEW S \in SUBSET Statuses, "done" \notin S, NEW T \in SUBSET InState(S)
        PROVE  \A s \in Rows(T) : row[s.job].status # "done"
    BY <1>6 DEF Rows, InState
  <1>7. \A T \in SUBSET Jobs : \A s \in ctl[Dir].list :
           s.job \in Jobs /\ row[s.job].status # "done"
    BY <1>0 DEF DoneInv, DoneApart, TypeOK, Control, Snapshot
  <1>8. ~OnRow(Abort(MainAlias)) /\ Keep # "done"
    BY DEF OnRow, Abort, ConstantsOK, Statuses
  <1>9. todo[Dir] = <<>> => Ops(Dir) = {}
    BY DEF Ops
  <1>10. CASE StatusPoll
    <2>1. Goto(Dir, "marks", 0, RunningRows) /\ todo' = todo /\ todo[Dir] = <<>>
      BY <1>10 DEF StatusPoll, Ready
    <2>2. Ops(Dir)' = {}
      BY <2>1 DEF Ops
    <2>3. \A s \in RunningRows : row[s.job].status # "done"
      <3>1. \A S : \A s \in Rows(S) : s.job \in S
        BY DEF Rows
      <3>2. \A k \in InState({"running"}) : row[k].status = "running"
        BY DEF InState
      <3> QED  BY <3>1, <3>2 DEF RunningRows
    <2> QED  BY <1>4, <1>5, <2>1, <2>2, <2>3
  <1>11. CASE RequeueIncomplete \/ StopAll
    <2>1. PICK p \in {"requeue", "stop_all"} : Goto(Dir, p, 0, Rows(InState(Incomplete)))
      BY <1>11 DEF RequeueIncomplete, StopAll
    <2>2. Then(Dir, <<>>) \/ Then(Dir, <<Abort(MainAlias)>>)
      BY <1>11 DEF RequeueIncomplete, StopAll
    <2>3. \A o \in Ops(Dir)' : ~OnRow(o)
      BY <1>0, <1>8, <2>2, ThenNone, ThenOne
    <2>4. \A s \in Rows(InState(Incomplete)) : row[s.job].status # "done"
      BY DEF Rows, InState, Incomplete, Active
    <2> QED  BY <1>4, <1>5, <2>1, <2>3, <2>4
  <1>12. CASE RuntimeStop
    <2>1. ctl' = ctl /\ Then(Dir, <<Abort(MainAlias)>>) /\ ctl[Dir].at = "idle"
      BY <1>12 DEF RuntimeStop, Request, Ready
    <2>2. \A o \in Ops(Dir)' : ~OnRow(o)
      BY <1>0, <1>8, <2>1, ThenOne
    <2>3. DirFree' /\ ctl'[Dir].list = {}
      BY <2>1 DEF DoneInv, DirFree
    <2> QED  BY <1>1, <1>3, <1>4, <2>2, <2>3, DoneDir
  <1>13. CASE RuntimeReset
    <2>1. Goto(Dir, "restart", 0, {}) /\ Then(Dir, <<Abort(MainAlias)>>)
      BY <1>13 DEF RuntimeReset
    <2>2. \A o \in Ops(Dir)' : ~OnRow(o)
      BY <1>0, <1>8, <2>1, ThenOne
    <2> QED  BY <1>4, <1>5, <2>1, <2>2
  <1>14. CASE EndPoll \/ EndBulk
    <2>1. Goto(Dir, "idle", 0, {}) /\ todo' = todo /\ todo[Dir] = <<>>
      BY <1>14 DEF EndPoll, EndBulk, Ready
    <2>2. Ops(Dir)' = {}
      BY <2>1 DEF Ops
    <2> QED  BY <1>4, <1>5, <2>1, <2>2
  <1>15. CASE RestartSession
    <2>1. todo' = todo /\ todo[Dir] = <<>>
      BY <1>15 DEF RestartSession, Ready
    <2>2. Ops(Dir)' = {}
      BY <2>1 DEF Ops
    <2>3. \/ Goto(Dir, "idle", 0, {})
          \/ Goto(Dir, "reset", 0,
                  Rows({j \in InState({"blocked"}) : hb[j].state = "busy_timeout"}))
      BY <1>15 DEF RestartSession
    <2>4. \A s \in Rows({j \in InState({"blocked"}) : hb[j].state = "busy_timeout"}) :
             row[s.job].status # "done"
      BY DEF Rows, InState
    <2> QED  BY <1>4, <1>5, <2>2, <2>3, <2>4
  <1>16. CASE MarkNextStale(Dir)
    <2>1. PICK s \in First(ctl[Dir].list) :
             /\ Goto(Dir, "marks", 0, ctl[Dir].list \ {s})
             /\ Then(Dir, IF hb[s.job].old
                          THEN <<Upsert(s.job, "stale", StartOf(s.job)), Update(s.job, "stale", Keep)>>
                          ELSE <<>>)
      BY <1>16 DEF MarkNextStale
    <2>2. row[s.job].status # "done" /\ \A t \in ctl[Dir].list \ {s} : row[t.job].status # "done"
      BY <1>7, <2>1 DEF First
    <2>3. \A o \in Ops(Dir)' : OnRow(o) => o.kind = "update" /\ o.job = s.job /\ o.to = "stale"
      BY <1>0, <2>1, StaleOps
    <2> QED  BY <1>4, <1>5, <2>1, <2>2, <2>3
  <1>17. CASE PreflightRetry
    <2>1. Goto(Dir, "idle", 0, {}) /\ todo[Dir] = <<>>
      BY <1>17 DEF PreflightRetry, Ready
    <2>2. PICK s \in ctl[Dir].list :
             \/ todo' = todo
             \/ \E to, m : /\ \/ Then(Dir, <<Update(s.job, to, m), FreshBeat(s.job, "queued")>>)
                              \/ Then(Dir, <<Update(s.job, to, m)>>)
                           /\ to # "done"
      <3>1. PICK s \in ctl[Dir].list :
               \/ todo' = todo
               \/ Then(Dir, <<Update(s.job, Keep, Keep)>>)
               \/ Then(Dir, <<Update(s.job, "queued", [s.row.meta EXCEPT !.retries = @ + 1]),
                              FreshBeat(s.job, "queued")>>)
        BY <1>17 DEF PreflightRetry
      <3>2. "queued" # "done"
        OBVIOUS
      <3> QED  BY <1>8, <3>1, <3>2
    <2>3. row[s.job].status # "done"
      BY <1>7
    <2>4. CASE todo' = todo
      <3>1. Ops(Dir)' = {}
        BY <2>1, <2>4 DEF Ops
      <3> QED  BY <1>4, <1>5, <2>1, <3>1
    <2>5. ASSUME NEW to, NEW m, to # "done",
                 \/ Then(Dir, <<Update(s.job, to, m), FreshBeat(s.job, "queued")>>)
                 \/ Then(Dir, <<Update(s.job, to, m)>>)
          PROVE  DoneInv'
      <3>1. \A o \in Ops(Dir)' : OnRow(o) => o = Update(s.job, to, m)
        BY <1>0, <2>5, PairOps, UpdateParts
      <3>2. \A o \in Ops(Dir)' : OnRow(o) => o.kind = "update" /\ o.to # "done" /\ o.job = s.job
        BY <2>5, <3>1, UpdateParts
      <3> QED  BY <1>5, <2>1, <2>3, <3>2
    <2> QED  BY <1>4, <2>2, <2>4, <2>5
  <1>18. CASE BulkNext
    <2>1. PICK s \in ctl[Dir].list :
             /\ Goto(Dir, ctl[Dir].at, 0, ctl[Dir].list \ {s})
             /\ Then(Dir, BulkOps(ctl[Dir].at, s))
      BY <1>18 DEF BulkNext
    <2>2. ctl[Dir].at \in {"requeue", "stop_all", "reset"}
      BY <1>18 DEF BulkNext, Ready
    <2>3. row[s.job].status # "done" /\ \A t \in ctl[Dir].list \ {s} : row[t.job].status # "done"
      BY <1>7, <2>1
    <2>4. \/ Then(Dir, <<Update(s.job, "queued", s.row.meta), FreshBeat(s.job, "queued")>>)
          \/ Then(Dir, <<Update(s.job, "stopped", Keep), Beat(s.job, "stopped")>>)
          \/ Then(Dir, <<Update(s.job, Keep, s.row.meta)>>)
      BY <2>1, <2>2 DEF BulkOps
    <2>5. \A o \in Ops(Dir)' : OnRow(o) => o.kind = "update" /\ o.job = s.job /\ o.to # "done"
      <3>1. ASSUME NEW to, NEW m, NEW b, to # "done", ~OnRow(b),
                   \/ Then(Dir, <<Update(s.job, to, m), b>>)
                   \/ Then(Dir, <<Update(s.job, to, m)>>)
            PROVE  \A o \in Ops(Dir)' : OnRow(o) =>
                      o.kind = "update" /\ o.job = s.job /\ o.to # "done"
        <4>1. \A o \in Ops(Dir)' : OnRow(o) => o = Update(s.job, to, m)
          BY <1>0, <3>1, PairOps, UpdateParts
        <4> QED  BY <3>1, <4>1, UpdateParts
      <3>2. \A t : ~OnRow(FreshBeat(s.job, t)) /\ ~OnRow(Beat(s.job, t))
        BY UpdateParts
      <3>3. CASE Then(Dir, <<Update(s.job, "queued", s.row.meta),
                             FreshBeat(s.job, "queued")>>)
        BY <3>1, <3>2, <3>3
      <3>4. CASE Then(Dir, <<Update(s.job, "stopped", Keep), Beat(s.job, "stopped")>>)
        BY <3>1, <3>2, <3>4
      <3>5. CASE Then(Dir, <<Update(s.job, Keep, s.row.meta)>>)
        BY <1>8, <3>1, <3>2, <3>5
      <3> QED  BY <2>4, <3>3, <3>4, <3>5
    <2> QED  BY <1>4, <1>5, <2>1, <2>2, <2>3, <2>5
  <1> QED
    BY <1>10, <1>11, <1>12, <1>13, <1>14, <1>15, <1>16, <1>17, <1>18 DEF DirectorStep

LEMMA DoneNext ==
  ASSUME ConstantsOK, "cli_stop" \notin Operations, RecordStatuses \subseteq {Keep, "stopped"},
         TypeOK, RestInv, DoneInv, [Next]_vars
  PROVE  DoneInv' /\ DoneStep
  <1>1. CASE UNCHANGED vars
    BY <1>1, DoneElsewhere DEF vars, DoneInv
  <1>2. ASSUME NEW a \in Actors, LedgerStep(a) PROVE DoneInv' /\ DoneStep
    <2>1. CASE ReadRow(a)
      <3>1. row' = row
        BY <2>1 DEF ReadRow, ledger
      <3> QED  BY <2>1, <3>1, DoneRead DEF DoneStep
    <2>2. CASE WriteRow(a)
      BY <2>2, DoneWrite
    <2>a. CASE ReadHeartbeat(a)
      <3>1. row' = row /\ ctl' = ctl /\ todo[a] # <<>>
            /\ \A b \in Actors \ {a} : todo'[b] = todo[b]
        BY <2>a DEF ReadHeartbeat, Doing, TypeOK, ledger
      <3>2. a # "cli" /\ todo'["cli"] = <<>>
        BY <3>1, SupActors DEF DoneInv
      <3>3. \A o \in Ops(Dir)' : OnRow(o) => o \in Ops(Dir)
        BY <2>a, <3>1, SupActors, LookOps, SameOps DEF RestInv
      <3>4. DirFree' /\ ctl'[Dir].list \subseteq ctl[Dir].list
        BY <3>1 DEF DoneInv, DirFree
      <3>5. DoneInv'
        BY <3>1, <3>2, <3>3, <3>4, DoneFewer
      <3> QED  BY <3>1, <3>5 DEF DoneStep
    <2>3. CASE RecordHeartbeat(a) \/ AbortSession(a)
      <3>1. row' = row /\ ctl' = ctl /\ Done(a) /\ todo[a] # <<>>
        <4>1. CASE RecordHeartbeat(a)
          BY <4>1 DEF RecordHeartbeat, Doing
        <4>2. CASE AbortSession(a)
          BY <4>2 DEF AbortSession, Doing, ledger
        <4> QED  BY <2>3, <4>1, <4>2
      <3>2. a # "cli" /\ todo'["cli"] = <<>>
        BY <3>1, SupActors, OtherSteps DEF DoneInv
      <3>3. Ops(Dir)' \subseteq Ops(Dir)
        <4>1. CASE a = Dir
          BY <3>1, <4>1, DoneOps DEF RestInv
        <4>2. CASE a # Dir
          BY <3>1, <4>2, SupActors, OtherSteps, SameOps
        <4> QED  BY <4>1, <4>2
      <3>4. DirFree' /\ ctl'[Dir].list \subseteq ctl[Dir].list
        BY <3>1 DEF DoneInv, DirFree
      <3>5. DoneInv'
        BY <3>1, <3>2, <3>3, <3>4, DoneFewer
      <3> QED  BY <3>1, <3>5 DEF DoneStep
    <2> QED  BY <1>2, <2>1, <2>2, <2>a, <2>3 DEF LedgerStep
  <1>3. CASE SupervisorStep
    BY <1>3, DoneSupervisor
  <1>4. CASE DirectorRequest
    BY <1>4, DoneJobRequest, DoneDirector DEF DirectorRequest
  <1>5. CASE DirectorStep
    BY <1>5, DoneDirector
  <1>6. \A j \in Jobs : ~CliStop(j)
    BY DEF CliStop, Request
  <1>7. CASE Environment
    BY <1>7, DoneEnvironment
  <1> QED  BY <1>1, <1>2, <1>3, <1>4, <1>5, <1>6, <1>7 DEF Next

LEMMA InitDone ==
  ASSUME Init
  PROVE  DoneInv
  <1>1. /\ \A a \in Actors : ctl[a] = [at |-> "idle", job |-> 0, list |-> {}]
        /\ \A a \in Actors : todo[a] = <<>>
        /\ \A j \in Jobs : row[j].status = "absent"
    BY DEF Init
  <1>2. Len(todo[Dir]) = 0
    BY <1>1, SupActors
  <1>3. \A j \in Jobs : RowOps(Dir, j) = {}
    BY <1>2 DEF RowOps, Ops
  <1>4. \A j \in Jobs : ~DirHolds(j) /\ ~DirDoes(j)
    BY <1>3 DEF DirHolds, DirDoes
  <1> QED  BY <1>1, <1>4, SupActors DEF DoneInv, DirFree, DoneApart

(* Without --stop-job, and with cloyd_smith.record used for nothing but a     *)
(* stop or a note, done is given to jobs under review only and no process    *)
(* overwrites it: not the tick, not a status poll marking stale runs, not a  *)
(* bulk button or a retry that read the row earlier.                          *)
THEOREM DoneAreReviewed ==
  ASSUME "cli_stop" \notin Operations, RecordStatuses \subseteq {Keep, "stopped"}
  PROVE  Spec => DoneIsReviewed
  <1> USE ConstantsOK
  <1>0. RecordStatuses \cap Verdicts = {}
    BY DEF ConstantsOK, Statuses, Verdicts
  <1>1. Init => TypeOK /\ DispatchInv /\ RestInv /\ DoneInv
    BY InitTyped, InitDispatch, InitRest, InitDone
  <1>2. TypeOK /\ DispatchInv /\ RestInv /\ DoneInv /\ [Next]_vars
          => /\ (TypeOK /\ DispatchInv /\ RestInv /\ DoneInv)'
             /\ [DoneStep]_vars
    BY <1>0, NextTyped, DispatchNext, RestNext, DoneNext
  <1>3. Spec => [][DoneStep]_vars
    BY <1>1, <1>2, PTL DEF Spec
  <1> QED  BY <1>3 DEF DoneIsReviewed, DoneStep

=============================================================================
