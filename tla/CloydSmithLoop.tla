--------------------------- MODULE CloydSmithLoop ---------------------------
(***************************************************************************)
(* The durable Cloyd-Smith loop: a SQLite ledger of jobs, the supervisor   *)
(* daemon that hands each queued job to an OpenCode ("Smith") session and  *)
(* harvests its output, the Director's operator endpoints and tools that   *)
(* edit the same ledger, and the daemon's --stop-job command line.         *)
(*                                                                         *)
(* The ledger is shared by three processes.  store.update is a SELECT      *)
(* followed by an UPDATE of the whole row in another connection, so the    *)
(* two are separate steps here ("update" and "save"), and so are the read  *)
(* of a heartbeat and its upsert ("look" and "beat").  Each process runs a *)
(* short list of such ledger operations in program order, todo[a], and     *)
(* between them is at a control point, ctl[a].  The Director's handlers never suspend between two statements   *)
(* (the calls they await are synchronous underneath), so it serves one     *)
(* request at a time; flock makes the supervisor unique.                   *)
(***************************************************************************)
EXTENDS Naturals, Sequences, FiniteSets

CONSTANTS
    NumJobs,         \* jobs the ledger can hold, numbered in creation order
    Aliases,         \* OpenCode session aliases
    AliasOf,         \* job |-> the smith_alias stored in its row
    MainAlias,       \* "freyja-code", the alias of the bulk and runtime buttons
    StartedAliases,  \* aliases that already name a session
    Misrouted,       \* jobs whose expected_smith_alias differs from AliasOf
    RetryLimit,      \* retries a job may be granted (the code: 3)
    FollowUpLimit,   \* follow-ups a job may be granted (the code: 1)
    ListLimit,       \* rows one tick looks at (the code: 20)
    StaleListLimit,  \* rows mark_stale_runs looks at (the code: 50)
    Operations,      \* what the operators do in this instance
    RecordStatuses,  \* the statuses cloyd_smith.record is given (Keep: none)
    MaxOps,          \* bound: operator requests
    MaxCrashes,      \* bound: process crashes and abandoned ticks
    Lapses,          \* bound: whether heartbeats are left to age past 300 s
    MaxOutages,      \* bound: times the OpenCode server becomes unreachable
    Keep             \* the None of CloydSmithJobUpdate: leave the column alone

Jobs     == 1..NumJobs
Actors   == {"supervisor", "director", "cli"}
Statuses == {"queued", "running", "needs_review", "blocked", "done",
             "stopped", "stale"}
Active   == {"queued", "running", "needs_review", "stale"}
Incomplete == Active \cup {"blocked"}

ASSUME ConstantsOK ==
    /\ NumJobs \in Nat
    /\ MainAlias \in Aliases
    /\ AliasOf \in [Jobs -> Aliases]
    /\ StartedAliases \subseteq Aliases
    /\ RecordStatuses \subseteq Statuses \cup {Keep}
    /\ Lapses \in BOOLEAN
    /\ Keep \notin Statuses

(* metadata_json: the counters the handlers read back. *)
Meta == [retries : Nat, followUps : Nat]
(* A row; "absent" stands for no row. *)
Row  == [status : Statuses \cup {"absent"}, meta : Meta]

(* The heartbeat row: old = updated more than stale_after_seconds (300 s)   *)
(* ago, long = started more than the 180 s busy window ago.  The state      *)
(* "busy_timeout" is blocked with phase smith_busy_timeout, "none" no row.  *)
Beats     == Statuses \cup {"busy_timeout", "none"}
Heartbeat == [state : Beats, old : BOOLEAN, long : BOOLEAN]

(* One OpenCode session: the prompts it accepted and has not answered yet. *)
Session == [started : BOOLEAN, queue : Seq(Jobs)]

(* What list_active and its kin return: the rows as they were at the query. *)
Snapshot == [job : Jobs, row : Row]

(* Ledger and session operations an actor still has to perform, in order. *)
(* A heartbeat to upsert starts now, or when the row read said: less than   *)
(* the busy window ago ("recent") or longer ago ("past").                   *)
LookOp   == [kind : {"look"}, job : Jobs, state : Beats]
BeatOp   == [kind : {"beat"}, job : Jobs, state : Beats,
             start : {"now", "recent", "past"}]
UpdateOp == [kind : {"update"}, job : Jobs, to : Statuses \cup {Keep},
             meta : Meta \cup {Keep}]
SaveOp   == [kind : {"save"}, job : Jobs, row : Row]
AbortOp  == [kind : {"abort"}, alias : Aliases]
Op       == LookOp \cup BeatOp \cup UpdateOp \cup SaveOp \cup AbortOp

(* Where an actor is when it has no such operation left. *)
Points  == {"idle", "marks", "runs", "send", "reply", "recheck",
            "retry", "requeue", "stop_all", "restart", "reset"}
Sending == {"send", "reply", "recheck"}
Control == {c \in [at : Points, job : Jobs \cup {0}, list : SUBSET Snapshot] :
               c.at \in Sending => c.job \in Jobs}

VARIABLES
    row,      \* job |-> its row in cloyd_smith_jobs
    hb,       \* job |-> its row in cloyd_smith_run_heartbeats
    session,  \* alias |-> its OpenCode session
    up,       \* the OpenCode server answers
    todo,     \* actor |-> operations it is in the middle of
    ctl,      \* actor |-> its control point
    entered,  \* history: times the ledger turned the job to queued
    sent,     \* history: prompts of the job that OpenCode accepted
    granted,  \* history: retries and follow-ups the operators were granted
    spent     \* what has been used of the bounds

vars == <<row, hb, session, up, todo, ctl, entered, sent, granted, spent>>
ledger  == <<row, hb>>
history == <<entered, sent, granted>>

NoMeta == [retries |-> 0, followUps |-> 0]

Init ==
    /\ row = [j \in Jobs |-> [status |-> "absent", meta |-> NoMeta]]
    /\ hb = [j \in Jobs |-> [state |-> "none", old |-> FALSE, long |-> FALSE]]
    /\ session = [a \in Aliases |->
                     [started |-> a \in StartedAliases, queue |-> <<>>]]
    /\ up = TRUE
    /\ todo = [a \in Actors |-> <<>>]
    /\ ctl = [a \in Actors |-> [at |-> "idle", job |-> 0, list |-> {}]]
    /\ entered = [j \in Jobs |-> 0]
    /\ sent = [j \in Jobs |-> 0]
    /\ granted = [j \in Jobs |-> NoMeta]
    /\ spent = [ops |-> 0, crashes |-> 0, outages |-> 0]

-----------------------------------------------------------------------------
(* The ledger operations, run by whichever actor holds them. *)

Beat(j, s)      == [kind |-> "look", job |-> j, state |-> s]
Upsert(j, s, t) == [kind |-> "beat", job |-> j, state |-> s, start |-> t]
FreshBeat(j, s) == Upsert(j, s, "now")
Update(j, s, m) == [kind |-> "update", job |-> j, to |-> s, meta |-> m]
Abort(a)        == [kind |-> "abort", alias |-> a]

Doing(a, kind) == todo[a] # <<>> /\ Head(todo[a]).kind = kind
Done(a)        == todo' = [todo EXCEPT ![a] = Tail(@)]

(* update: current = self.get(job_id), then every column from it or from    *)
(* the CloydSmithJobUpdate.                                                 *)
ReadRow(a) ==
    /\ Doing(a, "update")
    /\ LET u == Head(todo[a])
           r == row[u.job]
           new == [status |-> IF u.to = Keep THEN r.status ELSE u.to,
                   meta |-> IF u.meta = Keep THEN r.meta ELSE u.meta]
       IN todo' = [todo EXCEPT ![a][1] =
             [kind |-> "save", job |-> u.job, row |-> new]]
    /\ UNCHANGED <<ledger, session, up, ctl, history, spent>>

(* update: the UPDATE of every column, whatever the row holds by now. *)
WriteRow(a) ==
    /\ Doing(a, "save")
    /\ LET s == Head(todo[a])
       IN /\ row' = [row EXCEPT ![s.job] = s.row]
          /\ entered' = [entered EXCEPT ![s.job] =
                IF s.row.status = "queued" /\ row[s.job].status # "queued"
                THEN @ + 1 ELSE @]
    /\ Done(a)
    /\ UNCHANGED <<hb, session, up, ctl, sent, granted, spent>>

(* record_heartbeat: one that is given no started_at takes the one of the   *)
(* existing heartbeat, if there is any ...                                  *)
StartOf(j) == IF hb[j].state = "none" THEN "now"
              ELSE IF hb[j].long THEN "past" ELSE "recent"

ReadHeartbeat(a) ==
    /\ Doing(a, "look")
    /\ LET b == Head(todo[a])
       IN todo' = [todo EXCEPT ![a][1] = Upsert(b.job, b.state, StartOf(b.job))]
    /\ UNCHANGED <<ledger, session, up, ctl, history, spent>>

(* ... and upserts it in another connection, over a later start too.  (A    *)
(* start that was recent may be past by now: it is if the row's is.)        *)
RecordHeartbeat(a) ==
    /\ Doing(a, "beat")
    /\ LET b == Head(todo[a])
       IN hb' = [hb EXCEPT ![b.job] =
             [state |-> b.state, old |-> FALSE,
              long |-> b.start = "past" \/ (b.start = "recent" /\ @.long)]]
    /\ Done(a)
    /\ UNCHANGED <<row, session, up, ctl, history, spent>>

(* _opencode_stop: the session drops what it was working on; the caller is  *)
(* told ok whether or not the server could be reached.                      *)
AbortSession(a) ==
    /\ Doing(a, "abort")
    /\ session' = [session EXCEPT ![Head(todo[a]).alias].queue =
                      IF up THEN <<>> ELSE @]
    /\ Done(a)
    /\ UNCHANGED <<ledger, up, ctl, history, spent>>

LedgerStep(a) ==
    \/ ReadRow(a) \/ WriteRow(a)
    \/ ReadHeartbeat(a) \/ RecordHeartbeat(a) \/ AbortSession(a)

-----------------------------------------------------------------------------
(* Control steps: taken when no ledger operation is left. *)

Ready(a, p) == todo[a] = <<>> /\ ctl[a].at = p

Goto(a, p, j, L) ==
    ctl' = [ctl EXCEPT ![a] = [at |-> p, job |-> j, list |-> L]]
Then(a, ops) == todo' = [todo EXCEPT ![a] = ops]

InState(S)       == {j \in Jobs : row[j].status \in S}
Listed(S, limit) == {j \in S : Cardinality({k \in S : k < j}) < limit}
Rows(S)          == {[job |-> j, row |-> row[j]] : j \in S}
First(L)         == {s \in L : \A t \in L : s.job <= t.job}

(* mark_stale_runs: list_active; jobs it did not see running are skipped,   *)
(* and a stale heartbeat keeps the started_at it was read with.             *)
RunningRows ==
    Rows(Listed(InState(Active), StaleListLimit) \cap InState({"running"}))

MarkNextStale(a) ==
    /\ Ready(a, "marks")
    /\ \E s \in First(ctl[a].list) :
          /\ Goto(a, "marks", 0, ctl[a].list \ {s})
          /\ Then(a, IF hb[s.job].old
                     THEN <<Upsert(s.job, "stale", StartOf(s.job)),
                           Update(s.job, "stale", Keep)>>
                     ELSE <<>>)
    /\ UNCHANGED <<ledger, session, up, history, spent>>

(* --------------------------- the supervisor --------------------------- *)

Sup == "supervisor"

(* _run_once begins with mark_stale_runs ... *)
TickStarts ==
    /\ Ready(Sup, "idle")
    /\ Goto(Sup, "marks", 0, RunningRows)
    /\ UNCHANGED <<ledger, session, up, todo, history, spent>>

(* Mutant: the tick's query leaves queued jobs out. *)
ListWithoutQueued ==
    /\ Ready(Sup, "marks")
    /\ ctl[Sup].list = {}
    /\ Goto(Sup, "runs", 0, Rows(Listed(InState({"running", "stale"}), ListLimit)))
    /\ UNCHANGED <<ledger, session, up, todo, history, spent>>

(* ... then takes one list_active(limit=20); needs_review rows count for    *)
(* the limit and are skipped.                                               *)
ListActive ==
    /\ Ready(Sup, "marks")
    /\ ctl[Sup].list = {}
    /\ Goto(Sup, "runs", 0, Rows(Listed(InState(Active), ListLimit)
                                   \ InState({"needs_review"})))
    /\ UNCHANGED <<ledger, session, up, todo, history, spent>>

EndTick ==
    /\ Ready(Sup, "runs")
    /\ ctl[Sup].list = {}
    /\ Goto(Sup, "idle", 0, {})
    /\ UNCHANGED <<ledger, session, up, todo, history, spent>>

(* _opencode_status: an unreachable server reads as an idle session. *)
StatusOf(a) ==
    IF ~session[a].started THEN "unknown"
    ELSE IF up /\ session[a].queue # <<>> THEN "busy" ELSE "idle"

Report(j, s) == <<Beat(j, s), Update(j, s, Keep)>>

(* Mutants: the session's state is stored as the job's; a slow send is      *)
(* harvested without regard to the session; a session is left busy for ever. *)
StatusStored(j, seen) ==
    IF StatusOf(AliasOf[j]) = "busy" THEN Report(j, "running")
    ELSE Report(j, StatusOf(AliasOf[j]))
HarvestBusy(j, seen) ==
    IF StatusOf(AliasOf[j]) = "unknown" THEN Report(j, "blocked")
    ELSE Report(j, IF seen = "running" THEN "running" ELSE "needs_review")
NeverTimedOut(j, seen) ==
    CASE StatusOf(AliasOf[j]) = "unknown" -> Report(j, "blocked")
      [] StatusOf(AliasOf[j]) = "idle"    -> Report(j, "needs_review")
      [] OTHER -> Report(j, "running")

(* What the supervisor makes of a status: for a job it saw running, for a   *)
(* stale one and for a send that timed out.                                 *)
AfterStatus(j, seen) ==
    CASE StatusOf(AliasOf[j]) = "unknown" -> Report(j, "blocked")
      [] StatusOf(AliasOf[j]) = "idle"    -> Report(j, "needs_review")
      [] OTHER ->
            IF seen # "running" THEN Report(j, "running")
            ELSE IF hb[j].state = "running" /\ hb[j].long
            THEN <<Abort(AliasOf[j]), Beat(j, "busy_timeout"),
                   Update(j, "blocked", Keep)>>
            ELSE <<Beat(j, "running"), Update(j, Keep, Keep)>>

(* A job the tick listed as running or stale: poll its session. *)
CheckJob ==
    /\ Ready(Sup, "runs")
    /\ \E s \in First(ctl[Sup].list) :
          /\ s.row.status \in {"running", "stale"}
          /\ Goto(Sup, "runs", 0, ctl[Sup].list \ {s})
          /\ Then(Sup, AfterStatus(s.job, s.row.status))
    /\ UNCHANGED <<ledger, session, up, history, spent>>

(* Mutant: the row is marked running only when the send has returned. *)
SendUnmarked ==
    /\ Ready(Sup, "runs")
    /\ \E s \in First(ctl[Sup].list) :
          /\ s.row.status = "queued"
          /\ Goto(Sup, "send", s.job, ctl[Sup].list \ {s})
          /\ Then(Sup, <<FreshBeat(s.job, "running")>>)
    /\ UNCHANGED <<ledger, session, up, history, spent>>

(* A job the tick listed as queued: mark it running before it is sent. *)
BeginSend ==
    /\ Ready(Sup, "runs")
    /\ \E s \in First(ctl[Sup].list) :
          /\ s.row.status = "queued"
          /\ Goto(Sup, "send", s.job, ctl[Sup].list \ {s})
          /\ Then(Sup, <<Update(s.job, "running", Keep),
                         FreshBeat(s.job, "running")>>)
    /\ UNCHANGED <<ledger, session, up, history, spent>>

(* _opencode_send: the session (started on demand) takes the prompt ...     *)
SendPrompt ==
    /\ Ready(Sup, "send")
    /\ up
    /\ LET j == ctl[Sup].job
       IN /\ session' = [session EXCEPT ![AliasOf[j]] =
                [started |-> TRUE, queue |-> Append(@.queue, j)]]
          /\ sent' = [sent EXCEPT ![j] = @ + 1]
          /\ Goto(Sup, "reply", j, ctl[Sup].list)
    /\ UNCHANGED <<ledger, up, todo, entered, granted, spent>>

(* ... or refuses it or cannot be reached.                                  *)
SendRefused ==
    /\ Ready(Sup, "send")
    /\ Goto(Sup, "runs", 0, ctl[Sup].list)
    /\ Then(Sup, Report(ctl[Sup].job, "blocked"))
    /\ UNCHANGED <<ledger, session, up, history, spent>>

(* The reply came within the 45 s. *)
SendAnswered ==
    /\ Ready(Sup, "reply")
    /\ LET j == ctl[Sup].job
           q == session[AliasOf[j]].queue
       IN /\ \A i \in DOMAIN q : q[i] # j
          /\ Goto(Sup, "runs", 0, ctl[Sup].list)
          /\ Then(Sup, Report(j, "running"))
    /\ UNCHANGED <<ledger, session, up, history, spent>>

(* The connection broke while waiting. *)
SendFailed ==
    /\ Ready(Sup, "reply")
    /\ ~up
    /\ Goto(Sup, "runs", 0, ctl[Sup].list)
    /\ Then(Sup, Report(ctl[Sup].job, "blocked"))
    /\ UNCHANGED <<ledger, session, up, history, spent>>

(* Mutant: a send that timed out is sent again. *)
SendAgain ==
    /\ Ready(Sup, "reply") \/ (Ready(Sup, "send") /\ ~up)
    /\ Goto(Sup, "send", ctl[Sup].job, ctl[Sup].list)
    /\ UNCHANGED <<ledger, session, up, todo, history, spent>>

(* The 45 s passed: ask for the status before deciding. *)
SendTimedOut ==
    /\ Ready(Sup, "reply") \/ (Ready(Sup, "send") /\ ~up)
    /\ Goto(Sup, "recheck", ctl[Sup].job, ctl[Sup].list)
    /\ UNCHANGED <<ledger, session, up, todo, history, spent>>

CheckAfterTimeout ==
    /\ Ready(Sup, "recheck")
    /\ Goto(Sup, "runs", 0, ctl[Sup].list)
    /\ Then(Sup, AfterStatus(ctl[Sup].job, "stale"))
    /\ UNCHANGED <<ledger, session, up, history, spent>>

SupervisorStep ==
    \/ TickStarts \/ MarkNextStale(Sup) \/ ListActive \/ EndTick
    \/ CheckJob \/ BeginSend
    \/ SendPrompt \/ SendRefused \/ SendAnswered \/ SendFailed
    \/ SendTimedOut \/ CheckAfterTimeout

(* ---------------------------- the Director ---------------------------- *)

Dir == "director"

(* loop_status_payload, behind every status request and at the end of most  *)
(* of the cloyd_smith tools, marks stale runs too.                          *)
StatusPoll ==
    /\ Ready(Dir, "idle")
    /\ Goto(Dir, "marks", 0, RunningRows)
    /\ UNCHANGED <<ledger, session, up, todo, history, spent>>

EndPoll ==
    /\ Ready(Dir, "marks")
    /\ ctl[Dir].list = {}
    /\ Goto(Dir, "idle", 0, {})
    /\ UNCHANGED <<ledger, session, up, todo, history, spent>>

(* An operator's request reaches an actor that is free. *)
Request(a, op) ==
    /\ op \in Operations
    /\ spent.ops < MaxOps
    /\ spent' = [spent EXCEPT !.ops = @ + 1]
    /\ Ready(a, "idle")

(* The handlers that check the row's status, then update it. *)
Handle(op, j, from, ops) ==
    /\ Request(Dir, op)
    /\ row[j].status \in from
    /\ Then(Dir, ops)
    /\ UNCHANGED <<ledger, session, up, ctl, entered, sent>>

(* create: one INSERT; jobs are numbered in creation order. *)
NextJob(j) == row[j].status = "absent" /\ \A k \in 1..(j - 1) : row[k].status # "absent"
Insert(j) ==
    /\ row' = [row EXCEPT ![j].status = "queued"]
    /\ entered' = [entered EXCEPT ![j] = @ + 1]

Submit(j) ==
    /\ Ready(Dir, "idle")
    /\ NextJob(j)
    /\ Insert(j)
    /\ UNCHANGED <<hb, session, up, todo, ctl, sent, granted, spent>>

(* Mutant: done is accepted for a blocked job too. *)
DoneUnreviewed(j) ==
    /\ Handle("done", j, {"needs_review", "blocked"},
              <<Update(j, "done", Keep), Beat(j, "done")>>)
    /\ UNCHANGED granted

MarkDone(j) ==
    /\ Handle("done", j, {"needs_review"},
              <<Update(j, "done", Keep), Beat(j, "done")>>)
    /\ UNCHANGED granted

ClearDone(j) ==
    /\ Handle("clear", j, {"done"},
              <<Update(j, "stopped", Keep), Beat(j, "stopped")>>)
    /\ UNCHANGED granted

MarkBlocked(j) ==
    /\ Handle("block", j, Active,
              <<Update(j, "blocked", Keep), Beat(j, "blocked")>>)
    /\ UNCHANGED granted

(* The monitor's Stop button. *)
StopJob(j) ==
    /\ Handle("stop", j, {"queued", "running"},
              <<Update(j, "stopped", Keep), Beat(j, "stopped")>>)
    /\ UNCHANGED granted

(* The cloyd_smith.stop tool: any status, and no heartbeat. *)
ToolStop(j) ==
    /\ Handle("tool_stop", j, Statuses, <<Update(j, "stopped", Keep)>>)
    /\ UNCHANGED granted

(* The cloyd_smith.record tool: any status or none, from any status. *)
Record(j) ==
    /\ \E s \in RecordStatuses :
          Handle("record", j, Statuses, <<Update(j, s, Keep)>>)
    /\ UNCHANGED granted

(* The counter is read with the guard and written with the later update. *)
FollowUp(j) ==
    /\ Handle("follow_up", j, {"needs_review", "blocked", "stale"},
              <<Update(j, "queued", [row[j].meta EXCEPT !.followUps = @ + 1]),
                FreshBeat(j, "queued")>>)
    /\ row[j].meta.followUps < FollowUpLimit
    /\ granted' = [granted EXCEPT ![j].followUps = @ + 1]

(* Retry reads the row, then asks OpenCode (PreflightRetry). *)
Retry(j) ==
    /\ Request(Dir, "retry")
    /\ row[j].status \in {"blocked", "stale", "stopped"}
    /\ j \notin Misrouted
    /\ row[j].meta.retries < RetryLimit
    /\ Goto(Dir, "retry", 0, Rows({j}))
    /\ UNCHANGED <<ledger, session, up, todo, history>>

PreflightRetry ==
    /\ Ready(Dir, "retry")
    /\ \E s \in ctl[Dir].list :
          \/ /\ ~up
             /\ UNCHANGED <<todo, granted>>
          \/ /\ up
             /\ StatusOf(AliasOf[s.job]) # "idle"
             /\ Then(Dir, <<Update(s.job, Keep, Keep)>>)
             /\ UNCHANGED granted
          \/ /\ up
             /\ StatusOf(AliasOf[s.job]) = "idle"
             /\ Then(Dir, <<Update(s.job, "queued",
                                   [s.row.meta EXCEPT !.retries = @ + 1]),
                            FreshBeat(s.job, "queued")>>)
             /\ granted' = [granted EXCEPT ![s.job].retries = @ + 1]
    /\ Goto(Dir, "idle", 0, {})
    /\ UNCHANGED <<ledger, session, up, entered, sent, spent>>

(* Replace: the new job is inserted first, the old one stopped after. *)
Replace(j, r) ==
    /\ Request(Dir, "replace")
    /\ row[j].status = "blocked"
    /\ NextJob(r)
    /\ Insert(r)
    /\ Then(Dir, <<Update(j, "stopped", row[j].meta), Beat(j, "stopped"),
                   Beat(r, "queued")>>)
    /\ UNCHANGED <<hb, session, up, ctl, sent, granted>>

(* The bulk buttons: list the incomplete jobs, stop the main session        *)
(* (requeue only if it saw a running job), then update job by job.          *)
RequeueIncomplete ==
    /\ Request(Dir, "requeue")
    /\ Goto(Dir, "requeue", 0, Rows(InState(Incomplete)))
    /\ Then(Dir, IF InState({"running"}) = {} THEN <<>> ELSE <<Abort(MainAlias)>>)
    /\ UNCHANGED <<ledger, session, up, history>>

StopAll ==
    /\ Request(Dir, "stop_all")
    /\ Goto(Dir, "stop_all", 0, Rows(InState(Incomplete)))
    /\ Then(Dir, <<Abort(MainAlias)>>)
    /\ UNCHANGED <<ledger, session, up, history>>

BulkOps(at, s) ==
    CASE at = "requeue"  -> <<Update(s.job, "queued", s.row.meta),
                              FreshBeat(s.job, "queued")>>
      [] at = "stop_all" -> <<Update(s.job, "stopped", Keep),
                              Beat(s.job, "stopped")>>
      [] at = "reset"    -> <<Update(s.job, Keep, s.row.meta)>>

BulkNext ==
    /\ \E at \in {"requeue", "stop_all", "reset"} : Ready(Dir, at)
    /\ \E s \in ctl[Dir].list :
          /\ Goto(Dir, ctl[Dir].at, 0, ctl[Dir].list \ {s})
          /\ Then(Dir, BulkOps(ctl[Dir].at, s))
    /\ UNCHANGED <<ledger, session, up, history, spent>>

EndBulk ==
    /\ \E at \in {"requeue", "stop_all", "reset"} : Ready(Dir, at)
    /\ ctl[Dir].list = {}
    /\ Goto(Dir, "idle", 0, {})
    /\ UNCHANGED <<ledger, session, up, todo, history, spent>>

RuntimeStop ==
    /\ Request(Dir, "runtime_stop")
    /\ Then(Dir, <<Abort(MainAlias)>>)
    /\ UNCHANGED <<ledger, session, up, ctl, history>>

(* runtime/reset: stop, start a new session, then note it on the blocked    *)
(* jobs whose heartbeat says smith_busy_timeout.                            *)
RuntimeReset ==
    /\ Request(Dir, "reset")
    /\ Then(Dir, <<Abort(MainAlias)>>)
    /\ Goto(Dir, "restart", 0, {})
    /\ UNCHANGED <<ledger, session, up, history>>

RestartSession ==
    /\ Ready(Dir, "restart")
    /\ IF up
       THEN /\ session' = [session EXCEPT ![MainAlias] =
                              [started |-> TRUE, queue |-> <<>>]]
            /\ Goto(Dir, "reset", 0,
                    Rows({j \in InState({"blocked"}) : hb[j].state = "busy_timeout"}))
       ELSE Goto(Dir, "idle", 0, {}) /\ UNCHANGED session
    /\ UNCHANGED <<ledger, up, todo, history, spent>>

DirectorRequest ==
    \/ \E j \in Jobs :
          \/ Submit(j) \/ MarkDone(j) \/ ClearDone(j) \/ MarkBlocked(j)
          \/ StopJob(j) \/ ToolStop(j) \/ Record(j) \/ FollowUp(j) \/ Retry(j)
          \/ \E r \in Jobs : Replace(j, r)
    \/ RequeueIncomplete \/ StopAll \/ RuntimeStop \/ RuntimeReset
    \/ StatusPoll

DirectorStep ==
    \/ MarkNextStale(Dir) \/ EndPoll \/ PreflightRetry
    \/ BulkNext \/ EndBulk \/ RestartSession

(* ------------------------- the command line ---------------------------- *)

(* --stop-job runs beside the daemon and takes no lock. *)
CliStop(j) ==
    /\ Request("cli", "cli_stop")
    /\ row[j].status # "absent"
    /\ Then("cli", <<Abort(AliasOf[j]), Beat(j, "stopped"),
                     Update(j, "stopped", Keep)>>)
    /\ UNCHANGED <<ledger, session, up, ctl, history>>

(* ------------------------- the environment ----------------------------- *)

(* The session answers its first prompt. *)
SmithAnswers(a) ==
    /\ up
    /\ session[a].queue # <<>>
    /\ session' = [session EXCEPT ![a].queue = Tail(@)]
    /\ UNCHANGED <<ledger, up, todo, ctl, history, spent>>

(* started_at <= updated_at: a heartbeat older than 300 s started more than *)
(* 180 s ago.                                                               *)
BusyWindowPasses(j) ==
    /\ hb[j].state # "none"
    /\ ~hb[j].long
    /\ hb' = [hb EXCEPT ![j].long = TRUE]
    /\ UNCHANGED <<row, session, up, todo, ctl, history, spent>>

HeartbeatAges(j) ==
    /\ hb[j].state # "none"
    /\ ~hb[j].old
    /\ Lapses
    /\ hb' = [hb EXCEPT ![j].long = TRUE, ![j].old = TRUE]
    /\ UNCHANGED <<row, session, up, todo, ctl, history, spent>>

(* The OpenCode server goes away and comes back, with its sessions at work  *)
(* or restarted.                                                            *)
ServerDown ==
    /\ up
    /\ spent.outages < MaxOutages
    /\ up' = FALSE
    /\ spent' = [spent EXCEPT !.outages = @ + 1]
    /\ UNCHANGED <<ledger, session, todo, ctl, history>>

ServerUp ==
    /\ ~up
    /\ up' = TRUE
    /\ \/ UNCHANGED session
       \/ session' = [a \in Aliases |-> [session[a] EXCEPT !.queue = <<>>]]
    /\ UNCHANGED <<ledger, todo, ctl, history, spent>>

(* A process dies and is restarted, or an exception abandons the tick or    *)
(* the request: what it had not done yet is forgotten.                      *)
Crash(a) ==
    /\ spent.crashes < MaxCrashes
    /\ spent' = [spent EXCEPT !.crashes = @ + 1]
    /\ ~Ready(a, "idle")
    /\ Then(a, <<>>)
    /\ Goto(a, "idle", 0, {})
    /\ UNCHANGED <<ledger, session, up, history>>

Environment ==
    \/ \E a \in Aliases : SmithAnswers(a)
    \/ \E j \in Jobs : BusyWindowPasses(j) \/ HeartbeatAges(j)
    \/ ServerDown \/ ServerUp
    \/ \E a \in Actors : Crash(a)

Next ==
    \/ \E a \in Actors : LedgerStep(a)
    \/ SupervisorStep
    \/ DirectorRequest
    \/ DirectorStep
    \/ \E j \in Jobs : CliStop(j)
    \/ Environment

Spec == Init /\ [][Next]_vars

(* The daemon ticks for ever (main's while True, restarted by launchd), a   *)
(* process that is in the middle of a request goes on with it, clocks       *)
(* advance, and the server comes back.  Nothing makes Smith answer or an    *)
(* operator act.                                                            *)
Fairness ==
    /\ \A a \in Actors : WF_vars(LedgerStep(a))
    /\ WF_vars(SupervisorStep)
    /\ WF_vars(DirectorStep)
    /\ \A j \in Jobs : WF_vars(BusyWindowPasses(j))
    /\ WF_vars(ServerUp)

FairSpec == Spec /\ Fairness

-----------------------------------------------------------------------------
TypeOK ==
    /\ row \in [Jobs -> Row]
    /\ hb \in [Jobs -> Heartbeat]
    /\ session \in [Aliases -> Session]
    /\ up \in BOOLEAN
    /\ todo \in [Actors -> Seq(Op)]
    /\ ctl \in [Actors -> Control]
    /\ entered \in [Jobs -> Nat]
    /\ sent \in [Jobs -> Nat]
    /\ granted \in [Jobs -> Meta]
    /\ spent \in [ops : Nat, crashes : Nat, outages : Nat]

-----------------------------------------------------------------------------
(* Every prompt OpenCode accepted answers to a queueing of its own: a row    *)
(* that turned to queued once is dispatched at most once, although a tick    *)
(* works from rows it read earlier, can be abandoned between any two steps,  *)
(* and is overwritten by the operators meanwhile.  It rests on _run_once     *)
(* saving "running" before it calls opencode_send.                           *)
DispatchedOncePerQueueing == \A j \in Jobs : sent[j] <= entered[j]

(* Why it holds: a tick has at most one claim on a queueing of a job at a     *)
(* time.  The queueing is open while the row says queued or the tick will    *)
(* still overwrite what it says with "running", and claimed from there to    *)
(* the send; each is covered by an entry not sent for yet.                   *)
Listing == ctl[Sup].at \in {"runs", "send", "reply", "recheck"}
Pending(j) == /\ Listing
              /\ \E s \in ctl[Sup].list : s.job = j /\ s.row.status = "queued"
AtSend(j)  == ctl[Sup].at = "send" /\ ctl[Sup].job = j
Saving(j)  == AtSend(j) /\ (Doing(Sup, "update") \/ Doing(Sup, "save"))
Claimed(j) == AtSend(j) /\ ~Saving(j)
Open(j)    == row[j].status = "queued" \/ Pending(j) \/ Saving(j)

SendShape ==
    ctl[Sup].at = "send" =>
        LET t == todo[Sup]
            j == ctl[Sup].job
            b == FreshBeat(j, "running")
        IN \/ t = <<Update(j, "running", Keep), b>>
           \/ /\ Len(t) = 2 /\ t = <<t[1], b>>
              /\ t[1].kind = "save" /\ t[1].job = j /\ t[1].row.status = "running"
           \/ t = <<b>>
           \/ t = <<>>

ListApart ==
    /\ \A s, t \in ctl[Sup].list : s.job = t.job => s = t
    /\ ctl[Sup].at = "send" => \A s \in ctl[Sup].list : s.job # ctl[Sup].job

Covered(j) ==
    /\ sent[j] <= entered[j]
    /\ Claimed(j) \/ Open(j) => sent[j] + 1 <= entered[j]
    /\ Claimed(j) /\ Open(j) => sent[j] + 2 <= entered[j]

DispatchInv == SendShape /\ ListApart /\ \A j \in Jobs : Covered(j)

(* The monitor calls a needs_review job idle and waiting for evidence        *)
(* review: its session has answered everything sent for it.                  *)
Working(j) ==
    LET q == session[AliasOf[j]].queue IN \E i \in DOMAIN q : q[i] = j
ReviewIsIdle == \A j \in Jobs : row[j].status = "needs_review" => ~Working(j)

(* Done is the operator's verdict on a job under review: no step makes a     *)
(* job done from anything but needs_review, and once done only clearing it   *)
(* or a stop changes it -- no update of a tick, a status poll or a late      *)
(* request lands on it.                                                      *)
DoneIsReviewed ==
    [][\A j \in Jobs :
         /\ row'[j].status = "done" /\ row[j].status # "done"
              => row[j].status = "needs_review"
         /\ row[j].status = "done" => row'[j].status \in {"done", "stopped"}]_vars

(* A stopped job is not continued by the supervisor: it stays stopped until  *)
(* an operator queues it again.                                              *)
StopIsHonoured ==
    [][\A j \in Jobs :
         row[j].status = "stopped" => row'[j].status \in {"stopped", "queued"}]_vars

(* The operators are granted at most RetryLimit (three) retries of a job and *)
(* FollowUpLimit (one) bounded follow-ups: the counters that say so are in   *)
(* the row, and a tick may be about to write an older row back.              *)
GrantsBounded ==
    \A j \in Jobs :
        granted[j].retries <= RetryLimit /\ granted[j].followUps <= FollowUpLimit

(* Work in flight comes to rest: a queued, running or stale job reaches      *)
(* review, blocked, done or stopped, whatever Smith does, because each tick  *)
(* polls it and a session busy for longer than the window is stopped.  The   *)
(* premise is that the ticks come in time in the end: a job listed as stale  *)
(* is not held to the window, and a busy one goes back to running, so that   *)
(* heartbeats that age past 300 s again and again let it alternate for ever. *)
BeatsInTime == \A j \in Jobs : row[j].status = "running" => ~hb[j].old

EventuallySettles ==
    <>[]BeatsInTime =>
        \A j \in Jobs :
            row[j].status \in {"queued", "running", "stale"} ~>
                row[j].status \in {"needs_review", "blocked", "done", "stopped"}

(* A queued job is picked up by a tick (or an operator takes it away).       *)
QueuedIsPickedUp ==
    \A j \in Jobs : row[j].status = "queued" ~> row[j].status # "queued"
=============================================================================
