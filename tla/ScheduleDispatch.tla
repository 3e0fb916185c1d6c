-------------------------- MODULE ScheduleDispatch --------------------------
(***************************************************************************)
(* The durable scheduler of Freyja 3: envelopes stored in SQLite            *)
(* (freyja3_scheduler.py) and POST /freyja3/schedules/dispatch-due, which   *)
(* lists the due ones, hands each to the agent and marks it dispatched.     *)
(*                                                                         *)
(* The endpoint suspends while an agent works on an envelope, so requests   *)
(* that overlap interleave there; everything between two suspensions is     *)
(* one step.                                                                *)
(***************************************************************************)
EXTENDS Naturals, FiniteSets

CONSTANTS
    NumSchedules, \* envelopes, numbered in (due_at, created_at, schedule_id) order
    Dispatchers,  \* dispatch-due requests that may be under way together
    Unknown,      \* envelopes whose target_agent_id names no active agent
    Limit,        \* the limit of a request (the code: 10)
    Bounded,      \* the callers give due_before, the time of the call
    MaxFailures   \* bound: requests that end in an exception or a crash

Schedules == 1..NumSchedules

ASSUME SchedulesOK ==
    /\ NumSchedules \in Nat
    /\ IsFiniteSet(Dispatchers)
    /\ Unknown \subseteq Schedules
    /\ Limit \in Nat \ {0}
    /\ Bounded \in BOOLEAN

VARIABLES
    envelope,  \* schedule |-> "absent", "waiting" or "dispatched"
    now,       \* the clock: schedule s is due once s <= now
    request,   \* dispatcher |-> the envelopes it listed and the one it is at
    executed,  \* history: schedule |-> times the agent finished it
    failures   \* what has been used of MaxFailures

scVars == <<envelope, now, request, executed, failures>>

(* at: between two envelopes, waiting for the agent, or no request at all. *)
Request == [at : {"none", "next"}, s : {0}, due : SUBSET Schedules]
             \cup [at : {"agent"}, s : Schedules, due : SUBSET Schedules]
NoRequest == [at |-> "none", s |-> 0, due |-> {}]

ScheduleInit ==
    /\ envelope = [s \in Schedules |-> "absent"]
    /\ now = 0
    /\ request = [d \in Dispatchers |-> NoRequest]
    /\ executed = [s \in Schedules |-> 0]
    /\ failures = 0

(* create: any due_at, past or future, and any target_agent_id. *)
CreateSchedule(s) ==
    /\ envelope[s] = "absent"
    /\ envelope' = [envelope EXCEPT ![s] = "waiting"]
    /\ UNCHANGED <<now, request, executed, failures>>

Tick ==
    /\ now < NumSchedules
    /\ now' = now + 1
    /\ UNCHANGED <<envelope, request, executed, failures>>

(* Mutants: dispatched envelopes are listed again; only those due right now   *)
(* are listed.                                                               *)
DueAgain == {s \in Schedules : envelope[s] # "absent" /\ (Bounded => s <= now)}
DueNow   == {s \in Schedules : envelope[s] = "waiting" /\ s = now}

(* list: what is not dispatched and, with due_before, due; the first Limit. *)
Due == {s \in Schedules : envelope[s] = "waiting" /\ (Bounded => s <= now)}
Listed == {s \in Due : Cardinality({t \in Due : t < s}) < Limit}

Begin(d) ==
    /\ request[d].at = "none"
    /\ request' = [request EXCEPT ![d] = [at |-> "next", s |-> 0, due |-> Listed]]
    /\ UNCHANGED <<envelope, now, executed, failures>>

(* Mutant: an envelope is marked before its agent has it.                    *)
SubmitMarked(d) ==
    /\ request[d].at = "next"
    /\ \E s \in request[d].due :
          /\ \A t \in request[d].due : s <= t
          /\ envelope' = [envelope EXCEPT ![s] = "dispatched"]
          /\ request' = [request EXCEPT ![d] =
                [at |-> "agent", s |-> s, due |-> @.due \ {s}]]
    /\ UNCHANGED <<now, executed, failures>>

(* The next envelope goes to its agent; an unknown one raises 404, which     *)
(* ends the request.                                                         *)
Submit(d) ==
    /\ request[d].at = "next"
    /\ \E s \in request[d].due :
          /\ \A t \in request[d].due : s <= t
          /\ IF s \in Unknown
             THEN request' = [request EXCEPT ![d] = NoRequest]
             ELSE request' = [request EXCEPT ![d] =
                        [at |-> "agent", s |-> s, due |-> @.due \ {s}]]
    /\ UNCHANGED <<envelope, now, executed, failures>>

(* The agent answers, and mark_dispatched either marks the envelope or, if   *)
(* it is marked already, raises KeyError, which ends the request.            *)
Mark(d) ==
    /\ request[d].at = "agent"
    /\ LET s == request[d].s
       IN /\ executed' = [executed EXCEPT ![s] = @ + 1]
          /\ envelope' = [envelope EXCEPT ![s] = "dispatched"]
          /\ request' = [request EXCEPT ![d] =
                IF envelope[s] = "waiting"
                THEN [at |-> "next", s |-> 0, due |-> @.due]
                ELSE NoRequest]
    /\ UNCHANGED <<now, failures>>

Finish(d) ==
    /\ request[d].at = "next"
    /\ request[d].due = {}
    /\ request' = [request EXCEPT ![d] = NoRequest]
    /\ UNCHANGED <<envelope, now, executed, failures>>

(* The request dies while the agent works: an exception, or the process is   *)
(* restarted.  The agent may have done its work by then.                     *)
Fail(d) ==
    /\ failures < MaxFailures
    /\ failures' = failures + 1
    /\ request[d].at = "agent"
    /\ \/ UNCHANGED executed
       \/ executed' = [executed EXCEPT ![request[d].s] = @ + 1]
    /\ request' = [request EXCEPT ![d] = NoRequest]
    /\ UNCHANGED <<envelope, now>>

Dispatch(d) == Begin(d) \/ Submit(d) \/ Mark(d) \/ Finish(d)

ScheduleNext ==
    \/ \E s \in Schedules : CreateSchedule(s)
    \/ Tick
    \/ \E d \in Dispatchers : Dispatch(d) \/ Fail(d)

ScheduleSpec == ScheduleInit /\ [][ScheduleNext]_scVars

(* Somebody keeps calling dispatch-due, agents answer, time passes. *)
ScheduleFairness == WF_scVars(Tick) /\ \A d \in Dispatchers : WF_scVars(Dispatch(d))

-----------------------------------------------------------------------------
ScheduleTypeOK ==
    /\ envelope \in [Schedules -> {"absent", "waiting", "dispatched"}]
    /\ now \in Nat
    /\ request \in [Dispatchers -> Request]
    /\ executed \in [Schedules -> Nat]
    /\ failures \in Nat

(* No envelope is lost: what is marked dispatched has been executed, however *)
(* requests overlap and wherever they end.                                   *)
DispatchedWasExecuted ==
    \A s \in Schedules : envelope[s] = "dispatched" => executed[s] > 0

(* An envelope is executed again only because a request died with it in its  *)
(* agent's hands or because requests overlapped: once per death and once per *)
(* overlapping request, so exactly once when nothing fails and the caller    *)
(* waits for an answer before it calls again.                                *)
RunsBounded ==
    \A s \in Schedules : executed[s] <= failures + Cardinality(Dispatchers)

(* An envelope that comes due is dispatched, unless one for an unknown agent *)
(* is ahead of it: every request ends there.                                 *)
DueIsDispatched ==
    \A s \in Schedules :
        (\A u \in Unknown : s < u) => []<>(envelope[s] # "waiting")
=============================================================================
