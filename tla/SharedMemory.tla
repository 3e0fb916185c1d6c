--------------------------- MODULE SharedMemory ---------------------------
(***************************************************************************)
(* The shared memories of the memory store (src/freyja/memory/store.py):    *)
(* put_shared_memory with its two quotas, delete_shared_memory and          *)
(* prune_shared_memories.                                                   *)
(*                                                                         *)
(* A put is one transaction (BEGIN IMMEDIATE), but it reads the clock before *)
(* it has the lock: puts of other threads and processes may commit between, *)
(* with a later time.                                                       *)
(***************************************************************************)
EXTENDS Integers, FiniteSets

CONSTANTS
    Principals,      \* principal scopes
    MemoryIds,       \* memory_id within a scope
    Putters,         \* threads and processes that put
    PrincipalLimit,  \* memory_shared_max_items_per_principal (the code: 200)
    GlobalLimit,     \* memory_shared_max_global_items (the code: 10000)
    MaxTime,         \* bound: the last time
    MaxPuts          \* bound: puts that commit

Keys  == Principals \X MemoryIds
Times == 0..MaxTime
Never == MaxTime + 1

(* The constructor raises the global limit to the one of a principal.        *)
ASSUME SharedOK ==
    /\ IsFiniteSet(Keys)
    /\ PrincipalLimit \in Nat \ {0} /\ GlobalLimit \in Nat \ {0}
    /\ PrincipalLimit <= GlobalLimit
    /\ MaxTime \in Nat /\ MaxPuts \in Nat

VARIABLES
    time,  \* now
    rows,  \* key |-> its row of shared_memories, NoRow for none
    put,   \* putter |-> the put it is at
    puts   \* what has been used of MaxPuts

smVars == <<time, rows, put, puts>>

(* updated_at, the rowid and expires_at; rowid 0 is no row.                  *)
MemoryRow == [updated : Times, id : Nat, until : Times \cup {Never}]
NoRow     == [updated |-> 0, id |-> 0, until |-> 0]
Held(t) == {k \in Keys : t[k].id # 0}
OfScope(t, scope) == {k \in Held(t) : k[1] = scope}

PutState == [at : {"idle"}, key : {<< >>}, now : {0}, until : {Never}]
              \cup [at : {"waiting"}, key : Keys, now : Times, until : Times \cup {Never}]
NoPut == [at |-> "idle", key |-> << >>, now |-> 0, until |-> Never]

SharedInit ==
    /\ time = 0
    /\ rows = [k \in Keys |-> NoRow]
    /\ put = [w \in Putters |-> NoPut]
    /\ puts = 0

TimePasses ==
    /\ time < MaxTime
    /\ time' = time + 1
    /\ UNCHANGED <<rows, put, puts>>

(* A put reads the clock and waits for the lock.  Nothing keeps a caller from  *)
(* an expires_at that is past.                                               *)
BeginPut(w, k, until) ==
    /\ put[w].at = "idle"
    /\ put' = [put EXCEPT ![w] = [at |-> "waiting", key |-> k, now |-> time, until |-> until]]
    /\ UNCHANGED <<time, rows, puts>>

Without(t, gone) == [k \in Keys |-> IF k \in gone THEN NoRow ELSE t[k]]

(* _cleanup_expired_shared_memories.                                         *)
Cleaned(t, now) == Without(t, {k \in Keys : t[k].until <= now})

(* Rows are ordered by updated_at and rowid.                                 *)
StaleThan(t, j, k) == \/ t[j].updated < t[k].updated
                      \/ t[j].updated = t[k].updated /\ t[j].id < t[k].id

(* Mutant: the newest are removed.                                           *)
TrimmedNewest(t, among, limit) ==
    {Without(t, among \ keep) :
        keep \in {keep \in SUBSET among :
            /\ IF Cardinality(among) <= limit THEN keep = among
                                             ELSE Cardinality(keep) = limit
            /\ \A k \in keep, j \in among \ keep : StaleThan(t, k, j)}}

(* The table when only the newest limit of some of its rows are left.        *)
Trimmed(t, among, limit) ==
    {Without(t, among \ keep) :
        keep \in {keep \in SUBSET among :
            /\ IF Cardinality(among) <= limit THEN keep = among
                                             ELSE Cardinality(keep) = limit
            /\ \A k \in keep, j \in among \ keep : StaleThan(t, j, k)}}

(* Mutant: only a put into a full scope looks at the global quota.           *)
PrincipalQuotaOnly(t, scope) == Trimmed(t, OfScope(t, scope), PrincipalLimit)

(* _enforce_shared_quotas: first the scope's, then all.                      *)
WithinQuotas(t, scope) ==
    UNION {Trimmed(u, Held(u), GlobalLimit) :
              u \in Trimmed(t, OfScope(t, scope), PrincipalLimit)}

(* SQLite gives a new row the largest rowid plus one.                        *)
IsNewId(t, id) ==
    /\ \A k \in Keys : t[k].id < id
    /\ id = 1 \/ \E k \in Keys : t[k].id = id - 1

(* INSERT ... ON CONFLICT DO UPDATE: a row that is updated keeps its rowid.   *)
Upserts(t, p) ==
    {[t EXCEPT ![p.key] = [updated |-> p.now, id |-> id, until |-> p.until]] :
        id \in IF t[p.key].id # 0 THEN {t[p.key].id}
               ELSE {n \in 1..MaxPuts : IsNewId(t, n)}}

(* The transaction: expired rows go, the row is inserted or updated, quotas.  *)
CommitPut(w) ==
    /\ put[w].at = "waiting"
    /\ puts < MaxPuts
    /\ puts' = puts + 1
    /\ \E t \in Upserts(Cleaned(rows, put[w].now), put[w]) :
          rows' \in WithinQuotas(t, put[w].key[1])
    /\ put' = [put EXCEPT ![w] = NoPut]
    /\ UNCHANGED time

(* The database stays locked for longer than its timeout: rolled back.       *)
PutFails(w) ==
    /\ put[w].at = "waiting"
    /\ put' = [put EXCEPT ![w] = NoPut]
    /\ UNCHANGED <<time, rows, puts>>

DeleteMemory(k) ==
    /\ k \in Held(rows)
    /\ rows' = Without(rows, {k})
    /\ UNCHANGED <<time, put, puts>>

(* cleanup: what has expired, then what is over the global quota.            *)
PruneShared ==
    /\ \E t \in {Cleaned(rows, time)} : rows' \in Trimmed(t, Held(t), GlobalLimit)
    /\ UNCHANGED <<time, put, puts>>

SharedNext ==
    \/ TimePasses
    \/ \E w \in Putters :
          \/ \E k \in Keys, until \in Times \cup {Never} : BeginPut(w, k, until)
          \/ CommitPut(w)
          \/ PutFails(w)
    \/ \E k \in Keys : DeleteMemory(k)
    \/ PruneShared

SharedSpec == SharedInit /\ [][SharedNext]_smVars
----------------------------------------------------------------------------
(* Every variable holds what the code may store in it, and a rowid names one  *)
(* row.                                                                      *)
SharedTypeOK ==
    /\ time \in Times
    /\ rows \in [Keys -> MemoryRow]
    /\ \A j, k \in Held(rows) : rows[j].id = rows[k].id => j = k
    /\ put \in [Putters -> PutState]
    /\ puts \in 0..MaxPuts

(* No interleaving of puts, deletions and clean-ups leaves a principal over    *)
(* its quota or the store over the global one.                               *)
QuotasHold ==
    /\ Cardinality(Held(rows)) <= GlobalLimit
    /\ \A s \in Principals : Cardinality(OfScope(rows, s)) <= PrincipalLimit

(* A memory that is not deleted by its owner and not expired goes only for     *)
(* fresher ones: a full quota of its principal's, or a full store.           *)
Fresher(k, among) == {j \in among : rows'[j].updated >= rows[k].updated}
EvictedForFresher ==
    [][\A k \in Held(rows) \ Held(rows)' :
          \/ rows[k].until <= time
          \/ puts' = puts /\ Held(rows)' = Held(rows) \ {k}
          \/ Cardinality(Fresher(k, OfScope(rows, k[1])')) >= PrincipalLimit
          \/ Cardinality(Fresher(k, Held(rows)')) >= GlobalLimit]_smVars

=============================================================================
