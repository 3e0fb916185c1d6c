------------------------ MODULE Memory_proofs ------------------------
(* Theorems about SharedMemory, for every set of principals, every two       *)
(* quotas and every number of putters, and about ConversationMemory, for     *)
(* every limit and every number of appending processes.                     *)
EXTENDS SharedMemory, ConversationMemory, FiniteSetTheorems, TLAPS

Table == [Keys -> MemoryRow]

LEMMA HeldFinite == ASSUME NEW S, S \subseteq Keys
                    PROVE  IsFiniteSet(S) /\ Cardinality(S) \in Nat
  BY SharedOK, FS_Subset, FS_CardinalityType DEF SharedOK

LEMMA NoRowTyped == NoRow \in MemoryRow /\ NoRow.id = 0 /\ NoRow.until = 0
  BY SharedOK DEF SharedOK, NoRow, MemoryRow, Times

LEMMA WithoutHolds ==
  ASSUME NEW t \in Table, NEW gone
  PROVE  /\ Without(t, gone) \in Table
         /\ Held(Without(t, gone)) = Held(t) \ gone
         /\ \A k \in Held(t) \ gone : Without(t, gone)[k] = t[k]
  BY NoRowTyped DEF Without, Held, Table

LEMMA CleanedHolds ==
  ASSUME NEW t \in Table, NEW now
  PROVE  /\ Cleaned(t, now) \in Table
         /\ Held(Cleaned(t, now)) \subseteq Held(t)
         /\ \A k \in Held(Cleaned(t, now)) : Cleaned(t, now)[k] = t[k]
         /\ \A k \in Held(t) \ Held(Cleaned(t, now)) : t[k].until <= now
  BY WithoutHolds DEF Cleaned, Held

(* What is left of a table that is trimmed.                                  *)
LEMMA TrimmedHolds ==
  ASSUME NEW t \in Table, NEW among \in SUBSET Held(t), NEW limit \in Nat,
         NEW u \in Trimmed(t, among, limit)
  PROVE  /\ u \in Table
         /\ Held(u) \subseteq Held(t) /\ Held(t) \ among \subseteq Held(u)
         /\ \A k \in Held(u) : u[k] = t[k]
         /\ Cardinality(Held(u) \cap among) <= limit
         /\ Cardinality(among) <= limit => Held(u) = Held(t)
         /\ \A k \in Held(t) \ Held(u) :
               /\ Cardinality(Held(u) \cap among) = limit
               /\ \A j \in Held(u) \cap among : StaleThan(t, k, j)
  <1>1. PICK keep \in SUBSET among :
            /\ u = Without(t, among \ keep)
            /\ IF Cardinality(among) <= limit THEN keep = among
                                             ELSE Cardinality(keep) = limit
            /\ \A k \in keep, j \in among \ keep : StaleThan(t, j, k)
    BY DEF Trimmed
  <1>2. /\ u \in Table /\ Held(u) = Held(t) \ (among \ keep)
        /\ \A k \in Held(u) : u[k] = t[k]
    BY <1>1, WithoutHolds
  <1>3. Held(u) \cap among = keep
    BY <1>2
  <1>4. Cardinality(keep) <= limit
    BY <1>1
  <1> QED  BY <1>1, <1>2, <1>3, <1>4

LEMMA ScopeOf ==
  ASSUME NEW t \in Table, NEW s
  PROVE  OfScope(t, s) \subseteq Held(t) /\ OfScope(t, s) \subseteq Keys
  BY DEF OfScope, Held

----------------------------------------------------------------------------
(* Types.  A put carries a time that has been.                               *)
ReadBefore == \A w \in Putters : put[w].now <= time
SmTyped    == SharedTypeOK /\ ReadBefore

LEMMA SharedInitTyped == ASSUME SharedInit PROVE SmTyped
  <1>1. rows \in Table /\ Held(rows) = {}
    BY NoRowTyped DEF SharedInit, Table, Held
  <1>2. NoPut \in PutState /\ NoPut.now = 0
    BY DEF NoPut, PutState, Never
  <1> QED
    BY <1>1, <1>2, SharedOK
    DEF SharedOK, SharedInit, SmTyped, SharedTypeOK, ReadBefore, Table, Times

OneId(t) == \A j, k \in Held(t) : t[j].id = t[k].id => j = k

LEMMA PartOneId ==
  ASSUME NEW t, OneId(t), NEW u, Held(u) \subseteq Held(t), \A k \in Held(u) : u[k] = t[k]
  PROVE  OneId(u)
  BY DEF OneId

LEMMA UpsertHolds ==
  ASSUME NEW t \in Table, OneId(t), NEW p \in PutState, p.at = "waiting",
         NEW u \in Upserts(t, p)
  PROVE  /\ u \in Table /\ OneId(u) /\ p.key \in Keys
         /\ Held(u) = Held(t) \cup {p.key}
         /\ \A k \in Held(t) \ {p.key} : u[k] = t[k]
  <1>1. p.key \in Keys /\ p.now \in Times /\ p.until \in Times \cup {Never}
    BY DEF PutState
  <1>2. PICK id \in IF t[p.key].id # 0 THEN {t[p.key].id} ELSE {n \in 1..MaxPuts : IsNewId(t, n)} :
            u = [t EXCEPT ![p.key] = [updated |-> p.now, id |-> id, until |-> p.until]]
    BY DEF Upserts
  <1>3. \A k \in Keys : t[k].id \in Nat
    BY DEF Table, MemoryRow
  <1>4. id \in Nat /\ id # 0
    BY <1>1, <1>2, <1>3, SharedOK DEF SharedOK
  <1>5. [updated |-> p.now, id |-> id, until |-> p.until] \in MemoryRow
    BY <1>1, <1>4 DEF MemoryRow
  <1>6. u \in Table
    BY <1>1, <1>2, <1>5 DEF Table
  <1>7. u[p.key].id = id /\ \A k \in Keys \ {p.key} : u[k] = t[k]
    BY <1>1, <1>2 DEF Table
  <1>8. Held(u) = Held(t) \cup {p.key}
    BY <1>1, <1>4, <1>7 DEF Held
  <1>9. \A k \in Held(t) \ {p.key} : t[k].id # id
    <2>1. CASE t[p.key].id # 0
      BY <1>1, <1>2, <2>1 DEF OneId, Held
    <2>2. CASE t[p.key].id = 0
      BY <1>2, <1>3, <1>4, <2>2 DEF IsNewId, Held
    <2> QED  BY <2>1, <2>2
  <1>10. OneId(u)
    BY <1>7, <1>8, <1>9 DEF OneId, Held
  <1> QED  BY <1>1, <1>6, <1>7, <1>8, <1>10 DEF Held

(* The three tables of a put: upserted, trimmed to the principal's quota and  *)
(* trimmed to the global one.                                                *)
Committed(w, p, t, u) ==
    /\ p = put[w] /\ p \in PutState /\ p.at = "waiting" /\ p.key \in Keys
    /\ t \in Table /\ OneId(t)
    /\ Held(t) = Held(Cleaned(rows, p.now)) \cup {p.key}
    /\ \A k \in Held(t) \ {p.key} : t[k] = rows[k]
    /\ u \in Trimmed(t, OfScope(t, p.key[1]), PrincipalLimit)
    /\ u \in Table /\ OneId(u)
    /\ rows' \in Trimmed(u, Held(u), GlobalLimit)

LEMMA CommitSteps ==
  ASSUME SmTyped, NEW w \in Putters, CommitPut(w)
  PROVE  \E t, u : Committed(w, put[w], t, u)
  <1> DEFINE p == put[w]
             old == Cleaned(rows, p.now)
  <1>1. p \in PutState /\ p.at = "waiting" /\ rows \in Table /\ OneId(rows)
    BY DEF SmTyped, SharedTypeOK, CommitPut, Table, OneId
  <1>2. /\ old \in Table /\ Held(old) \subseteq Held(rows)
        /\ \A k \in Held(old) : old[k] = rows[k]
    BY <1>1, CleanedHolds
  <1>3. OneId(old)
    BY <1>1, <1>2, PartOneId
  <1>4. PICK t \in Upserts(old, p) : rows' \in WithinQuotas(t, p.key[1])
    BY DEF CommitPut
  <1> HIDE DEF old, p
  <1>5. /\ t \in Table /\ OneId(t) /\ p.key \in Keys
        /\ Held(t) = Held(old) \cup {p.key}
        /\ \A k \in Held(old) \ {p.key} : t[k] = old[k]
    BY <1>1, <1>2, <1>3, UpsertHolds
  <1>6. PICK u \in Trimmed(t, OfScope(t, p.key[1]), PrincipalLimit) :
            rows' \in Trimmed(u, Held(u), GlobalLimit)
    BY <1>4 DEF WithinQuotas
  <1>7. OfScope(t, p.key[1]) \in SUBSET Held(t) /\ PrincipalLimit \in Nat
    BY <1>5, ScopeOf, SharedOK DEF SharedOK
  <1>8. u \in Table /\ Held(u) \subseteq Held(t) /\ \A k \in Held(u) : u[k] = t[k]
    <2> DEFINE among == OfScope(t, p.key[1])
    <2>1. among \in SUBSET Held(t) /\ u \in Trimmed(t, among, PrincipalLimit)
      BY <1>6, <1>7
    <2> HIDE DEF among
    <2> QED  BY <1>5, <1>7, <2>1, TrimmedHolds
  <1>9. OneId(u)
    BY <1>5, <1>8, PartOneId
  <1>10. \A k \in Held(t) \ {p.key} : t[k] = rows[k]
    BY <1>2, <1>5
  <1> QED  BY <1>1, <1>5, <1>6, <1>8, <1>9, <1>10 DEF Committed, old, p

(* What a put leaves of the three tables.                                    *)
LEMMA CommittedHolds ==
  ASSUME NEW w, NEW p, NEW t, NEW u, Committed(w, p, t, u)
  PROVE  /\ rows' \in Table /\ OneId(rows')
         /\ Held(rows') \subseteq Held(u) /\ Held(u) \subseteq Held(t)
         /\ \A k \in Held(rows') : rows'[k] = t[k]
         /\ \A k \in Held(u) : u[k] = t[k]
         /\ Cardinality(Held(rows')) <= GlobalLimit
         /\ Cardinality(Held(u) \cap OfScope(t, p.key[1])) <= PrincipalLimit
  <1>1. OfScope(t, p.key[1]) \in SUBSET Held(t) /\ PrincipalLimit \in Nat /\ GlobalLimit \in Nat
    BY ScopeOf, SharedOK DEF SharedOK, Committed
  <1> DEFINE among == OfScope(t, p.key[1])
             all   == Held(u)
  <1>a. t \in Table /\ u \in Table /\ OneId(u)
    BY DEF Committed
  <1>b. u \in Trimmed(t, among, PrincipalLimit) /\ rows' \in Trimmed(u, all, GlobalLimit)
    BY DEF Committed
  <1>c. among \in SUBSET Held(t) /\ all \in SUBSET Held(u)
    BY <1>1
  <1> HIDE DEF among, all
  <1>2. /\ Held(u) \subseteq Held(t) /\ \A k \in Held(u) : u[k] = t[k]
        /\ Cardinality(Held(u) \cap among) <= PrincipalLimit
    BY <1>1, <1>a, <1>b, <1>c, TrimmedHolds
  <1>3. /\ rows' \in Table /\ Held(rows') \subseteq Held(u)
        /\ \A k \in Held(rows') : rows'[k] = u[k]
        /\ Cardinality(Held(rows') \cap all) <= GlobalLimit
    BY <1>1, <1>a, <1>b, <1>c, TrimmedHolds
  <1>4. Held(rows') \cap all = Held(rows')
    BY <1>3 DEF all
  <1>5. OneId(rows')
    BY <1>3, <1>a, PartOneId
  <1>6. \A k \in Held(rows') : rows'[k] = t[k]
    BY <1>2, <1>3
  <1> QED  BY <1>2, <1>3, <1>4, <1>5, <1>6 DEF among

LEMMA SharedStepTyped ==
  ASSUME SmTyped, [SharedNext]_smVars
  PROVE  SmTyped'
  <1>a. rows \in Table /\ OneId(rows) /\ time \in Nat
    BY SharedOK DEF SharedOK, SmTyped, SharedTypeOK, Table, OneId, Times
  <1>b. NoPut \in PutState /\ NoPut.now = 0
    BY DEF NoPut, PutState, Never
  <1>c. \A w \in Putters : put[w].now \in Nat
    BY SharedOK DEF SharedOK, SmTyped, SharedTypeOK, PutState, Times
  <1>1. CASE TimePasses
    BY <1>1, <1>a, <1>c, SharedOK
    DEF SharedOK, TimePasses, SmTyped, SharedTypeOK, ReadBefore, Times, Held
  <1>2. ASSUME NEW w \in Putters, NEW k \in Keys, NEW until \in Times \cup {Never},
               BeginPut(w, k, until)
        PROVE  SmTyped'
    <2>1. [at |-> "waiting", key |-> k, now |-> time, until |-> until] \in PutState
      BY DEF PutState, SmTyped, SharedTypeOK
    <2>2. put' \in [Putters -> PutState]
      BY <1>2, <2>1 DEF BeginPut, SmTyped, SharedTypeOK
    <2>3. ReadBefore'
      BY <1>2, <1>a DEF BeginPut, SmTyped, SharedTypeOK, ReadBefore
    <2> QED  BY <1>2, <2>2, <2>3 DEF BeginPut, SmTyped, SharedTypeOK, Held
  <1>3. ASSUME NEW w \in Putters, CommitPut(w)
        PROVE  SmTyped'
    <2>1. rows' \in Table /\ OneId(rows')
      BY <1>3, CommitSteps, CommittedHolds
    <2>2. put' \in [Putters -> PutState] /\ ReadBefore'
      BY <1>3, <1>a, <1>b DEF CommitPut, SmTyped, SharedTypeOK, ReadBefore
    <2>3. puts' \in 0..MaxPuts
      BY <1>3, SharedOK DEF SharedOK, CommitPut, SmTyped, SharedTypeOK
    <2> QED
      BY <1>3, <2>1, <2>2, <2>3
      DEF CommitPut, SmTyped, SharedTypeOK, Table, OneId, Held
  <1>4. ASSUME NEW w \in Putters, PutFails(w)
        PROVE  SmTyped'
    BY <1>4, <1>a, <1>b DEF PutFails, SmTyped, SharedTypeOK, ReadBefore, Held
  <1>5. ASSUME NEW k \in Keys, DeleteMemory(k)
        PROVE  SmTyped'
    <2>1. rows' \in Table /\ OneId(rows')
      BY <1>5, <1>a, WithoutHolds, PartOneId DEF DeleteMemory
    <2> QED
      BY <1>5, <2>1 DEF DeleteMemory, SmTyped, SharedTypeOK, ReadBefore, Table, OneId, Held
  <1>6. CASE PruneShared
    <2>1. PICK t \in {Cleaned(rows, time)} : rows' \in Trimmed(t, Held(t), GlobalLimit)
      BY <1>6 DEF PruneShared
    <2>2. t \in Table /\ OneId(t)
      BY <1>a, <2>1, CleanedHolds, PartOneId
    <2>3. rows' \in Table /\ Held(rows') \subseteq Held(t) /\ \A k \in Held(rows') : rows'[k] = t[k]
      BY <2>1, <2>2, TrimmedHolds, SharedOK DEF SharedOK
    <2>4. OneId(rows')
      BY <2>2, <2>3, PartOneId
    <2> QED
      BY <1>6, <2>3, <2>4
      DEF PruneShared, SmTyped, SharedTypeOK, ReadBefore, Table, OneId, Held
  <1>7. CASE UNCHANGED smVars
    BY <1>7 DEF smVars, SmTyped, SharedTypeOK, ReadBefore, Held
  <1> QED  BY <1>1, <1>2, <1>3, <1>4, <1>5, <1>6, <1>7 DEF SharedNext

(* The types of the store of shared memories; a rowid names one row.          *)
THEOREM SharedTypeCorrect == SharedSpec => []SharedTypeOK
  <1>1. SmTyped => SharedTypeOK
    BY DEF SmTyped
  <1> QED  BY <1>1, SharedInitTyped, SharedStepTyped, PTL DEF SharedSpec

----------------------------------------------------------------------------
(* Fewer rows stay within the quotas.                                        *)
LEMMA FewerWithinQuotas ==
  ASSUME QuotasHold, NEW t, Held(t) \subseteq Held(rows)
  PROVE  /\ Cardinality(Held(t)) <= GlobalLimit
         /\ \A s \in Principals : Cardinality(OfScope(t, s)) <= PrincipalLimit
  <1>1. /\ IsFiniteSet(Held(rows)) /\ Cardinality(Held(rows)) \in Nat
        /\ Cardinality(Held(t)) \in Nat
    BY HeldFinite DEF Held
  <1>2. Cardinality(Held(t)) <= Cardinality(Held(rows))
    BY <1>1, FS_Subset
  <1>3. ASSUME NEW s \in Principals
        PROVE  Cardinality(OfScope(t, s)) <= PrincipalLimit
    <2>1. OfScope(t, s) \subseteq OfScope(rows, s)
      BY DEF OfScope
    <2>2. /\ IsFiniteSet(OfScope(rows, s)) /\ Cardinality(OfScope(rows, s)) \in Nat
          /\ Cardinality(OfScope(t, s)) \in Nat
      BY HeldFinite DEF OfScope, Held
    <2>3. Cardinality(OfScope(t, s)) <= Cardinality(OfScope(rows, s))
      BY <2>1, <2>2, FS_Subset
    <2> QED  BY <2>2, <2>3, SharedOK DEF SharedOK, QuotasHold
  <1> QED  BY <1>1, <1>2, <1>3, SharedOK DEF SharedOK, QuotasHold

LEMMA CommitWithinQuotas ==
  ASSUME SmTyped, QuotasHold, NEW w \in Putters, CommitPut(w)
  PROVE  QuotasHold'
  <1>1. PICK t, u : Committed(w, put[w], t, u)
    BY CommitSteps
  <1> DEFINE p == put[w]
  <1>2. /\ Held(rows') \subseteq Held(u) /\ Held(u) \subseteq Held(t)
        /\ Cardinality(Held(rows')) <= GlobalLimit
        /\ Cardinality(Held(u) \cap OfScope(t, p.key[1])) <= PrincipalLimit
    BY <1>1, CommittedHolds
  <1>3. Held(t) \subseteq Held(rows) \cup {p.key}
    <2>1. Held(Cleaned(rows, p.now)) \subseteq Held(rows)
      BY CleanedHolds DEF SmTyped, SharedTypeOK, Table
    <2> QED  BY <1>1, <2>1 DEF Committed
  <1>4. ASSUME NEW s \in Principals
        PROVE  Cardinality(OfScope(rows', s)) <= PrincipalLimit
    <2>1. /\ IsFiniteSet(OfScope(rows, s)) /\ IsFiniteSet(Held(u) \cap OfScope(t, p.key[1]))
          /\ Cardinality(OfScope(rows, s)) \in Nat
          /\ Cardinality(OfScope(rows', s)) \in Nat
          /\ Cardinality(Held(u) \cap OfScope(t, p.key[1])) \in Nat
      BY HeldFinite DEF OfScope, Held
    <2>2. CASE s = p.key[1]
      <3>1. OfScope(rows', s) \subseteq Held(u) \cap OfScope(t, p.key[1])
        BY <1>2, <2>2 DEF OfScope
      <3> QED  BY <1>2, <2>1, <3>1, FS_Subset, SharedOK DEF SharedOK
    <2>3. CASE s # p.key[1]
      <3>1. OfScope(rows', s) \subseteq OfScope(rows, s)
        BY <1>2, <1>3, <2>3 DEF OfScope
      <3> QED  BY <2>1, <3>1, FS_Subset, SharedOK DEF SharedOK, QuotasHold
    <2> QED  BY <2>2, <2>3
  <1> QED  BY <1>2, <1>4 DEF QuotasHold

LEMMA QuotasInit == ASSUME SharedInit PROVE QuotasHold
  <1>1. Held(rows) = {} /\ \A s \in Principals : OfScope(rows, s) = {}
    BY DEF SharedInit, Held, OfScope, NoRow
  <1> QED  BY <1>1, FS_EmptySet, SharedOK DEF SharedOK, QuotasHold

LEMMA QuotasStep ==
  ASSUME SmTyped, QuotasHold, [SharedNext]_smVars
  PROVE  QuotasHold'
  <1>a. rows \in Table
    BY DEF SmTyped, SharedTypeOK, Table
  <1>1. CASE rows' = rows
    BY <1>1 DEF QuotasHold, OfScope, Held
  <1>2. ASSUME NEW w \in Putters, CommitPut(w)
        PROVE  QuotasHold'
    BY <1>2, CommitWithinQuotas
  <1>3. CASE Held(rows') \subseteq Held(rows)
    BY <1>3, FewerWithinQuotas DEF QuotasHold
  <1>4. ASSUME NEW k \in Keys, DeleteMemory(k)
        PROVE  Held(rows') \subseteq Held(rows)
    BY <1>4, <1>a, WithoutHolds DEF DeleteMemory
  <1>5. CASE PruneShared
    <2>1. PICK t \in {Cleaned(rows, time)} : rows' \in Trimmed(t, Held(t), GlobalLimit)
      BY <1>5 DEF PruneShared
    <2>2. t \in Table /\ Held(t) \subseteq Held(rows)
      BY <1>a, <2>1, CleanedHolds
    <2>3. Held(rows') \subseteq Held(t)
      BY <2>1, <2>2, TrimmedHolds, SharedOK DEF SharedOK
    <2> QED  BY <1>3, <2>2, <2>3
  <1>6. \/ rows' = rows \/ PruneShared
        \/ \E w \in Putters : CommitPut(w)
        \/ \E k \in Keys : DeleteMemory(k)
    BY DEF SharedNext, TimePasses, BeginPut, PutFails, smVars
  <1> QED  BY <1>1, <1>2, <1>3, <1>4, <1>5, <1>6

(* Whatever puts, deletions and clean-ups interleave, no principal is over    *)
(* its quota and the store is not over the global one.                       *)
THEOREM SharedQuotasHold == SharedSpec => []QuotasHold
  BY SharedInitTyped, SharedStepTyped, QuotasInit, QuotasStep, PTL DEF SharedSpec

----------------------------------------------------------------------------
(* A row that a put drops has expired, or gives way to fresher ones.  The row *)
(* that is put cannot be the one to go when it was there before: the table is *)
(* then no longer than it was, and it was within the quotas.                  *)
GivesWay(k) ==
    \/ rows[k].until <= time
    \/ puts' = puts /\ Held(rows)' = Held(rows) \ {k}
    \/ Cardinality(Fresher(k, OfScope(rows, k[1])')) >= PrincipalLimit
    \/ Cardinality(Fresher(k, Held(rows)')) >= GlobalLimit

LEMMA StalenessOrders ==
  ASSUME NEW t \in Table, NEW i \in Keys, NEW j \in Keys, StaleThan(t, i, j)
  PROVE  t[i].updated \in Nat /\ t[j].updated \in Nat /\ t[i].updated <= t[j].updated
  BY SharedOK DEF SharedOK, StaleThan, Table, MemoryRow, Times

(* The global quota drops k from u: all that are left are fresher.            *)
LEMMA GloballyTrimmed ==
  ASSUME NEW u \in Table, rows' \in Trimmed(u, Held(u), GlobalLimit),
         NEW k \in Held(u) \ Held(rows')
  PROVE  /\ Cardinality(Held(rows')) = GlobalLimit
         /\ Cardinality(Held(u)) > GlobalLimit
         /\ \A i \in Held(rows') : rows'[i].updated \in Nat /\ u[k].updated \in Nat
                                      /\ rows'[i].updated >= u[k].updated
  <1>1. GlobalLimit \in Nat
    BY SharedOK DEF SharedOK
  <1>2. /\ Held(rows') \subseteq Held(u)
        /\ \A i \in Held(rows') : rows'[i] = u[i]
        /\ Cardinality(Held(u)) <= GlobalLimit => Held(rows') = Held(u)
        /\ Cardinality(Held(rows') \cap Held(u)) = GlobalLimit
        /\ \A i \in Held(rows') \cap Held(u) : StaleThan(u, k, i)
    BY <1>1, TrimmedHolds
  <1>3. Held(rows') \cap Held(u) = Held(rows')
    BY <1>2
  <1>4. Cardinality(Held(u)) \in Nat
    BY HeldFinite DEF Held
  <1>5. Held(u) \subseteq Keys
    BY DEF Held
  <1> QED  BY <1>1, <1>2, <1>3, <1>4, <1>5, StalenessOrders

LEMMA CommitGivesWay ==
  ASSUME SmTyped, QuotasHold, NEW w \in Putters, CommitPut(w),
         NEW k \in Held(rows) \ Held(rows')
  PROVE  GivesWay(k)
  <1>1. PICK t, u : Committed(w, put[w], t, u)
    BY CommitSteps
  <1> DEFINE p == put[w]
             among == OfScope(t, p.key[1])
  <1>2. /\ p \in PutState /\ p.key \in Keys
        /\ t \in Table /\ u \in Table
        /\ Held(t) = Held(Cleaned(rows, p.now)) \cup {p.key}
        /\ \A j \in Held(t) \ {p.key} : t[j] = rows[j]
        /\ u \in Trimmed(t, among, PrincipalLimit)
        /\ rows' \in Trimmed(u, Held(u), GlobalLimit)
    BY <1>1 DEF Committed
  <1>3. /\ Held(rows') \subseteq Held(u) /\ Held(u) \subseteq Held(t)
        /\ \A j \in Held(rows') : rows'[j] = t[j]
        /\ \A j \in Held(u) : u[j] = t[j]
    BY <1>1, CommittedHolds
  <1>4. rows \in Table /\ k \in Keys /\ PrincipalLimit \in Nat /\ GlobalLimit \in Nat
    BY SharedOK DEF SharedOK, SmTyped, SharedTypeOK, Table, Held
  <1>5. /\ among \in SUBSET Held(t) /\ Held(t) \subseteq Keys
        /\ Held(u) \subseteq Keys /\ Held(rows') \subseteq Keys
    BY DEF OfScope, Held
  <1>6. CASE k \notin Held(Cleaned(rows, p.now))
    <2>1. rows[k].until <= p.now
      BY <1>4, <1>6, CleanedHolds
    <2>2. p.now <= time
      BY DEF SmTyped, ReadBefore
    <2>a. p.now \in Int /\ time \in Int
      BY <1>2, SharedOK DEF SharedOK, SmTyped, SharedTypeOK, PutState, Times
    <2>b. rows[k].until \in Int
      <3>1. rows[k].until \in Times \cup {Never}
        BY <1>4 DEF Table, MemoryRow
      <3> QED  BY <3>1, SharedOK DEF SharedOK, Times, Never
    <2>c. rows[k].until <= time
      BY <2>1, <2>2, <2>a, <2>b
    <2> QED  BY <2>c DEF GivesWay
  <1>7. CASE k \in Held(Cleaned(rows, p.now))
    <2>1. k \in Held(t) /\ Held(Cleaned(rows, p.now)) \subseteq Held(rows)
      BY <1>2, <1>4, <1>7, CleanedHolds
    <2>2. p.key \in Held(rows) => Held(t) \subseteq Held(rows)
      BY <1>2, <2>1
    <2>3. p.key \in Held(rows) =>
              Cardinality(among) <= PrincipalLimit \/ p.key[1] \notin Principals
      BY <2>2, FewerWithinQuotas
    <2>4. p.key[1] \in Principals
      BY <1>2 DEF Keys
    <2>5. CASE k \in Held(u)
      <3>1. /\ Cardinality(Held(rows')) = GlobalLimit
            /\ Cardinality(Held(u)) > GlobalLimit
            /\ \A i \in Held(rows') : rows'[i].updated >= u[k].updated
        BY <1>2, <2>5, GloballyTrimmed
      <3>2. p.key \notin Held(rows)
        <4>1. Cardinality(Held(u)) \in Nat
          BY HeldFinite DEF Held
        <4> QED  BY <1>3, <1>4, <2>2, <3>1, <4>1, FewerWithinQuotas
      <3>3. u[k] = rows[k]
        BY <1>2, <1>3, <2>1, <2>5, <3>2
      <3>4. Fresher(k, Held(rows')) = Held(rows')
        BY <3>1, <3>3 DEF Fresher
      <3> QED  BY <1>4, <3>1, <3>4 DEF GivesWay
    <2>6. CASE k \notin Held(u)
      <3> HIDE DEF among
      <3>1. /\ Held(t) \ among \subseteq Held(u)
            /\ Cardinality(among) <= PrincipalLimit => Held(u) = Held(t)
            /\ Cardinality(Held(u) \cap among) = PrincipalLimit
            /\ \A j \in Held(u) \cap among : StaleThan(t, k, j)
        <4>1. /\ t \in Table /\ among \in SUBSET Held(t) /\ PrincipalLimit \in Nat
              /\ u \in Trimmed(t, among, PrincipalLimit) /\ k \in Held(t) \ Held(u)
          BY <1>2, <1>4, <1>5, <2>1, <2>6
        <4> QED  BY <4>1, TrimmedHolds
      <3>2. p.key \notin Held(rows)
        BY <2>1, <2>3, <2>4, <2>6, <3>1
      <3>3. t[k] = rows[k] /\ k \in among
        BY <1>2, <2>1, <2>6, <3>1, <3>2
      <3>4. k[1] = p.key[1]
        BY <3>3 DEF among, OfScope
      <3>5. \A j \in Held(u) \cap among :
                t[k].updated \in Nat /\ t[j].updated \in Nat /\ t[k].updated <= t[j].updated
        BY <1>2, <1>4, <1>5, <3>1, StalenessOrders
      <3>6. CASE Held(u) \cap among \subseteq Held(rows')
        <4>1. Held(u) \cap among \subseteq Fresher(k, OfScope(rows', k[1]))
          BY <1>3, <3>3, <3>4, <3>5, <3>6 DEF Fresher, OfScope, among
        <4>2. /\ IsFiniteSet(Fresher(k, OfScope(rows', k[1])))
              /\ Cardinality(Fresher(k, OfScope(rows', k[1]))) \in Nat
          BY HeldFinite DEF Fresher, OfScope, Held
        <4>3. Cardinality(Held(u) \cap among) <= Cardinality(Fresher(k, OfScope(rows', k[1])))
          BY <4>1, <4>2, FS_Subset
        <4> QED  BY <1>4, <3>1, <4>2, <4>3 DEF GivesWay
      <3>7. ASSUME NEW j \in (Held(u) \cap among) \ Held(rows')
            PROVE  GivesWay(k)
        <4>1. /\ Cardinality(Held(rows')) = GlobalLimit
              /\ \A i \in Held(rows') : rows'[i].updated \in Nat
                                          /\ rows'[i].updated >= u[j].updated
          BY <1>2, GloballyTrimmed
        <4>2. \A i \in Held(rows') : rows'[i].updated >= rows[k].updated
          BY <1>3, <3>3, <3>5, <4>1
        <4>3. Fresher(k, Held(rows')) = Held(rows')
          BY <4>2 DEF Fresher
        <4> QED  BY <1>4, <4>1, <4>3 DEF GivesWay
      <3> QED  BY <3>6, <3>7
    <2> QED  BY <2>5, <2>6
  <1> QED  BY <1>6, <1>7

LEMMA EvictionStep ==
  ASSUME SmTyped, QuotasHold, [SharedNext]_smVars, NEW k \in Held(rows) \ Held(rows')
  PROVE  GivesWay(k)
  <1>a. rows \in Table
    BY DEF SmTyped, SharedTypeOK, Table
  <1>1. rows' # rows
    OBVIOUS
  <1>2. ASSUME NEW j \in Keys, DeleteMemory(j)
        PROVE  GivesWay(k)
    <2>1. Held(rows') = Held(rows) \ {j} /\ puts' = puts
      BY <1>2, <1>a, WithoutHolds DEF DeleteMemory
    <2> QED  BY <2>1 DEF GivesWay
  <1>3. CASE PruneShared
    <2>1. PICK t \in {Cleaned(rows, time)} : rows' \in Trimmed(t, Held(t), GlobalLimit)
      BY <1>3 DEF PruneShared
    <2>2. t \in Table /\ Held(t) \subseteq Held(rows)
      BY <1>a, <2>1, CleanedHolds
    <2>3. Cardinality(Held(t)) <= GlobalLimit
      BY <2>2, FewerWithinQuotas
    <2>4. Held(rows') = Held(t)
      BY <2>1, <2>2, <2>3, TrimmedHolds, SharedOK DEF SharedOK
    <2> QED  BY <1>a, <2>1, <2>4, CleanedHolds DEF GivesWay
  <1>4. PruneShared \/ (\E w \in Putters : CommitPut(w)) \/ \E j \in Keys : DeleteMemory(j)
    BY <1>1 DEF SharedNext, TimePasses, BeginPut, PutFails, smVars
  <1> QED  BY <1>2, <1>3, <1>4, CommitGivesWay

(* A memory that is neither expired nor deleted by its owner goes only for    *)
(* fresher ones that fill its principal's quota or the store.                *)
THEOREM SharedEvictsForFresher == SharedSpec => EvictedForFresher
  <1>1. SmTyped /\ QuotasHold /\ [SharedNext]_smVars
            => [\A k \in Held(rows) \ Held(rows)' :
                    \/ rows[k].until <= time
                    \/ puts' = puts /\ Held(rows)' = Held(rows) \ {k}
                    \/ Cardinality(Fresher(k, OfScope(rows, k[1])')) >= PrincipalLimit
                    \/ Cardinality(Fresher(k, Held(rows)')) >= GlobalLimit]_smVars
    BY EvictionStep DEF GivesWay
  <1> QED
    BY <1>1, SharedInitTyped, SharedStepTyped, QuotasInit, QuotasStep, PTL
    DEF SharedSpec, EvictedForFresher
----------------------------------------------------------------------------
(* The messages of a conversation.  What is listed was stored.               *)
Listers == {w \in Appenders : append[w].at = "listed"}
CvTyped == ConversationTypeOK /\ \A w \in Appenders : append[w].ids \subseteq stored

LEMMA StoredFinite == ASSUME NEW S, S \subseteq Messages
                      PROVE  IsFiniteSet(S) /\ Cardinality(S) \in Nat
  <1>1. IsFiniteSet(Stamps) /\ IsFiniteSet(1..MaxMessages)
    BY ConversationOK, FS_Interval DEF ConversationOK, Stamps
  <1>2. IsFiniteSet(Messages)
    BY <1>1, FS_Product DEF Messages
  <1> QED  BY <1>2, FS_Subset, FS_CardinalityType

LEMMA AppendersFinite == ASSUME NEW S, S \subseteq Appenders
                         PROVE  IsFiniteSet(S) /\ Cardinality(S) \in Nat
  BY ConversationOK, FS_Subset, FS_CardinalityType DEF ConversationOK

LEMMA ConversationInitTyped == ASSUME ConversationInit PROVE CvTyped
  BY ConversationOK
  DEF ConversationOK, ConversationInit, CvTyped, ConversationTypeOK, NoAppend, AppendState,
      Stamps

LEMMA CommitTyped ==
  ASSUME CvTyped, NEW w \in Appenders, Commit(w)
  PROVE  /\ CvTyped'
         /\ \E m \in Messages : msgs' = msgs \cup {m} /\ stored' = stored \cup {m}
  <1> DEFINE m == <<append[w].stamp, NextRow>>
  <1>1. NextRow \in 1..MaxMessages
    BY StoredFinite, ConversationOK
    DEF ConversationOK, CvTyped, ConversationTypeOK, NextRow, Commit
  <1>2. m \in Messages
    BY <1>1 DEF Messages, CvTyped, ConversationTypeOK, AppendState
  <1>3. msgs' = msgs \cup {m} /\ stored' = stored \cup {m}
    BY DEF Commit
  <1>4. append' \in [Appenders -> AppendState]
        /\ \A v \in Appenders : append'[v].ids = append[v].ids
    BY DEF Commit, CvTyped, ConversationTypeOK, AppendState
  <1> QED  BY <1>2, <1>3, <1>4 DEF Commit, CvTyped, ConversationTypeOK

LEMMA ConversationStepTyped ==
  ASSUME CvTyped, [ConversationNext]_cvVars
  PROVE  CvTyped'
  <1> USE DEF CvTyped, ConversationTypeOK
  <1>0. NoAppend \in AppendState /\ NoAppend.ids = {}
    BY ConversationOK DEF ConversationOK, NoAppend, AppendState, Stamps
  <1>1. CASE ClockTicks
    BY <1>1, ConversationOK DEF ConversationOK, ClockTicks, Stamps
  <1>2. ASSUME NEW w \in Appenders, Stamp(w)
        PROVE  CvTyped'
    BY <1>2 DEF Stamp, AppendState
  <1>3. ASSUME NEW w \in Appenders, ListExcess(w)
        PROVE  CvTyped'
    <2>1. PICK keep \in Keeps :
              append' = [append EXCEPT ![w].at = "listed", ![w].ids = msgs \ keep]
      BY <1>3 DEF ListExcess
    <2>2. msgs \ keep \subseteq stored /\ msgs \ keep \subseteq Messages
      OBVIOUS
    <2>3. append' \in [Appenders -> AppendState]
          /\ \A v \in Appenders : append'[v].ids \subseteq stored
      BY <2>1, <2>2 DEF AppendState
    <2> QED  BY <1>3, <2>3 DEF ListExcess
  <1>4. ASSUME NEW w \in Appenders, WithinLimit(w) \/ DeleteExcess(w) \/ AppendDies(w)
        PROVE  CvTyped'
    BY <1>0, <1>4 DEF WithinLimit, DeleteExcess, AppendDies
  <1>5. ASSUME NEW cutoff \in Stamps, Prune(cutoff)
        PROVE  CvTyped'
    BY <1>5 DEF Prune
  <1>6. CASE DeleteConversation
    BY <1>6 DEF DeleteConversation
  <1>7. CASE UNCHANGED cvVars
    BY <1>7 DEF cvVars
  <1> QED
    BY <1>1, <1>2, <1>3, <1>4, <1>5, <1>6, <1>7, CommitTyped DEF ConversationNext

(* The types of a conversation.                                              *)
THEOREM ConversationTypeCorrect == ConversationSpec => []ConversationTypeOK
  <1>1. CvTyped => ConversationTypeOK
    BY DEF CvTyped
  <1> QED
    BY <1>1, ConversationInitTyped, ConversationStepTyped, PTL DEF ConversationSpec

----------------------------------------------------------------------------
(* Why the newest stay: whatever is on a list was overtaken by MessageLimit    *)
(* messages when the list was made, and messages only become more.           *)
Overtaken(m)  == Cardinality({n \in stored : Older(m, n)}) >= MessageLimit
ListsAreOld   == \A w \in Listers : \A m \in append[w].ids : Overtaken(m)

LEMMA OvertakenStays ==
  ASSUME CvTyped, CvTyped', stored \subseteq stored', NEW m, Overtaken(m)
  PROVE  Overtaken(m)'
  <1> DEFINE newer == {n \in stored : Older(m, n)}
             newer2 == {n \in stored' : Older(m, n)}
  <1>1. stored' \subseteq Messages /\ stored \subseteq Messages
    BY DEF CvTyped, ConversationTypeOK, Messages
  <1>2. newer \subseteq newer2 /\ newer2 \subseteq Messages /\ newer \subseteq Messages
    BY <1>1
  <1>3. Cardinality(newer) <= Cardinality(newer2)
    BY <1>2, StoredFinite, FS_Subset
  <1>4. Cardinality(newer) \in Nat /\ Cardinality(newer2) \in Nat
    BY <1>2, StoredFinite
  <1>5. Overtaken(m) <=> Cardinality(newer) >= MessageLimit
    BY DEF Overtaken
  <1>6. Overtaken(m)' <=> Cardinality(newer2) >= MessageLimit
    BY DEF Overtaken, Older
  <1> HIDE DEF newer, newer2
  <1> QED  BY <1>3, <1>4, <1>5, <1>6, ConversationOK DEF ConversationOK

LEMMA ListExcessIsOld ==
  ASSUME CvTyped, NEW w \in Appenders, ListExcess(w)
  PROVE  \E keep \in SUBSET msgs :
            /\ append' = [append EXCEPT ![w].at = "listed", ![w].ids = msgs \ keep]
            /\ Cardinality(keep) = MessageLimit
            /\ \A m \in msgs \ keep : Overtaken(m)
  <1>1. PICK keep \in Keeps :
            append' = [append EXCEPT ![w].at = "listed", ![w].ids = msgs \ keep]
    BY DEF ListExcess
  <1>2. /\ keep \subseteq msgs /\ Cardinality(keep) = MessageLimit
        /\ \A m \in keep, n \in msgs \ keep : Older(n, m)
    BY DEF Keeps
  <1>3. ASSUME NEW m \in msgs \ keep
        PROVE  Overtaken(m)
    <2> DEFINE newer == {n \in stored : Older(m, n)}
    <2>1. keep \subseteq newer /\ newer \subseteq Messages
      BY <1>2 DEF CvTyped, ConversationTypeOK
    <2>2. Cardinality(keep) <= Cardinality(newer)
      BY <2>1, StoredFinite, FS_Subset
    <2> QED  BY <1>2, <2>2 DEF Overtaken
  <1> QED  BY <1>1, <1>2, <1>3

(* A list that is not being made now is the list that was there.              *)
LEMMA ListingKept ==
  ASSUME CvTyped, [ConversationNext]_cvVars, NEW w \in Appenders, w \in Listers',
         ~ListExcess(w)
  PROVE  append[w].at = "listed" /\ append'[w] = append[w]
  <1>1. append'[w].at = "listed"
    BY DEF Listers
  <1>2. ASSUME NEW v \in Appenders, Stamp(v)
        PROVE  append'[w] = append[w]
    BY <1>1, <1>2 DEF Stamp, CvTyped, ConversationTypeOK
  <1>3. ASSUME NEW v \in Appenders, Commit(v)
        PROVE  append'[w] = append[w]
    BY <1>1, <1>3 DEF Commit, CvTyped, ConversationTypeOK, AppendState
  <1>4. ASSUME NEW v \in Appenders, ListExcess(v)
        PROVE  append'[w] = append[w]
    BY <1>4 DEF ListExcess, CvTyped, ConversationTypeOK
  <1>5. ASSUME NEW v \in Appenders, WithinLimit(v) \/ DeleteExcess(v) \/ AppendDies(v)
        PROVE  append'[w] = append[w]
    BY <1>1, <1>5
    DEF WithinLimit, DeleteExcess, AppendDies, NoAppend, CvTyped, ConversationTypeOK
  <1>6. ASSUME NEW cutoff \in Stamps, Prune(cutoff)
        PROVE  append' = append
    BY <1>6 DEF Prune
  <1>7. CASE ClockTicks \/ DeleteConversation \/ UNCHANGED cvVars
    BY <1>1, <1>7 DEF ClockTicks, DeleteConversation, cvVars
  <1> QED  BY <1>1, <1>2, <1>3, <1>4, <1>5, <1>6, <1>7 DEF ConversationNext

LEMMA KeptStep ==
  ASSUME CvTyped, CvTyped', ListsAreOld, NewestKept, [ConversationNext]_cvVars
  PROVE  ListsAreOld' /\ NewestKept'
  <1> DEFINE gone == stored \ (purged \cup msgs)
  <1>1. NewestKept <=> \A m \in gone : Overtaken(m)
    BY DEF NewestKept, Overtaken
  <1>2. NewestKept' <=> \A m \in gone' : Overtaken(m)'
    BY DEF NewestKept, Overtaken
  <1>3. stored \subseteq stored' /\ gone' \subseteq gone \cup UNION {append[w].ids : w \in Listers}
    <2>1. ASSUME NEW w \in Appenders, Commit(w)
          PROVE  stored \subseteq stored' /\ gone' \subseteq gone
      BY <2>1, CommitTyped DEF Commit
    <2>2. ASSUME NEW w \in Appenders, DeleteExcess(w)
          PROVE  stored' = stored /\ gone' \subseteq gone \cup append[w].ids /\ w \in Listers
      BY <2>2 DEF DeleteExcess, Listers
    <2>3. ASSUME NEW w \in Appenders,
                 Stamp(w) \/ ListExcess(w) \/ WithinLimit(w) \/ AppendDies(w)
          PROVE  stored' = stored /\ gone' = gone
      BY <2>3 DEF Stamp, ListExcess, WithinLimit, AppendDies
    <2>4. ASSUME NEW cutoff \in Stamps, Prune(cutoff)
          PROVE  stored' = stored /\ gone' \subseteq gone
      BY <2>4 DEF Prune
    <2>5. CASE ClockTicks \/ DeleteConversation \/ UNCHANGED cvVars
      BY <2>5 DEF ClockTicks, DeleteConversation, cvVars
    <2> QED  BY <2>1, <2>2, <2>3, <2>4, <2>5 DEF ConversationNext
  <1>4. ASSUME NEW m \in gone'
        PROVE  Overtaken(m)'
    <2>1. Overtaken(m)
      BY <1>1, <1>3, <1>4 DEF ListsAreOld
    <2> QED  BY <1>3, <2>1, OvertakenStays
  <1>5. ASSUME NEW w \in Listers', NEW m \in append'[w].ids
        PROVE  Overtaken(m)'
    <2>1. w \in Appenders
      BY DEF Listers
    <2>2. Overtaken(m)
      <3>1. CASE ListExcess(w)
        <4>1. PICK keep \in SUBSET msgs :
                  /\ append' = [append EXCEPT ![w].at = "listed", ![w].ids = msgs \ keep]
                  /\ \A n \in msgs \ keep : Overtaken(n)
          BY <2>1, <3>1, ListExcessIsOld
        <4>2. append'[w].ids = msgs \ keep
          BY <2>1, <4>1 DEF CvTyped, ConversationTypeOK, AppendState
        <4> QED  BY <4>1, <4>2
      <3>2. CASE ~ListExcess(w)
        <4>1. append[w].at = "listed" /\ append'[w] = append[w]
          BY <2>1, <3>2, ListingKept
        <4> QED  BY <2>1, <4>1 DEF ListsAreOld, Listers
      <3> QED  BY <3>1, <3>2
    <2> QED  BY <1>3, <2>2, OvertakenStays
  <1> QED  BY <1>2, <1>4, <1>5 DEF ListsAreOld

(* However the lists and deletions of several writers fall, a message that     *)
(* nobody pruned goes only when MessageLimit newer ones were stored.         *)
THEOREM ConversationKeepsNewest == ConversationSpec => []NewestKept
  <1>1. ConversationInit => ListsAreOld /\ NewestKept
    BY DEF ConversationInit, ListsAreOld, NewestKept, Listers, NoAppend
  <1> QED
    BY <1>1, ConversationInitTyped, ConversationStepTyped, KeptStep, PTL DEF ConversationSpec
----------------------------------------------------------------------------
(* Why the limit is exceeded by what is at work and no more.  The lists of     *)
(* several writers overlap, so the count is kept for every set of them:       *)
(* without what is on the lists of T, the limit is exceeded at most by the     *)
(* writers at work outside T and by those that were cut off.                  *)
OnLists(T) == UNION {append[w].ids : w \in T}
Within(T)  == Cardinality(msgs \ OnLists(T))
                 <= MessageLimit + Cardinality(AtWork \ T) + deaths
ListsCover == \A T \in SUBSET Listers : Within(T)

LEMMA CountsTyped ==
  ASSUME CvTyped
  PROVE  /\ MessageLimit \in Nat /\ deaths \in Nat
         /\ \A S \in SUBSET msgs : IsFiniteSet(S) /\ Cardinality(S) \in Nat
         /\ \A S \in SUBSET Appenders : IsFiniteSet(S) /\ Cardinality(S) \in Nat
         /\ \A S \in SUBSET msgs : \A R \in SUBSET S : Cardinality(R) <= Cardinality(S)
         /\ \A S \in SUBSET Appenders : \A R \in SUBSET S : Cardinality(R) <= Cardinality(S)
         /\ AtWork \subseteq Appenders /\ Listers \subseteq AtWork
  <1>1. msgs \subseteq Messages
    BY DEF CvTyped, ConversationTypeOK
  <1> QED
    BY <1>1, StoredFinite, AppendersFinite, FS_Subset, ConversationOK
    DEF ConversationOK, CvTyped, ConversationTypeOK, AtWork, Listers

(* Nothing is gained by a step that stores nothing and ends no writer.        *)
LEMMA FewerWithin ==
  ASSUME CvTyped, CvTyped', NEW T \in SUBSET Listers, NEW U \in SUBSET Listers', Within(T),
         msgs' \ OnLists(U)' \subseteq msgs \ OnLists(T),
         AtWork \ T \subseteq AtWork' \ U, deaths <= deaths'
  PROVE  Within(U)'
  <1>1. Cardinality(msgs' \ OnLists(U)') <= Cardinality(msgs \ OnLists(T))
    BY CountsTyped
  <1>2. Cardinality(AtWork \ T) <= Cardinality(AtWork' \ U)
    BY AppendersFinite, FS_Subset DEF AtWork
  <1>3. /\ Cardinality(msgs' \ OnLists(U)') \in Nat /\ Cardinality(msgs \ OnLists(T)) \in Nat
        /\ deaths \in Nat /\ deaths' \in Nat /\ MessageLimit \in Nat
        /\ Cardinality(AtWork \ T) \in Nat /\ Cardinality(AtWork' \ U) \in Nat
    <2>1. msgs' \subseteq Messages /\ msgs \subseteq Messages
      BY DEF CvTyped, ConversationTypeOK, Messages
    <2>2. AtWork \ T \subseteq Appenders /\ AtWork' \ U \subseteq Appenders
      BY DEF AtWork
    <2> QED
      BY <2>1, <2>2, StoredFinite, AppendersFinite, ConversationOK
      DEF ConversationOK, CvTyped, ConversationTypeOK
  <1> QED  BY <1>1, <1>2, <1>3 DEF Within, OnLists

LEMMA CommitWithin ==
  ASSUME CvTyped, CvTyped', ListsCover, NEW w \in Appenders, Commit(w),
         NEW U \in SUBSET Listers'
  PROVE  Within(U)'
  <1>1. w \notin AtWork /\ AtWork' = AtWork \cup {w} /\ Listers' = Listers
        /\ \A v \in Appenders : append'[v].ids = append[v].ids
    BY DEF Commit, AtWork, Listers, CvTyped, ConversationTypeOK, AppendState
  <1>2. U \in SUBSET Listers /\ OnLists(U)' = OnLists(U) /\ w \notin U
    BY <1>1 DEF OnLists, Listers, AtWork
  <1>3. PICK m : msgs' = msgs \cup {m}
    BY CommitTyped
  <1> DEFINE rest == msgs \ OnLists(U)
             busy == AtWork \ U
  <1>4. IsFiniteSet(rest) /\ Cardinality(rest) \in Nat
        /\ IsFiniteSet(busy) /\ Cardinality(busy) \in Nat
    BY CountsTyped
  <1>5. Cardinality(rest \cup {m}) <= Cardinality(rest) + 1
        /\ IsFiniteSet(rest \cup {m}) /\ Cardinality(rest \cup {m}) \in Nat
    <2>1. IsFiniteSet(rest \cup {m})
          /\ Cardinality(rest \cup {m}) =
                IF m \in rest THEN Cardinality(rest) ELSE Cardinality(rest) + 1
      BY <1>4, FS_AddElement
    <2> HIDE DEF rest
    <2> QED  BY <1>4, <2>1, FS_CardinalityType
  <1>6. Cardinality(msgs' \ OnLists(U)') <= Cardinality(rest \cup {m})
        /\ Cardinality(msgs' \ OnLists(U)') \in Nat
    <2>1. msgs' \ OnLists(U)' \subseteq rest \cup {m}
      BY <1>2, <1>3
    <2> QED  BY <1>5, <2>1, FS_Subset, FS_CardinalityType
  <1>7. Cardinality(AtWork' \ U) = Cardinality(busy) + 1
    <2>1. AtWork' \ U = busy \cup {w} /\ w \notin busy
      BY <1>1, <1>2
    <2> QED  BY <1>4, <2>1, FS_AddElement
  <1>8. Cardinality(rest) <= MessageLimit + Cardinality(busy) + deaths
    BY <1>2 DEF ListsCover, Within
  <1>9. deaths' = deaths /\ deaths \in Nat /\ MessageLimit \in Nat
    BY CountsTyped DEF Commit
  <1> HIDE DEF rest, busy
  <1> QED  BY <1>4, <1>5, <1>6, <1>7, <1>8, <1>9 DEF Within, OnLists

LEMMA ListExcessWithin ==
  ASSUME CvTyped, CvTyped', ListsCover, NEW w \in Appenders, ListExcess(w),
         NEW U \in SUBSET Listers'
  PROVE  Within(U)'
  <1>1. PICK keep \in SUBSET msgs :
            /\ append' = [append EXCEPT ![w].at = "listed", ![w].ids = msgs \ keep]
            /\ Cardinality(keep) = MessageLimit
    BY ListExcessIsOld
  <1>2. /\ append'[w].ids = msgs \ keep /\ append[w].at = "committed"
        /\ \A v \in Appenders \ {w} : append'[v] = append[v]
        /\ AtWork' = AtWork /\ Listers' = Listers \cup {w}
        /\ msgs' = msgs /\ deaths' = deaths
    BY <1>1 DEF ListExcess, AtWork, Listers, CvTyped, ConversationTypeOK, AppendState
  <1>3. CASE w \in U
    <2>1. msgs' \ OnLists(U)' \subseteq keep
      BY <1>2, <1>3 DEF OnLists
    <2>2. Cardinality(msgs' \ OnLists(U)') <= MessageLimit
          /\ Cardinality(msgs' \ OnLists(U)') \in Nat
      BY <1>1, <1>2, <2>1, CountsTyped
    <2>3. Cardinality(AtWork' \ U) \in Nat /\ deaths' \in Nat /\ MessageLimit \in Nat
      BY <1>2, CountsTyped
    <2> QED  BY <2>2, <2>3 DEF Within, OnLists
  <1>4. CASE w \notin U
    <2>1. U \in SUBSET Listers /\ OnLists(U)' = OnLists(U)
      BY <1>2, <1>4 DEF OnLists, Listers
    <2> QED
      BY <1>2, <2>1, FewerWithin, CountsTyped DEF ListsCover
  <1> QED  BY <1>3, <1>4

LEMMA AppendEndsWithin ==
  ASSUME CvTyped, CvTyped', ListsCover, NEW w \in Appenders,
         WithinLimit(w) \/ DeleteExcess(w) \/ AppendDies(w),
         NEW U \in SUBSET Listers'
  PROVE  Within(U)'
  <1>1. /\ AtWork' = AtWork \ {w} /\ Listers' = Listers \ {w}
        /\ \A v \in Appenders \ {w} : append'[v] = append[v]
    BY DEF WithinLimit, DeleteExcess, AppendDies, AtWork, Listers, NoAppend, CvTyped,
           ConversationTypeOK, AppendState
  <1>2. U \in SUBSET Listers /\ OnLists(U)' = OnLists(U) /\ w \notin U
    BY <1>1 DEF OnLists, Listers
  <1>3. CASE WithinLimit(w)
    <2>1. msgs' = msgs /\ Cardinality(msgs) <= MessageLimit /\ deaths' = deaths
      BY <1>3, CountsTyped DEF WithinLimit, Exceeds
    <2>2. Cardinality(msgs' \ OnLists(U)') <= MessageLimit
          /\ Cardinality(msgs' \ OnLists(U)') \in Nat
      BY <2>1, CountsTyped
    <2>3. Cardinality(AtWork' \ U) \in Nat /\ deaths' \in Nat /\ MessageLimit \in Nat
      BY <1>1, <2>1, CountsTyped
    <2> QED  BY <2>2, <2>3 DEF Within, OnLists
  <1>4. CASE DeleteExcess(w)
    <2>1. /\ w \in Listers /\ U \cup {w} \in SUBSET Listers
          /\ msgs' \ OnLists(U)' = msgs \ OnLists(U \cup {w})
          /\ AtWork \ (U \cup {w}) = AtWork' \ U /\ deaths' = deaths
      BY <1>1, <1>2, <1>4 DEF DeleteExcess, Listers, OnLists
    <2> QED  BY <2>1 DEF ListsCover, Within, OnLists
  <1>5. CASE AppendDies(w)
    <2>1. msgs' = msgs /\ deaths' = deaths + 1
      BY <1>5 DEF AppendDies
    <2> DEFINE rest == msgs \ OnLists(U)
               busy == AtWork \ U
               left == AtWork' \ U
    <2>2. Cardinality(rest) <= MessageLimit + Cardinality(busy) + deaths
      BY <1>2 DEF ListsCover, Within
    <2>3. /\ Cardinality(busy) <= Cardinality(left) + 1
          /\ Cardinality(left) \in Nat /\ Cardinality(busy) \in Nat
      <3>1. left = busy \ {w} /\ IsFiniteSet(busy)
        BY <1>1, CountsTyped
      <3> HIDE DEF busy, left
      <3>2. Cardinality(left) = IF w \in busy THEN Cardinality(busy) - 1 ELSE Cardinality(busy)
        BY <3>1, FS_RemoveElement
      <3>3. Cardinality(busy) \in Nat /\ IsFiniteSet(left)
        BY <3>1, FS_RemoveElement, FS_CardinalityType
      <3>4. Cardinality(left) \in Nat
        BY <3>3, FS_CardinalityType
      <3> QED  BY <3>2, <3>3, <3>4
    <2>4. Cardinality(rest) \in Nat /\ deaths \in Nat /\ MessageLimit \in Nat
      BY CountsTyped
    <2>5. Cardinality(msgs' \ OnLists(U)') = Cardinality(rest)
      BY <1>2, <2>1
    <2> HIDE DEF rest, busy
    <2> QED  BY <2>1, <2>2, <2>3, <2>4, <2>5 DEF Within, OnLists
  <1> QED  BY <1>3, <1>4, <1>5

LEMMA ListsCoverStep ==
  ASSUME CvTyped, CvTyped', ListsCover, [ConversationNext]_cvVars
  PROVE  ListsCover'
  <1> SUFFICES ASSUME NEW U \in SUBSET Listers'
               PROVE  Within(U)'
    BY DEF ListsCover, Within, OnLists
  <1>1. ASSUME NEW w \in Appenders, Stamp(w)
        PROVE  Within(U)'
    <2>1. /\ AtWork' = AtWork /\ Listers' = Listers /\ msgs' = msgs /\ deaths' = deaths
          /\ \A v \in Listers : append'[v] = append[v]
      BY <1>1 DEF Stamp, AtWork, Listers, CvTyped, ConversationTypeOK
    <2>2. U \in SUBSET Listers /\ OnLists(U)' = OnLists(U)
      BY <2>1 DEF OnLists, Listers
    <2> QED  BY <2>1, <2>2, FewerWithin, CountsTyped DEF ListsCover
  <1>2. CASE /\ append' = append /\ deaths' = deaths /\ msgs' \subseteq msgs
    <2>1. U \in SUBSET Listers /\ OnLists(U)' = OnLists(U) /\ AtWork' = AtWork
      BY <1>2 DEF OnLists, Listers, AtWork
    <2> QED  BY <1>2, <2>1, FewerWithin, CountsTyped DEF ListsCover
  <1>3. ASSUME ClockTicks \/ (\E cutoff \in Stamps : Prune(cutoff)) \/ DeleteConversation
               \/ UNCHANGED cvVars
        PROVE  append' = append /\ deaths' = deaths /\ msgs' \subseteq msgs
    BY <1>3 DEF ClockTicks, Prune, DeleteConversation, cvVars
  <1> QED
    BY <1>1, <1>2, <1>3, CommitWithin, ListExcessWithin, AppendEndsWithin
    DEF ConversationNext

(* The conversation exceeds its limit by at most one message for every append   *)
(* that has not deleted yet or was cut off.                                  *)
THEOREM ConversationStaysBounded == ConversationSpec => []ConversationBounded
  <1>1. ASSUME ConversationInit PROVE ListsCover
    <2>1. msgs = {} /\ Listers = {} /\ AtWork = {} /\ deaths = 0
      <3>1. \A w \in Appenders : append[w].at = "idle"
        BY <1>1 DEF ConversationInit, NoAppend
      <3> QED  BY <1>1, <3>1 DEF ConversationInit, Listers, AtWork
    <2> QED
      BY <2>1, FS_EmptySet, ConversationOK DEF ConversationOK, ListsCover, Within
  <1>2. ASSUME ListsCover PROVE ConversationBounded
    <2>1. Within({}) /\ OnLists({}) = {}
      BY <1>2 DEF ListsCover, OnLists
    <2>2. msgs \ {} = msgs /\ AtWork \ {} = AtWork
      OBVIOUS
    <2> QED  BY <2>1, <2>2 DEF Within, ConversationBounded
  <1> QED
    BY <1>1, <1>2, ConversationInitTyped, ConversationStepTyped, ListsCoverStep, PTL
    DEF ConversationSpec

============================================================================
