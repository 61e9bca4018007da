------------------------ MODULE DistributedLockProofs ------------------------
(* Theorems about DistributedLock, for any users of a lock and any values.  *)
EXTENDS DistributedLock, TLAPS

-----------------------------------------------------------------------------
(* The inductive invariant. *)

\* A row carries the lock value of whoever wrote it.
RowInv == row # NoRow => row.value = ValueOf[row.by]

\* Only a user that got the lock and has not left it can be in its lease.
HeldInv == \A u \in inLease : pc[u] = "held"

IInv == TypeOK /\ RowInv /\ HeldInv /\ LeaseBacked

\* The row an insert writes is typed, and never mistaken for no row.
LEMMA NewRow ==
  ASSUME NEW u \in Users
  PROVE  /\ [value |-> ValueOf[u], live |-> TRUE, by |-> u] \in Rows
         /\ [value |-> ValueOf[u], live |-> TRUE, by |-> u] # NoRow
<1>1. ValueOf[u] \in {ValueOf[v] : v \in Users}
  OBVIOUS
<1>2. [value |-> ValueOf[u], live |-> TRUE, by |-> u] \in Rows
  BY <1>1 DEF Rows
<1> QED
  BY <1>2, NoRowAssumption

\* A deletion, which may fail, keeps the row typed and truthful, and spares every other user
\* that is within its lease, when lock values are distinct.
LEMMA DeleteSpares ==
  ASSUME DistinctValues, IInv, NEW u \in Users, Deletes(u)
  PROVE  /\ row' \in Rows \cup {NoRow} /\ RowInv' /\ faults' \in 0..MaxFaults
         /\ \A v \in inLease \ {u} : row' = row
<1>1. row' \in {row, NoRow}
  BY DEF Deletes, DeleteIfEqual
<1>2. row' \in Rows \cup {NoRow} /\ RowInv'
  BY <1>1 DEF IInv, TypeOK, RowInv
<1>3. ASSUME NEW v \in inLease \ {u} PROVE ~Removable(u)
  <2>1. row.by = v /\ row.live /\ row.value = ValueOf[v] /\ v \in Users
    BY <1>3 DEF IInv, RowInv, LeaseBacked, TypeOK
  <2>2. ValueOf[v] # ValueOf[u]
    BY <1>3, <2>1 DEF DistinctValues
  <2> QED
    BY <2>1, <2>2 DEF Removable
<1>4. faults' \in 0..MaxFaults
  BY LockBounds DEF Deletes, IInv, TypeOK
<1> QED
  BY <1>2, <1>3, <1>4 DEF Deletes, DeleteIfEqual

\* No step of a user, no expiry, no crash breaks the invariant.
LEMMA StepInv == ASSUME DistinctValues, IInv, [Next]_vars PROVE IInv'
<1> USE DEF Goto
<1>0. /\ pc \in [Users -> {"idle", "insert", "held", "finally", "down"}]
      /\ inLease \subseteq Users /\ crashes \in Nat /\ faults \in Nat
  BY LockBounds DEF IInv, TypeOK
<1>1. ASSUME NEW u \in Users, users' = users, StartAcquire(u) \/ Finally(u) PROVE IInv'
  <2>1. Deletes(u) /\ u \notin inLease
    BY <1>1 DEF StartAcquire, Finally, IInv, HeldInv
  <2>2. /\ row' \in Rows \cup {NoRow} /\ RowInv' /\ faults' \in 0..MaxFaults
        /\ \A v \in inLease : row' = row
    BY <2>1, DeleteSpares
  <2>3. TypeOK'
    BY <1>0, <1>1, <2>2 DEF StartAcquire, Finally, IInv, TypeOK
  <2>4. HeldInv' /\ LeaseBacked'
    BY <1>0, <1>1, <2>1, <2>2 DEF StartAcquire, Finally, IInv, HeldInv, LeaseBacked
  <2> QED
    BY <2>2, <2>3, <2>4 DEF IInv
<1>2. ASSUME NEW u \in Users, users' = users, Insert(u) PROVE IInv'
  <2>1. inLease = {}
    BY <1>2 DEF Insert, IInv, LeaseBacked
  <2>2. row' = [value |-> ValueOf[u], live |-> TRUE, by |-> u] /\ inLease' = {u} /\ pc' = [pc EXCEPT ![u] = "held"]
    BY <1>2, <2>1 DEF Insert
  <2>3. TypeOK'
    BY <1>0, <1>2, <2>2, NewRow DEF Insert, IInv, TypeOK
  <2>4. RowInv' /\ HeldInv' /\ LeaseBacked'
    BY <1>0, <2>2, NewRow DEF RowInv, HeldInv, LeaseBacked
  <2> QED
    BY <2>3, <2>4 DEF IInv
<1>3. ASSUME NEW u \in Users, users' = users, InsertConflict(u) PROVE IInv'
  BY <1>0, <1>3 DEF InsertConflict, IInv, TypeOK, RowInv, HeldInv, LeaseBacked
<1>4. ASSUME NEW u \in Users, users' = users, InsertLost(u) PROVE IInv'
  <2>1. inLease = {} /\ inLease' = inLease /\ row' = [value |-> ValueOf[u], live |-> TRUE, by |-> u]
    BY <1>4 DEF InsertLost, IInv, LeaseBacked
  <2>2. faults' \in 0..MaxFaults
    BY <1>0, <1>4, LockBounds DEF InsertLost
  <2>3. pc' \in [Users -> {"idle", "insert", "held", "finally", "down"}]
    BY <1>0, <1>4 DEF InsertLost
  <2>4. TypeOK'
    BY <1>4, <2>1, <2>2, <2>3, NewRow DEF InsertLost, IInv, TypeOK
  <2> QED
    BY <2>1, <2>4 DEF IInv, RowInv, HeldInv, LeaseBacked
<1>5. ASSUME NEW u \in Users, users' = users, Release(u) \/ Reacquire(u) PROVE IInv'
  <2>1. Deletes(u) \/ UNCHANGED <<row, faults>>
    BY <1>5 DEF Release, Reacquire
  <2>2. inLease' = inLease \ {u} /\ UNCHANGED crashes
    BY <1>5 DEF Release, Reacquire
  <2>3. pc' \in [Users -> {"idle", "insert", "held", "finally", "down"}] /\ \A v \in Users \ {u} : pc'[v] = pc[v]
    BY <1>0, <1>5 DEF Release, Reacquire
  <2>4. /\ row' \in Rows \cup {NoRow} /\ RowInv' /\ faults' \in 0..MaxFaults
        /\ \A v \in inLease \ {u} : row' = row
    BY <2>1, DeleteSpares DEF IInv, TypeOK, RowInv
  <2>5. TypeOK'
    BY <1>5, <2>2, <2>3, <2>4 DEF IInv, TypeOK
  <2> QED
    BY <1>0, <2>2, <2>3, <2>4, <2>5 DEF IInv, HeldInv, LeaseBacked
<1>6. ASSUME NEW u \in Users, users' = users, Crash(u) \/ Restart(u) PROVE IInv'
  <2>1. crashes' \in 0..MaxCrashes
    BY <1>0, <1>6, LockBounds DEF Crash, Restart, IInv, TypeOK
  <2>2. TypeOK'
    BY <1>0, <1>6, <2>1 DEF Crash, Restart, IInv, TypeOK
  <2> QED
    BY <1>0, <1>6, <2>2 DEF Crash, Restart, IInv, RowInv, HeldInv, LeaseBacked
<1>7. ASSUME users' = users, Expire PROVE IInv'
  <2>1. row \in Rows /\ row' = [row EXCEPT !.live = FALSE]
    BY <1>7 DEF Expire, IInv, TypeOK
  <2>2. row' \in Rows /\ row' # NoRow /\ row'.value = row.value /\ row'.by = row.by
    BY <2>1, NoRowAssumption DEF Rows
  <2>3. inLease' = {}
    BY <1>7 DEF Expire, IInv, LeaseBacked
  <2> QED
    BY <1>7, <2>1, <2>2, <2>3 DEF Expire, IInv, TypeOK, RowInv, HeldInv, LeaseBacked
<1>8. CASE UNCHANGED vars
  BY <1>8 DEF vars, IInv, TypeOK, RowInv, HeldInv, LeaseBacked
<1>9. CASE Next
  <2>1. users' = users /\ users \subseteq Users
    BY <1>9 DEF Next, IInv, TypeOK
  <2>2. Expire \/ \E u \in Users : Step(u) \/ InsertLost(u) \/ Reacquire(u) \/ Crash(u) \/ Restart(u)
    BY <1>9, <2>1 DEF Next
  <2> QED
    BY <1>1, <1>2, <1>3, <1>4, <1>5, <1>6, <1>7, <2>1, <2>2 DEF Step
<1> QED
  BY <1>8, <1>9

LEMMA InitInv == Init => IInv
  BY LockBounds DEF Init, Users, IInv, TypeOK, RowInv, HeldInv, LeaseBacked

-----------------------------------------------------------------------------
\* Every variable keeps its type, as long as no two users have the same lock
\* value (the invariant it is part of needs that).
THEOREM TypeCorrect == ASSUME DistinctValues PROVE Spec => []TypeOK
<1>1. IInv /\ [Next]_vars => IInv'
  BY StepInv
<1>2. IInv => TypeOK
  BY DEF IInv
<1> QED
  BY <1>1, <1>2, InitInv, PTL DEF Spec

\* As long as no two users have the same lock value, a user within its lease
\* has its own live row in the table.
THEOREM LeasesAreBacked == ASSUME DistinctValues PROVE Spec => []LeaseBacked
<1>1. IInv /\ [Next]_vars => IInv'
  BY StepInv
<1>2. IInv => LeaseBacked
  BY DEF IInv
<1> QED
  BY <1>1, <1>2, InitInv, PTL DEF Spec

\* Hence no two users are within their leases at once.
THEOREM Exclusion == ASSUME DistinctValues PROVE Spec => []MutualExclusion
<1>1. LeaseBacked => MutualExclusion
  BY DEF LeaseBacked, MutualExclusion
<1> QED
  BY <1>1, LeasesAreBacked, PTL
=============================================================================
