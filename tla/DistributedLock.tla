--------------------------- MODULE DistributedLock ---------------------------
(***************************************************************************)
(* MysqlDistributedLock of rag/utils/ob_redis_conn.py: a lease kept as one *)
(* row of table cache, whose key is unique, and the three ways the program *)
(* uses it:                                                                *)
(*   LoopUsers  update_progress and report_status: acquire() in an endless *)
(*              loop, release() in a finally whether it succeeded or not;  *)
(*   TryUsers   _try_with_lock: acquire() once, release() if it succeeded; *)
(*   SpinUsers  the GraphRAG tasks: spin_acquire() and release(); the      *)
(*              task of one document (run_graphrag) also calls it while it *)
(*              holds the lock already.                                    *)
(* The row of one lock key is modelled; every statement is its own step.   *)
(* A key is used by loops and by users that try once, or by GraphRAG.       *)
(***************************************************************************)
EXTENDS Naturals, FiniteSets

CONSTANTS LoopUsers, TryUsers, SpinUsers,  \* lock objects, by how they are used
          Named,      \* users whose lock value survives a restart
          ValueOf,    \* lock_value of every user
          MaxCrashes, \* bound: crashes of users
          MaxFaults,  \* bound: inserts that commit but report an error, deletes that fail
          NoRow       \* there is no row with the lock's key

Users == LoopUsers \cup TryUsers \cup SpinUsers

ASSUME UsersAssumption ==
    /\ Named \subseteq Users
    /\ LoopUsers \cap TryUsers = {} /\ SpinUsers \cap (LoopUsers \cup TryUsers) = {}
ASSUME LockBounds == MaxCrashes \in Nat /\ MaxFaults \in Nat

Rows == [value : {ValueOf[u] : u \in Users}, live : BOOLEAN, by : Users]
ASSUME NoRowAssumption == NoRow \notin Rows

\* Users are told apart by their lock values.
DistinctValues == \A u, v \in Users : ValueOf[u] = ValueOf[v] => u = v

VARIABLES
    users,     \* those of this key
    row,       \* the row: its value, expire_time > now(), and who wrote it
    pc,        \* where every user is
    inLease,   \* history: users that got the lock and whose lease has not expired
    crashes, faults

vars == <<users, row, pc, inLease, crashes, faults>>

-----------------------------------------------------------------------------
RemovableLiveOnly(u) ==   \* mutant: no "or expire_time < now()"
    row # NoRow /\ row.value = ValueOf[u]

RemovableAll(u) == row # NoRow   \* mutant: the value is not compared

\* delete ... where cache_key = key and (cache_value = mine or expire_time < now())
Removable(u) == row # NoRow /\ (row.value = ValueOf[u] \/ ~row.live)

DeleteLive(u) ==   \* mutant: "and" with a comparison the wrong way round
    row' = IF row # NoRow /\ row.value = ValueOf[u] /\ row.live THEN NoRow ELSE row

DeleteIfEqual(u) == row' = IF Removable(u) THEN NoRow ELSE row

\* An error of the database is logged, and the caller goes on as if it had deleted.
Deletes(u) ==
    \/ DeleteIfEqual(u) /\ UNCHANGED faults
    \/ faults < MaxFaults /\ faults' = faults + 1 /\ UNCHANGED row

Goto(u, place) == pc' = [pc EXCEPT ![u] = place]

Init ==
    /\ users \in {LoopUsers \cup TryUsers, SpinUsers} \ {{}}
    /\ row = NoRow /\ inLease = {}
    /\ pc = [u \in Users |-> "idle"]
    /\ crashes = 0 /\ faults = 0

-----------------------------------------------------------------------------
(* acquire() and spin_acquire() delete once and then insert. *)
StartAcquire(u) ==
    /\ pc[u] = "idle"
    /\ Deletes(u)
    /\ Goto(u, "insert")
    /\ UNCHANGED <<inLease, crashes>>

InsertOver(u) ==   \* mutant: "replace into", which no conflict refuses
    /\ pc[u] = "insert"
    /\ row' = [value |-> ValueOf[u], live |-> TRUE, by |-> u]
    /\ inLease' = inLease \cup {u}
    /\ Goto(u, "held")
    /\ UNCHANGED <<crashes, faults>>

\* doAcquire: the unique key lets the insert through when there is no row.
Insert(u) ==
    /\ pc[u] = "insert" /\ row = NoRow
    /\ row' = [value |-> ValueOf[u], live |-> TRUE, by |-> u]
    /\ inLease' = inLease \cup {u}
    /\ Goto(u, "held")
    /\ UNCHANGED <<crashes, faults>>

\* A conflict: acquire() returns False, which LoopUsers follow by a release();
\* spin_acquire() stays in its loop and inserts again ten seconds later.
InsertConflict(u) ==
    /\ pc[u] = "insert" /\ row # NoRow /\ u \notin SpinUsers
    /\ Goto(u, IF u \in LoopUsers THEN "finally" ELSE "idle")
    /\ UNCHANGED <<row, inLease, crashes, faults>>

\* The insert commits, its answer is lost: doAcquire logs it and returns False.
InsertLost(u) ==
    /\ pc[u] = "insert" /\ row = NoRow /\ faults < MaxFaults
    /\ faults' = faults + 1
    /\ row' = [value |-> ValueOf[u], live |-> TRUE, by |-> u]
    /\ Goto(u, IF u \in SpinUsers THEN "insert" ELSE IF u \in LoopUsers THEN "finally" ELSE "idle")
    /\ UNCHANGED <<inLease, crashes>>

\* The work under the lock is done (or, last disjunct, raised an exception in
\* a LoopUser, whose except clause leaves the release to the finally).
Release(u) ==
    /\ pc[u] = "held"
    /\ inLease' = inLease \ {u}
    /\ \/ Deletes(u) /\ Goto(u, IF u \in LoopUsers THEN "finally" ELSE "idle")
       \/ u \in LoopUsers /\ Goto(u, "finally") /\ UNCHANGED <<row, faults>>
    /\ UNCHANGED crashes

Finally(u) ==
    /\ pc[u] = "finally"
    /\ Deletes(u)
    /\ Goto(u, "idle")
    /\ UNCHANGED <<inLease, crashes>>

\* run_graphrag calls spin_acquire() again before its next stage: its own row
\* is deleted, and others may insert before it does.
Reacquire(u) ==
    /\ u \in SpinUsers /\ pc[u] = "held"
    /\ Deletes(u)
    /\ inLease' = inLease \ {u}
    /\ Goto(u, "insert")
    /\ UNCHANGED crashes

-----------------------------------------------------------------------------
\* timeout seconds after the insert, whatever the holder is doing then. There is
\* one clock: the application's, which wrote expire_time, and the database's,
\* which it is compared with, are taken to agree.
Expire ==
    /\ row # NoRow /\ row.live
    /\ row' = [row EXCEPT !.live = FALSE]
    /\ inLease' = inLease \ {row.by}
    /\ UNCHANGED <<pc, crashes, faults>>

\* The process dies: nothing is released.
Crash(u) ==
    /\ pc[u] # "down" /\ crashes < MaxCrashes
    /\ crashes' = crashes + 1
    /\ inLease' = inLease \ {u}
    /\ Goto(u, "down")
    /\ UNCHANGED <<row, faults>>

\* It comes back with its old lock value, CONSUMER_NAME or a document's id. A
\* user whose value is a new uuid4 comes back as another user.
Restart(u) ==
    /\ pc[u] = "down" /\ u \in Named
    /\ Goto(u, "idle")
    /\ UNCHANGED <<row, inLease, crashes, faults>>

Step(u) == \/ StartAcquire(u) \/ Insert(u) \/ InsertConflict(u)
           \/ Release(u) \/ Finally(u)

Next ==
    /\ \/ \E u \in users : Step(u) \/ InsertLost(u) \/ Reacquire(u) \/ Crash(u) \/ Restart(u)
       \/ Expire
    /\ UNCHANGED users

Spec == Init /\ [][Next]_vars

Mine(u) == u \in users /\ UNCHANGED users

\* Time passes; the loops never end (update_progress waits 6 seconds between
\* rounds, report_status 30), and an executor is started again; a spinning task
\* inserts every 10 seconds, and does not lose the race for a free lock every
\* time; the work under the lock ends.
Fairness ==
    /\ WF_vars(Expire /\ UNCHANGED users)
    /\ \A u \in LoopUsers : WF_vars(Mine(u) /\ Step(u)) /\ WF_vars(Mine(u) /\ Restart(u))
    /\ \A u \in SpinUsers : SF_vars(Mine(u) /\ Insert(u)) /\ SF_vars(Mine(u) /\ Release(u))

FairSpec == Spec /\ Fairness

-----------------------------------------------------------------------------
(* Every variable keeps its type. *)
TypeOK ==
    /\ users \subseteq Users
    /\ row \in Rows \cup {NoRow}
    /\ pc \in [Users -> {"idle", "insert", "held", "finally", "down"}]
    /\ inLease \subseteq Users
    /\ crashes \in 0..MaxCrashes /\ faults \in 0..MaxFaults

\* Two users are never inside the lock within their leases: no retry, double
\* release, crash or late release of an expired holder lets a second one in.
MutualExclusion == \A u, v \in inLease : u = v

\* A user within its lease has its row in the table: what others delete is
\* their own or expired, and no insert goes over it.
LeaseBacked == \A u \in inLease : row # NoRow /\ row.by = u /\ row.live

\* A lease that ran out does not keep the lock for ever: some loop deletes the
\* row, though its owner crashed or came back under another value.
ExpiredIsFreed ==
    (users \cap LoopUsers # {} /\ row # NoRow /\ ~row.live) ~> (row = NoRow \/ row.live)

-----------------------------------------------------------------------------
(* What the docstrings say, and the code does not do. *)

\* spin_acquire: it acquires the lock by polling. A spinning task that does
\* not crash gets the lock.
SpinAcquires == \A u \in SpinUsers : pc[u] = "insert" ~> pc[u] \in {"held", "down"}

\* It does so where no task crashes and no answer is lost, however often holders
\* give the lock up to acquire it again.
Undisturbed == crashes = 0 /\ faults = 0
SpinAcquiresUndisturbed == []Undisturbed => SpinAcquires
=============================================================================
