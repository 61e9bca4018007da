---------------------------- MODULE ExtractionService ----------------------------
(***************************************************************************)
(* The extraction tasks of the PowerRAG server                             *)
(* (powerrag/server/services/langextract_service.py): a request reserves   *)
(* workers, stores a task, hands it to a thread pool, notes the future and *)
(* starts a timer; a thread of the pool processes the task, and the timer  *)
(* may find it not finished.  The two locks are held over single steps     *)
(* only, so that the four threads meet in any order.                       *)
(*                                                                         *)
(* A text is the number of workers it asks for.                            *)
(***************************************************************************)
EXTENDS Naturals, FiniteSets

CONSTANTS Extractions,  \* calls of submit_task
          MaxWorks,     \* MAX_EXTRACT_WORKS, also the threads of the pool
          Texts         \* what is submitted together

ASSUME ExtractionAssumption ==
  /\ MaxWorks \in Nat \ {0} /\ IsFiniteSet(Extractions)
  /\ Texts \subseteq [Extractions -> 1..MaxWorks]

VARIABLES need,     \* _calculate_max_workers
          used,     \* used_workers
          step,     \* how far submit_task is
          status,   \* of the task, "none" before it is stored
          work,     \* what the pool does with it
          futures,  \* task_futures
          timers    \* of each task

extractionVars == <<need, used, step, status, work, futures, timers>>

ExtractionInit ==
  /\ need \in Texts
  /\ used = 0
  /\ step = [t \in Extractions |-> "called"]
  /\ status = [t \in Extractions |-> "none"]
  /\ work = [t \in Extractions |-> "none"]
  /\ futures = {}
  /\ timers = [t \in Extractions |-> "none"]

StepTo(t, s) == step' = [step EXCEPT ![t] = s]
StatusTo(t, s) == status' = [status EXCEPT ![t] = s]
WorkTo(t, s) == work' = [work EXCEPT ![t] = s]
GiveBack(n) == used' = IF n > used THEN 0 ELSE used - n

-----------------------------------------------------------------------------
(* submit_task                                                             *)

\* ServerBusyError, or the workers are the task's, which is stored; nobody
\* knows of it in between.
Reserve(t) ==
  /\ step[t] = "called"
  /\ IF need[t] > MaxWorks - used
     THEN StepTo(t, "refused") /\ UNCHANGED <<used, status>>
     ELSE StepTo(t, "stored") /\ StatusTo(t, "pending") /\ used' = used + need[t]
  /\ UNCHANGED <<need, work, futures, timers>>

\* The pool takes the task, or raises: before it has taken it, or after, when
\* it can start no thread.  Nothing gives the workers back then.
Submit(t) ==
  /\ step[t] = "stored"
  /\ \/ StepTo(t, "submitted") /\ WorkTo(t, "queued")
     \/ StepTo(t, "raised") /\ (WorkTo(t, "queued") \/ UNCHANGED work)
  /\ UNCHANGED <<need, used, status, futures, timers>>

\* The future is noted, though the task may have ended and have removed it
\* already, and _setup_timeout_monitor starts a timer, which a timeout that is
\* not above zero does without.
Track(t) ==
  /\ step[t] = "submitted"
  /\ StepTo(t, "returned")
  /\ futures' = futures \cup {t}
  /\ timers' \in {timers, [timers EXCEPT ![t] = "armed"]}
  /\ UNCHANGED <<need, used, status, work>>

-----------------------------------------------------------------------------
(* _process_task                                                           *)

Begin(t) ==
  /\ work[t] = "queued"
  /\ WorkTo(t, "running") /\ StatusTo(t, "processing")
  /\ UNCHANGED <<need, used, step, futures, timers>>

\* _do_extract returns or raises, whether the timer has fired or not.
Extracted(t) ==
  /\ work[t] = "running"
  /\ WorkTo(t, "leaving")
  /\ StatusTo(t, "success") \/ StatusTo(t, "failed")
  /\ UNCHANGED <<need, used, step, futures, timers>>

\* Mutant: the workers are given back by tasks that succeed.
LeaveSuccessful(t) ==
  /\ work[t] = "leaving"
  /\ WorkTo(t, "done")
  /\ IF status[t] = "success" THEN GiveBack(need[t]) ELSE UNCHANGED used
  /\ futures' = futures \ {t}
  /\ UNCHANGED <<need, step, status, timers>>

\* The finally clause.
Leave(t) ==
  /\ work[t] = "leaving"
  /\ WorkTo(t, "done")
  /\ GiveBack(need[t])
  /\ futures' = futures \ {t}
  /\ UNCHANGED <<need, step, status, timers>>

-----------------------------------------------------------------------------
(* timeout_handler                                                         *)

\* Mutant: the task has failed when its future could be cancelled, and a
\* future that runs cannot.
OverdueCancelled(t) == status[t] = "processing" /\ t \in futures /\ work[t] = "queued"

Overdue(t) == status[t] = "processing" /\ t \in futures /\ work[t] # "done"

\* Mutant: the workers of a task that is too slow are given back.
TimerFiresReleasing(t) ==
  /\ timers[t] = "armed"
  /\ timers' = [timers EXCEPT ![t] = "fired"]
  /\ IF Overdue(t) THEN StatusTo(t, "failed") /\ GiveBack(need[t]) ELSE UNCHANGED <<status, used>>
  /\ UNCHANGED <<need, step, work, futures>>

\* The thread goes on: future.cancel does not stop it.
TimerFires(t) ==
  /\ timers[t] = "armed"
  /\ timers' = [timers EXCEPT ![t] = "fired"]
  /\ IF Overdue(t) THEN StatusTo(t, "failed") ELSE UNCHANGED status
  /\ UNCHANGED <<need, used, step, work, futures>>

ExtractionNext ==
  \E t \in Extractions :
    \/ Reserve(t) \/ Submit(t) \/ Track(t)
    \/ Begin(t) \/ Extracted(t) \/ Leave(t) \/ TimerFires(t)

ExtractionSpec == ExtractionInit /\ [][ExtractionNext]_extractionVars

\* Timers fire.  Nothing ends an extraction that waits for its model.
ExtractionFairness == \A t \in Extractions : WF_extractionVars(TimerFires(t))

-----------------------------------------------------------------------------
(* Properties.                                                             *)

Steps == {"called", "refused", "stored", "submitted", "raised", "returned"}

ExtractionTypeOK ==
  /\ need \in [Extractions -> 1..MaxWorks] /\ used \in 0..MaxWorks
  /\ step \in [Extractions -> Steps]
  /\ status \in [Extractions -> {"none", "pending", "processing", "success", "failed"}]
  /\ work \in [Extractions -> {"none", "queued", "running", "leaving", "done"}]
  /\ futures \subseteq Extractions
  /\ timers \in [Extractions -> {"none", "armed", "fired"}]

\* Those whose submission raised before the pool had them: nothing gives their
\* workers back.
Leaked == {t \in Extractions : step[t] = "raised" /\ work[t] = "none"}

\* Those in flight, whose workers are given back when their thread leaves them.
Holders == {t \in Extractions : step[t] \notin {"called", "refused"} /\ work[t] # "done"} \ Leaked

\* Of each task as many workers as it asked for.
WorkersOf(tasks) == {w \in tasks \X (1..MaxWorks) : w[2] <= need[w[1]]}

\* The count of the workers in use is what the tasks in flight asked for, and
\* what those leaked whose submission raised: no other way through a task, a
\* timeout included, gives back too little, and none gives back twice.
WorkersCounted == used = Cardinality(WorkersOf(Holders)) + Cardinality(WorkersOf(Leaked))

\* A task that the pool has never waits in it behind others for want of a
\* thread, where its timer would find it pending and let it be: there are
\* never more than threads, those that are about to leave theirs included.
NeverQueued ==
  Cardinality({t \in Extractions : work[t] \in {"queued", "running", "leaving"}}) <= MaxWorks

\* The result a client has seen stays: the timer does not turn it into a failure.
SuccessStays ==
  [][\A t \in Extractions : status[t] = "success" => status'[t] = "success"]_extractionVars

\* A task that is processed under a timer ends for its client, though its
\* model may never answer.
OverdueEnds ==
  \A t \in Extractions :
    status[t] = "processing" /\ timers[t] = "armed" ~> status[t] \in {"success", "failed"}
=============================================================================
