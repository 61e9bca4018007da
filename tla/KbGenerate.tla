------------------------------ MODULE KbGenerate -------------------------------
(***************************************************************************)
(* Building and deleting the knowledge graph of a dataset: the dropdown    *)
(* that starts, shows and pauses the build (web/src/pages/dataset/dataset/ *)
(* generate-button), the handlers of api/apps/kb_app.py, and the executor  *)
(* that runs the task.                                                     *)
(*                                                                         *)
(* The handlers read, queue and write in separate steps.  Of the graph, of *)
(* the documents that take part and of the merge lock (DistributedLock)    *)
(* nothing is kept.  RAPTOR and mind map tasks have handlers of the same   *)
(* shape.                                                                  *)
(***************************************************************************)
EXTENDS Naturals, FiniteSets

CONSTANTS MaxRuns,    \* bound: requests to build
          MaxUnbinds, \* bound: requests to pause or delete at once
          MaxTries,   \* of get_task: 3
          MaxMishaps  \* bound: deaths, lost requests and reports, rows taken away

ASSUME KbAssumption ==
  MaxRuns \in Nat /\ MaxUnbinds \in Nat /\ MaxTries \in Nat /\ MaxMishaps \in Nat

NoTask == 0
Tasks == 1..MaxRuns

VARIABLES bound,     \* knowledgebase.graphrag_task_id
          finishAt,  \* graphrag_task_finish_at is set
          progress,  \* of the rows in the task table: task -> "zero", "failed", "done"
          canceled,  \* tasks with a cancel key
          tries,     \* retry_count of the rows
          queue,     \* messages no executor is at work on
          crashing,  \* those of them that end every executor that takes them
          building,  \* tasks an executor is in
          requested, \* build requests so far
          runs,      \* run_graphrag calls under way
          unbinds,   \* pauseGenerate and unbind_task calls under way
          open,      \* the dropdown is open
          traced,    \* graphRunData: the task and its progress
          tracing,   \* a fetch of the trace is out
          mishaps,   \* how often something went wrong
          stranded   \* history: tasks whose last report, or whose unbinding, was lost

retryVars == <<tries, crashing>>
mishapVars == <<mishaps, stranded>>
serverVars == <<bound, finishAt, progress, canceled, queue, building, retryVars, mishapVars>>
callVars == <<requested, runs, unbinds>>
pageVars == <<open, traced, tracing>>
kbVars == <<serverVars, callVars, pageVars>>

Rows == DOMAIN progress
Nothing == [task |-> NoTask, progress |-> "none"]

KbInit ==
  /\ bound = NoTask /\ finishAt = FALSE
  /\ progress = [t \in {} |-> "zero"]
  /\ canceled = {} /\ queue = {} /\ building = {}
  /\ requested = 0 /\ runs = {} /\ unbinds = {}
  /\ open = FALSE /\ traced = Nothing /\ tracing = FALSE
  /\ tries = [t \in Tasks |-> 0] /\ crashing = {} /\ mishaps = 0 /\ stranded = {}

-----------------------------------------------------------------------------
(* The dropdown.                                                           *)

\* The query's key holds `open`: what was shown before is gone.
SetOpen(isOpen) ==
  /\ open # isOpen
  /\ open' = isOpen
  /\ traced' = Nothing
  /\ tracing' = isOpen
  /\ UNCHANGED <<serverVars, callVars>>

\* Mutant: 0 is falsy.
LoopsFalsy(p) == p \notin {"none", "zero", "done", "failed"}

\* The effect on graphRunData.progress: 0 counts as running.
Loops(p) == p = "zero"

\* trace_graphrag: without a task, or without its row, there is no progress.
TraceFetched ==
  /\ tracing
  /\ tracing' = FALSE
  /\ traced' = IF bound \in Rows THEN [task |-> bound, progress |-> progress[bound]]
              ELSE Nothing
  /\ UNCHANGED <<serverVars, callVars, open>>

\* refetchInterval
Poll ==
  /\ open /\ Loops(traced.progress) /\ ~tracing
  /\ tracing' = TRUE
  /\ UNCHANGED <<serverVars, callVars, open, traced>>

\* runGenerate; nothing stops a second click while the first is answered.
ClickGenerate ==
  /\ open /\ ~Loops(traced.progress)
  /\ requested < MaxRuns
  /\ requested' = requested + 1
  /\ runs' = runs \cup {[task |-> requested', phase |-> "sent"]}
  /\ UNCHANGED <<serverVars, unbinds, pageVars>>

\* pauseGenerate cancels the task it shows, then unbinds.
ClickPause ==
  /\ open /\ Loops(traced.progress)
  /\ Cardinality(unbinds) < MaxUnbinds
  /\ unbinds' = unbinds \cup {[task |-> traced.task, phase |-> "pause"]}
  /\ UNCHANGED <<serverVars, requested, runs, pageVars>>

\* handleDeleteFunc in the settings of the dataset, where a time is shown.
ClickDelete ==
  /\ finishAt
  /\ Cardinality(unbinds) < MaxUnbinds
  /\ unbinds' = unbinds \cup {[task |-> NoTask, phase |-> "delete"]}
  /\ UNCHANGED <<serverVars, requested, runs, pageVars>>

-----------------------------------------------------------------------------
(* kb_app.py                                                               *)

Running(t) == t \in Rows /\ progress[t] = "zero"

\* run_graphrag looks at the task that is bound.
RunChecks(r) ==
  /\ r \in runs /\ r.phase = "sent"
  /\ runs' = (runs \ {r}) \cup (IF Running(bound) THEN {}
                                 ELSE {[r EXCEPT !.phase = "checked"]})
  /\ UNCHANGED <<serverVars, requested, unbinds, pageVars>>

\* Mutant: the answer of the queue is not looked at.
RunQueuesAnyway(r, ok) ==
  /\ r \in runs /\ r.phase = "checked"
  /\ progress' = [t \in Rows \cup {r.task} |-> IF t = r.task THEN "zero" ELSE progress[t]]
  /\ queue' = IF ok THEN queue \cup {r.task} ELSE queue
  /\ runs' = (runs \ {r}) \cup {[r EXCEPT !.phase = "queued"]}
  /\ UNCHANGED <<bound, finishAt, canceled, building, requested, unbinds, pageVars,
                 retryVars, mishapVars>>

\* queue_raptor_o_graphrag_tasks; when the queue refuses, the row stays and
\* the request fails.
RunQueues(r, ok) ==
  /\ r \in runs /\ r.phase = "checked"
  /\ progress' = [t \in Rows \cup {r.task} |-> IF t = r.task THEN "zero" ELSE progress[t]]
  /\ queue' = IF ok THEN queue \cup {r.task} ELSE queue
  /\ runs' = (runs \ {r}) \cup (IF ok THEN {[r EXCEPT !.phase = "queued"]} ELSE {})
  /\ UNCHANGED <<bound, finishAt, canceled, building, requested, unbinds, pageVars,
                 retryVars, mishapVars>>

\* It binds the task, and the page that asked fetches again.
RunBinds(r) ==
  /\ r \in runs /\ r.phase = "queued"
  /\ bound' = r.task
  /\ runs' = runs \ {r}
  /\ tracing' = open
  /\ UNCHANGED <<finishAt, progress, canceled, queue, building, requested, unbinds,
                 open, traced, retryVars, mishapVars>>

Advance(u, phase, task) ==
  unbinds' = (unbinds \ {u}) \cup {[task |-> task, phase |-> phase]}

\* cancel: the cancel key of the task the page showed.
PauseCancels(u) ==
  /\ u \in unbinds /\ u.phase = "pause"
  /\ canceled' = canceled \cup {u.task}
  /\ Advance(u, "delete", NoTask)
  /\ UNCHANGED <<bound, finishAt, progress, queue, building, requested, runs, pageVars,
                 retryVars, mishapVars>>

\* delete_kb_task reads the knowledge base and empties the graph,
UnbindDeletes(u) ==
  /\ u \in unbinds /\ u.phase = "delete"
  /\ Advance(u, "cancel", bound)
  /\ UNCHANGED <<bound, finishAt, progress, canceled, queue, building, requested, runs,
                 pageVars, retryVars, mishapVars>>

\* cancels the task it read,
UnbindCancels(u) ==
  /\ u \in unbinds /\ u.phase = "cancel"
  /\ canceled' = canceled \cup ({u.task} \ {NoTask})
  /\ Advance(u, "unbind", u.task)
  /\ UNCHANGED <<bound, finishAt, progress, queue, building, requested, runs, pageVars,
                 retryVars, mishapVars>>

\* and clears both fields; the page fetches again.
Unbinds(u) ==
  /\ u \in unbinds /\ u.phase = "unbind"
  /\ bound' = NoTask
  /\ finishAt' = FALSE
  /\ unbinds' = unbinds \ {u}
  /\ tracing' = open
  /\ UNCHANGED <<progress, canceled, queue, building, requested, runs, open, traced,
                 retryVars, mishapVars>>

Mishap == mishaps < MaxMishaps /\ mishaps' = mishaps + 1

\* A statement of run_graphrag raises, or the request is lost on its way.
RequestLost(r) ==
  /\ r \in runs /\ Mishap
  /\ runs' = runs \ {r}
  /\ UNCHANGED <<bound, finishAt, progress, canceled, queue, building, retryVars,
                 stranded, requested, unbinds, pageVars>>

\* One of the two requests to pause fails, or the one to delete: whatever comes
\* after it is not done, the task that was canceled stays bound.
UnbindFails(u) ==
  /\ u \in unbinds /\ Mishap
  /\ unbinds' = unbinds \ {u}
  /\ stranded' = stranded \cup ({bound} \cap canceled)
  /\ UNCHANGED <<bound, finishAt, progress, canceled, queue, building, retryVars,
                 requested, runs, pageVars>>

\* The sample document is removed or parsed again, and takes the row along,
\* which carries its doc_id.
RowGone(t) ==
  /\ t \in Rows /\ Mishap
  /\ progress' = [u \in Rows \ {t} |-> progress[u]]
  /\ UNCHANGED <<bound, finishAt, canceled, queue, building, retryVars, stranded,
                 callVars, pageVars>>

-----------------------------------------------------------------------------
(* The executor.                                                           *)

\* TaskService.update_progress: -1 is final.
Report(t, p) == [progress EXCEPT ![t] = IF @ = "failed" THEN @ ELSE p]

\* collect(): get_task counts the attempt and sets the progress back to a little
\* above 0. The message of a canceled task is acknowledged, and that is all.
Begins(t) ==
  /\ t \in queue \cap Rows /\ tries[t] < MaxTries
  /\ queue' = queue \ {t}
  /\ building' = IF t \in canceled THEN building ELSE building \cup {t}
  /\ tries' = [tries EXCEPT ![t] = @ + 1]
  /\ progress' = [progress EXCEPT ![t] = "zero"]
  /\ UNCHANGED <<bound, finishAt, canceled, crashing, mishapVars, callVars, pageVars>>

\* get_task returns None, for a task without row and for one it gives up after
\* MaxTries attempts: collect() uses the result before it looks, and the
\* TypeError ends the executor with the message unacknowledged, now and after
\* every restart.
GivesUp(t) ==
  /\ t \in queue \ crashing /\ (t \notin Rows \/ tries[t] >= MaxTries)
  /\ crashing' = crashing \cup {t}
  /\ progress' = [progress EXCEPT ![t] = "failed"]
  /\ UNCHANGED <<bound, finishAt, canceled, queue, building, tries, mishapVars, callVars,
                 pageVars>>

\* A report on the way: set_progress writes -1 for a canceled task, and what it
\* raises it catches itself.
Reports(t) ==
  /\ t \in building \cap Rows /\ t \in canceled /\ progress[t] # "failed"
  /\ progress' = Report(t, "failed")
  /\ UNCHANGED <<bound, finishAt, canceled, queue, building, retryVars, mishapVars,
                 callVars, pageVars>>

\* The end, with the last report or after an exception.  The time of the end is
\* recorded for the dataset when the progress of the sample document allows.
Ends(t, ok) ==
  /\ t \in building
  /\ building' = building \ {t}
  /\ progress' = Report(t, IF ok /\ t \notin canceled THEN "done" ELSE "failed")
  /\ finishAt' \in {finishAt, TRUE}
  /\ UNCHANGED <<bound, canceled, queue, retryVars, mishapVars, callVars, pageVars>>

\* An error of the database swallows the last report, and the message is
\* acknowledged all the same.
EndsUnreported(t) ==
  /\ t \in building /\ Mishap
  /\ building' = building \ {t}
  /\ stranded' = stranded \cup {t}
  /\ finishAt' \in {finishAt, TRUE}
  /\ UNCHANGED <<bound, progress, canceled, queue, retryVars, callVars, pageVars>>

\* The executor dies before it acknowledges, its last report written or not,
\* and has the message again when it is back.
Dies(t) ==
  /\ t \in building /\ Mishap
  /\ building' = building \ {t}
  /\ queue' = queue \cup {t}
  /\ progress' \in {progress, Report(t, "failed")}
                 \cup (IF t \in canceled THEN {} ELSE {Report(t, "done")})
  /\ UNCHANGED <<bound, finishAt, canceled, retryVars, stranded, callVars, pageVars>>

-----------------------------------------------------------------------------
KbUser == ClickGenerate \/ ClickPause \/ ClickDelete \/ \E isOpen \in BOOLEAN : SetOpen(isOpen)
UnbindStep(u) == PauseCancels(u) \/ UnbindDeletes(u) \/ UnbindCancels(u) \/ Unbinds(u)
KbServer ==
  \/ \E r \in runs : \/ RunChecks(r) \/ RunBinds(r) \/ RequestLost(r)
                    \/ \E ok \in BOOLEAN : RunQueues(r, ok)
  \/ \E u \in unbinds : UnbindStep(u) \/ UnbindFails(u)
  \/ \E t \in Tasks : RowGone(t)
KbExecutor ==
  \E t \in Tasks : \/ Begins(t) \/ GivesUp(t) \/ Reports(t) \/ Dies(t)
                  \/ EndsUnreported(t) \/ \E ok \in BOOLEAN : Ends(t, ok)

KbNext == KbUser \/ KbServer \/ KbExecutor \/ TraceFetched \/ Poll

KbSpec == KbInit /\ [][KbNext]_kbVars

\* The page fetches when it should, a trace is answered, a request to pause or
\* delete that is not lost is carried out, a queued task is taken and one that
\* is built ends.
KbFairness ==
  /\ WF_kbVars(TraceFetched) /\ WF_kbVars(Poll)
  /\ WF_kbVars(\E u \in unbinds : UnbindStep(u))
  /\ \A t \in Tasks :
       WF_kbVars(Begins(t) \/ GivesUp(t)) /\ WF_kbVars(\E ok \in BOOLEAN : Ends(t, ok))

-----------------------------------------------------------------------------
(* Properties.                                                             *)

KbTypeOK ==
  /\ bound \in Tasks \cup {NoTask} /\ requested \in 0..MaxRuns
  /\ Rows \subseteq 1..requested /\ \A t \in Rows : progress[t] \in {"zero", "failed", "done"}
  /\ canceled \cup queue \cup building \cup crashing \cup stranded \subseteq 1..requested
  /\ tries \in [Tasks -> Nat] /\ mishaps \in 0..MaxMishaps
  /\ {open, tracing, finishAt} \subseteq BOOLEAN
  /\ traced \in [task : Tasks \cup {NoTask}, progress : {"none", "zero", "failed", "done"}]
  /\ runs \subseteq [task : Tasks, phase : {"sent", "checked", "queued"}]
  /\ unbinds \subseteq [task : Tasks \cup {NoTask},
                        phase : {"pause", "delete", "cancel", "unbind"}]

\* While the dropdown is open, a build that it shows as running comes to be
\* shown as it ended, or as paused: the polling that starts at progress 0 does
\* not stop before, whatever requests cross it. But not when its last report or
\* its unbinding was lost, and not while a message ends every executor that
\* takes it: then it is shown as running for ever.
ShownRunEnds ==
  (open /\ traced.progress = "zero")
    ~> \/ ~open \/ traced.progress # "zero"
       \/ traced.task \in stranded \/ crashing # {}

\* The build a dataset is bound to and shows as running is with the queue or
\* in an executor, in whatever order requests to build, pause and delete were
\* answered; or it was canceled, and a request is about to unbind it. A queue
\* that refused leaves a row behind, but never a bound one, which would keep
\* run_graphrag from starting another; only a last report or a request to
\* unbind that was lost does.
BoundRunIsWorked ==
  Running(bound) => \/ bound \in (queue \ crashing) \cup building
                    \/ bound \in canceled /\ \E u \in unbinds : u.phase # "pause"
                    \/ bound \in stranded
=============================================================================
