----------------------------- MODULE DocParsing ------------------------------
(***************************************************************************)
(* How one document is parsed: the requests of the API server that start,  *)
(* restart, cancel, stop and remove it (api/apps/document_app.py and       *)
(* sdk/doc.py, queue_tasks of task_service.py), the task executors that    *)
(* work its tasks off (rag/svr/task_executor.py), and the two places that  *)
(* fold the progress of the tasks into the document (_sync_progress of     *)
(* document_service.py, called by the server's update_progress thread and  *)
(* by every executor after a task).                                        *)
(*                                                                         *)
(* The queue in between is TaskDelivery. Every database statement another  *)
(* actor's step can interfere with is its own action. Progress values are  *)
(* "zero" (0), "part" (above 0, below 1), "one" (1) and "bad" (-1). The    *)
(* chunks one task builds from its page range are one element of store.    *)
(***************************************************************************)
EXTENDS Naturals, FiniteSets

CONSTANTS Workers,     \* task executors, one task at a time each
          Handlers,    \* threads of the API server that serve requests
          Server,      \* the update_progress thread
          Pages,       \* page ranges, one task each
          Requests,    \* kinds of requests the users make
          AttemptLimit, \* of get_task: 3
          MaxRequests, MaxRuns, \* bounds: requests, and runs among them
          MaxCrashes,  \* bound: executor crashes
          MaxExpiries, \* bound: tasks whose cancel key outlived its hour
          MaxFaults,   \* bound: statements of requests and reports that fail
          MayFail,     \* whether the work on a task may raise an exception
          NoTask

RequestKinds == {"run", "rerun", "parse", "cancel", "stop", "remove"}

ASSUME ParsingAssumption ==
    /\ Pages # {} /\ Requests \subseteq RequestKinds
    /\ Workers \cap Handlers = {} /\ Server \notin Workers \cup Handlers
    /\ MaxRequests \in Nat /\ MaxRuns \in Nat /\ MaxCrashes \in Nat /\ MaxExpiries \in Nat
    /\ MaxFaults \in Nat
    /\ AttemptLimit \in Nat /\ MayFail \in BOOLEAN

Syncers == Workers \cup {Server}
Tasks == (1..MaxRuns) \X Pages   \* of the n-th run of the document, for a page range
PageOf(t) == t[2]

ASSUME NoTaskAssumption == NoTask \notin Tasks

VARIABLES
    run, progress,  \* of the document
    deleted,        \* the document's row is gone
    rows,           \* tasks with a row in table task
    task,           \* their progress, retry_count, and whether chunk_ids is set
    store,          \* page ranges whose chunks are in the document store
    canceled,       \* tasks that were given a "<id>-cancel" key
    queued, claims, acked,   \* the message queue
    pc,             \* where every worker, handler and the server's thread is
    job,            \* the task a worker has in hand
    memo,           \* what a syncer will write to the document
    todo,           \* tasks a handler has still to queue
    plan,           \* what queue_tasks read of the previous tasks, per handler
    requests, runs, crashes,   \* how often these happened
    expired,        \* tasks whose cancel key is gone again
    attempts,       \* history: how often do_handle_task was entered for a task
    blank,          \* history: page ranges some task built no chunk from
    faults,         \* how many statements failed
    stranded        \* history: tasks whose last report, or whose way to the queue, was one of them

docVars == <<run, progress, deleted>>
queueVars == <<queued, claims, acked>>
handlerVars == <<todo, plan, requests, runs>>
faultVars == <<faults, stranded>>
countVars == <<crashes, expired, attempts, blank, faultVars>>
vars == <<docVars, rows, task, store, canceled, queueVars, pc, job, memo, handlerVars, countVars>>

Queue == INSTANCE TaskDelivery WITH Consumers <- Workers, Msgs <- Tasks

-----------------------------------------------------------------------------
Goto(p, place) == pc' = [pc EXCEPT ![p] = place]

NoPlan == [gen |-> 0, reuse |-> {}, drop |-> {}]

Init ==
    /\ run = "UNSTART" /\ progress = "zero" /\ deleted = FALSE
    /\ rows = {} /\ store = {} /\ canceled = {}
    /\ task = [t \in Tasks |-> [progress |-> "zero", retry |-> 0, indexed |-> FALSE]]
    /\ Queue!Init
    /\ pc = [p \in Syncers \cup Handlers |-> "idle"]
    /\ job = [w \in Workers |-> NoTask]
    /\ memo = [s \in Syncers |-> [run |-> "same", progress |-> "keep"]]
    /\ todo = [h \in Handlers |-> {}]
    /\ plan = [h \in Handlers |-> NoPlan]
    /\ requests = 0 /\ runs = 0 /\ crashes = 0 /\ expired = {}
    /\ attempts = [t \in Tasks |-> 0] /\ blank = {}
    /\ faults = 0 /\ stranded = {}

\* DocumentService.update_by_id: no effect on a document that is gone.
WriteDoc(r, p) ==
    IF deleted THEN UNCHANGED docVars
    ELSE /\ run' = IF r = "same" THEN run ELSE r
         /\ progress' = IF p = "keep" THEN progress ELSE p
         /\ UNCHANGED deleted

-----------------------------------------------------------------------------
(* Requests. Accept... is the check a handler makes before it changes        *)
(* anything; every request counts.                                           *)
Accept(h, kind) ==
    /\ pc[h] = "idle" /\ kind \in Requests /\ ~deleted
    /\ requests < MaxRequests /\ requests' = requests + 1

\* document_app.run with run = 1 ("rerun" has delete = true) does not ask
\* whether the document is being parsed already; parse of the HTTP API does.
AcceptRun(h) ==
    /\ \/ Accept(h, "run") /\ Goto(h, "update")
       \/ Accept(h, "rerun") /\ Goto(h, "updateWipe")
       \/ Accept(h, "parse") /\ progress # "part" /\ Goto(h, "updateWipe")
    /\ runs < MaxRuns /\ runs' = runs + 1
    /\ plan' = [plan EXCEPT ![h].gen = runs + 1]
    /\ UNCHANGED <<docVars, rows, task, store, canceled, queueVars, job, memo, todo, countVars>>

RunUpdate(h) ==
    /\ pc[h] \in {"update", "updateWipe"}
    /\ WriteDoc("RUNNING", "zero")
    /\ Goto(h, IF pc[h] = "update" THEN "prev" ELSE "wipe")
    /\ UNCHANGED <<rows, task, store, canceled, queueVars, job, memo, handlerVars, countVars>>

\* The delete flag, and parse: the task rows of the document go...
RunWipe(h) ==
    /\ pc[h] = "wipe"
    /\ rows' = {}
    /\ Goto(h, "wipeStore")
    /\ UNCHANGED <<docVars, task, store, canceled, queueVars, job, memo, handlerVars, countVars>>

\* ... and then its chunks.
WipeStore(h) ==
    /\ pc[h] = "wipeStore"
    /\ store' = {}
    /\ Goto(h, "prev")
    /\ UNCHANGED <<docVars, rows, task, canceled, queueVars, job, memo, handlerVars, countVars>>

\* the task of a page range that get_tasks lists first: the newest
Newest(t) == \A u \in rows : PageOf(u) = PageOf(t) => u[1] <= t[1]

\* reuse_prev_task_chunks: the digest is the same, the task is done
Reusable(t) == Newest(t) /\ task[t].progress = "one" /\ task[t].indexed

\* queue_tasks reads the previous tasks and plans which chunks to keep.
ReadPrev(h) ==
    /\ pc[h] = "prev"
    /\ IF deleted   \* get_chunking_config returns None: the request fails
       THEN Goto(h, "idle") /\ plan' = [plan EXCEPT ![h] = NoPlan]
       ELSE /\ Goto(h, IF rows = {} THEN "insert" ELSE "drop")
            /\ plan' = [plan EXCEPT
                  ![h].reuse = {PageOf(t) : t \in {u \in rows : Reusable(u)}},
                  ![h].drop = {PageOf(t) : t \in {u \in rows : task[u].indexed /\ ~Reusable(u)}}]
    /\ UNCHANGED <<docVars, rows, task, store, canceled, queueVars, job, memo, todo, requests, runs, countVars>>

DropPrev(h) ==
    /\ pc[h] = "drop"
    /\ rows' = {}
    /\ Goto(h, "dropStore")
    /\ UNCHANGED <<docVars, task, store, canceled, queueVars, job, memo, handlerVars, countVars>>

DropStore(h) ==
    /\ pc[h] = "dropStore"
    /\ store' = store \ plan[h].drop
    /\ Goto(h, "insert")
    /\ UNCHANGED <<docVars, rows, task, canceled, queueVars, job, memo, handlerVars, countVars>>

\* bulk_insert_into_db; a task whose chunks are kept is finished.
InsertTasks(h) ==
    LET new == {plan[h].gen} \X Pages
        Kept(t) == PageOf(t) \in plan[h].reuse
    IN
    /\ pc[h] = "insert"
    /\ rows' = rows \cup new
    /\ task' = [t \in Tasks |->
                  IF t \notin new THEN task[t]
                  ELSE [progress |-> IF Kept(t) THEN "one" ELSE "zero", retry |-> 0, indexed |-> Kept(t)]]
    /\ todo' = [todo EXCEPT ![h] = {t \in new : ~Kept(t)}]
    /\ Goto(h, "begin2parse")
    /\ UNCHANGED <<docVars, store, canceled, queueVars, job, memo, plan, requests, runs, countVars>>

Begin2Parse(h) ==
    /\ pc[h] = "begin2parse"
    /\ WriteDoc("same", "part")
    /\ Goto(h, "enqueue")
    /\ UNCHANGED <<rows, task, store, canceled, queueVars, job, memo, handlerVars, countVars>>

\* queue_product, task by task
EnqueueTask(h) ==
    /\ pc[h] = "enqueue"
    /\ \E t \in todo[h] : /\ Queue!Enqueue(t)
                          /\ todo' = [todo EXCEPT ![h] = @ \ {t}]
    /\ UNCHANGED <<docVars, rows, task, store, canceled, pc, job, memo, plan, requests, runs, countVars>>

RunDone(h) ==
    /\ pc[h] = "enqueue" /\ todo[h] = {}
    /\ Goto(h, "idle")
    /\ plan' = [plan EXCEPT ![h] = NoPlan]
    /\ UNCHANGED <<docVars, rows, task, store, canceled, queueVars, job, memo, todo, requests, runs, countVars>>

\* document_app.run with run = 2: only a RUNNING document, whose tasks then
\* get a cancel key before the document is updated.
AcceptCancel(h) ==
    /\ Accept(h, "cancel") /\ run = "RUNNING"
    /\ Goto(h, "cancelTasks")
    /\ UNCHANGED <<docVars, rows, task, store, canceled, queueVars, job, memo, todo, plan, runs, countVars>>

CancelTasks(h) ==
    /\ pc[h] = "cancelTasks"
    /\ canceled' = canceled \cup rows
    /\ expired' = expired \ rows
    /\ Goto(h, "cancelDoc")
    /\ UNCHANGED <<docVars, rows, task, store, queueVars, job, memo, handlerVars, crashes, attempts, blank, faultVars>>

CancelDoc(h) ==
    /\ pc[h] = "cancelDoc"
    /\ WriteDoc("CANCEL", "zero")
    /\ Goto(h, "idle")
    /\ UNCHANGED <<rows, task, store, canceled, queueVars, job, memo, handlerVars, countVars>>

\* stop_parsing of the HTTP API: no cancel key, and the chunks go.
AcceptStop(h) ==
    /\ Accept(h, "stop") /\ progress \notin {"zero", "one"}
    /\ Goto(h, "stopDoc")
    /\ UNCHANGED <<docVars, rows, task, store, canceled, queueVars, job, memo, todo, plan, runs, countVars>>

StopDoc(h) ==
    /\ pc[h] = "stopDoc"
    /\ WriteDoc("CANCEL", "zero")
    /\ Goto(h, "stopWipe")
    /\ UNCHANGED <<rows, task, store, canceled, queueVars, job, memo, handlerVars, countVars>>

StopWipe(h) ==
    /\ pc[h] = "stopWipe"
    /\ store' = {}
    /\ Goto(h, "idle")
    /\ UNCHANGED <<docVars, rows, task, canceled, queueVars, job, memo, handlerVars, countVars>>

\* document_app.rm: task rows, chunks, then the document itself.
AcceptRemove(h) ==
    /\ Accept(h, "remove")
    /\ Goto(h, "removeWipe")
    /\ UNCHANGED <<docVars, rows, task, store, canceled, queueVars, job, memo, todo, plan, runs, countVars>>

RemoveWipe(h) ==
    /\ pc[h] = "removeWipe"
    /\ rows' = {}
    /\ Goto(h, "removeStore")
    /\ UNCHANGED <<docVars, task, store, canceled, queueVars, job, memo, handlerVars, countVars>>

\* remove_document: a document another request removed meanwhile ends it in
\* clear_chunk_num; a deletion of the chunks that fails is swallowed.
RemoveStore(h) ==
    /\ pc[h] = "removeStore"
    /\ \/ deleted /\ Goto(h, "idle") /\ UNCHANGED <<store, faults>>
       \/ ~deleted /\ Goto(h, "removeDoc") /\ store' = {} /\ UNCHANGED faults
       \/ /\ ~deleted /\ Goto(h, "removeDoc") /\ UNCHANGED store
          /\ faults < MaxFaults /\ faults' = faults + 1
    /\ UNCHANGED <<docVars, rows, task, canceled, queueVars, job, memo, handlerVars,
                   crashes, expired, attempts, blank, stranded>>

RemoveDoc(h) ==
    /\ pc[h] = "removeDoc"
    /\ deleted' = TRUE
    /\ Goto(h, "idle")
    /\ UNCHANGED <<run, progress, rows, task, store, canceled, queueVars, job, memo, handlerVars, countVars>>

Serve(h) == \/ RunUpdate(h) \/ RunWipe(h) \/ WipeStore(h) \/ ReadPrev(h) \/ DropPrev(h) \/ DropStore(h)
            \/ InsertTasks(h) \/ Begin2Parse(h) \/ EnqueueTask(h) \/ RunDone(h)
            \/ CancelTasks(h) \/ CancelDoc(h) \/ StopDoc(h) \/ StopWipe(h)
            \/ RemoveWipe(h) \/ RemoveStore(h) \/ RemoveDoc(h)

\* The tasks of a run that its request has not queued yet.
Unqueued(h) ==
    IF pc[h] \in {"begin2parse", "enqueue"} THEN todo[h] ELSE {t \in Tasks : t[1] = plan[h].gen}

\* A statement of a request raises, queue_product gives up ("Can't access
\* Redis"), or the server dies: what the request has done so far stays.
RequestFails(h) ==
    /\ pc[h] # "idle" /\ faults < MaxFaults
    /\ faults' = faults + 1
    /\ stranded' = stranded \cup Unqueued(h)
    /\ todo' = [todo EXCEPT ![h] = {}]
    /\ plan' = [plan EXCEPT ![h] = NoPlan]
    /\ Goto(h, "idle")
    /\ UNCHANGED <<docVars, rows, task, store, canceled, queueVars, job, memo, requests, runs,
                   crashes, expired, attempts, blank>>

AcceptAny(h) == AcceptRun(h) \/ AcceptCancel(h) \/ AcceptStop(h) \/ AcceptRemove(h)

-----------------------------------------------------------------------------
(* _sync_progress *)

\* Mutant: finished is enough, bad tasks do not count.
SummaryNoBad ==
    IF \E t \in rows : task[t].progress \in {"zero", "part"}
    THEN [run |-> "same", progress |-> "part"]
    ELSE [run |-> "DONE", progress |-> "one"]

Summary ==
    LET P == {task[t].progress : t \in rows}
    IN  IF P \cap {"zero", "part"} # {}
        THEN [run |-> "same", progress |-> IF P \subseteq {"zero", "bad"} THEN "keep" ELSE "part"]
        ELSE IF "bad" \in P THEN [run |-> "FAIL", progress |-> "bad"]
        ELSE [run |-> "DONE", progress |-> "one"]

AfterSync(s) == IF s = Server THEN "idle" ELSE "ack"

\* get_unfinished_docs: only documents with 0 < progress < 1
SyncSelect ==
    /\ pc[Server] = "idle" /\ ~deleted /\ progress = "part"
    /\ Goto(Server, "sync")
    /\ UNCHANGED <<docVars, rows, task, store, canceled, queueVars, job, memo, handlerVars, countVars>>

\* The tasks are read (none: nothing to do)...
SyncTasks(s) ==
    /\ pc[s] = "sync"
    /\ IF rows = {} THEN Goto(s, AfterSync(s)) /\ UNCHANGED memo
       ELSE Goto(s, "syncDoc") /\ memo' = [memo EXCEPT ![s] = Summary]
    /\ UNCHANGED <<docVars, rows, task, store, canceled, queueVars, job, handlerVars, countVars>>

\* ... then the document, whose run is kept while some task is unfinished...
SyncDoc(s) ==
    /\ pc[s] = "syncDoc"
    /\ IF deleted THEN Goto(s, AfterSync(s)) /\ UNCHANGED memo
       ELSE /\ Goto(s, "syncWrite")
            /\ memo' = [memo EXCEPT ![s].run = IF @ = "same" THEN run ELSE @]
    /\ UNCHANGED <<docVars, rows, task, store, canceled, queueVars, job, handlerVars, countVars>>

\* ... and both are written back, whatever the document has become.
SyncWrite(s) ==
    /\ pc[s] = "syncWrite"
    /\ WriteDoc(memo[s].run, memo[s].progress)
    /\ memo' = [memo EXCEPT ![s] = [run |-> "same", progress |-> "keep"]]
    /\ Goto(s, AfterSync(s))
    /\ UNCHANGED <<rows, task, store, canceled, queueVars, job, handlerVars, countVars>>

Sync(s) == SyncTasks(s) \/ SyncDoc(s) \/ SyncWrite(s)

-----------------------------------------------------------------------------
(* A task executor. *)

Advances(p, q) == \/ q = "bad" \/ (p = "zero" /\ q # "zero") \/ (p = "part" /\ q = "one")

\* has_canceled
HasKey(t) == t \in canceled \ expired

\* set_progress: a cancel key turns every report into -1 (the exception it
\* raises for it is caught by its own handler); update_progress ignores a row
\* that is gone or bad, and a report that does not advance.
Reported(t, p) ==
    LET q == IF HasKey(t) THEN "bad" ELSE p IN
    /\ task' = IF t \in rows /\ task[t].progress # "bad" /\ Advances(task[t].progress, q)
               THEN [task EXCEPT ![t].progress = q] ELSE task
    /\ UNCHANGED faultVars

\* An error of the database is logged, and the executor goes on as if the
\* report had been written; if it was the last one, the row stays unfinished.
\* (To lose "part" changes nothing but with a key: get_task has written it.)
ReportLost(t, p) ==
    /\ p # "part" \/ HasKey(t)
    /\ faults < MaxFaults /\ faults' = faults + 1
    /\ stranded' = IF p = "part" THEN stranded ELSE stranded \cup {t}
    /\ UNCHANGED task

Report(t, p) == Reported(t, p) \/ ReportLost(t, p)

Unacked(w) == {t \in Tasks : <<w, t>> \in claims} \ acked

\* collect() returns a message: one this worker did not acknowledge before it
\* crashed, or else a queued one.
Take(w) ==
    /\ pc[w] = "idle"
    /\ \/ \E t \in Unacked(w) : /\ job' = [job EXCEPT ![w] = t]
                                /\ UNCHANGED queueVars
       \/ /\ Unacked(w) = {}
          /\ \E t \in queued : /\ Queue!Claim(w, t)
                               /\ job' = [job EXCEPT ![w] = t]
    /\ Goto(w, "taken")
    /\ UNCHANGED <<docVars, rows, task, store, canceled, memo, handlerVars, countVars>>

\* Mutant: one attempt too many.
GetTaskFourth(w) ==
    LET t == job[w]
        known == t \in rows /\ ~deleted
        spent == task[t].retry > AttemptLimit
        go == known /\ ~spent /\ ~HasKey(t)
    IN
    /\ pc[w] = "taken"
    /\ task' = IF known THEN [task EXCEPT ![t].progress = IF spent THEN "bad" ELSE "part",
                                          ![t].retry = @ + 1]
               ELSE task
    /\ Goto(w, IF go THEN "begin" ELSE "ack")
    /\ attempts' = IF go THEN [attempts EXCEPT ![t] = @ + 1] ELSE attempts
    /\ UNCHANGED <<docVars, rows, store, canceled, queueVars, job, memo, handlerVars, crashes, expired, blank, faultVars>>

\* get_task returns None for a task without row or document, and for one that
\* was attempted that often; collect() acknowledges those, and canceled ones.
GetTask(w) ==
    LET t == job[w]
        known == t \in rows /\ ~deleted
        spent == task[t].retry >= AttemptLimit
        go == known /\ ~spent /\ ~HasKey(t)
    IN
    /\ pc[w] = "taken"
    /\ task' = IF known THEN [task EXCEPT ![t].progress = IF spent THEN "bad" ELSE "part",
                                          ![t].retry = @ + 1]
               ELSE task
    /\ Goto(w, IF go THEN "begin" ELSE "ack")
    /\ attempts' = IF go THEN [attempts EXCEPT ![t] = @ + 1] ELSE attempts
    /\ UNCHANGED <<docVars, rows, store, canceled, queueVars, job, memo, handlerVars, crashes, expired, blank, faultVars>>

workerRest == <<docVars, rows, canceled, queueVars, job, memo, handlerVars, crashes, expired, attempts>>

\* do_handle_task, up to init_kb: the cancel key is looked at.
Begin(w) ==
    /\ pc[w] = "begin"
    /\ IF HasKey(job[w]) THEN Report(job[w], "bad") /\ Goto(w, "record")
       ELSE Goto(w, "build") /\ UNCHANGED <<task, faultVars>>
    /\ UNCHANGED <<store, blank, workerRest>>

\* build_chunks and embedding, with progress reports on the way
Build(w) ==
    /\ pc[w] = "build"
    /\ Report(job[w], "part")
    /\ Goto(w, "insert")
    /\ UNCHANGED <<store, blank, workerRest>>

\* There is nothing in the pages, or build_chunks gave up on a cancel key.
BuildNothing(w) ==
    /\ pc[w] = "build"
    /\ Report(job[w], "one")
    /\ blank' = IF HasKey(job[w]) THEN blank ELSE blank \cup {PageOf(job[w])}
    /\ Goto(w, "record")
    /\ UNCHANGED <<store, workerRest>>

\* insert_es: the chunks are stored first...
InsertChunks(w) ==
    /\ pc[w] = "insert"
    /\ store' = store \cup {PageOf(job[w])}
    /\ Goto(w, "check")
    /\ UNCHANGED <<task, blank, faultVars, workerRest>>

\* ... then the cancel key is looked at, then chunk_ids is written, which
\* does nothing, and says nothing, when the task's row is gone.
CheckInserted(w) ==
    LET t == job[w]
    IN
    /\ pc[w] = "check"
    /\ IF HasKey(t) THEN Report(t, "bad") /\ Goto(w, "record")
       ELSE /\ task' = IF t \in rows THEN [task EXCEPT ![t].indexed = TRUE] ELSE task
            /\ Goto(w, "finish") /\ UNCHANGED faultVars
    /\ UNCHANGED <<store, blank, workerRest>>

Finish(w) ==
    /\ pc[w] = "finish"
    /\ Report(job[w], "one")
    /\ Goto(w, "record")
    /\ UNCHANGED <<store, blank, workerRest>>

\* Mutant: handle_task swallows the exception.
FailSilently(w) ==
    /\ pc[w] \in {"begin", "build", "insert", "check", "finish"}
    /\ Goto(w, "record")
    /\ UNCHANGED <<task, store, blank, faultVars, workerRest>>

\* An exception (a model, the file store, the document store, the 3 hour
\* timeout) ends do_handle_task; handle_task reports -1, and swallows it if that
\* fails too.
Fail(w) ==
    /\ MayFail /\ pc[w] \in {"begin", "build", "insert", "check", "finish"}
    /\ Report(job[w], "bad")
    /\ Goto(w, "record")
    /\ UNCHANGED <<store, blank, workerRest>>

\* record_pipeline_operation: a sync of the document, if it is still there
Record(w) ==
    /\ pc[w] = "record"
    /\ Goto(w, IF deleted THEN "ack" ELSE "sync")
    /\ UNCHANGED <<task, store, blank, faultVars, workerRest>>

AckMsg(w) ==
    /\ pc[w] = "ack"
    /\ Queue!Ack(w, job[w])
    /\ job' = [job EXCEPT ![w] = NoTask]
    /\ Goto(w, "idle")
    /\ UNCHANGED <<docVars, rows, task, store, canceled, memo, handlerVars, countVars>>

Work(w) ==
    \/ Take(w) \/ GetTask(w) \/ Begin(w) \/ Build(w) \/ BuildNothing(w) \/ InsertChunks(w)
    \/ CheckInserted(w) \/ Finish(w) \/ Fail(w) \/ Record(w) \/ Sync(w) \/ AckMsg(w)

\* A worker dies between any two steps; entrypoint.sh starts it again.
Crash(w) ==
    /\ pc[w] # "down" /\ crashes < MaxCrashes
    /\ crashes' = crashes + 1
    /\ job' = [job EXCEPT ![w] = NoTask]
    /\ memo' = [memo EXCEPT ![w] = [run |-> "same", progress |-> "keep"]]
    /\ Goto(w, "down")
    /\ UNCHANGED <<docVars, rows, task, store, canceled, queueVars, handlerVars, expired, attempts, blank, faultVars>>

Restart(w) ==
    /\ pc[w] = "down"
    /\ Goto(w, "idle")
    /\ UNCHANGED <<docVars, rows, task, store, canceled, queueVars, job, memo, handlerVars, countVars>>

\* REDIS_CONN.set writes the cancel key for 3600 seconds.
ExpireKey(t) ==
    /\ HasKey(t) /\ Cardinality(expired) < MaxExpiries
    /\ expired' = expired \cup {t}
    /\ UNCHANGED <<docVars, rows, task, store, canceled, queueVars, pc, job, memo, handlerVars, crashes, attempts, blank, faultVars>>

-----------------------------------------------------------------------------
Next ==
    \/ \E h \in Handlers : AcceptAny(h) \/ Serve(h) \/ RequestFails(h)
    \/ \E w \in Workers : Work(w) \/ Crash(w) \/ Restart(w)
    \/ SyncSelect \/ Sync(Server)
    \/ \E t \in Tasks : ExpireKey(t)

Spec == Init /\ [][Next]_vars

\* A request that was accepted and does not fail is served to its end;
\* executors and the update_progress thread (every 6 seconds) keep running, a dead executor is
\* started again.
Fairness ==
    /\ \A h \in Handlers : WF_vars(Serve(h))
    /\ \A w \in Workers : WF_vars(Work(w) \/ Restart(w))
    /\ WF_vars(SyncSelect \/ Sync(Server))

FairSpec == Spec /\ Fairness

-----------------------------------------------------------------------------
(* Every variable keeps its type. *)
RunStates == {"UNSTART", "RUNNING", "CANCEL", "DONE", "FAIL"}
Progresses == {"zero", "part", "one", "bad"}
Places == {"idle", "update", "updateWipe", "wipe", "wipeStore", "prev", "drop", "dropStore", "insert",
           "begin2parse", "enqueue", "cancelTasks", "cancelDoc", "stopDoc", "stopWipe",
           "removeWipe", "removeStore", "removeDoc",
           "sync", "syncDoc", "syncWrite",
           "taken", "begin", "build", "check", "finish", "record", "ack", "down"}

DataTypeOK ==
    /\ run \in RunStates /\ progress \in Progresses /\ deleted \in BOOLEAN
    /\ rows \subseteq Tasks /\ store \subseteq Pages /\ canceled \subseteq Tasks
    /\ task \in [Tasks -> [progress : Progresses, retry : Nat, indexed : BOOLEAN]]
    /\ queued \subseteq Tasks /\ claims \subseteq Workers \X Tasks /\ acked \subseteq Tasks

ProcTypeOK ==
    /\ pc \in [Syncers \cup Handlers -> Places]
    /\ job \in [Workers -> Tasks \cup {NoTask}]
    /\ memo \in [Syncers -> [run : RunStates \cup {"same"}, progress : Progresses \cup {"keep"}]]
    /\ todo \in [Handlers -> SUBSET Tasks]
    /\ plan \in [Handlers -> [gen : 0..MaxRuns, reuse : SUBSET Pages, drop : SUBSET Pages]]

CountTypeOK ==
    /\ requests \in 0..MaxRequests /\ runs \in 0..MaxRuns
    /\ crashes \in 0..MaxCrashes /\ expired \subseteq Tasks
    /\ attempts \in [Tasks -> Nat] /\ blank \subseteq Pages
    /\ faults \in 0..MaxFaults /\ stranded \subseteq Tasks

TypeOK == DataTypeOK /\ ProcTypeOK /\ CountTypeOK

\* However often its executor crashes and its message is delivered again, a
\* task is given to do_handle_task AttemptLimit times at most.
AttemptsBounded == \A t \in Tasks : attempts[t] <= AttemptLimit

\* Somebody has the task: its message is queued or unacknowledged, or its
\* handler is about to queue it.
HasMessage(t) ==
    \/ t \in queued \/ \E h \in Handlers : t \in todo[h]
    \/ \E w \in Workers : t \in Unacked(w)

\* A task row that is neither finished nor canceled has somebody who will
\* finish it. The only failure path that acknowledges and forgets is a last
\* report the database refuses, and the only request that leaves tasks to
\* nobody is one that fails before it has queued them.
UnfinishedHasMessage ==
    ~deleted => \A t \in rows :
        \/ task[t].progress \in {"one", "bad"}
        \/ t \in canceled \cup stranded
        \/ HasMessage(t)

\* A document that is DONE has the chunks of all its pages in the store,
\* whatever crashed and was delivered again on the way there.
DoneIsIndexed == run = "DONE" /\ ~deleted => Pages \subseteq store \cup blank

\* A task that such a fault has left unfinished for good.
Abandoned(t) ==
    t \in stranded /\ ~HasMessage(t) /\ ~(t \in rows /\ task[t].progress \in {"one", "bad"})

\* The progress of a document that is being parsed comes to an end, so that
\* get_unfinished_docs no longer lists it, whatever its executors do but stop;
\* or a fault has abandoned one of its tasks, and then it never does.
ProgressEnds == run = "RUNNING" ~> progress \in {"one", "bad"} \/ \E t \in Tasks : Abandoned(t)

-----------------------------------------------------------------------------
(* What docs, clients and log messages say, and the code does not do. *)

\* parse_documents "awaits the completion of all parsing tasks", that is, until
\* run is DONE, FAIL or CANCEL (or the progress is 1).
EventuallySettled == run = "RUNNING" ~> run \in {"DONE", "FAIL", "CANCEL"} \/ progress = "one"

\* `3` / `DONE`: "Document processing completed successfully". Once nobody works
\* on the document any more, its chunks are all there.
Quiet ==
    /\ (deleted \/ progress # "part") /\ pc[Server] = "idle" /\ queued = {}
    /\ \A h \in Handlers : pc[h] = "idle"
    /\ \A w \in Workers : pc[w] = "idle" /\ Unacked(w) = {}

DoneAtRestIsIndexed == Quiet => DoneIsIndexed

\* insert_es takes the chunks of a task whose row is gone back out of the store.
DeletedLeavesNothing ==
    Quiet /\ deleted => store = {}
=============================================================================
