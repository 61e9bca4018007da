# TLA+ models of PowerRAG

PowerRAG is a retrieval-augmented-generation server (a fork of RAGFlow) that keeps its
relational data, its message queue, its locks and its cache in OceanBase, with a web client in
which users upload documents, chat, and draw agents and ingestion pipelines. This directory
models three groups of its parts: the core of the server (the queue and the lock built on
database tables, and the life of a document on top of them), the stateful pages of the web client
together with the handlers they talk to, and the services that share a few workers among many
requests.

```
tlc -config WebClient_safety.cfg MCWebClient          # a run, see "Runs"
tlapm AgentPageProofs.tla                             # a proof
```

1. [The system](#1-the-system)
2. [Modules](#2-modules)
3. [Runs](#3-runs)
4. [Fairness](#4-fairness)
5. [Proofs](#5-proofs)
6. [What the code does and its texts do not say](#6-what-the-code-does-and-its-texts-do-not-say)
7. [Not modelled](#7-not-modelled)
8. [Plan](#8-plan)

## 1. The system

Paths are under `src/`.

| component | where | state | operations | what makes it correct |
|---|---|---|---|---|
| Stream queue on OceanBase | `rag/utils/ob_redis_conn.py` (`queue_product`, `queue_consumer`, `get_unacked_iterator`, `xack`, `queue_info`) | tables `message`, `message_subscribe`, `message_consumption`; the iterator of each executor | enqueue, claim, replay at boot, acknowledge | every message has one owner, who handles it until it is acknowledged, over any crash |
| Lock lease on OceanBase | `MysqlDistributedLock` in the same file | one row of table `cache` per lock key | acquire, spin_acquire, release, expiry | two holders are never within their leases; a crashed holder does not block the others |
| Key-value cache | `RedisDB.set/get/...` in the same file | table `cache` | set, get, sorted sets, sets, delete, expiry | an expired key is not read; one statement of several failing leaves no half state |
| Document parsing, server side | `api/apps/document_app.py`, `api/apps/sdk/doc.py`, `api/db/services/task_service.py`, `document_service.py` | rows of `document` and `task`, chunks in the document store, cancel keys | run, rerun, parse, cancel, stop, remove; `queue_tasks`; `_sync_progress` | no task is forgotten; `run` and `progress` tell the truth about tasks and chunks; a request is not undone by what was on its way |
| Task executor | `rag/svr/task_executor.py`, `docker/entrypoint.sh` | tasks in hand; heartbeats | `collect`, `handle_task`, `do_handle_task`, `insert_es`, `set_progress`, `report_status` | failures reach the task row; repeated attempts end; chunks are there when the task says so |
| Agent canvas editor | `web/src/pages/agent/store.ts`, `hooks/`, `form/` | nodes, edges, forms, a placeholder | add, drag, pick, connect, copy, delete by toolbar, keyboard or form | the graph can be run: no cycle, no branch without its form, no missing start |
| Agent page | `web/src/pages/agent`, `web/src/hooks/use-agent-request.ts`, `api/apps/canvas_app.py` | the canvas shown, undo history, autosave timer, saves on their way; the row on the server | edit, undo, redo, autosave, save, run, chat, settings, reset | what the user leaves is stored; what is shown and what is stored come together |
| Pipeline test run | `web/src/pages/agent/hooks/use-*-dataflow.ts`, `use-fetch-pipeline-log.ts`, `rag/flow/pipeline.py` | the run that is followed, its log, the polling flag | run, follow, cancel | a run is followed to its end |
| Chat page | `web/src/pages/next-chats`, `web/src/hooks`, `api/apps/conversation_app.py` | messages shown, streams, the conversation of the URL; conversations stored | ask, stop, regenerate, delete, change of conversation | a stream can be stopped; a question is stored once; the input comes back |
| Dataset generate button, knowledge-base tasks | `web/src/pages/dataset/dataset/generate-button`, `api/apps/kb_app.py` | the task a dataset is bound to, its row and queue message; the progress shown | generate, trace, pause, delete | the task that is bound is worked on; what is shown as running ends |
| GraphRAG merge | `graphrag/general/index.py`, `graphrag/utils.py` | the stored graph | merge under the lock | no subgraph is lost by a merge under an expired lease |
| Code-execution pool | `sandbox/executor_manager` | queue of container names per language, a semaphore, a lock | allocate, check, recreate, execute, release | a container serves one request; none leaves the pool for ever |
| MCP client sessions | `rag/utils/mcp_tool_call_conn.py` | queue of calls, worker coroutine, event loop | call with timeouts, close | every call is answered or times out, by its own result; closing ends |
| Extraction service | `powerrag/server/services/langextract_service.py` | extraction tasks, futures, timers, reserved workers | submit, process, time out | workers are given back; a result stays; an overdue extraction ends |
| PowerRAG server | `powerrag/server` | none of its own (shares tables and queue) | run, parse to chunks, status polls | a document is queued once; asking for a status does not change it |
| Agent canvas (server) | `agent/canvas.py`, `agent/component` | path, component outputs, globals | run, its switches, loops and iterations, cancellation | each component runs on the outputs of those before it; loops end |
| Retrieval, parsers, model providers, stores, tenant API, admin, SDK, the other pages | `api/`, `rag/`, `deepdoc/`, `admin/`, `web/`, `sdk/` | single rows, files, requests to services | — | numeric, textual or pure input and output |

How they interact.

*Server.* A request handler of the API server writes the document, replaces its task rows and
inserts one message per task into the queue of its priority. Each executor polls the queues in
order of priority, claims one message, looks its task up (which counts an attempt), works on it
with progress reports to the task row, stores the chunks, writes their ids into the task row,
folds the tasks into the document (`_sync_progress`), and acknowledges the message. A thread of
the server (`update_progress`, under the lock of that name) does the same folding every 6 seconds.
A cancel request writes a key per task into the cache, which the executors look at between steps.
A dead executor is started again under its old name by `docker/entrypoint.sh` and first replays
its unacknowledged messages. Pipeline runs and graph builds are tasks of the same queue.

*Web client.* A page holds its own copy of what the server stores and changes it before the
server knows. Answers to its requests replace that copy when they arrive: a fetch after an edit, a
stream into a conversation the user has left, a log of a run that is no longer followed. Effects
of React run after each change and make further requests (the autosave's timer, the polling of a
log, the refetch of a list).

*Services.* A request to the sandbox passes a semaphore, takes a container out of a queue, checks
it under a lock, executes, and puts it back. A thread that calls a tool of an MCP server puts a
call before the worker of the session and waits with a timeout of its own. A submitted extraction
reserves workers, is given to a thread pool and watched by a timer.

What is hard here: on the server nearly every step is a database statement of its own, of several
processes, in no transaction with the next one. Executors crash between any two. Leases expire
while their holders work. A summary is computed from rows read earlier and written
unconditionally. In the client one gesture is many calls, and what a later effect or answer finds
is not what the gesture left. In the services timeouts cross late answers, and every way through a
request must give back what it took. `PROJECT.json` lists these hazards line by line with the
properties that are about them.

## 2. Modules

| module | models | composed with |
|---|---|---|
| `TaskDelivery` | the promise of the queue, abstractly: a message is queued, becomes one consumer's for good, is acknowledged by it | |
| `StreamQueue` | the queue's tables, transactions and row locks, the executor's replay and poll loops | implements `TaskDelivery` |
| `DistributedLock` | `MysqlDistributedLock` and its three kinds of users | |
| `DocParsing` | one document: requests, tasks, executors, summaries | uses `TaskDelivery` as its queue |
| `UndoStack` | the promise of an undo history, abstractly: two stacks around what is shown | |
| `AgentGraph` | the graph store of the agent editor and every gesture that changes it | `WebClient` |
| `AgentPage` | the agent page and the row of its canvas; the whole graph is one value here | implements `UndoStack`; `WebClient` |
| `PipelineRun` | the test run of a pipeline: sheets, polling, cancel, queue, executor, log | `WebClient` |
| `ChatClient` | the chat page and the stored conversations | `WebClient` |
| `KbGenerate` | the graph build of a dataset: dropdown, handlers, executor | `WebClient` |
| `WebClient` | the five parts, one at a time: they are different pages and share no variable | |
| `SandboxPool`, `McpSession`, `ExtractionService` | one service each | `WorkPools` |
| `WorkPools` | the three services, one at a time: they are different processes | |
| `MC...` | values for TLC | |
| `...Proofs` | theorems; `WebClientProofs` holds those of `PipelineRun` and `KbGenerate` as well, `WorkPoolsProofs` those of the three services | the proofs of the parts |

`DocParsing` uses the queue through `TaskDelivery`'s actions. That is justified by
`StreamQueue!ImplementsDelivery`, checked and proved, so the document's model need not carry
tables, row locks and replay cursors. `PipelineRun` and `KbGenerate` keep of the queue only which
tasks are waiting and which an executor is in.

### StreamQueue

| state | code |
|---|---|
| `lastId`, `streamOf`, `committed`, `consumed` | table `message`: the auto-increment counter, the column `stream`, whether the insert is committed, the column `consumed` |
| `subscribed`, `consumption` | rows of `message_subscribe` and `message_consumption`, whose unique keys are kept by the actions |
| `pc`, `at`, `cursor` | where `collect` / `queue_consumer` / `get_unacked_iterator` are, the queue they look at, `current_min` |
| `head`, `rowLocks` | the open transaction of `queue_consumer`: the message it read and the rows `for update` locked |
| `inHand` | messages given to `handle_task` coroutines, `MAX_CONCURRENT_TASKS` at most |
| `seen`, `stranded` | history: delivered since boot; taken from a running process by a database error |

Inserting takes two steps (`Insert` draws the id, `Commit` makes it visible), so that ids become
visible out of order. The claiming transaction is `LockRows`, `ReadHead`, `Claim` (or `NoHead`,
`ClaimRefused` by the unique key); `LockTimeout` is `wait 3`. A reader does not see what others
have not committed. A first subscriber of a queue finds no row of its own yet; `Scan` and
`Subscribe` are those statements. Errors: `ReplayFault`, `SubscribeFault`, `TxnFault` (rolled
back), `CommitLost` (committed, but answered by an error), `AckFault`. `Crash` rolls the
transaction back and drops what the process had in hand; `Restart` is `entrypoint.sh`.

### DistributedLock

`row` is the row of one lock key: its value, whether `expire_time` lies ahead, and who wrote it.
`delete_if_equal` and the insert are steps of their own. Users differ in what they do around
`acquire`: `LoopUsers` (`update_progress`, `report_status`) release in a `finally` whether they
got the lock or not, and a second time when they did; `TryUsers` (`_try_with_lock`) try once;
`SpinUsers` (GraphRAG) insert again and again, and `run_graphrag` acquires the lock while it
holds it. A lock key is used by spinning tasks or by the others, not by both; `users` is which of
the two groups a behaviour is about. `Named` users come back after a crash under their old value
(`CONSUMER_NAME`). `InsertLost` is an insert that committed while its caller got an error.
`inLease` is who believes to hold the lock and whose `timeout` has not passed: beyond it the code
makes no promise.

### DocParsing

| state | code |
|---|---|
| `run`, `progress`, `deleted` | the document's row; progress is "zero", "part" (0 < p < 1), "one" or "bad" (-1) |
| `rows`, `task` | table `task`: rows there, and each task's progress, `retry_count`, whether `chunk_ids` is set |
| `store` | page ranges whose chunks are in the document store |
| `canceled`, `expired` | tasks for which a key `<task id>-cancel` was written; those whose key has run out |
| `queued`, `claims`, `acked` | the queue, as in `TaskDelivery` |
| `pc`, `job`, `memo`, `plan`, `todo` | where each request thread, executor and the summary thread is, and the values it carries from one statement to the next |
| `attempts`, `blank` | history: how often a task was worked on; page ranges that have no chunks |

A request is a sequence of actions of its thread: `AcceptRun` `RunUpdate` (`RunWipe`) `ReadPrev`
(`DropPrev`) `InsertTasks` `Begin2Parse` `EnqueueTask`... `RunDone` for run, rerun and parse;
`AcceptCancel` `CancelTasks` `CancelDoc`; `AcceptStop` `StopDoc` `StopWipe`; `AcceptRemove`
`RemoveWipe` `RemoveDoc`. A document's task is a pair of the number of the run that made it and
a page range. `ReadPrev` plans the reuse of chunks as `reuse_prev_task_chunks` does.
An executor goes `Take` `GetTask` `Begin` `Build` `InsertChunks` `CheckInserted` `Finish`
`Record`, the three steps of `Sync`, `AckMsg`; `Fail` ends the work at any step. `Sync` reads the
tasks, reads the document, writes the document: the same three actions for the server's thread and
for the executors, who interleave.

Abstractions. Statements that no other actor's step can tell apart are one action: the deletion of
task rows and of chunks in one request; `get_task` and the look at the cancel key; the look at the
cancel key and the report in `set_progress`; the keys of a document's tasks. The chunks a task
builds are one element of the store, as chunk ids are derived from the content and the document:
a second attempt stores the same ids. Progress values between 0 and 1 are one. One executor
handles one task at a time here (in `StreamQueue` several). A cancel request is sent without
the delete flag. The number of attempts, 3 in the code, is the constant `AttemptLimit`.

### AgentGraph

A node is an identifier that is never used again; its record holds the operator's label, its
parent, and those fields of its form that hold nodes or decide which handles it has (`cases` and
`other` of a Switch, `items` of a Categorize, `tools` and `goto` of an Agent). Edges are a set of
source, handle and target, as `addEdge` keeps no duplicate.

| action | code |
|---|---|
| `AddNext`, with `AddIteration`, `AddSubAgent` | `addCanvasNode` behind a handle: the node, its start node if it is an iteration, the edge, the form of the source |
| `DragToPane`, `PickNode`, `CancelPick` | the placeholder of a drag that ends on the pane, and what becomes of it |
| `Connect` | `onConnect` behind `isValidConnection`: restricted operators, iterations, cycles |
| `Duplicate` | `duplicateNode`, `duplicateIterationNode` |
| `DeleteEdge`, `DeleteNode`, `DeleteIteration`, `DeleteAgent` | the toolbar's deletions, with `updateSwitchFormData` or the agents and tools below |
| `DeleteSelection` | the keyboard: `handleBeforeDelete` filters what is selected, the flow library removes what remains |
| `OpenSwitchForm`, `EditSwitchForm`, `CloseSheet` | the sheet of a Switch, whose values are written over the form at every change |
| `AddItem`, `RemoveItem`, `SetTools`, `SetGoto` | the other forms with their effects on the edges |

Where the code takes the first edge that fits, any edge that fits may be it. `toolbox` bounds an
instance: which labels are used together, and how many nodes.

### AgentPage and UndoStack

A canvas is a number: `Before` (what the store, which outlives the page, holds when it is opened),
`Loaded`, and those the user makes. `history` and `index` are `HistoryManager`'s array and
position; `Push`, `Undo`, `Redo` are its methods. `Show` is what happens at every change of the
canvas shown: it is recorded, and the debounce of the autosave starts again (`timer`) unless the
page has no agent yet. `flight` is the saves on their way, `rows` what handlers of `canvas_app.py`
have read and will write back: `ReadRow` and `WriteRow` are the two halves of reset, setting and
run. `run` and `ask` are how far a run (save, reset, drawer) and a question in the chat are;
the end of an answer fetches the agent again (`touched`, `loading`). History variables: `orderly`
(no request failed, was ignored, or stored an older canvas late) and `skipped` (the timer ran out
while the drawer was open, when nothing is saved).

`UndoStack` keeps what is before and after the canvas shown as two sequences. The refinement maps
them to the parts of `history` on both sides of `index`.

### PipelineRun

A run is the number of its submission. The page: `logVisible` and `runVisible` (the sheets),
`messageId` (the run that is followed), `shownLog`, `stopped` (`isStopFetchTrace`), `polling`.
Calls under way: `sends` (save the graph, then run), `cancels`. The server: `waiting`,
`executing`, `logs`, `keys`. `Callback` is one call of `Pipeline.callback`, `EndCallback` the
END entry, `RunRaises` a run that ends by an exception, `ExecutorDies` and `LogExpires` the faults.
`crossed` remembers that the polling was stopped for another run: the answer to a cancel, and a
complete log that is shown late, both put up one flag that does not say whose it is.

### ChatClient

A message is its role and the id of its question. `shown` is `derivedMessages`; `controller` the
number of the `AbortController` in use; `streams` the completions whose end the page has not read,
with the messages they sent and the controller they hold; `creating` the calls of
`setConversation` without an answer; `stored` the server's conversations. A step is one event the
browser runs to its end, its effects included. A stream is asked, answering, stored; it ends
(`StreamEnds`), is refused, fails, or breaks while it is read (`ReadBreaks`): the last one leaves
the loop of the code spinning, which is `frozen`.

### KbGenerate

`bound` is the task id in the dataset's row, `progress` the task rows, `queue`, `building` and
`canceled` the tasks waiting, in an executor, with a cancel key; `graph` the tasks with entities in
the index. `RunChecks`, `RunQueues`, `RunBinds` are the three steps of `run_graphrag` other requests
come between; `PauseCancels`, `UnbindDeletes`, `UnbindCancels`, `Unbinds` those of pause and delete.
The page polls (`Poll`, `TraceFetched`) while `Loops`.

### SandboxPool, McpSession, ExtractionService

`SandboxPool`: `phase` is where each request is on its way through `run_code_handler`,
`allocate_container_blocking`, `execute_code` and `release_container`. Each docker command is one
step with the outcomes it can have: `Checked` may miss a container that runs, `Made` may fail after
it made one. `lost` is the containers that could not be made again, which the code puts back
nowhere.

`McpSession`: `coro` is each call's coroutine on the session's loop, `answer` what its thread got.
There are two timeouts, the coroutine's (`InnerTimeout`, which needs the loop) and the thread's
(`OuterTimeout`, which does not). `results` is the queue of its own that each call waits on.
`Breaks` ends the connection, `Close` sets the flag and makes the loop stop, `Joined` ends it.

`ExtractionService`: `step` is how far `submit_task` came, `work` what the pool does with the task,
`status` what a client sees, `timers` the timers. `Leave` gives the workers back; `TimerFires`
may meet any of the other three threads.

## 3. Runs

`CHECK_DEADLOCK FALSE` stands where bounded requests run out, where users that crashed or tried
once have nothing left to do, or where a page or a service is simply left alone. In `StreamQueue` a
running executor can always poll, so deadlock is checked.

| run | instance | shows |
|---|---|---|
| `queue` | 2 executors, 2 queues, 2 messages, 1 in hand, 1 crash, 1 database error | claims are unique, heads differ under row locks, handlers own, nothing is lost or delivered twice within a boot, the tables implement `TaskDelivery`, every message is acknowledged |
| `lock` | 2 loops (one keeps its value) and 1 user that tries once, or 3 spinning tasks that acquire twice; 2 crashes, 1 lost answer | exclusion within leases, leases backed by rows, expired rows removed, who spins gets the lock when nothing crashed or was lost |
| `parse_safety` | 2 request threads (symmetric), 2 requests of run, rerun, cancel, stop, remove, 1 page range, 1 executor, 1 crash, 1 expired key | no unfinished task without a message |
| `parse_live` | 1 parse request, 2 page ranges, 1 executor, 2 crashes, 2 attempts | DONE is indexed, attempts are bounded, progress ends |
| `web_safety` | the five parts: graphs of 3 to 5 nodes out of four sets of labels; 2 canvases, 1 save and 1 row on the way; 2 submissions; 2 questions, 2 conversations; 2 builds, 1 pause or delete at once | `TypeOK`, `GraphAcyclic`, `EdgesMatchForms`, `FixedNodesStay`, `AgreesAtRest`, `ImplementsUndoStack`, `FollowedUntilEnd`, `StreamsCanBeStopped`, `QuestionStoredOnce`, `BoundRunIsWorked` |
| `web_live` | four parts; 1 submission with 1 crash or expired log, 1 question | `SavedWhenQuiet`, `RunEndIsShown`, `InputReturns`, `ShownRunEnds` |
| `pools` | 2 containers, 3 requests, 1 death, 1 stop; 2 calls, 2 closers; 3 extractions, 2 workers | `HeldOnce`, `NothingForgotten`, `BusyMeansLost`, `RequestsAnswered`; `AnsweredByOwnResult`, `NothingAfterClose`, `CallsReturn`, `CloseReturns`; `WorkersCounted`, `NeverQueued`, `OverdueEnds` |

Why the bounds are enough.

- Queue: the races are between two transactions on one head message, or between a replay and what
  the process was handed meanwhile; two executors, two messages, and two queues (the replay and the
  poll change queues) give all of them, and the theorems hold for every number.
- Lock: a third user is needed for "the first releases late, the second has acquired, the third
  enters".
- Document: two requests with an executor in between give every overlap of two; two page ranges
  are needed for a task that is finished beside one that is not. Attempts are counted against a
  constant; with two, two crashes use them up, and the theorem is for any number.
- Graph: the hazards need an agent and what hangs below it, a category or a case with its target,
  or an iteration with its start, a child and a node outside. Sets of labels that never act on each other are
  not mixed.
- Agent page: what can cross is an edit, a save, a row that a handler holds, and a fetch. With one
  of each on the way `web_safety` has every pair; two saves on the way (`MaxFlight = 2`, part "editor"
  alone) were checked for both configurations as well, which takes some minutes, and `AgreesAtRest` and the
  refinement are proved for every bound. Two graph cases of a Switch (`MaxCases = 2`, part "graph" alone)
  and pipeline faults in the safety configuration (`MaxLogFaults = 1`) were checked in the same way.
- Pipeline, dataset: "another run" needs two runs.
- Chat: the first question of a new conversation crosses one change of conversation; a second
  question is needed for a stale list of messages.
- Pools: one more request than containers, so that one waits; two calls, so that a late
  answer has another call to reach; one extraction that takes all workers and two that fit together.

The runs that must find a violation are in section 6.

What the properties say beyond their comments:

- `DeliveredOncePerBoot`: the replay lists unacknowledged messages by id above a cursor that only
  moves up. Without it the messages a handler is still working on would be returned again.
- `UnfinishedHasMessage` ties task rows, cancel keys, the queue and the request threads together:
  no path through a crash, a failure, a cancel or an overlapping second run leaves a task row that
  nobody will finish.
- `DoneIsIndexed` holds for one run with any crashes and failures (and is proved of it). It does not
  survive a second run, see `parse_stale`.
- `ProgressEnds` says that `progress` comes to 1 or -1. It does not say that `run` is DONE or FAIL
  then, see `parse_stuck`.
- `GraphAcyclic` is not a restatement of `hasCanvasCycle`: only an edge drawn by hand is asked. Edges made
  by the menu, by a picked placeholder, by a copy or by a form must not close a cycle either.
- `AgreesAtRest` and `SavedWhenQuiet` name what they exclude by `orderly` and `skipped`. Edits made
  while the chat drawer is open are among it: the timer that runs out then saves nothing, and the
  fetch at the end of an answer replaces them.
- `FollowedUntilEnd` excludes `crossed`, the two ways the flag of one run stops the polling of
  another. The log sheet of the next run takes it down again, which is what the property is about.
- `BusyMeansLost`: the semaphore has the size of the pool, so that a free container is there for
  everyone who passes it. `sandbox/README.md` explains "busy" by all containers being in use; in the
  code it means that one was lost.

## 4. Fairness

- Executors: `WF` on the steps of a running executor and on its restart. `main` in
  `task_executor.py` loops for ever, `entrypoint.sh` restarts the process when it ends.
- Acknowledgement: `SF` in `StreamQueue`. The coroutine of a handler ends (`do_handle_task` has a
  timeout of three hours) and gets its turn between two `collect`s, but not in the middle of one,
  so that it is not continuously enabled.
- Requests: `WF` on a request that was accepted; none on accepting one.
- Server thread: `WF` on the selection of unfinished documents and on its steps, every 6 seconds.
- Commits of inserts: `WF`.
- Locks: `WF` on the expiry (time passes) and on the loops, which never end and are started again
  when their process died; `SF` on insert and release of spinning tasks: a task that inserts every
  ten seconds does not lose the race for a free lock every time, and the work under the lock ends.
  No fairness for those who try once.
- `EventuallyAcked` excludes a message that a database error took from a running process (`stranded`):
  it waits for the next boot, which nothing brings about.
- Agent page: `WF` on the answer to a fetch and to a save (either may be a failure), on the timer (twenty
  quiet seconds come) and on the end of an answer. None on the user.
- Pipeline: `WF` on the page's polls and their answers, and on taking and ending a run that is queued.
- Chat: `WF` on the end of each request, in any of the ways it can end.
- Dataset: `WF` on the polls, on taking a queued build and on its end, good or bad.
- Sandbox: `WF` on each request's own steps: allocation gives up after ten seconds, docker commands
  that look at a container or make one have timeouts, the lock is handed on. None on the execution, whose
  unpacking has no timeout, nor on new requests.
- MCP: `WF` on the calling thread's timeout and on the loop's stop with the closer's join. None on the
  server's answers.
- Extractions: `WF` on the timers. None on the model that is asked.
- No fairness on crashes, errors, expiries of cancel keys and logs, and failures of the work.

`WebClient` and `WorkPools` restate the fairness of their parts for the part a behaviour is about. Two
actions that are never enabled together share a condition there.

## 5. Proofs

Checked by tlapm with SMT, Zenon and PTL, for every value of the constants that satisfies the
`ASSUME`s (which the runs evaluate). Each component has theorems about its own specification;
`WebClientProofs` and `WorkPoolsProofs` carry them over to the compositions that the runs check.

`StreamQueueProofs`. The inductive invariant `IInv` is `TypeOK` with

- `StreamInv`: every id handed out has a queue;
- `HeadInv`: a transaction about to claim has read a visible message of the queue it is at;
- `LockInv`: row locks belong to a transaction on that queue, and two transactions with locks are
  on different queues: this is what makes `LockedHeadsDiffer` true, since a message has one queue;
- `SeenInv`: what a process was handed is consumed, and not above the cursor of its replay:
  without it `DeliveredOncePerBoot` would not follow, as nothing in the other conjuncts says where
  the cursor is;
- `ClaimedOnce`, `HandledByOwner`, `NothingLost` themselves.

Each conjunct has a lemma with one step per action. `TypeCorrect`, `ClaimsAreUnique`,
`LockSerialisesReaders`, `HandlersOwn` and `NoMessageLost` follow; `NoRedeliveryWithinBoot` is the
action property, from `IInv` in the first state of a step; `QueueDelivers` is the refinement: each
action maps to `Enqueue`, `Claim` or `Ack` of `TaskDelivery` or to a stutter.

`DistributedLockProofs`. Under `DistinctValues` (every user has a lock value of its own, as
`uuid4` values and executor names are) the invariant is `TypeOK` with: the row's value is its
writer's; a user is in its lease only while it holds; and `LeaseBacked`. `TypeCorrect`,
`LeasesAreBacked` and `Exclusion` follow. `lock_merge` shows that the assumption is needed.

`DocParsingProofs`. The inductive invariant `IInv` is `TypeOK` with

- `QueueInv`: a claimed message has one executor and is no longer queued;
- `JobInv`: what an executor works on, it has claimed and not acknowledged, so that two executors
  never have one task in hand (`JobsDiffer`);
- `RunInv`: a request whose tasks are not inserted yet has a run number no row, message or attempt has
  seen, and no other such request has it: without it `InsertTasks` could reset the `retry_count` of a
  task that was attempted;
- `TodoInv`: only a request between the insert of its tasks and its end has tasks to queue;
- `CountInv`: `attempts[t] <= task[t].retry`, and at most `AttemptLimit`.

`TypeCorrect` and `AttemptsLimited` follow. `NoTaskForgotten` needs two more conjuncts, `SettledInv` (a
task an executor is about to acknowledge has no row, was canceled, or has a final progress) and
`UnfinishedHasMessage` itself. The proof is by actor: a frame lemma says what a request, a summary and
an executor leave alone, and each conjunct has one step per action that can disturb it.

`OnceRunDoneIsIndexed` is `DoneIsIndexed` under the hypothesis `OneRun`: the document is run once, by any of
the three requests, and otherwise only canceled, with any executors, page ranges, crashes and second
deliveries. To `IInv` it adds `NothingTaken` (nothing is dropped, and nothing reused), `RowsStored` (the
rows of the run come at once, a finished one has its chunks, and an executor behind the insert has stored
its own), and `DoneStored`, which has to speak of the DONE a summary has computed and not written yet as well
as of the one in the row. Of a second run, a stop or a removal `RowsStored` is false.

`AgentPageProofs`. `PageInv` is `PageTypeOK` with

- `HistoryInv`: the canvas shown is the one the history stands at. The refinement needs it: `Undo` of
  the page writes the canvas of the history, `Undo` of the stack moves the one that is shown;
- `FirstAnswer`: a page without an answer takes the first one it gets;
- `Settled`: once the timer is not running, the last save on its way carries the canvas shown, or, with
  none on its way, the server has that canvas or the page is about to fetch. `AgreesAtRest` is not
  inductive: it says nothing of a save that is on its way.

`PageTypeCorrect`, `PageAgreesAtRest` and `PageImplementsUndoStack` follow.

`AgentGraphProofs`. The inductive invariant `GraphInv` is `Sound` of the graph, with the sheet and the
toolbox in their types. `Sound` is stated of any nodes and edges, since a gesture makes several changes
before it is done, and each is shown to keep it:

- `Typed`: nodes, edges and the placeholder have ids that were made;
- `FixedNodes`: Begin is there and at the top, the start of an iteration is in an iteration;
- `HangsOnce`: what hangs below an agent is an agent or a tool, and nothing else leads to it: this is
  why deleting what is below an agent does not delete a node that is elsewhere too;
- `LeadsToLive`: the edge of a node that is there leads to a node that is there, of the same parent or
  out of an iteration. Edges do stay behind (section 6), but their sources are gone as well;
- `PlaceholderOnly`: the placeholder is one and does not hang below an agent;
- `HandlesMatch`: a Switch has the handles of a Switch only;
- `FormsMatch` and `Acyclic`, the two properties that are checked.

`Shrinks`, `Grows` and `Connects` are the three ways a graph changes: nodes and edges are taken away, new
nodes come that nothing leads to yet but what was drawn for them, or one edge is drawn which
`hasCanvasCycle` has let through. `Acyclic` says that of any sources one leads to none of them. It needs no
paths: that a refused edge is the only way to close a cycle follows from `ReachIsClosed` and
`ReachIsEntered`, which say that `Reach` is the least set closed under the edges. There is one lemma per
action (`AddNextInv`, `ConnectInv`, `DuplicateInv`, `DeleteSelectionInv`, ...), and `GraphTypeCorrect`,
`NoCycleIsDrawn`, `EdgesFollowForms` and the action property `FixedNodesAreKept` follow.

`ChatClientProofs`. `ChatInv` is the types (`PlaceOK`, `CreatingOK`) with

- `Messages(s, asked)` of what is shown, of each conversation stored (`StoredOK`) and of what each stream
  sent (`StreamsOK`): no question is twice in `s` (`Once`), and questions have ids that were given
  (`Numbered`). The second part is why the next question is new to every list, and the first has to hold
  of what is on its way, since `Completed` stores it;
- `StreamsCanBeStopped`.

The lemmas say that each change of a list keeps `Messages`: appending a question or an answer, dropping the
last, cutting behind an answer, taking a pair (`PairTaken`) or all with one id (`IdTaken`) out.
`ChatTypeCorrect`, `EveryStreamCanBeStopped` and `QuestionsAreStoredOnce` follow.

`WebClientProofs` has three parts. For the pipeline run, `PipelineInv` is `PipelineTypeOK` with: only
submitted runs have logs (`KnownRuns`); the two sheets are never both shown (`OneSheet`); while a run is
being sent, the flag is down unless it was put up for another since (`DownForTheNext`); when a complete log
has stopped the polling, no fetch is out that could show it incomplete again (`NoLateFetch`); and
`FollowedUntilEnd`. `PipelineTypeCorrect` and `RunsAreFollowed` follow. For the dataset, `KbInv` is
`KbTypeOK` with: a request has a task of its own that nobody has bound yet (`OwnTasks`); the tasks in the
hands of a pause or delete were requested (`KnownUnbinds`); what a request has queued and not bound yet is
worked on (`QueuedRunsAreWorked`), without which binding it would not be safe; and `BoundRunIsWorked`.
`KbTypeCorrect` and `BoundRunsAreWorked` follow. For the whole, `PartsStayApart`: a behaviour of `WebClient`
is one of each of the five parts, as a step of one part leaves the variables of the others. Hence
`WebClientTypeCorrect`, `WebClientIsSafe` (the seven invariants of `web_safety` besides the types) and
`WebClientStepsAreSafe` (`FixedNodesStay`, `ImplementsUndoStack`), which are about the very specification
that the run checks.

`WorkPoolsProofs` has four. For the sandbox, `SandboxInv` is `SandboxTypeOK` with: a request holds a
container exactly in the phases that look at one (`HoldsInPhase`); `HeldOnce`; `NothingForgotten`; and
`PollingMeansLost`, that no more requests than containers are inside and who waits for a container does so
because one was lost. The step into "polling" is a counting argument: were nothing lost, an empty pool would
mean that every container is held by another request inside, which are too few. `SandboxTypeCorrect`,
`ContainersAreHeldOnce`, `NoContainerForgotten` and `BusyOnlyAfterALoss` follow. For a session, `McpInv` is
`McpTypeOK` with: after a close began, somebody waits for the loop or it has stopped (`CloserWaits`); a
call's queue holds its own result only (`OwnResults`). `McpTypeCorrect`, `CallsGetTheirResults` and
`ClosedIsQuiet` follow. For the extractions, `ExtractionInv` is `ExtractionTypeOK` with `TasksInStep` (a task
is with the pool once it is stored, and a success was written by the thread that processed it) and
`WorkersCounted`. A worker that is out is a pair of its task and a number, so that the count is the size of a
set and `ReserveCounts` and `LeaveCounts` are facts about disjoint unions. `AcceptedTasksHaveThreads` is not
an invariant of its own: the first worker of each task that is queued or runs is among those that are out,
which are at most `MaxWorks`. `ExtractionTypeCorrect`, `WorkersAreCounted` and `ResultsStay` follow too. For
the whole, `ServicesStayApart`, `ServicesAreSafe` and `ServicesStepsAreSafe`, as above.

Every invariant, action property and refinement that a passing run checks is stated by a theorem. Two have a
hypothesis: `LeasesAreBacked` and `Exclusion` need distinct values, `OnceRunDoneIsIndexed` one run. Both
hypotheses are needed, as `lock_merge` and `parse_stale` show.

Induction over data is avoided or done by hand. Where a proof needs the first or last element with some
property, it takes the least number of a set, which exists as `<` is well-founded (`LeastOf`, `AllUpTo` and
`GreatestOf` of `ChatClientProofs`); that the recursive function in `WithoutId` exists is shown in the same
way (`KeptExists`), by the least length for which there would be none.

Only model-checked: all liveness (`EventuallyAcked`, `ExpiredIsFreed`, `SpinAcquiresUndisturbed`,
`ProgressEnds`, `SavedWhenQuiet`, `RunEndIsShown`, `InputReturns`, `ShownRunEnds`, `RequestsAnswered`,
`CallsReturn`, `CloseReturns`, `OverdueEnds`), since the prover reasons neither about ENABLED nor about
fairness.

The type invariants of the components, and `SuccessStays`, are left to the proofs; `web_safety` checks the
types of all its parts as well.

## 6. What the code does and its texts do not say

Each of these is a run that must find a violation; the line quoted is in `PROJECT.json`.

| run | text | what happens |
|---|---|---|
| `lock_stuck` | spin_acquire acquires by polling | an expired row is deleted only before the loop: who spins already when the holder dies, spins for ever |
| `lock_merge` | a conflict means the lock is held | all merges of a knowledge base use the value `batch_merge`, so a second one deletes the row of the first and enters |
| `parse_stuck` | parsing is awaited until it is completed | a stale summary of the server writes RUNNING over FAIL with progress -1; nothing looks at the document again |
| `parse_stale` | DONE: processing completed successfully | a summary of the first run is written after the second has failed: DONE without chunks |
| `parse_remove` | a task that is unknown has its chunks removed | the UPDATE of an unknown task raises nothing: chunks of a removed document stay |

Seen in the models, without runs of their own:

- a lock row that ran out is deleted by whoever comes, whatever its value (which is how a dead holder's
  lock is freed); `stop_parsing` sets no cancel key, so that executors finish and the document becomes
  DONE; the replay lists the messages of one executor name only;
- `deleteIterationNodeById` keeps the edges of the children it removes, `deleteAllDownstreamAgentsAndTool`
  those to nodes that stay; an iteration added behind a case or category hangs on another handle than the
  one that was clicked;
- the log of a pipeline run that has expired is never written again, and a log that is complete is polled
  again when its sheet is reopened;
- an error while a chat stream is read is caught inside the loop that reads, which then never ends;
- two requests to build a graph that cross both queue a task, of which one is bound; a build that is
  canceled goes on writing until its next report;
- a container that cannot be made again shrinks the pool for ever; unpacking the code into a container
  has no timeout;
- an extraction marked FAILED by its timer becomes SUCCESS when its thread ends.

`lock_stuck` and `lock_merge` use the value of `run_graphrag_for_kb`, the caller in use; `run_graphrag`,
whose value is the document's id and which the spinning users of `lock` are about, is kept in the code
beside it, its call in the executor commented out.

## 7. Not modelled

`PROJECT.json` names every component with its reason. In short: retrieval, prompting, document parsers
and text splitters are numeric or textual; model providers, file stores and agent tools are calls to
services; tenant, user and admin requests are single-row reads and writes; the Redis backend is calls to
a Redis server; most pages of the web client show a list or a form over one request each. In the parts
modelled:

- server: the counters `chunk_num` and `token_num`, the rows of the operation log, a server that dies
  within a request, a message that is queued twice by the retry of `queue_product`;
- editor: positions, names, single-node debugging and the forms that hold no node; React Flow is what
  its use in the code implies;
- agent page: a stream that breaks (in `ChatClient`); logs and versions of an agent;
- chat: the comparison of several models, shared chats, references and files;
- graph builds: the entities themselves, and the documents that take part;
- sandbox: the second language, which shares only the lock, and the analysis of the code.

## 8. Plan

Done: `TaskDelivery`, `StreamQueue`, `DistributedLock`, `DocParsing`; `AgentGraph`, `AgentPage` with
`UndoStack`, `PipelineRun`, `ChatClient`, `KbGenerate`, `WebClient`; `SandboxPool`, `McpSession`,
`ExtractionService`, `WorkPools`; proofs of all safety properties of the runs, of the components and of
their compositions.

Next, in this order:

1. Proofs: safety of the modules below as they come; of `DocParsing`, under which requests a removed
   document keeps no task rows once its request is done.
2. `DocParsing` extended by a server that dies within a request, a message queued twice, status polls
   of the PowerRAG server that count as attempts (`UnfinishedHasMessage` then needs a server that
   stays up).
3. `ChunkCounters`: `chunk_num` and `token_num` of document and knowledge base under attempts, reruns,
   chunk edits and removal; the abstract count is the number of chunks stored.
4. `GraphRagMerge`, composed with `DistributedLock` and `KbGenerate`: no subgraph lost by merges that
   overlap or by a build that was canceled.
5. `CanvasRun`: the run loop over its growing path, switches, loops and iterations.
6. `ExecutorRegistry` and `KvCache`: heartbeats in sorted sets, removal of silent executors.
