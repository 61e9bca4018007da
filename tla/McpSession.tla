------------------------------- MODULE McpSession -------------------------------
(***************************************************************************)
(* A session with an MCP server (rag/utils/mcp_tool_call_conn.py): threads *)
(* that call tools, one event loop in a thread of its own with a coroutine *)
(* per call and one worker coroutine that takes the calls from a queue,    *)
(* and threads that close the session, at the end of a request or when the *)
(* server stops.  Each call has two timeouts: the coroutine's, which needs *)
(* the loop, and the calling thread's, which does not.  close_sync has no  *)
(* caller and is left out.                                                 *)
(***************************************************************************)
EXTENDS Naturals, Sequences

CONSTANTS Calls,     \* calls of tool_call and get_tools
          Closers,   \* calls of close
          NoCall

ASSUME McpAssumption == NoCall \notin Calls

VARIABLES closing,  \* _close
          loop,     \* _event_loop: running, halting (stop is scheduled) or stopped
          worker,   \* _mcp_server_loop: connecting, ready, failed or ended
          serving,  \* the call the MCP server works on
          queue,    \* _queue
          coro,     \* of each call: none, scheduled, waiting or ended
          results,  \* what each call's own queue holds: the call answered, or "error"
          answer,   \* what the calling thread got, "none" until then
          begun,    \* history: calls the MCP server has been asked
          closers   \* of each closer: new, closing, joining or closed

mcpVars == <<closing, loop, worker, serving, queue, coro, results, answer, begun, closers>>

McpInit ==
  /\ closing = FALSE /\ loop = "running" /\ worker = "connecting"
  /\ serving = NoCall /\ queue = <<>>
  /\ coro = [c \in Calls |-> "none"]
  /\ results = [c \in Calls |-> {}]
  /\ answer = [c \in Calls |-> "none"]
  /\ begun = {}
  /\ closers = [k \in Closers |-> "new"]

Turning == loop # "stopped"

\* The flag is looked at before each wait for a call, of a second at most.
Waits(w) == IF closing THEN "ended" ELSE w

-----------------------------------------------------------------------------
(* tool_call, in the calling thread                                        *)

\* run_coroutine_threadsafe, which a stopped loop takes as well.
Call(c) ==
  /\ coro[c] = "none"
  /\ coro' = [coro EXCEPT ![c] = "scheduled"]
  /\ UNCHANGED <<closing, loop, worker, serving, queue, results, answer, begun, closers>>

\* Mutant: the thread waits for the coroutine however long it takes.
OuterTimeoutOfLoop(c) ==
  /\ coro[c] # "none" /\ answer[c] = "none" /\ Turning
  /\ answer' = [answer EXCEPT ![c] = "timeout"]
  /\ UNCHANGED <<closing, loop, worker, serving, queue, coro, results, begun, closers>>

\* The thread has waited long enough; the coroutine goes on.
OuterTimeout(c) ==
  /\ coro[c] # "none" /\ answer[c] = "none"
  /\ answer' = [answer EXCEPT ![c] = "timeout"]
  /\ UNCHANGED <<closing, loop, worker, serving, queue, coro, results, begun, closers>>

-----------------------------------------------------------------------------
(* _call_mcp_server, in the loop                                           *)

Queues(c) ==
  /\ Turning /\ coro[c] = "scheduled"
  /\ coro' = [coro EXCEPT ![c] = "waiting"]
  /\ queue' = Append(queue, c)
  /\ UNCHANGED <<closing, loop, worker, serving, results, answer, begun, closers>>

Ends(c, with) ==
  /\ coro' = [coro EXCEPT ![c] = "ended"]
  /\ answer' = IF answer[c] = "none" THEN [answer EXCEPT ![c] = with] ELSE answer
  /\ UNCHANGED <<closing, loop, worker, serving, queue, begun, closers>>

\* Mutant: the calls share one queue of results.
CollectsAny(c) ==
  /\ Turning /\ coro[c] = "waiting"
  /\ \E d \in Calls : \E r \in results[d] :
       Ends(c, r) /\ results' = [results EXCEPT ![d] = {}]

Collects(c) ==
  /\ Turning /\ coro[c] = "waiting"
  /\ \E r \in results[c] : Ends(c, r) /\ results' = [results EXCEPT ![c] = {}]

\* What was asked stays in the worker's queue.
InnerTimeout(c) ==
  /\ Turning /\ coro[c] = "waiting"
  /\ Ends(c, "timeout")
  /\ UNCHANGED results

-----------------------------------------------------------------------------
(* _mcp_server_loop and _process_mcp_tasks                                 *)

\* The connection is initialised, or is not: then every call is an error.
Connects ==
  /\ Turning /\ worker = "connecting"
  /\ worker' \in {Waits("ready"), Waits("failed")}
  /\ UNCHANGED <<closing, loop, serving, queue, coro, results, answer, begun, closers>>

\* The wait in which the flag is set may still end with a call.
TakeCall ==
  /\ Turning /\ worker \in {"ready", "failed"} /\ serving = NoCall /\ queue # <<>>
  /\ queue' = Tail(queue)
  /\ IF worker = "ready"
     THEN /\ serving' = Head(queue) /\ begun' = begun \cup {Head(queue)}
          /\ UNCHANGED <<worker, results>>
     ELSE /\ results' = [results EXCEPT ![Head(queue)] = {"error"}]
          /\ worker' = Waits("failed")
          /\ UNCHANGED <<serving, begun>>
  /\ UNCHANGED <<closing, loop, coro, answer, closers>>

\* The MCP server answers or refuses.
Served ==
  /\ Turning /\ serving # NoCall
  /\ \E r \in {serving, "error"} : results' = [results EXCEPT ![serving] = {r}]
  /\ serving' = NoCall /\ worker' = Waits(worker)
  /\ UNCHANGED <<closing, loop, queue, coro, answer, begun, closers>>

\* The transport is cancelled: the call that is served is never answered.
Breaks ==
  /\ Turning /\ worker = "ready"
  /\ worker' = Waits("failed") /\ serving' = NoCall
  /\ UNCHANGED <<closing, loop, queue, coro, results, answer, begun, closers>>

\* The wait ends without a call.
WorkerEnds ==
  /\ Turning /\ worker \in {"ready", "failed"} /\ serving = NoCall /\ closing
  /\ worker' = "ended"
  /\ UNCHANGED <<closing, loop, serving, queue, coro, results, answer, begun, closers>>

-----------------------------------------------------------------------------
(* close                                                                   *)

\* Who finds the flag set returns at once; two threads may find it not set.
CloseLooks(k) ==
  /\ closers[k] = "new"
  /\ closers' = [closers EXCEPT ![k] = IF closing THEN "closed" ELSE "closing"]
  /\ UNCHANGED <<closing, loop, worker, serving, queue, coro, results, answer, begun>>

Halts == loop' = IF loop = "running" THEN "halting" ELSE loop

\* Mutant: the thread pool is shut down without waiting.
CloseAtOnce(k) ==
  /\ closers[k] = "closing"
  /\ closers' = [closers EXCEPT ![k] = "closed"]
  /\ closing' = TRUE /\ Halts
  /\ UNCHANGED <<worker, serving, queue, coro, results, answer, begun>>

\* It sets the flag, schedules the stop of the loop and waits for its thread.
Close(k) ==
  /\ closers[k] = "closing"
  /\ closers' = [closers EXCEPT ![k] = "joining"]
  /\ closing' = TRUE /\ Halts
  /\ UNCHANGED <<worker, serving, queue, coro, results, answer, begun>>

\* Mutant: the loop stops when the worker has left it.
LoopStopsIdle ==
  /\ loop = "halting" /\ worker = "ended"
  /\ loop' = "stopped"
  /\ UNCHANGED <<closing, worker, serving, queue, coro, results, answer, begun, closers>>

\* run_forever returns, whatever its coroutines wait for.
LoopStops ==
  /\ loop = "halting"
  /\ loop' = "stopped"
  /\ UNCHANGED <<closing, worker, serving, queue, coro, results, answer, begun, closers>>

Joined(k) ==
  /\ closers[k] = "joining" /\ loop = "stopped"
  /\ closers' = [closers EXCEPT ![k] = "closed"]
  /\ UNCHANGED <<closing, loop, worker, serving, queue, coro, results, answer, begun>>

McpNext ==
  \/ \E c \in Calls : Call(c) \/ Queues(c) \/ Collects(c) \/ InnerTimeout(c) \/ OuterTimeout(c)
  \/ Connects \/ TakeCall \/ Served \/ Breaks \/ WorkerEnds \/ LoopStops
  \/ \E k \in Closers : CloseLooks(k) \/ Close(k) \/ Joined(k)

McpSpec == McpInit /\ [][McpNext]_mcpVars

\* Threads run and their timeouts pass; an MCP server need never answer.
\* Closers wait for the loop: its stop and their joins are never enabled
\* together, and each happens once.
McpFairness ==
  /\ \A c \in Calls : WF_mcpVars(OuterTimeout(c))
  /\ WF_mcpVars(LoopStops \/ \E k \in Closers : Joined(k))

-----------------------------------------------------------------------------
(* Properties.                                                             *)

McpTypeOK ==
  /\ closing \in BOOLEAN /\ loop \in {"running", "halting", "stopped"}
  /\ worker \in {"connecting", "ready", "failed", "ended"}
  /\ serving \in Calls \cup {NoCall} /\ queue \in Seq(Calls)
  /\ coro \in [Calls -> {"none", "scheduled", "waiting", "ended"}]
  /\ results \in [Calls -> SUBSET (Calls \cup {"error"})]
  /\ answer \in [Calls -> Calls \cup {"none", "error", "timeout"}]
  /\ begun \subseteq Calls
  /\ closers \in [Closers -> {"new", "closing", "joining", "closed"}]

\* A late answer reaches the call it belongs to or nobody: a thread never gets
\* the result of another call, such as one that has timed out.
AnsweredByOwnResult == \A c \in Calls : answer[c] \in {c, "none", "error", "timeout"}

\* When every close that waits has returned, the MCP server is asked nothing
\* more.
NothingAfterClose ==
  [][(\E k \in Closers : closers[k] = "closed") /\ ~ (\E k \in Closers : closers[k] = "joining")
     => begun' = begun]_mcpVars

\* A call returns to its thread, though the MCP server hangs, the connection
\* breaks, or the session is closed under it.
CallsReturn == \A c \in Calls : coro[c] # "none" ~> answer[c] # "none"

\* Closing returns, though the MCP server hangs.
CloseReturns == \A k \in Closers : closers[k] = "joining" ~> closers[k] = "closed"
=============================================================================
