------------------------------ MODULE PipelineRun ------------------------------
(***************************************************************************)
(* The test run of an ingestion pipeline: the Run button of the agent page *)
(* (web/src/pages/agent/index.tsx), the sheets for the file and for the    *)
(* log, the polling of the log (use-fetch-pipeline-log.ts), canceling, the *)
(* handlers of canvas_app.py, and the executor that runs the pipeline and  *)
(* writes the log (rag/flow/pipeline.py).                                  *)
(*                                                                         *)
(* A run is the number of its submission, which is also the identifier of  *)
(* its task.  A log is "absent" (not begun, or expired), "empty", "going"  *)
(* or "ended", when its last entry is END; the page takes an absent log    *)
(* for an empty one.  A fetch of the log reads and answers in one step; of *)
(* one that fails the next poll is the repetition.                         *)
(***************************************************************************)
EXTENDS Naturals, FiniteSets

CONSTANTS MaxSubmits,     \* bound: files submitted
          MaxLogFaults    \* bound: crashes of an executor and logs that expire

ASSUME PipelineAssumption == MaxSubmits \in Nat /\ MaxLogFaults \in Nat

NoRun == 0
PipelineRuns == 1..MaxSubmits

VARIABLES logVisible,  \* pipelineLogSheetVisible
          runVisible,  \* pipelineRunSheetVisible
          messageId,   \* the run whose log is polled
          shownLog,    \* data: "none" before the first answer
          stopped,     \* isStopFetchTrace
          polling,     \* a fetch of the log is out
          submitted,   \* files submitted so far
          sends,       \* calls of run that have not returned
          cancels,     \* calls of handleCancel that have not returned
          waiting,     \* messages no executor has taken
          executing,   \* runs an executor is in
          logs,        \* run -> log
          keys,        \* runs with a cancel key
          faults,      \* crashes and expiries so far
          paused,      \* history: runs whose cancel the page was told of
          crossed,     \* history: polling was stopped for another run
          lost         \* history: runs whose log will not end

sheetVars == <<logVisible, runVisible>>
followVars == <<messageId, shownLog, stopped, polling, crossed>>
callPipelineVars == <<submitted, sends, cancels, paused>>
runnerVars == <<waiting, executing, logs, keys, faults, lost>>
pipelineVars == <<sheetVars, followVars, callPipelineVars, runnerVars>>

PipelineInit ==
  /\ logVisible = FALSE /\ runVisible = FALSE
  /\ messageId = NoRun /\ shownLog = "none" /\ stopped = FALSE /\ polling = FALSE
  /\ submitted = 0 /\ sends = {} /\ cancels = {}
  /\ waiting = {} /\ executing = {} /\ keys = {} /\ faults = 0
  /\ logs = [t \in PipelineRuns |-> "absent"]
  /\ paused = {} /\ crossed = FALSE /\ lost = {}

-----------------------------------------------------------------------------
(* The page.                                                               *)

IsCompleted == shownLog = "ended"
IsParsing == shownLog = "going" /\ ~stopped

\* Mutant: the effect of logSheetVisible is forgotten.
ShowLogSheetOnly == logVisible' = TRUE /\ runVisible' = FALSE /\ UNCHANGED stopped

\* showPipelineLogSheet, with the effect of logSheetVisible; the focus moves to
\* the sheet, which closes the one for the file.
ShowLogSheet ==
  /\ logVisible' = TRUE /\ runVisible' = FALSE
  /\ stopped' = (stopped /\ logVisible)

\* handleRunPipeline
ClickRun ==
  /\ \/ IsParsing /\ ShowLogSheet
     \/ ~IsParsing /\ logVisible' = FALSE /\ runVisible' = TRUE /\ UNCHANGED stopped
  /\ UNCHANGED <<messageId, shownLog, polling, crossed, callPipelineVars, runnerVars>>

HideSheet ==
  /\ \/ logVisible /\ logVisible' = FALSE /\ UNCHANGED runVisible
     \/ runVisible /\ runVisible' = FALSE /\ UNCHANGED logVisible
  /\ UNCHANGED <<followVars, callPipelineVars, runnerVars>>

\* run of useRunDataflow; its button waits while another graph is saved.
Submit ==
  /\ runVisible /\ submitted < MaxSubmits
  /\ \A s \in sends : s.phase # "saving"
  /\ submitted' = submitted + 1
  /\ sends' = sends \cup {[run |-> submitted', phase |-> "saving"]}
  /\ UNCHANGED <<sheetVars, followVars, cancels, paused, runnerVars>>

SendAt(s, phase) == (sends \ {s}) \cup {[s EXCEPT !.phase = phase]}

\* The graph is saved: the log sheet opens, which may still show the log of the
\* run before, and the run is sent.
GraphSaved(s) ==
  /\ s \in sends /\ s.phase = "saving"
  /\ ShowLogSheet
  /\ sends' = SendAt(s, "sent")
  /\ UNCHANGED <<messageId, shownLog, polling, crossed, submitted, cancels, paused,
                 runnerVars>>

\* The save or the run is refused, or the request fails, perhaps too late.
RunGivenUp(s) ==
  /\ s \in sends
  /\ sends' = sends \ {s}
  /\ UNCHANGED <<sheetVars, followVars, submitted, cancels, paused, runnerVars>>

\* setMessageId: the key of the query changes, and the log is fetched.
RunAnswered(s) ==
  /\ s \in sends /\ s.phase = "queued"
  /\ sends' = sends \ {s}
  /\ messageId' = s.run
  /\ shownLog' = "none" /\ polling' = TRUE
  /\ UNCHANGED <<sheetVars, stopped, crossed, submitted, cancels, paused, runnerVars>>

\* Mutant: a log without entries counts as one at rest.
PollWhileParsing ==
  /\ messageId # NoRun /\ IsParsing /\ ~polling
  /\ polling' = TRUE
  /\ UNCHANGED <<sheetVars, messageId, shownLog, stopped, crossed, callPipelineVars, runnerVars>>

\* refetchInterval, with the sheet shown or not.
PollLog ==
  /\ messageId # NoRun /\ ~stopped /\ ~polling
  /\ polling' = TRUE
  /\ UNCHANGED <<sheetVars, messageId, shownLog, stopped, crossed, callPipelineVars, runnerVars>>

\* The answer of trace; the effect of isCompleted stops the polling when the
\* log shown becomes complete, although a new run may have been sent by then.
LogFetched ==
  /\ polling
  /\ polling' = FALSE
  /\ shownLog' = IF logs[messageId] = "absent" THEN "empty" ELSE logs[messageId]
  /\ LET completes == shownLog' = "ended" /\ ~IsCompleted
     IN  /\ stopped' = (stopped \/ completes)
         /\ crossed' = (crossed \/ (completes /\ sends # {}))
  /\ UNCHANGED <<sheetVars, messageId, callPipelineVars, runnerVars>>

\* handleCancel
ClickCancel ==
  /\ logVisible /\ IsParsing
  /\ cancels' = cancels \cup {[run |-> messageId, handled |-> FALSE]}
  /\ UNCHANGED <<sheetVars, followVars, submitted, sends, paused, runnerVars>>

\* The answer stops the polling of whatever run is followed by then.
CancelAnswered(c) ==
  /\ c \in cancels /\ c.handled
  /\ cancels' = cancels \ {c}
  /\ stopped' = TRUE
  /\ paused' = paused \cup {c.run}
  /\ crossed' = (crossed \/ c.run # messageId \/ sends # {})
  /\ UNCHANGED <<sheetVars, messageId, shownLog, polling, submitted, sends, runnerVars>>

CancelLost(c) ==
  /\ c \in cancels
  /\ cancels' = cancels \ {c}
  /\ UNCHANGED <<sheetVars, followVars, submitted, sends, paused, runnerVars>>

-----------------------------------------------------------------------------
(* canvas_app.py                                                           *)

\* run, for a DataFlow canvas: queue_dataflow.
RunQueued(s) ==
  /\ s \in sends /\ s.phase = "sent"
  /\ sends' = SendAt(s, "queued")
  /\ waiting' = waiting \cup {s.run}
  /\ UNCHANGED <<sheetVars, followVars, submitted, cancels, paused, executing, logs, keys,
                 faults, lost>>

\* cancel answers "true" also when the key could not be set.
CancelHandled(c, set) ==
  /\ c \in cancels /\ ~c.handled
  /\ cancels' = (cancels \ {c}) \cup {[c EXCEPT !.handled = TRUE]}
  /\ keys' = IF set THEN keys \cup {c.run} ELSE keys
  /\ UNCHANGED <<sheetVars, followVars, submitted, sends, paused, waiting, executing, logs,
                 faults, lost>>

-----------------------------------------------------------------------------
(* The executor.                                                           *)

\* collect drops a canceled task; run begins with an empty log, also when it
\* is a repetition.
Collected(t) ==
  /\ t \in waiting
  /\ waiting' = waiting \ {t}
  /\ IF t \in keys THEN UNCHANGED <<executing, logs>>
     ELSE executing' = executing \cup {t} /\ logs' = [logs EXCEPT ![t] = "empty"]
  /\ UNCHANGED <<sheetVars, followVars, callPipelineVars, keys, faults, lost>>

\* callback: a log that has expired stays away.
Written(t, log) == logs' = [logs EXCEPT ![t] = IF @ = "absent" THEN @ ELSE log]

\* A component reports; for a canceled run callback raises when it has written.
Callback(t) ==
  /\ t \in executing
  /\ Written(t, "going")
  /\ executing' = executing \ (keys \cap {t})
  /\ UNCHANGED <<sheetVars, followVars, callPipelineVars, waiting, keys, faults, lost>>

\* The callback of END, whether a component failed, or the run was canceled
\* after the last component.
EndCallback(t) ==
  /\ t \in executing
  /\ Written(t, "ended")
  /\ executing' = executing \ {t}
  /\ UNCHANGED <<sheetVars, followVars, callPipelineVars, waiting, keys, faults, lost>>

\* An exception outside of the components.
RunRaises(t) ==
  /\ t \in executing
  /\ executing' = executing \ {t}
  /\ lost' = lost \cup {t}
  /\ UNCHANGED <<sheetVars, followVars, callPipelineVars, waiting, logs, keys, faults>>

\* The executor dies; when it is back it is handed the message again.
ExecutorDies(t) ==
  /\ t \in executing /\ faults < MaxLogFaults
  /\ faults' = faults + 1
  /\ executing' = executing \ {t}
  /\ waiting' = waiting \cup {t}
  /\ UNCHANGED <<sheetVars, followVars, callPipelineVars, logs, keys, lost>>

\* Ten minutes after the start, thirty after the last callback.
LogExpires(t) ==
  /\ logs[t] # "absent" /\ faults < MaxLogFaults
  /\ faults' = faults + 1
  /\ logs' = [logs EXCEPT ![t] = "absent"]
  /\ lost' = lost \cup {t}
  /\ UNCHANGED <<sheetVars, followVars, callPipelineVars, waiting, executing, keys>>

-----------------------------------------------------------------------------
PipelinePage ==
  \/ ClickRun \/ HideSheet \/ Submit \/ ClickCancel \/ PollLog \/ LogFetched
  \/ \E s \in sends : GraphSaved(s) \/ RunGivenUp(s) \/ RunAnswered(s)
  \/ \E c \in cancels : CancelAnswered(c) \/ CancelLost(c)
PipelineServer ==
  \/ \E s \in sends : RunQueued(s)
  \/ \E c \in cancels, set \in BOOLEAN : CancelHandled(c, set)
RunEnds(t) == EndCallback(t) \/ RunRaises(t)
PipelineExecutor ==
  \E t \in PipelineRuns : \/ Collected(t) \/ Callback(t) \/ RunEnds(t)
                          \/ ExecutorDies(t) \/ LogExpires(t)

PipelineNext == PipelinePage \/ PipelineServer \/ PipelineExecutor

PipelineSpec == PipelineInit /\ [][PipelineNext]_pipelineVars

\* The page polls when it should, a trace is answered, a queued run is taken,
\* and a run ends.
PipelineFairness ==
  /\ WF_pipelineVars(LogFetched) /\ WF_pipelineVars(PollLog)
  /\ \A t \in PipelineRuns : WF_pipelineVars(Collected(t)) /\ WF_pipelineVars(RunEnds(t))

-----------------------------------------------------------------------------
(* Properties.                                                             *)

PipelineTypeOK ==
  /\ {logVisible, runVisible, stopped, polling, crossed} \subseteq BOOLEAN
  /\ messageId \in 0..submitted /\ submitted \in 0..MaxSubmits
  /\ shownLog \in {"none", "empty", "going", "ended"}
  /\ polling => messageId # NoRun
  /\ sends \subseteq [run : 1..submitted, phase : {"saving", "sent", "queued"}]
  /\ cancels \subseteq [run : 1..submitted, handled : BOOLEAN]
  /\ waiting \cup executing \cup keys \cup paused \cup lost \subseteq 1..submitted
  /\ logs \in [PipelineRuns -> {"absent", "empty", "going", "ended"}]
  /\ faults \in 0..MaxLogFaults

\* The log of a run is followed until its end, unless the user has canceled
\* that run: one flag stops the polling for all runs, and whatever sheets were
\* opened and closed since, it is down again when the next run is followed.
\* The two ways it is up for the wrong run are named by `crossed`.
FollowedUntilEnd ==
  messageId # NoRun /\ stopped /\ ~IsCompleted => messageId \in paused \/ crossed

\* A run that is followed comes to be shown with its end, unless it was
\* canceled, its log was lost, another run took its place, or polling stopped.
RunEndIsShown ==
  \A t \in PipelineRuns :
    messageId = t ~> (IsCompleted \/ messageId # t \/ stopped \/ t \in keys \cup lost)
=============================================================================
