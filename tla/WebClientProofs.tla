---------------------------- MODULE WebClientProofs ----------------------------
(* Theorems about the test run of a pipeline (PipelineRun), the generate     *)
(* button (KbGenerate) and the web client that they are parts of, for any    *)
(* bounds.                                                                   *)
EXTENDS WebClient, AgentGraphProofs, AgentPageProofs, ChatClientProofs

-----------------------------------------------------------------------------
(* The test run of a pipeline: its inductive invariant. *)

\* The sheet for the file and the one for the log are never both shown.
OneSheet == ~(logVisible /\ runVisible)

\* While a run is being sent the log sheet has been opened afresh, so that the
\* flag is down, unless it was put up for another run since.
DownForTheNext ==
  stopped => \A s \in sends : (logVisible \/ s.phase # "saving") => crossed

\* Once a complete log has stopped the polling no fetch is out that could show
\* it incomplete again.
NoLateFetch ==
  (stopped /\ IsCompleted /\ polling) => messageId \in paused \/ crossed

\* Only a run that was submitted has a log, and only one that is followed is shown.
KnownRuns ==
  /\ \A t \in PipelineRuns : logs[t] # "absent" => t \in 1..submitted
  /\ shownLog # "none" => messageId # NoRun

PipelineInv == PipelineTypeOK /\ KnownRuns /\ OneSheet /\ DownForTheNext /\ NoLateFetch /\ FollowedUntilEnd

-----------------------------------------------------------------------------
(* The types of the test run. *)

LEMMA PipelineInitType == PipelineInit => PipelineTypeOK /\ KnownRuns
<1> SUFFICES ASSUME PipelineInit PROVE PipelineTypeOK /\ KnownRuns
  OBVIOUS
<1>1. messageId \in 0..submitted /\ submitted \in 0..MaxSubmits /\ faults \in 0..MaxLogFaults
  BY PipelineAssumption DEF PipelineInit, NoRun
<1>2. logs \in [PipelineRuns -> {"absent", "empty", "going", "ended"}]
  BY DEF PipelineInit
<1> QED
  BY <1>1, <1>2 DEF PipelineInit, PipelineTypeOK, KnownRuns

\* What was there of the runs submitted so far is there of one more.
LEMMA MoreRuns ==
  ASSUME PipelineTypeOK, submitted' = submitted + 1, submitted < MaxSubmits
  PROVE  /\ submitted' \in 0..MaxSubmits /\ submitted' \in 1..submitted'
         /\ 1..submitted \subseteq 1..submitted' /\ 0..submitted \subseteq 0..submitted'
BY PipelineAssumption DEF PipelineTypeOK

LEMMA SendAtType ==
  ASSUME PipelineTypeOK, NEW s \in sends, NEW phase \in {"saving", "sent", "queued"}
  PROVE  /\ SendAt(s, phase) \subseteq [run : 1..submitted, phase : {"saving", "sent", "queued"}]
         /\ s.run \in 1..submitted
BY DEF PipelineTypeOK, SendAt

LEMMA WrittenType ==
  ASSUME PipelineTypeOK, NEW t \in PipelineRuns, NEW log \in {"empty", "going", "ended"},
         Written(t, log)
  PROVE  logs' \in [PipelineRuns -> {"absent", "empty", "going", "ended"}]
BY DEF PipelineTypeOK, Written

\* A run that waits or executes was submitted, and every submitted one has a log.
LEMMA SubmittedRuns ==
  ASSUME PipelineTypeOK
  PROVE  1..submitted \subseteq PipelineRuns
BY PipelineAssumption DEF PipelineTypeOK, PipelineRuns

LEMMA PipelinePageType == ASSUME PipelineTypeOK, KnownRuns, PipelinePage PROVE PipelineTypeOK' /\ KnownRuns'
<1>1. ASSUME ClickRun PROVE PipelineTypeOK' /\ KnownRuns'
  <2>1. {logVisible', runVisible', stopped'} \subseteq BOOLEAN
    BY <1>1 DEF ClickRun, ShowLogSheet, PipelineTypeOK
  <2> QED
    BY <1>1, <2>1 DEF ClickRun, PipelineTypeOK, KnownRuns, callPipelineVars, runnerVars
<1>2. ASSUME HideSheet PROVE PipelineTypeOK' /\ KnownRuns'
  BY <1>2 DEF HideSheet, PipelineTypeOK, KnownRuns, followVars, callPipelineVars, runnerVars
<1>3. ASSUME Submit PROVE PipelineTypeOK' /\ KnownRuns'
  <2>1. sends' \subseteq [run : 1..submitted', phase : {"saving", "sent", "queued"}]
    BY <1>3, MoreRuns DEF Submit, PipelineTypeOK
  <2>2. cancels' \subseteq [run : 1..submitted', handled : BOOLEAN]
    BY <1>3, MoreRuns DEF Submit, PipelineTypeOK
  <2>3. /\ messageId' \in 0..submitted' /\ submitted' \in 0..MaxSubmits
        /\ (waiting \cup executing \cup keys \cup paused \cup lost)' \subseteq 1..submitted'
    BY <1>3, MoreRuns DEF Submit, PipelineTypeOK, followVars, runnerVars
  <2>4. PipelineTypeOK'
    BY <1>3, <2>1, <2>2, <2>3 DEF Submit, PipelineTypeOK, sheetVars, followVars, runnerVars
  <2> QED
    BY <1>3, <2>4, MoreRuns DEF Submit, KnownRuns, followVars, runnerVars
<1>4. ASSUME ClickCancel PROVE PipelineTypeOK' /\ KnownRuns'
  <2>1. messageId \in 1..submitted
    <3>1. messageId \in 0..submitted /\ messageId # 0 /\ submitted \in Nat
      BY <1>4 DEF ClickCancel, IsParsing, PipelineTypeOK, KnownRuns, NoRun
    <3> QED
      BY <3>1
  <2>2. cancels' \subseteq [run : 1..submitted, handled : BOOLEAN]
    <3>1. [run |-> messageId, handled |-> FALSE] \in [run : 1..submitted, handled : BOOLEAN]
      BY <2>1
    <3> QED
      BY <1>4, <3>1 DEF ClickCancel, PipelineTypeOK
  <2> QED
    BY <1>4, <2>2 DEF ClickCancel, PipelineTypeOK, KnownRuns, sheetVars, followVars, runnerVars
<1>5. ASSUME PollLog PROVE PipelineTypeOK' /\ KnownRuns'
  BY <1>5 DEF PollLog, PipelineTypeOK, KnownRuns, sheetVars, callPipelineVars, runnerVars
<1>6. ASSUME LogFetched PROVE PipelineTypeOK' /\ KnownRuns'
  <2>1. messageId \in PipelineRuns /\ messageId # NoRun
    BY <1>6, SubmittedRuns DEF LogFetched, PipelineTypeOK, NoRun
  <2>2. shownLog' \in {"none", "empty", "going", "ended"}
    BY <1>6, <2>1 DEF LogFetched, PipelineTypeOK
  <2>3. {stopped', crossed'} \subseteq BOOLEAN
    BY <1>6 DEF LogFetched, PipelineTypeOK
  <2> QED
    BY <1>6, <2>1, <2>2, <2>3 DEF LogFetched, PipelineTypeOK, KnownRuns, sheetVars,
                                  callPipelineVars, runnerVars
<1>7. ASSUME NEW s \in sends, GraphSaved(s) PROVE PipelineTypeOK' /\ KnownRuns'
  <2>1. {logVisible', runVisible', stopped'} \subseteq BOOLEAN
    BY <1>7 DEF GraphSaved, ShowLogSheet, PipelineTypeOK
  <2> QED
    BY <1>7, <2>1, SendAtType DEF GraphSaved, PipelineTypeOK, KnownRuns, runnerVars
<1>8. ASSUME NEW s \in sends, RunGivenUp(s) PROVE PipelineTypeOK' /\ KnownRuns'
  BY <1>8 DEF RunGivenUp, PipelineTypeOK, KnownRuns, sheetVars, followVars, runnerVars
<1>9. ASSUME NEW s \in sends, RunAnswered(s) PROVE PipelineTypeOK' /\ KnownRuns'
  <2>1. s.run \in 1..submitted
    BY <1>9 DEF PipelineTypeOK
  <2> QED
    BY <1>9, <2>1 DEF RunAnswered, PipelineTypeOK, KnownRuns, NoRun, sheetVars, runnerVars
<1>10. ASSUME NEW c \in cancels, CancelAnswered(c) PROVE PipelineTypeOK' /\ KnownRuns'
  <2>1. c.run \in 1..submitted
    BY <1>10 DEF PipelineTypeOK
  <2>2. paused' \subseteq 1..submitted /\ cancels' \subseteq cancels
    BY <1>10, <2>1 DEF CancelAnswered, PipelineTypeOK
  <2>3. {stopped', crossed'} \subseteq BOOLEAN
    BY <1>10 DEF CancelAnswered, PipelineTypeOK
  <2> QED
    BY <1>10, <2>2, <2>3 DEF CancelAnswered, PipelineTypeOK, KnownRuns, sheetVars, runnerVars
<1>11. ASSUME NEW c \in cancels, CancelLost(c) PROVE PipelineTypeOK' /\ KnownRuns'
  BY <1>11 DEF CancelLost, PipelineTypeOK, KnownRuns, sheetVars, followVars, runnerVars
<1> QED
  BY <1>1, <1>2, <1>3, <1>4, <1>5, <1>6, <1>7, <1>8, <1>9, <1>10, <1>11 DEF PipelinePage

LEMMA RunnerType ==
  ASSUME PipelineTypeOK, KnownRuns, PipelineServer \/ PipelineExecutor
  PROVE  PipelineTypeOK' /\ KnownRuns'
<1>1. ASSUME NEW s \in sends, RunQueued(s) PROVE PipelineTypeOK' /\ KnownRuns'
  BY <1>1, SendAtType DEF RunQueued, PipelineTypeOK, KnownRuns, sheetVars, followVars
<1>2. ASSUME NEW c \in cancels, NEW set \in BOOLEAN, CancelHandled(c, set)
      PROVE  PipelineTypeOK' /\ KnownRuns'
  <2>1. /\ c.run \in 1..submitted
        /\ [c EXCEPT !.handled = TRUE] \in [run : 1..submitted, handled : BOOLEAN]
    BY <1>2 DEF PipelineTypeOK
  <2> QED
    BY <1>2, <2>1 DEF CancelHandled, PipelineTypeOK, KnownRuns, sheetVars, followVars
<1>3. ASSUME NEW t \in PipelineRuns, Collected(t) PROVE PipelineTypeOK' /\ KnownRuns'
  <2>1. t \in 1..submitted
    BY <1>3 DEF Collected, PipelineTypeOK
  <2> QED
    BY <1>3, <2>1 DEF Collected, PipelineTypeOK, KnownRuns, sheetVars, followVars,
                      callPipelineVars
<1>4. ASSUME NEW t \in PipelineRuns, Callback(t) \/ EndCallback(t)
      PROVE  PipelineTypeOK' /\ KnownRuns'
  <2>1. logs' \in [PipelineRuns -> {"absent", "empty", "going", "ended"}]
    BY <1>4, WrittenType DEF Callback, EndCallback
  <2>2. \A u \in PipelineRuns : logs'[u] # "absent" => logs[u] # "absent"
    BY <1>4 DEF Callback, EndCallback, Written, PipelineTypeOK
  <2> QED
    BY <1>4, <2>1, <2>2 DEF Callback, EndCallback, PipelineTypeOK, KnownRuns, sheetVars,
                            followVars, callPipelineVars
<1>5. ASSUME NEW t \in PipelineRuns, RunRaises(t) PROVE PipelineTypeOK' /\ KnownRuns'
  BY <1>5 DEF RunRaises, PipelineTypeOK, KnownRuns, sheetVars, followVars, callPipelineVars
<1>6. ASSUME NEW t \in PipelineRuns, ExecutorDies(t) PROVE PipelineTypeOK' /\ KnownRuns'
  <2>1. faults' \in 0..MaxLogFaults
    BY <1>6, PipelineAssumption DEF ExecutorDies, PipelineTypeOK
  <2> QED
    BY <1>6, <2>1 DEF ExecutorDies, PipelineTypeOK, KnownRuns, sheetVars, followVars,
                      callPipelineVars
<1>7. ASSUME NEW t \in PipelineRuns, LogExpires(t) PROVE PipelineTypeOK' /\ KnownRuns'
  <2>1. faults' \in 0..MaxLogFaults
    BY <1>7, PipelineAssumption DEF LogExpires, PipelineTypeOK
  <2>2. t \in 1..submitted
    BY <1>7 DEF LogExpires, KnownRuns
  <2> QED
    BY <1>7, <2>1, <2>2 DEF LogExpires, PipelineTypeOK, KnownRuns, sheetVars, followVars,
                            callPipelineVars
<1> QED
  BY <1>1, <1>2, <1>3, <1>4, <1>5, <1>6, <1>7 DEF PipelineServer, PipelineExecutor, RunEnds

-----------------------------------------------------------------------------
(* The flag that stops the polling. *)

Flag == OneSheet /\ DownForTheNext /\ NoLateFetch /\ FollowedUntilEnd

LEMMA PipelinePageFlag == ASSUME PipelineTypeOK, Flag, PipelinePage PROVE Flag'
<1> USE DEF Flag, OneSheet, DownForTheNext, NoLateFetch, FollowedUntilEnd, IsCompleted
<1>1. ASSUME ClickRun PROVE Flag'
  <2>1. UNCHANGED <<messageId, shownLog, polling, crossed, sends, paused>>
    BY <1>1 DEF ClickRun, callPipelineVars
  <2>2. CASE ShowLogSheet
    <3>1. ~runVisible' /\ (stopped' => stopped /\ logVisible)
      BY <2>2 DEF ShowLogSheet
    <3> QED
      BY <2>1, <3>1
  <2>3. CASE ~logVisible' /\ UNCHANGED stopped
    BY <2>1, <2>3
  <2> QED
    BY <1>1, <2>2, <2>3 DEF ClickRun
<1>2. ASSUME HideSheet PROVE Flag'
  BY <1>2 DEF HideSheet, followVars, callPipelineVars
<1>3. ASSUME Submit PROVE Flag'
  BY <1>3 DEF Submit, sheetVars, followVars
<1>4. ASSUME ClickCancel PROVE Flag'
  BY <1>4 DEF ClickCancel, sheetVars, followVars
<1>5. ASSUME PollLog PROVE Flag'
  BY <1>5 DEF PollLog, sheetVars, callPipelineVars
<1>6. ASSUME LogFetched PROVE Flag'
  BY <1>6 DEF LogFetched, sheetVars, callPipelineVars
<1>7. ASSUME NEW s \in sends, GraphSaved(s) PROVE Flag'
  BY <1>7 DEF GraphSaved, ShowLogSheet, SendAt
<1>8. ASSUME NEW s \in sends, RunGivenUp(s) PROVE Flag'
  BY <1>8 DEF RunGivenUp, sheetVars, followVars
<1>9. ASSUME NEW s \in sends, RunAnswered(s) PROVE Flag'
  BY <1>9 DEF RunAnswered, sheetVars
<1>10. ASSUME NEW c \in cancels, CancelAnswered(c) PROVE Flag'
  <2>1. /\ UNCHANGED <<sheetVars, messageId, shownLog, polling, sends>>
        /\ paused' = paused \cup {c.run}
    BY <1>10 DEF CancelAnswered
  <2>2. crossed \/ c.run # messageId \/ sends # {} => crossed'
    BY <1>10 DEF CancelAnswered
  <2> QED
    BY <2>1, <2>2 DEF sheetVars
<1>11. ASSUME NEW c \in cancels, CancelLost(c) PROVE Flag'
  BY <1>11 DEF CancelLost, sheetVars, followVars
<1> QED
  BY <1>1, <1>2, <1>3, <1>4, <1>5, <1>6, <1>7, <1>8, <1>9, <1>10, <1>11 DEF PipelinePage

LEMMA RunnerFlag == ASSUME Flag, PipelineServer \/ PipelineExecutor PROVE Flag'
<1> USE DEF Flag, OneSheet, DownForTheNext, NoLateFetch, FollowedUntilEnd, IsCompleted
<1>1. ASSUME NEW s \in sends, RunQueued(s) PROVE Flag'
  BY <1>1 DEF RunQueued, SendAt, sheetVars, followVars
<1>2. CASE UNCHANGED <<sheetVars, followVars, sends, paused>>
  BY <1>2 DEF sheetVars, followVars
<1>3. CASE \E c \in cancels, set \in BOOLEAN : CancelHandled(c, set)
  BY <1>2, <1>3 DEF CancelHandled
<1>4. CASE PipelineExecutor
  BY <1>2, <1>4 DEF PipelineExecutor, Collected, Callback, RunEnds, EndCallback, RunRaises,
                    ExecutorDies, LogExpires, callPipelineVars
<1> QED
  BY <1>1, <1>3, <1>4 DEF PipelineServer

-----------------------------------------------------------------------------
(* The theorems about the test run. *)

LEMMA PipelineInitInv == PipelineInit => PipelineInv
BY PipelineInitType DEF PipelineInit, PipelineInv, OneSheet, DownForTheNext, NoLateFetch, FollowedUntilEnd

LEMMA PipelineNextInv == ASSUME PipelineInv, [PipelineNext]_pipelineVars PROVE PipelineInv'
<1>1. CASE UNCHANGED pipelineVars
  BY <1>1 DEF PipelineInv, PipelineTypeOK, KnownRuns, OneSheet, DownForTheNext, NoLateFetch,
              FollowedUntilEnd, IsCompleted, pipelineVars, sheetVars, followVars,
              callPipelineVars, runnerVars
<1>2. CASE PipelineNext
  <2>1. PipelineTypeOK' /\ KnownRuns'
    BY <1>2, PipelinePageType, RunnerType DEF PipelineInv, PipelineNext
  <2>2. Flag'
    BY <1>2, PipelinePageFlag, RunnerFlag DEF PipelineInv, Flag, PipelineNext
  <2> QED
    BY <2>1, <2>2 DEF PipelineInv, Flag
<1> QED
  BY <1>1, <1>2

LEMMA PipelineInductive == PipelineSpec => []PipelineInv
BY PipelineInitInv, PipelineNextInv, PTL DEF PipelineSpec

\* The page, the handlers and the executors keep to the types, and nothing is
\* polled before a run is known (use-fetch-pipeline-log.ts).
THEOREM PipelineTypeCorrect == PipelineSpec => []PipelineTypeOK
<1>1. PipelineInv => PipelineTypeOK
  BY DEF PipelineInv
<1> QED
  BY <1>1, PipelineInductive, PTL

\* The log of a run is followed until its end, unless that run was canceled or
\* the flag that all runs share was put up for another (use-run-dataflow.ts,
\* use-cancel-dataflow.ts).
THEOREM RunsAreFollowed == PipelineSpec => []FollowedUntilEnd
<1>1. PipelineInv => FollowedUntilEnd
  BY DEF PipelineInv
<1> QED
  BY <1>1, PipelineInductive, PTL

-----------------------------------------------------------------------------
(* The generate button: its inductive invariant. *)

BuildRequest == [task : 1..requested, phase : {"sent", "checked", "queued"}]

\* Every request has a task of its own. It is not bound before its request has
\* bound it, and so neither shown nor canceled; nobody works on it before its
\* request has queued it.
OwnTasks ==
  /\ runs \subseteq BuildRequest
  /\ \A r, s \in runs : r.task = s.task => r = s
  /\ \A r \in runs :
       /\ r.task \notin canceled \cup {bound, traced.task}
       /\ \A u \in unbinds : u.task # r.task
       /\ r.phase # "queued" => r.task \notin queue \cup building

\* The tasks in the hands of a request to pause or delete were requested.
KnownUnbinds ==
  /\ bound \in 0..requested
  /\ traced.task \in 0..requested /\ (traced.progress # "none" => traced.task # NoTask)
  /\ \A u \in unbinds : /\ u.task \in 0..requested
                        /\ u.phase = "pause" => u.task # NoTask

\* Who cancels what is bound goes on to unbind it, unless he fails.
CanceledIsUnbound ==
  bound \in canceled => bound \in stranded \/ \E u \in unbinds : u.phase # "pause"

\* A message that ends every executor stays in the queue, and no task is both
\* queued and built.
CrashesStay ==
  /\ crashing \subseteq queue /\ queue \cap building = {}
  /\ \A t \in crashing : t \notin Rows \/ tries[t] >= MaxTries

\* What is bound, and what a request has queued, is worked until it ends, or
\* was canceled, or its report was lost.
InCare(t) == Running(t) => t \in (queue \ crashing) \cup building \cup stranded \cup canceled
RunsInCare == InCare(bound) /\ \A r \in runs : r.phase = "queued" => InCare(r.task)

KbInv ==
  KbTypeOK /\ OwnTasks /\ KnownUnbinds /\ CanceledIsUnbound /\ CrashesStay /\ RunsInCare

-----------------------------------------------------------------------------
(* Lemmas about its tasks. *)

LEMMA TaskNumbers ==
  ASSUME KbTypeOK
  PROVE  /\ requested \in Nat /\ MaxRuns \in Nat /\ requested <= MaxRuns
         /\ 1..requested \subseteq Tasks /\ NoTask \in 0..requested
         /\ NoTask \notin 1..requested
         /\ \A t \in 0..requested : t # NoTask => t \in 1..requested
BY KbAssumption DEF KbTypeOK, Tasks, NoTask

\* One more mishap is still within the bound.
LEMMA MishapCounted == ASSUME KbTypeOK, Mishap PROVE mishaps' \in 0..MaxMishaps
BY KbAssumption DEF KbTypeOK, Mishap

\* A report gives a row no other task, and starts none.
LEMMA Reported ==
  ASSUME KbTypeOK, NEW t, NEW p \in {"failed", "done"}, progress' = Report(t, p)
  PROVE  /\ DOMAIN progress' = Rows
         /\ \A u \in Rows : progress'[u] \in {"zero", "failed", "done"}
         /\ \A u \in Rows : progress'[u] = "zero" => progress[u] = "zero" /\ u # t
BY DEF KbTypeOK, Report, Rows

-----------------------------------------------------------------------------
(* Every step of the button, the handlers and the executor keeps it. *)

LEMMA KbUserInv == ASSUME KbInv, KbUser \/ TraceFetched \/ Poll PROVE KbInv'
<1>0. KbTypeOK /\ OwnTasks /\ KnownUnbinds /\ CanceledIsUnbound /\ CrashesStay /\ RunsInCare
  BY DEF KbInv
<1>1. ASSUME NEW isOpen \in BOOLEAN, SetOpen(isOpen) PROVE KbInv'
  <2>1. \A r \in runs : r.task # NoTask
    BY <1>0, TaskNumbers DEF OwnTasks, BuildRequest
  <2> QED
    BY <1>0, <1>1, <2>1, TaskNumbers DEF SetOpen, KbInv, KbTypeOK, OwnTasks, KnownUnbinds,
       BuildRequest, CanceledIsUnbound, CrashesStay, RunsInCare, InCare, Running, Rows, Nothing,
       serverVars, retryVars, mishapVars, callVars
<1>2. ASSUME Poll PROVE KbInv'
  BY <1>0, <1>2 DEF Poll, KbInv, KbTypeOK, OwnTasks, KnownUnbinds, BuildRequest,
     CanceledIsUnbound, CrashesStay, RunsInCare, InCare, Running, Rows, serverVars, retryVars,
     mishapVars, callVars
<1>3. ASSUME TraceFetched PROVE KbInv'
  <2>1. /\ traced' \in [task : Tasks \cup {NoTask}, progress : {"none", "zero", "failed", "done"}]
        /\ traced'.task \in 0..requested /\ (traced'.progress # "none" => traced'.task # NoTask)
        /\ traced'.task \in {bound, NoTask}
    BY <1>0, <1>3, TaskNumbers DEF TraceFetched, KbTypeOK, KnownUnbinds, Nothing, NoTask
  <2>2. \A r \in runs : r.task # NoTask /\ r.task # traced'.task
    BY <1>0, <2>1, TaskNumbers DEF OwnTasks, BuildRequest
  <2>3. UNCHANGED <<serverVars, callVars, open>> /\ tracing' = FALSE
    BY <1>3 DEF TraceFetched
  <2>4. KbTypeOK' /\ KnownUnbinds'
    BY <1>0, <2>1, <2>3 DEF KbTypeOK, KnownUnbinds, Rows, serverVars, retryVars, mishapVars,
       callVars
  <2>5. OwnTasks'
    BY <1>0, <2>2, <2>3 DEF OwnTasks, BuildRequest, serverVars, callVars
  <2> QED
    BY <1>0, <2>3, <2>4, <2>5 DEF KbInv, CanceledIsUnbound, CrashesStay, RunsInCare, InCare,
       Running, Rows, serverVars, retryVars, mishapVars, callVars
<1>4. ASSUME ClickGenerate PROVE KbInv'
  <2> DEFINE new == [task |-> requested', phase |-> "sent"]
  <2>1. /\ requested' = requested + 1 /\ requested' \in 0..MaxRuns /\ requested' \in 1..requested'
        /\ 1..requested \subseteq 1..requested' /\ 0..requested \subseteq 0..requested'
        /\ requested' \notin 0..requested /\ 1..requested \subseteq 0..requested
        /\ 1..requested' \subseteq Tasks
    BY <1>0, <1>4, TaskNumbers DEF ClickGenerate, Tasks
  <2>2. runs' = runs \cup {new} /\ UNCHANGED <<serverVars, unbinds, pageVars>>
    BY <1>4 DEF ClickGenerate
  <2>3. new.task = requested' /\ new.phase = "sent" /\ new \in BuildRequest'
    BY <2>1 DEF BuildRequest
  <2> HIDE DEF new
  <2>4. OwnTasks'
    <3>1. \A r \in runs : r \in BuildRequest' /\ r.task \in 1..requested /\ r.task # requested'
      BY <1>0, <2>1 DEF OwnTasks, BuildRequest
    <3>2. /\ requested' \notin canceled \cup {bound, traced.task}
          /\ \A u \in unbinds : u.task # requested'
          /\ requested' \notin queue \cup building
      BY <1>0, <2>1 DEF KnownUnbinds, KbTypeOK
    <3>3. UNCHANGED <<bound, traced, canceled, queue, building, unbinds>>
      BY <2>2 DEF serverVars, pageVars
    <3> QED
      BY <1>0, <2>2, <2>3, <3>1, <3>2, <3>3 DEF OwnTasks
  <2>5. KnownUnbinds'
    BY <1>0, <2>1, <2>2 DEF KnownUnbinds, serverVars, pageVars
  <2>6. CanceledIsUnbound' /\ CrashesStay' /\ RunsInCare'
    BY <1>0, <2>2, <2>3 DEF CanceledIsUnbound, CrashesStay, RunsInCare, InCare, Running, Rows,
       serverVars, retryVars, mishapVars
  <2>7. KbTypeOK'
    <3>1. runs' \subseteq [task : Tasks, phase : {"sent", "checked", "queued"}]
      BY <2>1, <2>4 DEF OwnTasks, BuildRequest
    <3>2. /\ bound' \in Tasks \cup {NoTask} /\ Rows' \subseteq 1..requested'
          /\ (canceled \cup queue \cup building \cup crashing \cup stranded)'
               \subseteq 1..requested'
      BY <1>0, <2>1, <2>2 DEF KbTypeOK, Rows, serverVars, retryVars, mishapVars
    <3> QED
      BY <1>0, <2>1, <2>2, <3>1, <3>2 DEF KbTypeOK, Rows, serverVars, retryVars, mishapVars,
         pageVars
  <2> QED
    BY <2>4, <2>5, <2>6, <2>7 DEF KbInv
<1>5. ASSUME NEW u, unbinds' = unbinds \cup {u}, u.task \in 0..requested,
             u.phase = "pause" => u.task # NoTask, u.task \in {traced.task, NoTask},
             u \in [task : Tasks \cup {NoTask}, phase : {"pause", "delete"}],
             UNCHANGED <<serverVars, requested, runs, pageVars>>
      PROVE  KbInv'
  <2>1. KbTypeOK' /\ KnownUnbinds'
    BY <1>0, <1>5 DEF KbTypeOK, KnownUnbinds, Rows, serverVars, retryVars, mishapVars, pageVars
  <2>2. \A r \in runs : r.task # u.task
    BY <1>0, <1>5, TaskNumbers DEF OwnTasks, BuildRequest
  <2>3. OwnTasks'
    BY <1>0, <1>5, <2>2 DEF OwnTasks, BuildRequest, serverVars, pageVars
  <2> QED
    BY <1>0, <1>5, <2>1, <2>3 DEF KbInv, CanceledIsUnbound, CrashesStay, RunsInCare, InCare,
       Running, Rows, serverVars, retryVars, mishapVars
<1>6. ASSUME ClickPause PROVE KbInv'
  <2>1. traced.task \in 0..requested /\ traced.task # NoTask /\ traced.task \in Tasks
    BY <1>0, <1>6, TaskNumbers DEF ClickPause, Loops, KnownUnbinds, KbTypeOK
  <2> QED
    BY <1>5, <1>6, <2>1 DEF ClickPause
<1>7. ASSUME ClickDelete PROVE KbInv'
  BY <1>0, <1>5, <1>7, TaskNumbers DEF ClickDelete
<1> QED
  BY <1>1, <1>2, <1>3, <1>4, <1>6, <1>7 DEF KbUser

LEMMA KbServerInv == ASSUME KbInv, KbServer PROVE KbInv'
<1>0. KbTypeOK /\ OwnTasks /\ KnownUnbinds /\ CanceledIsUnbound /\ CrashesStay /\ RunsInCare
  BY DEF KbInv
<1>1. ASSUME NEW r \in runs, RunChecks(r) PROVE KbInv'
  <2>1. r \in BuildRequest /\ r.phase = "sent" /\ \A s \in runs : s.task = r.task => s = r
    BY <1>0, <1>1 DEF OwnTasks, RunChecks
  <2> DEFINE checked == [r EXCEPT !.phase = "checked"]
  <2>2. checked \in BuildRequest /\ checked.task = r.task /\ checked.phase = "checked"
    BY <2>1 DEF BuildRequest
  <2>3. runs' \subseteq (runs \ {r}) \cup {checked}
    BY <1>1 DEF RunChecks
  <2>4. UNCHANGED <<serverVars, requested, unbinds, pageVars>>
    BY <1>1 DEF RunChecks
  <2> HIDE DEF checked
  <2>5. OwnTasks'
    BY <1>0, <2>1, <2>2, <2>3, <2>4 DEF OwnTasks, BuildRequest, serverVars, pageVars
  <2>6. RunsInCare'
    BY <1>0, <2>2, <2>3, <2>4 DEF RunsInCare, InCare, Running, Rows, serverVars, retryVars,
       mishapVars
  <2>7. runs' \subseteq [task : Tasks, phase : {"sent", "checked", "queued"}]
    BY <1>0, <2>4, <2>5, TaskNumbers DEF OwnTasks, BuildRequest
  <2> QED
    BY <1>0, <2>4, <2>5, <2>6, <2>7 DEF KbInv, KbTypeOK, KnownUnbinds, CanceledIsUnbound,
       CrashesStay, Rows, serverVars, retryVars, mishapVars, pageVars
<1>2. ASSUME NEW r \in runs, NEW ok \in BOOLEAN, RunQueues(r, ok) PROVE KbInv'
  <2>1. /\ r \in BuildRequest /\ r.task # bound /\ r.task \in 1..requested /\ r.phase = "checked"
        /\ r.task \notin queue \cup building \cup crashing
        /\ \A s \in runs : s.task = r.task => s = r
    BY <1>0, <1>2 DEF OwnTasks, BuildRequest, RunQueues, CrashesStay
  <2> DEFINE queued == [r EXCEPT !.phase = "queued"]
  <2>2. queued \in BuildRequest /\ queued.task = r.task /\ queued.phase = "queued"
    BY <2>1 DEF BuildRequest
  <2>3. /\ DOMAIN progress' = Rows \cup {r.task} /\ progress'[r.task] = "zero"
        /\ \A t \in Rows : t # r.task => progress'[t] = progress[t]
    BY <1>2 DEF RunQueues
  <2>4. /\ UNCHANGED <<bound, finishAt, canceled, building, tries, crashing, mishaps, stranded,
                       requested, unbinds, open, traced, tracing>>
        /\ queue' = IF ok THEN queue \cup {r.task} ELSE queue
        /\ runs' = (runs \ {r}) \cup (IF ok THEN {queued} ELSE {})
    BY <1>2 DEF RunQueues, retryVars, mishapVars, pageVars
  <2> HIDE DEF queued
  <2>5. OwnTasks'
    <3>1. ASSUME NEW s \in runs'
          PROVE  s \in BuildRequest /\ (s = queued \/ (s \in runs /\ s.task # r.task))
      BY <1>0, <2>1, <2>2, <2>4 DEF OwnTasks
    <3>2. ASSUME NEW s \in runs'
          PROVE  /\ s.task \notin canceled \cup {bound, traced.task}
                 /\ \A u \in unbinds : u.task # s.task
      BY <1>0, <2>2, <3>1 DEF OwnTasks
    <3>3. ASSUME NEW s \in runs', s.phase # "queued"
          PROVE  s.task \notin queue' \cup building'
      BY <1>0, <2>2, <2>4, <3>1, <3>3 DEF OwnTasks
    <3>4. ASSUME NEW s \in runs', NEW v \in runs', s.task = v.task PROVE s = v
      BY <1>0, <2>2, <3>1, <3>4 DEF OwnTasks
    <3>5. runs' \subseteq BuildRequest'
      BY <2>4, <3>1 DEF BuildRequest
    <3> QED
      BY <2>4, <3>2, <3>3, <3>4, <3>5 DEF OwnTasks
  <2>6. CrashesStay'
    BY <1>0, <2>1, <2>3, <2>4 DEF CrashesStay, Rows
  <2>7. ASSUME NEW t, t # r.task, InCare(t) PROVE InCare(t)'
    BY <2>3, <2>4, <2>7 DEF InCare, Running, Rows
  <2>8. ok => InCare(r.task)'
    BY <2>1, <2>4 DEF InCare
  <2>9. RunsInCare'
    <3>1. InCare(bound)'
      BY <1>0, <2>1, <2>4, <2>7 DEF RunsInCare, InCare, Running, Rows
    <3>2. ASSUME NEW s \in runs', s.phase = "queued"
          PROVE  s.task \in DOMAIN progress' /\ progress'[s.task] = "zero"
                   => s.task \in (queue' \ crashing') \cup building' \cup stranded' \cup canceled'
      <4>1. CASE s \in runs \ {r}
        BY <1>0, <2>1, <2>7, <3>2, <4>1 DEF RunsInCare, InCare, Running, Rows
      <4>2. CASE ok /\ s = queued
        BY <2>2, <2>8, <4>2 DEF InCare, Running, Rows
      <4> QED
        BY <2>4, <3>2, <4>1, <4>2
    <3> QED
      BY <3>1, <3>2 DEF RunsInCare, InCare, Running, Rows
  <2>10. KbTypeOK'
    <3>1. runs' \subseteq [task : Tasks, phase : {"sent", "checked", "queued"}]
      BY <1>0, <2>4, <2>5, TaskNumbers DEF OwnTasks, BuildRequest
    <3>2. /\ Rows' \subseteq 1..requested
          /\ \A t \in Rows' : progress'[t] \in {"zero", "failed", "done"}
      BY <1>0, <2>1, <2>3 DEF KbTypeOK, Rows
    <3> QED
      BY <1>0, <2>1, <2>4, <3>1, <3>2 DEF KbTypeOK, Rows
  <2> QED
    BY <1>0, <2>4, <2>5, <2>6, <2>9, <2>10 DEF KbInv, KnownUnbinds, CanceledIsUnbound
<1>3. ASSUME NEW r \in runs, RunBinds(r) PROVE KbInv'
  <2>1. /\ r.phase = "queued" /\ r.task \in 1..requested /\ r.task \notin canceled
        /\ \A s \in runs : s.task = r.task => s = r
    BY <1>0, <1>3 DEF RunBinds, OwnTasks, BuildRequest
  <2>2. /\ bound' = r.task /\ runs' = runs \ {r} /\ tracing' = open
        /\ UNCHANGED <<finishAt, progress, canceled, queue, building, tries, crashing, mishaps,
                       stranded, requested, unbinds, open, traced>>
    BY <1>3 DEF RunBinds, retryVars, mishapVars
  <2>3. OwnTasks' /\ KnownUnbinds' /\ CanceledIsUnbound'
    BY <1>0, <2>1, <2>2, TaskNumbers DEF OwnTasks, KnownUnbinds, BuildRequest, CanceledIsUnbound
  <2>4. RunsInCare' /\ CrashesStay'
    BY <1>0, <2>1, <2>2 DEF RunsInCare, InCare, CrashesStay, Running, Rows
  <2>5. KbTypeOK'
    BY <1>0, <2>1, <2>2, TaskNumbers DEF KbTypeOK, Rows
  <2> QED
    BY <2>3, <2>4, <2>5 DEF KbInv
<1>4. ASSUME NEW u \in unbinds, PauseCancels(u) \/ UnbindDeletes(u) \/ UnbindCancels(u)
      PROVE  KbInv'
  <2>1. /\ u.task \in 0..requested /\ (u.phase = "pause" => u.task # NoTask)
        /\ \A r \in runs : r.task \notin {u.task, bound, NoTask}
    BY <1>0, TaskNumbers DEF KnownUnbinds, OwnTasks, BuildRequest
  <2>2. PICK v \in [task : Tasks \cup {NoTask}, phase : {"delete", "cancel", "unbind"}] :
          /\ v.task \in 0..requested /\ v.task \in {u.task, bound, NoTask}
          /\ unbinds' = (unbinds \ {u}) \cup {v}
    BY <1>0, <1>4, <2>1, TaskNumbers DEF PauseCancels, UnbindDeletes, UnbindCancels, Advance,
                                     KnownUnbinds, KbTypeOK
  <2>3. /\ canceled \subseteq canceled' /\ canceled' \subseteq canceled \cup ({u.task} \ {NoTask})
        /\ UNCHANGED <<bound, finishAt, progress, queue, building, tries, crashing, mishaps,
                       stranded, requested, runs, open, traced, tracing>>
    BY <1>4, <2>1 DEF PauseCancels, UnbindDeletes, UnbindCancels, retryVars, mishapVars, pageVars
  <2>4. canceled' \subseteq 1..requested
    BY <1>0, <2>1, <2>3, TaskNumbers DEF KbTypeOK
  <2>5. KbTypeOK'
    BY <1>0, <2>2, <2>3, <2>4 DEF KbTypeOK, Rows
  <2>6. OwnTasks' /\ KnownUnbinds'
    BY <1>0, <2>1, <2>2, <2>3 DEF OwnTasks, KnownUnbinds, BuildRequest
  <2>7. RunsInCare' /\ CrashesStay'
    BY <1>0, <2>3 DEF RunsInCare, InCare, CrashesStay, Running, Rows
  <2>8. CanceledIsUnbound'
    BY <2>2 DEF CanceledIsUnbound
  <2> QED
    BY <2>5, <2>6, <2>7, <2>8 DEF KbInv
<1>5. ASSUME NEW u \in unbinds, Unbinds(u) PROVE KbInv'
  <2>1. /\ bound' = NoTask /\ finishAt' = FALSE /\ unbinds' = unbinds \ {u} /\ tracing' = open
        /\ UNCHANGED <<progress, canceled, queue, building, tries, crashing, mishaps, stranded,
                       requested, runs, open, traced>>
    BY <1>5 DEF Unbinds, retryVars, mishapVars
  <2>2. KbTypeOK'
    BY <1>0, <2>1 DEF KbTypeOK, Rows
  <2>3. NoTask \notin Rows \cup canceled /\ \A r \in runs : r.task # NoTask
    BY <1>0, TaskNumbers DEF KbTypeOK, OwnTasks, BuildRequest
  <2>4. OwnTasks' /\ KnownUnbinds' /\ CanceledIsUnbound'
    BY <1>0, <2>1, <2>3, TaskNumbers DEF OwnTasks, KnownUnbinds, BuildRequest, CanceledIsUnbound
  <2>5. RunsInCare' /\ CrashesStay'
    BY <1>0, <2>1, <2>3 DEF RunsInCare, InCare, CrashesStay, Running, Rows
  <2> QED
    BY <2>2, <2>4, <2>5 DEF KbInv
<1>6. ASSUME NEW r \in runs, RequestLost(r) PROVE KbInv'
  <2>1. /\ runs' = runs \ {r} /\ mishaps' \in 0..MaxMishaps
        /\ UNCHANGED <<bound, finishAt, progress, canceled, queue, building, tries, crashing,
                       stranded, requested, unbinds, open, traced, tracing>>
    BY <1>0, <1>6, MishapCounted DEF RequestLost, retryVars, pageVars
  <2> QED
    BY <1>0, <2>1 DEF KbInv, KbTypeOK, OwnTasks, KnownUnbinds, BuildRequest, CanceledIsUnbound,
       CrashesStay, RunsInCare, InCare, Running, Rows
<1>7. ASSUME NEW u \in unbinds, UnbindFails(u) PROVE KbInv'
  <2>1. /\ unbinds' = unbinds \ {u} /\ mishaps' \in 0..MaxMishaps
        /\ stranded' = stranded \cup ({bound} \cap canceled)
        /\ UNCHANGED <<bound, finishAt, progress, canceled, queue, building, tries, crashing,
                       requested, runs, open, traced, tracing>>
    BY <1>0, <1>7, MishapCounted DEF UnbindFails, retryVars, pageVars
  <2>2. KbTypeOK'
    BY <1>0, <2>1 DEF KbTypeOK, Rows
  <2>3. OwnTasks' /\ KnownUnbinds'
    BY <1>0, <2>1 DEF OwnTasks, KnownUnbinds, BuildRequest
  <2> QED
    BY <1>0, <2>1, <2>2, <2>3 DEF KbInv, CanceledIsUnbound, CrashesStay, RunsInCare, InCare,
       Running, Rows
<1>8. ASSUME NEW t \in Tasks, RowGone(t) PROVE KbInv'
  <2>1. /\ mishaps' \in 0..MaxMishaps
        /\ UNCHANGED <<bound, finishAt, canceled, queue, building, tries, crashing, stranded,
                       requested, runs, unbinds, open, traced, tracing>>
    BY <1>0, <1>8, MishapCounted DEF RowGone, retryVars, callVars, pageVars
  <2>2. DOMAIN progress' \subseteq Rows /\ \A u \in DOMAIN progress' : progress'[u] = progress[u]
    BY <1>8 DEF RowGone, Rows
  <2>3. KbTypeOK'
    BY <1>0, <2>1, <2>2 DEF KbTypeOK, Rows
  <2>4. OwnTasks' /\ KnownUnbinds' /\ CanceledIsUnbound'
    BY <1>0, <2>1 DEF OwnTasks, KnownUnbinds, BuildRequest, CanceledIsUnbound
  <2>5. CrashesStay' /\ RunsInCare'
    BY <1>0, <2>1, <2>2 DEF CrashesStay, RunsInCare, InCare, Running, Rows
  <2> QED
    BY <2>3, <2>4, <2>5 DEF KbInv
<1> QED
  BY <1>1, <1>2, <1>3, <1>4, <1>5, <1>6, <1>7, <1>8 DEF KbServer, UnbindStep

\* An executor takes and leaves tasks. What it leaves is reported, or queued
\* again, or its report was lost.
LEMMA KbExecutorInv == ASSUME KbInv, KbExecutor PROVE KbInv'
<1>0. KbTypeOK /\ OwnTasks /\ KnownUnbinds /\ CanceledIsUnbound /\ CrashesStay /\ RunsInCare
  BY DEF KbInv
<1> DEFINE Keeps == /\ KbTypeOK' /\ CrashesStay'
                    /\ queue' \cup building' \subseteq queue \cup building
                    /\ stranded \subseteq stranded'
                    /\ \A u : InCare(u) => InCare(u)'
<1>1. UNCHANGED <<bound, canceled, requested, runs, unbinds, open, traced, tracing>>
  BY DEF KbExecutor, Begins, GivesUp, Reports, Ends, EndsUnreported, Dies, callVars, pageVars
<1>2. ASSUME NEW t \in Tasks, Begins(t) PROVE Keeps
  <2>1. /\ t \in queue /\ t \in Rows /\ tries[t] < MaxTries /\ queue' = queue \ {t}
        /\ building' = IF t \in canceled THEN building ELSE building \cup {t}
        /\ tries' = [tries EXCEPT ![t] = @ + 1] /\ progress' = [progress EXCEPT ![t] = "zero"]
        /\ UNCHANGED <<finishAt, crashing, mishaps, stranded>>
    BY <1>2 DEF Begins, mishapVars
  <2>2. t \notin crashing
    BY <1>0, <2>1, KbAssumption DEF CrashesStay, KbTypeOK
  <2>3. DOMAIN progress' = Rows /\ \A u \in Rows : u # t => progress'[u] = progress[u]
    BY <2>1 DEF Rows
  <2>4. KbTypeOK'
    BY <1>0, <1>1, <2>1 DEF KbTypeOK, Rows
  <2>5. CrashesStay'
    BY <1>0, <2>1, <2>2, <2>3 DEF CrashesStay, Rows, KbTypeOK
  <2>6. \A u : InCare(u) => InCare(u)'
    BY <1>1, <2>1, <2>3 DEF InCare, Running, Rows
  <2> QED
    BY <2>1, <2>4, <2>5, <2>6
<1>3. ASSUME NEW t \in Tasks, GivesUp(t) PROVE Keeps
  <2>1. /\ t \in queue /\ (t \notin Rows \/ tries[t] >= MaxTries)
        /\ crashing' = crashing \cup {t} /\ progress' = [progress EXCEPT ![t] = "failed"]
        /\ UNCHANGED <<finishAt, queue, building, tries, mishaps, stranded>>
    BY <1>3 DEF GivesUp, mishapVars
  <2>2. /\ DOMAIN progress' = Rows /\ \A u \in Rows : u # t => progress'[u] = progress[u]
        /\ t \in Rows => progress'[t] = "failed"
    BY <2>1 DEF Rows
  <2>3. KbTypeOK'
    BY <1>0, <1>1, <2>1, <2>2 DEF KbTypeOK, Rows
  <2>4. CrashesStay'
    BY <1>0, <2>1, <2>2 DEF CrashesStay, Rows
  <2>5. \A u : InCare(u) => InCare(u)'
    BY <1>1, <2>1, <2>2 DEF InCare, Running, Rows
  <2> QED
    BY <2>1, <2>3, <2>4, <2>5
<1>4. ASSUME NEW t \in Tasks, Reports(t) PROVE Keeps
  <2>1. /\ DOMAIN progress' = Rows
        /\ \A u \in Rows : progress'[u] \in {"zero", "failed", "done"}
        /\ \A u \in Rows : progress'[u] = "zero" => progress[u] = "zero" /\ u # t
    BY <1>0, <1>4, Reported DEF Reports
  <2>2. UNCHANGED <<finishAt, queue, building, tries, crashing, mishaps, stranded>>
    BY <1>4 DEF Reports, retryVars, mishapVars
  <2> QED
    BY <1>0, <1>1, <2>1, <2>2 DEF KbTypeOK, CrashesStay, InCare, Running, Rows
<1>5. ASSUME NEW t \in Tasks, NEW ok \in BOOLEAN, Ends(t, ok) PROVE Keeps
  <2>1. PICK p \in {"failed", "done"} : progress' = Report(t, p)
    BY <1>5 DEF Ends
  <2>2. /\ DOMAIN progress' = Rows
        /\ \A u \in Rows : progress'[u] \in {"zero", "failed", "done"}
        /\ \A u \in Rows : progress'[u] = "zero" => progress[u] = "zero" /\ u # t
    BY <1>0, <2>1, Reported
  <2>3. /\ building' = building \ {t} /\ finishAt' \in BOOLEAN
        /\ UNCHANGED <<queue, tries, crashing, mishaps, stranded>>
    BY <1>0, <1>5 DEF Ends, KbTypeOK, retryVars, mishapVars
  <2>4. KbTypeOK' /\ CrashesStay'
    BY <1>0, <1>1, <2>2, <2>3 DEF KbTypeOK, CrashesStay, Rows
  <2>5. \A u : InCare(u) => InCare(u)'
    BY <1>1, <2>2, <2>3 DEF InCare, Running, Rows
  <2> QED
    BY <2>3, <2>4, <2>5
<1>6. ASSUME NEW t \in Tasks, EndsUnreported(t) PROVE Keeps
  <2>1. /\ t \in building /\ building' = building \ {t} /\ stranded' = stranded \cup {t}
        /\ finishAt' \in BOOLEAN /\ mishaps' \in 0..MaxMishaps
        /\ UNCHANGED <<progress, queue, tries, crashing>>
    BY <1>0, <1>6, MishapCounted DEF EndsUnreported, KbTypeOK, retryVars
  <2>2. KbTypeOK' /\ CrashesStay'
    BY <1>0, <1>1, <2>1 DEF KbTypeOK, CrashesStay, Rows
  <2>3. \A u : InCare(u) => InCare(u)'
    BY <1>1, <2>1 DEF InCare, Running, Rows
  <2> QED
    BY <2>1, <2>2, <2>3
<1>7. ASSUME NEW t \in Tasks, Dies(t) PROVE Keeps
  <2>1. /\ t \in building /\ building' = building \ {t} /\ queue' = queue \cup {t}
        /\ mishaps' \in 0..MaxMishaps /\ UNCHANGED <<finishAt, tries, crashing, stranded>>
    BY <1>0, <1>7, MishapCounted DEF Dies, retryVars
  <2>2. t \notin crashing
    BY <1>0, <2>1 DEF CrashesStay
  <2>3. /\ DOMAIN progress' = Rows
        /\ \A u \in Rows : progress'[u] \in {"zero", "failed", "done"}
        /\ \A u \in Rows : progress'[u] = "zero" => progress[u] = "zero"
    <3>1. CASE progress' = progress
      BY <1>0, <3>1 DEF KbTypeOK, Rows
    <3>2. CASE \E p \in {"failed", "done"} : progress' = Report(t, p)
      BY <1>0, <3>2, Reported
    <3> QED
      BY <1>7, <3>1, <3>2 DEF Dies
  <2>4. KbTypeOK'
    BY <1>0, <1>1, <2>1, <2>3 DEF KbTypeOK, Rows
  <2>5. CrashesStay'
    BY <1>0, <2>1, <2>3 DEF CrashesStay, Rows
  <2>6. \A u : InCare(u) => InCare(u)'
    BY <1>1, <2>1, <2>2, <2>3 DEF InCare, Running, Rows
  <2> QED
    BY <2>1, <2>4, <2>5, <2>6
<1>8. Keeps
  BY <1>2, <1>3, <1>4, <1>5, <1>6, <1>7 DEF KbExecutor
<1> HIDE DEF Keeps
<1>9. OwnTasks' /\ KnownUnbinds' /\ CanceledIsUnbound'
  BY <1>0, <1>1, <1>8 DEF Keeps, OwnTasks, KnownUnbinds, CanceledIsUnbound, BuildRequest
<1>10. RunsInCare'
  <2>1. bound' = bound /\ runs' = runs /\ \A u : InCare(u) => InCare(u)'
    BY <1>1, <1>8 DEF Keeps
  <2>2. InCare(bound)'
    BY <1>0, <2>1 DEF RunsInCare, InCare, Running, Rows
  <2>3. ASSUME NEW r \in runs, r.phase = "queued"
        PROVE  r.task \in DOMAIN progress' /\ progress'[r.task] = "zero"
                 => r.task \in (queue' \ crashing') \cup building' \cup stranded' \cup canceled'
    BY <1>0, <2>1, <2>3 DEF RunsInCare, InCare, Running, Rows
  <2> QED
    BY <2>1, <2>2, <2>3 DEF RunsInCare, InCare, Running, Rows
<1> QED
  BY <1>8, <1>9, <1>10 DEF KbInv, Keeps

-----------------------------------------------------------------------------
(* The theorems about the generate button. *)

LEMMA KbInitInv == KbInit => KbInv
<1> SUFFICES ASSUME KbInit PROVE KbInv
  OBVIOUS
<1>1. requested \in 0..MaxRuns /\ NoTask \in 0..requested /\ mishaps \in 0..MaxMishaps
  BY KbAssumption DEF KbInit, NoTask
<1>2. Rows = {}
  BY DEF KbInit, Rows
<1> QED
  BY <1>1, <1>2 DEF KbInit, KbInv, KbTypeOK, OwnTasks, KnownUnbinds, CanceledIsUnbound,
     CrashesStay, RunsInCare, InCare, Running, Nothing

LEMMA KbNextInv == ASSUME KbInv, [KbNext]_kbVars PROVE KbInv'
<1>1. CASE UNCHANGED kbVars
  BY <1>1 DEF KbInv, KbTypeOK, OwnTasks, BuildRequest, KnownUnbinds, CanceledIsUnbound,
     CrashesStay, RunsInCare, InCare, Running, Rows, kbVars, serverVars, retryVars, mishapVars,
     callVars, pageVars
<1> QED
  BY <1>1, KbUserInv, KbServerInv, KbExecutorInv DEF KbNext

LEMMA KbInductive == KbSpec => []KbInv
BY KbInitInv, KbNextInv, PTL DEF KbSpec

\* The page, the handlers and the executors keep to the types.
THEOREM KbTypeCorrect == KbSpec => []KbTypeOK
<1>1. KbInv => KbTypeOK
  BY DEF KbInv
<1> QED
  BY <1>1, KbInductive, PTL

\* The build a dataset is bound to and shows as running is worked, or it was
\* canceled and is about to be unbound, or its last report or that request was
\* lost (kb_app.py; collect and set_progress of task_executor.py).
THEOREM BoundRunsAreWorked == KbSpec => []BoundRunIsWorked
<1>1. KbInv => BoundRunIsWorked
  BY DEF KbInv, RunsInCare, InCare, CanceledIsUnbound, BoundRunIsWorked
<1> QED
  BY <1>1, KbInductive, PTL

-----------------------------------------------------------------------------
(* The web client: its parts stay apart. *)

LEMMA OnePartSteps ==
  ASSUME [Next]_webVars
  PROVE  /\ [GraphNext]_graphVars /\ [PageNext]_agentPageVars /\ [PipelineNext]_pipelineVars
         /\ [ChatNext]_chatVars /\ [KbNext]_kbVars
<1>1. CASE InGraph /\ GraphNext
  BY <1>1 DEF InGraph
<1>2. CASE InEditor /\ PageNext
  BY <1>2 DEF InEditor
<1>3. CASE InPipeline /\ PipelineNext
  BY <1>3 DEF InPipeline
<1>4. CASE InChat /\ ChatNext
  BY <1>4 DEF InChat
<1>5. CASE InDataset /\ KbNext
  BY <1>5 DEF InDataset
<1>6. CASE UNCHANGED webVars
  BY <1>6 DEF webVars
<1> QED
  BY <1>1, <1>2, <1>3, <1>4, <1>5, <1>6 DEF Next

\* A behaviour of the web client is one of each of its parts: no event of one
\* page takes a step of another that the other could not take by itself.
THEOREM PartsStayApart ==
  Spec => GraphSpec /\ PageSpec /\ PipelineSpec /\ ChatSpec /\ KbSpec
<1>1. Init => GraphInit /\ PageInit /\ PipelineInit /\ ChatInit /\ KbInit
  BY DEF Init
<1> QED
  BY <1>1, OnePartSteps, PTL DEF Spec, GraphSpec, PageSpec, PipelineSpec, ChatSpec, KbSpec

\* Every variable of the web client keeps its type, whatever part is open.
THEOREM WebClientTypeCorrect == Spec => []TypeOK
<1>1. GraphTypeOK /\ PageTypeOK /\ PipelineTypeOK /\ ChatTypeOK /\ KbTypeOK => TypeOK
  BY DEF TypeOK
<1> QED
  BY <1>1, PartsStayApart, GraphTypeCorrect, PageTypeCorrect, PipelineTypeCorrect,
     ChatTypeCorrect, KbTypeCorrect, PTL

\* What each part promises holds in the web client: no cycle is drawn, edges
\* follow forms, the page at rest shows what is stored, logs are followed to
\* their end, streams can be stopped, no question is stored twice, and a build
\* that is bound and running is worked or about to be unbound, unless a report
\* or a request was lost.
THEOREM WebClientIsSafe ==
  Spec => [](/\ GraphAcyclic /\ EdgesMatchForms /\ AgreesAtRest /\ FollowedUntilEnd
             /\ StreamsCanBeStopped /\ QuestionStoredOnce /\ BoundRunIsWorked)
BY PartsStayApart, NoCycleIsDrawn, EdgesFollowForms, PageAgreesAtRest, RunsAreFollowed,
   EveryStreamCanBeStopped, QuestionsAreStoredOnce, BoundRunsAreWorked, PTL

\* What its steps may never do, and the undo history it implements.
THEOREM WebClientStepsAreSafe == Spec => FixedNodesStay /\ ImplementsUndoStack
BY PartsStayApart, FixedNodesAreKept, PageImplementsUndoStack, PTL
=============================================================================
