--------------------------- MODULE DocParsingProofs --------------------------
(* Theorems about DocParsing, for any executors, request threads, page      *)
(* ranges and bounds.                                                       *)
EXTENDS DocParsing, TLAPS

-----------------------------------------------------------------------------
(* The inductive invariant.                                                 *)

\* The message of a task is queued or claimed, by one executor, or neither.
QueueInv ==
    /\ queued \cap Queue!Claimed = {} /\ acked \subseteq Queue!Claimed
    /\ \A v, w \in Workers : \A t \in Tasks : <<v, t>> \in claims /\ <<w, t>> \in claims => v = w

\* An executor works on a message it has claimed and not acknowledged.
Busy == {"taken", "begin", "build", "insert", "check", "finish", "record",
         "sync", "syncDoc", "syncWrite", "ack"}

JobInv == \A w \in Workers : pc[w] \in Busy => job[w] \in Unacked(w)

\* A run whose tasks are not inserted yet has a number of its own, which no
\* row, message or attempt has seen.
Before == {"update", "updateWipe", "wipe", "wipeStore", "prev", "drop", "dropStore", "insert"}

Used(t) == \/ t \in rows \/ t \in queued \/ t \in Queue!Claimed
           \/ attempts[t] # 0 \/ \E h \in Handlers : t \in todo[h]

RunInv ==
    /\ \A t \in Tasks : Used(t) => t[1] <= runs
    /\ \A h \in Handlers : pc[h] \in Before =>
          /\ plan[h].gen \in 1..runs
          /\ \A t \in Tasks : Used(t) => t[1] # plan[h].gen
          /\ \A g \in Handlers : pc[g] \in Before /\ plan[g].gen = plan[h].gen => g = h

\* A handler has tasks to queue between their insert and the end of its request.
TodoInv == \A h \in Handlers : pc[h] \notin {"begin2parse", "enqueue"} => todo[h] = {}

\* Every attempt was counted in the task's row.
CountInv == \A t \in Tasks : attempts[t] <= task[t].retry /\ attempts[t] <= AttemptLimit

\* Nothing is left to do for a task an executor is about to acknowledge.
Settled(t) == deleted \/ t \notin rows \/ t \in canceled \cup stranded \/ task[t].progress \in {"one", "bad"}

Leaving == {"record", "sync", "syncDoc", "syncWrite", "ack"}

SettledInv == \A w \in Workers : pc[w] \in Leaving => Settled(job[w])

IInv == TypeOK /\ QueueInv /\ JobInv /\ RunInv /\ TodoInv /\ CountInv
MInv == IInv /\ SettledInv /\ UnfinishedHasMessage

-----------------------------------------------------------------------------
(* Types. *)

\* A task has a run and a page range.
LEMMA TaskParts ==
  ASSUME NEW t \in Tasks PROVE t[1] \in 1..MaxRuns /\ PageOf(t) \in Pages
  BY DEF Tasks, PageOf

\* An executor at work has a task in hand.
LEMMA JobIsTask ==
  ASSUME JobInv, NEW w \in Workers, pc[w] \in Busy PROVE job[w] \in Tasks
  BY DEF JobInv, Unacked

\* A report keeps the task rows, and the count of faults, typed.
LEMMA ReportType ==
  ASSUME TypeOK, NEW t \in Tasks, NEW p \in Progresses, Report(t, p)
  PROVE  /\ task' \in [Tasks -> [progress : Progresses, retry : Nat, indexed : BOOLEAN]]
         /\ faults' \in 0..MaxFaults /\ stranded' \subseteq Tasks
<1> USE ParsingAssumption DEF TypeOK, DataTypeOK, CountTypeOK
<1>1. CASE Reported(t, p) BY <1>1 DEF Reported, Progresses, faultVars
<1>2. CASE ReportLost(t, p) BY <1>2 DEF ReportLost
<1> QED BY <1>1, <1>2 DEF Report

\* The steps of requests keep every type.
LEMMA AcceptType ==
  ASSUME TypeOK, NEW h \in Handlers, AcceptAny(h) PROVE TypeOK'
<1> USE ParsingAssumption DEF TypeOK
<1>1. CASE AcceptRun(h)
  <2>1. DataTypeOK' BY <1>1 DEF DataTypeOK, AcceptRun, docVars, queueVars
  <2>2. runs + 1 \in 0..MaxRuns BY <1>1 DEF CountTypeOK, AcceptRun
  <2>3. plan' \in [Handlers -> [gen : 0..MaxRuns, reuse : SUBSET Pages, drop : SUBSET Pages]]
    BY <1>1, <2>2 DEF ProcTypeOK, AcceptRun
  <2>4. ProcTypeOK'
    BY <1>1, <2>3 DEF ProcTypeOK, AcceptRun, Goto, Places
  <2>5. CountTypeOK' BY <1>1, <2>2 DEF CountTypeOK, AcceptRun, Accept, countVars, faultVars
  <2> QED BY <2>1, <2>4, <2>5
<1>2. CASE AcceptCancel(h) \/ AcceptStop(h) \/ AcceptRemove(h)
  <2>1. DataTypeOK'
    BY <1>2 DEF DataTypeOK, AcceptCancel, AcceptStop, AcceptRemove, docVars, queueVars
  <2>2. ProcTypeOK'
    BY <1>2 DEF ProcTypeOK, AcceptCancel, AcceptStop, AcceptRemove, Goto, Places
  <2>3. CountTypeOK'
    BY <1>2 DEF CountTypeOK, AcceptCancel, AcceptStop, AcceptRemove, Accept, countVars, faultVars
  <2> QED BY <2>1, <2>2, <2>3
<1> QED BY <1>1, <1>2 DEF AcceptAny

\* Writing the document keeps it typed.
LEMMA WriteDocType ==
  ASSUME DataTypeOK, NEW r \in RunStates \cup {"same"}, NEW p \in Progresses \cup {"keep"},
         WriteDoc(r, p), UNCHANGED <<rows, task, store, canceled, queueVars>>
  PROVE  DataTypeOK'
  BY DEF DataTypeOK, WriteDoc, docVars, queueVars

\* The steps of requests keep every type.
LEMMA ServeType ==
  ASSUME TypeOK, RunInv, NEW h \in Handlers, Serve(h) PROVE TypeOK'
<1> USE ParsingAssumption DEF TypeOK
<1>1. CASE RunUpdate(h)
  <2>1. DataTypeOK' BY <1>1, WriteDocType DEF RunUpdate, RunStates, Progresses
  <2>2. ProcTypeOK' BY <1>1 DEF ProcTypeOK, RunUpdate, handlerVars, Goto, Places
  <2>3. CountTypeOK' BY <1>1 DEF CountTypeOK, RunUpdate, handlerVars, countVars, faultVars, workerRest
  <2> QED BY <2>1, <2>2, <2>3
<1>2. CASE RunWipe(h)
  <2>1. DataTypeOK' BY <1>2 DEF DataTypeOK, RunWipe, docVars, queueVars
  <2>2. ProcTypeOK' BY <1>2 DEF ProcTypeOK, RunWipe, handlerVars, Goto, Places
  <2>3. CountTypeOK' BY <1>2 DEF CountTypeOK, RunWipe, handlerVars, countVars, faultVars, workerRest
  <2> QED BY <2>1, <2>2, <2>3
<1>3. CASE ReadPrev(h)
  <2>1. DataTypeOK' BY <1>3 DEF DataTypeOK, ReadPrev, docVars, queueVars
  <2>a. \A t \in rows : PageOf(t) \in Pages BY TaskParts DEF DataTypeOK
  <2>b. plan' \in [Handlers -> [gen : 0..MaxRuns, reuse : SUBSET Pages, drop : SUBSET Pages]]
    <3>1. CASE deleted BY <1>3, <3>1 DEF ProcTypeOK, ReadPrev, NoPlan
    <3>2. CASE ~deleted
      <4>1. PICK R, S \in SUBSET Pages : plan' = [plan EXCEPT ![h].reuse = R, ![h].drop = S]
        <5> DEFINE R == {PageOf(t) : t \in {u \in rows : Reusable(u)}}
                   S == {PageOf(t) : t \in {u \in rows : task[u].indexed /\ ~Reusable(u)}}
        <5>1. R \in SUBSET Pages /\ S \in SUBSET Pages BY <2>a
        <5>2. plan' = [plan EXCEPT ![h].reuse = R, ![h].drop = S] BY <1>3, <3>2 DEF ReadPrev
        <5> QED BY <5>1, <5>2
      <4> QED BY <4>1 DEF ProcTypeOK
    <3> QED BY <3>1, <3>2
  <2>2. ProcTypeOK' BY <1>3, <2>b DEF ProcTypeOK, ReadPrev, Goto, Places
  <2>3. CountTypeOK' BY <1>3 DEF CountTypeOK, ReadPrev, countVars, faultVars
  <2> QED BY <2>1, <2>2, <2>3
<1>4. CASE DropPrev(h)
  <2>1. DataTypeOK' BY <1>4 DEF DataTypeOK, DropPrev, docVars, queueVars
  <2>2. ProcTypeOK' BY <1>4 DEF ProcTypeOK, DropPrev, handlerVars, Goto, Places
  <2>3. CountTypeOK' BY <1>4 DEF CountTypeOK, DropPrev, handlerVars, countVars, faultVars, workerRest
  <2> QED BY <2>1, <2>2, <2>3
<1>5. CASE InsertTasks(h)
  <2> DEFINE new == {plan[h].gen} \X Pages
             Kept(t) == PageOf(t) \in plan[h].reuse
  <2>a. new \subseteq Tasks
    <3>1. plan[h].gen \in 1..runs BY <1>5 DEF RunInv, InsertTasks, Before
    <3>2. plan[h].gen \in 1..MaxRuns BY <3>1 DEF CountTypeOK
    <3> QED BY <3>2 DEF Tasks
  <2>b. rows' = rows \cup new /\ todo' = [todo EXCEPT ![h] = {t \in new : ~Kept(t)}]
    BY <1>5 DEF InsertTasks
  <2>c. task' \in [Tasks -> [progress : Progresses, retry : Nat, indexed : BOOLEAN]]
    <3>1. task' = [t \in Tasks |->
                  IF t \notin new THEN task[t]
                  ELSE [progress |-> IF Kept(t) THEN "one" ELSE "zero", retry |-> 0, indexed |-> Kept(t)]]
      BY <1>5 DEF InsertTasks
    <3>2. \A t \in Tasks : Kept(t) \in BOOLEAN OBVIOUS
    <3>3. ASSUME NEW t \in Tasks
          PROVE  task'[t] \in [progress : Progresses, retry : Nat, indexed : BOOLEAN]
      <4>1. CASE t \notin new BY <3>1, <4>1 DEF DataTypeOK
      <4>2. CASE t \in new /\ Kept(t) BY <3>1, <4>2 DEF Progresses
      <4>3. CASE t \in new /\ ~Kept(t) BY <3>1, <4>3 DEF Progresses
      <4> QED BY <4>1, <4>2, <4>3
    <3> QED BY <3>1, <3>3
  <2>1. DataTypeOK' BY <1>5, <2>a, <2>b, <2>c DEF DataTypeOK, InsertTasks, docVars, queueVars
  <2>d. todo' \in [Handlers -> SUBSET Tasks] BY <2>a, <2>b DEF ProcTypeOK
  <2>2. ProcTypeOK' BY <1>5, <2>d DEF ProcTypeOK, InsertTasks, Goto, Places
  <2>3. CountTypeOK' BY <1>5 DEF CountTypeOK, InsertTasks, countVars, faultVars
  <2> QED BY <2>1, <2>2, <2>3
<1>6. CASE Begin2Parse(h)
  <2>1. DataTypeOK' BY <1>6, WriteDocType DEF Begin2Parse, RunStates, Progresses
  <2>2. ProcTypeOK' BY <1>6 DEF ProcTypeOK, Begin2Parse, handlerVars, Goto, Places
  <2>3. CountTypeOK' BY <1>6 DEF CountTypeOK, Begin2Parse, handlerVars, countVars, faultVars, workerRest
  <2> QED BY <2>1, <2>2, <2>3
<1>7. CASE EnqueueTask(h)
  <2>1. DataTypeOK' BY <1>7 DEF DataTypeOK, ProcTypeOK, EnqueueTask, docVars, Queue!Enqueue
  <2>2. ProcTypeOK' BY <1>7 DEF ProcTypeOK, EnqueueTask, handlerVars, Goto, Places
  <2>3. CountTypeOK' BY <1>7 DEF CountTypeOK, EnqueueTask, countVars, faultVars
  <2> QED BY <2>1, <2>2, <2>3
<1>8. CASE RunDone(h)
  <2>1. DataTypeOK' BY <1>8 DEF DataTypeOK, RunDone, docVars, queueVars
  <2>2. ProcTypeOK' BY <1>8 DEF ProcTypeOK, RunDone, NoPlan, Goto, Places
  <2>3. CountTypeOK' BY <1>8 DEF CountTypeOK, RunDone, countVars, faultVars
  <2> QED BY <2>1, <2>2, <2>3
<1>9. CASE CancelTasks(h)
  <2>1. DataTypeOK' BY <1>9 DEF DataTypeOK, CancelTasks, docVars, queueVars
  <2>2. ProcTypeOK' BY <1>9 DEF ProcTypeOK, CancelTasks, handlerVars, Goto, Places
  <2>3. CountTypeOK' BY <1>9 DEF CountTypeOK, CancelTasks, handlerVars, countVars, faultVars, workerRest
  <2> QED BY <2>1, <2>2, <2>3
<1>10. CASE CancelDoc(h)
  <2>1. DataTypeOK' BY <1>10, WriteDocType DEF CancelDoc, RunStates, Progresses
  <2>2. ProcTypeOK' BY <1>10 DEF ProcTypeOK, CancelDoc, handlerVars, Goto, Places
  <2>3. CountTypeOK' BY <1>10 DEF CountTypeOK, CancelDoc, handlerVars, countVars, faultVars, workerRest
  <2> QED BY <2>1, <2>2, <2>3
<1>11. CASE StopDoc(h)
  <2>1. DataTypeOK' BY <1>11, WriteDocType DEF StopDoc, RunStates, Progresses
  <2>2. ProcTypeOK' BY <1>11 DEF ProcTypeOK, StopDoc, handlerVars, Goto, Places
  <2>3. CountTypeOK' BY <1>11 DEF CountTypeOK, StopDoc, handlerVars, countVars, faultVars, workerRest
  <2> QED BY <2>1, <2>2, <2>3
<1>12. CASE StopWipe(h)
  <2>1. DataTypeOK' BY <1>12 DEF DataTypeOK, StopWipe, docVars, queueVars
  <2>2. ProcTypeOK' BY <1>12 DEF ProcTypeOK, StopWipe, handlerVars, Goto, Places
  <2>3. CountTypeOK' BY <1>12 DEF CountTypeOK, StopWipe, handlerVars, countVars, faultVars, workerRest
  <2> QED BY <2>1, <2>2, <2>3
<1>13. CASE RemoveWipe(h)
  <2>1. DataTypeOK' BY <1>13 DEF DataTypeOK, RemoveWipe, docVars, queueVars
  <2>2. ProcTypeOK' BY <1>13 DEF ProcTypeOK, RemoveWipe, handlerVars, Goto, Places
  <2>3. CountTypeOK' BY <1>13 DEF CountTypeOK, RemoveWipe, handlerVars, countVars, faultVars, workerRest
  <2> QED BY <2>1, <2>2, <2>3
<1>14. CASE RemoveDoc(h)
  <2>1. DataTypeOK' BY <1>14 DEF DataTypeOK, RemoveDoc, docVars, queueVars
  <2>2. ProcTypeOK' BY <1>14 DEF ProcTypeOK, RemoveDoc, handlerVars, Goto, Places
  <2>3. CountTypeOK' BY <1>14 DEF CountTypeOK, RemoveDoc, handlerVars, countVars, faultVars, workerRest
  <2> QED BY <2>1, <2>2, <2>3
<1>15. CASE WipeStore(h) \/ DropStore(h)
  <2>1. DataTypeOK' BY <1>15 DEF DataTypeOK, WipeStore, DropStore, docVars, queueVars
  <2>2. ProcTypeOK' BY <1>15 DEF ProcTypeOK, WipeStore, DropStore, handlerVars, Goto, Places
  <2>3. CountTypeOK' BY <1>15 DEF CountTypeOK, WipeStore, DropStore, handlerVars, countVars, faultVars
  <2> QED BY <2>1, <2>2, <2>3
<1>16. CASE RemoveStore(h)
  <2>1. DataTypeOK' BY <1>16 DEF DataTypeOK, RemoveStore, docVars, queueVars
  <2>2. ProcTypeOK' BY <1>16 DEF ProcTypeOK, RemoveStore, handlerVars, Goto, Places
  <2>3. CountTypeOK' BY <1>16 DEF CountTypeOK, RemoveStore, handlerVars
  <2> QED BY <2>1, <2>2, <2>3
<1> QED BY <1>1, <1>2, <1>3, <1>4, <1>5, <1>6, <1>7, <1>8, <1>9, <1>10, <1>11, <1>12, <1>13, <1>14,
       <1>15, <1>16 DEF Serve

\* A request that fails keeps every type.
LEMMA FailsType ==
  ASSUME TypeOK, NEW h \in Handlers, RequestFails(h) PROVE TypeOK'
<1> USE ParsingAssumption DEF TypeOK
<1>1. DataTypeOK' BY DEF DataTypeOK, RequestFails, docVars, queueVars
<1>2. NoPlan \in [gen : 0..MaxRuns, reuse : SUBSET Pages, drop : SUBSET Pages] BY DEF NoPlan
<1>3. ProcTypeOK' BY <1>2 DEF ProcTypeOK, RequestFails, Goto, Places
<1>4. Unqueued(h) \subseteq Tasks BY DEF Unqueued, ProcTypeOK
<1>5. CountTypeOK' BY <1>4 DEF CountTypeOK, RequestFails
<1> QED BY <1>1, <1>3, <1>5

LEMMA SyncType ==
  ASSUME TypeOK, NEW s \in Syncers, Sync(s) PROVE TypeOK'
<1> USE ParsingAssumption DEF TypeOK
<1>1. CASE SyncTasks(s)
  <2>1. DataTypeOK' BY <1>1 DEF DataTypeOK, SyncTasks, docVars, queueVars
  <2>a. Summary \in [run : RunStates \cup {"same"}, progress : Progresses \cup {"keep"}]
    BY DEF Summary, RunStates, Progresses
  <2>b. AfterSync(s) \in Places BY DEF AfterSync, Places
  <2>c. memo' \in [Syncers -> [run : RunStates \cup {"same"}, progress : Progresses \cup {"keep"}]]
    BY <1>1, <2>a DEF ProcTypeOK, SyncTasks
  <2>2. ProcTypeOK' BY <1>1, <2>b, <2>c DEF ProcTypeOK, SyncTasks, handlerVars, Goto, Places
  <2>3. CountTypeOK' BY <1>1 DEF CountTypeOK, SyncTasks, handlerVars, countVars, faultVars, workerRest
  <2> QED BY <2>1, <2>2, <2>3
<1>2. CASE SyncDoc(s)
  <2>1. DataTypeOK' BY <1>2 DEF DataTypeOK, SyncDoc, docVars, queueVars
  <2>b. AfterSync(s) \in Places BY DEF AfterSync, Places
  <2>c. memo' \in [Syncers -> [run : RunStates \cup {"same"}, progress : Progresses \cup {"keep"}]]
    <3>1. memo' = memo \/ \E r \in RunStates \cup {"same"} : memo' = [memo EXCEPT ![s].run = r]
      <4> DEFINE r == IF memo[s].run = "same" THEN run ELSE memo[s].run
      <4>1. r \in RunStates \cup {"same"} BY DEF DataTypeOK, ProcTypeOK
      <4>2. memo' = memo \/ memo' = [memo EXCEPT ![s].run = r] BY <1>2 DEF SyncDoc
      <4> QED BY <4>1, <4>2
    <3>2. memo \in [Syncers -> [run : RunStates \cup {"same"}, progress : Progresses \cup {"keep"}]]
      BY DEF ProcTypeOK
    <3> HIDE DEF TypeOK
    <3>3. ASSUME NEW r \in RunStates \cup {"same"}, memo' = [memo EXCEPT ![s].run = r]
          PROVE  memo' \in [Syncers -> [run : RunStates \cup {"same"}, progress : Progresses \cup {"keep"}]]
      BY <3>2, <3>3
    <3> QED BY <3>1, <3>2, <3>3
  <2>2. ProcTypeOK' BY <1>2, <2>b, <2>c DEF ProcTypeOK, SyncDoc, handlerVars, Goto, Places
  <2>3. CountTypeOK' BY <1>2 DEF CountTypeOK, SyncDoc, handlerVars, countVars, faultVars, workerRest
  <2> QED BY <2>1, <2>2, <2>3
<1>3. CASE SyncWrite(s)
  <2>0. memo[s].run \in RunStates \cup {"same"} /\ memo[s].progress \in Progresses \cup {"keep"}
    BY DEF ProcTypeOK
  <2>1. DataTypeOK' BY <1>3, <2>0, WriteDocType DEF SyncWrite
  <2>2. ProcTypeOK' BY <1>3 DEF ProcTypeOK, SyncWrite, handlerVars, Goto, Places, AfterSync, Summary, RunStates, Progresses
  <2>3. CountTypeOK' BY <1>3 DEF CountTypeOK, SyncWrite, handlerVars, countVars, faultVars, workerRest
  <2> QED BY <2>1, <2>2, <2>3
<1> QED BY <1>1, <1>2, <1>3 DEF Sync

\* The steps of an executor keep every type.
LEMMA WorkType ==
  ASSUME TypeOK, JobInv, NEW w \in Workers, Work(w) PROVE TypeOK'
<1> USE ParsingAssumption DEF TypeOK
<1>1. CASE Take(w)
  <2>1. DataTypeOK' BY <1>1 DEF DataTypeOK, Take, docVars, queueVars, Queue!Claim
  <2>a. PICK t \in Tasks : job' = [job EXCEPT ![w] = t]
    BY <1>1 DEF DataTypeOK, Take, Unacked
  <2>2. ProcTypeOK' BY <1>1, <2>a DEF ProcTypeOK, Take, handlerVars, Goto, Places
  <2>3. CountTypeOK' BY <1>1 DEF CountTypeOK, Take, handlerVars, countVars, faultVars, workerRest
  <2> QED BY <2>1, <2>2, <2>3
<1>2. CASE GetTask(w)
  <2>1. DataTypeOK' BY <1>2, JobIsTask DEF DataTypeOK, GetTask, Busy, Progresses, docVars, queueVars
  <2>2. ProcTypeOK' BY <1>2 DEF ProcTypeOK, GetTask, handlerVars, workerRest, faultVars, Goto, Places, Syncers
  <2>3. CountTypeOK' BY <1>2, JobIsTask DEF CountTypeOK, GetTask, Busy, handlerVars, faultVars
  <2> QED BY <2>1, <2>2, <2>3
<1>3. CASE Begin(w)
  <2>1. DataTypeOK' BY <1>3, JobIsTask, ReportType DEF DataTypeOK, Begin, Busy, Progresses, docVars, queueVars, workerRest, faultVars
  <2>2. ProcTypeOK' BY <1>3 DEF ProcTypeOK, Begin, handlerVars, workerRest, faultVars, Goto, Places, Syncers
  <2>3. CountTypeOK' BY <1>3, JobIsTask, ReportType DEF CountTypeOK, Begin, Busy, Progresses, handlerVars, countVars, faultVars, workerRest
  <2> QED BY <2>1, <2>2, <2>3
<1>4. CASE Build(w)
  <2>1. DataTypeOK' BY <1>4, JobIsTask, ReportType DEF DataTypeOK, Build, Busy, Progresses, docVars, queueVars, workerRest, faultVars
  <2>2. ProcTypeOK' BY <1>4 DEF ProcTypeOK, Build, handlerVars, workerRest, faultVars, Goto, Places, Syncers
  <2>3. CountTypeOK' BY <1>4, JobIsTask, ReportType DEF CountTypeOK, Build, Busy, Progresses, handlerVars, countVars, faultVars, workerRest
  <2> QED BY <2>1, <2>2, <2>3
<1>5. CASE BuildNothing(w)
  <2>1. DataTypeOK' BY <1>5, JobIsTask, ReportType DEF DataTypeOK, BuildNothing, Busy, Progresses, docVars, queueVars, workerRest, faultVars
  <2>2. ProcTypeOK' BY <1>5 DEF ProcTypeOK, BuildNothing, handlerVars, workerRest, faultVars, Goto, Places, Syncers
  <2>3. CountTypeOK' BY <1>5, JobIsTask, TaskParts, ReportType DEF CountTypeOK, BuildNothing, Busy, Progresses, handlerVars, workerRest, faultVars
  <2> QED BY <2>1, <2>2, <2>3
<1>6. CASE InsertChunks(w)
  <2>1. DataTypeOK' BY <1>6, JobIsTask, TaskParts DEF DataTypeOK, InsertChunks, Busy, docVars, queueVars, workerRest, faultVars
  <2>2. ProcTypeOK' BY <1>6 DEF ProcTypeOK, InsertChunks, handlerVars, workerRest, faultVars, Goto, Places, Syncers
  <2>3. CountTypeOK' BY <1>6 DEF CountTypeOK, InsertChunks, handlerVars, countVars, faultVars, workerRest
  <2> QED BY <2>1, <2>2, <2>3
<1>7. CASE CheckInserted(w)
  <2>a. job[w] \in Tasks BY <1>7, JobIsTask DEF CheckInserted, Busy
  <2>b. task' \in [Tasks -> [progress : Progresses, retry : Nat, indexed : BOOLEAN]]
    <3>1. CASE HasKey(job[w])
      BY <1>7, <2>a, <3>1, ReportType DEF CheckInserted, Progresses
    <3>2. CASE ~HasKey(job[w])
      <4>1. task' = IF job[w] \in rows THEN [task EXCEPT ![job[w]].indexed = TRUE] ELSE task
        BY <1>7, <3>2 DEF CheckInserted
      <4>2. [task[job[w]] EXCEPT !.indexed = TRUE] \in [progress : Progresses, retry : Nat, indexed : BOOLEAN]
        BY <2>a DEF DataTypeOK
      <4> QED BY <2>a, <4>1, <4>2 DEF DataTypeOK
    <3> QED BY <3>1, <3>2
  <2>1. DataTypeOK' BY <1>7, <2>b DEF DataTypeOK, CheckInserted, docVars, queueVars, workerRest, faultVars
  <2>2. ProcTypeOK' BY <1>7 DEF ProcTypeOK, CheckInserted, handlerVars, workerRest, faultVars, Goto, Places, Syncers
  <2>3. CountTypeOK' BY <1>7, <2>a, ReportType DEF CountTypeOK, CheckInserted, Progresses, handlerVars, countVars, faultVars, workerRest
  <2> QED BY <2>1, <2>2, <2>3
<1>8. CASE Finish(w)
  <2>1. DataTypeOK' BY <1>8, JobIsTask, ReportType DEF DataTypeOK, Finish, Busy, Progresses, docVars, queueVars, workerRest, faultVars
  <2>2. ProcTypeOK' BY <1>8 DEF ProcTypeOK, Finish, handlerVars, workerRest, faultVars, Goto, Places, Syncers
  <2>3. CountTypeOK' BY <1>8, JobIsTask, ReportType DEF CountTypeOK, Finish, Busy, Progresses, handlerVars, countVars, faultVars, workerRest
  <2> QED BY <2>1, <2>2, <2>3
<1>9. CASE Fail(w)
  <2>1. DataTypeOK' BY <1>9, JobIsTask, ReportType DEF DataTypeOK, Fail, Busy, Progresses, docVars, queueVars, workerRest, faultVars
  <2>2. ProcTypeOK' BY <1>9 DEF ProcTypeOK, Fail, handlerVars, workerRest, faultVars, Goto, Places, Syncers
  <2>3. CountTypeOK' BY <1>9, JobIsTask, ReportType DEF CountTypeOK, Fail, Busy, Progresses, handlerVars, countVars, faultVars, workerRest
  <2> QED BY <2>1, <2>2, <2>3
<1>10. CASE Record(w)
  <2>1. DataTypeOK' BY <1>10 DEF DataTypeOK, Record, docVars, queueVars, workerRest, faultVars
  <2>2. ProcTypeOK' BY <1>10 DEF ProcTypeOK, Record, handlerVars, workerRest, faultVars, Goto, Places, Syncers
  <2>3. CountTypeOK' BY <1>10 DEF CountTypeOK, Record, handlerVars, countVars, faultVars, workerRest
  <2> QED BY <2>1, <2>2, <2>3
<1>11. CASE AckMsg(w)
  <2>1. DataTypeOK' BY <1>11, JobIsTask DEF DataTypeOK, AckMsg, Busy, docVars, Queue!Ack
  <2>2. ProcTypeOK' BY <1>11 DEF ProcTypeOK, AckMsg, handlerVars, workerRest, faultVars, Goto, Places, Syncers
  <2>3. CountTypeOK' BY <1>11 DEF CountTypeOK, AckMsg, handlerVars, countVars, faultVars, workerRest
  <2> QED BY <2>1, <2>2, <2>3
<1>12. CASE Sync(w) BY <1>12, SyncType DEF Syncers
<1> QED BY <1>1, <1>2, <1>3, <1>4, <1>5, <1>6, <1>7, <1>8, <1>9, <1>10, <1>11, <1>12 DEF Work

\* A crash, a restart, the selection of a document and an expiry keep every type.
LEMMA CrashType ==
  ASSUME TypeOK, NEW w \in Workers, Crash(w) \/ Restart(w) PROVE TypeOK'
<1> USE ParsingAssumption DEF TypeOK
<1>1. DataTypeOK' BY DEF DataTypeOK, Crash, Restart, docVars, queueVars
<1>2. ProcTypeOK'
  <2>1. CASE Crash(w) BY <2>1 DEF ProcTypeOK, Crash, Goto, Places, handlerVars, Syncers
  <2>2. CASE Restart(w) BY <2>2 DEF ProcTypeOK, Restart, Goto, Places, handlerVars, Syncers
  <2> QED BY <2>1, <2>2
<1>3. CountTypeOK' BY DEF CountTypeOK, Crash, Restart, handlerVars, countVars, faultVars
<1> QED BY <1>1, <1>2, <1>3

LEMMA SelectType ==
  ASSUME TypeOK, SyncSelect PROVE TypeOK'
<1> USE ParsingAssumption DEF TypeOK
<1>1. DataTypeOK' BY DEF DataTypeOK, SyncSelect, docVars, queueVars
<1>2. ProcTypeOK' BY DEF ProcTypeOK, SyncSelect, Goto, Places, handlerVars, Syncers
<1>3. CountTypeOK' BY DEF CountTypeOK, SyncSelect, handlerVars, countVars, faultVars
<1> QED BY <1>1, <1>2, <1>3

LEMMA ExpireType ==
  ASSUME TypeOK, NEW t \in Tasks, ExpireKey(t) PROVE TypeOK'
<1> USE ParsingAssumption DEF TypeOK
<1>1. DataTypeOK' BY DEF DataTypeOK, ExpireKey, docVars, queueVars
<1>2. ProcTypeOK' BY DEF ProcTypeOK, ExpireKey, handlerVars
<1>3. CountTypeOK' BY DEF CountTypeOK, ExpireKey, handlerVars, faultVars
<1> QED BY <1>1, <1>2, <1>3

\* Every step keeps every type.
LEMMA TypeStep ==
  ASSUME TypeOK, JobInv, RunInv, [Next]_vars PROVE TypeOK'
<1>1. CASE \E h \in Handlers : AcceptAny(h) \/ Serve(h) \/ RequestFails(h) BY <1>1, AcceptType, ServeType, FailsType
<1>2. CASE \E w \in Workers : Work(w) \/ Crash(w) \/ Restart(w) BY <1>2, WorkType, CrashType
<1>3. CASE SyncSelect \/ Sync(Server) BY <1>3, SelectType, SyncType DEF Syncers
<1>4. CASE \E t \in Tasks : ExpireKey(t) BY <1>4, ExpireType
<1>5. CASE UNCHANGED vars
  BY <1>5 DEF vars, docVars, queueVars, handlerVars, countVars, faultVars,
              TypeOK, DataTypeOK, ProcTypeOK, CountTypeOK
<1> QED BY <1>1, <1>2, <1>3, <1>4, <1>5 DEF Next

-----------------------------------------------------------------------------
(* What each actor leaves alone. *)

\* The step of a request moves its own thread, and touches no claim, job or count.
LEMMA RequestFrame ==
  ASSUME TypeOK, NEW h \in Handlers, AcceptAny(h) \/ Serve(h) \/ RequestFails(h)
  PROVE  /\ UNCHANGED <<claims, acked, job, attempts>>
         /\ \A p \in Syncers \cup Handlers : p # h => pc'[p] = pc[p]
         /\ \A g \in Handlers : g # h => plan'[g] = plan[g] /\ todo'[g] = todo[g]
         /\ stranded \subseteq stranded'
<1> USE ParsingAssumption DEF TypeOK, ProcTypeOK, Goto, queueVars, handlerVars, countVars, faultVars, Queue!Enqueue
<1>1. CASE AcceptAny(h)
  BY <1>1 DEF AcceptAny, AcceptRun, AcceptCancel, AcceptStop, AcceptRemove, Accept
<1>2. CASE RunUpdate(h) \/ RunWipe(h) \/ WipeStore(h) \/ ReadPrev(h) \/ DropPrev(h) \/ DropStore(h) \/ InsertTasks(h)
  BY <1>2 DEF RunUpdate, RunWipe, WipeStore, ReadPrev, DropPrev, DropStore, InsertTasks
<1>3. CASE Begin2Parse(h) \/ EnqueueTask(h) \/ RunDone(h) \/ CancelTasks(h) \/ CancelDoc(h)
  BY <1>3 DEF Begin2Parse, EnqueueTask, RunDone, CancelTasks, CancelDoc
<1>4. CASE StopDoc(h) \/ StopWipe(h) \/ RemoveWipe(h) \/ RemoveStore(h) \/ RemoveDoc(h)
  BY <1>4 DEF StopDoc, StopWipe, RemoveWipe, RemoveStore, RemoveDoc
<1>5. CASE RequestFails(h) BY <1>5 DEF RequestFails
<1> QED BY <1>1, <1>2, <1>3, <1>4, <1>5 DEF Serve

\* A summary touches the document and its own syncer only.
LEMMA SyncFrame ==
  ASSUME TypeOK, NEW s \in Syncers, Sync(s) \/ (s = Server /\ SyncSelect)
  PROVE  /\ UNCHANGED <<deleted, rows, task, canceled, queueVars, job, handlerVars, attempts, stranded>>
         /\ \A p \in Syncers \cup Handlers : p # s => pc'[p] = pc[p]
  BY ParsingAssumption DEF TypeOK, ProcTypeOK, Goto, docVars, countVars, faultVars, WriteDoc,
     Sync, SyncTasks, SyncDoc, SyncWrite, SyncSelect

\* An executor moves itself, and touches no request.
LEMMA WorkFrame ==
  ASSUME TypeOK, NEW w \in Workers, Work(w) \/ Crash(w) \/ Restart(w)
  PROVE  /\ UNCHANGED <<deleted, rows, canceled, handlerVars>> /\ stranded \subseteq stranded'
         /\ \A p \in Syncers \cup Handlers : p # w => pc'[p] = pc[p]
         /\ \A v \in Workers : v # w => job'[v] = job[v]
<1> USE ParsingAssumption DEF TypeOK, ProcTypeOK, Goto, docVars, countVars, faultVars, workerRest,
       Report, Reported, ReportLost
<1>1. CASE Take(w) \/ GetTask(w) \/ AckMsg(w) \/ Crash(w) \/ Restart(w)
  BY <1>1 DEF Take, GetTask, AckMsg, Crash, Restart
<1>2. CASE Begin(w) \/ Build(w) \/ BuildNothing(w) \/ InsertChunks(w)
  BY <1>2 DEF Begin, Build, BuildNothing, InsertChunks
<1>3. CASE CheckInserted(w) \/ Finish(w) \/ Fail(w) \/ Record(w)
  BY <1>3 DEF CheckInserted, Finish, Fail, Record
<1>4. CASE Sync(w)
  <2>1. w \in Syncers BY DEF Syncers
  <2> QED BY <1>4, <2>1, SyncFrame
<1> QED BY <1>1, <1>2, <1>3, <1>4 DEF Work

\* The queue changes when a task is queued, taken or acknowledged.
LEMMA QueueMoves ==
  ASSUME TypeOK, [Next]_vars
  PROVE  \/ UNCHANGED queueVars
         \/ \E h \in Handlers : EnqueueTask(h)
         \/ \E w \in Workers : Take(w) \/ AckMsg(w)
<1>1. ASSUME NEW h \in Handlers, AcceptAny(h) \/ Serve(h) \/ RequestFails(h), ~EnqueueTask(h) PROVE UNCHANGED queueVars
  BY <1>1 DEF AcceptAny, AcceptRun, AcceptCancel, AcceptStop, AcceptRemove, Serve,
     RunUpdate, RunWipe, WipeStore, ReadPrev, DropPrev, DropStore, InsertTasks, Begin2Parse, RunDone,
     CancelTasks, CancelDoc, StopDoc, StopWipe, RemoveWipe, RemoveStore, RemoveDoc, RequestFails
<1>2. ASSUME NEW w \in Workers, Work(w) \/ Crash(w) \/ Restart(w), ~Take(w), ~AckMsg(w)
      PROVE  UNCHANGED queueVars
  <2>1. CASE Sync(w) BY <2>1, SyncFrame DEF Syncers
  <2>2. CASE ~Sync(w)
    BY <1>2, <2>2 DEF Work, GetTask, Begin, Build, BuildNothing, InsertChunks, CheckInserted,
       Finish, Fail, Record, Crash, Restart, workerRest, faultVars
  <2> QED BY <2>1, <2>2
<1>3. CASE SyncSelect \/ Sync(Server) BY <1>3, SyncFrame DEF Syncers
<1>4. CASE \E t \in Tasks : ExpireKey(t) BY <1>4 DEF ExpireKey
<1>5. CASE UNCHANGED vars BY <1>5 DEF vars
<1> QED BY <1>1, <1>2, <1>3, <1>4, <1>5 DEF Next

-----------------------------------------------------------------------------
(* The conjuncts of the invariant, one by one. *)

\* A message stays with the executor that claimed it.
LEMMA QueueStep ==
  ASSUME TypeOK, QueueInv, [Next]_vars PROVE QueueInv'
<1> USE DEF QueueInv, Queue!Claimed
<1>1. CASE UNCHANGED queueVars BY <1>1 DEF queueVars
<1>2. ASSUME NEW h \in Handlers, EnqueueTask(h) PROVE QueueInv'
  <2>1. PICK t \in Tasks : Queue!Enqueue(t) BY <1>2 DEF TypeOK, ProcTypeOK, EnqueueTask
  <2> QED BY <2>1 DEF Queue!Enqueue
<1>3. ASSUME NEW w \in Workers, Take(w) PROVE QueueInv'
  <2>1. CASE UNCHANGED queueVars BY <2>1 DEF queueVars
  <2>2. CASE \E t \in queued : Queue!Claim(w, t)
    <3>1. PICK t \in Tasks : Queue!Claim(w, t) BY <2>2 DEF TypeOK, DataTypeOK
    <3> QED BY <3>1 DEF Queue!Claim
  <2> QED BY <1>3, <2>1, <2>2 DEF Take
<1>4. ASSUME NEW w \in Workers, AckMsg(w) PROVE QueueInv'
  <2>1. <<w, job[w]>> \in claims /\ acked' = acked \cup {job[w]} /\ UNCHANGED <<queued, claims>>
    BY <1>4 DEF AckMsg, Queue!Ack
  <2>2. job[w] \in Tasks BY <2>1 DEF TypeOK, DataTypeOK
  <2> QED BY <2>1, <2>2
<1> QED BY <1>1, <1>2, <1>3, <1>4, QueueMoves

\* What an executor works on, it has claimed, and nobody else acknowledges it.
LEMMA JobStep ==
  ASSUME TypeOK, QueueInv, JobInv, [Next]_vars PROVE JobInv'
<1>1. SUFFICES ASSUME NEW v \in Workers, pc'[v] \in Busy PROVE job'[v] \in Unacked(v)'
  BY DEF JobInv, Busy
<1>2. CASE Take(v)
  <2>0. Unacked(v) \subseteq Tasks /\ queued \subseteq Tasks BY DEF Unacked, TypeOK, DataTypeOK
  <2>1. PICK t \in Tasks : /\ job' = [job EXCEPT ![v] = t]
                           /\ \/ UNCHANGED queueVars /\ t \in Unacked(v)
                              \/ t \in queued /\ Queue!Claim(v, t)
    BY <1>2, <2>0 DEF Take
  <2>2. job'[v] = t BY <2>1 DEF TypeOK, ProcTypeOK
  <2>3. CASE UNCHANGED queueVars /\ t \in Unacked(v) BY <2>2, <2>3 DEF Unacked, queueVars
  <2>4. CASE t \in queued /\ Queue!Claim(v, t)
    <3>1. t \notin acked BY <2>4 DEF QueueInv
    <3> QED BY <2>2, <2>4, <3>1 DEF Queue!Claim, Unacked
  <2> QED BY <2>1, <2>3, <2>4
<1>3. CASE ~Take(v)
  <2>1. pc[v] \in Busy /\ job'[v] = job[v]
    <3>1. CASE \E h \in Handlers : AcceptAny(h) \/ Serve(h) \/ RequestFails(h)
      BY <3>1, <1>1, RequestFrame, ParsingAssumption DEF Syncers
    <3>2. CASE SyncSelect \/ Sync(Server) BY <3>2, <1>1, SyncFrame, ParsingAssumption DEF Syncers
    <3>3. CASE \E t \in Tasks : ExpireKey(t) BY <3>3, <1>1 DEF ExpireKey
    <3>4. CASE UNCHANGED vars BY <3>4, <1>1 DEF vars
    <3>5. ASSUME NEW w \in Workers, Work(w) \/ Crash(w) \/ Restart(w)
          PROVE  pc[v] \in Busy /\ job'[v] = job[v]
      <4>1. CASE w # v BY <3>5, <4>1, <1>1, WorkFrame DEF Syncers
      <4>2. CASE w = v
        <5>1. pc' \in [Syncers \cup Handlers -> Places] /\ pc \in [Syncers \cup Handlers -> Places]
              /\ v \in Syncers /\ job \in [Workers -> Tasks \cup {NoTask}]
          <6>1. \A place : Goto(v, place) => pc' = [pc EXCEPT ![v] = place] BY DEF Goto
          <6>2. pc \in [Syncers \cup Handlers -> Places] /\ v \in Syncers
                /\ job \in [Workers -> Tasks \cup {NoTask}] BY DEF TypeOK, ProcTypeOK, Syncers
          <6> QED BY <6>2, <3>5, <4>2, WorkType, CrashType DEF TypeOK, ProcTypeOK
        <5>2. CASE AckMsg(v) \/ Crash(v) \/ Restart(v)
          BY <5>1, <5>2, <1>1 DEF AckMsg, Crash, Restart, Goto, Busy
        <5>3. CASE Sync(v) BY <5>1, <5>3, <1>1, SyncFrame DEF Sync, SyncTasks, SyncDoc, SyncWrite, Busy
        <5>4. CASE Work(v) /\ ~AckMsg(v) /\ ~Sync(v)
          BY <5>1, <5>4, <1>3, <1>1 DEF Work, GetTask, Begin, Build, BuildNothing, InsertChunks,
             CheckInserted, Finish, Fail, Record, workerRest, faultVars, Busy, Goto
        <5> QED BY <3>5, <4>2, <5>2, <5>3, <5>4
      <4> QED BY <4>1, <4>2
    <3> QED BY <3>1, <3>2, <3>3, <3>4, <3>5 DEF Next
  <2>2. job[v] \in Unacked(v) BY <2>1 DEF JobInv
  <2>3. job[v] \in Unacked(v)'
    <3>1. CASE UNCHANGED queueVars BY <2>2, <3>1 DEF queueVars, Unacked
    <3>2. ASSUME NEW h \in Handlers, EnqueueTask(h) PROVE UNCHANGED <<claims, acked>>
      BY <3>2 DEF EnqueueTask, Queue!Enqueue
    <3>3. ASSUME NEW w \in Workers, Take(w) PROVE claims \subseteq claims' /\ acked' = acked
      BY <3>3 DEF Take, Queue!Claim, queueVars
    <3>4. ASSUME NEW w \in Workers, AckMsg(w) PROVE job[v] \in Unacked(v)'
      <4>1. <<w, job[w]>> \in claims /\ acked' = acked \cup {job[w]} /\ UNCHANGED claims
        BY <3>4 DEF AckMsg, Queue!Ack
      <4>2. w # v
        <5>1. CASE w = v
          BY <3>4, <5>1, <1>1 DEF AckMsg, Goto, Busy, TypeOK, ProcTypeOK, Syncers
        <5> QED BY <5>1
      <4>3. job[w] # job[v]
        <5>1. <<v, job[v]>> \in claims /\ job[v] \in Tasks BY <2>2 DEF Unacked
        <5> QED BY <5>1, <4>1, <4>2 DEF QueueInv
      <4> QED BY <2>2, <4>1, <4>3 DEF Unacked
    <3> QED BY <2>2, <3>1, <3>2, <3>3, <3>4, QueueMoves DEF Unacked
  <2> QED BY <2>1, <2>3
<1> QED BY <1>2, <1>3

\* A new run has a number of its own until its tasks have rows.
LEMMA RunKept ==
  ASSUME RunInv, runs' = runs, \A t \in Tasks : Used(t)' => Used(t),
         \A h \in Handlers : pc'[h] \in Before => pc[h] \in Before /\ plan'[h].gen = plan[h].gen
  PROVE  RunInv'
<1>1. \A t \in Tasks : Used(t)' => t[1] <= runs' BY DEF RunInv
<1>2. ASSUME NEW h \in Handlers, pc'[h] \in Before
      PROVE  /\ plan'[h].gen \in 1..runs'
             /\ \A t \in Tasks : Used(t)' => t[1] # plan'[h].gen
             /\ \A g \in Handlers : pc'[g] \in Before /\ plan'[g].gen = plan'[h].gen => g = h
  BY <1>2 DEF RunInv
<1> QED BY <1>1, <1>2 DEF RunInv, Before

LEMMA RunStep ==
  ASSUME TypeOK, JobInv, RunInv, TodoInv, [Next]_vars PROVE RunInv'
<1>1. ASSUME NEW h \in Handlers, AcceptRun(h) PROVE RunInv'
  <2>0. plan'[h].gen = runs + 1 BY <1>1 DEF AcceptRun, TypeOK, ProcTypeOK
  <2>1. runs' = runs + 1 /\ runs \in Nat /\ plan'[h].gen = runs + 1 /\ UNCHANGED <<rows, queueVars, attempts, todo>>
    BY <1>1, <2>0, ParsingAssumption DEF AcceptRun, TypeOK, CountTypeOK, countVars, faultVars
  <2>2. \A g \in Handlers : g # h => pc'[g] = pc[g] /\ plan'[g] = plan[g]
    BY <1>1, RequestFrame DEF AcceptAny
  <2>3. \A t \in Tasks : Used(t)' => Used(t) /\ t[1] <= runs
    BY <2>1 DEF Used, queueVars, Queue!Claimed, RunInv
  <2>4. \A t \in Tasks : t[1] \in Nat BY DEF Tasks
  <2>5. \A t \in Tasks : Used(t)' => t[1] <= runs' BY <2>1, <2>3, <2>4
  <2>6. ASSUME NEW g \in Handlers, pc'[g] \in Before, g # h
        PROVE  /\ plan'[g].gen \in 1..runs
               /\ \A t \in Tasks : Used(t)' => t[1] # plan'[g].gen
    BY <2>2, <2>3, <2>6 DEF RunInv
  <2>7. ASSUME NEW g \in Handlers, pc'[g] \in Before
        PROVE  /\ plan'[g].gen \in 1..runs'
               /\ \A t \in Tasks : Used(t)' => t[1] # plan'[g].gen
               /\ \A f \in Handlers : pc'[f] \in Before /\ plan'[f].gen = plan'[g].gen => f = g
    <3>1. CASE g = h BY <2>1, <2>3, <2>4, <2>6, <3>1
    <3>2. CASE g # h BY <2>1, <2>2, <2>3, <2>4, <2>6, <2>7, <3>2 DEF RunInv
    <3> QED BY <3>1, <3>2
  <2> QED BY <2>5, <2>7 DEF RunInv, Before
<1>2. ASSUME NEW h \in Handlers, InsertTasks(h) PROVE RunInv'
  <2>1. /\ plan[h].gen \in 1..runs /\ pc[h] \in Before /\ pc'[h] \notin Before
        /\ UNCHANGED <<queueVars, attempts, plan, runs>>
    BY <1>2 DEF InsertTasks, RunInv, Before, Goto, TypeOK, ProcTypeOK, countVars, faultVars
  <2>2. \A t \in Tasks : Used(t)' => Used(t) \/ t[1] = plan[h].gen
    <3>1. \A t \in rows' : t \in rows \/ t[1] = plan[h].gen BY <1>2 DEF InsertTasks
    <3>2. \A t \in todo'[h] : t[1] = plan[h].gen BY <1>2 DEF InsertTasks, TypeOK, ProcTypeOK
    <3>3. \A g \in Handlers : g # h => todo'[g] = todo[g] BY <1>2, RequestFrame DEF Serve
    <3> QED BY <2>1, <3>1, <3>2, <3>3 DEF Used, queueVars, Queue!Claimed
  <2>3. \A g \in Handlers : g # h => pc'[g] = pc[g] BY <1>2, RequestFrame DEF Serve
  <2>4. \A t \in Tasks : Used(t)' => t[1] <= runs' BY <2>1, <2>2 DEF RunInv
  <2>5. ASSUME NEW g \in Handlers, pc'[g] \in Before
        PROVE  /\ plan'[g].gen \in 1..runs'
               /\ \A t \in Tasks : Used(t)' => t[1] # plan'[g].gen
               /\ \A f \in Handlers : pc'[f] \in Before /\ plan'[f].gen = plan'[g].gen => f = g
    BY <2>1, <2>2, <2>3, <2>5 DEF RunInv
  <2> QED BY <2>4, <2>5 DEF RunInv, Before
<1>3. ASSUME NEW h \in Handlers, AcceptAny(h) \/ Serve(h) \/ RequestFails(h), ~AcceptRun(h), ~InsertTasks(h) PROVE RunInv'
  <2>1. runs' = runs /\ rows' \subseteq rows
    BY <1>3 DEF AcceptAny, AcceptCancel, AcceptStop, AcceptRemove, Serve,
       RunUpdate, RunWipe, WipeStore, ReadPrev, DropPrev, DropStore, Begin2Parse, EnqueueTask, RunDone, handlerVars,
       CancelTasks, CancelDoc, StopDoc, StopWipe, RemoveWipe, RemoveStore, RemoveDoc, RequestFails
  <2>2. queued' \subseteq queued \cup todo[h] /\ todo'[h] \subseteq todo[h]
    BY <1>3 DEF AcceptAny, AcceptCancel, AcceptStop, AcceptRemove, Serve, Queue!Enqueue,
       RunUpdate, RunWipe, WipeStore, ReadPrev, DropPrev, DropStore, Begin2Parse, EnqueueTask, RunDone, handlerVars, queueVars,
       CancelTasks, CancelDoc, StopDoc, StopWipe, RemoveWipe, RemoveStore, RemoveDoc, RequestFails, TypeOK, ProcTypeOK
  <2>3. pc'[h] \in Before => pc[h] \in Before /\ plan'[h].gen = plan[h].gen
    BY <1>3 DEF AcceptAny, AcceptCancel, AcceptStop, AcceptRemove, Serve,
       RunUpdate, RunWipe, WipeStore, ReadPrev, DropPrev, DropStore, Begin2Parse, EnqueueTask, RunDone, handlerVars,
       CancelTasks, CancelDoc, StopDoc, StopWipe, RemoveWipe, RemoveStore, RemoveDoc, RequestFails, TypeOK, ProcTypeOK, Goto, Before, NoPlan
  <2>4. \A t \in Tasks : Used(t)' => Used(t)
    BY <2>1, <2>2, <1>3, RequestFrame DEF Used, Queue!Claimed
  <2> QED BY <2>1, <2>3, <2>4, <1>3, RequestFrame, RunKept
<1>4. ASSUME NEW w \in Workers, Work(w) \/ Crash(w) \/ Restart(w) PROVE RunInv'
  <2>1. UNCHANGED <<rows, handlerVars>> /\ \A h \in Handlers : pc'[h] = pc[h]
    BY <1>4, WorkFrame, ParsingAssumption
  <2>2. \A t \in Tasks : t \in queued' \/ t \in Queue!Claimed' => t \in queued \/ t \in Queue!Claimed
    <3>1. CASE Take(w)
      <4>1. CASE UNCHANGED queueVars BY <4>1 DEF queueVars, Queue!Claimed
      <4>2. CASE \E t \in queued : Queue!Claim(w, t) BY <4>2 DEF Queue!Claim, Queue!Claimed
      <4> QED BY <3>1, <4>1, <4>2 DEF Take
    <3>2. CASE AckMsg(w) BY <3>2 DEF AckMsg, Queue!Ack, Queue!Claimed
    <3>3. CASE ~Take(w) /\ ~AckMsg(w)
      <4>1. UNCHANGED queueVars
        <5>1. CASE Sync(w) BY <5>1, SyncFrame DEF Syncers
        <5>2. CASE ~Sync(w)
          BY <1>4, <3>3, <5>2 DEF Work, GetTask, Begin, Build, BuildNothing, InsertChunks, CheckInserted,
             Finish, Fail, Record, Crash, Restart, workerRest, faultVars
        <5> QED BY <5>1, <5>2
      <4> QED BY <4>1 DEF queueVars, Queue!Claimed
    <3> QED BY <3>1, <3>2, <3>3
  <2>3. \A t \in Tasks : attempts'[t] # 0 => attempts[t] # 0 \/ t \in Queue!Claimed
    <3>1. CASE GetTask(w)
      <4>1. job[w] \in Tasks /\ <<w, job[w]>> \in claims BY <3>1, JobIsTask DEF GetTask, Busy, JobInv, Unacked
      <4>2. \A t \in Tasks : t # job[w] => attempts'[t] = attempts[t]
        BY <3>1 DEF GetTask, TypeOK, CountTypeOK
      <4> QED BY <4>1, <4>2 DEF Queue!Claimed
    <3>2. CASE ~GetTask(w)
      <4>1. attempts' = attempts
        <5>1. CASE Sync(w) BY <5>1, SyncFrame DEF Syncers
        <5>2. CASE ~Sync(w)
          BY <1>4, <3>2, <5>2 DEF Work, Take, AckMsg, Begin, Build, BuildNothing, InsertChunks, CheckInserted,
             Finish, Fail, Record, Crash, Restart, workerRest, faultVars, countVars
        <5> QED BY <5>1, <5>2
      <4> QED BY <4>1
    <3> QED BY <3>1, <3>2
  <2>4. \A t \in Tasks : Used(t)' => Used(t) BY <2>1, <2>2, <2>3 DEF Used, handlerVars
  <2> QED BY <2>1, <2>4, RunKept DEF handlerVars
<1>5. CASE SyncSelect \/ Sync(Server)
  <2>1. UNCHANGED <<rows, queueVars, handlerVars, attempts>> /\ \A h \in Handlers : pc'[h] = pc[h]
    BY <1>5, SyncFrame, ParsingAssumption DEF Syncers
  <2>2. \A t \in Tasks : Used(t)' => Used(t) BY <2>1 DEF Used, queueVars, handlerVars, Queue!Claimed
  <2> QED BY <2>1, <2>2, RunKept DEF handlerVars
<1>6. CASE UNCHANGED vars \/ \E t \in Tasks : ExpireKey(t)
  <2>1. UNCHANGED <<rows, queueVars, handlerVars, attempts, pc>> BY <1>6 DEF ExpireKey, vars, countVars, faultVars
  <2>2. \A t \in Tasks : Used(t)' => Used(t) BY <2>1 DEF Used, queueVars, handlerVars, Queue!Claimed
  <2> QED BY <2>1, <2>2, RunKept DEF handlerVars
<1> QED BY <1>1, <1>2, <1>3, <1>4, <1>5, <1>6 DEF Next

\* Tasks to be queued belong to a handler that has inserted them.
LEMMA TodoStep ==
  ASSUME TypeOK, TodoInv, [Next]_vars PROVE TodoInv'
<1> SUFFICES ASSUME NEW g \in Handlers, pc'[g] \notin {"begin2parse", "enqueue"} PROVE todo'[g] = {}
  BY DEF TodoInv
<1>1. ASSUME NEW h \in Handlers, AcceptAny(h) \/ Serve(h) \/ RequestFails(h) PROVE todo'[g] = {}
  <2>1. CASE g # h BY <1>1, <2>1, RequestFrame DEF TodoInv
  <2>2. CASE g = h
    <3>1. CASE InsertTasks(h) \/ Begin2Parse(h) \/ EnqueueTask(h)
      BY <2>2, <3>1 DEF InsertTasks, Begin2Parse, EnqueueTask, Goto, TypeOK, ProcTypeOK
    <3>2. CASE RunDone(h) BY <2>2, <3>2 DEF RunDone
    <3>3. CASE AcceptAny(h)
      BY <2>2, <3>3 DEF AcceptAny, AcceptRun, AcceptCancel, AcceptStop, AcceptRemove, Accept, TodoInv
    <3>4. CASE RunUpdate(h) \/ RunWipe(h) \/ WipeStore(h) \/ ReadPrev(h) \/ DropPrev(h) \/ DropStore(h) \/ CancelTasks(h) \/ CancelDoc(h)
               \/ StopDoc(h) \/ StopWipe(h) \/ RemoveWipe(h) \/ RemoveStore(h) \/ RemoveDoc(h)
      BY <2>2, <3>4 DEF RunUpdate, RunWipe, WipeStore, ReadPrev, DropPrev, DropStore, CancelTasks, CancelDoc, StopDoc, StopWipe,
         RemoveWipe, RemoveStore, RemoveDoc, handlerVars, TodoInv
    <3>5. CASE RequestFails(h) BY <2>2, <3>5 DEF RequestFails, TypeOK, ProcTypeOK
    <3> QED BY <1>1, <3>1, <3>2, <3>3, <3>4, <3>5 DEF Serve
  <2> QED BY <2>1, <2>2
<1>2. ASSUME NEW w \in Workers, Work(w) \/ Crash(w) \/ Restart(w) PROVE todo'[g] = {}
  BY <1>2, WorkFrame, ParsingAssumption DEF handlerVars, TodoInv
<1>3. CASE SyncSelect \/ Sync(Server)
  BY <1>3, SyncFrame, ParsingAssumption DEF Syncers, handlerVars, TodoInv
<1>4. CASE UNCHANGED vars \/ \E t \in Tasks : ExpireKey(t) BY <1>4 DEF ExpireKey, vars, handlerVars, TodoInv
<1> QED BY <1>1, <1>2, <1>3, <1>4 DEF Next

\* What an executor does to the rows of tasks, but for the count of an attempt.
LEMMA WorkTask ==
  ASSUME TypeOK, JobInv, NEW w \in Workers, Work(w) \/ Crash(w) \/ Restart(w), ~GetTask(w), NEW t \in Tasks
  PROVE  /\ attempts' = attempts /\ task'[t].retry = task[t].retry
         /\ task[t].progress \in {"one", "bad"} => task'[t].progress \in {"one", "bad"}
<1> USE DEF TypeOK, DataTypeOK
<1>1. ASSUME NEW u \in Tasks, NEW p \in Progresses, Report(u, p)
      PROVE  /\ task'[t].retry = task[t].retry
             /\ task[t].progress \in {"one", "bad"} => task'[t].progress \in {"one", "bad"}
  BY <1>1 DEF Report, Reported, ReportLost, Advances
<1>2. CASE Begin(w) \/ Build(w) \/ BuildNothing(w) \/ Finish(w) \/ Fail(w)
  <2>1. job[w] \in Tasks BY <1>2, JobIsTask DEF Begin, Build, BuildNothing, Finish, Fail, Busy
  <2>2. task' = task \/ \E p \in Progresses : Report(job[w], p)
    BY <1>2 DEF Begin, Build, BuildNothing, Finish, Fail, Progresses
  <2>3. attempts' = attempts BY <1>2 DEF Begin, Build, BuildNothing, Finish, Fail, workerRest, faultVars
  <2> QED BY <1>1, <2>1, <2>2, <2>3
<1>3. CASE CheckInserted(w)
  <2>1. job[w] \in Tasks BY <1>3, JobIsTask DEF CheckInserted, Busy
  <2>2. task' = task \/ (\E p \in Progresses : Report(job[w], p)) \/ task' = [task EXCEPT ![job[w]].indexed = TRUE]
    BY <1>3 DEF CheckInserted, Progresses
  <2>3. attempts' = attempts BY <1>3 DEF CheckInserted, workerRest, faultVars
  <2> QED BY <1>1, <2>1, <2>2, <2>3
<1>4. CASE Take(w) \/ AckMsg(w) \/ InsertChunks(w) \/ Record(w) \/ Crash(w) \/ Restart(w)
  BY <1>4 DEF Take, AckMsg, InsertChunks, Record, Crash, Restart, workerRest, faultVars, countVars
<1>5. CASE Sync(w) BY <1>5, SyncFrame DEF Syncers
<1> QED BY <1>2, <1>3, <1>4, <1>5 DEF Work

\* An attempt is counted in the row before it is made; a row is new only for
\* a task nobody has attempted.
LEMMA CountStep ==
  ASSUME TypeOK, JobInv, RunInv, CountInv, [Next]_vars PROVE CountInv'
<1> SUFFICES ASSUME NEW t \in Tasks PROVE attempts'[t] <= task'[t].retry /\ attempts'[t] <= AttemptLimit
  BY DEF CountInv
<1>0. /\ attempts[t] <= task[t].retry /\ attempts[t] <= AttemptLimit
      /\ attempts[t] \in Nat /\ task[t].retry \in Nat /\ AttemptLimit \in Nat
  BY ParsingAssumption DEF CountInv, TypeOK, DataTypeOK, CountTypeOK
<1>1. ASSUME NEW h \in Handlers, InsertTasks(h) PROVE attempts'[t] <= task'[t].retry /\ attempts'[t] <= AttemptLimit
  <2>1. attempts' = attempts BY <1>1 DEF InsertTasks, countVars, faultVars
  <2>2. CASE t \in {plan[h].gen} \X Pages
    <3>1. attempts[t] = 0 BY <1>1, <2>2 DEF InsertTasks, RunInv, Before, Used
    <3>2. task'[t].retry = 0 BY <1>1, <2>2 DEF InsertTasks
    <3> QED BY <1>0, <2>1, <3>1, <3>2
  <2>3. CASE t \notin {plan[h].gen} \X Pages
    <3>1. task'[t] = task[t] BY <1>1, <2>3 DEF InsertTasks
    <3> QED BY <1>0, <2>1, <3>1
  <2> QED BY <2>2, <2>3
<1>2. ASSUME NEW h \in Handlers, AcceptAny(h) \/ Serve(h) \/ RequestFails(h), ~InsertTasks(h) PROVE UNCHANGED <<task, attempts>>
  <2>1. task' = task
    BY <1>2 DEF AcceptAny, AcceptRun, AcceptCancel, AcceptStop, AcceptRemove, Serve,
       RunUpdate, RunWipe, WipeStore, ReadPrev, DropPrev, DropStore, Begin2Parse, EnqueueTask, RunDone,
       CancelTasks, CancelDoc, StopDoc, StopWipe, RemoveWipe, RemoveStore, RemoveDoc, RequestFails
  <2> QED BY <2>1, <1>2, RequestFrame
<1>3. ASSUME NEW w \in Workers, GetTask(w) PROVE attempts'[t] <= task'[t].retry /\ attempts'[t] <= AttemptLimit
  <2>1. job[w] \in Tasks BY <1>3, JobIsTask DEF GetTask, Busy
  <2>2. CASE t # job[w]
    <3>1. attempts'[t] = attempts[t] /\ task'[t] = task[t]
      BY <1>3, <2>1, <2>2 DEF GetTask, TypeOK, DataTypeOK, CountTypeOK
    <3> QED BY <1>0, <3>1
  <2>3. CASE t = job[w]
    <3>1. CASE t \in rows /\ ~deleted
      <4>1. task'[t].retry = task[t].retry + 1 BY <1>3, <2>3, <3>1 DEF GetTask, TypeOK, DataTypeOK
      <4>2. CASE task[t].retry < AttemptLimit /\ ~HasKey(t)
        <5>1. attempts'[t] = attempts[t] \/ attempts'[t] = attempts[t] + 1
          BY <1>3, <2>3 DEF GetTask, TypeOK, CountTypeOK
        <5> QED BY <1>0, <4>1, <4>2, <5>1
      <4>3. CASE ~(task[t].retry < AttemptLimit /\ ~HasKey(t))
        <5>1. task[t].retry >= AttemptLimit \/ HasKey(t) BY <1>0, <4>3
        <5>2. attempts' = attempts BY <1>3, <2>3, <5>1 DEF GetTask
        <5> QED BY <1>0, <4>1, <5>2
      <4> QED BY <4>2, <4>3
    <3>2. CASE ~(t \in rows /\ ~deleted)
      <4>1. UNCHANGED <<task, attempts>> BY <1>3, <2>3, <3>2 DEF GetTask
      <4> QED BY <1>0, <4>1
    <3> QED BY <3>1, <3>2
  <2> QED BY <2>2, <2>3
<1>4. ASSUME NEW w \in Workers, Work(w) \/ Crash(w) \/ Restart(w), ~GetTask(w)
      PROVE  attempts'[t] <= task'[t].retry /\ attempts'[t] <= AttemptLimit
  BY <1>0, <1>4, WorkTask
<1>5. CASE SyncSelect \/ Sync(Server) BY <1>0, <1>5, SyncFrame DEF Syncers
<1>6. CASE UNCHANGED vars \/ \E u \in Tasks : ExpireKey(u) BY <1>0, <1>6 DEF ExpireKey, vars, countVars, faultVars
<1> QED BY <1>0, <1>1, <1>2, <1>3, <1>4, <1>5, <1>6 DEF Next, Work

-----------------------------------------------------------------------------
(* No task is forgotten.                                                    *)

\* What the step of a request does to the tasks there are.
LEMMA RequestTask ==
  ASSUME TypeOK, TodoInv, NEW h \in Handlers, AcceptAny(h) \/ Serve(h) \/ RequestFails(h), ~InsertTasks(h)
  PROVE  /\ rows' \subseteq rows /\ canceled \subseteq canceled' /\ task' = task /\ (deleted => deleted')
         /\ queued \cup todo[h] \subseteq queued' \cup todo'[h] \cup stranded'
<1> USE DEF TypeOK, ProcTypeOK, docVars, queueVars, handlerVars, WriteDoc
<1>1. CASE AcceptAny(h) BY <1>1 DEF AcceptAny, AcceptRun, AcceptCancel, AcceptStop, AcceptRemove
<1>2. CASE RunUpdate(h) \/ RunWipe(h) \/ WipeStore(h) \/ ReadPrev(h) \/ DropPrev(h) \/ DropStore(h)
  BY <1>2 DEF RunUpdate, RunWipe, WipeStore, ReadPrev, DropPrev, DropStore
<1>3. CASE Begin2Parse(h) \/ EnqueueTask(h) \/ RunDone(h)
  BY <1>3 DEF Begin2Parse, EnqueueTask, RunDone, Queue!Enqueue
<1>4. CASE CancelTasks(h) \/ CancelDoc(h) \/ StopDoc(h) \/ StopWipe(h) \/ RemoveWipe(h) \/ RemoveStore(h) \/ RemoveDoc(h)
  BY <1>4 DEF CancelTasks, CancelDoc, StopDoc, StopWipe, RemoveWipe, RemoveStore, RemoveDoc
<1>5. CASE RequestFails(h)
  <2>1. todo[h] \subseteq Unqueued(h) BY DEF Unqueued, TodoInv
  <2> QED BY <1>5, <2>1 DEF RequestFails
<1> QED BY <1>1, <1>2, <1>3, <1>4, <1>5 DEF Serve

\* A cancel key that runs out changes nothing else.
LEMMA ExpireFrame ==
  ASSUME NEW t \in Tasks, ExpireKey(t)
  PROVE  UNCHANGED <<deleted, rows, task, canceled, queueVars, pc, job, todo, stranded>>
  BY DEF ExpireKey, docVars, handlerVars, faultVars

\* The last report of a task settles it, or is lost.
LEMMA ReportSettles ==
  ASSUME DataTypeOK, NEW t \in Tasks, NEW p \in {"one", "bad"}, Report(t, p), t \in rows
  PROVE  task'[t].progress \in {"one", "bad"} \/ t \in stranded'
<1>1. task[t].progress \in {"zero", "part", "one", "bad"} BY DEF DataTypeOK, Progresses
<1> DEFINE q == IF HasKey(t) THEN "bad" ELSE p
<1>2. q \in {"one", "bad"} OBVIOUS
<1>3. CASE ReportLost(t, p) BY <1>3 DEF ReportLost
<1>4. CASE Reported(t, p)
  <2>1. CASE task[t].progress = "bad" BY <1>4, <2>1 DEF Reported
  <2>2. CASE task[t].progress # "bad" /\ Advances(task[t].progress, q)
    <3>1. task' = [task EXCEPT ![t].progress = q] BY <1>4, <2>2 DEF Reported
    <3>2. task'[t].progress = q BY <3>1 DEF DataTypeOK
    <3> QED BY <1>2, <3>2
  <2>3. CASE task[t].progress # "bad" /\ ~Advances(task[t].progress, q)
    <3>1. task' = task BY <1>4, <2>3 DEF Reported
    <3>2. task[t].progress = "one" BY <1>1, <1>2, <2>3 DEF Advances
    <3> QED BY <3>1, <3>2
  <2> QED BY <2>1, <2>2, <2>3
<1> QED BY <1>3, <1>4 DEF Report

\* Two executors do not have the same task in hand.
LEMMA JobsDiffer ==
  ASSUME QueueInv, JobInv, NEW v \in Workers, NEW w \in Workers, pc[v] \in Busy, pc[w] \in Busy, v # w
  PROVE  job[v] # job[w]
  BY DEF QueueInv, JobInv, Unacked

\* An executor acknowledges a task when nothing is left to do for it.
LEMMA SettledStep ==
  ASSUME IInv, SettledInv, [Next]_vars PROVE SettledInv'
<1> SUFFICES ASSUME NEW v \in Workers, pc'[v] \in Leaving PROVE Settled(job[v])'
  BY DEF SettledInv, Leaving
<1> USE DEF IInv
<1>a. Leaving \subseteq Busy BY DEF Leaving, Busy
<1>b. v \in Syncers /\ v # Server /\ v \notin Handlers BY ParsingAssumption DEF Syncers
<1>1. ASSUME NEW h \in Handlers, AcceptAny(h) \/ Serve(h) \/ RequestFails(h) PROVE Settled(job[v])'
  <2>1. job'[v] = job[v] /\ pc[v] \in Leaving BY <1>1, <1>b, RequestFrame
  <2>2. job[v] \in Tasks /\ Used(job[v]) /\ Settled(job[v])
    BY <2>1, <1>a DEF JobInv, Unacked, Used, Queue!Claimed, SettledInv
  <2>3. CASE InsertTasks(h)
    <3>1. job[v] \notin {plan[h].gen} \X Pages BY <2>2, <2>3 DEF InsertTasks, RunInv, Before
    <3>2. task'[job[v]] = task[job[v]] BY <2>2, <2>3, <3>1 DEF InsertTasks
    <3>3. job[v] \in rows' => job[v] \in rows BY <2>3, <3>1 DEF InsertTasks
    <3>4. UNCHANGED <<deleted, canceled, stranded>> BY <2>3 DEF InsertTasks, docVars, countVars, faultVars
    <3> QED BY <2>1, <2>2, <3>2, <3>3, <3>4 DEF Settled
  <2>4. CASE ~InsertTasks(h) BY <1>1, <2>1, <2>2, <2>4, RequestTask, RequestFrame DEF Settled
  <2> QED BY <2>3, <2>4
<1>2. ASSUME NEW w \in Workers, w # v, Work(w) \/ Crash(w) \/ Restart(w) PROVE Settled(job[v])'
  <2>1. job'[v] = job[v] /\ pc[v] \in Leaving /\ UNCHANGED <<deleted, rows, canceled>> /\ stranded \subseteq stranded'
    BY <1>2, <1>b, WorkFrame
  <2>2. job[v] \in Tasks /\ Settled(job[v]) BY <2>1, <1>a, JobIsTask DEF SettledInv
  <2>3. task[job[v]].progress \in {"one", "bad"} => task'[job[v]].progress \in {"one", "bad"}
    <3>1. CASE GetTask(w)
      <4>1. pc[w] \in Busy BY <3>1 DEF GetTask, Busy
      <4>2. job[w] # job[v] BY <1>2, <1>a, <2>1, <4>1, JobsDiffer
      <4>3. task'[job[v]] = task[job[v]] BY <2>2, <3>1, <4>2 DEF GetTask, TypeOK, DataTypeOK
      <4> QED BY <4>3
    <3>2. CASE ~GetTask(w) BY <1>2, <2>2, <3>2, WorkTask
    <3> QED BY <3>1, <3>2
  <2> QED BY <2>1, <2>2, <2>3 DEF Settled
<1>3. ASSUME Work(v) \/ Crash(v) \/ Restart(v) PROVE Settled(job[v])'
  <2> USE DEF TypeOK, ProcTypeOK, Goto
  <2>1. UNCHANGED <<deleted, rows, canceled>> /\ stranded \subseteq stranded' BY <1>3, WorkFrame
  <2>2. CASE Take(v) \/ AckMsg(v) \/ Crash(v) \/ Restart(v)
    BY <1>b, <2>2 DEF Take, AckMsg, Crash, Restart, Leaving
  <2>3. CASE GetTask(v)
    <3>1. job[v] \in Tasks /\ job' = job BY <2>3, JobIsTask DEF GetTask, Busy
    <3>2. ~(job[v] \in rows /\ ~deleted /\ ~(task[job[v]].retry >= AttemptLimit) /\ ~HasKey(job[v]))
      BY <1>b, <2>3 DEF GetTask, Leaving
    <3>3. CASE job[v] \in rows /\ ~deleted /\ task[job[v]].retry >= AttemptLimit
      <4>1. task'[job[v]].progress = "bad" BY <2>3, <3>1, <3>3 DEF GetTask, DataTypeOK
      <4> QED BY <3>1, <4>1 DEF Settled
    <3> QED BY <2>1, <3>1, <3>2, <3>3 DEF Settled, HasKey
  <2>4. CASE Begin(v) \/ BuildNothing(v) \/ CheckInserted(v) \/ Finish(v) \/ Fail(v)
    <3>1. job[v] \in Tasks /\ job' = job
      BY <2>4, JobIsTask DEF Begin, BuildNothing, CheckInserted, Finish, Fail, workerRest, faultVars, Busy
    <3>2. \E p \in {"one", "bad"} : Report(job[v], p)
      BY <1>b, <2>4 DEF Begin, BuildNothing, CheckInserted, Finish, Fail, Leaving
    <3> QED BY <2>1, <3>1, <3>2, ReportSettles DEF Settled
  <2>5. CASE Build(v) \/ InsertChunks(v) BY <1>b, <2>5 DEF Build, InsertChunks, Leaving
  <2>6. CASE Record(v) \/ Sync(v)
    <3>1. UNCHANGED <<task, job>> BY <1>b, <2>6, SyncFrame DEF Record, workerRest, faultVars
    <3>2. pc[v] \in Leaving BY <2>6 DEF Record, Sync, SyncTasks, SyncDoc, SyncWrite, Leaving
    <3> QED BY <2>1, <3>1, <3>2 DEF SettledInv, Settled
  <2> QED BY <1>3, <2>2, <2>3, <2>4, <2>5, <2>6 DEF Work
<1>4. CASE SyncSelect \/ Sync(Server)
  <2>1. UNCHANGED <<deleted, rows, task, canceled, job, stranded>> /\ pc[v] \in Leaving
    BY <1>4, <1>b, SyncFrame DEF Syncers
  <2> QED BY <2>1 DEF SettledInv, Settled
<1>5. CASE UNCHANGED vars \/ \E t \in Tasks : ExpireKey(t)
  <2>1. UNCHANGED <<deleted, rows, task, canceled, pc, job, stranded>>
    BY <1>5, ExpireFrame DEF vars, docVars, countVars, faultVars
  <2> QED BY <2>1 DEF SettledInv, Settled
<1> QED BY <1>1, <1>2, <1>3, <1>4, <1>5 DEF Next

\* A task without a message is settled, or its handler is about to queue it.
LEMMA MessageStep ==
  ASSUME IInv, SettledInv, UnfinishedHasMessage, [Next]_vars PROVE UnfinishedHasMessage'
<1> DEFINE Cared(t) == \/ task[t].progress \in {"one", "bad"}
                       \/ t \in canceled \cup stranded
                       \/ t \in queued \/ \E h \in Handlers : t \in todo[h]
                       \/ \E w \in Workers : t \in Unacked(w)
<1>0. UnfinishedHasMessage = (~deleted => \A t \in rows : Cared(t)) BY DEF UnfinishedHasMessage, HasMessage
<1> USE DEF IInv
<1> SUFFICES ASSUME ~deleted', NEW t \in rows' PROVE Cared(t)'
  BY DEF UnfinishedHasMessage, HasMessage
<1>t. t \in Tasks BY TypeStep DEF TypeOK, DataTypeOK
<1>1. ASSUME NEW h \in Handlers, InsertTasks(h) PROVE Cared(t)'
  <2>1. UNCHANGED <<deleted, canceled, stranded, queueVars>> BY <1>1 DEF InsertTasks, docVars, countVars, faultVars
  <2>2. CASE t \in {plan[h].gen} \X Pages
    <3>1. CASE PageOf(t) \in plan[h].reuse
      <4>1. task'[t].progress = "one" BY <1>1, <1>t, <2>2, <3>1 DEF InsertTasks
      <4> QED BY <4>1
    <3>2. CASE PageOf(t) \notin plan[h].reuse
      <4>1. t \in todo'[h] BY <1>1, <2>2, <3>2 DEF InsertTasks, TypeOK, ProcTypeOK
      <4> QED BY <4>1
    <3> QED BY <3>1, <3>2
  <2>3. CASE t \notin {plan[h].gen} \X Pages
    <3>1. t \in rows /\ task'[t] = task[t] BY <1>1, <1>t, <2>3 DEF InsertTasks
    <3>2. Cared(t) BY <2>1, <3>1, <1>0
    <3>3. \A g \in Handlers : t \in todo[g] => t \in todo'[g]
      <4>1. todo[h] = {} BY <1>1 DEF InsertTasks, TodoInv
      <4>2. \A g \in Handlers : g # h => todo'[g] = todo[g] BY <1>1, RequestFrame DEF Serve
      <4> QED BY <4>1, <4>2
    <3> QED BY <2>1, <3>1, <3>2, <3>3 DEF queueVars, Unacked
  <2> QED BY <2>2, <2>3
<1>2. ASSUME NEW h \in Handlers, AcceptAny(h) \/ Serve(h) \/ RequestFails(h), ~InsertTasks(h) PROVE Cared(t)'
  <2>1. ~deleted /\ t \in rows /\ task' = task /\ canceled \subseteq canceled'
        /\ queued \cup todo[h] \subseteq queued' \cup todo'[h] \cup stranded'
    BY <1>2, RequestTask
  <2>2. /\ UNCHANGED <<claims, acked>> /\ stranded \subseteq stranded'
        /\ \A g \in Handlers : g # h => todo'[g] = todo[g]
    BY <1>2, RequestFrame
  <2>3. Cared(t) BY <2>1, <1>0
  <2>4. \A w \in Workers : Unacked(w)' = Unacked(w) BY <2>2 DEF Unacked
  <2> QED BY <2>1, <2>2, <2>3, <2>4
<1>3. ASSUME NEW w \in Workers, Work(w) \/ Crash(w) \/ Restart(w) PROVE Cared(t)'
  <2>1. UNCHANGED <<deleted, rows, canceled, todo>> /\ stranded \subseteq stranded'
    BY <1>3, WorkFrame DEF handlerVars
  <2>2. Cared(t) BY <2>1, <1>0
  <2>3. CASE GetTask(w)
    <3>1. job[w] \in Tasks /\ job[w] \in Unacked(w) /\ UNCHANGED <<queued, claims, acked>>
      BY <2>3, JobIsTask DEF GetTask, Busy, JobInv, queueVars
    <3>2. t # job[w] => task'[t] = task[t] BY <1>t, <2>3, <3>1 DEF GetTask, TypeOK, DataTypeOK
    <3>3. \A v \in Workers : Unacked(v)' = Unacked(v) BY <3>1 DEF Unacked
    <3>4. CASE t = job[w] BY <3>1, <3>3, <3>4
    <3>5. CASE t # job[w] BY <2>1, <2>2, <3>1, <3>2, <3>3, <3>5
    <3> QED BY <3>4, <3>5
  <2>4. CASE AckMsg(w)
    <3>1. acked' = acked \cup {job[w]} /\ UNCHANGED <<queued, claims, task>> /\ pc[w] = "ack"
      BY <2>4 DEF AckMsg, Queue!Ack
    <3>2. CASE t = job[w] BY <2>1, <3>1, <3>2 DEF SettledInv, Settled, Leaving
    <3>3. CASE t # job[w]
      <4>1. \A v \in Workers : t \in Unacked(v) => t \in Unacked(v)' BY <3>1, <3>3 DEF Unacked
      <4> QED BY <2>1, <2>2, <3>1, <4>1
    <3> QED BY <3>2, <3>3
  <2>5. CASE ~GetTask(w) /\ ~AckMsg(w)
    <3>1. task[t].progress \in {"one", "bad"} => task'[t].progress \in {"one", "bad"}
      BY <1>3, <1>t, <2>5, WorkTask
    <3>2. (t \in queued \/ \E v \in Workers : t \in Unacked(v))
            => (t \in queued' \/ \E v \in Workers : t \in Unacked(v)')
      <4>1. CASE UNCHANGED queueVars BY <4>1 DEF queueVars, Unacked
      <4>2. CASE \E u \in queued : Queue!Claim(w, u)
        <5>1. PICK u \in queued : Queue!Claim(w, u) BY <4>2
        <5>2. u \in Tasks /\ u \notin acked BY <5>1 DEF QueueInv, TypeOK, DataTypeOK
        <5>3. u \in Unacked(w)' BY <5>1, <5>2 DEF Queue!Claim, Unacked
        <5>4. \A v \in Workers : Unacked(v) \subseteq Unacked(v)' BY <5>1 DEF Queue!Claim, Unacked
        <5> QED BY <5>1, <5>3, <5>4 DEF Queue!Claim
      <4>3. CASE Take(w) BY <4>1, <4>2, <4>3 DEF Take
      <4>4. CASE ~Take(w)
        <5>1. CASE Sync(w) BY <4>1, <5>1, SyncFrame DEF Syncers
        <5>2. CASE ~Sync(w)
          BY <1>3, <2>5, <4>1, <4>4, <5>2 DEF Work, Begin, Build, BuildNothing, InsertChunks, CheckInserted,
             Finish, Fail, Record, Crash, Restart, workerRest, faultVars
        <5> QED BY <5>1, <5>2
      <4> QED BY <4>3, <4>4
    <3> QED BY <2>1, <2>2, <3>1, <3>2
  <2> QED BY <2>3, <2>4, <2>5
<1>4. CASE SyncSelect \/ Sync(Server)
  <2>1. UNCHANGED <<deleted, rows, task, canceled, stranded, queueVars, todo>>
    BY <1>4, SyncFrame DEF Syncers, handlerVars
  <2> QED BY <2>1, <1>0 DEF queueVars, Unacked
<1>5. CASE UNCHANGED vars \/ \E u \in Tasks : ExpireKey(u)
  <2>1. UNCHANGED <<deleted, rows, task, canceled, stranded, queueVars, todo>>
    BY <1>5, ExpireFrame DEF vars, docVars, handlerVars, countVars, faultVars
  <2> QED BY <2>1, <1>0 DEF queueVars, Unacked
<1> QED BY <1>1, <1>2, <1>3, <1>4, <1>5 DEF Next

-----------------------------------------------------------------------------
(* The theorems. *)

LEMMA IInvInit == Init => IInv
<1> SUFFICES ASSUME Init PROVE IInv OBVIOUS
<1> USE ParsingAssumption DEF Init, Queue!Init
<1>1. DataTypeOK BY DEF DataTypeOK, RunStates, Progresses
<1>2. ProcTypeOK
  <2>1. pc \in [Syncers \cup Handlers -> Places] BY DEF Places
  <2>2. job \in [Workers -> Tasks \cup {NoTask}] OBVIOUS
  <2>3. memo \in [Syncers -> [run : RunStates \cup {"same"}, progress : Progresses \cup {"keep"}]] OBVIOUS
  <2>4. todo \in [Handlers -> SUBSET Tasks] OBVIOUS
  <2>5. NoPlan \in [gen : 0..MaxRuns, reuse : SUBSET Pages, drop : SUBSET Pages] BY DEF NoPlan
  <2> QED BY <2>1, <2>2, <2>3, <2>4, <2>5 DEF ProcTypeOK
<1>3. CountTypeOK BY DEF CountTypeOK
<1>4. \A p \in Syncers \cup Handlers : pc[p] = "idle" OBVIOUS
<1>5. QueueInv BY DEF QueueInv, Queue!Claimed
<1>6. JobInv BY <1>4 DEF JobInv, Busy, Syncers
<1>7. \A t \in Tasks : ~Used(t) BY DEF Used, Queue!Claimed
<1>8. RunInv BY <1>4, <1>7 DEF RunInv, Before
<1>9. TodoInv BY DEF TodoInv
<1>10. CountInv BY DEF CountInv
<1> QED BY <1>1, <1>2, <1>3, <1>5, <1>6, <1>8, <1>9, <1>10 DEF IInv, TypeOK

LEMMA IInvStep == IInv /\ [Next]_vars => IInv'
  BY TypeStep, QueueStep, JobStep, RunStep, TodoStep, CountStep DEF IInv

LEMMA Invariance == Spec => []IInv
  BY IInvInit, IInvStep, PTL DEF Spec

\* Every variable of the document's model keeps its type.
THEOREM TypeCorrect == Spec => []TypeOK
<1>1. IInv => TypeOK BY DEF IInv
<1> QED BY <1>1, Invariance, PTL

\* However many executors there are and however often they crash, a task is
\* given to do_handle_task AttemptLimit (three) times at most: get_task counts
\* the attempts in the row, and no other statement resets them.
THEOREM AttemptsLimited == Spec => []AttemptsBounded
<1>1. IInv => AttemptsBounded BY DEF IInv, CountInv, AttemptsBounded
<1> QED BY <1>1, Invariance, PTL

\* Whatever crashes, is canceled, overlaps or raises: a task row that is neither
\* finished nor canceled has a message, or a handler that will queue it, but for
\* the tasks whose last report the database refused and those of a request that
\* failed before it had queued them. Nothing else abandons a task: not a crash
\* or a second delivery, not a cancel key that runs out, not a fault of another
\* task or of any other statement.
THEOREM NoTaskForgotten == Spec => []UnfinishedHasMessage
<1>1. Init => MInv
  <2> SUFFICES ASSUME Init PROVE MInv OBVIOUS
  <2>1. IInv BY IInvInit
  <2>2. \A w \in Workers : pc[w] = "idle" BY DEF Init, Syncers
  <2>3. SettledInv BY <2>2 DEF SettledInv, Leaving
  <2>4. UnfinishedHasMessage BY DEF UnfinishedHasMessage, Init
  <2> QED BY <2>1, <2>3, <2>4 DEF MInv
<1>2. MInv /\ [Next]_vars => MInv'
  BY IInvStep, SettledStep, MessageStep DEF MInv
<1>3. MInv => UnfinishedHasMessage BY DEF MInv
<1> QED BY <1>1, <1>2, <1>3, PTL DEF Spec

-----------------------------------------------------------------------------
(* A document that is run once, and perhaps canceled. *)

OneRun == MaxRuns = 1 /\ Requests \subseteq {"run", "rerun", "parse", "cancel"}

Stored == store \cup blank

\* Nothing is taken out of the store or the table again.
NothingTaken ==
    /\ \A h \in Handlers : pc[h] \notin {"drop", "dropStore", "stopDoc", "stopWipe", "removeWipe", "removeStore", "removeDoc"}
    /\ \A h \in Handlers : plan[h].reuse = {}

\* The rows of the run are all there, or not yet; a finished one has its chunks,
\* which an executor stores before it reports.
RowsStored ==
    /\ rows # {} => rows = Tasks
    /\ \A t \in rows : task[t].progress = "one" => PageOf(t) \in Stored
    /\ \A w \in Workers : pc[w] \in {"check", "finish"} => PageOf(job[w]) \in store

\* A summary that says DONE has seen all rows finished.
DoneStored ==
    (run = "DONE" \/ \E s \in Syncers : memo[s].run = "DONE")
        => rows # {} /\ Pages \subseteq Stored

OneRunInv == NothingTaken /\ RowsStored /\ DoneStored

LEMMA TheTasks ==
  ASSUME OneRun
  PROVE  /\ Tasks = {1} \X Pages
         /\ \A t \in Tasks : t[1] = 1 /\ PageOf(t) \in Pages
         /\ \A q \in Pages : <<1, q>> \in Tasks /\ PageOf(<<1, q>>) = q
<1>1. 1..MaxRuns = {1}
  BY DEF OneRun
<1> QED
  BY <1>1 DEF Tasks, PageOf

\* Before the rows of the only run are inserted there is no row, and no
\* executor is at work.
LEMMA NothingBefore ==
  ASSUME IInv, OneRun, NEW h \in Handlers, pc[h] \in Before
  PROVE  plan[h].gen = 1 /\ rows = {} /\ \A w \in Workers : pc[w] \notin Busy
<1>1. runs \in 0..1 /\ rows \subseteq Tasks
  BY DEF IInv, TypeOK, CountTypeOK, DataTypeOK, OneRun
<1>2. plan[h].gen = 1
  BY <1>1 DEF IInv, RunInv
<1>3. \A t \in Tasks : ~Used(t)
  BY <1>2, TheTasks DEF IInv, RunInv
<1>4. rows = {}
  BY <1>1, <1>3 DEF Used
<1>5. ASSUME NEW w \in Workers, pc[w] \in Busy PROVE FALSE
  <2>1. job[w] \in Tasks /\ <<w, job[w]>> \in claims
    BY <1>5 DEF IInv, JobInv, Unacked
  <2>2. job[w] \in Queue!Claimed
    BY <2>1 DEF Queue!Claimed
  <2> QED
    BY <1>3, <2>1, <2>2 DEF Used
<1> QED
  BY <1>2, <1>4, <1>5

\* A step that keeps the rows, the chunks and the summaries that say DONE, and
\* brings no executor behind the insert, keeps what is stored.
LEMMA StoredKept ==
  ASSUME RowsStored, DoneStored, rows' = rows, task' = task, store' = store, blank' = blank,
         \A w \in Workers : pc'[w] \in {"check", "finish"} => pc[w] = pc'[w] /\ job'[w] = job[w],
         (run' = "DONE" \/ \E s \in Syncers : memo'[s].run = "DONE")
           => (run = "DONE" \/ \E s \in Syncers : memo[s].run = "DONE")
  PROVE  RowsStored' /\ DoneStored'
BY DEF RowsStored, DoneStored, Stored

\* A report that says "one" is of a task whose chunks are stored.
LEMMA ReportStored ==
  ASSUME TypeOK, RowsStored, DoneStored, NEW w \in Workers, NEW p \in {"part", "one", "bad"},
         job[w] \in Tasks, Report(job[w], p), rows' = rows, store' = store,
         blank \subseteq blank', p = "one" /\ ~HasKey(job[w]) => PageOf(job[w]) \in store \cup blank',
         UNCHANGED <<run, memo, job>>,
         \A v \in Workers : pc'[v] \in {"check", "finish"} => pc[v] = pc'[v]
  PROVE  RowsStored' /\ DoneStored'
<1>1. \A t \in rows : task'[t].progress = "one"
        => task[t].progress = "one" \/ (t = job[w] /\ p = "one" /\ ~HasKey(job[w]))
  BY DEF Report, Reported, ReportLost, TypeOK, DataTypeOK
<1>2. Stored \subseteq Stored'
  BY DEF Stored
<1>3. RowsStored'
  BY <1>1, <1>2 DEF RowsStored, Stored
<1>4. DoneStored'
  BY <1>2 DEF DoneStored
<1> QED
  BY <1>3, <1>4

LEMMA OneRunAccepts ==
  ASSUME IInv, OneRun, OneRunInv, NEW h \in Handlers, AcceptAny(h)
  PROVE  OneRunInv'
<1>0. NothingTaken /\ RowsStored /\ DoneStored /\ pc \in [Syncers \cup Handlers -> Places]
      /\ plan \in [Handlers -> [gen : 0..MaxRuns, reuse : SUBSET Pages, drop : SUBSET Pages]]
  BY DEF OneRunInv, IInv, TypeOK, ProcTypeOK
<1>1. AcceptRun(h) \/ AcceptCancel(h)
  BY DEF AcceptAny, AcceptStop, AcceptRemove, Accept, OneRun
<1>2. PICK place \in {"update", "updateWipe", "cancelTasks"} : Goto(h, place)
  BY <1>1 DEF AcceptRun, AcceptCancel
<1>3. UNCHANGED <<docVars, rows, task, store, job, memo, blank>>
  BY <1>1 DEF AcceptRun, AcceptCancel, countVars, faultVars
<1>4. \A g \in Handlers : plan'[g].reuse = plan[g].reuse
  BY <1>0, <1>1 DEF AcceptRun, AcceptCancel
<1>5. NothingTaken'
  BY <1>0, <1>2, <1>4 DEF NothingTaken, Goto
<1>6. RowsStored' /\ DoneStored'
  BY <1>0, <1>2, <1>3, StoredKept DEF Goto, docVars
<1> QED
  BY <1>5, <1>6 DEF OneRunInv

LEMMA OneRunServes ==
  ASSUME IInv, OneRun, OneRunInv, NEW h \in Handlers, Serve(h)
  PROVE  OneRunInv'
<1>0. /\ NothingTaken /\ RowsStored /\ DoneStored /\ pc \in [Syncers \cup Handlers -> Places]
      /\ plan \in [Handlers -> [gen : 0..MaxRuns, reuse : SUBSET Pages, drop : SUBSET Pages]]
      /\ Workers \cap Handlers = {} /\ Workers \subseteq Syncers
  BY ParsingAssumption DEF OneRunInv, IInv, TypeOK, ProcTypeOK, Syncers
<1>1. CASE RunUpdate(h) \/ RunWipe(h) \/ WipeStore(h) \/ ReadPrev(h)
  <2>1. pc[h] \in Before
    BY <1>1 DEF RunUpdate, RunWipe, WipeStore, ReadPrev, Before
  <2>2. rows = {} /\ \A w \in Workers : pc[w] \notin Busy
    BY <2>1, NothingBefore
  <2>3. rows' = {} /\ UNCHANGED <<task, job, memo, blank>>
    BY <1>1, <2>2 DEF RunUpdate, RunWipe, WipeStore, ReadPrev, countVars, faultVars
  <2>4. PICK place \in {"prev", "wipe", "wipeStore", "insert", "idle"} : Goto(h, place)
    BY <1>1, <2>2 DEF RunUpdate, RunWipe, WipeStore, ReadPrev
  <2>5. \A g \in Handlers : plan'[g].reuse = {}
    <3>1. CASE RunUpdate(h) \/ RunWipe(h) \/ WipeStore(h)
      BY <1>0, <3>1 DEF RunUpdate, RunWipe, WipeStore, handlerVars, NothingTaken
    <3>2. CASE ReadPrev(h)
      <4>1. {PageOf(t) : t \in {u \in rows : Reusable(u)}} = {}
        BY <2>2
      <4> QED
        BY <1>0, <3>2, <4>1 DEF ReadPrev, NothingTaken, NoPlan
    <3> QED
      BY <1>1, <3>1, <3>2
  <2>6. NothingTaken'
    BY <1>0, <2>4, <2>5 DEF NothingTaken, Goto
  <2>7. RowsStored'
    BY <1>0, <2>2, <2>3, <2>4 DEF RowsStored, Goto, Busy
  <2>8. DoneStored'
    <3>1. run # "DONE" /\ \A s \in Syncers : memo[s].run # "DONE"
      BY <1>0, <2>2 DEF DoneStored
    <3>2. run' # "DONE"
      BY <1>1, <3>1 DEF RunUpdate, RunWipe, WipeStore, ReadPrev, WriteDoc, docVars
    <3> QED
      BY <2>3, <3>1, <3>2 DEF DoneStored
  <2> QED
    BY <2>6, <2>7, <2>8 DEF OneRunInv
<1>2. CASE InsertTasks(h)
  <2>1. pc[h] \in Before
    BY <1>2 DEF InsertTasks, Before
  <2>2. /\ plan[h].gen = 1 /\ plan[h].reuse = {} /\ rows = {}
        /\ \A w \in Workers : pc[w] \notin Busy
    BY <1>0, <2>1, NothingBefore DEF NothingTaken
  <2>3. rows' = Tasks
    BY <1>2, <2>2, TheTasks DEF InsertTasks
  <2>4. \A t \in Tasks : task'[t].progress = "zero"
    BY <1>2, <2>2, TheTasks DEF InsertTasks
  <2>5. Goto(h, "begin2parse") /\ UNCHANGED <<docVars, store, job, memo, plan, blank>>
    BY <1>2 DEF InsertTasks, countVars, faultVars
  <2>6. NothingTaken'
    BY <1>0, <2>5 DEF NothingTaken, Goto
  <2>7. RowsStored'
    BY <1>0, <2>2, <2>3, <2>4, <2>5 DEF RowsStored, Goto, Busy
  <2>8. DoneStored'
    BY <1>0, <2>2, <2>5 DEF DoneStored, docVars
  <2> QED
    BY <2>6, <2>7, <2>8 DEF OneRunInv
<1>3. CASE Begin2Parse(h) \/ EnqueueTask(h) \/ RunDone(h) \/ CancelTasks(h) \/ CancelDoc(h)
  <2>1. UNCHANGED <<rows, task, store, job, memo, blank>>
    BY <1>3 DEF Begin2Parse, EnqueueTask, RunDone, CancelTasks, CancelDoc, countVars, faultVars
  <2>2. pc' = pc \/ Goto(h, "enqueue") \/ Goto(h, "idle") \/ Goto(h, "cancelDoc")
    BY <1>3 DEF Begin2Parse, EnqueueTask, RunDone, CancelTasks, CancelDoc
  <2>3. \A g \in Handlers : plan'[g].reuse = {}
    BY <1>0, <1>3 DEF Begin2Parse, EnqueueTask, RunDone, CancelTasks, CancelDoc, handlerVars,
                      NothingTaken, NoPlan
  <2>4. NothingTaken'
    BY <1>0, <2>2, <2>3 DEF NothingTaken, Goto
  <2>5. run' = "DONE" => run = "DONE"
    BY <1>3 DEF Begin2Parse, EnqueueTask, RunDone, CancelTasks, CancelDoc, WriteDoc, docVars
  <2>6. RowsStored' /\ DoneStored'
    BY <1>0, <2>1, <2>2, <2>5, StoredKept DEF Goto
  <2> QED
    BY <2>4, <2>6 DEF OneRunInv
<1> QED
  BY <1>0, <1>1, <1>2, <1>3 DEF Serve, NothingTaken, DropPrev, DropStore, StopDoc, StopWipe, RemoveWipe,
     RemoveStore, RemoveDoc

\* A request that fails takes nothing back.
LEMMA OneRunFails ==
  ASSUME IInv, OneRun, OneRunInv, NEW h \in Handlers, RequestFails(h)
  PROVE  OneRunInv'
<1>0. /\ NothingTaken /\ RowsStored /\ DoneStored /\ pc \in [Syncers \cup Handlers -> Places]
      /\ plan \in [Handlers -> [gen : 0..MaxRuns, reuse : SUBSET Pages, drop : SUBSET Pages]]
  BY DEF OneRunInv, IInv, TypeOK, ProcTypeOK
<1>1. Goto(h, "idle") /\ UNCHANGED <<docVars, rows, task, store, job, memo, blank>>
  BY DEF RequestFails
<1>2. NothingTaken'
  BY <1>0, <1>1 DEF NothingTaken, Goto, RequestFails, NoPlan
<1>3. RowsStored' /\ DoneStored'
  BY <1>0, <1>1, StoredKept DEF Goto, docVars
<1> QED
  BY <1>2, <1>3 DEF OneRunInv

LEMMA OneRunSyncs ==
  ASSUME IInv, OneRun, OneRunInv, NEW s \in Syncers, Sync(s)
  PROVE  OneRunInv'
<1>0. /\ NothingTaken /\ RowsStored /\ DoneStored /\ pc \in [Syncers \cup Handlers -> Places]
      /\ memo \in [Syncers -> [run : RunStates \cup {"same"}, progress : Progresses \cup {"keep"}]]
      /\ task \in [Tasks -> [progress : Progresses, retry : Nat, indexed : BOOLEAN]]
      /\ Syncers \cap Handlers = {} /\ Workers \subseteq Syncers
  BY ParsingAssumption DEF OneRunInv, IInv, TypeOK, ProcTypeOK, DataTypeOK, Syncers
<1>1. /\ UNCHANGED <<rows, task, store, job, blank, handlerVars>>
      /\ \E place \in {"syncDoc", "syncWrite", "idle", "ack"} : Goto(s, place)
  BY DEF Sync, SyncTasks, SyncDoc, SyncWrite, AfterSync, countVars, faultVars
<1>2. NothingTaken'
  BY <1>0, <1>1 DEF NothingTaken, Goto, handlerVars
<1>3. RowsStored'
  BY <1>0, <1>1 DEF RowsStored, Stored, Goto
<1>4. DoneStored'
  <2>1. CASE SyncTasks(s)
    <3>1. CASE rows = {} \/ Summary.run # "DONE"
      <4>1. \A r \in Syncers : memo'[r].run = "DONE" => memo[r].run = "DONE"
        BY <1>0, <2>1, <3>1 DEF SyncTasks
      <4> QED
        BY <1>0, <1>1, <2>1, <4>1 DEF SyncTasks, DoneStored, Stored, docVars
    <3>2. CASE rows # {} /\ Summary.run = "DONE"
      <4> DEFINE P == {task[t].progress : t \in rows}
      <4>1. P \cap {"zero", "part"} = {} /\ "bad" \notin P
        BY <3>2 DEF Summary
      <4>2. \A t \in rows : t \in Tasks /\ task[t].progress \in P \cap Progresses
        BY <1>0 DEF IInv, TypeOK, DataTypeOK
      <4>3. \A t \in rows : task[t].progress = "one"
        BY <4>1, <4>2 DEF Progresses
      <4>4. \A t \in Tasks : PageOf(t) \in Stored
        BY <1>0, <3>2, <4>3 DEF RowsStored
      <4>5. Pages \subseteq Stored
        BY <4>4, TheTasks
      <4> QED
        BY <1>1, <3>2, <4>5 DEF DoneStored, Stored
    <3> QED
      BY <3>1, <3>2
  <2>2. CASE SyncDoc(s) \/ SyncWrite(s)
    <3>1. run' = "DONE" => run = "DONE" \/ memo[s].run = "DONE"
      BY <2>2 DEF SyncDoc, SyncWrite, WriteDoc, docVars
    <3>2. \A r \in Syncers : memo'[r].run = "DONE" => memo[r].run = "DONE" \/ run = "DONE"
      BY <1>0, <2>2 DEF SyncDoc, SyncWrite
    <3> QED
      BY <1>0, <1>1, <3>1, <3>2 DEF DoneStored, Stored
  <2> QED
    BY <2>1, <2>2 DEF Sync
<1> QED
  BY <1>2, <1>3, <1>4 DEF OneRunInv

LEMMA OneRunWorks ==
  ASSUME IInv, OneRun, OneRunInv, NEW w \in Workers, Work(w) \/ Crash(w) \/ Restart(w)
  PROVE  OneRunInv'
<1>0. /\ NothingTaken /\ RowsStored /\ DoneStored /\ pc \in [Syncers \cup Handlers -> Places]
      /\ memo \in [Syncers -> [run : RunStates \cup {"same"}, progress : Progresses \cup {"keep"}]]
      /\ task \in [Tasks -> [progress : Progresses, retry : Nat, indexed : BOOLEAN]]
      /\ job \in [Workers -> Tasks \cup {NoTask}]
      /\ Syncers \cap Handlers = {} /\ w \in Syncers /\ TypeOK /\ JobInv
  BY ParsingAssumption DEF OneRunInv, IInv, TypeOK, ProcTypeOK, DataTypeOK, Syncers
<1>1. ASSUME NEW place, Goto(w, place), UNCHANGED plan PROVE NothingTaken'
  BY <1>0, <1>1 DEF NothingTaken, Goto
<1>2. CASE Take(w) \/ Record(w) \/ AckMsg(w) \/ Crash(w) \/ Restart(w)
  <2>1. PICK place \in {"taken", "ack", "sync", "idle", "down"} : Goto(w, place)
    BY <1>2 DEF Take, Record, AckMsg, Crash, Restart
  <2>2. UNCHANGED <<docVars, rows, task, store, blank, plan>>
    BY <1>2 DEF Take, Record, AckMsg, Crash, Restart, workerRest, faultVars, handlerVars, countVars
  <2>3. \A v \in Workers \ {w} : job'[v] = job[v]
    BY <1>0, <1>2 DEF Take, Record, AckMsg, Crash, Restart, workerRest, faultVars
  <2>4. \A r \in Syncers : memo'[r].run = "DONE" => memo[r].run = "DONE"
    BY <1>0, <1>2 DEF Take, Record, AckMsg, Crash, Restart, workerRest, faultVars
  <2>5. \A v \in Workers : pc'[v] \in {"check", "finish"} => pc[v] = pc'[v] /\ job'[v] = job[v]
    BY <1>0, <2>1, <2>3 DEF Goto
  <2>6. RowsStored' /\ DoneStored'
    BY <1>0, <2>2, <2>4, <2>5, StoredKept DEF docVars
  <2> QED
    BY <1>1, <2>1, <2>2, <2>6 DEF OneRunInv
<1>3. CASE GetTask(w)
  <2>1. UNCHANGED <<docVars, rows, store, blank, plan, job, memo>>
    BY <1>3 DEF GetTask, handlerVars
  <2>2. PICK place \in {"begin", "ack"} : Goto(w, place)
    BY <1>3 DEF GetTask
  <2>3. \A t \in rows : task'[t].progress = "one" => task[t].progress = "one"
    BY <1>0, <1>3 DEF GetTask, TypeOK, DataTypeOK
  <2>4. RowsStored' /\ DoneStored'
    BY <1>0, <2>1, <2>2, <2>3 DEF RowsStored, DoneStored, Stored, Goto, docVars
  <2> QED
    BY <1>1, <2>1, <2>2, <2>4 DEF OneRunInv
<1>4. ASSUME NEW p \in {"part", "one", "bad"}, Report(job[w], p),
             NEW place \in {"record", "insert"}, Goto(w, place), pc[w] \in Busy,
             UNCHANGED <<store, workerRest>>, blank \subseteq blank',
             p = "one" /\ ~HasKey(job[w]) => PageOf(job[w]) \in store \cup blank'
      PROVE  OneRunInv'
  <2>1. job[w] \in Tasks
    BY <1>0, <1>4, JobIsTask
  <2>2. UNCHANGED <<rows, run, memo, job, plan>>
    BY <1>4 DEF workerRest, faultVars, docVars, handlerVars
  <2>3. \A v \in Workers : pc'[v] \in {"check", "finish"} => pc[v] = pc'[v]
    BY <1>0, <1>4 DEF Goto
  <2>4. RowsStored' /\ DoneStored'
    BY <1>0, <1>4, <2>1, <2>2, <2>3, ReportStored
  <2> QED
    BY <1>1, <1>4, <2>2, <2>4 DEF OneRunInv
<1>5. CASE Build(w)
  BY <1>4, <1>5 DEF Build, Busy
<1>6. CASE BuildNothing(w)
  BY <1>4, <1>6 DEF BuildNothing, Busy
<1>7. CASE Fail(w)
  BY <1>4, <1>7 DEF Fail, Busy
<1>8. CASE Finish(w)
  <2>1. PageOf(job[w]) \in store
    BY <1>0, <1>8 DEF Finish, RowsStored
  <2> QED
    BY <1>4, <1>8, <2>1 DEF Finish, Busy
<1>9. CASE Begin(w)
  <2>1. CASE HasKey(job[w])
    BY <1>4, <1>9, <2>1 DEF Begin, Busy
  <2>2. CASE ~HasKey(job[w])
    <3>1. Goto(w, "build") /\ UNCHANGED <<task, store, blank, workerRest>>
      BY <1>9, <2>2 DEF Begin
    <3>2. RowsStored' /\ DoneStored'
      BY <1>0, <3>1, StoredKept DEF Goto, workerRest, faultVars, docVars
    <3> QED
      BY <1>1, <3>1, <3>2 DEF OneRunInv, workerRest, faultVars, handlerVars
  <2> QED
    BY <2>1, <2>2
<1>10. CASE InsertChunks(w)
  <2>1. /\ store' = store \cup {PageOf(job[w])} /\ Goto(w, "check")
        /\ UNCHANGED <<task, blank, rows, run, memo, job, plan>>
    BY <1>10 DEF InsertChunks, workerRest, faultVars, docVars, handlerVars
  <2>2. RowsStored' /\ DoneStored'
    BY <1>0, <2>1 DEF RowsStored, DoneStored, Stored, Goto
  <2> QED
    BY <1>1, <2>1, <2>2 DEF OneRunInv
<1>11. CASE CheckInserted(w)
  <2>1. CASE HasKey(job[w])
    BY <1>4, <1>11, <2>1 DEF CheckInserted, Busy
  <2>2. CASE ~HasKey(job[w])
    <3>1. /\ Goto(w, "finish") /\ UNCHANGED <<store, blank, workerRest>>
          /\ \A t \in rows : task'[t].progress = task[t].progress
      <4>1. /\ Goto(w, "finish") /\ UNCHANGED <<store, blank, workerRest>>
            /\ task' = IF job[w] \in rows THEN [task EXCEPT ![job[w]].indexed = TRUE] ELSE task
        BY <1>11, <2>2 DEF CheckInserted
      <4>2. \A t \in rows : t \in Tasks
        BY <1>0 DEF TypeOK, DataTypeOK
      <4> QED
        BY <1>0, <4>1, <4>2
    <3>2. PageOf(job[w]) \in store
      BY <1>0, <1>11 DEF CheckInserted, RowsStored
    <3>3. RowsStored' /\ DoneStored'
      BY <1>0, <3>1, <3>2 DEF RowsStored, DoneStored, Stored, Goto, workerRest, faultVars, docVars
    <3> QED
      BY <1>1, <3>1, <3>3 DEF OneRunInv, workerRest, faultVars, handlerVars
  <2> QED
    BY <2>1, <2>2
<1>12. CASE Sync(w)
  BY <1>0, <1>12, OneRunSyncs
<1> QED
  BY <1>2, <1>3, <1>5, <1>6, <1>7, <1>8, <1>9, <1>10, <1>11, <1>12 DEF Work

LEMMA OneRunStep ==
  ASSUME IInv, OneRun, OneRunInv, [Next]_vars
  PROVE  OneRunInv'
<1>0. NothingTaken /\ RowsStored /\ DoneStored /\ pc \in [Syncers \cup Handlers -> Places]
      /\ Server \notin Workers \cup Handlers /\ Server \in Syncers /\ Workers \subseteq Syncers
  BY ParsingAssumption DEF OneRunInv, IInv, TypeOK, ProcTypeOK, Syncers
<1>1. CASE SyncSelect \/ (\E t \in Tasks : ExpireKey(t)) \/ UNCHANGED vars
  <2>1. UNCHANGED <<docVars, rows, task, store, job, memo, plan, blank>>
    BY <1>1 DEF SyncSelect, ExpireKey, vars, countVars, faultVars, handlerVars
  <2>2. pc' = pc \/ Goto(Server, "sync")
    BY <1>1 DEF SyncSelect, ExpireKey, vars
  <2>3. NothingTaken'
    BY <1>0, <2>1, <2>2 DEF NothingTaken, Goto
  <2>4. \A v \in Workers : pc'[v] = pc[v]
    BY <1>0, <2>2 DEF Goto
  <2>5. RowsStored' /\ DoneStored'
    BY <1>0, <2>1, <2>4, StoredKept DEF docVars
  <2> QED
    BY <2>3, <2>5 DEF OneRunInv
<1> QED
  BY <1>0, <1>1, OneRunAccepts, OneRunServes, OneRunFails, OneRunSyncs, OneRunWorks DEF Next

\* A document that is run once, and perhaps canceled, has the chunks of all its
\* pages in the store when it is DONE, for any executors, page ranges, crashes
\* and second deliveries. (Of two runs it is false: run parse_stale.)
THEOREM OnceRunDoneIsIndexed ==
  ASSUME OneRun
  PROVE  Spec => []DoneIsIndexed
<1>1. Init => OneRunInv
  <2> SUFFICES ASSUME Init PROVE OneRunInv
    OBVIOUS
  <2>1. \A p \in Syncers \cup Handlers : pc[p] = "idle"
    BY DEF Init
  <2>2. Workers \subseteq Syncers
    BY DEF Syncers
  <2>3. NothingTaken /\ RowsStored /\ DoneStored
    BY <2>1, <2>2 DEF Init, NothingTaken, RowsStored, DoneStored, NoPlan
  <2> QED
    BY <2>3 DEF OneRunInv
<1>2. IInv /\ OneRunInv /\ [Next]_vars => OneRunInv'
  BY OneRunStep
<1>3. OneRunInv => DoneIsIndexed
  BY DEF OneRunInv, DoneStored, Stored, DoneIsIndexed
<1> QED
  BY <1>1, <1>2, <1>3, Invariance, PTL DEF Spec
=============================================================================
