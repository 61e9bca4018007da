---------------------------- MODULE AgentPageProofs ----------------------------
(* Theorems about AgentPage, for any bounds.                                 *)
EXTENDS AgentPage, Integers, SequenceTheorems, TLAPS

-----------------------------------------------------------------------------
(* The inductive invariant. *)

\* A page that has no answer yet will take the first one it gets.
FirstAnswer == ~fetched => touched

\* What the server will have when the saves on their way have arrived is what
\* the page shows without its placeholders, or the page is about to fetch what it has.
Settled ==
  (fetched /\ orderly /\ ~skipped /\ ~timer)
    => IF flight = <<>> THEN saved = Stripped[canvas] \/ (touched /\ (loading \/ ask = "answered"))
       ELSE flight[Len(flight)].canvas = Stripped[canvas]

HistoryInv == canvas = history[index]

PageInv == PageTypeOK /\ HistoryInv /\ FirstAnswer /\ Settled

-----------------------------------------------------------------------------
(* Lemmas about sequences and the history. *)

\* A save goes out behind the others.
LEMMA SendFacts ==
  ASSUME PageTypeOK, NEW v \in Canvas, NEW forRun \in BOOLEAN, SendSave(v, forRun)
  PROVE  /\ flight' \in Seq(Save) /\ Len(flight') <= MaxFlight
         /\ flight' # <<>> /\ flight'[Len(flight')].canvas = Stripped[v]
<1>1. flight \in Seq(Save) /\ Len(flight) < MaxFlight /\ MaxFlight \in Nat
  BY PageAssumption DEF PageTypeOK, SendSave
<1>2. [canvas |-> Stripped[v], forRun |-> forRun] \in Save
  BY PageAssumption DEF Save
<1> QED
  BY <1>1, <1>2 DEF SendSave

\* Taking one save out of those on their way.
LEMMA DropFacts ==
  ASSUME NEW S, NEW s \in Seq(S), NEW i \in DOMAIN s
  PROVE  /\ Dropped(s, i) \in Seq(S)
         /\ Len(Dropped(s, i)) = Len(s) - 1
         /\ i = 1 /\ Len(s) > 1 => /\ Dropped(s, i) # <<>>
                                   /\ Dropped(s, i)[Len(Dropped(s, i))] = s[Len(s)]
<1>1. i \in 1..Len(s)
  OBVIOUS
<1>2. SubSeq(s, 1, i - 1) \in Seq(S) /\ Len(SubSeq(s, 1, i - 1)) = i - 1
  BY <1>1
<1>3. /\ SubSeq(s, i + 1, Len(s)) \in Seq(S)
      /\ Len(SubSeq(s, i + 1, Len(s))) = Len(s) - i
      /\ \A k \in 1..(Len(s) - i) : SubSeq(s, i + 1, Len(s))[k] = s[k + i]
  BY <1>1
<1>4. Dropped(s, i) \in Seq(S) /\ Len(Dropped(s, i)) = Len(s) - 1
  <2> DEFINE before == SubSeq(s, 1, i - 1)
             after == SubSeq(s, i + 1, Len(s))
  <2>0. i \in Int /\ Len(s) \in Int
    BY <1>1
  <2>1. /\ before \in Seq(S) /\ Len(before) = i - 1
        /\ after \in Seq(S) /\ Len(after) = Len(s) - i
    BY <1>2, <1>3
  <2>2. Dropped(s, i) = before \o after
    BY DEF Dropped
  <2> HIDE DEF before, after
  <2>3. before \o after \in Seq(S) /\ Len(before \o after) = Len(before) + Len(after)
    BY <2>1, ConcatProperties
  <2> QED
    BY <2>0, <2>1, <2>2, <2>3
<1>5. ASSUME i = 1, Len(s) > 1
      PROVE  Dropped(s, i)[Len(s) - 1] = s[Len(s)]
  <2> DEFINE before == SubSeq(s, 1, i - 1)
             after == SubSeq(s, i + 1, Len(s))
  <2>1. before \in Seq(S) /\ Len(before) = 0
    BY <1>2, <1>5
  <2>2. after \in Seq(S) /\ Len(after) = Len(s) - 1 /\ after[Len(s) - 1] = s[Len(s)]
    BY <1>3, <1>5
  <2> HIDE DEF before, after
  <2>3. (before \o after)[Len(s) - 1] = after[Len(s) - 1]
    BY <1>5, <2>1, <2>2
  <2> QED
    BY <2>2, <2>3 DEF Dropped, before, after
<1>6. Len(s) > 1 => Dropped(s, i) # <<>>
  BY <1>4
<1> QED
  BY <1>4, <1>5, <1>6

LEMMA OneOrMore ==
  ASSUME NEW S, NEW s \in Seq(S), s # <<>>
  PROVE  Len(s) = 1 \/ Len(s) > 1
<1>1. PICK n \in Nat : n = Len(s) /\ n # 0
  OBVIOUS
<1>2. n = 1 \/ n > 1
  BY <1>1
<1> QED
  BY <1>1, <1>2

\* push leaves a history of the right size, at its last entry if it is new.
LEMMA PushFacts ==
  ASSUME PageTypeOK, HistoryInv, NEW v \in Canvas, Push(v)
  PROVE  /\ history' \in Seq(Canvas)
         /\ Len(history') \in 1..MaxHistory /\ index' \in 1..Len(history')
         /\ history'[index'] = v
<1> DEFINE kept == Append(SubSeq(history, 1, index), v)
<1>1. /\ history \in Seq(Canvas) /\ Len(history) \in 1..MaxHistory
      /\ index \in 1..Len(history) /\ MaxHistory \in Nat \ {0}
  BY PageAssumption DEF PageTypeOK
<1>2. CASE v = history[index]
  BY <1>1, <1>2 DEF Push, historyVars
<1>3. CASE v # history[index]
  <2>1. SubSeq(history, 1, index) \in Seq(Canvas) /\ Len(SubSeq(history, 1, index)) = index
    BY <1>1
  <2>2. kept \in Seq(Canvas) /\ Len(kept) = index + 1 /\ kept[index + 1] = v
    BY <2>1, <1>1
  <2>3. /\ history' = IF Len(kept) > MaxHistory THEN Tail(kept) ELSE kept
        /\ index' = Len(history')
    BY <1>3 DEF Push
  <2> HIDE DEF kept
  <2>4. CASE Len(kept) > MaxHistory
    <3>1. /\ Tail(kept) \in Seq(Canvas) /\ Len(Tail(kept)) = index
          /\ Tail(kept)[index] = v
      BY <1>1, <2>2
    <3> QED
      BY <1>1, <2>2, <2>3, <2>4, <3>1
  <2>5. CASE ~(Len(kept) > MaxHistory)
    BY <1>1, <2>2, <2>3, <2>5
  <2> QED
    BY <2>4, <2>5
<1> QED
  BY <1>2, <1>3

-----------------------------------------------------------------------------
(* Every step keeps the invariant. *)

\* What a step that leaves the canvas and the history alone keeps of them.
LEMMA SameHistory ==
  ASSUME PageTypeOK, HistoryInv, UNCHANGED <<canvas, historyVars>>
  PROVE  /\ canvas' \in Canvas /\ history' \in Seq(Canvas)
         /\ Len(history') \in 1..MaxHistory /\ index' \in 1..Len(history')
         /\ HistoryInv'
BY DEF PageTypeOK, HistoryInv, historyVars

\* Showing a canvas restarts the timer, so that nothing is settled.
LEMMA ShowInv ==
  ASSUME PageTypeOK, HistoryInv, NEW v \in Canvas, Show(v), Push(v)
  PROVE  /\ canvas' \in Canvas /\ history' \in Seq(Canvas)
         /\ Len(history') \in 1..MaxHistory /\ index' \in 1..Len(history')
         /\ {timer', skipped'} \subseteq BOOLEAN
         /\ HistoryInv' /\ Settled'
BY PushFacts DEF Show, HistoryInv, Settled

LEMMA PageUserInv == ASSUME PageInv, PageUser PROVE PageInv'
<1>0. PageTypeOK /\ HistoryInv /\ FirstAnswer /\ Settled
  BY DEF PageInv
<1>1. ASSUME NEW v \in Canvas, Edit(v) PROVE PageInv'
  <2>1. Show(v) /\ Push(v)
    BY <1>1 DEF Edit
  <2>2. PageTypeOK'
    BY <1>0, <1>1, <2>1, ShowInv DEF Edit, PageTypeOK, fetchVars, runVars
  <2> QED
    BY <1>0, <1>1, <2>1, <2>2, ShowInv DEF Edit, PageInv, FirstAnswer, fetchVars
<1>2. ASSUME NEW v \in Canvas, RunFromSheet(v) PROVE PageInv'
  <2>1. Show(v) /\ Push(v) /\ SendSave(v, TRUE)
    BY <1>2 DEF RunFromSheet
  <2>2. flight' \in Seq(Save) /\ Len(flight') <= MaxFlight
    BY <1>0, <2>1, SendFacts
  <2>3. PageTypeOK'
    BY <1>0, <1>2, <2>1, <2>2, ShowInv DEF RunFromSheet, PageTypeOK, fetchVars
  <2> QED
    BY <1>0, <1>2, <2>1, <2>3, ShowInv DEF RunFromSheet, PageInv, FirstAnswer, fetchVars
<1>3. ASSUME Undo \/ Redo PROVE PageInv'
  <2>1. PICK k \in 1..Len(history) : index' = k /\ Show(history[k]) /\ history' = history
    BY <1>0, <1>3 DEF Undo, Redo, PageTypeOK
  <2>2. history[k] \in Canvas
    BY <1>0, <2>1 DEF PageTypeOK
  <2>3. PageTypeOK'
    BY <1>0, <1>3, <2>1, <2>2 DEF Undo, Redo, Show, PageTypeOK, fetchVars, runVars
  <2>4. HistoryInv' /\ Settled' /\ FirstAnswer'
    BY <1>0, <1>3, <2>1 DEF Undo, Redo, Show, HistoryInv, Settled, FirstAnswer, fetchVars
  <2> QED
    BY <2>3, <2>4 DEF PageInv
<1>4. ASSUME SaveButton \/ RunAgent PROVE PageInv'
  <2>1. \E forRun \in BOOLEAN : SendSave(canvas, forRun)
    BY <1>4 DEF SaveButton, RunAgent
  <2>2. /\ flight' \in Seq(Save) /\ Len(flight') <= MaxFlight
        /\ flight' # <<>> /\ flight'[Len(flight')].canvas = Stripped[canvas]
    BY <1>0, <2>1, SendFacts DEF PageTypeOK
  <2>3. PageTypeOK' /\ HistoryInv'
    BY <1>0, <1>4, <2>2, SameHistory DEF SaveButton, RunAgent, PageTypeOK, fetchVars, runVars
  <2>4. Settled' /\ FirstAnswer'
    BY <1>0, <1>4, <2>2 DEF SaveButton, RunAgent, Settled, FirstAnswer, fetchVars
  <2> QED
    BY <2>3, <2>4 DEF PageInv
<1>5. ASSUME OpenDrawer \/ CloseDrawer PROVE PageInv'
  <2>1. PageTypeOK' /\ HistoryInv'
    BY <1>0, <1>5, SameHistory DEF OpenDrawer, CloseDrawer, PageTypeOK, fetchVars, runVars
  <2>2. Settled' /\ FirstAnswer'
    BY <1>0, <1>5 DEF OpenDrawer, CloseDrawer, Settled, FirstAnswer, fetchVars, runVars
  <2> QED
    BY <2>1, <2>2 DEF PageInv
<1>6. ASSUME SaveSetting \/ Ask PROVE PageInv'
  <2>1. rows' \subseteq Row
    BY <1>0, <1>6 DEF SaveSetting, Ask, ReadRow, PageTypeOK, Row
  <2>2. PageTypeOK' /\ HistoryInv'
    BY <1>0, <1>6, <2>1, SameHistory DEF SaveSetting, Ask, PageTypeOK, fetchVars, runVars
  <2>3. Settled' /\ FirstAnswer'
    BY <1>0, <1>6 DEF SaveSetting, Ask, Settled, FirstAnswer, fetchVars, runVars
  <2> QED
    BY <2>2, <2>3 DEF PageInv
<1>7. ASSUME AnswerStops PROVE PageInv'
  <2>1. PageTypeOK' /\ HistoryInv'
    BY <1>0, <1>7, SameHistory DEF AnswerStops, PageTypeOK
  <2>2. Settled' /\ FirstAnswer'
    BY <1>0, <1>7 DEF AnswerStops, Settled, FirstAnswer
  <2> QED
    BY <2>1, <2>2 DEF PageInv
<1> QED
  BY <1>1, <1>2, <1>3, <1>4, <1>5, <1>6, <1>7 DEF PageUser

LEMMA PageStepInv == ASSUME PageInv, FetchAnswered \/ TimerFires \/ AnswerEnds PROVE PageInv'
<1>0. PageTypeOK /\ HistoryInv /\ FirstAnswer /\ Settled
  BY DEF PageInv
<1>1. ASSUME AgentFetched PROVE PageInv'
  <2>1. CASE touched /\ Show(saved) /\ Push(saved) /\ UNCHANGED orderly
    <3>1. saved \in Canvas
      BY <1>0 DEF PageTypeOK
    <3>2. PageTypeOK'
      BY <1>0, <1>1, <2>1, <3>1, ShowInv DEF AgentFetched, PageTypeOK, runVars
    <3> QED
      BY <1>0, <1>1, <2>1, <3>1, <3>2, ShowInv DEF AgentFetched, PageInv, FirstAnswer
  <2>2. CASE /\ orderly' = (orderly /\ ~touched)
             /\ UNCHANGED <<canvas, timer, skipped, historyVars>>
    <3>1. PageTypeOK' /\ HistoryInv'
      BY <1>0, <1>1, <2>2, SameHistory DEF AgentFetched, PageTypeOK, runVars
    <3>2. Settled' /\ FirstAnswer'
      BY <1>0, <1>1, <2>2 DEF AgentFetched, Settled, FirstAnswer, runVars
    <3> QED
      BY <3>1, <3>2 DEF PageInv
  <2> QED
    BY <1>1, <2>1, <2>2 DEF AgentFetched
<1>2. ASSUME AgentFetchFails PROVE PageInv'
  <2>1. PageTypeOK' /\ HistoryInv'
    BY <1>0, <1>2, SameHistory DEF AgentFetchFails, PageTypeOK, runVars
  <2>2. Settled' /\ FirstAnswer'
    BY <1>0, <1>2 DEF AgentFetchFails, Settled, FirstAnswer
  <2> QED
    BY <2>1, <2>2 DEF PageInv
<1>3. ASSUME TimerFires PROVE PageInv'
  <2>1. CASE ~drawer /\ fetched
    <3>1. SendSave(canvas, FALSE) /\ canvas \in Canvas
      BY <1>0, <1>3, <2>1 DEF TimerFires, PageTypeOK
    <3>2. /\ flight' \in Seq(Save) /\ Len(flight') <= MaxFlight
          /\ flight' # <<>> /\ flight'[Len(flight')].canvas = Stripped[canvas]
      BY <1>0, <3>1, SendFacts
    <3>3. PageTypeOK' /\ HistoryInv'
      BY <1>0, <1>3, <3>2, SameHistory DEF TimerFires, PageTypeOK, fetchVars, runVars
    <3>4. Settled' /\ FirstAnswer'
      BY <1>0, <1>3, <3>2 DEF TimerFires, Settled, FirstAnswer, fetchVars
    <3> QED
      BY <3>3, <3>4 DEF PageInv
  <2>2. CASE ~(~drawer /\ fetched)
    <3>1. PageTypeOK' /\ HistoryInv'
      BY <1>0, <1>3, <2>2, SameHistory DEF TimerFires, PageTypeOK, fetchVars, runVars
    <3>2. Settled' /\ FirstAnswer'
      BY <1>0, <1>3, <2>2 DEF TimerFires, Settled, FirstAnswer, fetchVars
    <3> QED
      BY <3>1, <3>2 DEF PageInv
  <2> QED
    BY <2>1, <2>2
<1>4. ASSUME AnswerEnds PROVE PageInv'
  <2>1. PageTypeOK' /\ HistoryInv'
    BY <1>0, <1>4, SameHistory DEF AnswerEnds, PageTypeOK
  <2>2. Settled' /\ FirstAnswer'
    BY <1>0, <1>4 DEF AnswerEnds, Settled, FirstAnswer
  <2> QED
    BY <2>1, <2>2 DEF PageInv
<1> QED
  BY <1>1, <1>2, <1>3, <1>4 DEF FetchAnswered

LEMMA PageServerInv == ASSUME PageInv, Answered \/ ResetReads \/ RowWritten PROVE PageInv'
<1>0. PageTypeOK /\ HistoryInv /\ FirstAnswer /\ Settled
  BY DEF PageInv
<1>1. ASSUME NEW i \in 1..MaxFlight, SaveStored(i) \/ SaveFails(i) PROVE PageInv'
  <2>1. flight \in Seq(Save) /\ i \in DOMAIN flight /\ flight' = Dropped(flight, i)
    BY <1>0, <1>1 DEF SaveStored, SaveFails, PageTypeOK
  <2>2. flight[i] \in Save /\ flight[i].canvas \in Canvas
    <3>1. i \in 1..Len(flight) /\ flight[i] \in Save
      BY <2>1
    <3> QED
      BY <3>1 DEF Save
  <2>3. /\ flight' \in Seq(Save) /\ Len(flight') = Len(flight) - 1
        /\ i = 1 /\ Len(flight) > 1 => flight' # <<>> /\ flight'[Len(flight')] = flight[Len(flight)]
    BY <2>1, DropFacts
  <2>4. PageTypeOK'
    <3>1. canvas' \in Canvas /\ history' \in Seq(Canvas)
          /\ Len(history') \in 1..MaxHistory /\ index' \in 1..Len(history')
      BY <1>0, <1>1, SameHistory DEF SaveStored, SaveFails
    <3>2. saved' \in Canvas /\ Len(flight') <= MaxFlight /\ Len(flight) \in Nat
      BY <1>0, <1>1, <2>1, <2>2, <2>3, PageAssumption DEF SaveStored, SaveFails, PageTypeOK
    <3> QED
      BY <1>0, <1>1, <2>3, <3>1, <3>2 DEF SaveStored, SaveFails, PageTypeOK, fetchVars
  <2>5. HistoryInv'
    BY <1>0, <1>1, SameHistory DEF SaveStored, SaveFails
  <2>6. FirstAnswer'
    BY <1>0, <1>1 DEF SaveStored, SaveFails, FirstAnswer, fetchVars
  <2>7. Settled'
    <3>1. CASE SaveFails(i)
      BY <3>1 DEF SaveFails, Settled
    <3>2. CASE SaveStored(i)
      <4>1. SUFFICES ASSUME fetched, orderly, ~skipped, ~timer, i = 1
                     PROVE  IF flight' = <<>> THEN saved' = Stripped[canvas']
                            ELSE flight'[Len(flight')].canvas = Stripped[canvas']
        BY <3>2 DEF SaveStored, Settled
      <4>2. flight # <<>> /\ flight[Len(flight)].canvas = Stripped[canvas]
        BY <1>0, <2>1, <4>1 DEF Settled
      <4>3. CASE Len(flight) > 1
        BY <2>3, <3>2, <4>1, <4>2, <4>3 DEF SaveStored
      <4>4. CASE ~(Len(flight) > 1)
        <5>1. Len(flight) = 1
          BY <2>1, <4>2, <4>4, OneOrMore
        <5>2. flight' = <<>> /\ saved' = Stripped[canvas] /\ canvas' = canvas
          BY <2>3, <3>2, <4>1, <4>2, <5>1 DEF SaveStored
        <5> QED
          BY <5>2
      <4> QED
        BY <4>3, <4>4
    <3> QED
      BY <1>1, <3>1, <3>2
  <2> QED
    BY <2>4, <2>5, <2>6, <2>7 DEF PageInv
<1>2. ASSUME ResetReads PROVE PageInv'
  <2>1. rows' \subseteq Row
    BY <1>0, <1>2 DEF ResetReads, ReadRow, PageTypeOK, Row
  <2>2. PageTypeOK' /\ HistoryInv'
    BY <1>0, <1>2, <2>1, SameHistory DEF ResetReads, PageTypeOK, fetchVars, runVars
  <2>3. Settled' /\ FirstAnswer'
    BY <1>0, <1>2 DEF ResetReads, Settled, FirstAnswer, fetchVars, runVars
  <2> QED
    BY <2>2, <2>3 DEF PageInv
<1>3. ASSUME NEW r \in rows, ResetAnswers(r) PROVE PageInv'
  <2>1. saved' \in Canvas /\ rows' \subseteq Row /\ touched' = TRUE
    BY <1>0, <1>3 DEF ResetAnswers, WriteRow, PageTypeOK, Row
  <2>2. PageTypeOK' /\ HistoryInv'
    BY <1>0, <1>3, <2>1, SameHistory DEF ResetAnswers, PageTypeOK
  <2>3. Settled' /\ FirstAnswer'
    BY <1>0, <1>3, <2>1 DEF ResetAnswers, WriteRow, Settled, FirstAnswer
  <2> QED
    BY <2>2, <2>3 DEF PageInv
<1>4. ASSUME NEW r \in rows, SettingAnswers(r) PROVE PageInv'
  <2>1. saved' \in Canvas /\ rows' \subseteq Row /\ touched' = TRUE
    BY <1>0, <1>4 DEF SettingAnswers, WriteRow, PageTypeOK, Row
  <2>2. PageTypeOK' /\ HistoryInv'
    BY <1>0, <1>4, <2>1, SameHistory DEF SettingAnswers, PageTypeOK, runVars
  <2>3. Settled' /\ FirstAnswer'
    BY <1>0, <1>4, <2>1 DEF SettingAnswers, Settled, FirstAnswer
  <2> QED
    BY <2>2, <2>3 DEF PageInv
<1>5. ASSUME NEW r \in rows, RowGivenUp(r) PROVE PageInv'
  <2>1. PageTypeOK' /\ HistoryInv'
    BY <1>0, <1>5, SameHistory DEF RowGivenUp, PageTypeOK, fetchVars
  <2>2. Settled' /\ FirstAnswer'
    BY <1>0, <1>5 DEF RowGivenUp, Settled, FirstAnswer, fetchVars
  <2> QED
    BY <2>1, <2>2 DEF PageInv
<1>6. ASSUME NEW r \in rows, RunStores(r) PROVE PageInv'
  <2>1. saved' \in Canvas /\ rows' \subseteq Row /\ touched' = TRUE
    BY <1>0, <1>6 DEF RunStores, WriteRow, PageTypeOK, Row
  <2>2. PageTypeOK' /\ HistoryInv'
    BY <1>0, <1>6, <2>1, SameHistory DEF RunStores, Heard, PageTypeOK
  <2>3. Settled' /\ FirstAnswer'
    BY <1>0, <1>6, <2>1 DEF RunStores, WriteRow, Heard, Settled, FirstAnswer
  <2> QED
    BY <2>2, <2>3 DEF PageInv
<1>7. ASSUME NEW r \in rows, RunFails(r) PROVE PageInv'
  <2>1. PageTypeOK' /\ HistoryInv'
    BY <1>0, <1>7, SameHistory DEF RunFails, Heard, PageTypeOK, fetchVars
  <2>2. Settled' /\ FirstAnswer'
    BY <1>0, <1>7 DEF RunFails, Heard, Settled, FirstAnswer, fetchVars
  <2> QED
    BY <2>1, <2>2 DEF PageInv
<1> QED
  BY <1>1, <1>2, <1>3, <1>4, <1>5, <1>6, <1>7 DEF Answered, RowWritten

LEMMA PageNextInv == ASSUME PageInv, [PageNext]_agentPageVars PROVE PageInv'
<1>1. CASE UNCHANGED agentPageVars
  BY <1>1 DEF PageInv, PageTypeOK, HistoryInv, FirstAnswer, Settled, agentPageVars, fetchVars,
              historyVars, runVars
<1> QED
  BY <1>1, PageUserInv, PageStepInv, PageServerInv DEF PageNext

LEMMA PageInitInv == PageInit => PageInv
<1> SUFFICES ASSUME PageInit PROVE PageInv
  OBVIOUS
<1>1. Before \in Canvas /\ Loaded \in Canvas /\ MaxHistory \in Nat \ {0} /\ MaxFlight \in Nat
  BY PageAssumption DEF Before, Loaded, Canvas
<1>2. /\ <<Before>> \in Seq(Canvas) /\ Len(<<Before>>) = 1
      /\ <<>> \in Seq(Save) /\ Len(<<>>) = 0
  BY <1>1
<1>3. canvas \in Canvas /\ saved \in Canvas /\ rows \subseteq Row
  BY <1>1 DEF PageInit
<1>4. /\ history \in Seq(Canvas) /\ Len(history) \in 1..MaxHistory /\ index \in 1..Len(history)
      /\ flight \in Seq(Save) /\ Len(flight) <= MaxFlight
  BY <1>1, <1>2 DEF PageInit
<1>5. PageTypeOK
  BY <1>3, <1>4 DEF PageInit, PageTypeOK
<1> QED
  BY <1>5 DEF PageInit, PageInv, HistoryInv, FirstAnswer, Settled

LEMMA PageInductive == PageSpec => []PageInv
BY PageInitInv, PageNextInv, PTL DEF PageSpec

-----------------------------------------------------------------------------
(* Theorems. *)

\* The page and the server keep to the types of PageTypeOK: the history never
\* outgrows HistoryManager.maxSize, and its index never leaves it.
THEOREM PageTypeCorrect == PageSpec => []PageTypeOK
<1>1. PageInv => PageTypeOK
  BY DEF PageInv
<1> QED
  BY <1>1, PageInductive, PTL

\* When nothing is pending, what the page shows is what the server has, up to
\* placeholders (use-save-graph.ts, use-fetch-data.ts, canvas_app.py).
THEOREM PageAgreesAtRest == PageSpec => []AgreesAtRest
<1>1. PageInv => AgreesAtRest
  BY DEF PageInv, Settled, AgreesAtRest
<1> QED
  BY <1>1, PageInductive, PTL

-----------------------------------------------------------------------------
(* The history is an undo stack. *)

\* What is before an entry, with it, and it with what is after it.
LEMMA Around ==
  ASSUME NEW S, NEW h \in Seq(S), NEW i \in 1..Len(h)
  PROVE  /\ Append(SubSeq(h, 1, i - 1), h[i]) = SubSeq(h, 1, i)
         /\ <<h[i]>> \o SubSeq(h, i + 1, Len(h)) = SubSeq(h, i, Len(h))
         /\ SubSeq(h, 1, i - 1) \in Seq(S) /\ SubSeq(h, 1, i) \in Seq(S)
         /\ Len(SubSeq(h, 1, i - 1)) = i - 1 /\ Len(SubSeq(h, 1, i)) = i
<1>1. 1 \in 1..Len(h) /\ i \in i..Len(h) /\ Len(h) \in i..Len(h) /\ i \in 1..i /\ h[i] \in S
  OBVIOUS
<1>2. SubSeq(h, 1, i) = SubSeq(h, 1, i - 1) \o <<h[i]>>
  BY <1>1, SubSeqRecursiveSecond
<1>3. /\ SubSeq(h, 1, i - 1) \in Seq(S) /\ Len(SubSeq(h, 1, i - 1)) = i - 1
      /\ SubSeq(h, 1, i) \in Seq(S) /\ Len(SubSeq(h, 1, i)) = i
  OBVIOUS
<1>4. Append(SubSeq(h, 1, i - 1), h[i]) = SubSeq(h, 1, i - 1) \o <<h[i]>>
  BY <1>1, <1>3, AppendIsConcat
<1>5. <<h[i]>> \o SubSeq(h, i + 1, Len(h)) = SubSeq(h, i, Len(h))
  BY <1>1, SubSeqRecursiveFirst
<1> QED
  BY <1>2, <1>3, <1>4, <1>5

\* A prefix of a prefix, and all but the last entry.
LEMMA Prefixes ==
  ASSUME NEW S, NEW h \in Seq(S), NEW v \in S
  PROVE  /\ \A m \in 0..Len(h), k \in 0..Len(h) :
              k <= m => SubSeq(SubSeq(h, 1, m), 1, k) = SubSeq(h, 1, k)
         /\ SubSeq(Append(h, v), 1, Len(h)) = h
<1>1. ASSUME NEW m \in 0..Len(h), NEW k \in 0..Len(h), k <= m
      PROVE  SubSeq(SubSeq(h, 1, m), 1, k) = SubSeq(h, 1, k)
  <2> DEFINE p == SubSeq(h, 1, m)
  <2>1. p \in Seq(S) /\ Len(p) = m /\ \A i \in 1..m : p[i] = h[i]
    BY <1>1
  <2> HIDE DEF p
  <2>2. /\ SubSeq(p, 1, k) \in Seq(S) /\ Len(SubSeq(p, 1, k)) = k
        /\ \A i \in 1..k : SubSeq(p, 1, k)[i] = h[i]
    BY <1>1, <2>1
  <2>3. /\ SubSeq(h, 1, k) \in Seq(S) /\ Len(SubSeq(h, 1, k)) = k
        /\ \A i \in 1..k : SubSeq(h, 1, k)[i] = h[i]
    BY <1>1
  <2>4. SubSeq(p, 1, k) = SubSeq(h, 1, k)
    BY <2>2, <2>3, SeqEqual
  <2> QED
    BY <2>4 DEF p
<1>2. SubSeq(Append(h, v), 1, Len(h)) = h
  <2> DEFINE a == Append(h, v)
  <2>1. /\ a \in Seq(S) /\ Len(a) = Len(h) + 1 /\ Len(h) \in Nat
        /\ \A i \in 1..Len(h) : a[i] = h[i]
    BY AppendProperties
  <2> HIDE DEF a
  <2>2. /\ SubSeq(a, 1, Len(h)) \in Seq(S) /\ Len(SubSeq(a, 1, Len(h))) = Len(h)
        /\ \A i \in 1..Len(h) : SubSeq(a, 1, Len(h))[i] = h[i]
    BY <2>1
  <2>3. SubSeq(a, 1, Len(h)) = h
    BY <2>2, SeqEqual
  <2> QED
    BY <2>3 DEF a
<1> QED
  BY <1>1, <1>2

\* The history around the entry that is shown.
LEMMA Shown ==
  ASSUME PageTypeOK, HistoryInv
  PROVE  /\ history \in Seq(Canvas) /\ canvas = history[index]
         /\ index \in 1..Len(history) /\ Len(history) \in Nat /\ index \in Int
         /\ MaxHistory \in Nat /\ Len(history) <= MaxHistory
BY PageAssumption DEF PageTypeOK, HistoryInv

LEMMA PushRefines ==
  ASSUME PageTypeOK, HistoryInv, NEW v \in Canvas, Show(v), Push(v)
  PROVE  [Undos!Next]_<<SubSeq(history, 1, index - 1), canvas,
                        SubSeq(history, index + 1, Len(history))>>
<1> DEFINE upto == SubSeq(history, 1, index)
           kept == Append(upto, v)
<1>1. /\ history \in Seq(Canvas) /\ canvas = history[index] /\ canvas' = v
      /\ index \in 1..Len(history) /\ Len(history) \in Nat /\ index \in Int
      /\ MaxHistory \in Nat /\ Len(history) <= MaxHistory
  BY Shown DEF Show
<1>2. CASE v = history[index]
  BY <1>1, <1>2 DEF Push, historyVars
<1>3. CASE v # history[index]
  <2>1. /\ upto \in Seq(Canvas) /\ Len(upto) = index
        /\ Append(SubSeq(history, 1, index - 1), canvas) = upto
    BY <1>1, Around
  <2>2. kept \in Seq(Canvas) /\ Len(kept) = index + 1
    BY <2>1, AppendProperties
  <2>3. /\ history' = IF Len(kept) > MaxHistory THEN Tail(kept) ELSE kept
        /\ index' = Len(history')
    BY <1>3 DEF Push
  <2> HIDE DEF upto, kept
  <2>4. history' \in Seq(Canvas) /\ index' \in Nat
    BY <1>1, <2>2, <2>3
  <2>5. SubSeq(history', index' + 1, Len(history')) = <<>>
    <3>1. /\ index' + 1 \in Int /\ Len(history') \in Int /\ Len(history') < index' + 1
      BY <2>3, <2>4
    <3> QED
      BY <3>1, SubSeqEmpty
  <2>6. SubSeq(history', 1, index' - 1) = Undos!Latest(upto)
    <3>1. CASE Len(kept) > MaxHistory
      <4>1. upto # <<>> /\ Tail(upto) \in Seq(Canvas) /\ Len(Tail(upto)) = index - 1
        BY <1>1, <2>1
      <4>2. history' = Append(Tail(upto), v)
        BY <2>1, <2>3, <3>1, <4>1, HeadTailAppend DEF kept
      <4>3. index' - 1 = Len(Tail(upto))
        BY <1>1, <2>1, <2>3, <4>1, <4>2, AppendProperties
      <4>4. SubSeq(history', 1, index' - 1) = Tail(upto)
        BY <4>1, <4>2, <4>3, Prefixes
      <4>5. ~(Len(upto) < MaxHistory)
        BY <1>1, <2>1, <2>2, <3>1
      <4> QED
        BY <4>4, <4>5 DEF Undos!Latest
    <3>2. CASE ~(Len(kept) > MaxHistory)
      <4>1. history' = kept /\ index' - 1 = Len(upto)
        BY <1>1, <2>1, <2>2, <2>3, <3>2
      <4>2. SubSeq(history', 1, index' - 1) = upto
        BY <2>1, <4>1, Prefixes DEF kept
      <4> QED
        BY <1>1, <2>1, <2>2, <3>2, <4>2 DEF Undos!Latest
    <3> QED
      BY <3>1, <3>2
  <2>7. Undos!Edit(v)
    BY <1>1, <1>3, <2>1, <2>5, <2>6 DEF Undos!Edit
  <2> QED
    BY <2>7 DEF Undos!Next
<1> QED
  BY <1>2, <1>3

LEMMA UndoRefines == ASSUME PageTypeOK, HistoryInv, Undo PROVE Undos!Undo
<1> DEFINE past == SubSeq(history, 1, index - 1)
<1>1. /\ history \in Seq(Canvas) /\ canvas = history[index]
      /\ index \in 1..Len(history) /\ Len(history) \in Nat /\ index \in Int
  BY Shown
<1>2. /\ index - 1 \in 1..Len(history) /\ index' = index - 1 /\ history' = history
      /\ canvas' = history[index - 1]
  BY <1>1 DEF Undo, Show
<1>3. /\ past \in Seq(Canvas) /\ Len(past) = index - 1 /\ past # <<>>
      /\ past[Len(past)] = history[index - 1]
  BY <1>1, <1>2
<1>4. SubSeq(past, 1, Len(past) - 1) = SubSeq(history', 1, index' - 1)
  <2>1. index - 2 \in 0..Len(history) /\ index - 1 \in 0..Len(history)
        /\ Len(past) - 1 = index - 2 /\ index' - 1 = index - 2 /\ index - 2 <= index - 1
    BY <1>1, <1>2, <1>3
  <2> QED
    BY <1>1, <1>2, <2>1, Prefixes
<1>5. SubSeq(history', index' + 1, Len(history')) =
        <<canvas>> \o SubSeq(history, index + 1, Len(history))
  <2>1. index' + 1 = index
    BY <1>1, <1>2
  <2> QED
    BY <1>1, <1>2, <2>1, Around
<1> QED
  BY <1>2, <1>3, <1>4, <1>5 DEF Undos!Undo

LEMMA RedoRefines == ASSUME PageTypeOK, HistoryInv, Redo PROVE Undos!Redo
<1> DEFINE future == SubSeq(history, index + 1, Len(history))
<1>1. /\ history \in Seq(Canvas) /\ canvas = history[index]
      /\ index \in 1..Len(history) /\ Len(history) \in Nat /\ index \in Int
  BY Shown
<1>2. /\ index + 1 \in 1..Len(history) /\ Len(history) \in (index + 1)..Len(history)
      /\ index' = index + 1 /\ history' = history /\ canvas' = history[index + 1]
  BY <1>1 DEF Redo, Show
<1>3. /\ Head(future) = history[index + 1]
      /\ Tail(future) = SubSeq(history', index' + 1, Len(history'))
  BY <1>1, <1>2, HeadTailOfSubSeq
<1>4. future # <<>>
  <2>1. Len(future) = Len(history) - index /\ Len(history) - index # 0
    BY <1>1, <1>2
  <2> QED
    BY <2>1
<1>5. SubSeq(history', 1, index' - 1) = Append(SubSeq(history, 1, index - 1), canvas)
  <2>1. index' - 1 = index
    BY <1>1, <1>2
  <2> QED
    BY <1>1, <1>2, <2>1, Around
<1> QED
  BY <1>2, <1>3, <1>4, <1>5 DEF Undos!Redo

LEMMA StepRefines ==
  ASSUME PageInv, [PageNext]_agentPageVars
  PROVE  [Undos!Next]_<<SubSeq(history, 1, index - 1), canvas,
                        SubSeq(history, index + 1, Len(history))>>
<1>0. PageTypeOK /\ HistoryInv /\ saved \in Canvas
  BY DEF PageInv, PageTypeOK
<1>1. CASE UNCHANGED <<canvas, historyVars>>
  BY <1>1 DEF historyVars
<1>2. CASE \E v \in Canvas : Show(v) /\ Push(v)
  BY <1>0, <1>2, PushRefines
<1>3. CASE Undo
  BY <1>0, <1>3, UndoRefines DEF Undos!Next
<1>4. CASE Redo
  BY <1>0, <1>4, RedoRefines DEF Undos!Next
<1>5. \/ UNCHANGED <<canvas, historyVars>>
      \/ \E v \in Canvas : Show(v) /\ Push(v)
      \/ Undo \/ Redo
  <2>1. CASE PageUser
    BY <2>1 DEF PageUser, Edit, RunFromSheet, SaveButton, RunAgent, OpenDrawer, CloseDrawer,
                SaveSetting, Ask, AnswerStops
  <2>2. CASE FetchAnswered
    BY <1>0, <2>2 DEF FetchAnswered, AgentFetched, AgentFetchFails
  <2>3. CASE TimerFires \/ Answered \/ ResetReads \/ AnswerEnds
    BY <2>3 DEF TimerFires, Answered, SaveStored, SaveFails, ResetReads, AnswerEnds
  <2>4. CASE RowWritten
    BY <2>4 DEF RowWritten, ResetAnswers, SettingAnswers, RowGivenUp, RunStores, RunFails
  <2>5. CASE UNCHANGED agentPageVars
    BY <2>5 DEF agentPageVars
  <2> QED
    BY <2>1, <2>2, <2>3, <2>4, <2>5 DEF PageNext
<1> QED
  BY <1>1, <1>2, <1>3, <1>4, <1>5

LEMMA InitRefines == PageInit => Undos!Init
<1> SUFFICES ASSUME PageInit PROVE Undos!Init
  OBVIOUS
<1>1. history = <<Before>> /\ index = 1 /\ canvas = Before /\ Before \in Canvas
  BY PageAssumption DEF PageInit, Before, Loaded, Canvas
<1>2. SubSeq(history, 1, index - 1) = <<>> /\ SubSeq(history, index + 1, Len(history)) = <<>>
  BY <1>1, SubSeqEmpty
<1> QED
  BY <1>1, <1>2 DEF Undos!Init

\* HistoryManager's array and index, with the push that follows every change
\* of the store, implement the two stacks of UndoStack.
THEOREM PageImplementsUndoStack == PageSpec => ImplementsUndoStack
BY InitRefines, StepRefines, PageInductive, PTL DEF PageSpec, ImplementsUndoStack, Undos!Spec
=============================================================================
