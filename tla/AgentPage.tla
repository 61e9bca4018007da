------------------------------- MODULE AgentPage -------------------------------
(***************************************************************************)
(* The page around the canvas of an agent (web/src/pages/agent): loading,  *)
(* the undo history, the autosave that waits for twenty quiet seconds, the *)
(* save button, the settings, the run, which saves, resets the agent and   *)
(* only then opens the chat, and the questions asked there, each of which  *)
(* ends with a fetch that replaces what is shown.                          *)
(*                                                                         *)
(* A canvas (nodes and edges) is a number; Before is what the graph store, *)
(* which outlives the page, held when the page was opened: nothing, or the *)
(* canvas of the agent that was open before.  The server is the canvas it  *)
(* has stored, the saves on their way to it, which may overtake one        *)
(* another and may fail, and the rows that handlers of canvas_app.py have  *)
(* read to write them back later.  A fetch reads and answers in one step,  *)
(* and one run and one question are under way at a time, a bound: the page *)
(* does not keep the user from more.  A stream that breaks freezes the     *)
(* page; that is a matter of ChatClient.                                   *)
(***************************************************************************)
EXTENDS Naturals, Sequences, FiniteSets

CONSTANTS MaxCanvas,   \* bound: canvases the user makes are Loaded + 1 .. MaxCanvas
          MaxHistory,  \* HistoryManager.maxSize
          MaxFlight,   \* bound: saves on their way at once
          MaxRows,     \* bound: handlers between reading and writing the row
          Stripped     \* a canvas without its placeholder nodes and their edges

Before == 0
Loaded == 1
Canvas == Before..MaxCanvas

ASSUME PageAssumption ==
  /\ MaxCanvas \in Nat /\ MaxCanvas >= Loaded
  /\ MaxHistory \in Nat \ {0} /\ MaxFlight \in Nat /\ MaxRows \in Nat
  /\ Stripped \in [Canvas -> Canvas] /\ Stripped[Loaded] = Loaded
  /\ \A v \in Canvas : Stripped[Stripped[v]] = Stripped[v]

VARIABLES canvas,    \* what the page shows
          fetched,   \* useFetchAgent has an answer
          loading,  \* useFetchAgent fetches
          touched,   \* the row has changed since the last answer
          history,   \* HistoryManager.history
          index,     \* HistoryManager.currentIndex + 1
          timer,     \* the debounce of useWatchAgentChange is running
          drawer,    \* chatDrawerVisible
          inputs,    \* the Begin component asks for inputs before a run
          flight,    \* saves without an answer, the oldest first
          run,       \* how far the last run came
          ask,       \* the question in the chat that the page waits for
          rows,      \* rows that a handler of the server has read to write back
          saved,     \* what the server has
          orderly,   \* history: no request failed or was ignored, and no older
                     \* canvas was stored late
          skipped    \* history: the timer ran out under the drawer

historyVars == <<history, index>>
fetchVars == <<fetched, loading, touched>>
runVars == <<inputs, run, ask>>
agentPageVars == <<canvas, fetchVars, historyVars, timer, drawer, runVars,
                   flight, rows, saved, orderly, skipped>>

Save == [canvas : Canvas, forRun : BOOLEAN]
Row == [by : {"reset", "setting", "run"}, canvas : Canvas]

PageInit ==
  /\ canvas = Before
  /\ fetched = FALSE /\ loading = TRUE /\ touched = TRUE
  /\ history = <<Before>>
  /\ index = 1
  /\ timer = TRUE
  /\ drawer = FALSE
  /\ inputs \in BOOLEAN
  /\ flight = <<>>
  /\ run = "none" /\ ask = "none"
  /\ rows = {}
  /\ saved = Loaded
  /\ orderly = TRUE /\ skipped = FALSE

-----------------------------------------------------------------------------
(* HistoryManager.                                                         *)

\* Mutant: entries that were undone stay.
PushKeepsUndone(v) ==
  IF v = history[index] THEN UNCHANGED historyVars
  ELSE LET kept == Append(history, v)
       IN  /\ history' = IF Len(kept) > MaxHistory THEN Tail(kept) ELSE kept
           /\ index' = Len(history')

\* Mutant: the limit is missed by one.
PushBeyond(v) ==
  IF v = history[index] THEN UNCHANGED historyVars
  ELSE LET kept == Append(SubSeq(history, 1, index), v)
       IN  /\ history' = IF Len(kept) > MaxHistory + 1 THEN Tail(kept) ELSE kept
           /\ index' = Len(history')

\* push: entries that were undone go, and the oldest one beyond the limit.
Push(v) ==
  IF v = history[index] THEN UNCHANGED historyVars
  ELSE LET kept == Append(SubSeq(history, 1, index), v)
       IN  /\ history' = IF Len(kept) > MaxHistory THEN Tail(kept) ELSE kept
           /\ index' = Len(history')

\* Mutant: the effect of the autosave does not see the change.
ShowUnwatched(v) == canvas' = v /\ skipped' = FALSE /\ UNCHANGED timer

\* A change of nodes or edges: the effects of the history and of the autosave.
Show(v) == canvas' = v /\ timer' = TRUE /\ skipped' = FALSE

\* The user edits: onNodesChange, onConnect and the other setters of the store.
Edit(v) ==
  /\ fetched
  /\ v > Loaded /\ v # canvas
  /\ Show(v)
  /\ Push(v)
  /\ UNCHANGED <<fetchVars, drawer, runVars, flight, rows, saved, orderly>>

\* Ctrl+Z and Ctrl+Shift+Z; the push that follows finds the entry it is at.
Undo ==
  /\ index > 1
  /\ index' = index - 1
  /\ Show(history[index - 1])
  /\ UNCHANGED <<fetchVars, history, drawer, runVars, flight, rows, saved, orderly>>

Redo ==
  /\ index < Len(history)
  /\ index' = index + 1
  /\ Show(history[index + 1])
  /\ UNCHANGED <<fetchVars, history, drawer, runVars, flight, rows, saved, orderly>>

-----------------------------------------------------------------------------
(* Loading and saving.                                                     *)

\* useFetchDataOnMount: an answer that differs from the last one, if only in
\* the time of its update, replaces what is shown, edits included, unless the
\* graph in it is empty, as the one from before the fetch may be.
AgentFetched ==
  /\ loading
  /\ loading' = FALSE /\ fetched' = TRUE /\ touched' = FALSE
  /\ \/ touched /\ Show(saved) /\ Push(saved) /\ UNCHANGED orderly
     \/ /\ touched => saved = Before
        /\ orderly' = (orderly /\ ~touched)
        /\ UNCHANGED <<canvas, timer, skipped, historyVars>>
  /\ UNCHANGED <<drawer, runVars, flight, rows, saved>>

AgentFetchFails ==
  /\ loading
  /\ loading' = FALSE
  /\ orderly' = FALSE
  /\ UNCHANGED <<canvas, fetched, touched, historyVars, timer, drawer, runVars, flight,
                 rows, saved, skipped>>

\* saveGraph sends the canvas that buildDslData makes; without an answer to the
\* fetch it fails before it sends.
SendSave(v, forRun) ==
  /\ Len(flight) < MaxFlight
  /\ flight' = Append(flight, [canvas |-> Stripped[v], forRun |-> forRun])

\* saveAgent, when the twenty seconds are over: not while the drawer is open.
TimerFires ==
  /\ timer
  /\ timer' = FALSE
  /\ IF ~drawer /\ fetched THEN SendSave(canvas, FALSE) ELSE UNCHANGED flight
  /\ skipped' = (skipped \/ drawer)
  /\ UNCHANGED <<canvas, fetchVars, historyVars, drawer, runVars, rows, saved, orderly>>

SaveButton ==
  /\ fetched
  /\ SendSave(canvas, FALSE)
  /\ UNCHANGED <<canvas, fetchVars, historyVars, timer, drawer, runVars, rows, saved,
                 orderly, skipped>>

\* handleRunAgent without inputs: the save that the run waits for.
RunAgent ==
  /\ fetched /\ ~inputs /\ ~drawer /\ run = "none"
  /\ SendSave(canvas, TRUE)
  /\ run' = "saving"
  /\ UNCHANGED <<canvas, fetchVars, historyVars, timer, drawer, inputs, ask, rows, saved,
                 orderly, skipped>>

\* With inputs the drawer opens for their form,
OpenDrawer ==
  /\ fetched /\ inputs /\ ~drawer
  /\ drawer' = TRUE
  /\ UNCHANGED <<canvas, fetchVars, historyVars, timer, runVars, flight, rows, saved,
                 orderly, skipped>>

\* which writes the values into Begin, closes the drawer and runs.
RunFromSheet(v) ==
  /\ drawer /\ inputs /\ run = "none"
  /\ v > Loaded \/ v = canvas
  /\ Show(v)
  /\ Push(v)
  /\ SendSave(v, TRUE)
  /\ run' = "saving"
  /\ drawer' = FALSE
  /\ UNCHANGED <<fetchVars, inputs, ask, rows, saved, orderly>>

CloseDrawer ==
  /\ drawer \/ run = "shown"
  /\ drawer' = FALSE
  /\ run' = IF run = "shown" THEN "none" ELSE run
  /\ UNCHANGED <<canvas, fetchVars, historyVars, timer, inputs, ask, flight, rows, saved,
                 orderly, skipped>>

Dropped(s, i) == SubSeq(s, 1, i - 1) \o SubSeq(s, i + 1, Len(s))

\* The server stores the i-th save on its way and answers with code 0.
SaveStored(i) ==
  /\ i \in DOMAIN flight
  /\ saved' = flight[i].canvas
  /\ touched' = TRUE
  /\ flight' = Dropped(flight, i)
  /\ orderly' = (orderly /\ i = 1)
  /\ run' = IF flight[i].forRun THEN "resetting" ELSE run
  /\ UNCHANGED <<canvas, fetched, loading, historyVars, timer, drawer, inputs, ask, rows,
                 skipped>>

\* It refuses the save, or the request fails.
SaveFails(i) ==
  /\ i \in DOMAIN flight
  /\ flight' = Dropped(flight, i)
  /\ orderly' = FALSE
  /\ run' = IF flight[i].forRun THEN "none" ELSE run
  /\ UNCHANGED <<canvas, fetchVars, historyVars, timer, drawer, inputs, ask, rows, saved,
                 skipped>>

-----------------------------------------------------------------------------
(* Handlers that read the row and write all of it back.                    *)

ReadRow(by) ==
  /\ Cardinality(rows) < MaxRows /\ \A r \in rows : r.by # by
  /\ rows' = rows \cup {[by |-> by, canvas |-> saved]}

WriteRow(r) ==
  /\ rows' = rows \ {r}
  /\ saved' = r.canvas
  /\ touched' = TRUE

\* reset, for the run whose save was stored.
ResetReads ==
  /\ run = "resetting"
  /\ ReadRow("reset")
  /\ UNCHANGED <<canvas, fetchVars, historyVars, timer, drawer, runVars, flight, saved,
                 orderly, skipped>>

\* With code 0 the chat opens, which after the form of the inputs does not
\* count as the drawer.
ResetAnswers(r) ==
  /\ r \in rows /\ r.by = "reset"
  /\ WriteRow(r)
  /\ orderly' = (orderly /\ r.canvas = saved)
  /\ run' = "shown"
  /\ drawer' = (drawer \/ ~inputs)
  /\ UNCHANGED <<canvas, fetched, loading, historyVars, timer, inputs, ask, flight, skipped>>

\* A reset or a setting that fails.
RowGivenUp(r) ==
  /\ r \in rows /\ r.by # "run"
  /\ rows' = rows \ {r}
  /\ run' = IF r.by = "reset" THEN "none" ELSE run
  /\ UNCHANGED <<canvas, fetchVars, historyVars, timer, drawer, inputs, ask, flight, saved,
                 orderly, skipped>>

\* The dialog for title, avatar and description is saved.
SaveSetting ==
  /\ fetched
  /\ ReadRow("setting")
  /\ UNCHANGED <<canvas, fetchVars, historyVars, timer, drawer, runVars, flight, saved,
                 orderly, skipped>>

\* useSetAgentSetting then fetches the agent.
SettingAnswers(r) ==
  /\ r \in rows /\ r.by = "setting"
  /\ WriteRow(r)
  /\ loading' = TRUE
  /\ UNCHANGED <<canvas, fetched, historyVars, timer, drawer, runVars, flight, orderly,
                 skipped>>

\* A question is asked in the chat: completion reads the agent it runs.
Ask ==
  /\ run = "shown" /\ ask = "none"
  /\ ReadRow("run")
  /\ ask' = "asked"
  /\ UNCHANGED <<canvas, fetchVars, historyVars, timer, drawer, inputs, run, flight, saved,
                 orderly, skipped>>

Heard == ask' = IF ask = "asked" THEN "answered" ELSE ask

\* The run has yielded its last event and stores the agent, also when the page
\* has just stopped to listen.
RunStores(r) ==
  /\ r \in rows /\ r.by = "run"
  /\ WriteRow(r)
  /\ Heard
  /\ orderly' = (orderly /\ (ask = "asked" \/ r.canvas = saved))
  /\ UNCHANGED <<canvas, fetched, loading, historyVars, timer, drawer, inputs, run, flight,
                 skipped>>

\* It raises, or the server sees that nobody listens.
RunFails(r) ==
  /\ r \in rows /\ r.by = "run"
  /\ rows' = rows \ {r}
  /\ Heard
  /\ UNCHANGED <<canvas, fetchVars, historyVars, timer, drawer, inputs, run, flight, saved,
                 orderly, skipped>>

\* Mutant: nothing is fetched after an answer.
AnswerEndsQuietly ==
  /\ ask = "answered"
  /\ ask' = "none"
  /\ UNCHANGED <<canvas, fetchVars, historyVars, timer, drawer, inputs, run,
                 flight, rows, saved, orderly, skipped>>

\* sendMessage: the end of send, also after the chat was closed.
AnswerEnds ==
  /\ ask = "answered"
  /\ ask' = "none"
  /\ loading' = TRUE
  /\ UNCHANGED <<canvas, fetched, touched, historyVars, timer, drawer, inputs, run, flight,
                 rows, saved, orderly, skipped>>

\* stopOutputMessage, or the request fails: send ends before the run does.
AnswerStops ==
  /\ ask = "asked"
  /\ ask' = "none"
  /\ loading' = TRUE
  /\ UNCHANGED <<canvas, fetched, touched, historyVars, timer, drawer, inputs, run, flight,
                 rows, saved, orderly, skipped>>

-----------------------------------------------------------------------------
PageUser ==
  \/ \E v \in Canvas : Edit(v) \/ RunFromSheet(v)
  \/ Undo \/ Redo \/ SaveButton \/ RunAgent \/ OpenDrawer \/ CloseDrawer
  \/ SaveSetting \/ Ask \/ AnswerStops
Answered == \E i \in 1..MaxFlight : SaveStored(i) \/ SaveFails(i)
FetchAnswered == AgentFetched \/ AgentFetchFails
RowWritten ==
  \E r \in rows : \/ ResetAnswers(r) \/ SettingAnswers(r) \/ RowGivenUp(r)
                  \/ RunStores(r) \/ RunFails(r)

PageNext ==
  \/ PageUser \/ FetchAnswered \/ TimerFires
  \/ Answered \/ ResetReads \/ RowWritten \/ AnswerEnds

PageSpec == PageInit /\ [][PageNext]_agentPageVars

\* A fetch is answered, a quiet time of twenty seconds comes, the server
\* answers every save, and the end of an answer is read.
PageFairness ==
  /\ WF_agentPageVars(FetchAnswered)
  /\ WF_agentPageVars(TimerFires)
  /\ WF_agentPageVars(Answered)
  /\ WF_agentPageVars(AnswerEnds)

-----------------------------------------------------------------------------
(* Properties.                                                             *)

PageTypeOK ==
  /\ canvas \in Canvas /\ saved \in Canvas
  /\ {fetched, loading, touched, timer, drawer, inputs, orderly, skipped} \subseteq BOOLEAN
  /\ history \in Seq(Canvas)
  /\ Len(history) \in 1..MaxHistory /\ index \in 1..Len(history)
  /\ flight \in Seq(Save) /\ Len(flight) <= MaxFlight
  /\ run \in {"none", "saving", "resetting", "shown"}
  /\ ask \in {"none", "asked", "answered"}
  /\ rows \subseteq Row

\* The array and the index of HistoryManager, with a push that follows every
\* change of the store, also the changes undo and redo make themselves, are
\* the two stacks of UndoStack with the canvas that is shown between them.
Undos == INSTANCE UndoStack WITH
           Canvases <- Canvas, MaxSize <- MaxHistory,
           past <- SubSeq(history, 1, index - 1),
           now <- canvas,
           future <- SubSeq(history, index + 1, Len(history))
ImplementsUndoStack == Undos!Spec

\* A canvas that stays comes to be stored, up to its placeholders, whether it
\* was drawn, undone or fetched, unless a save fails or is overtaken by an older one, or the timer
\* runs out while the chat drawer is open.
SavedWhenQuiet ==
  \A v \in Canvas :
    (fetched /\ canvas = v /\ orderly /\ ~skipped)
      ~> (saved = Stripped[v] \/ canvas # v \/ ~orderly \/ skipped)

\* When nothing is pending, what the page shows is what the server has, up to
\* placeholders that are still shown: with
\* the rows of runs, resets and settings written over the saves of the page,
\* a fetch or an autosave still brings the two together, unless a request has
\* failed, an older canvas was stored when the page no longer listened, the
\* autosave was skipped, or the graph that was fetched was empty.
AgreesAtRest ==
  (/\ fetched /\ ~loading /\ ~timer /\ ~skipped /\ orderly
   /\ flight = <<>> /\ rows = {} /\ ask = "none")
    => saved = Stripped[canvas]
=============================================================================
