------------------------------- MODULE WebClient -------------------------------
(***************************************************************************)
(* The parts of the web client side by side: the graph of the agent editor *)
(* (AgentGraph), the page around it (AgentPage, for which that graph is    *)
(* one value), the test run of a pipeline (PipelineRun), the chat          *)
(* (ChatClient) and the generate button of a dataset (KbGenerate).  A      *)
(* behaviour is about one part, of the page that is open                   *)
(* (web/src/routes.ts): the parts share no variable, so that checking them *)
(* one at a time is checking them together.                                *)
(***************************************************************************)
EXTENDS AgentGraph, AgentPage, PipelineRun, ChatClient, KbGenerate

CONSTANT Parts   \* the parts that are checked

ASSUME PartsAssumption == Parts \subseteq {"graph", "editor", "pipeline", "chat", "dataset"}

VARIABLE part

webVars == <<part, graphVars, agentPageVars, pipelineVars, chatVars, kbVars>>

Init ==
  /\ part \in Parts
  /\ GraphInit /\ PageInit /\ PipelineInit /\ ChatInit /\ KbInit
  /\ part # "graph" => toolbox = CHOOSE box \in Toolboxes : TRUE
  /\ part # "editor" => inputs = FALSE

InGraph ==
  part = "graph" /\ UNCHANGED <<part, agentPageVars, pipelineVars, chatVars, kbVars>>
InEditor ==
  part = "editor" /\ UNCHANGED <<part, graphVars, pipelineVars, chatVars, kbVars>>
InPipeline ==
  part = "pipeline" /\ UNCHANGED <<part, graphVars, agentPageVars, chatVars, kbVars>>
InChat ==
  part = "chat" /\ UNCHANGED <<part, graphVars, agentPageVars, pipelineVars, kbVars>>
InDataset ==
  part = "dataset" /\ UNCHANGED <<part, graphVars, agentPageVars, pipelineVars, chatVars>>

Next ==
  \/ InGraph /\ GraphNext
  \/ InEditor /\ PageNext
  \/ InPipeline /\ PipelineNext
  \/ InChat /\ ChatNext
  \/ InDataset /\ KbNext

Spec == Init /\ [][Next]_webVars

\* The fairness of each part; actions that are never enabled together share a
\* condition. Only of the editor can one be enabled before anything was done,
\* so only there is the part named.
Fairness ==
  /\ WF_agentPageVars(part = "editor" /\ FetchAnswered)
  /\ WF_agentPageVars(part = "editor" /\ TimerFires)
  /\ WF_agentPageVars(part = "editor" /\ Answered)
  /\ WF_agentPageVars(part = "editor" /\ AnswerEnds)
  /\ WF_pipelineVars(LogFetched \/ PollLog)
  /\ \A t \in PipelineRuns : WF_pipelineVars(Collected(t) \/ RunEnds(t))
  /\ ChatFairness
  /\ WF_kbVars(TraceFetched \/ Poll)
  /\ WF_kbVars(\E u \in unbinds : UnbindStep(u))
  /\ \A t \in Tasks : WF_kbVars(Begins(t) \/ GivesUp(t) \/ \E ok \in BOOLEAN : Ends(t, ok))

FairSpec == Spec /\ Fairness

\* Every variable of every page keeps its type; the histories stay within their
\* bounds, such as the undo history within maxSize.
TypeOK == GraphTypeOK /\ PageTypeOK /\ PipelineTypeOK /\ ChatTypeOK /\ KbTypeOK
=============================================================================
