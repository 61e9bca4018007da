------------------------------- MODULE WorkPools -------------------------------
(***************************************************************************)
(* Three services that share a few workers among many requests: the        *)
(* containers of the code sandbox (SandboxPool), the event loop of an MCP  *)
(* session (McpSession) and the threads of the extraction service          *)
(* (ExtractionService).  They run in processes of their own and share no   *)
(* variable; a behaviour is about one of them.                             *)
(***************************************************************************)
EXTENDS SandboxPool, McpSession, ExtractionService

VARIABLE service

poolVars == <<service, sandboxVars, mcpVars, extractionVars>>

InSandbox == service = "sandbox" /\ UNCHANGED <<service, mcpVars, extractionVars>>
InMcp == service = "mcp" /\ UNCHANGED <<service, sandboxVars, extractionVars>>
InExtraction == service = "extraction" /\ UNCHANGED <<service, sandboxVars, mcpVars>>

Init ==
  /\ service \in {"sandbox", "mcp", "extraction"}
  /\ SandboxInit /\ McpInit /\ ExtractionInit
  /\ service # "sandbox" => pool = <<>> /\ alive = {}
  /\ service # "extraction" => need = CHOOSE text \in Texts : TRUE

Next ==
  \/ InSandbox /\ SandboxNext
  \/ InMcp /\ McpNext
  \/ InExtraction /\ ExtractionNext

Spec == Init /\ [][Next]_poolVars

\* The fairness of each service.
Fairness ==
  /\ \A r \in Requests : WF_poolVars(InSandbox /\ Proceed(r))
  /\ \A c \in Calls : WF_poolVars(InMcp /\ OuterTimeout(c))
  /\ WF_poolVars(InMcp /\ (LoopStops \/ \E k \in Closers : Joined(k)))
  /\ \A t \in Extractions : WF_poolVars(InExtraction /\ TimerFires(t))

FairSpec == Spec /\ Fairness
=============================================================================
