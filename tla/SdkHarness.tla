----------------------------- MODULE SdkHarness -----------------------------
(***************************************************************************)
(* The two adapters whose SDK owns the loop and calls back into the        *)
(* environment: harnesses/openai-agents/index.ts with the tool queue of    *)
(* execEngine.ts, and harnesses/claude-agent-sdk/index.ts.                 *)
(***************************************************************************)
EXTENDS HarnessRuntime

OpenAi == Is("openai-agents")
Claude == Is("claude-agent-sdk")

Tool == {"expose_port", "other"}
-----------------------------------------------------------------------------
(* Credentials, client, agent; run() gets the signal itself, so that an    *)
(* early abort is heard too.                                               *)
OpenAiStart ==
    /\ OpenAi /\ step = "called"
    /\ \/ /\ step' = "looping"
          /\ listening' = TRUE
          /\ heard' = aborted
          /\ UNCHANGED <<adapter, aborted, cutShort, terminal, previewVars, tools, prompt>>
       \/ Leave(ThrownCause)
    /\ UNCHANGED usageVars

(* A model response: its usage is read at the end only (sumUsage).         *)
OpenAiResponse(tokens) ==
    /\ OpenAi /\ step = "looping"
    /\ reported + tokens <= MaxTokens
    /\ reported' = reported + tokens
    /\ UNCHANGED <<adapter, step, cancelVars, terminal, meter, billed, previewVars, tools, prompt>>

(* executeTool: appended to the environment's promise queue.               *)
OpenAiCallTool(tool) ==
    /\ OpenAi /\ step = "looping"
    /\ Len(tools) < MaxTools
    /\ tools' = Append(tools, tool)
    /\ UNCHANGED <<adapter, step, cancelVars, terminal, usageVars, previewVars, prompt>>

(* executeToolNow never throws.  What was queued runs, even when the run   *)
(* was aborted or is over.                                                 *)
ToolDone(ok) ==
    /\ OpenAi /\ tools # <<>>
    /\ exposed' = (exposed \/ (ok /\ Head(tools) = "expose_port"))
    /\ tools' = Tail(tools)
    /\ UNCHANGED <<adapter, step, cancelVars, terminal, usageVars, captured, attempted, prompt>>

(* The stream ends, or the loop is left at the next event of an aborted    *)
(* run; then stream.completed is awaited.                                  *)
OpenAiLoopEnds ==
    /\ OpenAi /\ Step("looping", "draining")
    /\ tools = <<>> \/ aborted
    /\ UNCHANGED <<adapter, cancelVars, terminal, usageVars, previewVars, tools, prompt>>

(* An aborted run is cancelled, one without a preview is an error.         *)
OpenAiVerdict ==
    CASE aborted -> "cancelled"
      [] ~aborted /\ exposed -> "done"
      [] OTHER -> "error"

OpenAiCompletes ==
    /\ OpenAi /\ step = "draining"
    /\ billed' = IF aborted THEN billed ELSE billed + reported
    /\ Leave(OpenAiVerdict)
    /\ UNCHANGED <<reported, meter>>

OpenAiThrows ==
    /\ OpenAi /\ step \in {"looping", "draining"}
    /\ Leave(ThrownCause)
    /\ UNCHANGED usageVars
-----------------------------------------------------------------------------
(* Unconfigured settles in place, a missing SDK is caught; the abort       *)
(* listener is added to a query that has been started.                     *)
ClaudeStart ==
    /\ Claude /\ step = "called"
    /\ \/ /\ step' = "looping"
          /\ listening' = TRUE
          /\ UNCHANGED <<adapter, aborted, heard, cutShort, terminal, previewVars, tools, prompt>>
       \/ \E cause \in {"error", ThrownCause} : Leave(cause)
    /\ UNCHANGED usageVars

Meter(tokens) == meter' = meter + tokens

(* An assistant message brings its own usage.                              *)
ClaudeMessage(tokens) ==
    /\ Claude /\ step = "looping" /\ ~aborted
    /\ reported + tokens <= MaxTokens
    /\ reported' = reported + tokens
    /\ Meter(tokens)
    /\ UNCHANGED <<adapter, step, cancelVars, terminal, billed, previewVars, tools, prompt>>

(* The result brings the usage of the whole query, or none.  It is metered *)
(* on top of that of the messages, although it includes them.              *)
ClaudeTotals(total) ==
    /\ Claude /\ step = "looping" /\ ~aborted
    /\ total = 0 \/ total >= reported
    /\ reported' = Larger(reported, total)
    /\ Meter(total)

ClaudeResult(total) ==
    /\ ClaudeTotals(total)
    /\ step' = "draining"
    /\ UNCHANGED <<adapter, cancelVars, terminal, billed, previewVars, tools, prompt>>

(* A result with is_error returns before the usage is emitted.             *)
ClaudeResultError(total) ==
    /\ ClaudeTotals(total)
    /\ Leave("error")
    /\ UNCHANGED billed

ClaudeOpen == Claude /\ step \in {"looping", "draining"}

(* Any message of an aborted run leaves at once: nothing is charged.       *)
ClaudeStops ==
    /\ ClaudeOpen /\ aborted
    /\ Leave("cancelled")
    /\ UNCHANGED usageVars

ClaudeEnds ==
    /\ ClaudeOpen
    /\ billed' = billed + meter
    /\ Leave(EndedCause)
    /\ UNCHANGED <<reported, meter>>

(* An aborted run is cancelled, and so is one whose SDK throws an          *)
(* AbortError of its own: neither is charged.                              *)
ClaudeThrows(abortError) ==
    /\ ClaudeOpen
    /\ billed' = IF aborted \/ abortError THEN billed ELSE billed + meter
    /\ Leave(IF abortError THEN "cancelled" ELSE ThrownCause)
    /\ UNCHANGED <<reported, meter>>
-----------------------------------------------------------------------------
SdkNext ==
    \/ OpenAiStart
    \/ \E tokens \in 1..MaxTokens : OpenAiResponse(tokens) \/ ClaudeMessage(tokens)
    \/ \E total \in 0..MaxTokens : ClaudeResult(total) \/ ClaudeResultError(total)
    \/ \E tool \in Tool : OpenAiCallTool(tool)
    \/ \E ok \in BOOLEAN : ToolDone(ok)
    \/ OpenAiLoopEnds
    \/ OpenAiCompletes
    \/ OpenAiThrows
    \/ ClaudeStart
    \/ ClaudeStops
    \/ ClaudeEnds
    \/ \E abortError \in BOOLEAN : ClaudeThrows(abortError)

(* Both SDKs end a run whose signal they heard.                            *)
SdkFairness ==
    /\ WF_vars(heard /\ (OpenAiLoopEnds \/ (step = "looping" /\ OpenAiThrows)))
    /\ WF_vars(OpenAiCompletes \/ (step = "draining" /\ OpenAiThrows))
    /\ WF_vars(heard /\ (ClaudeStops \/ ClaudeEnds \/ \E abortError \in BOOLEAN : ClaudeThrows(abortError)))
=============================================================================
