--------------------------- MODULE OpenCodeHarness ---------------------------
(***************************************************************************)
(* harnesses/opencode/index.ts: an `opencode serve` inside the environment *)
(* is prompted over HTTP and answers on one event stream, which also       *)
(* carries the events of everybody else.  The loop over the stream looks   *)
(* at the verdict and at the signal only when an event arrives.            *)
(***************************************************************************)
EXTENDS HarnessRuntime

OpenCode == Is("opencode")

(* run() starts by wiring the signal to its own AbortController.           *)
OpenCodeEnter ==
    /\ OpenCode /\ Step("called", "serving")
    /\ listening' = TRUE
    /\ UNCHANGED <<adapter, aborted, heard, cutShort, terminal, usageVars, previewVars, tools, prompt>>

OpenCodeAborted == heard

(* CLI preflight, server, port, subscription, session (retried up to four  *)
(* times): each is awaited and any of them may throw.                      *)
OpenCodeThrows ==
    /\ OpenCode /\ step \in {"serving", "streaming"}
    /\ Leave(IF OpenCodeAborted THEN "cancelled" ELSE "error")
    /\ UNCHANGED usageVars

OpenCodePrompt ==
    /\ OpenCode /\ Step("serving", "streaming")
    /\ prompt' = "sent"
    /\ UNCHANGED <<adapter, cancelVars, terminal, usageVars, previewVars, tools>>

(* The dispatch is not awaited.  The call may reject; the generated SDK    *)
(* mostly resolves to {error} instead (index.ts:81), which nobody reads.   *)
OpenCodeDispatch(outcome) ==
    /\ OpenCode /\ prompt = "sent"
    /\ prompt' = outcome
    /\ IF outcome = "rejected" /\ ~OpenCodeAborted THEN Settle("error") ELSE UNCHANGED terminal
    /\ UNCHANGED <<adapter, step, cancelVars, usageVars, previewVars, tools>>

(* Any event: the loop is left if the run was settled or aborted.          *)
OpenCodeStop ==
    /\ OpenCode /\ step = "streaming"
    /\ Settled \/ OpenCodeAborted
    /\ Leave(IF OpenCodeAborted THEN "cancelled" ELSE "done")
    /\ UNCHANGED usageVars

OpenCodeReads == OpenCode /\ step = "streaming" /\ ~Settled /\ ~OpenCodeAborted

(* message.updated, perhaps with the provider's error.                     *)
OpenCodeUsage(total, failed) ==
    /\ OpenCodeReads
    /\ reported' = Larger(reported, total)
    /\ ObserveCumulative(total)
    /\ IF failed THEN Settle("error") ELSE UNCHANGED terminal
    /\ UNCHANGED <<adapter, step, cancelVars, previewVars, tools, prompt>>

(* session.error and session.idle settle; the loop waits for one more      *)
(* event before it is left.                                                *)
OpenCodeSettle(cause) ==
    /\ OpenCodeReads
    /\ Settle(cause)
    /\ UNCHANGED <<adapter, step, cancelVars, usageVars, previewVars, tools, prompt>>

OpenCodeStreamEnds ==
    /\ OpenCode /\ step = "streaming"
    /\ Leave(IF OpenCodeAborted THEN "cancelled" ELSE "done")
    /\ UNCHANGED usageVars

OpenCodeNext ==
    \/ OpenCodeEnter
    \/ OpenCodeThrows
    \/ OpenCodePrompt
    \/ \E outcome \in {"accepted", "rejected", "refused"} : OpenCodeDispatch(outcome)
    \/ OpenCodeStop
    \/ \E total \in 0..MaxTokens, failed \in BOOLEAN : OpenCodeUsage(total, failed)
    \/ \E cause \in {"done", "error"} : OpenCodeSettle(cause)
    \/ OpenCodeStreamEnds

(* An aborted subscription ends its stream; a request is answered; and a   *)
(* server that accepted a prompt ends its turn.                            *)
OpenCodeFairness ==
    /\ WF_vars(heard /\ (OpenCodeStreamEnds \/ (step = "streaming" /\ OpenCodeThrows)))
    /\ WF_vars(\E outcome \in {"accepted", "rejected", "refused"} : OpenCodeDispatch(outcome))
    /\ WF_vars(prompt = "accepted" /\ \E cause \in {"done", "error"} : OpenCodeSettle(cause))
=============================================================================
