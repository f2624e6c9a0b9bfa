------------------------------ MODULE PiHarness ------------------------------
(***************************************************************************)
(* harnesses/pi/index.ts: PI's agent loop runs in the kernel's process and *)
(* reports through a subscription; prompt() resolves when it is over.      *)
(***************************************************************************)
EXTENDS HarnessRuntime

Pi == Is("pi")

(* Scratch directory and SDK import; a missing SDK settles the run.        *)
PiSetup ==
    /\ Pi
    /\ \/ /\ Step("called", "creating")
          /\ UNCHANGED <<adapter, cancelVars, terminal, previewVars, tools, prompt>>
       \/ /\ step = "called"
          /\ \E cause \in {"error", ThrownCause} : Leave(cause)
    /\ UNCHANGED usageVars

PiCreate_NoListener ==
    /\ Pi /\ step = "creating"
    /\ \/ /\ step' = "prompting"
          /\ UNCHANGED <<adapter, cancelVars, terminal, previewVars, tools, prompt>>
       \/ Leave(ThrownCause)
    /\ UNCHANGED usageVars

(* createAgentSession; the abort listener is added only when it is there.  *)
PiCreate ==
    /\ Pi /\ step = "creating"
    /\ \/ /\ step' = "prompting"
          /\ listening' = TRUE
          /\ UNCHANGED <<adapter, aborted, heard, cutShort, terminal, previewVars, tools, prompt>>
       \/ Leave(ThrownCause)
    /\ UNCHANGED usageVars

(* The subscription drops whatever comes after the verdict.                *)
PiListens == Pi /\ step = "prompting" /\ ~Settled

(* message_update                                                          *)
PiUsage(total) ==
    /\ PiListens
    /\ reported' = Larger(reported, total)
    /\ ObserveCumulative(total)
    /\ UNCHANGED <<adapter, step, cancelVars, terminal, previewVars, tools, prompt>>

(* tool_execution_end of expose_port, and of snapshot_preview.             *)
PiExposed ==
    /\ PiListens
    /\ exposed' = TRUE
    /\ UNCHANGED <<adapter, step, cancelVars, terminal, usageVars, captured, attempted, tools, prompt>>

PiSnapshot(ok) ==
    /\ PiListens
    /\ captured' = (captured \/ ok)
    /\ attempted' = TRUE
    /\ UNCHANGED <<adapter, step, cancelVars, terminal, usageVars, exposed, tools, prompt>>

(* agent_end: the last message's usage, then the verdict.  The meter is    *)
(* not moved: nothing is charged after it.                                 *)
PiAgentEnd(total) ==
    /\ PiListens
    /\ reported' = Larger(reported, total)
    /\ billed' = billed + (Larger(meter, total) - meter)
    /\ Settle("done")
    /\ UNCHANGED <<adapter, step, cancelVars, meter, previewVars, tools, prompt>>

PiPromptThrows ==
    /\ Pi /\ step = "prompting"
    /\ LeaveFrom(ThrownCause)
    /\ prompt' = "rejected"
    /\ UNCHANGED usageVars

NeedsSnapshot_IfSilent == exposed /\ ~captured /\ ~Settled

NeedsSnapshot == exposed /\ ~captured /\ ~aborted

(* prompt() resolved: unsubscribe, then the safety-net snapshot if it is   *)
(* wanted, else the verdict if agent_end did not give it.                  *)
PiPromptEnds ==
    /\ Pi /\ step = "prompting"
    /\ \/ /\ NeedsSnapshot
          /\ step' = "capturing"
          /\ attempted' = TRUE
          /\ UNCHANGED <<adapter, cancelVars, terminal, exposed, captured, tools, prompt>>
       \/ /\ ~NeedsSnapshot
          /\ Leave(EndedCause)
    /\ UNCHANGED usageVars

(* autoCaptureStaticSnapshot: its failures are logged.                     *)
PiCaptured ==
    /\ Pi /\ step = "capturing"
    /\ Leave(EndedCause)
    /\ UNCHANGED usageVars

PiNext ==
    \/ PiSetup
    \/ PiCreate
    \/ \E total \in 0..MaxTokens : PiUsage(total) \/ PiAgentEnd(total)
    \/ PiExposed
    \/ \E ok \in BOOLEAN : PiSnapshot(ok)
    \/ PiPromptThrows
    \/ PiPromptEnds
    \/ PiCaptured

(* session.abort() ends the prompt; the capture's commands have timeouts.  *)
PiFairness ==
    /\ WF_vars(heard /\ (PiPromptEnds \/ PiPromptThrows))
    /\ WF_vars(PiCaptured)
=============================================================================
