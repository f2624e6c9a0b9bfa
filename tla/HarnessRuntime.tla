--------------------------- MODULE HarnessRuntime ---------------------------
(***************************************************************************)
(* What the harness adapters share (harnesses/_shared/harnessRuntime.ts):  *)
(* the exactly-once settler, the usage meters, and the run's abort signal. *)
(* One run of one adapter.  The adapter's SDK is the environment: it emits *)
(* what it likes, and stops for sure only when it was told to.             *)
(***************************************************************************)
EXTENDS Naturals, Sequences

CONSTANTS
    MaxTokens,  \* bound: the usage a provider reports for one run
    MaxTools,   \* bound: tool calls of one run
    None

Cause == {"done", "error", "cancelled"}

ASSUME HarnessAssumption == MaxTokens \in Nat /\ MaxTools \in Nat /\ None \notin Cause

VARIABLES
    adapter,    \* the harness the run was given to
    step,       \* the await run() is at
    aborted,    \* task.signal.aborted
    listening,  \* the signal is wired to the SDK
    heard,      \* the SDK was told to stop
    cutShort,   \* history: the signal fired while the SDK worked
    terminal,   \* the settler: None, or the cause emitted
    reported,   \* history: the run's usage as the provider told it
    meter,      \* the adapter's running total
    billed,     \* sum of the usage_delta events
    exposed,    \* the adapter noted a live preview
    captured,   \* the adapter noted a durable snapshot
    attempted,  \* history: somebody tried to capture a snapshot
    tools,      \* the tool calls queued on the environment, the first one runs
    prompt      \* how the prompt went: to OpenCode when dispatched, to PI when awaited

cancelVars == <<aborted, listening, heard, cutShort>>
usageVars == <<reported, meter, billed>>
previewVars == <<exposed, captured, attempted>>
vars == <<adapter, step, cancelVars, terminal, usageVars, previewVars, tools, prompt>>

(* The client may have left before the harness was called.                 *)
Init ==
    /\ adapter \in {"pi", "opencode", "openai-agents", "claude-agent-sdk"}
    /\ step = "called"
    /\ aborted \in BOOLEAN
    /\ listening = FALSE /\ heard = FALSE /\ cutShort = FALSE
    /\ terminal = None
    /\ reported = 0 /\ meter = 0 /\ billed = 0
    /\ exposed = FALSE /\ captured = FALSE /\ attempted = FALSE
    /\ tools = <<>>
    /\ prompt = "unsent"
-----------------------------------------------------------------------------
Is(name) == adapter = name
Step(from, to) == step = from /\ step' = to
Settled == terminal # None

Settle_LastWins(cause) == terminal' = cause

(* createSettler: the first cause wins.                                    *)
Settle(cause) == terminal' = IF Settled THEN terminal ELSE cause

ThrownCause == IF aborted THEN "cancelled" ELSE "error"
EndedCause == IF aborted THEN "cancelled" ELSE "done"

(* run() is over, its finally included.                                    *)
LeaveFrom(cause) ==
    /\ Settle(cause)
    /\ step' = "returned"
    /\ UNCHANGED <<adapter, cancelVars, previewVars, tools>>

Leave(cause) == LeaveFrom(cause) /\ UNCHANGED prompt

Larger(a, b) == IF a >= b THEN a ELSE b

ObserveCumulative_Adds(total) == billed' = billed + total /\ meter' = Larger(meter, total)

(* A running total: what is above the last reading is charged.             *)
ObserveCumulative(total) ==
    /\ billed' = billed + (Larger(meter, total) - meter)
    /\ meter' = Larger(meter, total)

Working == {"prompting", "streaming", "looping", "draining"}

(* The run's signal fires.  A listener that is added later never hears it. *)
Abort ==
    /\ ~aborted
    /\ step # "returned"
    /\ aborted' = TRUE
    /\ heard' = listening
    /\ cutShort' = (step \in Working)
    /\ UNCHANGED <<adapter, step, listening, terminal, usageVars, previewVars, tools, prompt>>
=============================================================================
