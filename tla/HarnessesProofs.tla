--------------------------- MODULE HarnessesProofs ---------------------------
(***************************************************************************)
(* Proofs about module Harnesses, for any usage and any number of tools.   *)
(*                                                                         *)
(* What makes the properties inductive is where each adapter's money is:   *)
(* PI and OpenCode bill every reading as it comes, the two SDK adapters    *)
(* hold everything back until run() returns.                               *)
(***************************************************************************)
EXTENDS Harnesses, TLAPS

Steps == {"called", "creating", "prompting", "capturing", "serving", "streaming",
          "looping", "draining", "returned"}

HTypeOK ==
    /\ adapter \in {"pi", "opencode", "openai-agents", "claude-agent-sdk"}
    /\ step \in Steps
    /\ aborted \in BOOLEAN /\ listening \in BOOLEAN /\ heard \in BOOLEAN
    /\ exposed \in BOOLEAN /\ captured \in BOOLEAN /\ attempted \in BOOLEAN
    /\ terminal \in Cause \cup {None}
    /\ reported \in 0..MaxTokens /\ meter \in Nat /\ billed \in Nat

(* A run that has returned has its verdict, and only a signal that fired   *)
(* was heard.                                                              *)
VerdictInv ==
    /\ step = "returned" => Settled
    /\ heard => aborted
    /\ (OpenAi \/ Claude) /\ step # "returned" => ~Settled

(* Where the usage is that was reported.                                   *)
BillInv ==
    /\ Pi \/ OpenCode => billed = reported
    /\ OpenCode \/ (Pi /\ ~Settled) => meter = billed
    /\ Claude => meter >= reported /\ meter <= 2 * reported
    /\ Claude /\ step \in {"called", "looping"} => meter = reported
    /\ OpenAi \/ Claude => (~Settled => billed = 0)
    /\ OpenAi => billed <= reported /\ (terminal = "done" => billed = reported)
    /\ Claude => billed <= meter /\ (terminal = "done" => billed = meter)

(* A snapshot was tried when one was taken, and when the safety net runs;  *)
(* nothing is shown before the prompt.                                     *)
PreviewInv ==
    Pi =>
        /\ captured => attempted
        /\ step \in {"called", "creating"} => ~exposed
        /\ step = "capturing" => attempted
        /\ step = "returned" /\ exposed /\ ~aborted /\ prompt # "rejected" => attempted

HInv == HTypeOK /\ VerdictInv /\ BillInv /\ PreviewInv
-----------------------------------------------------------------------------
LEMMA LargerType ==
    ASSUME NEW a \in Nat, NEW b \in Nat
    PROVE  Larger(a, b) \in {a, b} /\ Larger(a, b) >= a /\ Larger(a, b) >= b
  BY DEF Larger

LEMMA InitHInv == Init => HInv
<1> SUFFICES ASSUME Init PROVE HInv
  OBVIOUS
<1>1. HTypeOK
  <2>1. adapter \in {"pi", "opencode", "openai-agents", "claude-agent-sdk"} /\ aborted \in BOOLEAN
    BY DEF Init
  <2>2. terminal = None /\ step = "called"
    BY DEF Init
  <2>3. reported = 0 /\ meter = 0 /\ billed = 0
    BY DEF Init
  <2>4. /\ listening = FALSE /\ heard = FALSE
        /\ exposed = FALSE /\ captured = FALSE /\ attempted = FALSE
    BY DEF Init
  <2>5. listening \in BOOLEAN /\ heard \in BOOLEAN /\ exposed \in BOOLEAN /\ captured \in BOOLEAN
        /\ attempted \in BOOLEAN
    BY <2>4
  <2>6. reported \in 0..MaxTokens /\ meter \in Nat /\ billed \in Nat
    BY <2>3, HarnessAssumption
  <2>7. terminal \in Cause \cup {None} /\ step \in Steps
    BY <2>2 DEF Steps
  <2> QED
    BY <2>1, <2>5, <2>6, <2>7 DEF HTypeOK
<1>2. VerdictInv
  BY DEF Init, VerdictInv, Settled
<1>3. BillInv
  <2>1. billed = 0 /\ reported = 0 /\ meter = 0
    BY DEF Init
  <2> QED
    BY <2>1 DEF BillInv
<1>4. PreviewInv
  <2>1. step = "called" /\ exposed = FALSE /\ captured = FALSE
    BY DEF Init
  <2> QED
    BY <2>1 DEF PreviewInv
<1> QED
  BY <1>1, <1>2, <1>3, <1>4 DEF HInv

(* Every action preserves the invariant.  What the four adapters have in   *)
(* common is expanded throughout.                                          *)
USE HarnessAssumption DEF Cause, Settled, Pi, OpenCode, OpenAi, Claude, Is, Step, Settle,
    Leave, LeaveFrom, ThrownCause, EndedCause, cancelVars, usageVars, previewVars
USE DEF HInv, HTypeOK, VerdictInv, BillInv, PreviewInv, Steps

LEMMA AbortHInv == ASSUME HInv, Abort
    PROVE  HInv'
  BY DEF Abort

LEMMA PiSetupHInv == ASSUME HInv, PiSetup
    PROVE  HInv'
  BY DEF PiSetup

LEMMA PiCreateHInv == ASSUME HInv, PiCreate
    PROVE  HInv'
<1>1. CASE step' = "prompting"
  BY <1>1 DEF PiCreate
<1>2. CASE Leave(ThrownCause)
  BY <1>2 DEF PiCreate
<1> QED
  BY <1>1, <1>2 DEF PiCreate

LEMMA PiUsageHInv == ASSUME HInv, NEW total \in 0..MaxTokens, PiUsage(total)
    PROVE  HInv'
  BY LargerType DEF PiUsage, PiListens, ObserveCumulative

LEMMA PiExposedHInv == ASSUME HInv, PiExposed
    PROVE  HInv'
  BY DEF PiExposed, PiListens

LEMMA PiSnapshotHInv == ASSUME HInv, NEW ok \in BOOLEAN, PiSnapshot(ok)
    PROVE  HInv'
  BY DEF PiSnapshot, PiListens

LEMMA PiAgentEndHInv == ASSUME HInv, NEW total \in 0..MaxTokens, PiAgentEnd(total)
    PROVE  HInv'
  BY LargerType DEF PiAgentEnd, PiListens

LEMMA PiPromptThrowsHInv == ASSUME HInv, PiPromptThrows
    PROVE  HInv'
  BY DEF PiPromptThrows

LEMMA PiPromptEndsHInv == ASSUME HInv, PiPromptEnds
    PROVE  HInv'
<1>1. CASE NeedsSnapshot /\ step' = "capturing"
  BY <1>1 DEF PiPromptEnds, NeedsSnapshot
<1>2. CASE ~NeedsSnapshot /\ Leave(EndedCause)
  BY <1>2 DEF PiPromptEnds, NeedsSnapshot
<1> QED
  BY <1>1, <1>2 DEF PiPromptEnds, NeedsSnapshot

LEMMA PiCapturedHInv == ASSUME HInv, PiCaptured
    PROVE  HInv'
  BY DEF PiCaptured

LEMMA OpenCodeEnterHInv == ASSUME HInv, OpenCodeEnter
    PROVE  HInv'
  BY DEF OpenCodeEnter

LEMMA OpenCodeThrowsHInv == ASSUME HInv, OpenCodeThrows
    PROVE  HInv'
  BY DEF OpenCodeThrows, OpenCodeAborted

LEMMA OpenCodePromptHInv == ASSUME HInv, OpenCodePrompt
    PROVE  HInv'
  BY DEF OpenCodePrompt

LEMMA OpenCodeDispatchHInv == ASSUME HInv, NEW outcome \in {"accepted", "rejected", "refused"}, OpenCodeDispatch(outcome)
    PROVE  HInv'
  BY DEF OpenCodeDispatch, OpenCodeAborted

LEMMA OpenCodeStopHInv == ASSUME HInv, OpenCodeStop
    PROVE  HInv'
  BY DEF OpenCodeStop, OpenCodeAborted

LEMMA OpenCodeUsageHInv == ASSUME HInv, NEW total \in 0..MaxTokens, NEW failed \in BOOLEAN, OpenCodeUsage(total, failed)
    PROVE  HInv'
  BY LargerType DEF OpenCodeUsage, OpenCodeReads, OpenCodeAborted, ObserveCumulative

LEMMA OpenCodeSettleHInv == ASSUME HInv, NEW cause \in {"done", "error"}, OpenCodeSettle(cause)
    PROVE  HInv'
  BY DEF OpenCodeSettle, OpenCodeReads, OpenCodeAborted

LEMMA OpenCodeStreamEndsHInv == ASSUME HInv, OpenCodeStreamEnds
    PROVE  HInv'
  BY DEF OpenCodeStreamEnds, OpenCodeAborted

LEMMA OpenAiStartHInv == ASSUME HInv, OpenAiStart
    PROVE  HInv'
<1>1. CASE step' = "looping"
  BY <1>1 DEF OpenAiStart
<1>2. CASE Leave(ThrownCause)
  BY <1>2 DEF OpenAiStart
<1> QED
  BY <1>1, <1>2 DEF OpenAiStart

LEMMA OpenAiResponseHInv == ASSUME HInv, NEW tokens \in 1..MaxTokens, OpenAiResponse(tokens)
    PROVE  HInv'
  BY DEF OpenAiResponse

LEMMA OpenAiCallToolHInv == ASSUME HInv, NEW tool \in Tool, OpenAiCallTool(tool)
    PROVE  HInv'
  BY DEF OpenAiCallTool

LEMMA ToolDoneHInv == ASSUME HInv, NEW ok \in BOOLEAN, ToolDone(ok)
    PROVE  HInv'
  BY DEF ToolDone

LEMMA OpenAiLoopEndsHInv == ASSUME HInv, OpenAiLoopEnds
    PROVE  HInv'
  BY DEF OpenAiLoopEnds

LEMMA OpenAiCompletesHInv == ASSUME HInv, OpenAiCompletes
    PROVE  HInv'
  BY DEF OpenAiCompletes, OpenAiVerdict

LEMMA OpenAiThrowsHInv == ASSUME HInv, OpenAiThrows
    PROVE  HInv'
  BY DEF OpenAiThrows

LEMMA ClaudeStartHInv == ASSUME HInv, ClaudeStart
    PROVE  HInv'
<1>1. CASE step' = "looping"
  BY <1>1 DEF ClaudeStart
<1>2. CASE \E cause \in {"error", ThrownCause} : Leave(cause)
  BY <1>2 DEF ClaudeStart
<1> QED
  BY <1>1, <1>2 DEF ClaudeStart

LEMMA ClaudeMessageHInv == ASSUME HInv, NEW tokens \in 1..MaxTokens, ClaudeMessage(tokens)
    PROVE  HInv'
  BY DEF ClaudeMessage, Meter

LEMMA ClaudeStopsHInv == ASSUME HInv, ClaudeStops
    PROVE  HInv'
  BY DEF ClaudeStops, ClaudeOpen

LEMMA ClaudeResultHInv == ASSUME HInv, NEW total \in 0..MaxTokens, ClaudeResult(total)
    PROVE  HInv'
  BY LargerType DEF ClaudeResult, ClaudeTotals, Meter

LEMMA ClaudeResultErrorHInv == ASSUME HInv, NEW total \in 0..MaxTokens, ClaudeResultError(total)
    PROVE  HInv'
  BY LargerType DEF ClaudeResultError, ClaudeTotals, Meter

LEMMA ClaudeEndsHInv == ASSUME HInv, ClaudeEnds
    PROVE  HInv'
  BY DEF ClaudeEnds, ClaudeOpen

LEMMA ClaudeThrowsHInv == ASSUME HInv, NEW abortError \in BOOLEAN, ClaudeThrows(abortError)
    PROVE  HInv'
  BY DEF ClaudeThrows, ClaudeOpen

LEMMA StutterHInv == ASSUME HInv, UNCHANGED vars
    PROVE  HInv'
  BY DEF vars

LEMMA NextHInv == HInv /\ [Next]_vars => HInv'
<1> SUFFICES ASSUME HInv, [Next]_vars PROVE HInv'
  OBVIOUS
<1>1. CASE PiNext
  BY <1>1, PiSetupHInv, PiCreateHInv, PiUsageHInv, PiExposedHInv, PiSnapshotHInv,
     PiAgentEndHInv, PiPromptThrowsHInv, PiPromptEndsHInv, PiCapturedHInv DEF PiNext
<1>2. CASE OpenCodeNext
  BY <1>2, OpenCodeEnterHInv, OpenCodeThrowsHInv, OpenCodePromptHInv,
     OpenCodeDispatchHInv, OpenCodeStopHInv, OpenCodeUsageHInv, OpenCodeSettleHInv,
     OpenCodeStreamEndsHInv DEF OpenCodeNext
<1>3. CASE SdkNext
  BY <1>3, OpenAiStartHInv, OpenAiResponseHInv, OpenAiCallToolHInv, ToolDoneHInv,
     OpenAiLoopEndsHInv, OpenAiCompletesHInv, OpenAiThrowsHInv, ClaudeStartHInv,
     ClaudeMessageHInv, ClaudeResultHInv, ClaudeStopsHInv, ClaudeResultErrorHInv, ClaudeEndsHInv,
     ClaudeThrowsHInv DEF SdkNext
<1> QED
  BY <1>1, <1>2, <1>3, AbortHInv, StutterHInv DEF Next
-----------------------------------------------------------------------------
(* What a step is to the kernel: one action of the contract, or none.      *)
ContractStep == [Contract!Next]_Contract!contractVars

(* The bill never leaves the contract's bound.                             *)
LEMMA BillBound == HInv => billed \in 0..(2 * MaxTokens)
  OBVIOUS

USE DEF ContractStep, Contract!Next, Contract!Cancel, Contract!Charge, Contract!Charges,
    Contract!Decide, Contract!Return, Contract!Cause, Contract!contractVars

LEMMA AbortKeeps == ASSUME HInv, HInv', Abort
    PROVE  ContractStep
  BY BillBound DEF Abort

LEMMA PiSetupKeeps == ASSUME HInv, HInv', PiSetup
    PROVE  ContractStep
  BY BillBound DEF PiSetup

LEMMA PiCreateKeeps == ASSUME HInv, HInv', PiCreate
    PROVE  ContractStep
  BY BillBound DEF PiCreate

LEMMA PiUsageKeeps == ASSUME HInv, HInv', NEW total \in 0..MaxTokens, PiUsage(total)
    PROVE  ContractStep
  BY BillBound, LargerType DEF PiUsage, PiListens, ObserveCumulative

LEMMA PiExposedKeeps == ASSUME HInv, HInv', PiExposed
    PROVE  ContractStep
  BY BillBound DEF PiExposed, PiListens

LEMMA PiSnapshotKeeps == ASSUME HInv, HInv', NEW ok \in BOOLEAN, PiSnapshot(ok)
    PROVE  ContractStep
  BY BillBound DEF PiSnapshot, PiListens

LEMMA PiAgentEndKeeps == ASSUME HInv, HInv', NEW total \in 0..MaxTokens, PiAgentEnd(total)
    PROVE  ContractStep
  BY BillBound, LargerType DEF PiAgentEnd, PiListens

LEMMA PiPromptThrowsKeeps == ASSUME HInv, HInv', PiPromptThrows
    PROVE  ContractStep
  BY BillBound DEF PiPromptThrows

LEMMA PiPromptEndsKeeps == ASSUME HInv, HInv', PiPromptEnds
    PROVE  ContractStep
  BY BillBound DEF PiPromptEnds, NeedsSnapshot

LEMMA PiCapturedKeeps == ASSUME HInv, HInv', PiCaptured
    PROVE  ContractStep
  BY BillBound DEF PiCaptured

LEMMA OpenCodeEnterKeeps == ASSUME HInv, HInv', OpenCodeEnter
    PROVE  ContractStep
  BY BillBound DEF OpenCodeEnter

LEMMA OpenCodeThrowsKeeps == ASSUME HInv, HInv', OpenCodeThrows
    PROVE  ContractStep
  BY BillBound DEF OpenCodeThrows, OpenCodeAborted

LEMMA OpenCodePromptKeeps == ASSUME HInv, HInv', OpenCodePrompt
    PROVE  ContractStep
  BY BillBound DEF OpenCodePrompt

LEMMA OpenCodeDispatchKeeps == ASSUME HInv, HInv', NEW outcome \in {"accepted", "rejected", "refused"}, OpenCodeDispatch(outcome)
    PROVE  ContractStep
  BY BillBound DEF OpenCodeDispatch, OpenCodeAborted

LEMMA OpenCodeStopKeeps == ASSUME HInv, HInv', OpenCodeStop
    PROVE  ContractStep
  BY BillBound DEF OpenCodeStop, OpenCodeAborted

LEMMA OpenCodeUsageKeeps == ASSUME HInv, HInv', NEW total \in 0..MaxTokens, NEW failed \in BOOLEAN, OpenCodeUsage(total, failed)
    PROVE  ContractStep
  BY BillBound, LargerType DEF OpenCodeUsage, OpenCodeReads, OpenCodeAborted, ObserveCumulative

LEMMA OpenCodeSettleKeeps == ASSUME HInv, HInv', NEW cause \in {"done", "error"}, OpenCodeSettle(cause)
    PROVE  ContractStep
  BY BillBound DEF OpenCodeSettle, OpenCodeReads, OpenCodeAborted

LEMMA OpenCodeStreamEndsKeeps == ASSUME HInv, HInv', OpenCodeStreamEnds
    PROVE  ContractStep
  BY BillBound DEF OpenCodeStreamEnds, OpenCodeAborted

LEMMA OpenAiStartKeeps == ASSUME HInv, HInv', OpenAiStart
    PROVE  ContractStep
  BY BillBound DEF OpenAiStart

LEMMA OpenAiResponseKeeps == ASSUME HInv, HInv', NEW tokens \in 1..MaxTokens, OpenAiResponse(tokens)
    PROVE  ContractStep
  BY BillBound DEF OpenAiResponse

LEMMA OpenAiCallToolKeeps == ASSUME HInv, HInv', NEW tool \in Tool, OpenAiCallTool(tool)
    PROVE  ContractStep
  BY BillBound DEF OpenAiCallTool

LEMMA ToolDoneKeeps == ASSUME HInv, HInv', NEW ok \in BOOLEAN, ToolDone(ok)
    PROVE  ContractStep
  BY BillBound DEF ToolDone

LEMMA OpenAiLoopEndsKeeps == ASSUME HInv, HInv', OpenAiLoopEnds
    PROVE  ContractStep
  BY BillBound DEF OpenAiLoopEnds

LEMMA OpenAiCompletesKeeps == ASSUME HInv, HInv', OpenAiCompletes
    PROVE  ContractStep
  BY BillBound DEF OpenAiCompletes, OpenAiVerdict

LEMMA OpenAiThrowsKeeps == ASSUME HInv, HInv', OpenAiThrows
    PROVE  ContractStep
  BY BillBound DEF OpenAiThrows

LEMMA ClaudeStartKeeps == ASSUME HInv, HInv', ClaudeStart
    PROVE  ContractStep
  BY BillBound DEF ClaudeStart

LEMMA ClaudeMessageKeeps == ASSUME HInv, HInv', NEW tokens \in 1..MaxTokens, ClaudeMessage(tokens)
    PROVE  ContractStep
  BY BillBound DEF ClaudeMessage, Meter

LEMMA ClaudeStopsKeeps == ASSUME HInv, HInv', ClaudeStops
    PROVE  ContractStep
  BY BillBound DEF ClaudeStops, ClaudeOpen

LEMMA ClaudeResultKeeps == ASSUME HInv, HInv', NEW total \in 0..MaxTokens, ClaudeResult(total)
    PROVE  ContractStep
  BY BillBound, LargerType DEF ClaudeResult, ClaudeTotals, Meter

LEMMA ClaudeResultErrorKeeps == ASSUME HInv, HInv', NEW total \in 0..MaxTokens, ClaudeResultError(total)
    PROVE  ContractStep
  BY BillBound, LargerType DEF ClaudeResultError, ClaudeTotals, Meter

LEMMA ClaudeEndsKeeps == ASSUME HInv, HInv', ClaudeEnds
    PROVE  ContractStep
  BY BillBound DEF ClaudeEnds, ClaudeOpen

LEMMA ClaudeThrowsKeeps == ASSUME HInv, HInv', NEW abortError \in BOOLEAN, ClaudeThrows(abortError)
    PROVE  ContractStep
  BY BillBound DEF ClaudeThrows, ClaudeOpen

LEMMA NextKeeps == HInv /\ HInv' /\ [Next]_vars => ContractStep
<1> SUFFICES ASSUME HInv, HInv', [Next]_vars PROVE ContractStep
  OBVIOUS
<1>1. CASE PiNext
  BY <1>1, PiSetupKeeps, PiCreateKeeps, PiUsageKeeps, PiExposedKeeps, PiSnapshotKeeps,
     PiAgentEndKeeps, PiPromptThrowsKeeps, PiPromptEndsKeeps, PiCapturedKeeps DEF PiNext
<1>2. CASE OpenCodeNext
  BY <1>2, OpenCodeEnterKeeps, OpenCodeThrowsKeeps, OpenCodePromptKeeps,
     OpenCodeDispatchKeeps, OpenCodeStopKeeps, OpenCodeUsageKeeps, OpenCodeSettleKeeps,
     OpenCodeStreamEndsKeeps DEF OpenCodeNext
<1>3. CASE SdkNext
  BY <1>3, OpenAiStartKeeps, OpenAiResponseKeeps, OpenAiCallToolKeeps, ToolDoneKeeps,
     OpenAiLoopEndsKeeps, OpenAiCompletesKeeps, OpenAiThrowsKeeps, ClaudeStartKeeps,
     ClaudeMessageKeeps, ClaudeResultKeeps, ClaudeStopsKeeps, ClaudeResultErrorKeeps, ClaudeEndsKeeps,
     ClaudeThrowsKeeps DEF SdkNext
<1>4. CASE UNCHANGED vars
  BY <1>4 DEF vars
<1> QED
  BY <1>1, <1>2, <1>3, <1>4, AbortKeeps DEF Next
-----------------------------------------------------------------------------
HIDE DEF HInv, HTypeOK, VerdictInv, BillInv, PreviewInv, ContractStep, Contract!Next,
    Contract!contractVars, Settled

(* The inductive invariant holds of every run of every adapter.            *)
THEOREM Invariance == Spec => []HInv
  BY InitHInv, NextHInv, PTL DEF Spec

(* The verdict "done" comes with the whole bill; no verdict comes with     *)
(* more, but for Claude's, whose bill may be twice the usage and is no     *)
(* more (the usage meters of harnessRuntime.ts, sumUsage of openai-agents).*)
THEOREM BilledInFull == Spec => []DoneIsBilledInFull
<1>1. HInv => DoneIsBilledInFull
  BY DEF DoneIsBilledInFull, HInv, HTypeOK, BillInv
<1> QED
  BY <1>1, Invariance, PTL

(* The safety net of pi/index.ts:561-577 runs although agent_end settled.  *)
THEOREM PreviewIsKept == Spec => []LivePreviewIsKept
<1>1. HInv => LivePreviewIsKept
  BY DEF LivePreviewIsKept, HInv, PreviewInv
<1> QED
  BY <1>1, Invariance, PTL

(* Every adapter implements the contract the kernel assumes of a harness;  *)
(* Claude's alone may say "cancelled" of a run nobody aborted.             *)
THEOREM Implements == Spec => KeepsHarnessContract
<1>1. Init => Contract!Init
  BY DEF Init, Contract!Init
<1>2. HInv /\ HInv' /\ [Next]_vars => [Contract!Next]_Contract!contractVars
  BY NextKeeps DEF ContractStep
<1> QED
  BY <1>1, <1>2, Invariance, PTL DEF Spec, KeepsHarnessContract, Contract!Spec
=============================================================================
