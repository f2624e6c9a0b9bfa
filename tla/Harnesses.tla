------------------------------ MODULE Harnesses ------------------------------
(***************************************************************************)
(* One run given to any of the four adapters, and what every one of them   *)
(* owes the kernel.                                                        *)
(***************************************************************************)
EXTENDS PiHarness, OpenCodeHarness, SdkHarness

Next == Abort \/ PiNext \/ OpenCodeNext \/ SdkNext

Spec == Init /\ [][Next]_vars

FairSpec == Spec /\ PiFairness /\ OpenCodeFairness /\ SdkFairness
-----------------------------------------------------------------------------
(* The usage the provider told of reaches the bill, however its readings   *)
(* came (running totals that go up or down, deltas, one sum at the end): a *)
(* run that is done is charged no less, and by three adapters no more.     *)
(* The Claude adapter meters the result's total on top of the messages it  *)
(* totals (claude-agent-sdk/index.ts:111, 113): up to twice the usage.     *)
DoneIsBilledInFull ==
    /\ billed <= (IF Claude THEN 2 * reported ELSE reported)
    /\ terminal = "done" =>
          /\ billed >= reported
          /\ ~Claude => billed = reported

(* A PI run that showed a live preview, was not cancelled and whose prompt *)
(* did not throw has tried to keep a durable copy by the time it returns,  *)
(* although agent_end gave its verdict before that (pi/index.ts:565).      *)
LivePreviewIsKept ==
    Pi /\ step = "returned" /\ exposed /\ ~aborted /\ prompt # "rejected" => attempted

(* A run whose signal fires while the SDK works is over in the end, though *)
(* an agent left alone may go on for ever: the signal reaches every SDK.   *)
CancelEnds == cutShort ~> (step = "returned")

(* Every adapter keeps the contract the kernel assumes: one verdict, no    *)
(* charge after it, "cancelled" of an aborted run only, but for Claude's,  *)
(* whose catch also goes by the name of the error.                         *)
Contract == INSTANCE HarnessContract WITH
    resigns <- Claude,
    running <- step # "returned",
    cancelled <- aborted,
    verdict <- terminal,
    bill <- billed,
    Bill <- 0..(2 * MaxTokens)

KeepsHarnessContract == Contract!Spec
=============================================================================
