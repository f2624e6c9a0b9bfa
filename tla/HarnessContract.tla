--------------------------- MODULE HarnessContract ---------------------------
(***************************************************************************)
(* What the kernel is promised by a harness adapter, whichever SDK drives  *)
(* it (types/harness.ts, harnesses/_shared/harnessRuntime.ts:14-24): it    *)
(* charges for usage until it names its one verdict, and never returns     *)
(* without one.  It says "cancelled" only of a run whose signal fired,     *)
(* unless it is one that also takes its SDK's word for that.               *)
(* RunLifecycle assumes less: there the adapter may also throw, stay       *)
(* silent, or charge after its verdict.                                    *)
(***************************************************************************)
EXTENDS Naturals

CONSTANTS
    Bill,       \* the bills a run may reach
    None        \* no verdict yet

Cause == {"done", "error", "cancelled"}

VARIABLES
    resigns,    \* the adapter may call a run cancelled of its own accord
    running, cancelled, verdict, bill

contractVars == <<resigns, running, cancelled, verdict, bill>>

Init ==
    /\ resigns \in BOOLEAN
    /\ running = TRUE
    /\ cancelled \in BOOLEAN
    /\ verdict = None
    /\ bill = 0

Cancel ==
    /\ running
    /\ cancelled' = TRUE
    /\ UNCHANGED <<resigns, running, verdict, bill>>

(* Before the verdict the bill only grows.                                 *)
Charges == bill' \in {b \in Bill : b >= bill}

Charge ==
    /\ running /\ verdict = None
    /\ Charges
    /\ UNCHANGED <<resigns, running, cancelled, verdict>>

(* The verdict may come with a last charge and be the last thing done.     *)
Decide ==
    /\ running /\ verdict = None
    /\ Charges
    /\ \E cause \in Cause : (cause = "cancelled" => cancelled \/ resigns) /\ verdict' = cause
    /\ running' \in BOOLEAN
    /\ UNCHANGED <<resigns, cancelled>>

Return ==
    /\ running /\ verdict # None
    /\ running' = FALSE
    /\ UNCHANGED <<resigns, cancelled, verdict, bill>>

Next == Cancel \/ Charge \/ Decide \/ Return

Spec == Init /\ [][Next]_contractVars
=============================================================================
