---------------------------- MODULE RunContract ----------------------------
(***************************************************************************)
(* What the kernel promises whoever sends a message, without saying how:   *)
(* a run is refused or accepted; an accepted run is charged for what it    *)
(* uses, is told exactly one verdict, and then closes with an answer that  *)
(* repeats the verdict and the whole bill.  A session has at most one run  *)
(* open.  (The contract stated in src/src/kernel/settlement.ts:2-5,        *)
(* orchestrator.ts:1-8 and admission.ts:2-4.)                              *)
(***************************************************************************)
EXTENDS Naturals

CONSTANTS
    Run,
    SessionOf,  \* SessionOf[r]: the session run r is sent to
    Cause,      \* the verdicts, "error" among them
    None        \* no verdict, no answer: not a Cause

VARIABLES
    phase,      \* phase[r]: "new", "open" or "closed"
    verdict,    \* verdict[r]: the cause the client was told, or None
    bill,       \* bill[r]: the usage the client was shown
    answer      \* answer[r]: the RunResult's cause and usage, or None

contractVars == <<phase, verdict, bill, answer>>

Init ==
    /\ phase = [r \in Run |-> "new"]
    /\ verdict = [r \in Run |-> None]
    /\ bill = [r \in Run |-> 0]
    /\ answer = [r \in Run |-> None]

Accept(r) ==
    /\ phase[r] = "new"
    /\ \A q \in Run : SessionOf[q] = SessionOf[r] => phase[q] # "open"
    /\ phase' = [phase EXCEPT ![r] = "open"]
    /\ UNCHANGED <<verdict, bill, answer>>

(* Refused, or failed before any work: verdict and answer in one.          *)
Dismiss(r) ==
    /\ phase[r] = "new" \/ (phase[r] = "open" /\ verdict[r] = None /\ bill[r] = 0)
    /\ phase' = [phase EXCEPT ![r] = "closed"]
    /\ verdict' = [verdict EXCEPT ![r] = "error"]
    /\ answer' = [answer EXCEPT ![r] = [cause |-> "error", usage |-> 0]]
    /\ UNCHANGED bill

Charge(r) ==
    /\ phase[r] = "open"
    /\ bill' = [bill EXCEPT ![r] = @ + 1]
    /\ UNCHANGED <<phase, verdict, answer>>

Decide(r) ==
    /\ phase[r] = "open" /\ verdict[r] = None
    /\ \E cause \in Cause : verdict' = [verdict EXCEPT ![r] = cause]
    /\ UNCHANGED <<phase, bill, answer>>

Close(r) ==
    /\ phase[r] = "open" /\ verdict[r] # None
    /\ phase' = [phase EXCEPT ![r] = "closed"]
    /\ answer' = [answer EXCEPT ![r] = [cause |-> verdict[r], usage |-> bill[r]]]
    /\ UNCHANGED <<verdict, bill>>

Next == \E r \in Run : Accept(r) \/ Dismiss(r) \/ Charge(r) \/ Decide(r) \/ Close(r)

Spec == Init /\ [][Next]_contractVars
=============================================================================
