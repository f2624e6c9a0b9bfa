------------------------- MODULE RunLifecycleProofs -------------------------
(***************************************************************************)
(* Proofs about module RunLifecycle, for any number of runs, sessions and  *)
(* snapshots and any bound on usage events.                                *)
(*                                                                         *)
(* The inductive invariant says, stage by stage, how the settlement, the   *)
(* frames the client has seen and the result agree.  The contract needs    *)
(* the lock as well: that no two runs of a session are open at once.       *)
(***************************************************************************)
EXTENDS RunLifecycle, SequenceTheorems, TLAPS

Open(r) == stage[r] \in {"workspace", "working", "returned"}

(* The frames and the settlement agree with how far the run is.            *)
Untouched(r) ==
    /\ terminals[r] = <<>> /\ shown[r] = 0
    /\ settlement[r] = [cause |-> None, usage |-> 0]
    /\ result[r] = None /\ ~spoke[r] /\ ~started[r]

Underway(r) ==
    /\ settlement[r].usage = shown[r]
    /\ settlement[r].cause = None => terminals[r] = <<>> /\ ~spoke[r]
    /\ settlement[r].cause # None => terminals[r] = <<settlement[r].cause>> /\ spoke[r]
    /\ result[r] = None

Concluded(r) == result[r] # None /\ terminals[r] = <<result[r].cause>>

Agrees(r) ==
    /\ stage[r] \in {"idle", "workspace"} => Untouched(r)
    /\ stage[r] = "working" => Underway(r)
    /\ stage[r] = "returned" => Concluded(r) /\ result[r].usage = shown[r]
    /\ stage[r] \in Resolved \cup Answered => Concluded(r)
    /\ settled[r] = IF stage[r] \in Answered THEN result[r] ELSE None

StagesAgree == \A r \in Run : Agrees(r)

LockIsExact ==
    /\ active = {SessionOf[r] : r \in {q \in Run : Open(q)}}
    /\ \A q, r \in Run : Open(q) /\ Open(r) /\ SessionOf[q] = SessionOf[r] => q = r

LInv == TypeOK /\ StagesAgree /\ LockIsExact
-----------------------------------------------------------------------------
USE DEF Resolved, Answered

LEMMA InitLInv == Init => LInv
  BY RunAssumption DEF Init, LInv, TypeOK, Stages, StagesAgree, Agrees, Untouched, LockIsExact, Open

LEMMA CauseIsNotNone == None \notin Cause /\ "error" \in Cause /\ "done" \in Cause /\ "cancelled" \in Cause
  BY RunAssumption DEF Cause

LEMMA ObserveType ==
    ASSUME NEW state \in [cause : Cause \cup {None}, usage : Nat]
    PROVE  /\ ObserveUsage(state) \in [cause : Cause \cup {None}, usage : Nat]
           /\ ObserveUsage(state).usage = state.usage + 1
           /\ ObserveUsage(state).cause = state.cause
  BY DEF ObserveUsage

LEMMA SettleType ==
    ASSUME NEW state \in [cause : Cause \cup {None}, usage : Nat], NEW cause \in Cause
    PROVE  /\ Settle(state, cause) \in Verdict
           /\ Settle(state, cause) \in [cause : Cause \cup {None}, usage : Nat]
           /\ Settle(state, cause).usage = state.usage
           /\ Settle(state, cause).cause = IF state.cause = None THEN cause ELSE state.cause
           /\ state.cause # None => Settle(state, cause) = state
  BY CauseIsNotNone DEF Settle, Verdict

LEMMA NextTypeOK == LInv /\ Next => TypeOK'
<1> SUFFICES ASSUME LInv, Next PROVE TypeOK'
  OBVIOUS
<1>a. \A r \in Run : SessionOf[r] \in Session
  BY RunAssumption
<1>b. Failed \in Verdict /\ Failed # None
  BY CauseIsNotNone, RunAssumption DEF Failed, Verdict
<1>c. \A r \in Run, cause \in Cause : Append(terminals[r], cause) \in Seq(Cause)
  BY AppendProperties DEF LInv, TypeOK
<1> USE CauseIsNotNone, RunAssumption, <1>a, <1>b, <1>c DEF LInv, TypeOK, Stages, At, Release
<1>1. ASSUME NEW r \in Run, Admit(r) PROVE TypeOK'
  BY <1>1 DEF Admit
<1>2. ASSUME NEW r \in Run, Reject(r) PROVE TypeOK'
  BY <1>2 DEF Reject
<1>3. ASSUME NEW r \in Run, NoWorkspace(r) PROVE TypeOK'
  BY <1>3 DEF NoWorkspace
<1>4. ASSUME NEW r \in Run, Refuse(r) PROVE TypeOK'
  BY <1>4, SettleType DEF Refuse, EmitTerminal
<1>5. ASSUME NEW r \in Run, Start(r) PROVE TypeOK'
  BY <1>5 DEF Start
<1>6. ASSUME NEW r \in Run, Usage(r) PROVE TypeOK'
  <2>1. ObserveUsage(settlement[r]) \in [cause : Cause \cup {None}, usage : Nat]
    BY ObserveType
  <2>2. settlement' \in [Run -> [cause : Cause \cup {None}, usage : Nat]]
    BY <1>6, <2>1 DEF Usage
  <2>3. shown' \in [Run -> 0..MaxUsage]
    BY <1>6 DEF Usage
  <2> QED BY <1>6, <2>2, <2>3 DEF Usage
<1>6a. ASSUME NEW r \in Run, LateUsage(r) PROVE TypeOK'
  <2>1. ObserveUsage(settlement[r]) \in [cause : Cause \cup {None}, usage : Nat]
    BY ObserveType
  <2> QED BY <1>6a, <2>1 DEF LateUsage
<1>7. ASSUME NEW r \in Run, NEW cause \in Cause, Speak(r, cause) PROVE TypeOK'
  BY <1>7, SettleType DEF Speak, EmitTerminal
<1>8. ASSUME NEW r \in Run, PreviewReady(r) PROVE TypeOK'
  BY <1>8 DEF PreviewReady, SetLive, PreviewState
<1>9. ASSUME NEW r \in Run, NEW id \in Snapshot, SnapshotReady(r, id) PROVE TypeOK'
  BY <1>9 DEF SnapshotReady, PreviewState
<1>10. ASSUME NEW r \in Run, Return(r) PROVE TypeOK'
  <2>1. /\ settlement' \in [Run -> [cause : Cause \cup {None}, usage : Nat]]
        /\ terminals' \in [Run -> Seq(Cause)]
    <3>1. CASE settlement[r].cause # None
      BY <1>10, <3>1 DEF Return
    <3>2. ASSUME NEW cause \in Cause, EmitTerminal(r, cause)
          PROVE  /\ settlement' \in [Run -> [cause : Cause \cup {None}, usage : Nat]]
                 /\ terminals' \in [Run -> Seq(Cause)]
      BY <3>2, SettleType DEF EmitTerminal
    <3>3. CASE settlement[r].cause = None
      BY <1>10, <3>2, <3>3 DEF Return
    <3> QED BY <3>1, <3>3
  <2>2. Settle(settlement'[r], IF aborted[r] THEN "cancelled" ELSE "done") \in Verdict
    BY <2>1, SettleType
  <2>3. result' \in [Run -> Verdict \cup {None}] /\ result'[r] # None
    BY <1>10, <2>2 DEF Return
  <2> QED BY <1>10, <2>1, <2>3 DEF Return
<1>11. ASSUME NEW r \in Run, Throw(r) PROVE TypeOK'
  <2>1. /\ settlement' \in [Run -> [cause : Cause \cup {None}, usage : Nat]]
        /\ terminals' \in [Run -> Seq(Cause)]
    <3>1. CASE settlement[r].cause # None
      BY <1>11, <3>1 DEF Throw
    <3>2. ASSUME NEW cause \in Cause, EmitTerminal(r, cause)
          PROVE  /\ settlement' \in [Run -> [cause : Cause \cup {None}, usage : Nat]]
                 /\ terminals' \in [Run -> Seq(Cause)]
      BY <3>2, SettleType DEF EmitTerminal
    <3>3. CASE settlement[r].cause = None
      BY <1>11, <3>2, <3>3 DEF Throw
    <3> QED BY <3>1, <3>3
  <2>2. Settle(settlement'[r], IF aborted[r] THEN "cancelled" ELSE "done") \in Verdict
    BY <2>1, SettleType
  <2>3. result' \in [Run -> Verdict \cup {None}] /\ result'[r] # None
    BY <1>11, <2>2 DEF Throw
  <2> QED BY <1>11, <2>1, <2>3 DEF Throw
<1>12. ASSUME NEW r \in Run, Resolve(r) PROVE TypeOK'
  BY <1>12 DEF Resolve, StagesAgree, Agrees, Concluded
<1>13. ASSUME NEW r \in Run, Cancel(r) PROVE TypeOK'
  BY <1>13 DEF Cancel
<1>14. ASSUME NEW r \in Run, Answer(r) PROVE TypeOK'
  BY <1>14 DEF Answer
<1>15. ASSUME NEW s \in Session, EndSession(s) PROVE TypeOK'
  BY <1>15 DEF EndSession
<1> QED BY <1>1, <1>2, <1>3, <1>4, <1>5, <1>6, <1>6a, <1>7, <1>8, <1>9, <1>10, <1>11, <1>12,
           <1>13, <1>14, <1>15 DEF Next

(* What a run's agreement depends on is its own.                           *)
LEMMA AgreesAlone ==
    ASSUME NEW r \in Run, Agrees(r), stage'[r] = stage[r], terminals'[r] = terminals[r],
           shown'[r] = shown[r], settlement'[r] = settlement[r], result'[r] = result[r],
           spoke'[r] = spoke[r], settled'[r] = settled[r], started'[r] = started[r]
    PROVE  Agrees(r)'
  BY DEF Agrees, Untouched, Underway, Concluded

LEMMA FirstFrame == \A c : Append(<<>>, c) = <<c>>
  OBVIOUS

(* The kernel's terminal, spoken only if the run is not settled.           *)
LEMMA SpokenOnce ==
    ASSUME TypeOK, NEW r \in Run, Underway(r), NEW cause \in Cause, NEW last \in Cause,
           \/ settlement[r].cause = None /\ EmitTerminal(r, cause)
           \/ settlement[r].cause # None /\ UNCHANGED <<settlement, terminals>>,
           shown' = shown, result' = [result EXCEPT ![r] = Settle(settlement'[r], last)]
    PROVE  Concluded(r)' /\ result'[r].usage = shown'[r]
<1>1. /\ settlement'[r] \in [cause : Cause, usage : Nat]
      /\ settlement'[r].usage = shown[r]
      /\ terminals'[r] = <<settlement'[r].cause>>
  <2>1. CASE settlement[r].cause # None
    BY <2>1, CauseIsNotNone DEF TypeOK, Underway
  <2>2. CASE settlement[r].cause = None
    <3>1. /\ settlement'[r] = Settle(settlement[r], cause)
          /\ terminals'[r] = <<cause>>
      BY <2>2, FirstFrame DEF TypeOK, Underway, EmitTerminal
    <3>2. settlement[r] \in [cause : Cause \cup {None}, usage : Nat]
      BY DEF TypeOK
    <3> QED BY <2>2, <3>1, <3>2, SettleType DEF Underway, Verdict
  <2> QED BY <2>1, <2>2
<1>2. settlement'[r].cause # None
  BY <1>1, CauseIsNotNone
<1>3. result'[r] = settlement'[r]
  BY <1>1, <1>2 DEF TypeOK, Settle
<1>4. result'[r] # None
  BY <1>1, <1>3, RunAssumption DEF Verdict
<1> QED BY <1>1, <1>3, <1>4 DEF Concluded

LEMMA NextStagesAgree == LInv /\ Next => StagesAgree'
<1> SUFFICES ASSUME LInv, Next, NEW q \in Run PROVE Agrees(q)'
  BY DEF StagesAgree
<1>a. TypeOK /\ Agrees(q)
  BY DEF LInv, StagesAgree
<1>b. Failed \in Verdict /\ Failed # None /\ Failed.cause = "error"
  BY CauseIsNotNone, RunAssumption DEF Failed, Verdict
<1> USE <1>a DEF TypeOK, At, Release
<1>1. ASSUME NEW r \in Run, Admit(r) PROVE Agrees(q)'
  BY <1>1 DEF Admit, Agrees, Untouched, Underway, Concluded
<1>2. ASSUME NEW r \in Run, Reject(r) PROVE Agrees(q)'
  <2>1. CASE q # r
    BY <1>2, <2>1, AgreesAlone DEF Reject
  <2>2. CASE q = r
    BY <1>2, <1>b, <2>2, FirstFrame DEF Reject, Agrees, Untouched, Concluded
  <2> QED BY <2>1, <2>2
<1>3. ASSUME NEW r \in Run, NoWorkspace(r) PROVE Agrees(q)'
  <2>1. CASE q # r
    BY <1>3, <2>1, AgreesAlone DEF NoWorkspace
  <2>2. CASE q = r
    BY <1>3, <1>b, <2>2, FirstFrame DEF NoWorkspace, Agrees, Untouched, Concluded
  <2> QED BY <2>1, <2>2
<1>4. ASSUME NEW r \in Run, Refuse(r) PROVE Agrees(q)'
  <2>1. CASE q # r
    BY <1>4, <2>1, AgreesAlone DEF Refuse, EmitTerminal
  <2>2. CASE q = r
    <3>1. Underway(r) /\ settlement[r].cause = None
      BY <1>4, <2>2 DEF Refuse, Agrees, Untouched, Underway
    <3>2. Concluded(r)' /\ result'[r].usage = shown'[r]
      BY <1>4, <3>1, SpokenOnce, CauseIsNotNone DEF Refuse
    <3> QED BY <1>4, <2>2, <3>2 DEF Refuse, Agrees
  <2> QED BY <2>1, <2>2
<1>5. ASSUME NEW r \in Run, Start(r) PROVE Agrees(q)'
  BY <1>5 DEF Start, Agrees, Untouched, Underway, Concluded
<1>6. ASSUME NEW r \in Run, Usage(r) PROVE Agrees(q)'
  <2>1. CASE q # r
    BY <1>6, <2>1, AgreesAlone DEF Usage
  <2>2. CASE q = r
    <3>1. settlement[r] \in [cause : Cause \cup {None}, usage : Nat]
      OBVIOUS
    <3>2. /\ settlement'[r].usage = settlement[r].usage + 1
          /\ settlement'[r].cause = settlement[r].cause
          /\ shown'[r] = shown[r] + 1
      BY <1>6, <3>1, ObserveType DEF Usage
    <3> QED BY <1>6, <2>2, <3>2 DEF Usage, Agrees, Underway
  <2> QED BY <2>1, <2>2
<1>6a. ASSUME NEW r \in Run, LateUsage(r) PROVE Agrees(q)'
  <2>1. CASE q # r
    BY <1>6a, <2>1, AgreesAlone DEF LateUsage
  <2>2. CASE q = r
    <3>1. /\ stage[r] \notin {"idle", "workspace", "working"}
          /\ UNCHANGED <<stage, terminals, shown, result, settled>>
      BY <1>6a, <2>2 DEF LateUsage, Agrees, Untouched
    <3> QED BY <2>2, <3>1 DEF Agrees, Concluded
  <2> QED BY <2>1, <2>2
<1>7. ASSUME NEW r \in Run, NEW cause \in Cause, Speak(r, cause) PROVE Agrees(q)'
  <2>1. CASE q # r
    BY <1>7, <2>1, AgreesAlone DEF Speak, EmitTerminal
  <2>2. CASE q = r
    <3>1. Underway(r) /\ settlement[r].cause = None /\ terminals[r] = <<>>
      BY <1>7, <2>2 DEF Speak, Agrees, Underway
    <3>2. /\ settlement'[r].usage = shown'[r]
          /\ settlement'[r].cause = cause
          /\ terminals'[r] = <<cause>>
          /\ spoke'[r]
      BY <1>7, <3>1, SettleType, FirstFrame DEF Speak, EmitTerminal, Underway
    <3> QED BY <1>7, <2>2, <3>1, <3>2, CauseIsNotNone DEF Speak, Agrees, Underway
  <2> QED BY <2>1, <2>2
<1>8. ASSUME NEW r \in Run, PreviewReady(r) PROVE Agrees(q)'
  BY <1>8, AgreesAlone DEF PreviewReady
<1>9. ASSUME NEW r \in Run, NEW id \in Snapshot, SnapshotReady(r, id) PROVE Agrees(q)'
  BY <1>9, AgreesAlone DEF SnapshotReady
<1>10. ASSUME NEW r \in Run, Return(r) PROVE Agrees(q)'
  <2>1. CASE q # r
    BY <1>10, <2>1, AgreesAlone DEF Return, EmitTerminal
  <2>2. CASE q = r
    <3>1. Concluded(r)' /\ result'[r].usage = shown'[r]
      BY <1>10, <2>2, SpokenOnce, CauseIsNotNone DEF Return, Agrees
    <3> QED BY <1>10, <2>2, <3>1 DEF Return, Agrees
  <2> QED BY <2>1, <2>2
<1>11. ASSUME NEW r \in Run, Throw(r) PROVE Agrees(q)'
  <2>1. CASE q # r
    BY <1>11, <2>1, AgreesAlone DEF Throw, EmitTerminal
  <2>2. CASE q = r
    <3>1. Concluded(r)' /\ result'[r].usage = shown'[r]
      BY <1>11, <2>2, SpokenOnce, CauseIsNotNone DEF Throw, Agrees
    <3> QED BY <1>11, <2>2, <3>1 DEF Throw, Agrees
  <2> QED BY <2>1, <2>2
<1>12. ASSUME NEW r \in Run, Resolve(r) PROVE Agrees(q)'
  BY <1>12 DEF Resolve, Agrees, Untouched, Underway, Concluded
<1>13. ASSUME NEW r \in Run, Cancel(r) PROVE Agrees(q)'
  BY <1>13, AgreesAlone DEF Cancel
<1>14. ASSUME NEW r \in Run, Answer(r) PROVE Agrees(q)'
  BY <1>14 DEF Answer, Agrees, Untouched, Underway, Concluded
<1>15. ASSUME NEW s \in Session, EndSession(s) PROVE Agrees(q)'
  BY <1>15, AgreesAlone DEF EndSession
<1> QED BY <1>1, <1>2, <1>3, <1>4, <1>5, <1>6, <1>6a, <1>7, <1>8, <1>9, <1>10, <1>11, <1>12,
           <1>13, <1>14, <1>15 DEF Next

LEMMA NextLockIsExact == LInv /\ Next => LockIsExact'
<1> SUFFICES ASSUME LInv, Next PROVE LockIsExact'
  OBVIOUS
<1>a. /\ TypeOK /\ active = {SessionOf[r] : r \in {q \in Run : Open(q)}}
      /\ \A q, r \in Run : Open(q) /\ Open(r) /\ SessionOf[q] = SessionOf[r] => q = r
  BY DEF LInv, LockIsExact
<1>1. ASSUME NEW r \in Run, Admit(r) PROVE LockIsExact'
  <2>1. Open(r)' /\ \A q \in Run \ {r} : Open(q)' <=> Open(q)
    BY <1>1, <1>a DEF Admit, At, Open, TypeOK
  <2>2. \A q \in Run : Open(q) => SessionOf[q] # SessionOf[r]
    BY <1>1, <1>a DEF Admit
  <2> QED BY <1>1, <1>a, <2>1, <2>2 DEF Admit, LockIsExact
<1>2. ASSUME NEW r \in Run, Open(r), stage' = [stage EXCEPT ![r] = "resolved"], Release(r)
      PROVE  LockIsExact'
  <2>1. ~Open(r)' /\ \A q \in Run \ {r} : Open(q)' <=> Open(q)
    BY <1>2, <1>a DEF Open, TypeOK
  <2> QED BY <1>2, <1>a, <2>1 DEF Release, LockIsExact
<1>3. ASSUME \A q \in Run : Open(q)' <=> Open(q), active' = active
      PROVE  LockIsExact'
  BY <1>3, <1>a DEF LockIsExact
<1>4. ASSUME NEW r \in Run, Reject(r) \/ Answer(r) PROVE LockIsExact'
  BY <1>3, <1>4, <1>a DEF Reject, Answer, At, Open, TypeOK
<1>5. ASSUME NEW r \in Run, NoWorkspace(r) \/ Resolve(r) PROVE LockIsExact'
  BY <1>2, <1>5 DEF NoWorkspace, Resolve, At, Open
<1>6. ASSUME NEW r \in Run, Refuse(r) \/ Start(r) \/ Return(r) \/ Throw(r) PROVE LockIsExact'
  BY <1>3, <1>6, <1>a DEF Refuse, Start, Return, Throw, At, Open, TypeOK
<1>7. ASSUME stage' = stage, active' = active PROVE LockIsExact'
  BY <1>3, <1>7 DEF Open
<1> QED BY <1>1, <1>4, <1>5, <1>6, <1>7
        DEF Next, Usage, LateUsage, Speak, PreviewReady, SnapshotReady, Cancel, EndSession

LEMMA NextLInv == LInv /\ [Next]_vars => LInv'
<1>1. ASSUME LInv, UNCHANGED vars PROVE LInv'
  BY <1>1 DEF vars, LInv, TypeOK, StagesAgree, Agrees, Untouched, Underway, Concluded,
              LockIsExact, Open
<1> QED BY <1>1, NextTypeOK, NextStagesAgree, NextLockIsExact DEF LInv

LEMMA LifecycleInvariant == Spec => []LInv
  BY InitLInv, NextLInv, PTL DEF Spec

(* The state of every run is well formed, and one that is over has a       *)
(* result (the RunResult runMessage promises on every path).               *)
THEOREM LifecycleTypeOK == Spec => []TypeOK
  BY LifecycleInvariant, PTL DEF LInv

LEMMA LInvOneTerminal == LInv => OneTerminal
<1> SUFFICES ASSUME LInv, NEW r \in Run
             PROVE  /\ Len(terminals[r]) <= 1
                    /\ settled[r] # None => terminals[r] = <<settled[r].cause>>
  BY DEF OneTerminal
<1>1. Agrees(r) /\ stage[r] \in Stages
  BY DEF LInv, StagesAgree, TypeOK
<1>2. terminals[r] = <<>> \/ \E c : terminals[r] = <<c>>
  BY <1>1 DEF Agrees, Untouched, Underway, Concluded, Stages
<1>3. Len(terminals[r]) <= 1
  BY <1>2
<1>4. settled[r] # None => terminals[r] = <<settled[r].cause>>
  BY <1>1 DEF Agrees, Concluded
<1> QED BY <1>3, <1>4

(* A stream carries one terminal frame, and `settled` repeats its cause.   *)
THEOREM LifecycleOneTerminal == Spec => []OneTerminal
  BY LifecycleInvariant, LInvOneTerminal, PTL

(* A durable snapshot is never erased by a live preview.                   *)
THEOREM LifecycleSnapshotSurvives == Spec => SnapshotSurvives
<1> DEFINE Survives == \A s \in Session :
        (/\ preview[s] # None /\ preview[s].snapshot # None
         /\ preview'[s] # None) => preview'[s].snapshot # None
<1>1. LInv /\ [Next]_vars => [Survives]_vars
  <2> SUFFICES ASSUME LInv, Next, NEW s \in Session, preview[s] # None,
                      preview[s].snapshot # None, preview'[s] # None
               PROVE  preview'[s].snapshot # None
    BY DEF vars
  <2>1. ASSUME NEW r \in Run, PreviewReady(r) PROVE preview'[s].snapshot # None
    BY <2>1 DEF PreviewReady, SetLive, LInv, TypeOK
  <2>2. ASSUME NEW r \in Run, NEW id \in Snapshot, SnapshotReady(r, id)
        PROVE  preview'[s].snapshot # None
    BY <2>2, RunAssumption DEF SnapshotReady, LInv, TypeOK
  <2>3. ASSUME NEW d \in Session, EndSession(d) PROVE preview'[s].snapshot # None
    BY <2>3 DEF EndSession, LInv, TypeOK
  <2>4. CASE preview' = preview
    BY <2>4
  <2> QED BY <2>1, <2>2, <2>3, <2>4
          DEF Next, Admit, Reject, NoWorkspace, Refuse, Start, Usage, LateUsage, Speak, Return, Throw,
              Resolve, Cancel, Answer
<1>2. Spec => [][Survives]_vars
  BY <1>1, LifecycleInvariant, PTL DEF Spec
<1> QED BY <1>2 DEF SnapshotSurvives
-----------------------------------------------------------------------------
(* The refinement: what the contract's variables are, run by run.          *)
phaseOf(r) == IF stage[r] = "idle" THEN "new"
              ELSE IF stage[r] \in Resolved \cup Answered THEN "closed" ELSE "open"
verdictOf(r) == IF terminals[r] = <<>> THEN None ELSE Head(terminals[r])
answerOf(r) == IF stage[r] \in Resolved \cup Answered THEN result[r] ELSE None

LEMMA InitContract == Init => Contract!Init
  BY DEF Init, Contract!Init

(* A step that leaves every run's view alone is a stutter.                 *)
LEMMA ViewsAlone ==
    ASSUME \A q \in Run : /\ phaseOf(q)' = phaseOf(q) /\ verdictOf(q)' = verdictOf(q)
                          /\ answerOf(q)' = answerOf(q), shown' = shown
    PROVE  UNCHANGED Contract!contractVars
  BY DEF Contract!contractVars, phaseOf, verdictOf, answerOf

(* A step of run r changes at most r's entry in each of them.              *)
LEMMA ViewsOfOne ==
    ASSUME NEW r \in Run,
           \A q \in Run \ {r} : /\ phaseOf(q)' = phaseOf(q) /\ verdictOf(q)' = verdictOf(q)
                                /\ answerOf(q)' = answerOf(q)
    PROVE  /\ [q \in Run |-> phaseOf(q)]' = [[q \in Run |-> phaseOf(q)] EXCEPT ![r] = phaseOf(r)']
           /\ [q \in Run |-> verdictOf(q)]' = [[q \in Run |-> verdictOf(q)] EXCEPT ![r] = verdictOf(r)']
           /\ [q \in Run |-> answerOf(q)]' = [[q \in Run |-> answerOf(q)] EXCEPT ![r] = answerOf(r)']
  OBVIOUS

LEMMA OthersAlone ==
    ASSUME NEW r \in Run, NEW q \in Run \ {r},
           stage'[q] = stage[q], terminals'[q] = terminals[q], result'[q] = result[q]
    PROVE  phaseOf(q)' = phaseOf(q) /\ verdictOf(q)' = verdictOf(q) /\ answerOf(q)' = answerOf(q)
  BY DEF phaseOf, verdictOf, answerOf

(* What the views of a run are at each of its stages.                      *)
LEMMA ViewsByStage ==
    ASSUME LInv, NEW r \in Run
    PROVE  /\ stage[r] = "idle" => phaseOf(r) = "new"
           /\ stage[r] \in {"workspace", "working", "returned"} => phaseOf(r) = "open"
           /\ stage[r] \in {"idle", "workspace"} => verdictOf(r) = None /\ shown[r] = 0
           /\ stage[r] \in {"idle", "workspace", "working", "returned"} => answerOf(r) = None
           /\ stage[r] = "working" => verdictOf(r) = settlement[r].cause
           /\ stage[r] = "returned" => /\ verdictOf(r) = result[r].cause
                                       /\ result[r] = [cause |-> verdictOf(r), usage |-> shown[r]]
           /\ stage[r] \in Resolved \cup Answered =>
                /\ phaseOf(r) = "closed" /\ answerOf(r) = result[r]
                /\ verdictOf(r) = result[r].cause
<1>1. Agrees(r)
  BY DEF LInv, StagesAgree
<1>2. \A c : <<c>> # <<>> /\ Head(<<c>>) = c
  OBVIOUS
<1>3. stage[r] = "returned" => result[r] = [cause |-> result[r].cause, usage |-> result[r].usage]
  BY <1>1 DEF Agrees, Concluded, LInv, TypeOK, Verdict
<1> QED BY <1>1, <1>2, <1>3 DEF phaseOf, verdictOf, answerOf, Agrees, Untouched, Underway, Concluded

LEMMA AcceptStep ==
    ASSUME LInv, LInv', NEW r \in Run, Admit(r)
    PROVE  Contract!Accept(r)
<1>1. \A q \in Run \ {r} : phaseOf(q)' = phaseOf(q) /\ verdictOf(q)' = verdictOf(q)
                           /\ answerOf(q)' = answerOf(q)
  BY OthersAlone DEF Admit, At, LInv, TypeOK
<1>2. stage[r] = "idle" /\ stage'[r] = "workspace"
  BY DEF Admit, At, LInv, TypeOK
<1>3. phaseOf(r) = "new" /\ phaseOf(r)' = "open"
  BY <1>2, ViewsByStage DEF phaseOf
<1>4. verdictOf(r)' = verdictOf(r) /\ answerOf(r)' = answerOf(r) /\ shown' = shown
  BY <1>2 DEF Admit, verdictOf, answerOf
<1>5. \A q \in Run : SessionOf[q] = SessionOf[r] => phaseOf(q) # "open"
  <2> SUFFICES ASSUME NEW q \in Run, SessionOf[q] = SessionOf[r], phaseOf(q) = "open" PROVE FALSE
    OBVIOUS
  <2>1. Open(q)
    BY DEF phaseOf, Open, LInv, TypeOK, Stages
  <2> QED BY <2>1 DEF Admit, LInv, LockIsExact
<1>6. /\ [q \in Run |-> phaseOf(q)]' = [[q \in Run |-> phaseOf(q)] EXCEPT ![r] = "open"]
      /\ [q \in Run |-> verdictOf(q)]' = [q \in Run |-> verdictOf(q)]
      /\ [q \in Run |-> answerOf(q)]' = [q \in Run |-> answerOf(q)]
  BY <1>1, <1>3, <1>4, ViewsOfOne
<1> QED BY <1>3, <1>4, <1>5, <1>6 DEF Contract!Accept, phaseOf, verdictOf, answerOf

(* Refused at the door, or no workspace to be had.                         *)
LEMMA DismissStep ==
    ASSUME LInv, LInv', NEW r \in Run, Reject(r) \/ NoWorkspace(r)
    PROVE  Contract!Dismiss(r)
<1>1. /\ stage[r] \in {"idle", "workspace"} /\ stage'[r] \in Resolved
      /\ result'[r] = Failed /\ shown' = shown
      /\ \A q \in Run \ {r} : /\ stage'[q] = stage[q] /\ terminals'[q] = terminals[q]
                               /\ result'[q] = result[q]
  BY DEF Reject, NoWorkspace, At, LInv, TypeOK
<1>2. \A q \in Run \ {r} : phaseOf(q)' = phaseOf(q) /\ verdictOf(q)' = verdictOf(q)
                           /\ answerOf(q)' = answerOf(q)
  BY <1>1, OthersAlone
<1>3. phaseOf(r) = "new" \/ (phaseOf(r) = "open" /\ verdictOf(r) = None /\ shown[r] = 0)
  BY <1>1, ViewsByStage
<1>4. phaseOf(r)' = "closed" /\ answerOf(r)' = Failed
  BY <1>1 DEF phaseOf, answerOf
<1>5. verdictOf(r)' = "error"
  <2>1. terminals[r] = <<>> /\ terminals'[r] = Append(terminals[r], "error")
    BY <1>1 DEF Reject, NoWorkspace, LInv, TypeOK, StagesAgree, Agrees, Untouched
  <2>2. terminals'[r] = <<"error">>
    BY <2>1, FirstFrame
  <2> QED BY <2>2 DEF verdictOf
<1>6. /\ [q \in Run |-> phaseOf(q)]' = [[q \in Run |-> phaseOf(q)] EXCEPT ![r] = "closed"]
      /\ [q \in Run |-> verdictOf(q)]' = [[q \in Run |-> verdictOf(q)] EXCEPT ![r] = "error"]
      /\ [q \in Run |-> answerOf(q)]' = [[q \in Run |-> answerOf(q)] EXCEPT ![r] = Failed]
  BY <1>2, <1>4, <1>5, ViewsOfOne
<1> QED BY <1>1, <1>3, <1>6 DEF Contract!Dismiss, Failed, phaseOf, verdictOf, answerOf

LEMMA ChargeStep ==
    ASSUME LInv, LInv', NEW r \in Run, Usage(r)
    PROVE  Contract!Charge(r)
<1>1. phaseOf(r) = "open"
  BY ViewsByStage DEF Usage
<1>2. shown' = [shown EXCEPT ![r] = @ + 1] /\ UNCHANGED <<stage, terminals, result>>
  BY DEF Usage
<1> QED BY <1>1, <1>2 DEF Contract!Charge, phaseOf

(* The client is told a cause while the run stays open, or nothing changes.*)
LEMMA DecideStep ==
    ASSUME LInv, LInv', NEW r \in Run, stage[r] \in {"workspace", "working"},
           stage'[r] \in {"working", "returned"}, shown' = shown,
           \A q \in Run \ {r} : /\ stage'[q] = stage[q] /\ terminals'[q] = terminals[q]
                                /\ result'[q] = result[q],
           verdictOf(r) # None => verdictOf(r)' = verdictOf(r)
    PROVE  Contract!Decide(r) \/ UNCHANGED Contract!contractVars
<1>1. \A q \in Run \ {r} : phaseOf(q)' = phaseOf(q) /\ verdictOf(q)' = verdictOf(q)
                           /\ answerOf(q)' = answerOf(q)
  BY OthersAlone
<1>2. /\ phaseOf(r) = "open" /\ phaseOf(r)' = "open"
      /\ answerOf(r)' = answerOf(r)
  BY DEF phaseOf, answerOf
<1>3. CASE verdictOf(r)' = verdictOf(r)
  BY <1>1, <1>2, <1>3, ViewsAlone
<1>4. CASE verdictOf(r)' # verdictOf(r)
  <2>1. verdictOf(r) = None
    BY <1>4
  <2>2. verdictOf(r)' \in Cause
    <3>1. Agrees(r)' /\ TypeOK'
      BY DEF LInv, StagesAgree
    <3>2. terminals'[r] = <<>> \/ \E c \in Cause : terminals'[r] = <<c>>
      BY <3>1 DEF Agrees, Underway, Concluded, TypeOK, Verdict
    <3>3. terminals'[r] # <<>>
      BY <1>4, <2>1 DEF verdictOf
    <3> QED BY <3>2, <3>3 DEF verdictOf
  <2>3. /\ [q \in Run |-> phaseOf(q)]' = [q \in Run |-> phaseOf(q)]
        /\ [q \in Run |-> answerOf(q)]' = [q \in Run |-> answerOf(q)]
        /\ [q \in Run |-> verdictOf(q)]' =
              [[q \in Run |-> verdictOf(q)] EXCEPT ![r] = verdictOf(r)']
    <3>1. /\ \A q \in Run : phaseOf(q)' = phaseOf(q)
          /\ \A q \in Run : answerOf(q)' = answerOf(q)
      BY <1>1, <1>2
    <3>2. [q \in Run |-> phaseOf(q)]' = [q \in Run |-> phaseOf(q)]
      BY <3>1
    <3>3. [q \in Run |-> answerOf(q)]' = [q \in Run |-> answerOf(q)]
      BY <3>1
    <3> QED BY <1>1, <3>2, <3>3, ViewsOfOne
  <2>4. /\ [q \in Run |-> phaseOf(q)][r] = "open"
        /\ [q \in Run |-> verdictOf(q)][r] = None
        /\ \E cause \in Cause :
              [q \in Run |-> verdictOf(q)]' = [[q \in Run |-> verdictOf(q)] EXCEPT ![r] = cause]
    BY <1>2, <2>1, <2>2, <2>3
  <2>5. Contract!Decide(r)
    BY <2>3, <2>4 DEF Contract!Decide, Cause, phaseOf, verdictOf, answerOf
  <2> QED BY <2>5
<1> QED BY <1>3, <1>4

LEMMA CloseStep ==
    ASSUME LInv, LInv', NEW r \in Run, Resolve(r)
    PROVE  Contract!Close(r)
<1>1. /\ stage[r] = "returned" /\ stage'[r] = "resolved"
      /\ UNCHANGED <<terminals, result, shown>>
      /\ \A q \in Run \ {r} : stage'[q] = stage[q]
  BY DEF Resolve, At, LInv, TypeOK
<1>2. \A q \in Run \ {r} : phaseOf(q)' = phaseOf(q) /\ verdictOf(q)' = verdictOf(q)
                           /\ answerOf(q)' = answerOf(q)
  BY <1>1, OthersAlone
<1>3. phaseOf(r) = "open" /\ verdictOf(r) # None
      /\ result[r] = [cause |-> verdictOf(r), usage |-> shown[r]]
  <2>1. result[r].cause \in Cause
    BY <1>1 DEF LInv, TypeOK, StagesAgree, Agrees, Concluded, Verdict
  <2> QED BY <1>1, <2>1, ViewsByStage, CauseIsNotNone
<1>4. phaseOf(r)' = "closed" /\ answerOf(r)' = result[r] /\ verdictOf(r)' = verdictOf(r)
  BY <1>1 DEF phaseOf, answerOf, verdictOf
<1>5. /\ [q \in Run |-> phaseOf(q)]' = [[q \in Run |-> phaseOf(q)] EXCEPT ![r] = "closed"]
      /\ [q \in Run |-> verdictOf(q)]' = [q \in Run |-> verdictOf(q)]
      /\ [q \in Run |-> answerOf(q)]' = [[q \in Run |-> answerOf(q)] EXCEPT ![r] = result[r]]
  BY <1>2, <1>4, ViewsOfOne
<1> QED BY <1>1, <1>3, <1>5 DEF Contract!Close, phaseOf, verdictOf, answerOf

LEMMA NextContract ==
    LInv /\ LInv' /\ [Next]_vars => [Contract!Next]_Contract!contractVars
<1> SUFFICES ASSUME LInv, LInv', [Next]_vars
             PROVE  Contract!Next \/ UNCHANGED Contract!contractVars
  OBVIOUS
<1>a. TypeOK
  BY DEF LInv
<1>1. ASSUME NEW r \in Run, Admit(r) PROVE Contract!Next
  BY <1>1, AcceptStep DEF Contract!Next
<1>2. ASSUME NEW r \in Run, Reject(r) \/ NoWorkspace(r) PROVE Contract!Next
  BY <1>2, DismissStep DEF Contract!Next
<1>3. ASSUME NEW r \in Run, Usage(r) PROVE Contract!Next
  BY <1>3, ChargeStep DEF Contract!Next
<1>4. ASSUME NEW r \in Run, Refuse(r) \/ Start(r) \/ Return(r) \/ Throw(r)
      PROVE  Contract!Next \/ UNCHANGED Contract!contractVars
  <2>1. /\ stage[r] \in {"workspace", "working"} /\ stage'[r] \in {"working", "returned"}
        /\ shown' = shown
        /\ \A q \in Run \ {r} : /\ stage'[q] = stage[q] /\ terminals'[q] = terminals[q]
                                 /\ result'[q] = result[q]
    BY <1>4, <1>a DEF TypeOK, Refuse, Start, Return, Throw, At, EmitTerminal
  <2>2. verdictOf(r) # None => verdictOf(r)' = verdictOf(r)
    <3> SUFFICES ASSUME verdictOf(r) # None PROVE verdictOf(r)' = verdictOf(r)
      OBVIOUS
    <3>1. stage[r] = "working" /\ settlement[r].cause # None
      BY <2>1, ViewsByStage
    <3>2. terminals' = terminals
      BY <1>4, <3>1 DEF Refuse, Start, Return, Throw, At
    <3> QED BY <3>2 DEF verdictOf
  <2> QED BY <2>1, <2>2, DecideStep DEF Contract!Next
<1>5. ASSUME NEW r \in Run, NEW cause \in Cause, Speak(r, cause)
      PROVE  Contract!Next \/ UNCHANGED Contract!contractVars
  <2>1. /\ stage[r] = "working" /\ stage'[r] = "working" /\ shown' = shown
        /\ \A q \in Run \ {r} : /\ stage'[q] = stage[q] /\ terminals'[q] = terminals[q]
                                 /\ result'[q] = result[q]
    BY <1>5, <1>a DEF TypeOK, Speak, EmitTerminal
  <2>2. verdictOf(r) = None
    BY <1>5, <2>1, ViewsByStage DEF Speak, LInv, StagesAgree, Agrees, Underway
  <2> QED BY <2>1, <2>2, DecideStep DEF Contract!Next
<1>6. ASSUME NEW r \in Run, Resolve(r) PROVE Contract!Next
  BY <1>6, CloseStep DEF Contract!Next
<1>7. ASSUME NEW r \in Run, Answer(r) PROVE UNCHANGED Contract!contractVars
  <2>1. /\ stage[r] \in Resolved /\ stage'[r] \in Answered
        /\ UNCHANGED <<terminals, shown, result>>
        /\ \A q \in Run \ {r} : stage'[q] = stage[q]
    BY <1>7, <1>a DEF Answer, At, TypeOK
  <2>2. \A q \in Run : phaseOf(q)' = phaseOf(q) /\ verdictOf(q)' = verdictOf(q)
                       /\ answerOf(q)' = answerOf(q)
    BY <2>1 DEF phaseOf, verdictOf, answerOf
  <2> QED BY <2>1, <2>2, ViewsAlone
<1>8. CASE UNCHANGED <<stage, terminals, shown, result>>
  BY <1>8 DEF Contract!contractVars
<1> QED BY <1>1, <1>2, <1>3, <1>4, <1>5, <1>6, <1>7, <1>8
        DEF Next, vars, LateUsage, PreviewReady, SnapshotReady, Cancel, EndSession

(* The lifecycle implements the contract: what the client was told and     *)
(* shown is what the result says, and a session has one open run.          *)
THEOREM LifecycleKeepsContract == Spec => KeepsContract
<1>1. Init => Contract!Init
  BY InitContract
<1>2. LInv /\ LInv' /\ [Next]_vars => [Contract!Next]_Contract!contractVars
  BY NextContract
<1> QED BY <1>1, <1>2, LifecycleInvariant, PTL DEF Spec, KeepsContract, Contract!Spec
-----------------------------------------------------------------------------
(* The kernel is the service its clients are checked with.  A step of a    *)
(* run moves that run's phase, and with it the lock, or nothing.           *)
LEMMA PhaseByStage ==
    ASSUME LInv, NEW r \in Run
    PROVE  /\ stage[r] \in {"idle", "workspace"} => terminals[r] = <<>>
           /\ stage[r] = "returned" => PhaseOf(r) = "concluded"
           /\ stage[r] = "workspace" => PhaseOf(r) = "working"
           /\ stage[r] = "idle" => PhaseOf(r) = "posted"
           /\ stage[r] = "working" =>
                 PhaseOf(r) = IF terminals[r] = <<>> THEN "working" ELSE "concluded"
           /\ stage[r] = "resolved" => PhaseOf(r) = "released"
           /\ stage[r] = "refused" => PhaseOf(r) = "refused"
           /\ stage[r] = "answered" => PhaseOf(r) = "finished"
           /\ stage[r] = "denied" => PhaseOf(r) = "denied"
<1>1. Agrees(r)
  BY DEF LInv, StagesAgree
<1>2. \A c : <<c>> # <<>>
  OBVIOUS
<1> QED BY <1>1, <1>2 DEF PhaseOf, Agrees, Untouched, Concluded

LEMMA PhaseOfOne ==
    ASSUME NEW r \in Run,
           \A q \in Run \ {r} : stage'[q] = stage[q] /\ terminals'[q] = terminals[q]
    PROVE  [q \in Run |-> PhaseOf(q)]' = [[q \in Run |-> PhaseOf(q)] EXCEPT ![r] = PhaseOf(r)']
  BY DEF PhaseOf

LEMMA InitService == Init => Service!Init
<1> SUFFICES ASSUME Init PROVE Service!Init
  OBVIOUS
<1>1. \A r \in Run : PhaseOf(r) = "posted" /\ SessionOf[r] \in Session
  BY RunAssumption DEF Init, PhaseOf
<1>2. SessionOf \in [Run -> Session \cup {None}] /\ active = {}
  BY RunAssumption DEF Init
<1> QED BY <1>1, <1>2 DEF Service!Init

LEMMA NextService ==
    LInv /\ LInv' /\ [Next]_vars => [Service!Next]_Service!serviceVars
<1> SUFFICES ASSUME LInv, LInv', [Next]_vars
             PROVE  Service!Next \/ UNCHANGED Service!serviceVars
  OBVIOUS
<1>a. TypeOK
  BY DEF LInv
<1>b. ASSUME NEW r \in Run, Service!Serve(r) PROVE Service!Next
  BY <1>b DEF Service!Next
<1>c. ASSUME NEW r \in Run, PhaseOf(r)' = PhaseOf(r), active' = active,
             \A q \in Run \ {r} : stage'[q] = stage[q] /\ terminals'[q] = terminals[q]
      PROVE  UNCHANGED Service!serviceVars
  <2>1. [q \in Run |-> PhaseOf(q)]' = [q \in Run |-> PhaseOf(q)]
    BY <1>c, PhaseOfOne
  <2> QED BY <1>c, <2>1 DEF Service!serviceVars
<1>1. ASSUME NEW r \in Run, Admit(r) PROVE Service!Next
  <2>1. /\ stage[r] = "idle" /\ stage'[r] = "workspace" /\ SessionOf[r] \notin active
        /\ active' = active \cup {SessionOf[r]} /\ terminals' = terminals
        /\ \A q \in Run \ {r} : stage'[q] = stage[q] /\ terminals'[q] = terminals[q]
    BY <1>1, <1>a DEF Admit, At, TypeOK
  <2>2. PhaseOf(r) = "posted" /\ PhaseOf(r)' = "working"
    BY <2>1, PhaseByStage DEF PhaseOf
  <2> QED
    BY <1>b, <2>1, <2>2, PhaseOfOne DEF Service!Serve, Service!Admit, Service!Moves
<1>2. ASSUME NEW r \in Run, Reject(r) PROVE Service!Next
  <2>1. /\ stage[r] = "idle" /\ stage'[r] = "refused" /\ SessionOf[r] \in active
        /\ active' = active
        /\ \A q \in Run \ {r} : stage'[q] = stage[q] /\ terminals'[q] = terminals[q]
    BY <1>2, <1>a DEF Reject, At, TypeOK
  <2>2. PhaseOf(r) = "posted" /\ PhaseOf(r)' = "refused"
    BY <2>1, PhaseByStage DEF PhaseOf
  <2> QED
    BY <1>b, <2>1, <2>2, PhaseOfOne DEF Service!Serve, Service!Refuse, Service!Moves
<1>3. ASSUME NEW r \in Run, NoWorkspace(r) PROVE Service!Next
  <2>1. /\ stage[r] = "workspace" /\ stage'[r] = "resolved" /\ Release(r)
        /\ \A q \in Run \ {r} : stage'[q] = stage[q] /\ terminals'[q] = terminals[q]
    BY <1>3, <1>a DEF NoWorkspace, At, TypeOK
  <2>2. PhaseOf(r) = "working" /\ PhaseOf(r)' = "released"
    BY <2>1, PhaseByStage DEF PhaseOf
  <2> QED
    BY <1>b, <2>1, <2>2, PhaseOfOne
    DEF Service!Serve, Service!Fail, Service!Moves, Service!Frees, Release
<1>4. ASSUME NEW r \in Run, Resolve(r) PROVE Service!Next
  <2>1. /\ stage[r] = "returned" /\ stage'[r] = "resolved" /\ Release(r)
        /\ \A q \in Run \ {r} : stage'[q] = stage[q] /\ terminals'[q] = terminals[q]
    BY <1>4, <1>a DEF Resolve, At, TypeOK
  <2>2. PhaseOf(r) = "concluded" /\ PhaseOf(r)' = "released"
    BY <2>1, PhaseByStage DEF PhaseOf
  <2> QED
    BY <1>b, <2>1, <2>2, PhaseOfOne
    DEF Service!Serve, Service!Release, Service!Moves, Service!Frees, Release
<1>5. ASSUME NEW r \in Run, Answer(r) PROVE Service!Next
  <2>1. /\ \/ stage[r] = "resolved" /\ stage'[r] = "answered"
           \/ stage[r] = "refused" /\ stage'[r] = "denied"
        /\ active' = active
        /\ \A q \in Run \ {r} : stage'[q] = stage[q] /\ terminals'[q] = terminals[q]
    BY <1>5, <1>a DEF Answer, At, TypeOK
  <2>2. \/ PhaseOf(r) = "released" /\ PhaseOf(r)' = "finished"
        \/ PhaseOf(r) = "refused" /\ PhaseOf(r)' = "denied"
    BY <2>1, PhaseByStage DEF PhaseOf
  <2> QED
    BY <1>b, <2>1, <2>2, PhaseOfOne DEF Service!Serve, Service!Answer, Service!Moves
(* The verdict is the first terminal, whoever speaks it.                   *)
<1>6. ASSUME NEW r \in Run, stage[r] \in {"workspace", "working"},
             stage'[r] \in {"working", "returned"}, active' = active,
             terminals[r] # <<>> => terminals'[r] # <<>>,
             \A q \in Run \ {r} : stage'[q] = stage[q] /\ terminals'[q] = terminals[q]
      PROVE  Service!Next \/ UNCHANGED Service!serviceVars
  <2>1. PhaseOf(r) \in {"working", "concluded"} /\ PhaseOf(r)' \in {"working", "concluded"}
    BY <1>6, PhaseByStage DEF PhaseOf
  <2>2. PhaseOf(r) = "concluded" => PhaseOf(r)' = "concluded"
    BY <1>6, PhaseByStage DEF PhaseOf
  <2>3. CASE PhaseOf(r)' = PhaseOf(r)
    BY <1>c, <1>6, <2>3
  <2>4. CASE PhaseOf(r) = "working" /\ PhaseOf(r)' = "concluded"
    <3>1. [q \in Run |-> PhaseOf(q)]' = [[q \in Run |-> PhaseOf(q)] EXCEPT ![r] = "concluded"]
      BY <1>6, <2>4, PhaseOfOne
    <3>2. [q \in Run |-> PhaseOf(q)][r] = "working"
      BY <2>4
    <3>3. Service!Conclude(r)
      BY <1>6, <3>1, <3>2 DEF Service!Conclude, Service!Moves
    <3>4. Service!Serve(r)
      BY <3>3 DEF Service!Serve
    <3> QED BY <1>b, <3>4
  <2> QED BY <2>1, <2>2, <2>3, <2>4
<1>d. ASSUME NEW r \in Run, NEW c \in Cause PROVE Append(terminals[r], c) # <<>>
  <2>1. terminals[r] \in Seq(Cause)
    BY <1>a DEF TypeOK
  <2>2. Len(Append(terminals[r], c)) = Len(terminals[r]) + 1 /\ Len(terminals[r]) \in Nat
    BY <2>1
  <2>3. Len(<<>>) = 0
    OBVIOUS
  <2> QED BY <2>2, <2>3
<1>7. ASSUME NEW r \in Run, Refuse(r) \/ Start(r) \/ Return(r) \/ Throw(r)
      PROVE  Service!Next \/ UNCHANGED Service!serviceVars
  <2>1. /\ stage[r] \in {"workspace", "working"} /\ stage'[r] \in {"working", "returned"}
        /\ active' = active
        /\ \A q \in Run \ {r} : stage'[q] = stage[q] /\ terminals'[q] = terminals[q]
    BY <1>7, <1>a DEF TypeOK, Refuse, Start, Return, Throw, At, EmitTerminal
  <2>2. terminals[r] # <<>> => terminals'[r] # <<>>
    BY <1>7, <1>a, <1>d DEF TypeOK, Refuse, Start, Return, Throw, EmitTerminal
  <2> QED BY <1>6, <2>1, <2>2
<1>8. ASSUME NEW r \in Run, NEW cause \in Cause, Speak(r, cause)
      PROVE  Service!Next \/ UNCHANGED Service!serviceVars
  <2>1. /\ stage[r] = "working" /\ stage'[r] = "working" /\ active' = active
        /\ \A q \in Run \ {r} : stage'[q] = stage[q] /\ terminals'[q] = terminals[q]
        /\ terminals'[r] = Append(terminals[r], cause)
    BY <1>8, <1>a DEF TypeOK, Speak, EmitTerminal
  <2> QED BY <1>6, <1>d, <2>1
<1>9. CASE UNCHANGED <<stage, terminals, active>>
  BY <1>9 DEF Service!serviceVars, PhaseOf
<1> QED BY <1>1, <1>2, <1>3, <1>4, <1>5, <1>7, <1>8, <1>9
        DEF Next, vars, Usage, LateUsage, PreviewReady, SnapshotReady, Cancel, EndSession

(* The kernel serves its clients as module KernelService says: the session *)
(* is held from admission to after the verdict, a refused message leaves   *)
(* it alone, and the answer comes when it is free (kernel/index.ts:230-312,*)
(* http.ts:516-532).                                                       *)
THEOREM LifecycleServesClients == Spec => ServesClients
<1>1. Init => Service!Init
  BY InitService
<1>2. LInv /\ LInv' /\ [Next]_vars => [Service!Next]_Service!serviceVars
  BY NextService
<1> QED BY <1>1, <1>2, LifecycleInvariant, PTL DEF Spec, ServesClients, Service!Spec
=============================================================================
