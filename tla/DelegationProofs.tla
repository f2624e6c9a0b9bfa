-------------------------- MODULE DelegationProofs --------------------------
(***************************************************************************)
(* Proofs about module Delegation, for any tasks, keys and bound on usage. *)
(*                                                                         *)
(* Workspaces are apart because a session is of one depth: it is named by  *)
(* the call that opened it, everything sent to it is as deep as that call, *)
(* and a run is deeper than those that wait for it.                        *)
(*                                                                         *)
(* Bills are sums over the tree, which grows while the bills run up: a     *)
(* task used nothing before it was put below anyone, and an event adds one *)
(* to the sums that have its run. What a sum over a finite set is needs no *)
(* induction theorem: a set where an equation fails would have a smallest  *)
(* one, and there it holds.                                                *)
(***************************************************************************)
EXTENDS Delegation, FiniteSetTheorems, WellFoundedInduction, TLAPS

(* The run has been given a session; a refused task never is.              *)
Started(n) == session[n] # None

SessionInv ==
    /\ session[Root] = Root /\ depth[Root] = 0 /\ stage[Root] \in {"running", "settled"}
    /\ \A n \in Node : stage[n] = "idle" => ~Started(n) /\ lineage[n] = {n}
    /\ \A n \in Node : stage[n] \in {"workspace", "running"} => Started(n)
    /\ \A t \in Task : Started(t) =>
          /\ session[t] \in Task
          /\ session[session[t]] = session[t]
          /\ key[session[t]] = key[t]
          /\ depth[session[t]] = depth[t]

(* children[s][k] is a session one below s, opened for k.                  *)
ChildrenInv ==
    \A s \in Node, k \in Key : children[s][k] # None =>
        LET c == children[s][k] IN
        /\ c \in Task /\ session[c] = c /\ key[c] = k
        /\ session[s] = s /\ depth[c] = depth[s] + 1

LineageInv ==
    \A n \in Node :
        /\ n \in lineage[n]
        /\ \A m \in lineage[n] \ {n} : Started(m) /\ Started(n) /\ depth[m] < depth[n]

SandboxInv == \A s \in Node : sandbox[s] # None => session[sandbox[s]] = s

Frame == {"child_started", "child_settled"} \X Task
Written(f) == \E i \in 1..Len(frames) : frames[i] = f

(* What is on the top stream of a task, by how far it is.                  *)
FramesInv ==
    /\ frames \in Seq(Frame)
    /\ \A t \in Task :
          /\ stage[t] = "idle" => ~Written(<<"child_started", t>>)
          /\ stage[t] # "settled" => ~Written(<<"child_settled", t>>)

DInv ==
    /\ TypeOK /\ SessionInv /\ ChildrenInv /\ LineageInv /\ SandboxInv
    /\ OnlyOwnTerminalSettles /\ FramesInv /\ BracketsClose
-----------------------------------------------------------------------------
LEMMA Appended ==
    ASSUME NEW S, NEW q \in Seq(S), NEW x \in S
    PROVE  /\ Append(q, x) \in Seq(S)
           /\ Len(q) \in Nat /\ Len(Append(q, x)) = Len(q) + 1
           /\ \A i \in 1..Len(q) : Append(q, x)[i] = q[i]
           /\ Append(q, x)[Len(q) + 1] = x
  OBVIOUS

(* A frame nobody has written yet can be written, and what was on the      *)
(* stream stays.                                                           *)
LEMMA WriteFrame ==
    ASSUME FramesInv, NEW f \in Frame, frames' = Append(frames, f)
    PROVE  /\ frames' \in Seq(Frame)
           /\ \A g : Written(g)' <=> Written(g) \/ g = f
           /\ Len(frames) \in Nat /\ Len(frames') = Len(frames) + 1
           /\ \A i \in 1..Len(frames) : frames'[i] = frames[i]
           /\ frames'[Len(frames) + 1] = f
<1>1. frames \in Seq(Frame)
  BY DEF FramesInv
<1>2. /\ frames' \in Seq(Frame)
      /\ Len(frames) \in Nat /\ Len(frames') = Len(frames) + 1
      /\ \A i \in 1..Len(frames) : frames'[i] = frames[i]
      /\ frames'[Len(frames) + 1] = f
  <2> HIDE DEF Frame
  <2> QED
    BY <1>1, Appended
<1>3. ASSUME NEW g PROVE Written(g)' <=> Written(g) \/ g = f
  <2>1. ASSUME NEW i \in 1..Len(frames'), frames'[i] = g PROVE Written(g) \/ g = f
    <3>1. i \in 1..Len(frames) \/ i = Len(frames) + 1
      BY <1>2, <2>1
    <3> QED
      BY <1>2, <2>1, <3>1 DEF Written
  <2>2. ASSUME Written(g) PROVE Written(g)'
    <3>1. PICK i \in 1..Len(frames) : frames[i] = g
      BY <2>2 DEF Written
    <3>2. i \in 1..Len(frames') /\ frames'[i] = g
      BY <1>2, <3>1
    <3> QED
      BY <3>2 DEF Written
  <2>3. Len(frames) + 1 \in 1..Len(frames') /\ frames'[Len(frames) + 1] = f
    BY <1>2
  <2> QED
    BY <2>1, <2>2, <2>3 DEF Written
<1> QED
  BY <1>2, <1>3

(* The brackets survive a step that writes nothing and settles only tasks  *)
(* that were not announced.                                                *)
LEMMA QuietFrames ==
    ASSUME FramesInv, BracketsClose, UNCHANGED frames,
           \A u \in Task :
              /\ stage'[u] = "idle" => stage[u] = "idle"
              /\ stage'[u] # "settled" => stage[u] # "settled"
              /\ stage'[u] = "settled" => stage[u] \in {"settled", "idle"}
    PROVE  FramesInv' /\ BracketsClose'
<1>1. FramesInv'
  BY DEF FramesInv, Written
<1>2. ASSUME NEW u \in Task, stage'[u] = "settled", NEW i \in 1..Len(frames),
             frames[i] = <<"child_started", u>>
      PROVE  \E j \in i..Len(frames) : frames[j] = <<"child_settled", u>>
  <2>1. stage[u] = "settled"
    BY <1>2 DEF FramesInv, Written
  <2> QED
    BY <1>2, <2>1 DEF BracketsClose
<1> QED
  BY <1>1, <1>2 DEF BracketsClose

(* They survive a step that announces an idle task.                        *)
LEMMA OpensBracket ==
    ASSUME FramesInv, BracketsClose, NEW t \in Task, stage[t] = "idle",
           frames' = Append(frames, <<"child_started", t>>),
           stage'[t] \notin {"idle", "settled"},
           \A u \in Task \ {t} : stage'[u] = stage[u]
    PROVE  FramesInv' /\ BracketsClose'
<1> DEFINE f == <<"child_started", t>>
<1>1. f \in Frame
  BY DEF Frame
<1>2. /\ frames' \in Seq(Frame)
      /\ \A g : Written(g)' <=> Written(g) \/ g = f
      /\ Len(frames) \in Nat /\ Len(frames') = Len(frames) + 1
      /\ \A i \in 1..Len(frames) : frames'[i] = frames[i]
      /\ frames'[Len(frames) + 1] = f
  BY <1>1, WriteFrame
<1>3. ~Written(f)
  BY DEF FramesInv
<1>4. FramesInv'
  <2>1. ASSUME NEW u \in Task
        PROVE  /\ stage'[u] = "idle" => ~Written(<<"child_started", u>>)'
               /\ stage'[u] # "settled" => ~Written(<<"child_settled", u>>)'
    <3>1. <<"child_settled", u>> # f /\ (u # t => <<"child_started", u>> # f)
      OBVIOUS
    <3>2. /\ stage[u] = "idle" => ~Written(<<"child_started", u>>)
          /\ stage[u] # "settled" => ~Written(<<"child_settled", u>>)
      BY DEF FramesInv
    <3> HIDE DEF f
    <3>3. CASE u = t
      BY <1>2, <3>1, <3>2, <3>3
    <3>4. CASE u # t
      BY <1>2, <3>1, <3>2, <3>4
    <3> QED
      BY <3>3, <3>4
  <2> QED
    BY <1>2, <2>1 DEF FramesInv
<1>5. ASSUME NEW i \in 1..Len(frames'), NEW j \in 1..Len(frames'), frames'[i] = frames'[j]
      PROVE  i = j
  <2> HIDE DEF f
  <2>1. (i \in 1..Len(frames) \/ i = Len(frames) + 1) /\ (j \in 1..Len(frames) \/ j = Len(frames) + 1)
    BY <1>2, <1>5
  <2>2. \A n \in 1..Len(frames) : frames[n] # f
    BY <1>3 DEF Written
  <2> QED
    BY <1>2, <1>5, <2>1, <2>2 DEF BracketsClose
<1>6. ASSUME NEW u \in Task, stage'[u] = "settled", NEW i \in 1..Len(frames'),
             frames'[i] = <<"child_started", u>>
      PROVE  \E j \in i..Len(frames') : frames'[j] = <<"child_settled", u>>
  <2>1. u # t /\ stage[u] = "settled" /\ <<"child_started", u>> # f
    BY <1>6
  <2> HIDE DEF f
  <2>2. i \in 1..Len(frames)
    BY <1>2, <1>6, <2>1
  <2>3. frames[i] = <<"child_started", u>>
    BY <1>2, <1>6, <2>2
  <2>4. PICK j \in i..Len(frames) : frames[j] = <<"child_settled", u>>
    BY <2>1, <2>2, <2>3 DEF BracketsClose
  <2>5. j \in 1..Len(frames) /\ j \in i..Len(frames')
    BY <1>2, <2>2, <2>4
  <2> QED
    BY <1>2, <2>4, <2>5
<1> QED
  BY <1>4, <1>5, <1>6 DEF BracketsClose

(* They survive a step that settles a task and says so.                    *)
LEMMA ClosesBracket ==
    ASSUME FramesInv, BracketsClose, NEW t \in Task, stage[t] \in {"workspace", "running"},
           frames' = Append(frames, <<"child_settled", t>>),
           stage'[t] = "settled",
           \A u \in Task \ {t} : stage'[u] = stage[u]
    PROVE  FramesInv' /\ BracketsClose'
<1> DEFINE f == <<"child_settled", t>>
<1>1. f \in Frame
  BY DEF Frame
<1>2. /\ frames' \in Seq(Frame)
      /\ \A g : Written(g)' <=> Written(g) \/ g = f
      /\ Len(frames) \in Nat /\ Len(frames') = Len(frames) + 1
      /\ \A i \in 1..Len(frames) : frames'[i] = frames[i]
      /\ frames'[Len(frames) + 1] = f
  BY <1>1, WriteFrame
<1>3. ~Written(f)
  BY DEF FramesInv
<1>4. FramesInv'
  <2>1. ASSUME NEW u \in Task
        PROVE  /\ stage'[u] = "idle" => ~Written(<<"child_started", u>>)'
               /\ stage'[u] # "settled" => ~Written(<<"child_settled", u>>)'
    <3>1. <<"child_started", u>> # f /\ (u # t => <<"child_settled", u>> # f)
      OBVIOUS
    <3>2. /\ stage[u] = "idle" => ~Written(<<"child_started", u>>)
          /\ stage[u] # "settled" => ~Written(<<"child_settled", u>>)
      BY DEF FramesInv
    <3> HIDE DEF f
    <3>3. CASE u = t
      BY <1>2, <3>1, <3>2, <3>3
    <3>4. CASE u # t
      BY <1>2, <3>1, <3>2, <3>4
    <3> QED
      BY <3>3, <3>4
  <2> QED
    BY <1>2, <2>1 DEF FramesInv
<1>5. ASSUME NEW i \in 1..Len(frames'), NEW j \in 1..Len(frames'), frames'[i] = frames'[j]
      PROVE  i = j
  <2> HIDE DEF f
  <2>1. (i \in 1..Len(frames) \/ i = Len(frames) + 1) /\ (j \in 1..Len(frames) \/ j = Len(frames) + 1)
    BY <1>2, <1>5
  <2>2. \A n \in 1..Len(frames) : frames[n] # f
    BY <1>3 DEF Written
  <2> QED
    BY <1>2, <1>5, <2>1, <2>2 DEF BracketsClose
<1>6. ASSUME NEW u \in Task, stage'[u] = "settled", NEW i \in 1..Len(frames'),
             frames'[i] = <<"child_started", u>>
      PROVE  \E j \in i..Len(frames') : frames'[j] = <<"child_settled", u>>
  <2>1. <<"child_started", u>> # f
    OBVIOUS
  <2>2. i \in 1..Len(frames)
    <3> HIDE DEF f
    <3> QED
      BY <1>2, <1>6, <2>1
  <2>3. CASE u = t
    <3>1. Len(frames) + 1 \in i..Len(frames')
      BY <1>2, <2>2
    <3> QED
      BY <1>2, <2>3, <3>1
  <2>4. CASE u # t
    <3>1. frames[i] = <<"child_started", u>> /\ stage[u] = "settled"
      BY <1>2, <1>6, <2>2, <2>4
    <3>2. PICK j \in i..Len(frames) : frames[j] = <<"child_settled", u>>
      BY <2>2, <3>1 DEF BracketsClose
    <3>3. j \in 1..Len(frames) /\ j \in i..Len(frames')
      BY <1>2, <2>2, <3>2
    <3> QED
      BY <1>2, <3>2, <3>3
  <2> QED
    BY <2>3, <2>4
<1> QED
  BY <1>4, <1>5, <1>6 DEF BracketsClose
-----------------------------------------------------------------------------
(* Sums over finite sets.                                                  *)
LEMMA LeastNat ==
    ASSUME NEW T \in SUBSET Nat, T # {}
    PROVE  \E m \in T : \A x \in T : m <= x
<1>1. IsWellFoundedOn(OpToRel(<, Nat), Nat)
  BY NatLessThanWellFounded
<1>2. PICK m \in T : \A x \in T : ~(<<x, m>> \in OpToRel(<, Nat))
  BY <1>1, WFMin, Zenon
<1>3. ASSUME NEW x \in T PROVE m <= x
  <2>1. ~(x < m)
    BY <1>2 DEF OpToRel
  <2> QED BY <2>1
<1> QED BY <1>3

(* The equation of the recursive function a fold is made of.               *)
Pick(s) == CHOOSE x \in s : TRUE
IsSum(f, S, g) ==
    g = [s \in SUBSET S |-> IF s = {} THEN 0 ELSE f[Pick(s)] + g[s \ {Pick(s)}]]
Sums(f, S) == CHOOSE g : IsSum(f, S, g)
SumOn(f, S) == FoldFunctionOnSet(+, 0, f, S)

LEMMA SumUnfolds ==
    ASSUME NEW f, NEW S
    PROVE  SumOn(f, S) = Sums(f, S)[S]
  BY DEF SumOn, FoldFunctionOnSet, MapThenFoldSet, Sums, IsSum, Pick

LEMMA PickIn == \A s : s # {} => Pick(s) \in s
  BY DEF Pick

LEMMA SumsExist ==
    ASSUME NEW S, IsFiniteSet(S), NEW f
    PROVE  IsSum(f, S, Sums(f, S))
<1> DEFINE Dom(n) == {s \in SUBSET S : Cardinality(s) <= n}
           Good(n) == \E g : g = [s \in Dom(n) |->
                          IF s = {} THEN 0 ELSE f[Pick(s)] + g[s \ {Pick(s)}]]
           Bad == {n \in Nat : ~Good(n)}
<1>1. \A s \in SUBSET S : IsFiniteSet(s) /\ Cardinality(s) \in Nat /\ Cardinality(s) <= Cardinality(S)
  BY FS_Subset, FS_CardinalityType
<1>2. \A s \in SUBSET S : s # {} =>
        s \ {Pick(s)} \in SUBSET S /\ Cardinality(s \ {Pick(s)}) = Cardinality(s) - 1
  BY <1>1, PickIn, FS_RemoveElement
<1>3. Good(0)
  <2>1. Dom(0) = {{}}
    BY <1>1, FS_EmptySet
  <2> DEFINE g == [s \in Dom(0) |-> 0]
  <2>2. g = [s \in Dom(0) |-> IF s = {} THEN 0 ELSE f[Pick(s)] + g[s \ {Pick(s)}]]
    BY <2>1
  <2> QED BY <2>2
<1>4. ASSUME NEW n \in Nat, Good(n) PROVE Good(n + 1)
  <2>1. PICK g : g = [s \in Dom(n) |->
                          IF s = {} THEN 0 ELSE f[Pick(s)] + g[s \ {Pick(s)}]]
    BY <1>4
  <2> DEFINE h == [s \in Dom(n + 1) |->
                     IF s \in Dom(n) THEN g[s] ELSE f[Pick(s)] + g[s \ {Pick(s)}]]
  <2>2. ASSUME NEW s \in Dom(n + 1)
        PROVE  h[s] = IF s = {} THEN 0 ELSE f[Pick(s)] + h[s \ {Pick(s)}]
    <3>1. s = {} => s \in Dom(n)
      BY FS_EmptySet
    <3>2. CASE s = {}
      <4>1. g[s] = 0
        BY <2>1, <3>1, <3>2
      <4> QED BY <3>1, <3>2, <4>1
    <3>3. CASE s # {}
      <4> DEFINE r == s \ {Pick(s)}
      <4>1. r \in SUBSET S /\ Cardinality(r) = Cardinality(s) - 1 /\ Cardinality(s) \in Nat
        BY <1>1, <1>2, <3>3
      <4>2. r \in Dom(n) /\ r \in Dom(n + 1)
        BY <4>1
      <4>3. h[r] = g[r]
        BY <4>2
      <4>4. s \in Dom(n) => g[s] = f[Pick(s)] + g[r]
        BY <2>1, <3>3
      <4>5. h[s] = IF s \in Dom(n) THEN g[s] ELSE f[Pick(s)] + g[r]
        OBVIOUS
      <4>6. h[s] = f[Pick(s)] + h[r]
        BY <4>3, <4>4, <4>5
      <4> QED BY <3>3, <4>6
    <3> QED BY <3>2, <3>3
  <2>3. h = [s \in Dom(n + 1) |-> IF s = {} THEN 0 ELSE f[Pick(s)] + h[s \ {Pick(s)}]]
    <3>1. h = [s \in Dom(n + 1) |-> h[s]]
      OBVIOUS
    <3> HIDE DEF h, Dom
    <3> QED BY <2>2, <3>1, Zenon
  <2> HIDE DEF h
  <2> QED BY <2>3
<1>5. Bad = {}
  <2> SUFFICES ASSUME Bad # {} PROVE FALSE
    OBVIOUS
  <2>1. PICK m \in Bad : \A x \in Bad : m <= x
    <3> HIDE DEF Good
    <3> QED BY LeastNat
  <2>2. m \in Nat /\ m # 0
    <3>1. m \in Nat /\ ~Good(m)
      <4> HIDE DEF Good
      <4> QED BY <2>1
    <3> HIDE DEF Good, Bad
    <3> QED BY <1>3, <3>1
  <2>3. m - 1 \in Nat /\ (m - 1) + 1 = m /\ ~(m <= m - 1)
    BY <2>2
  <2>4. Good(m - 1)
    <3> HIDE DEF Good
    <3> QED BY <2>1, <2>3
  <2>5. Good((m - 1) + 1)
    <3> HIDE DEF Good
    <3> QED BY <1>4, <2>3, <2>4
  <2> HIDE DEF Good
  <2> QED BY <2>3, <2>5
<1>6. Cardinality(S) \in Nat
  BY <1>1
<1>7. Good(Cardinality(S))
  <2> HIDE DEF Good
  <2> QED BY <1>5, <1>6
<1>8. Dom(Cardinality(S)) = SUBSET S
  BY <1>1
<1>9. \E g : IsSum(f, S, g)
  <2> HIDE DEF Dom
  <2> QED BY <1>7, <1>8 DEF IsSum
<1> QED
  BY <1>9 DEF Sums

(* The sum is a number, and any element of the set may be taken off it.    *)
LEMMA SumsStep ==
    ASSUME NEW S, IsFiniteSet(S), NEW f, \A x \in S : f[x] \in Nat
    PROVE  /\ Sums(f, S)[{}] = 0
           /\ \A s \in SUBSET S : s # {} =>
                 Sums(f, S)[s] = f[Pick(s)] + Sums(f, S)[s \ {Pick(s)}]
           /\ \A s \in SUBSET S : Sums(f, S)[s] \in Nat
<1> DEFINE g == Sums(f, S)
           Bad == {Cardinality(s) : s \in {r \in SUBSET S : g[r] \notin Nat}}
<1>1. g = [s \in SUBSET S |-> IF s = {} THEN 0 ELSE f[Pick(s)] + g[s \ {Pick(s)}]]
  BY SumsExist DEF IsSum
<1> HIDE DEF g
<1>2. g[{}] = 0
  BY <1>1
<1>3. \A s \in SUBSET S : s # {} => g[s] = f[Pick(s)] + g[s \ {Pick(s)}]
  BY <1>1
<1>4. \A s \in SUBSET S : IsFiniteSet(s) /\ Cardinality(s) \in Nat
  BY FS_Subset, FS_CardinalityType
<1>5. ASSUME NEW r \in SUBSET S, g[r] \notin Nat PROVE FALSE
  <2>1. Bad \in SUBSET Nat /\ Bad # {}
    BY <1>4, <1>5
  <2>2. PICK m \in Bad : \A x \in Bad : m <= x
    <3> HIDE DEF Bad
    <3> QED BY <2>1, LeastNat
  <2>3. PICK s \in SUBSET S : g[s] \notin Nat /\ m = Cardinality(s)
    OBVIOUS
  <2>4. s # {}
    BY <1>2, <2>3
  <2> DEFINE p == Pick(s)
  <2>5. p \in s /\ f[p] \in Nat
    BY <2>4, PickIn
  <2>6. s \ {p} \in SUBSET S /\ Cardinality(s \ {p}) = Cardinality(s) - 1
    BY <1>4, <2>5, FS_RemoveElement
  <2>7. Cardinality(s) \in Nat
    BY <1>4
  <2>8. g[s] = f[p] + g[s \ {p}]
    BY <1>3, <2>4
  <2> HIDE DEF p
  <2>9. g[s \ {p}] \notin Nat
    BY <2>3, <2>5, <2>8
  <2>10. Cardinality(s \ {p}) \in Bad
    BY <2>6, <2>9
  <2>11. m <= Cardinality(s \ {p})
    BY <2>2, <2>10
  <2> QED BY <2>3, <2>6, <2>7, <2>11
<1> QED
  BY <1>2, <1>3, <1>5 DEF g

LEMMA Swapped ==
    ASSUME NEW a \in Nat, NEW b \in Nat, NEW c \in Nat
    PROVE  a + (b + c) = b + (a + c)
  OBVIOUS

LEMMA SumsAnyOrder ==
    ASSUME NEW S, IsFiniteSet(S), NEW f, \A x \in S : f[x] \in Nat
    PROVE  \A s \in SUBSET S : \A x \in s :
              Sums(f, S)[s] = f[x] + Sums(f, S)[s \ {x}]
<1> DEFINE g == Sums(f, S)
           Off(s) == \E x \in s : g[s] # f[x] + g[s \ {x}]
           Bad == {Cardinality(s) : s \in {r \in SUBSET S : Off(r)}}
<1>2. \A s \in SUBSET S : s # {} => g[s] = f[Pick(s)] + g[s \ {Pick(s)}]
  BY SumsStep
<1>3. \A s \in SUBSET S : g[s] \in Nat
  BY SumsStep
<1> HIDE DEF g
<1>4. \A s \in SUBSET S : IsFiniteSet(s) /\ Cardinality(s) \in Nat
  BY FS_Subset, FS_CardinalityType
<1>5. ASSUME NEW r \in SUBSET S, Off(r) PROVE FALSE
  <2>1. Bad \in SUBSET Nat /\ Bad # {}
    <3> HIDE DEF Off
    <3> QED BY <1>4, <1>5
  <2>2. PICK m \in Bad : \A x \in Bad : m <= x
    <3> HIDE DEF Bad
    <3> QED BY <2>1, LeastNat
  <2>3. PICK s \in SUBSET S : Off(s) /\ m = Cardinality(s)
    <3> HIDE DEF Off
    <3> QED OBVIOUS
  <2>4. PICK x \in s : g[s] # f[x] + g[s \ {x}]
    BY <2>3
  <2> DEFINE p == Pick(s)
  <2>5. p \in s
    BY PickIn
  <2>6. g[s] = f[p] + g[s \ {p}]
    BY <1>2
  <2> HIDE DEF p
  <2>7. p # x
    BY <2>4, <2>6
  <2>8. /\ s \ {p} \in SUBSET S /\ Cardinality(s \ {p}) = Cardinality(s) - 1
        /\ s \ {x} \in SUBSET S /\ Cardinality(s \ {x}) = Cardinality(s) - 1
        /\ Cardinality(s) \in Nat
    BY <1>4, <2>5, FS_RemoveElement
  <2>9. ~Off(s \ {p}) /\ ~Off(s \ {x})
    <3> HIDE DEF Off
    <3> SUFFICES ASSUME NEW t \in {s \ {p}, s \ {x}}, Off(t) PROVE FALSE
      OBVIOUS
    <3>1. Cardinality(t) \in Bad
      BY <2>8
    <3>2. m <= Cardinality(t)
      BY <2>2, <3>1
    <3> QED BY <2>3, <2>8, <3>2
  <2>10. g[s \ {p}] = f[x] + g[(s \ {p}) \ {x}]
    BY <2>7, <2>9
  <2>11. g[s \ {x}] = f[p] + g[(s \ {x}) \ {p}]
    BY <2>5, <2>7, <2>9
  <2> DEFINE rest == (s \ {p}) \ {x}
  <2>12. rest = (s \ {x}) \ {p} /\ rest \in SUBSET S
    OBVIOUS
  <2> HIDE DEF rest
  <2>13. g[rest] \in Nat /\ f[x] \in Nat /\ f[p] \in Nat
    BY <1>3, <2>5, <2>12
  <2>14. f[p] + (f[x] + g[rest]) = f[x] + (f[p] + g[rest])
    BY <2>13, Swapped
  <2>15. g[s] = f[p] + (f[x] + g[rest]) /\ g[s \ {x}] = f[p] + g[rest]
    BY <2>6, <2>10, <2>11, <2>12 DEF rest
  <2> QED
    BY <2>4, <2>14, <2>15
<1> QED
  BY <1>5 DEF g

(* Two sums agree on a set where their terms do.                           *)
LEMMA SumsAgree ==
    ASSUME NEW S, IsFiniteSet(S), NEW f, \A x \in S : f[x] \in Nat,
           NEW R, IsFiniteSet(R), NEW h, \A x \in R : h[x] \in Nat,
           NEW s0 \in SUBSET S, s0 \in SUBSET R, \A x \in s0 : f[x] = h[x]
    PROVE  Sums(f, S)[s0] = Sums(h, R)[s0]
<1> DEFINE g == Sums(f, S)
           k == Sums(h, R)
           Bad == {Cardinality(s) : s \in {r \in SUBSET s0 : g[r] # k[r]}}
<1>1. /\ g[{}] = 0
      /\ \A s \in SUBSET S : s # {} => g[s] = f[Pick(s)] + g[s \ {Pick(s)}]
  BY SumsStep
<1>2. /\ k[{}] = 0
      /\ \A s \in SUBSET R : s # {} => k[s] = h[Pick(s)] + k[s \ {Pick(s)}]
  BY SumsStep
<1> HIDE DEF g, k
<1>4. \A s \in SUBSET s0 : IsFiniteSet(s) /\ Cardinality(s) \in Nat
  BY FS_Subset, FS_CardinalityType
<1>5. ASSUME g[s0] # k[s0] PROVE FALSE
  <2>1. Bad \in SUBSET Nat /\ Bad # {}
    BY <1>4, <1>5
  <2>2. PICK m \in Bad : \A x \in Bad : m <= x
    <3> HIDE DEF Bad
    <3> QED BY <2>1, LeastNat
  <2>3. PICK s \in SUBSET s0 : g[s] # k[s] /\ m = Cardinality(s)
    OBVIOUS
  <2>4. s # {}
    BY <1>1, <1>2, <2>3
  <2> DEFINE p == Pick(s)
  <2>5. p \in s
    BY <2>4, PickIn
  <2>6. g[s] = f[p] + g[s \ {p}] /\ k[s] = h[p] + k[s \ {p}]
    BY <1>1, <1>2, <2>4
  <2> HIDE DEF p
  <2>7. f[p] = h[p]
    BY <2>5
  <2>8. s \ {p} \in SUBSET s0 /\ Cardinality(s \ {p}) = Cardinality(s) - 1 /\ Cardinality(s) \in Nat
    BY <1>4, <2>5, FS_RemoveElement
  <2>9. g[s \ {p}] # k[s \ {p}]
    BY <2>3, <2>6, <2>7
  <2>10. Cardinality(s \ {p}) \in Bad
    BY <2>8, <2>9
  <2>11. m <= Cardinality(s \ {p})
    BY <2>2, <2>10
  <2> QED BY <2>3, <2>8, <2>11
<1> QED
  BY <1>5 DEF g, k

(* So the sum over a finite set is a number; it is the same for functions  *)
(* that agree on the set; a term can be taken out of it; and raising a     *)
(* term by one raises the sums over the sets with that term, by one.       *)
LEMMA SumIsNat ==
    ASSUME NEW S, IsFiniteSet(S), NEW f, \A x \in S : f[x] \in Nat
    PROVE  SumOn(f, S) \in Nat
  BY SumsStep, SumUnfolds

LEMMA SumAgrees ==
    ASSUME NEW S, IsFiniteSet(S), NEW f, NEW h,
           \A x \in S : f[x] \in Nat /\ h[x] = f[x]
    PROVE  SumOn(h, S) = SumOn(f, S)
<1>1. Sums(f, S)[S] = Sums(h, S)[S]
  BY SumsAgree
<1> QED
  BY <1>1, SumUnfolds

LEMMA SumTakesOff ==
    ASSUME NEW S, IsFiniteSet(S), NEW f, \A y \in S : f[y] \in Nat, NEW x \in S
    PROVE  SumOn(f, S) = f[x] + SumOn(f, S \ {x})
<1>1. Sums(f, S)[S] = f[x] + Sums(f, S)[S \ {x}]
  BY SumsAnyOrder
<1>2. IsFiniteSet(S \ {x})
  BY FS_RemoveElement
<1>3. Sums(f, S)[S \ {x}] = Sums(f, S \ {x})[S \ {x}]
  BY <1>2, SumsAgree
<1> QED
  BY <1>1, <1>3, SumUnfolds

LEMMA SumIncremented ==
    ASSUME NEW S, IsFiniteSet(S), NEW f, \A y \in S : f[y] \in Nat, NEW x,
           NEW h, \A y \in S : h[y] = IF y = x THEN f[y] + 1 ELSE f[y]
    PROVE  SumOn(h, S) = IF x \in S THEN SumOn(f, S) + 1 ELSE SumOn(f, S)
<1>1. CASE x \notin S
  BY <1>1, SumAgrees
<1>2. CASE x \in S
  <2>1. IsFiniteSet(S \ {x})
    BY FS_RemoveElement
  <2>2. SumOn(h, S \ {x}) = SumOn(f, S \ {x})
    BY <2>1, SumAgrees
  <2>3. SumOn(f, S \ {x}) \in Nat
    BY <2>1, SumIsNat
  <2>4. \A y \in S : h[y] \in Nat
    OBVIOUS
  <2>5. SumOn(h, S) = h[x] + SumOn(h, S \ {x})
    BY <1>2, <2>4, SumTakesOff
  <2>6. SumOn(f, S) = f[x] + SumOn(f, S \ {x})
    BY <1>2, SumTakesOff
  <2>7. h[x] = f[x] + 1 /\ f[x] \in Nat
    BY <1>2
  <2> QED
    BY <1>2, <2>2, <2>3, <2>5, <2>6, <2>7
<1> QED
  BY <1>1, <1>2

LEMMA SumOverZero ==
    ASSUME NEW S, IsFiniteSet(S), NEW f, \A y \in S : f[y] \in Nat,
           NEW x \in S, f[x] = 0
    PROVE  SumOn(f, S) = SumOn(f, S \ {x})
<1>1. IsFiniteSet(S \ {x})
  BY FS_RemoveElement
<1>2. SumOn(f, S \ {x}) \in Nat
  BY <1>1, SumIsNat
<1>3. SumOn(f, S) = f[x] + SumOn(f, S \ {x})
  BY SumTakesOff
<1> QED
  BY <1>2, <1>3
-----------------------------------------------------------------------------
USE TaskAssumption, KeyAssumption DEF Node, MAX_DELEGATION_DEPTH

LEMMA InitDInv == Init => DInv
<1> SUFFICES ASSUME Init PROVE DInv
  OBVIOUS
<1>1. TypeOK
  <2>1. /\ own \in [Node -> 0..MaxUsage]
        /\ billed \in [Node -> Nat]
        /\ depth \in [Node -> 0..MAX_DELEGATION_DEPTH]
    BY DEF Init
  <2>2. /\ stage \in [Node -> {"idle", "workspace", "running", "settled"}]
        /\ key \in [Task -> Key \cup {None}]
        /\ lineage \in [Node -> SUBSET Node]
        /\ session \in [Node -> Node \cup {None}]
        /\ children \in [Node -> [Key -> Node \cup {None}]]
        /\ sandbox \in [Node -> Task \cup {None}]
        /\ cause \in [Node -> Cause \cup {None}]
        /\ spoken \in [Node -> Cause \cup {None}]
    BY DEF Init
  <2>3. live \subseteq Task /\ ended \in BOOLEAN
    BY DEF Init
  <2>4. <<>> \in Seq(Cause) /\ told = <<>>
    BY DEF Init
  <2> QED
    BY <2>1, <2>2, <2>3, <2>4 DEF TypeOK
<1>2. SessionInv
  BY DEF Init, SessionInv, Started
<1>3. ChildrenInv /\ LineageInv /\ SandboxInv /\ OnlyOwnTerminalSettles
  BY DEF Init, ChildrenInv, LineageInv, SandboxInv, OnlyOwnTerminalSettles
<1>4. FramesInv /\ BracketsClose
  <2>1. frames = <<>> /\ Len(frames) = 0
    BY DEF Init
  <2>2. frames \in Seq(Frame)
    BY <2>1
  <2>3. \A f : ~Written(f)
    BY <2>1 DEF Written
  <2> QED
    BY <2>1, <2>2, <2>3 DEF FramesInv, BracketsClose
<1> QED
  BY <1>1, <1>2, <1>3, <1>4 DEF DInv

LEMMA RefuseDInv ==
    ASSUME DInv, NEW p \in Node, NEW t \in Task, NEW k \in Key, RefuseDelegate(p, t, k)
    PROVE  DInv'
<1> USE DEF RefuseDelegate
<1>1. TypeOK'
  BY DEF DInv, TypeOK
<1>2. /\ \A u \in Task : u # t => key'[u] = key[u]
      /\ \A n \in Node : stage'[n] = IF n = t THEN "settled" ELSE stage[n]
      /\ ~Started(t) /\ stage[t] = "idle"
      /\ UNCHANGED <<session, children, lineage, sandbox, depth, frames, spoken, cause, told>>
  BY DEF DInv, TypeOK, SessionInv
<1>3. SessionInv'
  BY <1>2 DEF DInv, SessionInv, Started
<1>4. ChildrenInv' /\ LineageInv' /\ SandboxInv'
  BY <1>2 DEF DInv, ChildrenInv, LineageInv, SandboxInv, Started
<1>5. OnlyOwnTerminalSettles'
  BY <1>2 DEF DInv, OnlyOwnTerminalSettles
<1>6. FramesInv' /\ BracketsClose'
  <2>1. FramesInv /\ BracketsClose
    BY DEF DInv
  <2> QED
    BY <1>2, <2>1, QuietFrames
<1> QED
  BY <1>1, <1>3, <1>4, <1>5, <1>6 DEF DInv

(* The child session is the task itself, or one opened for the same key by *)
(* the same session and therefore as deep as the task will be.             *)
LEMMA DelegateDInv ==
    ASSUME DInv, NEW p \in Node, NEW t \in Task, NEW k \in Key, Delegate(p, t, k)
    PROVE  DInv'
<1> DEFINE s == session[p]
           child == ChildOf(s, t, k)
<1>1. s \in Node /\ Started(p) /\ ~Started(t) /\ stage[t] = "idle" /\ lineage[t] = {t} /\ p # t
  BY DEF DInv, SessionInv, Started, Delegate, Delegates, TypeOK
<1>2. session[s] = s /\ depth[s] = depth[p]
  BY <1>1 DEF DInv, SessionInv
<1>3. depth[p] \in 0..1
  BY DEF DInv, TypeOK, Delegate, TooDeep
<1>4. \/ child = t
      \/ child \in Task /\ session[child] = child /\ key[child] = k /\ depth[child] = depth[p] + 1
  BY <1>1, <1>2 DEF DInv, ChildrenInv, ChildOf
<1>5. /\ \A u \in Task : key'[u] = IF u = t THEN k ELSE key[u]
      /\ \A n \in Node : lineage'[n] = IF n = t THEN lineage[p] \cup {t} ELSE lineage[n]
      /\ \A n \in Node : depth'[n] = IF n = t THEN depth[p] + 1 ELSE depth[n]
      /\ \A r \in Node, l \in Key :
            children'[r][l] = IF r = s /\ l = k THEN child ELSE children[r][l]
      /\ \A n \in Node : session'[n] = IF n = t THEN child ELSE session[n]
      /\ \A n \in Node \ {t} : stage'[n] = stage[n]
      /\ stage'[t] \in {"workspace", "running"}
      /\ frames' = Append(frames, <<"child_started", t>>)
      /\ UNCHANGED <<sandbox, spoken, cause, told>>
  BY <1>1 DEF DInv, TypeOK, Delegate
<1>6. TypeOK'
  <2>1. child \in Node
    BY <1>4
  <2>2. depth' \in [Node -> 0..MAX_DELEGATION_DEPTH]
    BY <1>3 DEF DInv, TypeOK, Delegate
  <2>3. children' \in [Node -> [Key -> Node \cup {None}]]
    BY <1>1, <2>1 DEF DInv, TypeOK, Delegate
  <2>4. session' \in [Node -> Node \cup {None}] /\ lineage' \in [Node -> SUBSET Node]
    BY <2>1 DEF DInv, TypeOK, Delegate
  <2>5. /\ key' \in [Task -> Key \cup {None}]
        /\ stage' \in [Node -> {"idle", "workspace", "running", "settled"}]
    BY DEF DInv, TypeOK, Delegate
  <2>6. UNCHANGED <<sandbox, live, own, billed, spoken, cause, told, ended>>
    BY DEF Delegate
  <2> QED
    BY <2>2, <2>3, <2>4, <2>5, <2>6 DEF DInv, TypeOK
<1> HIDE DEF child, s
<1>7. SessionInv'
  <2>1. session[Root] = Root /\ depth[Root] = 0 /\ stage[Root] \in {"running", "settled"} /\ Root # t
    BY DEF DInv, SessionInv
  <2>2. ASSUME NEW n \in Node, stage'[n] = "idle" PROVE ~Started(n)' /\ lineage'[n] = {n}
    BY <1>5, <2>2 DEF DInv, SessionInv, Started
  <2>3. ASSUME NEW n \in Node, stage'[n] \in {"workspace", "running"} PROVE Started(n)'
    BY <1>4, <1>5, <2>3 DEF DInv, SessionInv, Started
  <2>4. ASSUME NEW u \in Task, Started(u)'
        PROVE  /\ session'[u] \in Task
               /\ session'[session'[u]] = session'[u]
               /\ key'[session'[u]] = key'[u]
               /\ depth'[session'[u]] = depth'[u]
    <3>1. CASE u = t
      BY <1>1, <1>4, <1>5, <3>1 DEF Started
    <3>2. CASE u # t
      <4>1. Started(u)
        BY <1>5, <2>4, <3>2 DEF Started
      <4>2. /\ session[u] \in Task /\ session[session[u]] = session[u]
            /\ key[session[u]] = key[u] /\ depth[session[u]] = depth[u]
        BY <4>1 DEF DInv, SessionInv
      <4>3. session[u] # t
        BY <1>1, <4>2 DEF Started
      <4> QED
        BY <1>5, <3>2, <4>2, <4>3
    <3> QED
      BY <3>1, <3>2
  <2> QED
    BY <1>5, <2>1, <2>2, <2>3, <2>4 DEF SessionInv
<1>8. ChildrenInv'
  <2> SUFFICES ASSUME NEW r \in Node, NEW l \in Key, children'[r][l] # None
               PROVE  LET c == children'[r][l] IN
                      /\ c \in Task /\ session'[c] = c /\ key'[c] = l
                      /\ session'[r] = r /\ depth'[c] = depth'[r] + 1
    BY DEF ChildrenInv
  <2>1. s # t
    BY <1>1, <1>2 DEF Started
  <2>2. CASE r = s /\ l = k
    BY <1>1, <1>2, <1>4, <1>5, <2>1, <2>2
  <2>3. CASE ~(r = s /\ l = k)
    <3> DEFINE c == children[r][l]
    <3>1. /\ c \in Task /\ session[c] = c /\ key[c] = l
          /\ session[r] = r /\ depth[c] = depth[r] + 1
      BY <1>5, <2>3 DEF DInv, ChildrenInv
    <3>2. c # t /\ r # t
      BY <1>1, <3>1 DEF Started
    <3> QED
      BY <1>5, <2>3, <3>1, <3>2
  <2> QED
    BY <2>2, <2>3
<1>9. LineageInv'
  <2>4. \A n \in Node : n \in lineage'[n]
    BY <1>5 DEF DInv, LineageInv
  <2> SUFFICES ASSUME NEW n \in Node, NEW m \in lineage'[n] \ {n}
               PROVE  Started(m)' /\ Started(n)' /\ depth'[m] < depth'[n]
    BY <2>4 DEF LineageInv
  <2>1. m \in Node
    BY <1>6 DEF TypeOK
  <2>2. CASE n = t
    <3>1. m \in lineage[p]
      BY <1>5, <2>2
    <3>2. Started(m) /\ depth[m] \in Nat /\ depth[m] <= depth[p]
      <4>1. depth[m] \in Nat /\ depth[p] \in Nat
        <5>1. depth \in [Node -> 0..2]
          BY DEF DInv, TypeOK
        <5> QED
          BY <2>1, <5>1
      <4>2. CASE m = p
        BY <1>1, <4>1, <4>2
      <4>3. CASE m # p
        BY <3>1, <4>1, <4>3 DEF DInv, LineageInv
      <4> QED
        BY <4>2, <4>3
    <3>3. depth[p] \in Nat
      BY DEF DInv, TypeOK
    <3> QED
      BY <1>4, <1>5, <2>1, <2>2, <3>2, <3>3 DEF Started
  <2>3. CASE n # t
    <3>1. m \in lineage[n] \ {n}
      BY <1>5, <2>3
    <3>2. Started(m) /\ Started(n) /\ depth[m] < depth[n]
      BY <3>1 DEF DInv, LineageInv
    <3>3. m # t
      BY <1>1, <3>2
    <3> QED
      BY <1>5, <2>1, <2>3, <3>2, <3>3 DEF Started
  <2> QED
    BY <2>2, <2>3
<1>10. SandboxInv'
  <2> SUFFICES ASSUME NEW r \in Node, sandbox'[r] # None PROVE session'[sandbox'[r]] = r
    BY DEF SandboxInv
  <2>1. sandbox[r] \in Task /\ session[sandbox[r]] = r
    BY <1>5 DEF DInv, SandboxInv, TypeOK
  <2>2. sandbox[r] # t
    BY <1>1, <2>1 DEF Started
  <2> QED
    BY <1>5, <2>1, <2>2
<1>11. OnlyOwnTerminalSettles'
  BY <1>1, <1>5 DEF DInv, OnlyOwnTerminalSettles
<1>12. FramesInv' /\ BracketsClose'
  <2>1. FramesInv /\ BracketsClose
    BY DEF DInv
  <2> QED
    BY <1>1, <1>5, <2>1, OpensBracket
<1> QED
  BY <1>6, <1>7, <1>8, <1>9, <1>10, <1>11, <1>12 DEF DInv

(* What a task has once it was delegated stays: the steps that leave it    *)
(* alone keep what was built on it.                                        *)
LEMMA KeepsSessions ==
    ASSUME DInv, UNCHANGED <<key, lineage, depth, session>>,
           \A n \in Node : stage'[n] = "idle" <=> stage[n] = "idle",
           \A n \in Node : stage'[n] \in {"workspace", "running"} =>
                           stage[n] \in {"workspace", "running"},
           stage'[Root] \in {"running", "settled"}
    PROVE  SessionInv' /\ LineageInv'
  BY DEF DInv, SessionInv, LineageInv, Started

LEMMA ProvisionedDInv ==
    ASSUME DInv, NEW t \in Task, ChildProvisioned(t)
    PROVE  DInv'
<1>1. session[t] \in Node /\ Started(t) /\ stage[t] = "workspace"
  BY DEF DInv, TypeOK, SessionInv, Started, ChildProvisioned
<1>2. /\ \A s \in Node : sandbox'[s] = IF s = session[t] THEN t ELSE sandbox[s]
      /\ \A n \in Node : stage'[n] = IF n = t THEN "running" ELSE stage[n]
      /\ UNCHANGED <<key, lineage, depth, session, children, spoken, cause, told, frames>>
  BY DEF DInv, TypeOK, ChildProvisioned
<1>3. TypeOK'
  BY DEF DInv, TypeOK, ChildProvisioned
<1>4. SessionInv' /\ LineageInv'
  <2>1. stage[Root] \in {"running", "settled"} /\ Root # t
    BY DEF DInv, SessionInv
  <2> QED
    BY <1>1, <1>2, <2>1, KeepsSessions
<1>5. ChildrenInv' /\ OnlyOwnTerminalSettles'
  BY <1>1, <1>2 DEF DInv, ChildrenInv, OnlyOwnTerminalSettles
<1>6. SandboxInv'
  BY <1>1, <1>2 DEF DInv, SandboxInv
<1>7. FramesInv' /\ BracketsClose'
  <2>1. FramesInv /\ BracketsClose
    BY DEF DInv
  <2> QED
    BY <1>1, <1>2, <2>1, QuietFrames
<1> QED
  BY <1>3, <1>4, <1>5, <1>6, <1>7 DEF DInv

LEMMA NotProvisionedDInv ==
    ASSUME DInv, NEW t \in Task, ChildNotProvisioned(t)
    PROVE  DInv'
<1>1. /\ stage[t] = "workspace"
      /\ \A n \in Node : stage'[n] = IF n = t THEN "settled" ELSE stage[n]
      /\ frames' = Append(frames, <<"child_settled", t>>)
      /\ UNCHANGED <<key, lineage, depth, session, children, sandbox, spoken, cause, told>>
  BY DEF DInv, TypeOK, ChildNotProvisioned
<1>2. TypeOK'
  BY DEF DInv, TypeOK, ChildNotProvisioned
<1>3. SessionInv' /\ LineageInv'
  <2>1. stage[Root] \in {"running", "settled"} /\ Root # t
    BY DEF DInv, SessionInv
  <2> QED
    BY <1>1, <2>1, KeepsSessions
<1>4. ChildrenInv' /\ SandboxInv' /\ OnlyOwnTerminalSettles'
  BY <1>1 DEF DInv, ChildrenInv, SandboxInv, OnlyOwnTerminalSettles
<1>5. FramesInv' /\ BracketsClose'
  <2>1. FramesInv /\ BracketsClose
    BY DEF DInv
  <2> QED
    BY <1>1, <2>1, ClosesBracket
<1> QED
  BY <1>2, <1>3, <1>4, <1>5 DEF DInv

LEMMA UsageDInv ==
    ASSUME DInv, NEW n \in Node, Usage(n)
    PROVE  DInv'
<1>1. UNCHANGED <<stage, key, lineage, depth, session, children, sandbox, spoken, cause, told,
                  frames>>
  BY DEF Usage
<1>2. TypeOK'
  <2>1. own' \in [Node -> 0..MaxUsage]
    <3>1. own[n] \in 0..MaxUsage /\ own[n] + 1 \in 0..MaxUsage
      BY DEF DInv, TypeOK, Usage
    <3> QED
      BY <3>1 DEF DInv, TypeOK, Usage
  <2>2. billed' \in [Node -> Nat]
    BY DEF DInv, TypeOK, Usage
  <2>3. UNCHANGED <<live, ended>>
    BY DEF Usage
  <2> QED
    BY <1>1, <2>1, <2>2, <2>3 DEF DInv, TypeOK
<1>3. SessionInv' /\ LineageInv'
  BY <1>1 DEF DInv, SessionInv, LineageInv, Started
<1>4. ChildrenInv' /\ SandboxInv' /\ OnlyOwnTerminalSettles'
  BY <1>1 DEF DInv, ChildrenInv, SandboxInv, OnlyOwnTerminalSettles
<1>5. FramesInv' /\ BracketsClose'
  <2>1. FramesInv /\ BracketsClose
    BY DEF DInv
  <2> QED
    BY <1>1, <2>1, QuietFrames
<1> QED
  BY <1>2, <1>3, <1>4, <1>5 DEF DInv

(* A terminal passes the pump of its own run and no other, so it is on the *)
(* top stream if that is the top run.                                      *)
LEMMA TerminalStops ==
    ASSUME TypeOK, NEW n \in Node, NEW why \in Cause, Terminal(n, why)
    PROVE  /\ \A m \in Node : cause'[m] = IF m = n /\ cause[m] = None THEN why ELSE cause[m]
           /\ told' = IF n = Root THEN Append(told, why) ELSE told
           /\ cause' \in [Node -> Cause \cup {None}] /\ told' \in Seq(Cause)
<1>1. Reaches(n, "terminal") = {n}
  BY DEF Reaches, Forwards
<1>2. /\ cause' = [m \in Node |-> IF m \in {n} /\ cause[m] = None THEN why ELSE cause[m]]
      /\ told' = IF Root \in {n} THEN Append(told, why) ELSE told
  BY <1>1 DEF Terminal
<1>3. Append(told, why) \in Seq(Cause)
  BY Appended DEF TypeOK
<1> QED
  BY <1>2, <1>3 DEF TypeOK

LEMMA SpeakDInv ==
    ASSUME DInv, NEW n \in Node, NEW why \in Cause, Speak(n, why)
    PROVE  DInv'
<1>1. /\ stage[n] = "running" /\ spoken[n] = None
      /\ \A m \in Node : spoken'[m] = IF m = n THEN why ELSE spoken[m]
      /\ Terminal(n, why)
      /\ UNCHANGED <<stage, key, lineage, depth, session, children, sandbox, frames>>
  BY DEF DInv, TypeOK, Speak
<1>2. /\ \A m \in Node : cause'[m] = IF m = n /\ cause[m] = None THEN why ELSE cause[m]
      /\ told' = IF n = Root THEN Append(told, why) ELSE told
      /\ cause' \in [Node -> Cause \cup {None}] /\ told' \in Seq(Cause)
  BY <1>1, TerminalStops DEF DInv
<1>3. TypeOK'
  <2>1. spoken' \in [Node -> Cause \cup {None}]
    BY DEF DInv, TypeOK, Speak
  <2>2. UNCHANGED <<live, own, billed, ended>>
    BY DEF Speak
  <2> QED
    BY <1>1, <1>2, <2>1, <2>2 DEF DInv, TypeOK
<1>4. SessionInv' /\ LineageInv' /\ ChildrenInv' /\ SandboxInv'
  BY <1>1 DEF DInv, SessionInv, LineageInv, ChildrenInv, SandboxInv, Started
<1>5. OnlyOwnTerminalSettles'
  <2>1. cause[n] = None
    BY <1>1 DEF DInv, OnlyOwnTerminalSettles
  <2>2. ASSUME NEW m \in Node
        PROVE  \/ cause'[m] = spoken'[m]
               \/ spoken'[m] = None /\ stage'[m] = "settled"
    BY <1>1, <1>2, <2>1 DEF DInv, OnlyOwnTerminalSettles
  <2>3. told' = IF cause'[Root] = None THEN <<>> ELSE <<cause'[Root]>>
    <3>1. CASE n = Root
      <4>1. told = <<>> /\ cause'[Root] = why
        BY <1>2, <2>1, <3>1 DEF DInv, OnlyOwnTerminalSettles
      <4>2. told' = <<why>> /\ why # None
        BY <1>2, <3>1, <4>1
      <4> QED
        BY <4>1, <4>2
    <3>2. CASE n # Root
      BY <1>2, <3>2 DEF DInv, OnlyOwnTerminalSettles
    <3> QED
      BY <3>1, <3>2
  <2> QED
    BY <2>2, <2>3 DEF OnlyOwnTerminalSettles
<1>6. FramesInv' /\ BracketsClose'
  <2>1. FramesInv /\ BracketsClose
    BY DEF DInv
  <2> QED
    BY <1>1, <2>1, QuietFrames
<1> QED
  BY <1>3, <1>4, <1>5, <1>6 DEF DInv

LEMMA ReturnDInv ==
    ASSUME DInv, NEW n \in Node, NEW why \in Cause, Return(n, why)
    PROVE  DInv'
<1>1. /\ stage[n] = "running"
      /\ \A m \in Node : stage'[m] = IF m = n THEN "settled" ELSE stage[m]
      /\ frames' = IF n = Root THEN frames ELSE Append(frames, <<"child_settled", n>>)
      /\ UNCHANGED <<key, lineage, depth, session, children, sandbox, spoken>>
  BY DEF DInv, TypeOK, Return
<1>2. /\ \A m \in Node : cause'[m] = IF m = n /\ cause[m] = None THEN why ELSE cause[m]
      /\ told' = IF n = Root /\ cause[n] = None THEN Append(told, why) ELSE told
      /\ cause' \in [Node -> Cause \cup {None}] /\ told' \in Seq(Cause)
  <2>1. CASE cause[n] = None /\ Terminal(n, why)
    BY <2>1, TerminalStops DEF DInv
  <2>2. CASE cause[n] = why /\ UNCHANGED <<cause, told>>
    BY <2>2 DEF DInv, TypeOK
  <2> QED
    BY <2>1, <2>2 DEF Return
<1>3. TypeOK'
  <2>1. stage' \in [Node -> {"idle", "workspace", "running", "settled"}]
    BY DEF DInv, TypeOK, Return
  <2>2. UNCHANGED <<live, own, billed, ended>>
    BY DEF Return
  <2> QED
    BY <1>1, <1>2, <2>1, <2>2 DEF DInv, TypeOK
<1>4. SessionInv' /\ LineageInv'
  <2>1. stage[Root] \in {"running", "settled"}
    BY DEF DInv, SessionInv
  <2> QED
    BY <1>1, <2>1, KeepsSessions
<1>5. ChildrenInv' /\ SandboxInv'
  BY <1>1 DEF DInv, ChildrenInv, SandboxInv
<1>6. OnlyOwnTerminalSettles'
  <2>1. cause[n] = spoken[n]
    BY <1>1 DEF DInv, OnlyOwnTerminalSettles
  <2>3. ASSUME NEW m \in Node
        PROVE  \/ cause'[m] = spoken'[m]
               \/ spoken'[m] = None /\ stage'[m] = "settled"
    BY <1>1, <1>2, <2>1 DEF DInv, OnlyOwnTerminalSettles
  <2>4. told' = IF cause'[Root] = None THEN <<>> ELSE <<cause'[Root]>>
    <3>1. CASE n = Root /\ cause[n] = None
      <4>1. told = <<>> /\ cause'[Root] = why
        BY <1>2, <3>1 DEF DInv, OnlyOwnTerminalSettles
      <4>2. told' = <<why>> /\ why # None
        BY <1>2, <3>1, <4>1
      <4> QED
        BY <4>1, <4>2
    <3>2. CASE ~(n = Root /\ cause[n] = None)
      BY <1>2, <3>2 DEF DInv, OnlyOwnTerminalSettles
    <3> QED
      BY <3>1, <3>2
  <2> QED
    BY <2>3, <2>4 DEF OnlyOwnTerminalSettles
<1>7. FramesInv' /\ BracketsClose'
  <2>1. FramesInv /\ BracketsClose
    BY DEF DInv
  <2>2. CASE n = Root
    BY <1>1, <2>1, <2>2, QuietFrames
  <2>3. CASE n \in Task
    BY <1>1, <2>1, <2>3, ClosesBracket
  <2> QED
    BY <2>2, <2>3
<1> QED
  BY <1>3, <1>4, <1>5, <1>6, <1>7 DEF DInv

LEMMA EndSessionDInv == ASSUME DInv, EndSession
    PROVE  DInv'
<1>1. /\ \A s \in Node, k \in Key : children'[s][k] \in {children[s][k], None}
      /\ \A s \in Node : sandbox'[s] \in {sandbox[s], None}
      /\ UNCHANGED <<stage, key, lineage, depth, session, spoken, cause, told, frames>>
  BY DEF DInv, TypeOK, EndSession
<1>2. TypeOK'
  BY DEF DInv, TypeOK, EndSession
<1>3. SessionInv' /\ LineageInv' /\ OnlyOwnTerminalSettles'
  BY <1>1 DEF DInv, SessionInv, LineageInv, Started, OnlyOwnTerminalSettles
<1>4. ChildrenInv'
  BY <1>1 DEF DInv, ChildrenInv
<1>5. SandboxInv'
  BY <1>1 DEF DInv, SandboxInv
<1>6. FramesInv' /\ BracketsClose'
  <2>1. FramesInv /\ BracketsClose
    BY DEF DInv
  <2> QED
    BY <1>1, <2>1, QuietFrames
<1> QED
  BY <1>2, <1>3, <1>4, <1>5, <1>6 DEF DInv

LEMMA NextDInv == DInv /\ [Next]_vars => DInv'
<1> SUFFICES ASSUME DInv, [Next]_vars PROVE DInv'
  OBVIOUS
<1>1. CASE UNCHANGED vars
  <2>1. UNCHANGED <<stage, key, lineage, depth, session, children, sandbox, live, own, billed,
                    spoken, cause, told, frames, ended>>
    BY <1>1 DEF vars
  <2>2. TypeOK' /\ SessionInv' /\ ChildrenInv' /\ LineageInv' /\ SandboxInv'
    BY <2>1 DEF DInv, TypeOK, SessionInv, ChildrenInv, LineageInv, SandboxInv, Started
  <2>3. OnlyOwnTerminalSettles' /\ FramesInv' /\ BracketsClose'
    BY <2>1 DEF DInv, OnlyOwnTerminalSettles, FramesInv, BracketsClose, Written
  <2> QED
    BY <2>2, <2>3 DEF DInv
<1>2. CASE Next
  BY <1>2, RefuseDInv, DelegateDInv, ProvisionedDInv, NotProvisionedDInv, UsageDInv, SpeakDInv,
     ReturnDInv, EndSessionDInv DEF Next
<1> QED
  BY <1>1, <1>2
-----------------------------------------------------------------------------
(* An idle task has used nothing, so it is billed nothing for when it is   *)
(* put below the runs that wait for it.                                    *)
Billed(n) == {m \in Node : n \in lineage[m]}

BillInv ==
    /\ \A n \in Node : stage[n] = "idle" => own[n] = 0
    /\ \A n \in Node : billed[n] = SumOn(own, Billed(n))

LEMMA NodesBilled ==
    ASSUME TypeOK
    PROVE  /\ \A n : IsFiniteSet(Billed(n)) /\ Billed(n) \subseteq Node
           /\ \A m \in Node : own[m] \in Nat
<1>1. IsFiniteSet(Node)
  BY FS_AddElement
<1>2. \A n : Billed(n) \in SUBSET Node
  BY DEF Billed
<1>3. \A n : IsFiniteSet(Billed(n))
  BY <1>1, <1>2, FS_Subset
<1> QED
  BY <1>2, <1>3 DEF TypeOK

LEMMA InitBill == Init => BillInv
<1> SUFFICES ASSUME Init PROVE BillInv
  OBVIOUS
<1>1. \A n \in Node : own[n] = 0 /\ billed[n] = 0 /\ lineage[n] = {n}
  BY DEF Init
<1>2. ASSUME NEW n \in Node PROVE billed[n] = SumOn(own, Billed(n))
  <2>1. Billed(n) = {n}
    BY <1>1 DEF Billed
  <2>2. IsFiniteSet({n}) /\ IsFiniteSet({})
    BY FS_Singleton, FS_EmptySet
  <2>3. \A m \in {n} : own[m] \in Nat
    BY <1>1
  <2>4. SumOn(own, {n}) = SumOn(own, {n} \ {n})
    BY <1>1, <2>2, <2>3, SumOverZero
  <2>5. {n} \ {n} = {}
    OBVIOUS
  <2>6. SumOn(own, {}) = 0
    BY <2>2, SumsStep, SumUnfolds
  <2> QED
    BY <1>1, <2>1, <2>4, <2>5, <2>6
<1> QED
  BY <1>1, <1>2 DEF BillInv

(* Steps that leave the usage and the tree of runs as they were.           *)
LEMMA KeepsBill ==
    ASSUME BillInv, UNCHANGED <<own, billed, lineage>>,
           \A n \in Node : stage'[n] = "idle" => stage[n] = "idle"
    PROVE  BillInv'
  BY DEF BillInv, Billed

(* Everyone above the task that starts gets it below, where it adds zero.  *)
LEMMA DelegateBill ==
    ASSUME DInv, BillInv, NEW p \in Node, NEW t \in Task, NEW k \in Key, Delegate(p, t, k)
    PROVE  BillInv'
<1>1. /\ stage[t] = "idle" /\ lineage[t] = {t} /\ own[t] = 0
      /\ UNCHANGED <<own, billed>>
      /\ \A n \in Node : lineage'[n] = IF n = t THEN lineage[p] \cup {t} ELSE lineage[n]
      /\ \A n \in Node : stage'[n] = "idle" => stage[n] = "idle"
  BY DEF DInv, SessionInv, BillInv, Delegate, TypeOK
<1>2. TypeOK /\ TypeOK'
  BY DelegateDInv DEF DInv
<1>3. ASSUME NEW n \in Node PROVE billed'[n] = SumOn(own, Billed(n)')
  <2>1. billed'[n] = SumOn(own, Billed(n))
    BY <1>1 DEF BillInv
  <2>2. CASE Billed(n)' = Billed(n)
    BY <2>1, <2>2
  <2>3. CASE Billed(n)' # Billed(n)
    <3>1. Billed(n)' = Billed(n) \cup {t} /\ t \notin Billed(n)
      BY <1>1, <2>3 DEF Billed
    <3>2. t \in Billed(n)' /\ Billed(n)' \ {t} = Billed(n)
      BY <3>1
    <3>3. IsFiniteSet(Billed(n)') /\ \A m \in Billed(n)' : own[m] \in Nat
      <4>1. /\ \A i : IsFiniteSet(Billed(i)) /\ Billed(i) \subseteq Node
            /\ \A m \in Node : own[m] \in Nat
        BY <1>2, NodesBilled
      <4>2. IsFiniteSet(Billed(n)')
        BY <3>1, <4>1, FS_AddElement
      <4>3. Billed(n)' \subseteq Node
        BY DEF Billed
      <4> QED
        BY <4>1, <4>2, <4>3
    <3>4. SumOn(own, Billed(n)') = SumOn(own, Billed(n)' \ {t})
      BY <1>1, <3>2, <3>3, SumOverZero
    <3> QED
      BY <2>1, <3>2, <3>4
  <2> QED
    BY <2>2, <2>3
<1> QED
  BY <1>1, <1>3 DEF BillInv

(* A usage event is billed to the runs that have the run below them, once. *)
LEMMA UsageBill ==
    ASSUME DInv, BillInv, NEW n \in Node, Usage(n)
    PROVE  BillInv'
<1>1. /\ stage[n] = "running" /\ UNCHANGED <<stage, lineage>>
      /\ \A m \in Node : own'[m] = IF m = n THEN own[m] + 1 ELSE own[m]
      /\ \A m \in Node : billed'[m] = IF m \in lineage[n] THEN billed[m] + 1 ELSE billed[m]
  <2>1. Reaches(n, "usage_delta") = {n} \cup Above(n)
    BY DEF Reaches, Forwards
  <2>2. n \in lineage[n] /\ lineage[n] \subseteq Node
    BY DEF DInv, LineageInv, TypeOK
  <2>3. Reaches(n, "usage_delta") = lineage[n]
    BY <2>1, <2>2 DEF Above
  <2> QED
    BY <2>3 DEF DInv, TypeOK, Usage
<1>2. TypeOK
  BY DEF DInv
<1>3. ASSUME NEW m \in Node PROVE billed'[m] = SumOn(own', Billed(m))
  <2>1. billed[m] = SumOn(own, Billed(m))
    BY DEF BillInv
  <2>2. m \in lineage[n] <=> n \in Billed(m)
    BY DEF Billed
  <2>3. IsFiniteSet(Billed(m)) /\ \A y \in Billed(m) : own[y] \in Nat
    BY <1>2, NodesBilled
  <2>4. \A y \in Billed(m) : own'[y] = IF y = n THEN own[y] + 1 ELSE own[y]
    BY <1>1 DEF Billed
  <2>5. SumOn(own', Billed(m)) =
            IF n \in Billed(m) THEN SumOn(own, Billed(m)) + 1 ELSE SumOn(own, Billed(m))
    BY <2>3, <2>4, SumIncremented
  <2> QED
    BY <1>1, <2>1, <2>2, <2>5
<1>4. \A m \in Node : Billed(m)' = Billed(m)
  BY <1>1 DEF Billed
<1>5. \A m \in Node : stage'[m] = "idle" => own'[m] = 0
  BY <1>1 DEF BillInv
<1> QED
  BY <1>3, <1>4, <1>5 DEF BillInv

LEMMA NextBill == DInv /\ BillInv /\ [Next]_vars => BillInv'
<1> SUFFICES ASSUME DInv, BillInv, [Next]_vars PROVE BillInv'
  OBVIOUS
<1>1. ASSUME NEW p \in Node, NEW t \in Task, NEW k \in Key, RefuseDelegate(p, t, k)
      PROVE  BillInv'
  <2>1. UNCHANGED <<own, billed, lineage>> /\ \A n \in Node : stage'[n] = "idle" => stage[n] = "idle"
    BY <1>1 DEF DInv, TypeOK, RefuseDelegate
  <2> QED BY <2>1, KeepsBill
<1>2. ASSUME NEW t \in Task, ChildProvisioned(t) \/ ChildNotProvisioned(t) PROVE BillInv'
  <2>1. UNCHANGED <<own, billed, lineage>> /\ \A n \in Node : stage'[n] = "idle" => stage[n] = "idle"
    BY <1>2 DEF DInv, TypeOK, ChildProvisioned, ChildNotProvisioned
  <2> QED BY <2>1, KeepsBill
<1>3. ASSUME NEW n \in Node, NEW why \in Cause, Speak(n, why) \/ Return(n, why)
      PROVE  BillInv'
  <2>1. UNCHANGED <<own, billed, lineage>> /\ \A m \in Node : stage'[m] = "idle" => stage[m] = "idle"
    BY <1>3 DEF DInv, TypeOK, Speak, Return
  <2> QED BY <2>1, KeepsBill
<1>4. CASE EndSession \/ UNCHANGED vars
  <2>1. UNCHANGED <<own, billed, lineage, stage>>
    BY <1>4 DEF EndSession, vars
  <2> QED BY <2>1, KeepsBill
<1> QED
  BY <1>1, <1>2, <1>3, <1>4, DelegateBill, UsageBill DEF Next

-----------------------------------------------------------------------------
(* What the end of the session finds: every sub-run of its own is in the   *)
(* session it has for the sub-run's key, and when the run is settled       *)
(* nothing below it is still going on.                                     *)
EndInv ==
    /\ \A n \in Node : Started(n) => Root \in lineage[n]
    /\ \A t \in Task : Started(t) => key[t] \in Key
    /\ stage[Root] = "settled" => \A t \in Task : stage[t] \in {"idle", "settled"}
    /\ ended => stage[Root] = "settled"
    /\ ~ended => \A t \in Task :
          Started(t) /\ depth[t] = 1 => children[Root][key[t]] = session[t]
    /\ EndSessionTakesOwn

LEMMA InitEnd == Init => EndInv
  BY DEF Init, EndInv, Started, EndSessionTakesOwn

(* Only the session's own sub-runs are at depth 1.                         *)
LEMMA BelowRoot ==
    ASSUME DInv, EndInv, NEW n \in Node, Started(n)
    PROVE  depth[n] \in Nat /\ (n # Root => depth[n] \in 1..MAX_DELEGATION_DEPTH)
                            /\ (n = Root => depth[n] = 0)
<1>1. depth[n] \in 0..2 /\ Root \in lineage[n]
  BY DEF DInv, TypeOK, EndInv
<1>2. n # Root => depth[Root] < depth[n] /\ depth[Root] = 0
  BY <1>1 DEF DInv, LineageInv, SessionInv
<1> QED
  BY <1>1, <1>2 DEF DInv, SessionInv

LEMMA DelegateEnd ==
    ASSUME DInv, EndInv, NEW p \in Node, NEW t \in Task, NEW k \in Key, Delegate(p, t, k)
    PROVE  EndInv'
<1> DEFINE child == ChildOf(session[p], t, k)
<1>1. /\ stage[p] = "running" /\ Started(p) /\ stage[t] = "idle" /\ ~Started(t)
      /\ session[p] \in Node /\ lineage[p] \subseteq Node
      /\ UNCHANGED <<sandbox, ended>>
  BY DEF DInv, SessionInv, Started, Delegate, Delegates, TypeOK
<1>2. stage[Root] = "running" /\ ~ended
  BY <1>1 DEF DInv, SessionInv, EndInv
<1>3. /\ \A u \in Task : key'[u] = IF u = t THEN k ELSE key[u]
      /\ \A n \in Node : lineage'[n] = IF n = t THEN lineage[p] \cup {t} ELSE lineage[n]
      /\ \A n \in Node : depth'[n] = IF n = t THEN depth[p] + 1 ELSE depth[n]
      /\ \A r \in Node, l \in Key :
            children'[r][l] = IF r = session[p] /\ l = k THEN child ELSE children[r][l]
      /\ \A n \in Node : session'[n] = IF n = t THEN child ELSE session[n]
      /\ \A n \in Node \ {t} : stage'[n] = stage[n]
  BY <1>1 DEF DInv, TypeOK, Delegate
<1> HIDE DEF child
<1>4. stage'[Root] = "running" /\ ~ended'
  BY <1>1, <1>2, <1>3
<1>5. ASSUME NEW n \in Node, Started(n)' PROVE Root \in lineage'[n]
  <2>1. CASE n = t
    BY <1>1, <1>3, <2>1 DEF EndInv
  <2>2. CASE n # t
    BY <1>3, <1>5, <2>2 DEF EndInv, Started
  <2> QED BY <2>1, <2>2
<1>6. ASSUME NEW u \in Task, Started(u)', depth'[u] = 1
      PROVE  children'[Root][key'[u]] = session'[u]
  <2>1. CASE u = t
    <3>1. depth[p] + 1 = 1
      BY <1>3, <1>6, <2>1
    <3>2. p = Root
      BY <1>1, <3>1, BelowRoot
    <3>3. session[p] = Root
      BY <3>2 DEF DInv, SessionInv
    <3> QED
      BY <1>3, <2>1, <3>3
  <2>2. CASE u # t
    <3>1. Started(u) /\ depth[u] = 1 /\ key'[u] = key[u] /\ session'[u] = session[u]
      BY <1>3, <1>6, <2>2 DEF Started
    <3>2. children[Root][key[u]] = session[u] /\ session[u] # None
      BY <1>2, <3>1 DEF EndInv, Started
    <3>3. key[u] \in Key
      BY <3>1 DEF EndInv
    <3>4. CASE Root = session[p] /\ key[u] = k
      <4>1. child = session[u]
        BY <3>2, <3>4 DEF child, ChildOf
      <4> QED
        BY <1>3, <3>1, <3>3, <3>4, <4>1
    <3>5. CASE ~(Root = session[p] /\ key[u] = k)
      BY <1>3, <3>1, <3>2, <3>3, <3>5
    <3> QED BY <3>4, <3>5
  <2> QED BY <2>1, <2>2
<1>8. ASSUME NEW u \in Task, Started(u)' PROVE key'[u] \in Key
  BY <1>3, <1>8 DEF EndInv, Started
<1>7. EndSessionTakesOwn'
  BY <1>4 DEF EndSessionTakesOwn
<1> QED
  BY <1>4, <1>5, <1>6, <1>7, <1>8 DEF EndInv

(* Steps that leave the tree and its sessions alone and register nothing   *)
(* once the session ended.                                                 *)
LEMMA KeepsEnd ==
    ASSUME EndInv, UNCHANGED <<key, lineage, depth, session, children, ended>>,
           ended => UNCHANGED sandbox,
           stage[Root] = "settled" => stage'[Root] = "settled",
           stage'[Root] = "settled" =>
               \A t \in Task : stage'[t] \in {"idle", "settled"}
    PROVE  EndInv'
  BY DEF EndInv, Started, EndSessionTakesOwn

(* endSession finds every child sandbox of the session under its key.      *)
LEMMA EndSessionEnd == ASSUME DInv, EndInv, EndSession PROVE EndInv'
<1> DEFINE gone == {children[Root][k] : k \in Key} \ {None}
<1>1. /\ stage[Root] = "settled" /\ ~ended /\ ended'
      /\ \A s \in Node : sandbox'[s] = IF s \in gone THEN None ELSE sandbox[s]
      /\ UNCHANGED <<stage, key, lineage, depth, session>>
  BY DEF EndSession
<1>2. ASSUME NEW s \in Node, sandbox'[s] # None PROVE depth[s] = MAX_DELEGATION_DEPTH
  <2>1. s \notin gone /\ sandbox[s] # None
    BY <1>1, <1>2
  <2> DEFINE t == sandbox[s]
  <2>2. t \in Task /\ session[t] = s
    BY <2>1 DEF DInv, SandboxInv, TypeOK
  <2>3. Started(t)
    BY <2>2 DEF Started
  <2>4. s \in Task /\ session[s] = s /\ key[s] = key[t] /\ depth[s] = depth[t]
    BY <2>2, <2>3 DEF DInv, SessionInv
  <2>5. Started(s)
    BY <2>4 DEF Started
  <2>6. depth[s] \in 1..2
    BY <2>4, <2>5, BelowRoot
  <2>7. depth[s] # 1
    <3> SUFFICES ASSUME depth[s] = 1 PROVE FALSE
      OBVIOUS
    <3>1. children[Root][key[s]] = s
      BY <1>1, <2>4, <2>5 DEF EndInv
    <3>2. key[s] \in Key
      BY <2>4, <2>5 DEF EndInv
    <3> QED
      BY <2>1, <2>4, <3>1, <3>2
  <2> QED
    BY <2>6, <2>7
<1>3. EndSessionTakesOwn'
  BY <1>1, <1>2 DEF EndSessionTakesOwn
<1> QED
  BY <1>1, <1>3 DEF EndInv, Started

LEMMA NextEnd == DInv /\ EndInv /\ [Next]_vars => EndInv'
<1> SUFFICES ASSUME DInv, EndInv, [Next]_vars PROVE EndInv'
  OBVIOUS
<1>1. ASSUME NEW p \in Node, NEW t \in Task, NEW k \in Key, RefuseDelegate(p, t, k)
      PROVE  EndInv'
  <2>1. /\ stage[p] = "running" /\ ~Started(t)
        /\ \A u \in Task : key'[u] = IF u = t THEN k ELSE key[u]
        /\ \A n \in Node : stage'[n] = IF n = t THEN "settled" ELSE stage[n]
        /\ UNCHANGED <<lineage, depth, session, children, sandbox, ended>>
    BY <1>1 DEF DInv, TypeOK, SessionInv, RefuseDelegate, Delegates
  <2>2. stage[Root] = "running" /\ stage'[Root] = "running" /\ ~ended
    BY <2>1 DEF DInv, SessionInv, EndInv
  <2> QED
    BY <2>1, <2>2 DEF EndInv, Started, EndSessionTakesOwn
<1>2. ASSUME NEW t \in Task, ChildProvisioned(t) \/ ChildNotProvisioned(t) PROVE EndInv'
  <2>1. /\ stage[t] = "workspace" /\ stage'[Root] = stage[Root]
        /\ UNCHANGED <<key, lineage, depth, session, children, ended>>
    BY <1>2 DEF DInv, TypeOK, ChildProvisioned, ChildNotProvisioned
  <2>2. stage[Root] # "settled" /\ ~ended
    BY <2>1 DEF EndInv
  <2> QED
    BY <2>1, <2>2, KeepsEnd
<1>3. ASSUME NEW n \in Node, Usage(n) PROVE EndInv'
  <2>1. UNCHANGED <<key, lineage, depth, session, children, ended, sandbox, stage>>
    BY <1>3 DEF Usage
  <2> QED
    BY <2>1, KeepsEnd DEF EndInv
<1>4. ASSUME NEW n \in Node, NEW why \in Cause, Return(n, why) PROVE EndInv'
  <2>1. /\ ~Waits(n) /\ stage[n] = "running"
        /\ \A m \in Node : stage'[m] = IF m = n THEN "settled" ELSE stage[m]
        /\ UNCHANGED <<key, lineage, depth, session, children, ended, sandbox>>
    BY <1>4 DEF DInv, TypeOK, Return
  <2>2. ASSUME stage'[Root] = "settled", NEW t \in Task
        PROVE  stage'[t] \in {"idle", "settled"}
    <3>1. CASE n = Root
      <4>1. stage[t] \in {"workspace", "running"} => Root \in Above(t)
        BY DEF DInv, SessionInv, EndInv, Above
      <4>2. stage[t] \in {"idle", "settled"}
        BY <2>1, <3>1, <4>1 DEF Waits, DInv, TypeOK
      <4> QED
        BY <2>1, <4>2
    <3>2. CASE n # Root
      BY <2>1, <2>2, <3>2 DEF EndInv
    <3> QED BY <3>1, <3>2
  <2> QED
    BY <2>1, <2>2, KeepsEnd
<1>5. CASE UNCHANGED vars \/ \E n \in Node, why \in Cause : Speak(n, why)
  <2>1. UNCHANGED <<key, lineage, depth, session, children, ended, sandbox, stage>>
    BY <1>5 DEF vars, Speak
  <2> QED
    BY <2>1, KeepsEnd DEF EndInv
<1> QED
  BY <1>1, <1>2, <1>3, <1>4, <1>5, DelegateEnd, EndSessionEnd DEF Next
-----------------------------------------------------------------------------
(* The invariant holds in every reachable state, for any tasks and keys.   *)
THEOREM DelegationInvariance == Spec => [](DInv /\ BillInv /\ EndInv)
<1>1. Init => DInv /\ BillInv /\ EndInv
  BY InitDInv, InitBill, InitEnd
<1>2. (DInv /\ BillInv /\ EndInv) /\ [Next]_vars => (DInv /\ BillInv /\ EndInv)'
  BY NextDInv, NextBill, NextEnd
<1> QED
  BY <1>1, <1>2, PTL DEF Spec

(* Every run is billed for its own usage and that of the runs below it,    *)
(* each event once, for any number of runs (kernel/index.ts:146).          *)
THEOREM BillsRollUp == Spec => []BillRollsUp
<1>1. BillInv => BillRollsUp
  BY DEF BillInv, BillRollsUp, SumOn, Billed
<1> QED
  BY DelegationInvariance, <1>1, PTL

(* The end of the session destroys every workspace opened for a sub-run of *)
(* its own (kernel/index.ts:316-326).                                      *)
THEOREM SessionTakesItsOwn == Spec => []EndSessionTakesOwn
<1>1. EndInv => EndSessionTakesOwn
  BY DEF EndInv
<1> QED
  BY DelegationInvariance, <1>1, PTL

(* Types of the whole tree of runs; no run is deeper than the cap.         *)
THEOREM DelegationTypeOK == Spec => []TypeOK
<1>1. DInv => TypeOK
  BY DEF DInv
<1> QED
  BY DelegationInvariance, <1>1, PTL

(* No terminal of a sub-run, its harness's or the orchestrator's, settles  *)
(* a run above it or ends the top stream (kernel/index.ts:147, 180-183).   *)
THEOREM TerminalsAreConsumed == Spec => []OnlyOwnTerminalSettles
<1>1. DInv => OnlyOwnTerminalSettles
  BY DEF DInv
<1> QED
  BY DelegationInvariance, <1>1, PTL

(* Every announced sub-run is closed once (kernel/index.ts:163-214).       *)
THEOREM BracketsAreClosed == Spec => []BracketsClose
<1>1. DInv => BracketsClose
  BY DEF DInv
<1> QED
  BY DelegationInvariance, <1>1, PTL

(* A sub-run never shares the workspace of a run that waits for it, at any *)
(* depth and however delegate calls overlap (kernel/index.ts:164).         *)
THEOREM WorkspacesAreApart == Spec => []WorkspacesApart
<1>1. DInv => WorkspacesApart
  <2> SUFFICES ASSUME DInv PROVE WorkspacesApart
    OBVIOUS
  <2>1. ASSUME NEW t \in Task, NEW n \in Above(t) PROVE session[n] # session[t]
    <3>1. n \in Node /\ Started(n) /\ Started(t) /\ depth[n] < depth[t]
      BY <2>1 DEF Above, DInv, TypeOK, LineageInv
    <3>2. session[t] \in Task /\ depth[session[t]] = depth[t]
      BY <3>1 DEF DInv, SessionInv
    <3>3. depth[session[n]] = depth[n]
      BY <3>1 DEF DInv, SessionInv
    <3>4. depth[n] \in Nat /\ depth[t] \in Nat
      BY <3>1 DEF DInv, TypeOK
    <3> QED
      BY <3>1, <3>2, <3>3, <3>4
  <2>2. ASSUME NEW t \in Task, NEW u \in Task, Started(t), session[t] = session[u]
        PROVE  key[t] = key[u]
    BY <2>2 DEF DInv, SessionInv, Started
  <2>3. ASSUME NEW s \in Node, NEW u \in Node, sandbox[s] # None, sandbox[s] = sandbox[u]
        PROVE  s = u
    BY <2>3 DEF DInv, SandboxInv
  <2> QED
    BY <2>1, <2>2, <2>3 DEF WorkspacesApart, Started
<1> QED
  BY DelegationInvariance, <1>1, PTL
=============================================================================
