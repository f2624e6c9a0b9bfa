------------------------- MODULE PersistenceProofs -------------------------
(***************************************************************************)
(* Proofs about what outlives a message, for every set of messages, owners *)
(* and sessions: the memory file, with any number of turns kept, and the   *)
(* tables of runs, events, sessions and chat messages.                     *)
(*                                                                         *)
(* The file: every store, on disk or in an update's hands, holds past      *)
(* turns in order; while updates come one at a time, the latest of them.   *)
(* The events: until a run is completed an event's number is its place in  *)
(* the order of emission.  The tally: in a session that nothing disturbed  *)
(* one run at most has writes on their way, and how far its route is says  *)
(* how many messages the transcript is ahead of the session's row.         *)
(***************************************************************************)
EXTENDS SessionMemory, RunRecords, FiniteSetTheorems, SequenceTheorems, TLAPS

(* The turns of s occur in t in the same order.                            *)
Ordered(s, t) ==
    \A i \in 1..Len(s) : \E a \in 1..Len(t) :
        /\ t[a] = s[i]
        /\ \A j \in i+1..Len(s) : \E b \in a+1..Len(t) : t[b] = s[j]

Types ==
    /\ stage \in [Message -> {"new", "running", "merged", "writing", "answered"}]
    /\ recalled \in [Message -> Seq(Message)]
    /\ copy \in [Message -> Store]
    /\ file \in [text : {"none", "garbage", "store"}, store : Store]
    /\ file.text # "store" => file.store = Unreadable
    /\ told \in [Keys -> Seq(Message)]
    /\ disturbed \in BOOLEAN

(* No store, on disk or in hand, holds more turns than the limit.          *)
Clipped ==
    /\ \A k \in Keys : Len(file.store[k]) <= MAX_TURNS
    /\ \A m \in Message : \A k \in Keys : Len(copy[m][k]) <= MAX_TURNS

TInv == Types /\ Clipped

(* Every store holds past turns in order; the one an update is going to    *)
(* write has that update's own turn behind them.                           *)
StoresInOrder ==
    /\ \A k \in Keys : Ordered(file.store[k], told[k])
    /\ \A m \in Message : Ordered(recalled[m], told[key(m)])
    /\ \A m \in Message : m \in Updating => \A k \in Keys :
        Ordered(copy[m][k], IF k = key(m) THEN Append(told[k], m) ELSE told[k])
-----------------------------------------------------------------------------
(* The file's keys are the owner and session of some message.              *)
LEMMA KeysAre ==
    /\ Keys = {<<From[m].owner, From[m].session>> : m \in Message}
    /\ \A m \in Message : key(m) \in Keys
BY DEF Keys, key

(* How many turns LastTurns keeps, and which.                              *)
Kept(s) == IF Len(s) < MAX_TURNS THEN Len(s) ELSE MAX_TURNS

LEMMA LastTurnsAre ==
    ASSUME NEW s \in Seq(Message)
    PROVE  /\ LastTurns(s) \in Seq(Message) /\ Len(LastTurns(s)) = Kept(s)
           /\ Kept(s) \in Nat /\ Kept(s) <= Len(s)
           /\ \A i \in 1..Kept(s) : LastTurns(s)[i] = s[i + Len(s) - Kept(s)]
<1>0. Len(s) \in Nat /\ MAX_TURNS \in Nat /\ MAX_TURNS > 0
  BY LenProperties, TurnsAssumption
<1>1. CASE Len(s) <= MAX_TURNS
  <2>1. LastTurns(s) = s /\ Kept(s) = Len(s)
    BY <1>0, <1>1 DEF LastTurns, Kept
  <2>2. \A i \in 1..Len(s) : i + Len(s) - Len(s) = i
    BY <1>0
  <2> QED BY <1>0, <2>1, <2>2
<1>2. CASE Len(s) > MAX_TURNS
  <2>1. LastTurns(s) = SubSeq(s, Len(s) - MAX_TURNS + 1, Len(s)) /\ Kept(s) = MAX_TURNS
    BY <1>0, <1>2 DEF LastTurns, Kept
  <2>2. \A i \in Len(s) - MAX_TURNS + 1..Len(s) : s[i] \in Message
    BY <1>0, <1>2, ElementOfSeq
  <2> DEFINE a == Len(s) - MAX_TURNS + 1
  <2>3. /\ SubSeq(s, a, Len(s)) \in Seq(Message)
        /\ Len(SubSeq(s, a, Len(s))) = IF a <= Len(s) THEN Len(s) - a + 1 ELSE 0
        /\ \A i \in 1..Len(s) - a + 1 : SubSeq(s, a, Len(s))[i] = s[a + i - 1]
    <3>1. a \in Int /\ Len(s) \in Int /\ \A i \in a..Len(s) : s[i] \in Message
      BY <1>0, <2>2
    <3> HIDE DEF a
    <3> QED BY <3>1, SubSeqProperties
  <2>4. Len(s) - a + 1 = MAX_TURNS /\ a <= Len(s)
    BY <1>0, <1>2
  <2>5. \A i \in 1..MAX_TURNS : a + i - 1 = i + Len(s) - MAX_TURNS
    BY <1>0
  <2> QED BY <1>0, <1>2, <2>1, <2>3, <2>4, <2>5
<1> QED BY <1>0, <1>1, <1>2

(* What LastTurns keeps: a suffix of at most MAX_TURNS turns.              *)
LEMMA LastTurnsKeeps ==
    ASSUME NEW s \in Seq(Message)
    PROVE  /\ LastTurns(s) \in Seq(Message)
           /\ Len(LastTurns(s)) <= MAX_TURNS
           /\ \E d \in Nat : /\ Len(LastTurns(s)) + d = Len(s)
                             /\ \A i \in 1..Len(LastTurns(s)) : LastTurns(s)[i] = s[i + d]
<1>1. Len(s) \in Nat /\ Kept(s) \in Nat /\ Kept(s) <= Len(s) /\ Kept(s) <= MAX_TURNS
  BY LenProperties, TurnsAssumption DEF Kept
<1>2. Len(s) - Kept(s) \in Nat /\ Kept(s) + (Len(s) - Kept(s)) = Len(s)
  BY <1>1
<1>3. \A i \in 1..Kept(s) : i + Len(s) - Kept(s) = i + (Len(s) - Kept(s))
  BY <1>1
<1> QED BY <1>1, <1>2, <1>3, LastTurnsAre

(* No turns are in order whatever the past is.                             *)
LEMMA OrderedEmpty ==
    ASSUME NEW t \in Seq(Message)
    PROVE  Ordered(<<>>, t)
BY DEF Ordered

(* A suffix is in order where the whole is.                                *)
LEMMA OrderedSuffix ==
    ASSUME NEW s \in Seq(Message), NEW r \in Seq(Message), NEW t \in Seq(Message),
           NEW d \in Nat, Len(r) + d = Len(s),
           \A i \in 1..Len(r) : r[i] = s[i + d],
           Ordered(s, t)
    PROVE  Ordered(r, t)
<1>0. Len(r) \in Nat /\ Len(s) \in Nat /\ Len(t) \in Nat
  BY LenProperties
<1> SUFFICES ASSUME NEW i \in 1..Len(r)
             PROVE  \E a \in 1..Len(t) :
                      /\ t[a] = r[i]
                      /\ \A j \in i+1..Len(r) : \E b \in a+1..Len(t) : t[b] = r[j]
  BY DEF Ordered
<1>1. i + d \in 1..Len(s)
  BY <1>0
<1>2. PICK a \in 1..Len(t) :
        /\ t[a] = s[i + d]
        /\ \A j \in (i+d)+1..Len(s) : \E b \in a+1..Len(t) : t[b] = s[j]
  BY <1>1 DEF Ordered
<1>3. ASSUME NEW j \in i+1..Len(r) PROVE \E b \in a+1..Len(t) : t[b] = r[j]
  <2>1. j + d \in (i+d)+1..Len(s) /\ j \in 1..Len(r)
    BY <1>0
  <2>2. PICK b \in a+1..Len(t) : t[b] = s[j + d]
    BY <1>2, <2>1
  <2> QED BY <2>1, <2>2
<1>4. t[a] = r[i]
  BY <1>2
<1> QED BY <1>3, <1>4

(* And so is it in any sequence the original one is embedded in.           *)
LEMMA OrderedEmbed ==
    ASSUME NEW s \in Seq(Message), NEW t \in Seq(Message), NEW u \in Seq(Message),
           NEW up \in [1..Len(t) -> 1..Len(u)],
           \A a \in 1..Len(t) : u[up[a]] = t[a],
           \A a, b \in 1..Len(t) : a < b => up[a] < up[b],
           Ordered(s, t)
    PROVE  Ordered(s, u)
<1>0. Len(t) \in Nat /\ Len(u) \in Nat /\ Len(s) \in Nat
  BY LenProperties
<1> SUFFICES ASSUME NEW i \in 1..Len(s)
             PROVE  \E a \in 1..Len(u) :
                      /\ u[a] = s[i]
                      /\ \A j \in i+1..Len(s) : \E b \in a+1..Len(u) : u[b] = s[j]
  BY DEF Ordered
<1>1. PICK a \in 1..Len(t) :
        /\ t[a] = s[i]
        /\ \A j \in i+1..Len(s) : \E b \in a+1..Len(t) : t[b] = s[j]
  BY DEF Ordered
<1>2. up[a] \in 1..Len(u) /\ u[up[a]] = s[i]
  BY <1>1
<1>3. ASSUME NEW j \in i+1..Len(s) PROVE \E b \in up[a]+1..Len(u) : u[b] = s[j]
  <2>1. PICK b \in a+1..Len(t) : t[b] = s[j]
    BY <1>1
  <2>2. b \in 1..Len(t) /\ a < b
    BY <1>0, <2>1
  <2>3. up[a] < up[b] /\ up[b] \in 1..Len(u) /\ u[up[b]] = s[j]
    BY <2>1, <2>2
  <2>4. up[b] \in up[a]+1..Len(u)
    BY <1>0, <1>2, <2>3
  <2> QED BY <2>3, <2>4
<1> QED BY <1>2, <1>3

(* Turns stay in order when the past grows.                                *)
LEMMA OrderedExtend ==
    ASSUME NEW s \in Seq(Message), NEW t \in Seq(Message), NEW m \in Message, Ordered(s, t)
    PROVE  Ordered(s, Append(t, m))
<1>1. Len(t) \in Nat
  BY LenProperties
<1>2. /\ Append(t, m) \in Seq(Message)
      /\ Len(Append(t, m)) = Len(t) + 1
      /\ \A i \in 1..Len(t) : Append(t, m)[i] = t[i]
  BY AppendProperties
<1> DEFINE up == [a \in 1..Len(t) |-> a]
<1>3. up \in [1..Len(t) -> 1..Len(Append(t, m))]
  BY <1>1, <1>2
<1>4. \A a \in 1..Len(t) : Append(t, m)[up[a]] = t[a]
  BY <1>2
<1>5. \A a, b \in 1..Len(t) : a < b => up[a] < up[b]
  OBVIOUS
<1> HIDE DEF up
<1> QED BY <1>2, <1>3, <1>4, <1>5, OrderedEmbed

(* Another turn may come in before the last one.                           *)
LEMMA OrderedInsert ==
    ASSUME NEW s \in Seq(Message), NEW t \in Seq(Message), NEW m \in Message, NEW n \in Message,
           Ordered(s, Append(t, n))
    PROVE  Ordered(s, Append(Append(t, m), n))
<1> DEFINE v == Append(t, n)
           w == Append(t, m)
           u == Append(w, n)
           up == [a \in 1..Len(v) |-> IF a <= Len(t) THEN a ELSE a + 1]
<1>1. Len(t) \in Nat
  BY LenProperties
<1>2. /\ v \in Seq(Message) /\ Len(v) = Len(t) + 1 /\ v[Len(t) + 1] = n
      /\ \A i \in 1..Len(t) : v[i] = t[i]
  BY AppendProperties
<1>3. /\ w \in Seq(Message) /\ Len(w) = Len(t) + 1
      /\ \A i \in 1..Len(t) : w[i] = t[i]
  BY AppendProperties
<1> HIDE DEF w
<1>4. /\ u \in Seq(Message) /\ Len(u) = Len(w) + 1 /\ u[Len(w) + 1] = n
      /\ \A i \in 1..Len(w) : u[i] = w[i]
  BY <1>3, AppendProperties
<1> HIDE DEF v, u
<1>5. up \in [1..Len(v) -> 1..Len(u)]
  BY <1>1, <1>2, <1>3, <1>4
<1>6. ASSUME NEW a \in 1..Len(v) PROVE u[up[a]] = v[a]
  <2>1. CASE a <= Len(t)
    BY <1>1, <1>2, <1>3, <1>4, <2>1
  <2>2. CASE a = Len(t) + 1
    BY <1>1, <1>2, <1>3, <1>4, <2>2
  <2> QED BY <1>1, <1>2, <2>1, <2>2
<1>7. \A a, b \in 1..Len(v) : a < b => up[a] < up[b]
  BY <1>1, <1>2
<1> HIDE DEF up
<1>8. Ordered(s, v)
  BY DEF v
<1>9. Ordered(s, u)
  BY <1>2, <1>4, <1>5, <1>6, <1>7, <1>8, OrderedEmbed
<1> QED BY <1>9 DEF u, w

(* A turn filed behind both the turns and their past keeps the order.      *)
LEMMA OrderedAppend ==
    ASSUME NEW s \in Seq(Message), NEW t \in Seq(Message), NEW m \in Message, Ordered(s, t)
    PROVE  Ordered(Append(s, m), Append(t, m))
<1> DEFINE r == Append(s, m)
           u == Append(t, m)
<1>0. Len(s) \in Nat /\ Len(t) \in Nat
  BY LenProperties
<1>1. /\ Len(r) = Len(s) + 1 /\ r[Len(s) + 1] = m
      /\ \A i \in 1..Len(s) : r[i] = s[i]
  BY AppendProperties
<1>2. /\ Len(u) = Len(t) + 1 /\ u[Len(t) + 1] = m
      /\ \A i \in 1..Len(t) : u[i] = t[i]
  BY AppendProperties
<1> HIDE DEF r, u
<1> SUFFICES ASSUME NEW i \in 1..Len(r)
             PROVE  \E a \in 1..Len(u) :
                      /\ u[a] = r[i]
                      /\ \A j \in i+1..Len(r) : \E b \in a+1..Len(u) : u[b] = r[j]
  BY DEF Ordered, r, u
<1>3. CASE i = Len(s) + 1
  <2>1. Len(t) + 1 \in 1..Len(u) /\ u[Len(t) + 1] = r[i]
    BY <1>0, <1>1, <1>2, <1>3
  <2>2. i+1..Len(r) = {}
    BY <1>0, <1>1, <1>3
  <2> QED BY <2>1, <2>2
<1>4. CASE i \in 1..Len(s)
  <2>1. PICK a \in 1..Len(t) :
          /\ t[a] = s[i]
          /\ \A j \in i+1..Len(s) : \E b \in a+1..Len(t) : t[b] = s[j]
    BY <1>4 DEF Ordered
  <2>2. a \in 1..Len(u) /\ u[a] = r[i]
    BY <1>0, <1>1, <1>2, <1>4, <2>1
  <2>3. ASSUME NEW j \in i+1..Len(r) PROVE \E b \in a+1..Len(u) : u[b] = r[j]
    <3>1. CASE j = Len(s) + 1
      <4>1. Len(t) + 1 \in a+1..Len(u) /\ u[Len(t) + 1] = r[j]
        BY <1>0, <1>1, <1>2, <2>1, <3>1
      <4> QED BY <4>1
    <3>2. CASE j \in i+1..Len(s)
      <4>1. PICK b \in a+1..Len(t) : t[b] = s[j]
        BY <2>1, <3>2
      <4>2. b \in 1..Len(t) /\ b \in a+1..Len(u) /\ j \in 1..Len(s)
        BY <1>0, <1>2, <1>4, <3>2, <4>1
      <4>3. u[b] = r[j]
        BY <1>1, <1>2, <4>1, <4>2
      <4> QED BY <4>2, <4>3
    <3> QED BY <1>0, <1>1, <1>4, <3>1, <3>2
  <2> QED BY <2>2, <2>3
<1>5. i \in 1..Len(s) \/ i = Len(s) + 1
  BY <1>0, <1>1
<1> QED BY <1>3, <1>4, <1>5
-----------------------------------------------------------------------------
(* A file that cannot be read is a store of no turns.                      *)
LEMMA EmptyStore ==
    /\ Unreadable \in Store
    /\ \A k \in Keys : Unreadable[k] = <<>> /\ Len(Unreadable[k]) = 0 /\ Len(Unreadable[k]) <= MAX_TURNS
<1>1. <<>> \in Seq(Message) /\ Len(<<>>) = 0
  BY EmptySeq
<1> QED BY <1>1, TurnsAssumption DEF Unreadable, Store

(* The server starts with well-formed stores.                              *)
LEMMA InitTInv == Init => TInv
<1> SUFFICES ASSUME Init PROVE TInv
  OBVIOUS
<1>1. told = [k \in Keys |-> <<>>] /\ <<>> \in Seq(Message)
  BY KeysAre, EmptySeq DEF Init
<1>2. Types
  BY <1>1, EmptyStore DEF Init, Types, NoFile
<1>3. Clipped
  BY EmptyStore DEF Init, Clipped, NoFile
<1> QED BY <1>2, <1>3 DEF TInv

(* A read gives well-formed turns: those on file, or none at all.          *)
LEMMA ReadTurns ==
    ASSUME TInv, NEW store \in Read
    PROVE  /\ store \in Store
           /\ \A k \in Keys :
                /\ store[k] \in Seq(Message) /\ Len(store[k]) <= MAX_TURNS
                /\ store[k] = file.store[k] \/ store[k] = <<>>
BY EmptyStore DEF Read, TInv, Types, Clipped, Store

(* The turn list an update makes of the one it read.                       *)
LEMMA MergedTurns ==
    ASSUME TInv, NEW m \in Message, NEW store \in Read
    PROVE  /\ Append(store[key(m)], m) \in Seq(Message)
           /\ LastTurns(Append(store[key(m)], m)) \in Seq(Message)
           /\ Len(LastTurns(Append(store[key(m)], m))) <= MAX_TURNS
<1>1. store[key(m)] \in Seq(Message)
  BY KeysAre, ReadTurns, Zenon
<1>2. Append(store[key(m)], m) \in Seq(Message)
  BY <1>1, AppendProperties
<1> QED BY <1>2, LastTurnsKeeps

(* No step breaks the types or the limit on the turns kept.                *)
LEMMA NextTInv == TInv /\ [Next]_vars => TInv'
<1> SUFFICES ASSUME TInv, [Next]_vars PROVE TInv'
  OBVIOUS
<1> USE DEF TInv
<1>1. ASSUME NEW m \in Message, Recall(m) PROVE TInv'
  <2>1. PICK store \in Read : recalled' = [recalled EXCEPT ![m] = store[key(m)]]
    BY <1>1 DEF Recall
  <2>2. store[key(m)] \in Seq(Message)
    BY KeysAre, ReadTurns, Zenon DEF Store
  <2> QED BY <1>1, <2>1, <2>2 DEF Recall, At, Types, Clipped
<1>2. ASSUME NEW m \in Message, Merge(m) PROVE TInv'
  <2>0. PICK store \in Read :
          copy' = [copy EXCEPT ![m] = [store EXCEPT ![key(m)] = LastTurns(Append(@, m))]]
    BY <1>2 DEF Merge
  <2> DEFINE turns == LastTurns(Append(store[key(m)], m))
             mine == [store EXCEPT ![key(m)] = turns]
  <2>1. turns \in Seq(Message) /\ Len(turns) <= MAX_TURNS
    BY MergedTurns
  <2>2. copy' = [copy EXCEPT ![m] = mine]
    BY <2>0
  <2> HIDE DEF turns
  <2>3. mine \in Store /\ \A k \in Keys : Len(mine[k]) <= MAX_TURNS
    BY <2>1, KeysAre, ReadTurns DEF Store
  <2> HIDE DEF mine
  <2>4. disturbed' \in BOOLEAN
    BY <1>2 DEF Merge, Types
  <2>5. Types'
    BY <1>2, <2>2, <2>3, <2>4 DEF Merge, At, Types
  <2>6. Clipped'
    BY <1>2, <2>2, <2>3 DEF Merge, Types, Clipped
  <2> QED BY <2>5, <2>6
<1>3. ASSUME NEW m \in Message, Truncate(m) PROVE TInv'
  BY <1>3, EmptyStore DEF Truncate, At, Types, Clipped, NoFile
<1>4. ASSUME NEW m \in Message, Write(m) PROVE TInv'
  <2>1. file' \in [text : {"none", "garbage", "store"}, store : Store]
    BY <1>4, EmptyStore DEF Write, Types, Garbage
  <2>2. file'.text # "store" => file'.store = Unreadable
    BY <1>4 DEF Write, Garbage
  <2>3. \A k \in Keys : Len(file'.store[k]) <= MAX_TURNS
    BY <1>4, EmptyStore DEF Write, Garbage, Clipped
  <2>4. told' \in [Keys -> Seq(Message)]
    <3>1. told' = [told EXCEPT ![key(m)] = Append(@, m)]
      BY <1>4 DEF Write, key
    <3>2. Append(told[key(m)], m) \in Seq(Message)
      BY KeysAre, AppendProperties DEF Types
    <3> QED BY <3>1, <3>2 DEF Types
  <2>5. stage' \in [Message -> {"new", "running", "merged", "writing", "answered"}]
    BY <1>4 DEF Write, At, Types
  <2> QED BY <1>4, <2>1, <2>2, <2>3, <2>4, <2>5 DEF Write, Types, Clipped
<1>5. ASSUME NEW m \in Message, Fail(m) PROVE TInv'
  BY <1>5 DEF Fail, Types, Clipped
<1>6. ASSUME Crash PROVE TInv'
  <2>1. disturbed' \in BOOLEAN
    BY <1>6 DEF Crash, Types
  <2> QED BY <1>6, <2>1 DEF Crash, Types, Clipped
<1>7. ASSUME UNCHANGED vars PROVE TInv'
  BY <1>7 DEF vars, Types, Clipped
<1> QED BY <1>1, <1>2, <1>3, <1>4, <1>5, <1>6, <1>7 DEF Next

(* Types and limit hold throughout.                                        *)
LEMMA MemoryTyped == Spec => []TInv
BY InitTInv, NextTInv, PTL DEF Spec

(* Session memory keeps its types, and no session ever remembers more than *)
(* MAX_TURNS turns.                                                        *)
THEOREM MemoryTypeOK == Spec => []TypeOK
<1>1. TInv => TypeOK
  BY DEF TInv, Types, Clipped, TypeOK
<1> QED BY <1>1, MemoryTyped, PTL
-----------------------------------------------------------------------------
(* The server starts with nothing recalled and nothing filed.              *)
LEMMA InitStores == Init => StoresInOrder
<1> SUFFICES ASSUME Init PROVE StoresInOrder
  OBVIOUS
<1>1. \A k \in Keys : told[k] = <<>> /\ told[k] \in Seq(Message)
  BY KeysAre, EmptySeq DEF Init
<1>2. \A k \in Keys : Ordered(file.store[k], told[k])
  BY <1>1, EmptyStore, OrderedEmpty DEF Init, NoFile
<1>3. \A m \in Message : Ordered(recalled[m], told[key(m)])
  BY <1>1, KeysAre, OrderedEmpty DEF Init
<1>4. Updating = {}
  BY DEF Init, Updating
<1> QED BY <1>2, <1>3, <1>4 DEF StoresInOrder

(* A write files its own turn behind the others of its session.            *)
LEMMA WriteStores ==
    ASSUME TInv, StoresInOrder, NEW m \in Message, Write(m)
    PROVE  StoresInOrder'
<1> USE DEF TInv
<1>1. told' = [told EXCEPT ![key(m)] = Append(@, m)]
  BY DEF Write, key
<1>2. \A k \in Keys : told'[k] = IF k = key(m) THEN Append(told[k], m) ELSE told[k]
  BY <1>1 DEF Types
<1>3. \A k \in Keys : told[k] \in Seq(Message)
  BY DEF Types
<1>4. m \in Updating /\ Updating' = Updating \ {m}
  BY DEF Write, At, Updating, Types
<1>5. ASSUME NEW k \in Keys PROVE Ordered(file'.store[k], told'[k])
  <2>1. CASE file' = [text |-> "store", store |-> copy[m]]
    <3>1. file'.store[k] = copy[m][k]
      BY <2>1
    <3> QED BY <1>2, <1>4, <3>1 DEF StoresInOrder
  <2>2. CASE file' = Garbage
    <3>1. file'.store[k] = <<>>
      BY <2>2, EmptyStore DEF Garbage
    <3>2. told'[k] \in Seq(Message)
      BY <1>2, <1>3, AppendProperties
    <3> QED BY <3>1, <3>2, OrderedEmpty
  <2> QED BY <2>1, <2>2 DEF Write
<1>6. ASSUME NEW l \in Message PROVE Ordered(recalled'[l], told'[key(l)])
  <2>1. recalled' = recalled /\ recalled[l] \in Seq(Message) /\ Ordered(recalled[l], told[key(l)])
    BY DEF Write, Types, StoresInOrder
  <2>2. key(l) \in Keys
    BY KeysAre
  <2> QED BY <1>2, <1>3, <2>1, <2>2, OrderedExtend
<1>7. ASSUME NEW l \in Message, l \in Updating', NEW k \in Keys
      PROVE  Ordered(copy'[l][k], IF k = key(l) THEN Append(told'[k], l) ELSE told'[k])
  <2>1. /\ copy' = copy /\ copy[l][k] \in Seq(Message)
        /\ Ordered(copy[l][k], IF k = key(l) THEN Append(told[k], l) ELSE told[k])
    <3>1. copy[l] \in Store
      BY DEF Types
    <3> QED BY <1>4, <1>7, <3>1 DEF Write, Store, StoresInOrder
  <2>2. CASE k # key(m)
    BY <1>2, <2>1, <2>2
  <2>3. CASE k = key(m) /\ k = key(l)
    <3>1. Ordered(copy[l][k], Append(Append(told[k], m), l))
      BY <1>3, <2>1, <2>3, OrderedInsert
    <3> QED BY <1>2, <2>1, <2>3, <3>1
  <2>4. CASE k = key(m) /\ k # key(l)
    <3>1. Ordered(copy[l][k], Append(told[k], m))
      BY <1>3, <2>1, <2>4, OrderedExtend
    <3> QED BY <1>2, <2>1, <2>4, <3>1
  <2> QED BY <2>2, <2>3, <2>4
<1> QED BY <1>5, <1>6, <1>7 DEF StoresInOrder

(* An update adds its turn behind those of the store it read.              *)
LEMMA MergeStores ==
    ASSUME TInv, StoresInOrder, NEW m \in Message, Merge(m)
    PROVE  StoresInOrder'
<1> USE DEF TInv
<1>0. PICK store \in Read :
        copy' = [copy EXCEPT ![m] = [store EXCEPT ![key(m)] = LastTurns(Append(@, m))]]
  BY DEF Merge
<1> DEFINE old == store[key(m)]
           all == Append(old, m)
           turns == LastTurns(all)
           past == Append(told[key(m)], m)
<1>1. file' = file /\ told' = told /\ recalled' = recalled /\ Updating' = Updating \cup {m}
  BY DEF Merge, At, Updating, Types
<1>2. \A k \in Keys :
        store[k] \in Seq(Message) /\ told[k] \in Seq(Message) /\ Ordered(store[k], told[k])
  BY ReadTurns, OrderedEmpty DEF Types, StoresInOrder
<1>3. all \in Seq(Message) /\ past \in Seq(Message)
  BY <1>2, KeysAre, AppendProperties
<1>4. Ordered(all, past)
  BY <1>2, KeysAre, OrderedAppend
<1>5. copy' = [copy EXCEPT ![m] = [store EXCEPT ![key(m)] = turns]]
  BY <1>0
<1> HIDE DEF all, past
<1>6. /\ turns \in Seq(Message)
      /\ \E d \in Nat : /\ Len(turns) + d = Len(all)
                       /\ \A i \in 1..Len(turns) : turns[i] = all[i + d]
  BY <1>3, LastTurnsKeeps
<1> HIDE DEF turns
<1>7. Ordered(turns, past)
  <2>1. PICK d \in Nat : /\ Len(turns) + d = Len(all)
                        /\ \A i \in 1..Len(turns) : turns[i] = all[i + d]
    BY <1>6
  <2> QED BY <1>3, <1>4, <1>6, <2>1, OrderedSuffix
<1>8. ASSUME NEW l \in Message, l \in Updating', NEW k \in Keys
      PROVE  Ordered(copy'[l][k], IF k = key(l) THEN Append(told[k], l) ELSE told[k])
  <2>1. CASE l # m
    <3>1. copy'[l] = copy[l] /\ l \in Updating
      BY <1>1, <1>5, <1>8, <2>1 DEF Types
    <3> QED BY <3>1 DEF StoresInOrder
  <2>2. CASE l = m /\ k = key(m)
    <3>1. copy'[l][k] = turns
      BY <1>5, <2>2, KeysAre, ReadTurns DEF Types, Store
    <3> QED BY <1>7, <2>2, <3>1 DEF past
  <2>3. CASE l = m /\ k # key(m)
    <3>1. copy'[l][k] = store[k]
      BY <1>5, <2>3, ReadTurns DEF Types, Store
    <3> QED BY <1>2, <2>3, <3>1
  <2> QED BY <2>1, <2>2, <2>3
<1> QED BY <1>1, <1>8 DEF StoresInOrder

(* Every step of an update, and a crash, keeps the stores in order.        *)
LEMMA NextStores == TInv /\ StoresInOrder /\ [Next]_vars => StoresInOrder'
<1> SUFFICES ASSUME TInv, StoresInOrder, [Next]_vars PROVE StoresInOrder'
  OBVIOUS
<1> USE DEF TInv
<1>1. ASSUME NEW m \in Message, Recall(m) PROVE StoresInOrder'
  <2>1. Updating' = Updating
    BY <1>1 DEF Recall, At, Updating, Types
  <2>2. PICK store \in Read : recalled' = [recalled EXCEPT ![m] = store[key(m)]]
    BY <1>1 DEF Recall
  <2>3. \A k \in Keys : Ordered(store[k], told[k])
    BY ReadTurns, OrderedEmpty DEF Types, StoresInOrder
  <2>4. \A l \in Message : Ordered(recalled'[l], told[key(l)])
    BY <2>2, <2>3, KeysAre DEF Types, StoresInOrder
  <2> QED BY <1>1, <2>1, <2>4 DEF Recall, StoresInOrder
<1>2. ASSUME NEW m \in Message, Merge(m) PROVE StoresInOrder'
  BY <1>2, MergeStores
<1>3. ASSUME NEW m \in Message, Truncate(m) PROVE StoresInOrder'
  <2>1. Updating' = Updating
    BY <1>3 DEF Truncate, At, Updating, Types
  <2>2. \A k \in Keys : Ordered(file'.store[k], told[k])
    BY <1>3, EmptyStore, OrderedEmpty DEF Truncate, NoFile, Types
  <2> QED BY <1>3, <2>1, <2>2 DEF Truncate, StoresInOrder
<1>4. ASSUME NEW m \in Message, Write(m) PROVE StoresInOrder'
  BY <1>4, WriteStores
<1>5. ASSUME NEW m \in Message, Fail(m) PROVE StoresInOrder'
  <2>1. Updating' \subseteq Updating
    BY <1>5 DEF Fail, Updating, Types
  <2> QED BY <1>5, <2>1 DEF Fail, StoresInOrder
<1>6. ASSUME Crash PROVE StoresInOrder'
  <2>1. Updating' = {}
    BY <1>6 DEF Crash, Updating, Types
  <2> QED BY <1>6, <2>1 DEF Crash, StoresInOrder
<1>7. ASSUME UNCHANGED vars PROVE StoresInOrder'
  BY <1>7 DEF vars, StoresInOrder, Updating
<1> QED BY <1>1, <1>2, <1>3, <1>4, <1>5, <1>6, <1>7 DEF Next

(* Stores in order give a conversation in order.                           *)
LEMMA StoresConverse == TInv /\ StoresInOrder => ConversationInOrder
<1> SUFFICES ASSUME TInv, StoresInOrder, NEW m \in Message
             PROVE  LET turns == recalled[m]
                        past  == told[<<From[m].owner, From[m].session>>]
                    IN \A i \in DOMAIN turns : \E a \in DOMAIN past :
                        /\ past[a] = turns[i]
                        /\ \A j \in i+1..Len(turns) : \E b \in a+1..Len(past) : past[b] = turns[j]
  BY DEF ConversationInOrder
<1>1. Ordered(recalled[m], told[key(m)])
  BY DEF StoresInOrder
<1>2. recalled[m] \in Seq(Message) /\ told[key(m)] \in Seq(Message)
  BY KeysAre DEF TInv, Types
<1>3. DOMAIN recalled[m] = 1..Len(recalled[m]) /\ DOMAIN told[key(m)] = 1..Len(told[key(m)])
  BY <1>2, LenProperties
<1>4. told[key(m)] = told[<<From[m].owner, From[m].session>>]
  BY DEF key
<1> DEFINE turns == recalled[m]
           past  == told[key(m)]
<1>5. \A i \in 1..Len(turns) : \E a \in 1..Len(past) :
        /\ past[a] = turns[i]
        /\ \A j \in i+1..Len(turns) : \E b \in a+1..Len(past) : past[b] = turns[j]
  BY <1>1 DEF Ordered
<1>6. \A i \in DOMAIN turns : \E a \in DOMAIN past :
        /\ past[a] = turns[i]
        /\ \A j \in i+1..Len(turns) : \E b \in a+1..Len(past) : past[b] = turns[j]
  <2> HIDE DEF turns, past
  <2>1. DOMAIN turns = 1..Len(turns) /\ DOMAIN past = 1..Len(past)
    BY <1>3 DEF turns, past
  <2> QED BY <1>5, <2>1
<1> QED BY <1>4, <1>6

(* Whatever updates overlap, tear the file, fail or crash, a message only  *)
(* ever recalls turns of its own owner and session that went through, in   *)
(* the order they did.                                                     *)
THEOREM MemoryConversationInOrder == Spec => []ConversationInOrder
<1>1. Init => TInv /\ StoresInOrder
  BY InitTInv, InitStores
<1>2. (TInv /\ StoresInOrder) /\ [Next]_vars => (TInv /\ StoresInOrder)'
  BY NextTInv, NextStores
<1>3. TInv /\ StoresInOrder => ConversationInOrder
  BY StoresConverse
<1> QED BY <1>1, <1>2, <1>3, PTL DEF Spec
-----------------------------------------------------------------------------
(* Dropping the oldest turns before adding one, or only after, is the same.*)
LEMMA LastTurnsAppend ==
    ASSUME NEW s \in Seq(Message), NEW m \in Message
    PROVE  LastTurns(Append(LastTurns(s), m)) = LastTurns(Append(s, m))
<1> DEFINE r == LastTurns(s)
           rm == Append(r, m)
           sm == Append(s, m)
<1>0. Len(s) \in Nat /\ MAX_TURNS \in Nat /\ MAX_TURNS > 0
  BY LenProperties, TurnsAssumption
<1>1. /\ r \in Seq(Message) /\ Len(r) = Kept(s) /\ Kept(s) \in Nat /\ Kept(s) <= Len(s)
      /\ \A i \in 1..Kept(s) : r[i] = s[i + Len(s) - Kept(s)]
  BY LastTurnsAre
<1>2. /\ sm \in Seq(Message) /\ Len(sm) = Len(s) + 1 /\ sm[Len(s) + 1] = m
      /\ \A i \in 1..Len(s) : sm[i] = s[i]
  BY AppendProperties
<1> HIDE DEF r
<1>3. /\ rm \in Seq(Message) /\ Len(rm) = Kept(s) + 1 /\ rm[Kept(s) + 1] = m
      /\ \A i \in 1..Kept(s) : rm[i] = r[i]
  BY <1>1, AppendProperties
<1> HIDE DEF rm, sm
<1>4. Kept(rm) = Kept(sm)
  BY <1>0, <1>1, <1>2, <1>3 DEF Kept
<1>5. /\ LastTurns(rm) \in Seq(Message) /\ Len(LastTurns(rm)) = Kept(rm)
      /\ \A i \in 1..Kept(rm) : LastTurns(rm)[i] = rm[i + Len(rm) - Kept(rm)]
  BY <1>3, LastTurnsAre
<1>6. /\ LastTurns(sm) \in Seq(Message) /\ Len(LastTurns(sm)) = Kept(sm)
      /\ Kept(sm) \in Nat /\ Kept(sm) <= Len(sm)
      /\ \A i \in 1..Kept(sm) : LastTurns(sm)[i] = sm[i + Len(sm) - Kept(sm)]
  BY <1>2, LastTurnsAre
<1>7. ASSUME NEW i \in 1..Kept(sm) PROVE LastTurns(rm)[i] = LastTurns(sm)[i]
  <2>1. Kept(sm) <= Kept(s) + 1
    BY <1>0, <1>2 DEF Kept
  <2>2. /\ Kept(s) \in Nat /\ Kept(sm) \in Nat /\ Len(s) \in Nat
        /\ Len(rm) = Kept(s) + 1 /\ Len(sm) = Len(s) + 1
    BY <1>0, <1>1, <1>2, <1>3, <1>6
  <2> DEFINE j == i + Len(rm) - Kept(sm)
  <2>3. /\ j \in 1..Kept(s) + 1 /\ i + Len(sm) - Kept(sm) = j + Len(s) - Kept(s)
        /\ i + Len(rm) - Kept(rm) = j
    BY <1>4, <2>1, <2>2
  <2>4. LastTurns(rm)[i] = rm[j] /\ LastTurns(sm)[i] = sm[j + Len(s) - Kept(s)]
    BY <1>4, <1>5, <1>6, <2>3
  <2> HIDE DEF j
  <2>5. CASE j = Kept(s) + 1
    <3>1. j + Len(s) - Kept(s) = Len(s) + 1
      BY <1>0, <1>1, <2>5
    <3> QED BY <1>2, <1>3, <2>4, <2>5, <3>1
  <2>6. CASE j \in 1..Kept(s)
    <3>1. j + Len(s) - Kept(s) \in 1..Len(s)
      BY <1>0, <1>1, <2>6
    <3> QED BY <1>1, <1>2, <1>3, <2>4, <2>6, <3>1
  <2> QED BY <2>2, <2>3, <2>5, <2>6
<1>8. LastTurns(rm) = LastTurns(sm)
  BY <1>4, <1>5, <1>6, <1>7, SeqEqual
<1> QED BY <1>8 DEF rm, sm, r

(* What LastTurns keeps is the end of what it was given.                   *)
LEMMA LastTurnsSuffix ==
    ASSUME NEW s \in Seq(Message)
    PROVE  IsSuffix(LastTurns(s), s)
<1> DEFINE r == LastTurns(s)
           back(t) == [i \in 1..Len(t) |-> t[Len(t) - i + 1]]
<1>1. /\ r \in Seq(Message) /\ Len(r) = Kept(s) /\ Kept(s) \in Nat /\ Kept(s) <= Len(s)
      /\ Len(s) \in Nat /\ \A i \in 1..Kept(s) : r[i] = s[i + Len(s) - Kept(s)]
  BY LastTurnsAre, LenProperties
<1> HIDE DEF r
<1>2. ASSUME NEW t \in Seq(Message)
      PROVE  /\ Reverse(t) \in Seq(Message) /\ Len(Reverse(t)) = Len(t)
             /\ \A i \in 1..Len(t) : Reverse(t)[i] = t[Len(t) - i + 1]
  <2>1. Len(t) \in Nat /\ \A i \in 1..Len(t) : t[i] \in Message
    BY LenProperties, ElementOfSeq
  <2>2. \A i \in 1..Len(t) : Len(t) - i + 1 \in 1..Len(t)
    BY <2>1
  <2>3. Reverse(t) \in [1..Len(t) -> Message]
    BY <2>1, <2>2 DEF Reverse
  <2>4. Reverse(t) \in Seq(Message) /\ Len(Reverse(t)) = Len(t)
    BY <2>1, <2>3, LenProperties, SeqDef
  <2> QED BY <2>4 DEF Reverse
<1> DEFINE rr == Reverse(r)
           rs == Reverse(s)
           n == Kept(s)
<1>3. /\ rr \in Seq(Message) /\ Len(rr) = n
      /\ \A i \in 1..n : rr[i] = r[n - i + 1]
  <2>1. r \in Seq(Message) /\ Len(r) = n
    BY <1>1
  <2> HIDE DEF n
  <2> QED BY <1>2, <2>1, Zenon
<1>4. /\ rs \in Seq(Message) /\ Len(rs) = Len(s)
      /\ \A i \in 1..Len(s) : rs[i] = s[Len(s) - i + 1]
  BY <1>2, Zenon
<1> HIDE DEF rr, rs
<1>5. \A i \in 1..n : rr[i] = rs[i]
  <2> TAKE i \in 1..n
  <2>1. /\ n - i + 1 \in 1..n /\ i \in 1..Len(s)
        /\ (n - i + 1) + Len(s) - n = Len(s) - i + 1
    BY <1>1
  <2> QED BY <1>1, <1>3, <1>4, <2>1
<1>6. \A i \in 1..n : rr[i] \in Message /\ rs[i] \in Message
  BY <1>1, <1>3, <1>4, ElementOfSeq
<1> HIDE DEF n
<1>7. n \in Nat /\ n <= Len(s)
  BY <1>1 DEF n
<1>8. /\ SubSeq(rr, 1, n) \in Seq(Message) /\ Len(SubSeq(rr, 1, n)) = n
      /\ \A i \in 1..n : SubSeq(rr, 1, n)[i] = rr[i]
  <2>1. /\ SubSeq(rr, 1, n) \in Seq(Message)
        /\ Len(SubSeq(rr, 1, n)) = IF 1 <= n THEN n - 1 + 1 ELSE 0
        /\ \A i \in 1..n - 1 + 1 : SubSeq(rr, 1, n)[i] = rr[1 + i - 1]
    BY <1>6, <1>7, SubSeqProperties
  <2> QED BY <1>7, <2>1
<1>9. /\ SubSeq(rs, 1, n) \in Seq(Message) /\ Len(SubSeq(rs, 1, n)) = n
      /\ \A i \in 1..n : SubSeq(rs, 1, n)[i] = rs[i]
  <2>1. /\ SubSeq(rs, 1, n) \in Seq(Message)
        /\ Len(SubSeq(rs, 1, n)) = IF 1 <= n THEN n - 1 + 1 ELSE 0
        /\ \A i \in 1..n - 1 + 1 : SubSeq(rs, 1, n)[i] = rs[1 + i - 1]
    BY <1>6, <1>7, SubSeqProperties
  <2> QED BY <1>7, <2>1
<1>10. SubSeq(rr, 1, n) = SubSeq(rs, 1, n)
  BY <1>5, <1>8, <1>9, SeqEqual
<1> QED BY <1>3, <1>4, <1>7, <1>10 DEF IsSuffix, IsPrefix, rr, rs, r

(* While nothing disturbed them, updates come one at a time: the file is   *)
(* being rewritten by the one that emptied it or holds the latest turns,   *)
(* and what an update is going to write are the latest turns and its own.  *)
UpToDate ==
    /\ \A m, n \in Updating : m = n
    /\ \A m \in Message : stage[m] = "writing" => file.text = "none"
    /\ (\A m \in Message : stage[m] # "writing") =>
        \A k \in Keys : file.store[k] = LastTurns(told[k])
    /\ \A m \in Updating : \A k \in Keys :
        copy[m][k] = LastTurns(IF k = key(m) THEN Append(told[k], m) ELSE told[k])

Remembering == disturbed \/ UpToDate

(* Nothing is told yet, and nothing filed.                                 *)
LEMMA InitRemembering == Init => Remembering
<1> SUFFICES ASSUME Init PROVE UpToDate
  BY DEF Remembering
<1>1. \A k \in Keys : told[k] = <<>> /\ file.store[k] = <<>>
  BY KeysAre, EmptyStore DEF Init, NoFile
<1>2. LastTurns(<<>>) = <<>>
  <2>1. Len(<<>>) = 0 /\ ~(0 > MAX_TURNS)
    BY EmptySeq, TurnsAssumption
  <2> QED BY <2>1 DEF LastTurns
<1>3. Updating = {} /\ \A m \in Message : stage[m] # "writing"
  BY DEF Init, Updating
<1> QED BY <1>1, <1>2, <1>3 DEF UpToDate

(* An update that starts alone reads the latest turns and adds its own.    *)
LEMMA MergeRemembering ==
    ASSUME TInv, Remembering, NEW m \in Message, Merge(m)
    PROVE  Remembering'
<1> SUFFICES ASSUME ~disturbed' PROVE UpToDate'
  BY DEF Remembering
<1>1. ~disturbed /\ Updating = {}
  BY DEF Merge
<1>2. UpToDate
  BY <1>1 DEF Remembering
<1>3. file' = file /\ told' = told /\ stage' = [stage EXCEPT ![m] = "merged"]
  BY DEF Merge, At
<1>4. Updating' = {m} /\ \A l \in Message : stage[l] # "writing" /\ stage'[l] # "writing"
  BY <1>1, <1>3 DEF Updating, TInv, Types
<1>5. \A k \in Keys : file.store[k] = LastTurns(told[k]) /\ told[k] \in Seq(Message)
  BY <1>2, <1>4 DEF UpToDate, TInv, Types
<1>6. copy'[m] = [file.store EXCEPT ![key(m)] = LastTurns(Append(file.store[key(m)], m))]
  <2>1. PICK store \in Read :
          /\ copy' = [copy EXCEPT ![m] = [store EXCEPT ![key(m)] = LastTurns(Append(@, m))]]
          /\ disturbed' = (disturbed \/ Updating # {} \/ store # file.store)
    BY DEF Merge
  <2>2. store = file.store
    BY <2>1
  <2> QED BY <2>1, <2>2 DEF TInv, Types
<1>7. ASSUME NEW k \in Keys
      PROVE  copy'[m][k] = LastTurns(IF k = key(m) THEN Append(told[k], m) ELSE told[k])
  <2>1. CASE k = key(m)
    <3>1. copy'[m][k] = LastTurns(Append(LastTurns(told[k]), m))
      BY <1>5, <1>6, <2>1, KeysAre DEF TInv, Types, Store
    <3> QED BY <1>5, <2>1, <3>1, LastTurnsAppend
  <2>2. CASE k # key(m)
    <3>1. copy'[m][k] = file.store[k]
      BY <1>6, <2>2 DEF TInv, Types, Store
    <3> QED BY <1>5, <2>2, <3>1
  <2> QED BY <2>1, <2>2
<1> QED BY <1>3, <1>4, <1>5, <1>7 DEF UpToDate

(* An update that ends alone leaves what it was going to write.            *)
LEMMA WriteRemembering ==
    ASSUME TInv, Remembering, NEW m \in Message, Write(m)
    PROVE  Remembering'
<1> SUFFICES ASSUME ~disturbed PROVE UpToDate'
  BY DEF Remembering, Write
<1>1. UpToDate
  BY DEF Remembering
<1>2. stage[m] = "writing" /\ stage' = [stage EXCEPT ![m] = "answered"]
  BY DEF Write, At
<1>3. m \in Updating /\ Updating' = Updating \ {m}
  BY <1>2 DEF Updating, TInv, Types
<1>4. Updating' = {}
  BY <1>1, <1>3 DEF UpToDate
<1>5. \A k \in Keys : told'[k] = IF k = key(m) THEN Append(told[k], m) ELSE told[k]
  <2>1. told' = [told EXCEPT ![key(m)] = Append(@, m)]
    BY DEF Write, key
  <2> QED BY <2>1 DEF TInv, Types
<1>6. file' = [text |-> "store", store |-> copy[m]]
  BY <1>1, <1>2 DEF UpToDate, Write
<1>7. \A k \in Keys : file'.store[k] = LastTurns(told'[k])
  BY <1>1, <1>3, <1>5, <1>6 DEF UpToDate
<1>8. \A l \in Message : stage'[l] # "writing"
  BY <1>4 DEF Updating
<1> QED BY <1>4, <1>7, <1>8 DEF UpToDate

LEMMA NextRemembering == TInv /\ Remembering /\ [Next]_vars => Remembering'
<1> SUFFICES ASSUME TInv, Remembering, [Next]_vars PROVE Remembering'
  OBVIOUS
<1>1. ASSUME NEW m \in Message, Recall(m) PROVE Remembering'
  <2>1. /\ Updating' = Updating
        /\ \A l \in Message : stage'[l] = "writing" <=> stage[l] = "writing"
    BY <1>1 DEF Recall, At, Updating, TInv, Types
  <2> QED BY <1>1, <2>1 DEF Recall, Remembering, UpToDate
<1>2. ASSUME NEW m \in Message, Merge(m) PROVE Remembering'
  BY <1>2, MergeRemembering
<1>3. ASSUME NEW m \in Message, Truncate(m) PROVE Remembering'
  <2>1. Updating' = Updating /\ stage'[m] = "writing" /\ file'.text = "none"
    BY <1>3 DEF Truncate, At, Updating, NoFile, TInv, Types
  <2> QED BY <1>3, <2>1 DEF Truncate, Remembering, UpToDate
<1>4. ASSUME NEW m \in Message, Write(m) PROVE Remembering'
  BY <1>4, WriteRemembering
<1>5. ASSUME NEW m \in Message, Fail(m) PROVE Remembering'
  BY <1>5 DEF Fail, Remembering
<1>6. ASSUME Crash PROVE Remembering'
  <2> SUFFICES ASSUME ~disturbed' PROVE UpToDate'
    BY DEF Remembering
  <2>1. ~disturbed /\ Updating = {}
    BY <1>6 DEF Crash
  <2>2. Updating' = {} /\ \A m \in Message : stage[m] # "writing" /\ stage'[m] # "writing"
    BY <1>6, <2>1 DEF Crash, Updating
  <2> QED BY <1>6, <2>1, <2>2 DEF Crash, Remembering, UpToDate
<1>7. ASSUME UNCHANGED vars PROVE Remembering'
  BY <1>7 DEF vars, Remembering, UpToDate, Updating
<1> QED BY <1>1, <1>2, <1>3, <1>4, <1>5, <1>6, <1>7 DEF Next

(* One update after the other, the file holds exactly the latest turns of  *)
(* every session, whoever takes turns and wherever a crash falls.          *)
THEOREM MemoryRemembersLatest == Spec => []RemembersLatest
<1>1. TInv /\ Remembering => RemembersLatest
  <2> SUFFICES ASSUME TInv, Remembering, ~disturbed, Updating = {}, NEW k \in Keys
               PROVE  /\ IsSuffix(file.store[k], told[k])
                      /\ Len(file.store[k]) = Kept(told[k])
    BY DEF RemembersLatest, Kept, TInv, Types
  <2>1. \A m \in Message : stage[m] # "writing"
    BY DEF Updating
  <2>2. file.store[k] = LastTurns(told[k]) /\ told[k] \in Seq(Message)
    BY <2>1 DEF Remembering, UpToDate, TInv, Types
  <2> QED BY <2>2, LastTurnsAre, LastTurnsSuffix
<1>2. Init => TInv /\ Remembering
  BY InitTInv, InitRemembering
<1>3. (TInv /\ Remembering) /\ [Next]_vars => (TInv /\ Remembering)'
  BY NextTInv, NextRemembering
<1> QED BY <1>1, <1>2, <1>3, PTL DEF Spec
-----------------------------------------------------------------------------
(* The numbering of a run's events: until the run is completed the counter *)
(* is the count of the events seen, so each event's number is its place;   *)
(* whatever comes later has a place behind all of those.                   *)
Numbering(r) ==
    /\ cut[r] = None => counter[r] = emitted[r]
    /\ cut[r] # None => cut[r] <= emitted[r] /\ phase[r] \in {"recording", "answered"}
    /\ \A e \in appending[r] \cup events[r] :
        /\ e.n <= emitted[r]
        /\ cut[r] = None \/ e.n <= cut[r] => e.seq = e.n

EventTypes ==
    /\ phase \in [Run -> Phases] /\ row \in [Run -> {"open", "closed", None}]
    /\ counter \in [Run -> Nat] /\ emitted \in [Run -> Nat] /\ cut \in [Run -> Nat \cup {None}]
    /\ DOMAIN appending = Run /\ DOMAIN events = Run
    /\ \A r \in Run : /\ counter[r] <= emitted[r] /\ emitted[r] <= MaxEvents[r]
                      /\ cut[r] # None => cut[r] <= MaxEvents[r]
                      /\ appending[r] \in SUBSET Numbered(r) /\ events[r] \in SUBSET Numbered(r)

EventInv == EventTypes /\ \A r \in Run : Numbering(r)

LEMMA InitEvents == RecordsInit => EventInv
  BY RunAssumption DEF RecordsInit, EventInv, EventTypes, Numbering, Phases

(* The route's own steps, up to and after the one that completes the run.  *)
LEMMA RouteEvents ==
    ASSUME EventInv, NEW r \in Run,
           \/ Begin(r) \/ Created(r) \/ Settle(r) \/ CompleteFailed(r) \/ Answer(r)
    PROVE  EventInv'
<1>1. PICK from \in {"new", "creating", "running", "completing", "recording"},
           to \in Phases : /\ Moves(r, from, to)
                           /\ from = "recording" => to = "answered"
  BY DEF Begin, Created, Settle, CompleteFailed, Answer, Phases
<1>2. UNCHANGED eventVars /\ row' \in [Run -> {"open", "closed", None}]
  BY DEF Begin, Created, Settle, CompleteFailed, Answer, eventVars, EventInv, EventTypes
<1>3. EventTypes'
  BY <1>1, <1>2 DEF Moves, EventInv, EventTypes, eventVars, Numbered
<1>4. ASSUME NEW q \in Run PROVE Numbering(q)'
  <2>1. Numbering(q) /\ UNCHANGED <<counter, emitted, cut, appending, events>>
    BY <1>2 DEF EventInv, eventVars
  <2>2. cut[q] # None => phase'[q] \in {"recording", "answered"}
    BY <1>1, <2>1 DEF Moves, Numbering, EventInv, EventTypes
  <2> QED BY <2>1, <2>2 DEF Numbering
<1> QED BY <1>3, <1>4 DEF EventInv

LEMMA CompletedEvents ==
    ASSUME EventInv, NEW r \in Run, Completed(r)
    PROVE  EventInv'
<1>1. /\ phase[r] = "completing" /\ phase' = [phase EXCEPT ![r] = "recording"]
      /\ row' = [row EXCEPT ![r] = IF @ = None THEN None ELSE "closed"]
      /\ counter' = [counter EXCEPT ![r] = 0] /\ cut' = [cut EXCEPT ![r] = emitted[r]]
      /\ UNCHANGED <<emitted, appending, events>>
  BY DEF Completed, Moves
<1>2. EventTypes'
  BY <1>1 DEF EventInv, EventTypes, Phases, Numbered
<1>3. ASSUME NEW q \in Run PROVE Numbering(q)'
  <2>1. CASE q # r
    BY <1>1, <2>1 DEF EventInv, EventTypes, Numbering
  <2>2. CASE q = r
    <3>1. cut[r] = None
      BY <1>1 DEF EventInv, Numbering
    <3>2. cut'[r] = emitted[r] /\ emitted[r] # None /\ phase'[r] = "recording"
      BY <1>1, NoneAssumption DEF EventInv, EventTypes
    <3>3. emitted[r] <= emitted[r]
      BY DEF EventInv, EventTypes
    <3> QED BY <1>1, <2>2, <3>1, <3>2, <3>3 DEF EventInv, Numbering
  <2> QED BY <2>1, <2>2
<1> QED BY <1>2, <1>3 DEF EventInv

LEMMA EmitEvents ==
    ASSUME EventInv, NEW r \in Run, Emit(r)
    PROVE  EventInv'
<1> DEFINE e == [n |-> emitted[r] + 1, seq |-> counter[r] + 1]
<1>1. /\ emitted[r] < MaxEvents[r] /\ UNCHANGED <<phase, row, events, cut>>
      /\ emitted' = [emitted EXCEPT ![r] = emitted[r] + 1]
      /\ counter' = [counter EXCEPT ![r] = counter[r] + 1]
      /\ appending' = [appending EXCEPT ![r] = appending[r] \cup {e}]
  BY DEF Emit, NextSeq, runVars
<1>2. /\ emitted[r] \in Nat /\ counter[r] \in Nat /\ counter[r] <= emitted[r]
      /\ MaxEvents[r] \in Nat /\ cut[r] \in Nat \cup {None}
  BY RunAssumption DEF EventInv, EventTypes
<1>3. e \in Numbered(r)
  BY <1>1, <1>2 DEF Numbered
<1>4. e.n = emitted[r] + 1 /\ e.seq = counter[r] + 1
  OBVIOUS
<1> HIDE DEF e
<1>5. EventTypes'
  BY <1>1, <1>2, <1>3 DEF EventInv, EventTypes, Numbered
<1>6. ASSUME NEW q \in Run PROVE Numbering(q)'
  <2>1. CASE q # r
    BY <1>1, <2>1 DEF EventInv, EventTypes, Numbering
  <2>2. CASE q = r
    <3>1. Numbering(r) /\ cut'[r] = cut[r] /\ phase'[r] = phase[r]
      BY <1>1 DEF EventInv
    <3>2. emitted'[r] = emitted[r] + 1 /\ counter'[r] = counter[r] + 1
      BY <1>1 DEF EventInv, EventTypes
    <3>3. cut[r] # None => cut[r] <= emitted'[r]
      BY <1>2, <3>1, <3>2 DEF Numbering
    <3>4. ASSUME NEW f \in appending'[r] \cup events'[r]
          PROVE  /\ f.n <= emitted'[r]
                 /\ cut'[r] = None \/ f.n <= cut'[r] => f.seq = f.n
      <4>1. f = e \/ f \in appending[r] \cup events[r]
        BY <1>1, <3>4 DEF EventInv, EventTypes
      <4>2. CASE f = e
        BY <1>2, <1>4, <3>1, <3>2, <4>2 DEF Numbering
      <4>3. CASE f \in appending[r] \cup events[r]
        <5>1. f.n \in Nat /\ f.n <= emitted[r] /\ (cut[r] = None \/ f.n <= cut[r] => f.seq = f.n)
          BY <3>1, <4>3 DEF Numbering, EventInv, EventTypes, Numbered
        <5> QED BY <1>2, <3>1, <3>2, <5>1
      <4> QED BY <4>1, <4>2, <4>3
    <3>5. cut'[r] = None => counter'[r] = emitted'[r]
      BY <3>1, <3>2 DEF Numbering
    <3>6. cut'[r] # None => cut'[r] <= emitted'[r] /\ phase'[r] \in {"recording", "answered"}
      BY <3>1, <3>3 DEF Numbering
    <3> QED BY <2>2, <3>4, <3>5, <3>6 DEF Numbering
  <2> QED BY <2>1, <2>2
<1> QED BY <1>5, <1>6 DEF EventInv

LEMMA AppendedEvents ==
    ASSUME EventInv, NEW r \in Run, NEW e \in appending[r], Appended(r, e)
    PROVE  EventInv'
<1>1. /\ UNCHANGED <<phase, row, counter, emitted, cut>>
      /\ appending' = [appending EXCEPT ![r] = appending[r] \ {e}]
      /\ events' = [events EXCEPT ![r] = events[r] \cup {e}]
  BY DEF Appended, runVars
<1>2. EventTypes'
  BY <1>1 DEF EventInv, EventTypes, Numbered
<1>3. ASSUME NEW q \in Run PROVE Numbering(q)'
  <2>1. appending'[q] \cup events'[q] \subseteq appending[q] \cup events[q]
    BY <1>1 DEF EventInv, EventTypes
  <2> QED BY <1>1, <2>1 DEF EventInv, Numbering
<1> QED BY <1>2, <1>3 DEF EventInv

LEMMA NextEvents == EventInv /\ [RecordsNext]_recordVars => EventInv'
<1> SUFFICES ASSUME EventInv, [RecordsNext]_recordVars PROVE EventInv'
  OBVIOUS
<1>1. ASSUME NEW r \in Run,
             \/ Begin(r) \/ Created(r) \/ Settle(r) \/ CompleteFailed(r) \/ Answer(r)
      PROVE  EventInv'
  BY <1>1, RouteEvents
<1>2. ASSUME NEW r \in Run,
             \/ UserStored(r) \/ UserLost(r) \/ LookedUp(r) \/ Linked(r) \/ LinkFailed(r)
             \/ BumpRead(r) \/ BumpWritten(r) \/ BumpFailed(r)
      PROVE  EventInv'
  <2>1. UNCHANGED <<runVars, eventVars>>
    BY <1>2 DEF UserStored, UserLost, LookedUp, Linked, LinkFailed,
                BumpRead, BumpWritten, BumpFailed
  <2> QED BY <2>1 DEF EventInv, EventTypes, Numbering, Numbered, runVars, eventVars
<1>3. ASSUME NEW r \in Run, Emit(r) PROVE EventInv'
  BY <1>3, EmitEvents
<1>4. ASSUME NEW r \in Run, NEW e \in appending[r], Appended(r, e) PROVE EventInv'
  BY <1>4, AppendedEvents
<1>5. ASSUME NEW r \in Run, Completed(r) PROVE EventInv'
  BY <1>5, CompletedEvents
<1>6. ASSUME UNCHANGED recordVars PROVE EventInv'
  BY <1>6 DEF recordVars, EventInv, EventTypes, Numbering, Numbered
<1> QED BY <1>1, <1>2, <1>3, <1>4, <1>5, <1>6 DEF RecordsNext

LEMMA EventsKept == RecordsSpec => []EventInv
BY InitEvents, NextEvents, PTL DEF RecordsSpec

(* Whatever order the inserts land in and whichever fail, a replay by seq  *)
(* is a replay in the order of emission, up to the run's completion.       *)
THEOREM RecordsReplayInOrder == RecordsSpec => []ReplayInOrder
<1>1. EventInv => ReplayInOrder
  <2> SUFFICES ASSUME EventInv, NEW r \in Run, NEW e \in events[r], NEW f \in events[r],
                      cut[r] = None \/ (e.n <= cut[r] /\ f.n <= cut[r])
               PROVE  e.n < f.n <=> e.seq < f.seq
    BY DEF ReplayInOrder
  <2>1. e.seq = e.n /\ f.seq = f.n
    BY DEF EventInv, Numbering
  <2> QED BY <2>1
<1> QED BY <1>1, EventsKept, PTL
-----------------------------------------------------------------------------
(* The messages of session s, and the run a message belongs to.            *)
Mine(s) == {i \in DOMAIN transcript : SessionOf[transcript[i][2]] = s}
Of(i) == transcript[i][2]

Entries == {"user", "assistant"} \X Run

TallyTypes ==
    /\ phase \in [Run -> Phases]
    /\ linking \in [Run -> {"no", "lookup", "insert"}]
    /\ bumping \in [Run -> [at : {"no", "read", "write"}, line : Nat, count : Nat]]
    /\ tallies \in [Session -> Seq(Nat)]
    /\ sending \in SUBSET Run /\ tainted \in SUBSET Session
    /\ transcript \in Seq(Entries)
    /\ \A i \in DOMAIN transcript : phase[Of(i)] \notin {"new", "creating"}
    /\ \A r \in Run :
        /\ phase[r] \in {"new", "creating"} => linking[r] = "no" /\ r \notin sending
        /\ bumping[r].at # "no" => phase[r] = "answered"
        /\ bumping[r].at = "write" => bumping[r].line \in 1..Len(tallies[SessionOf[r]])

(* The one row of session s counts n messages, or two less.                *)
Lags(s, n) == tallies[s] = <<n>> \/ (n >= 2 /\ tallies[s] = <<n - 2>>)

(* A session with nothing on its way.                                      *)
Rest(s) ==
    IF Cardinality(Mine(s)) = 0 THEN tallies[s] = <<>> ELSE Lags(s, Cardinality(Mine(s)))

(* How many messages of r an untroubled route has stored by now, and how   *)
(* many of them its bump, done or skipped, is answerable for.              *)
Stored(r) ==
    (IF phase[r] = "creating" \/ r \in sending THEN 0 ELSE 1)
    + (IF phase[r] = "answered" THEN 1 ELSE 0)
Bumps(r) == IF phase[r] = "answered" /\ bumping[r].at = "no" THEN 2 ELSE 0

(* base messages were there before r, and the session's row says so.       *)
Counted(r, base) ==
    LET s == SessionOf[r] IN
    /\ Cardinality(Mine(s)) = base + Stored(r)
    /\ \/ base = 0 /\ tallies[s] = <<>> /\ (linking[r] # "no" \/ phase[r] = "creating")
       \/ linking[r] # "insert" /\ Lags(s, base + Bumps(r))
    /\ bumping[r].at = "write" => bumping[r].line = 1 /\ bumping[r].count = tallies[s][1]

Question(r) == \E j \in Mine(SessionOf[r]) : transcript[j] = <<"user", r>>

(* Nobody writes behind r's messages but r.                                *)
IsLast(r) == \A i, j \in Mine(SessionOf[r]) : i < j /\ Of(i) = r => Of(j) = r

(* r is the one run of its session with writes on their way.               *)
Pending(r) ==
    /\ \E base \in Nat : Counted(r, base)
    /\ IsLast(r)
    /\ phase[r] # "creating" /\ r \notin sending => Question(r)

Alone(s) == \A q, r \in Run :
    SessionOf[q] = s /\ SessionOf[r] = s /\ Busy(q) /\ Busy(r) => q = r

(* An answer's question is stored, or still on its way.                    *)
Asked(s) == \A i \in Mine(s) :
    transcript[i][1] = "assistant" => Of(i) \in sending \/ Question(Of(i))

Together(s) == \A i, j, k \in Mine(s) : i < j /\ j < k /\ Of(i) = Of(k) => Of(j) = Of(i)

Tally(s) ==
    /\ Alone(s) /\ Asked(s) /\ Together(s)
    /\ \A r \in Run : SessionOf[r] = s /\ Busy(r) => Pending(r)
    /\ (\A r \in Run : SessionOf[r] = s => ~Busy(r)) => Rest(s)

TallyInv == TallyTypes /\ \A s \in Session : s \in tainted \/ Tally(s)

(* A run's own step: no other run, nor any other session's row, is touched,*)
(* and the transcript only grows, by a message of that run.                *)
OwnStep(r) ==
    /\ \A q \in Run \ {r} : /\ phase'[q] = phase[q] /\ linking'[q] = linking[q]
                            /\ bumping'[q] = bumping[q] /\ (q \in sending' <=> q \in sending)
    /\ \A s \in Session \ {SessionOf[r]} :
        tallies'[s] = tallies[s] /\ (s \in tainted' <=> s \in tainted)
    /\ SessionOf[r] \in tainted => SessionOf[r] \in tainted'
    /\ \/ transcript' = transcript
       \/ \E who \in {"user", "assistant"} : transcript' = Append(transcript, <<who, r>>)

LEMMA MineFinite ==
    ASSUME TallyTypes, NEW s
    PROVE  IsFiniteSet(Mine(s)) /\ Cardinality(Mine(s)) \in Nat
<1>1. DOMAIN transcript = 1..Len(transcript) /\ Len(transcript) \in Nat
  BY LenProperties DEF TallyTypes
<1>2. IsFiniteSet(1..Len(transcript))
  BY <1>1, FS_Interval
<1>3. Mine(s) \subseteq 1..Len(transcript)
  BY <1>1 DEF Mine
<1> QED BY <1>2, <1>3, FS_Subset, FS_CardinalityType

(* A message of session s belongs to a run sent to s.                      *)
LEMMA MineRuns ==
    ASSUME TallyTypes, NEW s, NEW i \in Mine(s)
    PROVE  /\ transcript[i] \in Entries /\ Of(i) \in Run /\ SessionOf[Of(i)] = s
           /\ phase[Of(i)] \notin {"new", "creating"}
<1>1. DOMAIN transcript = 1..Len(transcript) /\ i \in DOMAIN transcript
  BY LenProperties DEF TallyTypes, Mine
<1>2. transcript[i] \in Entries
  BY <1>1, ElementOfSeq DEF TallyTypes
<1> QED BY <1>1, <1>2 DEF Entries, Of, Mine, TallyTypes

(* A message that is stored joins those of its own session, at the end.    *)
LEMMA MineGrows ==
    ASSUME TallyTypes, NEW r \in Run, NEW who \in {"user", "assistant"},
           transcript' = Append(transcript, <<who, r>>)
    PROVE  /\ transcript' \in Seq(Entries)
           /\ \A s \in Session : \A i \in Mine(s) :
                /\ i \in 1..Len(transcript) /\ transcript'[i] = transcript[i]
                /\ transcript[i] \in Entries
           /\ \A s \in Session \ {SessionOf[r]} : Mine(s)' = Mine(s)
           /\ Mine(SessionOf[r])' = Mine(SessionOf[r]) \cup {Len(transcript) + 1}
           /\ transcript'[Len(transcript) + 1] = <<who, r>>
           /\ Cardinality(Mine(SessionOf[r]))' = Cardinality(Mine(SessionOf[r])) + 1
<1> DEFINE n == Len(transcript)
           x == <<who, r>>
<1>1. transcript \in Seq(Entries) /\ x \in Entries /\ x[2] = r
  BY DEF TallyTypes, Entries
<1>2. /\ n \in Nat /\ DOMAIN transcript = 1..n
      /\ transcript' \in Seq(Entries) /\ DOMAIN transcript' = 1..n+1
      /\ transcript'[n + 1] = x
      /\ \A i \in 1..n : transcript'[i] = transcript[i]
  <2> HIDE DEF x
  <2>1. transcript' = Append(transcript, x)
    BY DEF x
  <2>2. /\ transcript' \in Seq(Entries) /\ Len(transcript') = n + 1
        /\ \A i \in 1..n : transcript'[i] = transcript[i]
        /\ transcript'[n + 1] = x
    BY <1>1, <2>1, AppendProperties, SMTT(30)
  <2> QED BY <1>1, <2>2, LenProperties
<1>3. \A i \in 1..n : transcript[i] \in Entries
  BY <1>1, ElementOfSeq
<1> HIDE DEF n, x
<1>4. \A s \in Session : /\ Mine(s) = {i \in 1..n : SessionOf[transcript[i][2]] = s}
                         /\ Mine(s)' = {i \in 1..n+1 : SessionOf[transcript'[i][2]] = s}
  BY <1>2 DEF Mine
<1>5. 1..n+1 = (1..n) \cup {n + 1} /\ n + 1 \notin 1..n
  BY <1>2
<1>6. SessionOf[r] \in Session
  BY RunAssumption
<1>7. ASSUME NEW s \in Session \ {SessionOf[r]} PROVE Mine(s)' = Mine(s)
  <2>1. \A i \in 1..n : SessionOf[transcript'[i][2]] = s <=> SessionOf[transcript[i][2]] = s
    BY <1>2
  <2>2. SessionOf[transcript'[n + 1][2]] # s
    BY <1>1, <1>2
  <2>3. /\ Mine(s) = {i \in 1..n : SessionOf[transcript[i][2]] = s}
        /\ Mine(s)' = {i \in 1..n+1 : SessionOf[transcript'[i][2]] = s}
    BY <1>4
  <2> QED BY <1>5, <2>1, <2>2, <2>3
<1>8. Mine(SessionOf[r])' = Mine(SessionOf[r]) \cup {n + 1} /\ n + 1 \notin Mine(SessionOf[r])
  BY <1>1, <1>2, <1>4, <1>5, <1>6
<1>9. Cardinality(Mine(SessionOf[r]))' = Cardinality(Mine(SessionOf[r])) + 1
  <2>1. IsFiniteSet(Mine(SessionOf[r]))
    BY MineFinite
  <2> QED BY <1>8, <2>1, FS_AddElement
<1> QED BY <1>2, <1>3, <1>4, <1>7, <1>8, <1>9 DEF n, x

(* Another session does not notice.                                        *)
LEMMA Elsewhere ==
    ASSUME TallyTypes, NEW r \in Run, OwnStep(r), NEW s \in Session, s # SessionOf[r], Tally(s)
    PROVE  Tally(s)'
<1>1. /\ Mine(s)' = Mine(s)
      /\ \A i \in Mine(s) : transcript'[i] = transcript[i] /\ Of(i)' = Of(i)
  BY MineGrows DEF OwnStep, Mine, Of
<1>2. ASSUME NEW q \in Run, SessionOf[q] = s
      PROVE  /\ phase'[q] = phase[q] /\ linking'[q] = linking[q] /\ bumping'[q] = bumping[q]
             /\ q \in sending' <=> q \in sending
  BY <1>2 DEF OwnStep
<1>3. tallies'[s] = tallies[s] /\ \A n : Lags(s, n)' <=> Lags(s, n)
  BY DEF OwnStep, Lags
<1>4. \A q \in Run : SessionOf[q] = s => (Busy(q)' <=> Busy(q)) /\ (Question(q)' <=> Question(q))
  BY <1>1, <1>2 DEF Busy, Question
<1>5. Alone(s)' /\ Together(s)'
  BY <1>1, <1>4 DEF Tally, Alone, Together
<1>6. Asked(s)'
  <2> SUFFICES ASSUME NEW i \in Mine(s), transcript[i][1] = "assistant"
               PROVE  Of(i) \in sending' \/ Question(Of(i))'
    BY <1>1 DEF Asked
  <2>1. Of(i) \in Run /\ SessionOf[Of(i)] = s /\ (Of(i) \in sending \/ Question(Of(i)))
    BY MineRuns DEF Tally, Asked
  <2>2. PICK q \in Run : q = Of(i) /\ SessionOf[q] = s /\ (q \in sending \/ Question(q))
    BY <2>1
  <2>3. q \in sending' \/ Question(q)'
    BY <1>2, <1>4, <2>2
  <2>4. Of(i)' = q
    BY <1>1, <2>2
  <2>5. CASE q \in sending'
    BY <2>2, <2>5
  <2>6. CASE Question(q)'
    <3>1. Question(Of(i))'
      BY <2>4, <2>6 DEF Question
    <3> QED BY <3>1
  <2> QED BY <2>3, <2>5, <2>6
<1>7. ASSUME NEW q \in Run, SessionOf[q] = s, Busy(q)' PROVE Pending(q)'
  <2>1. Pending(q)
    BY <1>4, <1>7 DEF Tally
  <2>2. Stored(q)' = Stored(q) /\ Bumps(q)' = Bumps(q)
    BY <1>2, <1>7 DEF Stored, Bumps
  <2>3. \A base \in Nat : Counted(q, base) => Counted(q, base)'
    BY <1>1, <1>2, <1>3, <1>7, <2>2 DEF Counted
  <2>4. IsLast(q)'
    BY <1>1, <1>7, <2>1 DEF Pending, IsLast
  <2> QED BY <1>2, <1>4, <1>7, <2>1, <2>3, <2>4 DEF Pending
<1>8. (\A q \in Run : SessionOf[q] = s => ~Busy(q)') => Rest(s)'
  BY <1>1, <1>3, <1>4 DEF Tally, Rest
<1> QED BY <1>5, <1>6, <1>7, <1>8 DEF Tally

(* What is left to show of a run's step: its own session, if untroubled.   *)
LEMMA Here ==
    ASSUME TallyInv, NEW r \in Run, OwnStep(r), TallyTypes',
           ASSUME SessionOf[r] \notin tainted, SessionOf[r] \notin tainted', Tally(SessionOf[r])
           PROVE  /\ \A q \in Run \ {r} : SessionOf[q] = SessionOf[r] => ~Busy(q)
                  /\ Asked(SessionOf[r])' /\ Together(SessionOf[r])'
                  /\ Busy(r)' => Pending(r)'
                  /\ ~Busy(r)' => Rest(SessionOf[r])'
    PROVE  TallyInv'
<1> DEFINE s == SessionOf[r]
<1>1. ASSUME NEW t \in Session, t # s, t \notin tainted' PROVE Tally(t)'
  <2>1. t \notin tainted
    BY <1>1 DEF OwnStep
  <2> QED BY <1>1, <2>1, Elsewhere DEF TallyInv
<1>2. ASSUME s \notin tainted' PROVE Tally(s)'
  <2>1. s \in Session /\ s \notin tainted /\ Tally(s)
    BY <1>2, RunAssumption DEF OwnStep, TallyInv
  <2>2. /\ \A q \in Run \ {r} : SessionOf[q] = s => ~Busy(q)
        /\ Asked(s)' /\ Together(s)'
        /\ Busy(r)' => Pending(r)'
        /\ ~Busy(r)' => Rest(s)'
    BY <1>2, <2>1
  <2>3. \A q \in Run \ {r} : SessionOf[q] = s => ~Busy(q)'
    BY <2>2 DEF OwnStep, Busy
  <2> QED BY <2>2, <2>3 DEF Tally, Alone
<1> QED BY <1>1, <1>2 DEF TallyInv
-----------------------------------------------------------------------------
LEMMA InitTally == RecordsInit => TallyInv
<1> SUFFICES ASSUME RecordsInit PROVE TallyInv
  OBVIOUS
<1>1. transcript = <<>> /\ transcript \in Seq(Entries) /\ DOMAIN transcript = {}
  BY EmptySeq DEF RecordsInit
<1>2. \A s \in Session : Mine(s) = {} /\ Cardinality(Mine(s)) = 0
  BY <1>1, FS_EmptySet DEF Mine
<1>3. TallyTypes
  BY <1>1, EmptySeq DEF RecordsInit, TallyTypes, Phases, NoBump
<1>4. \A r \in Run : ~Busy(r)
  BY DEF RecordsInit, Busy, NoBump
<1>5. \A s \in Session : Rest(s)
  BY <1>2 DEF RecordsInit, Rest
<1> QED BY <1>2, <1>3, <1>4, <1>5 DEF TallyInv, Tally, Alone, Asked, Together

(* Before a step of a run under way in an untroubled session.              *)
LEMMA UnderWay ==
    ASSUME TallyInv, NEW r \in Run, Busy(r), Tally(SessionOf[r])
    PROVE  /\ Pending(r) /\ Asked(SessionOf[r]) /\ Together(SessionOf[r])
           /\ \A q \in Run \ {r} : SessionOf[q] = SessionOf[r] => ~Busy(q)
  BY DEF Tally, Alone

(* A step that stores nothing, and after which no more is on its way.      *)
LEMMA NothingStored ==
    ASSUME transcript' = transcript, NEW r \in Run, sending \subseteq sending'
    PROVE  /\ Mine(SessionOf[r])' = Mine(SessionOf[r])
           /\ Asked(SessionOf[r]) => Asked(SessionOf[r])'
           /\ Together(SessionOf[r]) => Together(SessionOf[r])'
           /\ IsLast(r) => IsLast(r)'
           /\ Question(r) => Question(r)'
<1>1. \A s : Mine(s)' = Mine(s)
  BY DEF Mine
<1>2. \A i : Of(i)' = Of(i)
  BY DEF Of
<1>3. ASSUME Asked(SessionOf[r]) PROVE Asked(SessionOf[r])'
  <2> SUFFICES ASSUME NEW i \in Mine(SessionOf[r]), transcript[i][1] = "assistant"
               PROVE  Of(i)' \in sending' \/ Question(Of(i))'
    BY <1>1 DEF Asked
  <2>1. Of(i) \in sending \/ \E j \in Mine(SessionOf[Of(i)]) : transcript[j] = <<"user", Of(i)>>
    BY <1>3 DEF Asked, Question
  <2> QED BY <1>1, <1>2, <2>1 DEF Question
<1> QED BY <1>1, <1>2, <1>3 DEF Together, IsLast, Question

(* A message that is stored leaves those before it where they are.         *)
LEMMA Grows ==
    ASSUME TallyTypes, NEW r \in Run, NEW who \in {"user", "assistant"},
           transcript' = Append(transcript, <<who, r>>)
    PROVE  \A i \in DOMAIN transcript' : Of(i)' = r \/ (i \in DOMAIN transcript /\ Of(i)' = Of(i))
<1> DEFINE x == <<who, r>>
           n == Len(transcript)
<1>1. transcript \in Seq(Entries) /\ x \in Entries /\ x[2] = r
  BY DEF TallyTypes, Entries
<1>2. transcript' = Append(transcript, x)
  OBVIOUS
<1> HIDE DEF x
<1>3. /\ Len(transcript') = n + 1 /\ transcript' \in Seq(Entries) /\ transcript'[n + 1] = x
      /\ \A i \in 1..n : transcript'[i] = transcript[i]
  BY <1>1, <1>2, AppendProperties, SMTT(30)
<1>4. n \in Nat /\ DOMAIN transcript = 1..n /\ DOMAIN transcript' = 1..n+1
  BY <1>1, <1>3, LenProperties
<1> HIDE DEF n
<1> QED BY <1>1, <1>3, <1>4 DEF Of

(* A step that stores a message of the one run that writes.                *)
LEMMA OneStored ==
    ASSUME TallyTypes, NEW r \in Run, NEW who \in {"user", "assistant"},
           transcript' = Append(transcript, <<who, r>>),
           \A q \in Run \ {r} : q \in sending => q \in sending',
           Asked(SessionOf[r]), Together(SessionOf[r]), IsLast(r),
           who = "assistant" => r \in sending' \/ Question(r),
           r \in sending => r \in sending' \/ who = "user"
    PROVE  /\ Cardinality(Mine(SessionOf[r]))' = Cardinality(Mine(SessionOf[r])) + 1
           /\ Asked(SessionOf[r])' /\ Together(SessionOf[r])' /\ IsLast(r)'
           /\ who = "user" => Question(r)'
           /\ Question(r) => Question(r)'
<1> DEFINE s == SessionOf[r]
           n == Len(transcript) + 1
<1>0. s \in Session
  BY RunAssumption
<1>1. /\ transcript' \in Seq(Entries)
      /\ \A i \in Mine(s) : i \in 1..Len(transcript) /\ transcript'[i] = transcript[i]
      /\ Mine(s)' = Mine(s) \cup {n} /\ transcript'[n] = <<who, r>>
      /\ Cardinality(Mine(s))' = Cardinality(Mine(s)) + 1
  BY <1>0, MineGrows
<1>2. Len(transcript) \in Nat /\ DOMAIN transcript = 1..Len(transcript)
  BY LenProperties DEF TallyTypes
<1>3. /\ \A i \in Mine(s) : i \in Nat /\ i < n /\ Of(i)' = Of(i) /\ Of(i) \in Run
                            /\ SessionOf[Of(i)] = s
      /\ transcript'[n][2] = r
  BY <1>1, <1>2, MineRuns DEF Of
<1> HIDE DEF n
<1>4. n \in Nat
  BY <1>2 DEF n
<1>5. \A q \in Run : SessionOf[q] = s /\ Question(q) => Question(q)'
  BY <1>1 DEF Question
<1>6. who = "user" => Question(r)'
  BY <1>1 DEF Question
<1>7. Together(s)'
  <2> SUFFICES ASSUME NEW i \in Mine(s)', NEW j \in Mine(s)', NEW k \in Mine(s)',
                      i < j, j < k, Of(i)' = Of(k)'
               PROVE  Of(j)' = Of(i)'
    BY DEF Together
  <2>1. i \in Mine(s) /\ j \in Mine(s)
    BY <1>1, <1>3, <1>4
  <2>2. CASE k \in Mine(s)
    BY <1>3, <2>1, <2>2 DEF Together
  <2>3. CASE k = n
    BY <1>3, <2>1, <2>3 DEF IsLast, Of
  <2> QED BY <1>1, <2>2, <2>3
<1>8. IsLast(r)'
  <2> SUFFICES ASSUME NEW i \in Mine(s)', NEW j \in Mine(s)', i < j, Of(i)' = r PROVE Of(j)' = r
    BY DEF IsLast
  <2>1. CASE j = n
    BY <1>3, <2>1 DEF Of
  <2>2. CASE j # n
    BY <1>1, <1>3, <1>4, <2>2 DEF IsLast
  <2> QED BY <2>1, <2>2
<1>9. Asked(s)'
  <2> SUFFICES ASSUME NEW i \in Mine(s)', transcript'[i][1] = "assistant"
               PROVE  Of(i)' \in sending' \/ Question(Of(i))'
    BY DEF Asked
  <2>1. CASE i \in Mine(s)
    <3>1. PICK q \in Run : q = Of(i) /\ SessionOf[q] = s /\ Of(i)' = q
      BY <1>3, <2>1
    <3>2. q \in sending \/ Question(q)
      BY <1>1, <2>1, <3>1 DEF Asked
    <3>3. q \in sending' \/ Question(q)'
      BY <1>5, <1>6, <3>1, <3>2
    <3> QED BY <3>1, <3>3 DEF Question
  <2>2. CASE i = n
    <3>0. transcript'[i] = <<who, r>>
      BY <1>1, <2>2
    <3>1. who = "assistant" /\ Of(i)' = r
      <4> DEFINE x == <<who, r>>
      <4>1. transcript'[i] = x /\ x[1] = who /\ x[2] = r
        BY <3>0
      <4> HIDE DEF x
      <4> QED BY <4>1 DEF Of
    <3>2. r \in sending' \/ Question(r)'
      BY <1>5, <3>1
    <3> QED BY <3>1, <3>2 DEF Question
  <2> QED BY <1>1, <2>1, <2>2
<1> QED BY <1>1, <1>5, <1>6, <1>7, <1>8, <1>9

(* A run whose last write is done leaves its session at rest.              *)
LEMMA AtRest ==
    ASSUME NEW r \in Run, TallyTypes', phase'[r] # "new", ~Busy(r)',
           NEW base \in Nat, Counted(r, base)'
    PROVE  Rest(SessionOf[r])'
<1>1. /\ phase'[r] = "answered" /\ linking'[r] = "no" /\ bumping'[r].at = "no" /\ r \notin sending'
      /\ Stored(r)' = 2 /\ Bumps(r)' = 2
  BY DEF Busy, Stored, Bumps, TallyTypes, Phases
<1>2. Cardinality(Mine(SessionOf[r]))' = base + 2 /\ Lags(SessionOf[r], base + 2)'
  BY <1>1 DEF Counted, Lags
<1> QED BY <1>2 DEF Rest, Lags

(* A run that starts finds its session at rest, or disturbs it.            *)
LEMMA BeginTally ==
    ASSUME TallyInv, NEW r \in Run, Begin(r)
    PROVE  TallyInv'
<1> DEFINE s == SessionOf[r]
<1>1. /\ phase[r] = "new" /\ phase' = [phase EXCEPT ![r] = "creating"]
      /\ UNCHANGED <<linking, bumping, tallies, sending, transcript>>
      /\ tainted' = IF \E q \in Run : SessionOf[q] = s /\ Busy(q)
                    THEN tainted \cup {s} ELSE tainted
  BY DEF Begin, Moves, TaintIf, sessionVars, chatVars
<1>2. \A i \in DOMAIN transcript : Of(i) \in Run /\ Of(i) # r
  <2>1. \A i \in DOMAIN transcript : transcript[i] \in Entries /\ phase[Of(i)] # "new"
    BY LenProperties, ElementOfSeq DEF TallyInv, TallyTypes
  <2> QED BY <1>1, <2>1 DEF Of, Entries
<1>3. TallyTypes'
  BY <1>1, <1>2, RunAssumption DEF TallyInv, TallyTypes, Phases, Of
<1>4. OwnStep(r)
  BY <1>1 DEF OwnStep, TallyInv, TallyTypes
<1>5. ASSUME s \notin tainted, s \notin tainted', Tally(s)
      PROVE  /\ \A q \in Run \ {r} : SessionOf[q] = s => ~Busy(q)
             /\ Asked(s)' /\ Together(s)' /\ Busy(r)' /\ Pending(r)'
  <2>1. \A q \in Run : SessionOf[q] = s => ~Busy(q)
    BY <1>1, <1>5
  <2>2. Mine(s)' = Mine(s) /\ Asked(s)' /\ Together(s)'
    BY <1>1, <1>5, NothingStored DEF Tally
  <2>3. Rest(s) /\ Cardinality(Mine(s)) \in Nat
    BY <1>5, <2>1, MineFinite DEF Tally, TallyInv
  <2>4. /\ phase'[r] = "creating" /\ Busy(r)' /\ linking'[r] = "no" /\ bumping'[r].at = "no"
        /\ Stored(r)' = 0 /\ Bumps(r)' = 0
    BY <1>1 DEF Stored, Bumps, Busy, TallyInv, TallyTypes
  <2>5. IsLast(r)'
    BY <1>1, <1>2 DEF IsLast, Mine, Of
  <2> DEFINE base == Cardinality(Mine(s))
  <2>6. Counted(r, base)'
    <3>1. base' = base /\ tallies' = tallies /\ base + 0 = base
      BY <1>1, <2>2, <2>3
    <3>2. (base = 0 /\ tallies[s] = <<>>) \/ Lags(s, base)
      BY <2>3 DEF Rest
    <3> QED BY <2>4, <3>1, <3>2 DEF Counted, Lags
  <2> QED BY <2>1, <2>2, <2>3, <2>4, <2>5, <2>6 DEF Pending
<1> QED BY <1>3, <1>4, <1>5, Here

(* The run starts; its session's and its question's writes are sent off.   *)
LEMMA CreatedTally ==
    ASSUME TallyInv, NEW r \in Run, Created(r)
    PROVE  TallyInv'
<1> DEFINE s == SessionOf[r]
<1>1. /\ phase[r] = "creating" /\ phase' = [phase EXCEPT ![r] = "running"]
      /\ linking' = [linking EXCEPT ![r] = "lookup"] /\ sending' = sending \cup {r}
      /\ UNCHANGED <<bumping, tallies, transcript, tainted>>
  BY DEF Created, Moves
<1>2. TallyTypes'
  BY <1>1, RunAssumption DEF TallyInv, TallyTypes, Phases, Of
<1>3. OwnStep(r)
  BY <1>1 DEF OwnStep, TallyInv, TallyTypes
<1>4. ASSUME s \notin tainted, Tally(s)
      PROVE  /\ \A q \in Run \ {r} : SessionOf[q] = s => ~Busy(q)
             /\ Asked(s)' /\ Together(s)' /\ Busy(r)' /\ Pending(r)'
  <2>1. /\ Pending(r) /\ Asked(s) /\ Together(s)
        /\ \A q \in Run \ {r} : SessionOf[q] = s => ~Busy(q)
    BY <1>1, <1>4, UnderWay DEF Busy
  <2>2. Mine(s)' = Mine(s) /\ Asked(s)' /\ Together(s)' /\ IsLast(r)'
    BY <1>1, <2>1, NothingStored DEF Pending
  <2>3. /\ phase'[r] = "running" /\ Busy(r)' /\ Stored(r)' = Stored(r) /\ Bumps(r)' = Bumps(r)
        /\ linking'[r] = "lookup" /\ linking[r] = "no" /\ r \in sending'
        /\ bumping'[r].at = "no"
    BY <1>1 DEF Stored, Bumps, Busy, TallyInv, TallyTypes
  <2>4. \A base \in Nat : Counted(r, base) => Counted(r, base)'
    BY <1>1, <2>2, <2>3 DEF Counted, Lags
  <2> QED BY <2>1, <2>2, <2>3, <2>4 DEF Pending
<1> QED BY <1>1, <1>2, <1>3, <1>4, Here

(* The run goes on, its messages stay where they are.                      *)
LEMMA ProceedsTally ==
    ASSUME TallyInv, NEW r \in Run, Settle(r) \/ Completed(r) \/ CompleteFailed(r)
    PROVE  TallyInv'
<1> DEFINE s == SessionOf[r]
           between == {"running", "completing", "recording"}
<1>1. /\ phase[r] \in between
      /\ \E to \in between : phase' = [phase EXCEPT ![r] = to]
      /\ UNCHANGED <<linking, bumping, tallies, sending, transcript, tainted>>
  BY DEF Settle, Completed, CompleteFailed, Moves, sessionVars, chatVars
<1>2. phase'[r] \in between /\ \A q \in Run \ {r} : phase'[q] = phase[q]
  BY <1>1 DEF TallyInv, TallyTypes
<1>3. TallyTypes'
  <2>1. \A i \in DOMAIN transcript : Of(i)' = Of(i) /\ Of(i) \in Run
    BY <1>1, LenProperties, ElementOfSeq DEF TallyInv, TallyTypes, Of, Entries
  <2>2. \A i \in DOMAIN transcript : phase'[Of(i)'] \notin {"new", "creating"}
    BY <1>2, <2>1 DEF TallyInv, TallyTypes
  <2>3. phase' \in [Run -> Phases]
    BY <1>1 DEF TallyInv, TallyTypes, Phases
  <2>4. \A q \in Run : /\ phase'[q] \in {"new", "creating"} => phase[q] = phase'[q]
                       /\ phase[q] = "answered" => phase'[q] = "answered"
    BY <1>1, <1>2
  <2> QED BY <1>1, <2>2, <2>3, <2>4 DEF TallyInv, TallyTypes
<1>4. OwnStep(r)
  BY <1>1 DEF OwnStep, TallyInv, TallyTypes
<1>5. ASSUME s \notin tainted, Tally(s)
      PROVE  /\ \A q \in Run \ {r} : SessionOf[q] = s => ~Busy(q)
             /\ Asked(s)' /\ Together(s)' /\ Busy(r)' /\ Pending(r)'
  <2>1. /\ Pending(r) /\ Asked(s) /\ Together(s)
        /\ \A q \in Run \ {r} : SessionOf[q] = s => ~Busy(q)
    BY <1>1, <1>5, UnderWay DEF Busy
  <2>2. /\ Mine(s)' = Mine(s) /\ Asked(s)' /\ Together(s)' /\ IsLast(r)'
        /\ Question(r) => Question(r)'
    BY <1>1, <2>1, NothingStored DEF Pending
  <2>3. Busy(r)' /\ Stored(r)' = Stored(r) /\ Bumps(r)' = Bumps(r)
    BY <1>1, <1>2 DEF Stored, Bumps, Busy
  <2>4. \A base \in Nat : Counted(r, base) => Counted(r, base)'
    BY <1>1, <1>2, <2>2, <2>3 DEF Counted, Lags
  <2> QED BY <1>1, <1>2, <2>1, <2>2, <2>3, <2>4 DEF Pending
<1> QED BY <1>1, <1>3, <1>4, <1>5, Here

(* The user's message lands, perhaps behind the answer.                    *)
LEMMA UserStoredTally ==
    ASSUME TallyInv, NEW r \in Run, UserStored(r)
    PROVE  TallyInv'
<1> DEFINE s == SessionOf[r]
<1>1. /\ r \in sending /\ sending' = sending \ {r}
      /\ transcript' = Append(transcript, <<"user", r>>)
      /\ UNCHANGED <<phase, linking, bumping, tallies, tainted>>
  BY DEF UserStored, runVars, sessionVars
<1>2. OwnStep(r)
  BY <1>1 DEF OwnStep, TallyInv, TallyTypes
<1>3. TallyTypes'
  <2>1. transcript' \in Seq(Entries) /\ phase[r] \notin {"new", "creating"}
    BY <1>1, MineGrows DEF TallyInv, TallyTypes
  <2>2. \A i \in DOMAIN transcript' : Of(i)' = r \/ (i \in DOMAIN transcript /\ Of(i)' = Of(i))
    BY <1>1, Grows DEF TallyInv
  <2> QED BY <1>1, <2>1, <2>2 DEF TallyInv, TallyTypes
<1>4. ASSUME s \notin tainted, Tally(s)
      PROVE  /\ \A q \in Run \ {r} : SessionOf[q] = s => ~Busy(q)
             /\ Asked(s)' /\ Together(s)'
             /\ Busy(r)' => Pending(r)'
             /\ ~Busy(r)' => Rest(s)'
  <2>1. /\ Pending(r) /\ Asked(s) /\ Together(s)
        /\ \A q \in Run \ {r} : SessionOf[q] = s => ~Busy(q)
    BY <1>1, <1>4, UnderWay DEF Busy
  <2>2. /\ Cardinality(Mine(s))' = Cardinality(Mine(s)) + 1
        /\ Asked(s)' /\ Together(s)' /\ IsLast(r)' /\ Question(r)'
    BY <1>1, <2>1, OneStored DEF TallyInv, Pending
  <2>3. /\ phase[r] \notin {"new", "creating"} /\ Stored(r) \in Nat
        /\ Stored(r)' = Stored(r) + 1 /\ Bumps(r)' = Bumps(r)
    BY <1>1 DEF Stored, Bumps, TallyInv, TallyTypes
  <2>4. PICK base \in Nat : Counted(r, base)
    BY <2>1 DEF Pending
  <2>5. Counted(r, base)'
    <3>1. base + (Stored(r) + 1) = (base + Stored(r)) + 1
      BY <2>3
    <3> QED BY <1>1, <2>2, <2>3, <2>4, <3>1 DEF Counted, Lags
  <2>6. ~Busy(r)' => Rest(s)'
    BY <1>1, <1>3, <2>3, <2>5, AtRest
  <2> QED BY <2>1, <2>2, <2>5, <2>6 DEF Pending
<1> QED BY <1>1, <1>2, <1>3, <1>4, Here

(* The answer is stored, perhaps before its question, and the bump sent off.*)
LEMMA AnswerTally ==
    ASSUME TallyInv, NEW r \in Run, Answer(r)
    PROVE  TallyInv'
<1> DEFINE s == SessionOf[r]
<1>1. /\ phase[r] = "recording" /\ phase' = [phase EXCEPT ![r] = "answered"]
      /\ bumping' = [bumping EXCEPT ![r] = [NoBump EXCEPT !.at = "read"]]
      /\ UNCHANGED <<linking, tallies, sending>>
      /\ \/ transcript' = Append(transcript, <<"assistant", r>>) /\ tainted' = tainted
         \/ transcript' = transcript /\ tainted' = tainted \cup {s}
  BY DEF Answer, Moves, TaintIf
<1>2. transcript' \in Seq(Entries) /\ s \in Session
  BY <1>1, MineGrows, RunAssumption DEF TallyInv, TallyTypes
<1>3. /\ phase'[r] = "answered" /\ \A q \in Run \ {r} : phase'[q] = phase[q]
      /\ bumping'[r].at = "read" /\ \A q \in Run \ {r} : bumping'[q] = bumping[q]
      /\ phase' \in [Run -> Phases]
      /\ bumping' \in [Run -> [at : {"no", "read", "write"}, line : Nat, count : Nat]]
  BY <1>1 DEF TallyInv, TallyTypes, Phases, NoBump
<1>4. TallyTypes'
  <2>1. \A i \in DOMAIN transcript : Of(i) \in Run /\ phase[Of(i)] \notin {"new", "creating"}
    BY LenProperties, ElementOfSeq DEF TallyInv, TallyTypes, Of, Entries
  <2>2. \A i \in DOMAIN transcript' : Of(i)' = r \/ (i \in DOMAIN transcript /\ Of(i)' = Of(i))
    <3>1. CASE transcript' = transcript
      BY <3>1 DEF Of
    <3> QED BY <1>1, <3>1, Grows DEF TallyInv
  <2>3. \A i \in DOMAIN transcript' : phase'[Of(i)'] \notin {"new", "creating"}
    BY <1>3, <2>1, <2>2
  <2>4. tainted' \in SUBSET Session
    BY <1>1, <1>2 DEF TallyInv, TallyTypes
  <2>5. \A q \in Run :
          /\ phase'[q] \in {"new", "creating"} => linking'[q] = "no" /\ q \notin sending'
          /\ bumping'[q].at # "no" => phase'[q] = "answered"
          /\ bumping'[q].at = "write" => bumping'[q].line \in 1..Len(tallies'[SessionOf[q]])
    BY <1>1, <1>3 DEF TallyInv, TallyTypes
  <2> QED BY <1>1, <1>2, <1>3, <2>3, <2>4, <2>5 DEF TallyInv, TallyTypes
<1>5. OwnStep(r)
  BY <1>1, <1>3 DEF OwnStep
<1>6. ASSUME s \notin tainted, s \notin tainted', Tally(s)
      PROVE  /\ \A q \in Run \ {r} : SessionOf[q] = s => ~Busy(q)
             /\ Asked(s)' /\ Together(s)' /\ Busy(r)' /\ Pending(r)'
  <2>1. /\ Pending(r) /\ Asked(s) /\ Together(s)
        /\ \A q \in Run \ {r} : SessionOf[q] = s => ~Busy(q)
    BY <1>1, <1>6, UnderWay DEF Busy
  <2>2. transcript' = Append(transcript, <<"assistant", r>>)
    BY <1>1, <1>6
  <2>3. r \in sending' \/ Question(r)
    BY <1>1, <2>1 DEF Pending
  <2>4. /\ Cardinality(Mine(s))' = Cardinality(Mine(s)) + 1
        /\ Asked(s)' /\ Together(s)' /\ IsLast(r)'
        /\ Question(r) => Question(r)'
    BY <1>1, <2>1, <2>2, <2>3, OneStored DEF TallyInv, Pending
  <2>5. /\ Stored(r) \in Nat /\ Stored(r)' = Stored(r) + 1 /\ Bumps(r) = 0 /\ Bumps(r)' = 0
        /\ Busy(r)' /\ bumping[r].at = "no"
    BY <1>1, <1>3 DEF Stored, Bumps, Busy, TallyInv, TallyTypes
  <2>6. PICK base \in Nat : Counted(r, base)
    BY <2>1 DEF Pending
  <2>7. Counted(r, base)'
    <3>1. base + (Stored(r) + 1) = (base + Stored(r)) + 1
      BY <2>5
    <3> QED BY <1>1, <1>3, <2>4, <2>5, <2>6, <3>1 DEF Counted, Lags
  <2> QED BY <1>1, <2>1, <2>3, <2>4, <2>5, <2>7 DEF Pending
<1> QED BY <1>4, <1>5, <1>6, Here

(* A failed query disturbs its session.                                    *)
LEMMA LostTally ==
    ASSUME TallyInv, NEW r \in Run,
           \/ UserLost(r) \/ LinkFailed(r) \/ BumpFailed(r)
           \/ LookedUp(r) /\ SessionOf[r] \in tainted'
    PROVE  TallyInv'
<1>1. /\ tainted' = tainted \cup {SessionOf[r]} /\ UNCHANGED <<phase, tallies, transcript>>
      /\ \/ sending' = sending \ {r} /\ UNCHANGED <<linking, bumping>>
         \/ /\ \E to \in {"no", "insert"} : linking' = [linking EXCEPT ![r] = to]
            /\ linking[r] # "no" /\ UNCHANGED <<sending, bumping>>
         \/ bumping' = [bumping EXCEPT ![r] = NoBump] /\ UNCHANGED <<sending, linking>>
  BY DEF UserLost, LinkFailed, BumpFailed, LookedUp, LookUp, TaintIf, runVars, chatVars, sessionVars
<1>2. /\ linking' \in [Run -> {"no", "lookup", "insert"}]
      /\ bumping' \in [Run -> [at : {"no", "read", "write"}, line : Nat, count : Nat]]
      /\ sending' \in SUBSET Run /\ tainted' \in SUBSET Session
  <2>1. SessionOf[r] \in Session /\ NoBump \in [at : {"no", "read", "write"}, line : Nat, count : Nat]
    BY RunAssumption DEF NoBump
  <2>2. linking' \in [Run -> {"no", "lookup", "insert"}]
    BY <1>1 DEF TallyInv, TallyTypes
  <2>3. bumping' \in [Run -> [at : {"no", "read", "write"}, line : Nat, count : Nat]]
    BY <1>1, <2>1 DEF TallyInv, TallyTypes
  <2>4. sending' \in SUBSET Run /\ tainted' \in SUBSET Session
    BY <1>1, <2>1 DEF TallyInv, TallyTypes
  <2> QED BY <2>2, <2>3, <2>4
<1>3. ASSUME NEW q \in Run
      PROVE  /\ linking[q] = "no" => linking'[q] = "no"
             /\ q \in sending' => q \in sending
             /\ bumping'[q] = bumping[q] \/ bumping'[q] = NoBump
  BY <1>1 DEF TallyInv, TallyTypes
<1>4. TallyTypes'
  BY <1>1, <1>2, <1>3 DEF TallyInv, TallyTypes, NoBump, Of
<1>5. OwnStep(r)
  BY <1>1 DEF OwnStep, TallyInv, TallyTypes
<1> QED BY <1>1, <1>4, <1>5, Here

(* ensureSession makes the one row, before there is any message to count.  *)
LEMMA LinkTally ==
    ASSUME TallyInv, NEW r \in Run, (LookedUp(r) /\ UNCHANGED tainted) \/ Linked(r),
           LookedUp(r) => SessionOf[r] \notin tainted'
    PROVE  TallyInv'
<1> DEFINE s == SessionOf[r]
<1>1. /\ UNCHANGED <<phase, bumping, sending, transcript, tainted>>
      /\ \/ /\ linking[r] = "lookup" /\ linking' = [linking EXCEPT ![r] = LookUp(s)]
            /\ UNCHANGED tallies
         \/ /\ linking[r] = "insert" /\ linking' = [linking EXCEPT ![r] = "no"]
            /\ tallies' = [tallies EXCEPT ![s] = Append(tallies[s], 0)]
  BY DEF LookedUp, Linked, TaintIf, runVars, chatVars
<1>2. LookUp(s) \in {"no", "insert"} /\ linking[r] # "no" /\ s \in Session
  BY <1>1, RunAssumption DEF LookUp
<1>3. /\ tallies[s] \in Seq(Nat) /\ Len(tallies[s]) \in Nat
      /\ Append(tallies[s], 0) \in Seq(Nat) /\ Len(Append(tallies[s], 0)) = Len(tallies[s]) + 1
  BY <1>2, AppendProperties, LenProperties DEF TallyInv, TallyTypes
<1>4. /\ tallies' \in [Session -> Seq(Nat)]
      /\ \A t \in Session : tallies'[t] # tallies[t] => t = s /\ tallies'[t] = Append(tallies[s], 0)
      /\ linking' \in [Run -> {"no", "lookup", "insert"}]
      /\ \A q \in Run : phase[q] \in {"new", "creating"} => linking'[q] = "no" /\ q \notin sending
  <2> HIDE DEF s
  <2>1. CASE linking[r] = "lookup"
    BY <1>1, <1>2, <2>1 DEF TallyInv, TallyTypes
  <2>2. CASE linking[r] = "insert"
    <3>1. tallies' = [tallies EXCEPT ![s] = Append(tallies[s], 0)] /\ linking' = [linking EXCEPT ![r] = "no"]
      BY <1>1, <2>2
    <3> QED BY <1>2, <1>3, <3>1 DEF TallyInv, TallyTypes
  <2> QED BY <1>1, <2>1, <2>2
<1>5. TallyTypes'
  <2>1. ASSUME NEW q \in Run, bumping[q].at = "write"
        PROVE  bumping[q].line \in 1..Len(tallies'[SessionOf[q]])
    <3>1. bumping[q].line \in 1..Len(tallies[SessionOf[q]]) /\ SessionOf[q] \in Session
      BY <2>1, RunAssumption DEF TallyInv, TallyTypes
    <3>2. CASE tallies'[SessionOf[q]] = tallies[SessionOf[q]]
      BY <3>1, <3>2
    <3>3. CASE SessionOf[q] = s /\ tallies'[s] = Append(tallies[s], 0)
      BY <1>3, <3>1, <3>3
    <3> QED BY <1>4, <3>1, <3>2, <3>3
  <2> QED BY <1>1, <1>4, <2>1 DEF TallyInv, TallyTypes, Of
<1>6. OwnStep(r)
  BY <1>1 DEF OwnStep, TallyInv, TallyTypes
<1>7. ASSUME s \notin tainted, Tally(s)
      PROVE  /\ \A q \in Run \ {r} : SessionOf[q] = s => ~Busy(q)
             /\ Asked(s)' /\ Together(s)'
             /\ Busy(r)' => Pending(r)'
             /\ ~Busy(r)' => Rest(s)'
  <2>1. /\ Pending(r) /\ Asked(s) /\ Together(s)
        /\ \A q \in Run \ {r} : SessionOf[q] = s => ~Busy(q)
    BY <1>2, <1>7, UnderWay DEF Busy
  <2>2. /\ Mine(s)' = Mine(s) /\ Asked(s)' /\ Together(s)' /\ IsLast(r)'
        /\ Question(r) => Question(r)'
    BY <1>1, <2>1, NothingStored DEF Pending
  <2>3. /\ phase[r] \notin {"new", "creating"} /\ Stored(r)' = Stored(r) /\ Bumps(r)' = Bumps(r)
        /\ Bumps(r) \in {0, 2}
    BY <1>1, <1>2 DEF Stored, Bumps, TallyInv, TallyTypes
  <2>4. PICK base \in Nat : Counted(r, base)
    BY <2>1 DEF Pending
  <2>5. Counted(r, base)'
    <3>1. Cardinality(Mine(s))' = base + Stored(r)'
      BY <2>2, <2>3, <2>4 DEF Counted
    <3>2. CASE linking[r] = "lookup" /\ tallies[s] = <<>>
      <4>1. linking'[r] = "insert" /\ tallies'[s] = <<>> /\ base = 0
        BY <1>1, <2>4, <3>2 DEF LookUp, Counted, Lags, TallyInv, TallyTypes
      <4>2. bumping[r].at # "write"
        <5>1. Len(tallies[s]) = 0
          BY <3>2, EmptySeq
        <5> QED BY <5>1 DEF TallyInv, TallyTypes
      <4> QED BY <1>1, <3>1, <4>1, <4>2 DEF Counted
    <3>3. CASE linking[r] = "lookup" /\ tallies[s] # <<>>
      <4>1. linking'[r] = "no" /\ tallies' = tallies /\ Lags(s, base + Bumps(r))
        BY <1>1, <2>4, <3>3 DEF LookUp, Counted, TallyInv, TallyTypes
      <4> QED BY <1>1, <2>3, <2>4, <3>1, <4>1 DEF Counted, Lags
    <3>4. CASE linking[r] = "insert"
      <4>1. tallies[s] = <<>> /\ base = 0
        BY <2>4, <3>4 DEF Counted
      <4>2. Len(tallies[s]) = 0
        BY <4>1, EmptySeq
      <4>3. bumping[r].at # "write"
        BY <4>2 DEF TallyInv, TallyTypes
      <4>4. linking'[r] = "no" /\ tallies'[s] = <<0>>
        BY <1>1, <1>2, <3>4, <4>1 DEF TallyInv, TallyTypes
      <4>5. Lags(s, base + Bumps(r))'
        BY <2>3, <4>1, <4>4 DEF Lags
      <4> QED BY <1>1, <3>1, <4>3, <4>4, <4>5 DEF Counted
    <3> QED BY <1>1, <3>2, <3>3, <3>4
  <2>6. ~Busy(r)' => Rest(s)'
    BY <1>1, <1>5, <2>3, <2>5, AtRest
  <2> QED BY <1>1, <2>1, <2>2, <2>3, <2>5, <2>6 DEF Pending
<1> QED BY <1>1, <1>5, <1>6, <1>7, Here

(* bumpSession reads the session's one row, or does not find it yet ...    *)
LEMMA BumpReadTally ==
    ASSUME TallyInv, NEW r \in Run, BumpRead(r)
    PROVE  TallyInv'
<1> DEFINE s == SessionOf[r]
<1>1. /\ bumping[r].at = "read"
      /\ UNCHANGED <<phase, linking, sending, tallies, transcript, tainted>>
      /\ \/ /\ tallies[s] = <<>>
            /\ bumping' = [bumping EXCEPT ![r] = NoBump]
         \/ \E i \in 1..Len(tallies[s]) :
              bumping' = [bumping EXCEPT ![r] = [at |-> "write", line |-> i, count |-> tallies[s][i]]]
  BY DEF BumpRead, runVars, chatVars
<1>2. s \in Session /\ tallies[s] \in Seq(Nat) /\ Len(tallies[s]) \in Nat
  BY RunAssumption, LenProperties DEF TallyInv, TallyTypes
<1>3. PICK b \in [at : {"no", "read", "write"}, line : Nat, count : Nat] :
        /\ bumping' = [bumping EXCEPT ![r] = b]
        /\ \/ b = NoBump /\ tallies[s] = <<>>
           \/ /\ b.at = "write" /\ b.line \in 1..Len(tallies[s])
              /\ b.count = tallies[s][b.line]
  <2>1. CASE tallies[s] = <<>> /\ bumping' = [bumping EXCEPT ![r] = NoBump]
    <3>1. NoBump \in [at : {"no", "read", "write"}, line : Nat, count : Nat]
      BY DEF NoBump
    <3> QED BY <2>1, <3>1
  <2>2. ASSUME NEW i \in 1..Len(tallies[s]),
               bumping' = [bumping EXCEPT ![r] = [at |-> "write", line |-> i, count |-> tallies[s][i]]]
        PROVE  \E b \in [at : {"no", "read", "write"}, line : Nat, count : Nat] :
                 /\ bumping' = [bumping EXCEPT ![r] = b]
                 /\ b.at = "write" /\ b.line \in 1..Len(tallies[s]) /\ b.count = tallies[s][b.line]
    <3> DEFINE b == [at |-> "write", line |-> i, count |-> tallies[s][i]]
    <3>1. tallies[s][i] \in Nat /\ i \in Nat
      BY <1>2, <2>2, ElementOfSeq
    <3>2. /\ b \in [at : {"no", "read", "write"}, line : Nat, count : Nat]
          /\ b.at = "write" /\ b.line = i /\ b.count = tallies[s][i]
      BY <3>1
    <3> HIDE DEF b
    <3>3. bumping' = [bumping EXCEPT ![r] = b]
      BY <2>2 DEF b
    <3> QED BY <3>2, <3>3
  <2> QED BY <1>1, <2>1, <2>2
<1>4. bumping'[r] = b /\ \A q \in Run \ {r} : bumping'[q] = bumping[q]
  BY <1>3 DEF TallyInv, TallyTypes
<1>5. phase[r] = "answered"
  BY <1>1 DEF TallyInv, TallyTypes
<1>6. TallyTypes'
  <2>1. bumping' \in [Run -> [at : {"no", "read", "write"}, line : Nat, count : Nat]]
    BY <1>3 DEF TallyInv, TallyTypes
  <2>2. \A q \in Run : /\ bumping'[q].at # "no" => phase[q] = "answered"
                       /\ bumping'[q].at = "write" => bumping'[q].line \in 1..Len(tallies[SessionOf[q]])
    BY <1>3, <1>4, <1>5 DEF TallyInv, TallyTypes, NoBump
  <2> QED BY <1>1, <2>1, <2>2 DEF TallyInv, TallyTypes, Of
<1>7. OwnStep(r)
  BY <1>1, <1>4 DEF OwnStep
<1>8. ASSUME s \notin tainted, Tally(s)
      PROVE  /\ \A q \in Run \ {r} : SessionOf[q] = s => ~Busy(q)
             /\ Asked(s)' /\ Together(s)' /\ Pending(r)'
             /\ ~Busy(r)' => Rest(s)'
  <2>1. /\ Pending(r) /\ Asked(s) /\ Together(s)
        /\ \A q \in Run \ {r} : SessionOf[q] = s => ~Busy(q)
    BY <1>1, <1>8, UnderWay DEF Busy
  <2>2. /\ Mine(s)' = Mine(s) /\ Asked(s)' /\ Together(s)' /\ IsLast(r)'
        /\ Question(r) => Question(r)'
    BY <1>1, <2>1, NothingStored DEF Pending
  <2>3. Stored(r)' = Stored(r) /\ Bumps(r) = 0
    BY <1>1 DEF Stored, Bumps
  <2>4. PICK base \in Nat : Counted(r, base)
    BY <2>1 DEF Pending
  <2>5. Counted(r, base)'
    <3>1. Cardinality(Mine(s))' = base + Stored(r)'
      BY <2>2, <2>3, <2>4 DEF Counted
    <3>2. CASE b = NoBump /\ tallies[s] = <<>>
      <4>1. base = 0 /\ linking[r] # "no" /\ bumping'[r].at # "write"
        BY <1>4, <1>5, <2>4, <3>2 DEF Counted, Lags, NoBump
      <4> QED BY <1>1, <3>1, <3>2, <4>1 DEF Counted
    <3>3. CASE b.at = "write" /\ b.line \in 1..Len(tallies[s]) /\ b.count = tallies[s][b.line]
      <4>1. tallies[s] # <<>>
        BY <3>3, EmptySeq
      <4>2. linking[r] # "insert" /\ Lags(s, base) /\ base + 0 = base
        BY <2>3, <2>4, <4>1 DEF Counted
      <4>3. b.line = 1
        BY <3>3, <4>2 DEF Lags
      <4>4. Bumps(r)' = 0 /\ Lags(s, base)' /\ bumping'[r].line = 1 /\ bumping'[r].count = tallies'[s][1]
        BY <1>1, <1>4, <3>3, <4>2, <4>3 DEF Bumps, Lags
      <4> QED BY <1>1, <3>1, <4>2, <4>4 DEF Counted, Lags
    <3> QED BY <1>3, <3>2, <3>3
  <2>6. ~Busy(r)' => Rest(s)'
    BY <1>1, <1>5, <1>6, <2>5, AtRest
  <2> QED BY <1>1, <2>1, <2>2, <2>5, <2>6 DEF Pending
<1> QED BY <1>1, <1>6, <1>7, <1>8, Here

(* ... and writes it back, two up.                                         *)
LEMMA BumpWrittenTally ==
    ASSUME TallyInv, NEW r \in Run, BumpWritten(r)
    PROVE  TallyInv'
<1> DEFINE s == SessionOf[r]
           rows == [tallies[s] EXCEPT ![bumping[r].line] = bumping[r].count + 2]
<1>1. /\ bumping[r].at = "write" /\ bumping' = [bumping EXCEPT ![r] = NoBump]
      /\ tallies' = [tallies EXCEPT ![s] = rows]
      /\ UNCHANGED <<phase, linking, sending, transcript, tainted>>
  BY DEF BumpWritten, Bumped, runVars, chatVars
<1>2. /\ s \in Session /\ tallies[s] \in Seq(Nat)
      /\ bumping[r].line \in 1..Len(tallies[s]) /\ bumping[r].count + 2 \in Nat
      /\ phase[r] = "answered"
  <2>1. bumping[r].count \in Nat /\ phase[r] = "answered" /\ s \in Session
    BY <1>1, RunAssumption DEF TallyInv, TallyTypes
  <2>2. bumping[r].line \in 1..Len(tallies[s]) /\ tallies[s] \in Seq(Nat)
    BY <1>1, <2>1 DEF TallyInv, TallyTypes
  <2> QED BY <2>1, <2>2
<1>3. rows \in Seq(Nat) /\ Len(rows) = Len(tallies[s])
  BY <1>2, ExceptSeq
<1> HIDE DEF rows
<1>4. /\ tallies' \in [Session -> Seq(Nat)]
      /\ \A t \in Session : t # s => tallies'[t] = tallies[t]
      /\ tallies'[s] = rows
  BY <1>1, <1>2, <1>3 DEF TallyInv, TallyTypes
<1>5. NoBump \in [at : {"no", "read", "write"}, line : Nat, count : Nat] /\ NoBump.at = "no"
  BY DEF NoBump
<1>6. TallyTypes'
  <2>1. /\ bumping' \in [Run -> [at : {"no", "read", "write"}, line : Nat, count : Nat]]
        /\ bumping'[r].at = "no" /\ \A q \in Run : q # r => bumping'[q] = bumping[q]
    BY <1>1, <1>5 DEF TallyInv, TallyTypes
  <2>2. \A t \in Session : Len(tallies'[t]) = Len(tallies[t])
    BY <1>3, <1>4
  <2>3. ASSUME NEW q \in Run
        PROVE  /\ bumping'[q].at # "no" => phase[q] = "answered"
               /\ bumping'[q].at = "write" => bumping'[q].line \in 1..Len(tallies'[SessionOf[q]])
    BY <2>1, <2>2, RunAssumption DEF TallyInv, TallyTypes
  <2> QED BY <1>1, <1>4, <2>1, <2>3 DEF TallyInv, TallyTypes, Of
<1>7. OwnStep(r)
  BY <1>1, <1>4 DEF OwnStep, TallyInv, TallyTypes
<1>8. ASSUME s \notin tainted, Tally(s)
      PROVE  /\ \A q \in Run \ {r} : SessionOf[q] = s => ~Busy(q)
             /\ Asked(s)' /\ Together(s)' /\ Pending(r)'
             /\ ~Busy(r)' => Rest(s)'
  <2>1. /\ Pending(r) /\ Asked(s) /\ Together(s)
        /\ \A q \in Run \ {r} : SessionOf[q] = s => ~Busy(q)
    BY <1>1, <1>8, UnderWay DEF Busy
  <2>2. /\ Mine(s)' = Mine(s) /\ Asked(s)' /\ Together(s)' /\ IsLast(r)'
        /\ Question(r) => Question(r)'
    BY <1>1, <2>1, NothingStored DEF Pending
  <2>3. bumping'[r].at = "no"
    BY <1>1, <1>5 DEF TallyInv, TallyTypes
  <2>4. Stored(r)' = Stored(r) /\ Bumps(r) = 0 /\ Bumps(r)' = 2
    BY <1>1, <1>2, <2>3 DEF Stored, Bumps
  <2>5. PICK base \in Nat : Counted(r, base)
    BY <2>1 DEF Pending
  <2>6. Counted(r, base)'
    <3>1. Cardinality(Mine(s))' = base + Stored(r)'
      BY <2>2, <2>4, <2>5 DEF Counted
    <3>2. tallies[s] # <<>>
      BY <1>2, EmptySeq
    <3>3. /\ linking[r] # "insert" /\ Lags(s, base) /\ base + 0 = base
          /\ bumping[r].line = 1 /\ bumping[r].count = tallies[s][1]
      BY <1>1, <2>4, <2>5, <3>2 DEF Counted
    <3>4. PICK c \in {base, base - 2} : c \in Nat /\ tallies[s] = <<c>>
      BY <3>3 DEF Lags
    <3>5. rows = <<c + 2>>
      BY <3>3, <3>4 DEF rows
    <3>6. tallies'[s] = <<base + 2>> \/ tallies'[s] = <<(base + 2) - 2>>
      <4>1. CASE c = base
        BY <1>4, <3>5, <4>1
      <4>2. CASE c = base - 2
        <5>1. c + 2 = (base + 2) - 2
          BY <4>2
        <5> QED BY <1>4, <3>5, <5>1
      <4> QED BY <4>1, <4>2
    <3>7. Lags(s, base + 2)'
      BY <3>6 DEF Lags
    <3> QED BY <1>1, <2>3, <2>4, <3>1, <3>3, <3>7 DEF Counted, Lags
  <2>7. ~Busy(r)' => Rest(s)'
    BY <1>1, <1>2, <1>6, <2>6, AtRest
  <2> QED BY <1>1, <2>1, <2>2, <2>6, <2>7 DEF Pending
<1> QED BY <1>1, <1>6, <1>7, <1>8, Here

LEMMA NextTally == TallyInv /\ [RecordsNext]_recordVars => TallyInv'
<1> SUFFICES ASSUME TallyInv, [RecordsNext]_recordVars PROVE TallyInv'
  OBVIOUS
<1>1. CASE \E r \in Run : Begin(r) \/ Created(r) \/ UserStored(r) \/ Answer(r)
  BY <1>1, BeginTally, CreatedTally, UserStoredTally, AnswerTally
<1>2. CASE \E r \in Run : Settle(r) \/ Completed(r) \/ CompleteFailed(r)
  BY <1>2, ProceedsTally
<1>3. CASE \E r \in Run : UserLost(r) \/ LinkFailed(r) \/ BumpFailed(r)
  BY <1>3, LostTally
<1>4. ASSUME NEW r \in Run, LookedUp(r) \/ Linked(r) PROVE TallyInv'
  <2>1. CASE LookedUp(r) /\ SessionOf[r] \in tainted'
    BY <2>1, LostTally
  <2>2. CASE LookedUp(r) /\ SessionOf[r] \notin tainted'
    <3>1. UNCHANGED tainted
      BY <2>2 DEF LookedUp, TaintIf
    <3> QED BY <2>2, <3>1, LinkTally
  <2>3. CASE Linked(r) /\ ~LookedUp(r)
    BY <2>3, LinkTally
  <2> QED BY <1>4, <2>1, <2>2, <2>3
<1>5. CASE \E r \in Run : BumpRead(r) \/ BumpWritten(r)
  BY <1>5, BumpReadTally, BumpWrittenTally
<1>6. CASE (\E r \in Run : Emit(r) \/ \E e \in appending[r] : Appended(r, e)) \/ UNCHANGED recordVars
  <2>1. UNCHANGED <<phase, linking, bumping, tallies, sending, transcript, tainted>>
    BY <1>6 DEF Emit, Appended, recordVars, runVars, sessionVars, chatVars
  <2>2. /\ \A s : Mine(s)' = Mine(s) /\ Rest(s)' = Rest(s)
        /\ \A i : Of(i)' = Of(i)
        /\ \A r : Busy(r)' = Busy(r) /\ Stored(r)' = Stored(r) /\ Bumps(r)' = Bumps(r)
        /\ \A s, n : Lags(s, n)' = Lags(s, n)
    BY <2>1 DEF Mine, Of, Rest, Lags, Busy, Stored, Bumps
  <2>3. TallyTypes'
    BY <2>1, <2>2 DEF TallyInv, TallyTypes
  <2>4. /\ \A r : Question(r)' = Question(r) /\ IsLast(r)' = IsLast(r)
        /\ \A r, base : Counted(r, base)' = Counted(r, base)
    BY <2>1, <2>2 DEF Question, IsLast, Counted
  <2>5. \A r : Pending(r) => Pending(r)'
    BY <2>1, <2>2, <2>4 DEF Pending
  <2>6. \A s : Asked(s) => Asked(s)'
    BY <2>1, <2>2 DEF Asked, Question
  <2>7. \A s : Alone(s) /\ Together(s) => Alone(s)' /\ Together(s)'
    BY <2>2 DEF Alone, Together
  <2> QED BY <2>1, <2>2, <2>3, <2>5, <2>6, <2>7 DEF TallyInv, Tally
<1> QED BY <1>1, <1>2, <1>3, <1>4, <1>5, <1>6 DEF RecordsNext

LEMMA TallyKept == RecordsSpec => []TallyInv
BY InitTally, NextTally, PTL DEF RecordsSpec

(* Where each message of a session begins when the writes of the one       *)
(* before have landed, and no query fails, then in whatever order the      *)
(* unawaited writes of one message land, its own late ones included, every *)
(* answer has its question, no other message stands between them, and the  *)
(* session's one row counts the transcript or all of it but two messages.  *)
THEOREM RecordsTallyCounts == RecordsSpec => []TallyCountsTranscript
<1>1. TallyInv => TallyCountsTranscript
  <2> SUFFICES ASSUME TallyInv, NEW s \in Session, s \notin tainted,
                      \A r \in Run : SessionOf[r] = s => ~Busy(r)
               PROVE  LET n == Cardinality(Mine(s)) IN
                      /\ tallies[s] \in (IF n = 0 THEN {<<>>} ELSE {<<n>>, <<n - 2>>})
                      /\ \A i \in Mine(s) : transcript[i][1] = "assistant" =>
                          \E j \in Mine(s) : transcript[j] = <<"user", transcript[i][2]>>
                      /\ \A i, j, k \in Mine(s) :
                          i < j /\ j < k /\ transcript[i][2] = transcript[k][2] =>
                              transcript[j][2] = transcript[i][2]
    BY DEF TallyCountsTranscript, Mine
  <2>1. Asked(s) /\ Together(s) /\ Rest(s)
    BY DEF TallyInv, Tally
  <2>2. ASSUME NEW i \in Mine(s), transcript[i][1] = "assistant"
        PROVE  \E j \in Mine(s) : transcript[j] = <<"user", transcript[i][2]>>
    <3>1. Of(i) \in Run /\ SessionOf[Of(i)] = s
      BY MineRuns DEF TallyInv
    <3>2. Question(Of(i))
      BY <2>1, <2>2, <3>1 DEF Asked, Busy
    <3> QED BY <3>1, <3>2 DEF Question, Of
  <2> QED BY <2>1, <2>2 DEF Rest, Lags, Together, Of
<1> QED BY <1>1, TallyKept, PTL

(* The tables keep their types: the event numbers stay within the events   *)
(* seen, and a bump under way names a row of its session.                  *)
THEOREM RecordsTyped == RecordsSpec => []RecordsTypeOK
<1>1. EventInv /\ TallyInv => RecordsTypeOK
  <2> SUFFICES ASSUME EventInv, TallyInv PROVE RecordsTypeOK
    OBVIOUS
  <2>1. \A r \in Run :
        /\ counter[r] <= emitted[r] /\ emitted[r] \in 0..MaxEvents[r]
        /\ appending[r] \cup events[r] \subseteq Numbered(r)
        /\ cut[r] \in 0..MaxEvents[r] \cup {None}
    BY RunAssumption DEF EventInv, EventTypes
  <2>2. \A r \in Run : bumping[r].at = "write" => bumping[r].line \in DOMAIN tallies[SessionOf[r]]
    BY RunAssumption, LenProperties DEF TallyInv, TallyTypes
  <2> QED BY <2>1, <2>2 DEF EventInv, EventTypes, TallyInv, TallyTypes, RecordsTypeOK
<1> QED BY <1>1, EventsKept, TallyKept, PTL
=============================================================================
