------------------------- MODULE RootRegistryProofs -------------------------
(***************************************************************************)
(* The root registry is exact for any number of values, any slot limit and *)
(* any width of the generations (RootRegistry, experimental.rs:1748-1846). *)
(***************************************************************************)
EXTENDS RootRegistry, FiniteSetTheorems, SequenceTheorems, TLAPS

RootRelease == [state : {"live", "pending"}, next : 0 .. Limit]

Slot == [generation : 1 .. MaxGeneration, value : Values \cup {NoValue}, release : RootRelease]

(* The elements of a stack or a queue of slots, and that none is in it      *)
(* twice.                                                                  *)
Elems(q) == {q[n] : n \in 1 .. Len(q)}
Once(q)  == \A m, n \in 1 .. Len(q) : q[m] = q[n] => m = n

Occupied == {i \in 1 .. Len(slots) : slots[i].value # NoValue}

RegistryTypes ==
  /\ slots \in Seq(Slot) /\ Len(slots) <= Limit
  /\ free \in Seq(1 .. Limit) /\ queued \in Seq(1 .. Limit)
  /\ entry \in {"outside", "entering", "inside", "leaving", "destroyed"}
  /\ handle \in [Values -> Ids]
  /\ kind \in [Values -> {"none", "lease", "copy"}]
  /\ unprotects \in [Values -> Nat]

(* The free stack and the count of occupied slots. *)
StackIsExact ==
  /\ live = Cardinality(Occupied)
  /\ Once(free)
  /\ Elems(free) = {i \in 1 .. Len(slots) : slots[i].value = NoValue /\ slots[i].generation # MaxGeneration}

(* The list threaded through the slots. *)
ListIsExact ==
  /\ pending = Len(queued)
  /\ pending_head = IF queued = <<>> THEN 0 ELSE queued[Len(queued)]
  /\ Once(queued)
  /\ Elems(queued) = {i \in 1 .. Len(slots) : slots[i].release # Live}
  /\ \A n \in 1 .. Len(queued) :
       slots[queued[n]].release = Pending(IF n = 1 THEN 0 ELSE queued[n - 1])

(* An occupied slot belongs to the handle of its value, and only an         *)
(* occupied one is ever queued.                                            *)
SlotIsBound(i) ==
  /\ slots[i].value # NoValue =>
       /\ handle[slots[i].value] = [slot |-> i, generation |-> slots[i].generation]
       /\ slots[i].generation # MaxGeneration
  /\ slots[i].release # Live => slots[i].value # NoValue

(* A handle is never ahead of its slot, and level with it only while the    *)
(* slot holds its value.                                                   *)
HandleIsBound(v) ==
  IF handle[v] = NoId THEN kind[v] = "none" /\ unprotects[v] = 0
  ELSE /\ handle[v].slot \in 1 .. Len(slots)
       /\ handle[v].generation <= slots[handle[v].slot].generation
       /\ handle[v].generation < MaxGeneration
       /\ handle[v].generation = slots[handle[v].slot].generation
            => slots[handle[v].slot].value = v
       /\ unprotects[v] = IF \E i \in 1 .. Len(slots) : slots[i].value = v THEN 0 ELSE 1
       /\ kind[v] = "lease" /\ entry # "destroyed" =>
            /\ slots[handle[v].slot].value = v
            /\ slots[handle[v].slot].release = Live

RInv ==
  /\ RegistryTypes /\ StackIsExact /\ ListIsExact
  /\ \A i \in 1 .. Len(slots) : SlotIsBound(i)
  /\ \A v \in Values : HandleIsBound(v)
  /\ entry = "destroyed" => Occupied = {}
----------------------------------------------------------------------------
(* A push: free.push, or a slot put at the head of the pending list. *)
LEMMA PushElems ==
  ASSUME NEW S, NEW q \in Seq(S), NEW x \in S, x \notin Elems(q), Once(q)
  PROVE  /\ Append(q, x) \in Seq(S) /\ Append(q, x) # <<>>
         /\ Len(Append(q, x)) = Len(q) + 1 /\ Append(q, x)[Len(q) + 1] = x
         /\ \A n \in 1 .. Len(q) : Append(q, x)[n] = q[n]
         /\ Elems(Append(q, x)) = Elems(q) \cup {x} /\ Once(Append(q, x))
<1>1. /\ Append(q, x) \in Seq(S) /\ Append(q, x) # <<>> /\ Len(Append(q, x)) = Len(q) + 1
      /\ Append(q, x)[Len(q) + 1] = x /\ \A n \in 1 .. Len(q) : Append(q, x)[n] = q[n]
  BY AppendProperties
<1>2. Len(q) \in Nat
  BY LenProperties
<1>3. 1 .. Len(q) + 1 = (1 .. Len(q)) \cup {Len(q) + 1}
  BY <1>2
<1>4. Elems(Append(q, x)) = Elems(q) \cup {x}
  BY <1>1, <1>3 DEF Elems
<1>5. Once(Append(q, x))
  BY <1>1, <1>3 DEF Elems, Once
<1> QED
  BY <1>1, <1>4, <1>5

(* A pop: free.pop, or the head taken off the pending list. *)
LEMMA PopElems ==
  ASSUME NEW S, NEW q \in Seq(S), q # <<>>, Once(q)
  PROVE  /\ Front(q) \in Seq(S) /\ Len(q) \in Nat \ {0} /\ Len(Front(q)) = Len(q) - 1
         /\ Last(q) = q[Len(q)] /\ Last(q) \in S /\ Last(q) \in Elems(q)
         /\ \A n \in 1 .. Len(q) - 1 : Front(q)[n] = q[n]
         /\ Elems(Front(q)) = Elems(q) \ {Last(q)} /\ Once(Front(q))
<1>1. Len(q) \in Nat \ {0} /\ q \in [1 .. Len(q) -> S]
  BY LenProperties, EmptySeq
<1>2. Last(q) = q[Len(q)] /\ Last(q) \in S /\ Last(q) \in Elems(q)
  BY <1>1 DEF Last, Elems
<1>3. /\ Front(q) \in Seq(S) /\ Len(Front(q)) = Len(q) - 1
      /\ \A n \in 1 .. Len(q) - 1 : Front(q)[n] = q[n]
  <2>1. Len(q) - 1 \in 0 .. Len(q) /\ 1 \in 1 .. Len(q) + 1 /\ Len(q) - 1 \in 1 - 1 .. Len(q)
    BY <1>1
  <2>2. \A n \in 1 .. Len(q) - 1 : 1 + n - 1 = n
    BY <1>1
  <2>3. Len(q) - 1 - 1 + 1 = Len(q) - 1
    BY <1>1
  <2> QED
    BY <1>1, <2>1, <2>2, <2>3, SubSeqProperties DEF Front
<1>4. 1 .. Len(q) = (1 .. Len(q) - 1) \cup {Len(q)} /\ Len(q) \notin 1 .. Len(q) - 1
  BY <1>1
<1>5. Once(Front(q))
  BY <1>3, <1>4 DEF Once
<1>6. Elems(Front(q)) = Elems(q) \ {Last(q)}
  <2>1. ASSUME NEW n \in 1 .. Len(q) - 1
        PROVE  q[n] # q[Len(q)]
    BY <1>1, <1>4 DEF Once
  <2>2. Elems(Front(q)) = {q[n] : n \in 1 .. Len(q) - 1}
    BY <1>3 DEF Elems
  <2>3. Elems(q) = {q[n] : n \in 1 .. Len(q) - 1} \cup {q[Len(q)]}
    BY <1>4 DEF Elems
  <2> QED
    BY <1>2, <2>1, <2>2, <2>3
<1> QED
  BY <1>1, <1>2, <1>3, <1>5, <1>6

(* A sequence without repetition is as long as its elements are many. *)
LEMMA OnceCounts ==
  ASSUME NEW S, NEW q \in Seq(S), Once(q)
  PROVE  Cardinality(Elems(q)) = Len(q) /\ IsFiniteSet(Elems(q)) /\ Len(q) \in Nat
<1>1. Len(q) \in Nat /\ q \in [1 .. Len(q) -> S]
  BY LenProperties
<1>2. q \in [1 .. Len(q) -> Elems(q)]
  BY <1>1 DEF Elems
<1>3. q \in Bijection(1 .. Len(q), Elems(q))
  BY <1>2 DEF Bijection, Injection, Surjection, IsInjective, Once, Elems
<1>4. ExistsBijection(1 .. Len(q), Elems(q))
  BY <1>3 DEF ExistsBijection
<1> QED
  BY <1>1, <1>4, FS_CountingElements, FS_NatBijection

(* So a stack or a queue of slots is never longer than there are slots. *)
LEMMA OnceFits ==
  ASSUME NEW N \in Nat, NEW S, NEW q \in Seq(S), Once(q), Elems(q) \subseteq 1 .. N
  PROVE  Len(q) <= N
<1>1. IsFiniteSet(1 .. N) /\ Cardinality(1 .. N) = N
  <2>1. 1 \in Int /\ N \in Int /\ N - 1 + 1 = N /\ (1 > N => N = 0)
    OBVIOUS
  <2> QED
    BY <2>1, FS_Interval
<1>2. Cardinality(Elems(q)) <= N
  BY <1>1, FS_Subset
<1> QED
  BY <1>2, OnceCounts

(* Induction over the slots, from a least counterexample. *)
LEMMA LeastNumber ==
  ASSUME NEW T \in SUBSET Nat, 0 \notin T, \A n \in Nat : n \notin T => n + 1 \notin T
  PROVE  T = {}
<1> SUFFICES ASSUME T # {}
             PROVE  FALSE
  OBVIOUS
<1>1. IsWellFoundedOn(OpToRel(<, Nat), Nat)
  BY NatLessThanWellFounded
<1>2. PICK n \in T : \A m \in T : ~ (<<m, n>> \in OpToRel(<, Nat))
  BY <1>1, WFMin
<1>3. n \in Nat /\ n # 0
  OBVIOUS
<1>4. n - 1 \in Nat /\ n - 1 < n /\ (n - 1) + 1 = n
  BY <1>3
<1>5. n - 1 \in T
  BY <1>4
<1> QED
  BY <1>2, <1>3, <1>4, <1>5 DEF OpToRel

(* The slots that drain puts back on the stack. *)
Keeps(i) == NextGeneration(slots[i].generation) # MaxGeneration

IsRefill(g) ==
  g = [i \in 0 .. Len(slots) |->
         IF i = 0 THEN <<>> ELSE IF Keeps(i) THEN Append(g[i - 1], i) ELSE g[i - 1]]

(* The stack of drain's loop after each slot exists, so Refilled is the     *)
(* last of them.                                                           *)
LEMMA RefillExists ==
  ASSUME slots \in Seq(Slot)
  PROVE  \E g : IsRefill(g) /\ Refilled = g[Len(slots)]
<1> DEFINE N == Len(slots)
           Good(g, i) == g[i] = IF i = 0 THEN <<>> ELSE IF Keeps(i) THEN Append(g[i - 1], i) ELSE g[i - 1]
           Upto(g, n) == \A i \in 0 .. N : i <= n => Good(g, i)
           Bad == {n \in Nat : ~ \E g \in [0 .. N -> Seq(1 .. N)] : Upto(g, n)}
<1>1. N \in Nat
  BY LenProperties
<1>2. 0 \notin Bad
  <2>1. <<>> \in Seq(1 .. N)
    BY EmptySeq
  <2>2. [i \in 0 .. N |-> <<>>] \in [0 .. N -> Seq(1 .. N)]
    BY <2>1
  <2>3. Upto([i \in 0 .. N |-> <<>>], 0)
    BY <1>1
  <2> QED
    BY <2>2, <2>3
<1>3. ASSUME NEW n \in Nat, n \notin Bad
      PROVE  n + 1 \notin Bad
  <2>1. PICK g \in [0 .. N -> Seq(1 .. N)] : Upto(g, n)
    BY <1>3
  <2>2. CASE n + 1 \notin 0 .. N
    <3>1. \A i \in 0 .. N : i <= n + 1 => i <= n
      BY <1>1, <2>2
    <3> QED
      BY <2>1, <3>1
  <2>3. CASE n + 1 \in 0 .. N
    <3> DEFINE x == IF Keeps(n + 1) THEN Append(g[n], n + 1) ELSE g[n]
               h == [g EXCEPT ![n + 1] = x]
    <3>1. n \in 0 .. N /\ n + 1 \in 1 .. N /\ n + 1 # 0 /\ (n + 1) - 1 = n /\ n # n + 1
      BY <1>1, <2>3
    <3>2. g[n] \in Seq(1 .. N)
      BY <3>1
    <3>3. x \in Seq(1 .. N)
      BY <3>1, <3>2, AppendProperties
    <3>4. h \in [0 .. N -> Seq(1 .. N)]
      BY <3>3
    <3>5. h[n + 1] = x /\ h[n] = g[n]
      BY <2>3, <3>1
    <3>6. Good(h, n + 1)
      BY <3>1, <3>5
    <3>7. ASSUME NEW i \in 0 .. N, i <= n
          PROVE  Good(h, i)
      <4>1. Good(g, i)
        BY <2>1, <3>7
      <4>2. i # n + 1 /\ i - 1 # n + 1 /\ (i # 0 => i - 1 \in 0 .. N)
        BY <3>7, <1>1
      <4>3. h[i] = g[i] /\ (i # 0 => h[i - 1] = g[i - 1])
        BY <4>2
      <4> QED
        BY <4>1, <4>3
    <3>8. \A i \in 0 .. N : i <= n + 1 => i <= n \/ i = n + 1
      BY <1>1
    <3>9. Upto(h, n + 1)
      BY <3>6, <3>7, <3>8
    <3> QED
      BY <3>4, <3>9
  <2> QED
    BY <2>2, <2>3
<1>4. Bad = {}
  <2>1. Bad \in SUBSET Nat
    OBVIOUS
  <2> HIDE DEF Bad
  <2> QED
    BY <1>2, <1>3, <2>1, LeastNumber
<1>5. PICK g \in [0 .. N -> Seq(1 .. N)] : Upto(g, N)
  BY <1>1, <1>4
<1>6. \A i \in 0 .. N : Good(g, i)
  BY <1>1, <1>5
<1>7. IsRefill(g)
  <2> DEFINE h == [i \in 0 .. N |-> IF i = 0 THEN <<>> ELSE IF Keeps(i) THEN Append(g[i - 1], i) ELSE g[i - 1]]
  <2>1. \A i \in 0 .. N : h[i] = g[i]
    BY <1>6
  <2>2. g = [i \in 0 .. N |-> g[i]] /\ h = [i \in 0 .. N |-> h[i]]
    OBVIOUS
  <2>3. h = g
    BY <2>1, <2>2
  <2> QED
    BY <2>3 DEF IsRefill
<1>8. IsRefill(CHOOSE f : IsRefill(f))
  BY <1>7, Zenon
<1>9. Refilled = (CHOOSE f : IsRefill(f))[Len(slots)]
  BY Zenon DEF Refilled, IsRefill, Keeps
<1> QED
  BY <1>8, <1>9

(* RootRegistry::drain puts every slot that has generations left on the     *)
(* stack, once.                                                            *)
LEMMA RefilledIsExact ==
  ASSUME slots \in Seq(Slot)
  PROVE  /\ Refilled \in Seq(1 .. Len(slots)) /\ Once(Refilled)
         /\ Elems(Refilled) = {i \in 1 .. Len(slots) : Keeps(i)}
<1> DEFINE N == Len(slots)
<1>1. PICK g : IsRefill(g) /\ Refilled = g[N]
  BY RefillExists
<1>2. N \in Nat
  BY LenProperties
<1>3. \A i \in 0 .. N :
        g[i] = IF i = 0 THEN <<>> ELSE IF Keeps(i) THEN Append(g[i - 1], i) ELSE g[i - 1]
  BY <1>1, Zenon DEF IsRefill
<1> DEFINE P(i) == /\ g[i] \in Seq(1 .. N) /\ Once(g[i])
                   /\ Elems(g[i]) = {j \in 1 .. i : Keeps(j)}
           Bad == {n \in Nat : n <= N /\ ~ P(n)}
<1>4. 0 \notin Bad
  <2>1. g[0] = <<>>
    BY <1>2, <1>3
  <2>2. <<>> \in Seq(1 .. N) /\ Len(<<>>) = 0
    BY EmptySeq
  <2>3. 1 .. 0 = {}
    OBVIOUS
  <2> QED
    BY <2>1, <2>2, <2>3 DEF Once, Elems
<1>5. ASSUME NEW n \in Nat, n \notin Bad
      PROVE  n + 1 \notin Bad
  <2> SUFFICES ASSUME n + 1 <= N
               PROVE  P(n + 1)
    OBVIOUS
  <2>1. /\ n \in 0 .. N /\ n + 1 \in 0 .. N /\ n + 1 \in 1 .. N /\ n <= N
        /\ n + 1 # 0 /\ (n + 1) - 1 = n /\ n + 1 \notin 1 .. n
        /\ 1 .. n + 1 = (1 .. n) \cup {n + 1}
    BY <1>2
  <2>2. P(n)
    BY <1>5, <2>1
  <2>3. g[n + 1] = IF Keeps(n + 1) THEN Append(g[n], n + 1) ELSE g[n]
    BY <1>3, <2>1
  <2>4. {j \in 1 .. n + 1 : Keeps(j)} = {j \in 1 .. n : Keeps(j)} \cup (IF Keeps(n + 1) THEN {n + 1} ELSE {})
    BY <2>1
  <2>5. CASE Keeps(n + 1)
    <3>1. g[n + 1] = Append(g[n], n + 1)
      BY <2>3, <2>5
    <3>2. n + 1 \notin Elems(g[n])
      BY <2>1, <2>2
    <3> QED
      BY <2>1, <2>2, <2>4, <2>5, <3>1, <3>2, PushElems
  <2>6. CASE ~ Keeps(n + 1)
    BY <2>2, <2>3, <2>4, <2>6
  <2> QED
    BY <2>5, <2>6
<1>6. Bad = {}
  <2>1. Bad \in SUBSET Nat
    OBVIOUS
  <2> HIDE DEF Bad
  <2> QED
    BY <1>4, <1>5, <2>1, LeastNumber
<1>7. P(N)
  BY <1>2, <1>6
<1> QED
  BY <1>1, <1>7
----------------------------------------------------------------------------
(* What RInv says about one slot. *)
LEMMA SlotFacts ==
  ASSUME RInv, NEW i \in 1 .. Len(slots)
  PROVE  /\ slots[i] \in Slot /\ SlotIsBound(i)
         /\ slots[i].generation \in 1 .. MaxGeneration /\ slots[i].release \in RootRelease
         /\ slots[i].value \in Values \cup {NoValue}
<1>1. slots[i] \in Slot
  BY LenProperties DEF RInv, RegistryTypes
<1>2. SlotIsBound(i)
  BY DEF RInv
<1> QED
  BY <1>1, <1>2 DEF Slot

(* v is in slot i under generation g, which was free or is new. *)
InsertedAs(v, i, g) ==
  /\ i \in 1 .. Limit /\ g \in 1 .. MaxGeneration /\ g # MaxGeneration
  /\ slots' \in Seq(Slot) /\ Len(slots') <= Limit
  /\ 1 .. Len(slots') = (1 .. Len(slots)) \cup {i}
  /\ slots'[i] = [generation |-> g, value |-> v, release |-> Live]
  /\ \A j \in 1 .. Len(slots) : j # i => slots'[j] = slots[j]
  /\ i \in 1 .. Len(slots) =>
       slots[i].value = NoValue /\ slots[i].release = Live /\ slots[i].generation = g
  /\ handle' = [handle EXCEPT ![v] = [slot |-> i, generation |-> g]]
  /\ free' \in Seq(1 .. Limit) /\ Once(free') /\ Elems(free') = Elems(free) \ {i}
  /\ live' = live + 1

(* RootRegistry::insert: a slot off the stack or a new one, in a generation *)
(* that no earlier handle of the slot has.                                 *)
LEMMA InsertedSlot ==
  ASSUME RInv, NEW v \in Values, Insert(v)
  PROVE  \E i, g : InsertedAs(v, i, g)
<1>0. /\ slots \in Seq(Slot) /\ Len(slots) \in Nat /\ Len(slots) <= Limit /\ Limit \in Nat
      /\ free \in Seq(1 .. Limit) /\ Once(free) /\ MaxGeneration \in Nat \ {0, 1}
      /\ Elems(free) = {i \in 1 .. Len(slots) : slots[i].value = NoValue /\ slots[i].generation # MaxGeneration}
  BY LenProperties, RootRegistryAssumption DEF RInv, RegistryTypes, StackIsExact
<1>1. CASE free # <<>>
  <2> DEFINE i == Last(free)
             g == slots[i].generation
             x == [slots[i] EXCEPT !.value = v]
  <2>1. /\ i \in Elems(free) /\ Front(free) \in Seq(1 .. Limit) /\ Once(Front(free))
        /\ Elems(Front(free)) = Elems(free) \ {i} /\ i \in 1 .. Limit
    BY <1>0, <1>1, PopElems
  <2>2. i \in 1 .. Len(slots) /\ slots[i].value = NoValue /\ g # MaxGeneration
    BY <1>0, <2>1
  <2>3. slots[i] \in Slot /\ g \in 1 .. MaxGeneration /\ slots[i].release = Live
    BY <2>2, SlotFacts DEF SlotIsBound
  <2>4. x \in Slot /\ x = [generation |-> g, value |-> v, release |-> Live]
    BY <2>3 DEF Slot
  <2>5. slots' = [slots EXCEPT ![i] = x] /\ live' = live + 1 /\ free' = Front(free)
        /\ handle' = [handle EXCEPT ![v] = [slot |-> i, generation |-> g]]
    BY <1>1 DEF Insert
  <2>6. /\ slots' \in Seq(Slot) /\ Len(slots') = Len(slots) /\ slots'[i] = x
        /\ \A j \in 1 .. Len(slots) : j # i => slots'[j] = slots[j]
    BY <1>0, <2>2, <2>4, <2>5, ExceptSeq
  <2>7. 1 .. Len(slots') = (1 .. Len(slots)) \cup {i} /\ Len(slots') <= Limit
    BY <1>0, <2>2, <2>6
  <2>8. InsertedAs(v, i, g)
    <3> HIDE DEF i, x
    <3> QED
      BY <2>1, <2>2, <2>3, <2>4, <2>5, <2>6, <2>7 DEF InsertedAs
  <2> QED
    BY <2>8
<1>2. CASE free = <<>>
  <2> DEFINE i == Len(slots) + 1
             x == [generation |-> 1, value |-> v, release |-> Live]
  <2>1. Len(slots) < Limit
    BY <1>2 DEF Insert, CanInsert
  <2>2. i \in 1 .. Limit /\ i \notin 1 .. Len(slots) /\ 1 \in 1 .. MaxGeneration /\ 1 # MaxGeneration
    BY <1>0, <2>1
  <2>3. x \in Slot
    BY <1>0, <2>2 DEF Slot, Live, RootRelease
  <2>4. /\ slots' = Append(slots, x) /\ live' = live + 1 /\ free' = free
        /\ handle' = [handle EXCEPT ![v] = [slot |-> i, generation |-> 1]]
    BY <1>2 DEF Insert
  <2>5. /\ slots' \in Seq(Slot) /\ Len(slots') = i /\ slots'[i] = x
        /\ \A j \in 1 .. Len(slots) : slots'[j] = slots[j]
    BY <1>0, <2>3, <2>4, AppendProperties
  <2>6. 1 .. Len(slots') = (1 .. Len(slots)) \cup {i} /\ Len(slots') <= Limit
    BY <1>0, <2>1, <2>5
  <2>7. Elems(free) = Elems(free) \ {i}
    BY <1>0, <2>2
  <2>8. InsertedAs(v, i, 1)
    <3> HIDE DEF i
    <3> QED
      BY <1>0, <2>2, <2>4, <2>5, <2>6, <2>7 DEF InsertedAs
  <2> QED
    BY <2>8
<1> QED
  BY <1>1, <1>2

(* RootRegistry::remove: the slot's next generation is not the handle's,    *)
(* and a slot that has run out of them is not put back on the stack.        *)
LEMMA RemovedSlot ==
  ASSUME RInv, NEW i \in 1 .. Len(slots), slots[i].value # NoValue, RemoveRoot(i)
  PROVE  /\ slots' \in Seq(Slot) /\ Len(slots') = Len(slots) /\ slots'[i].release = Live
         /\ slots'[i] = [generation |-> slots[i].generation + 1, value |-> NoValue, release |-> Live]
         /\ slots[i].generation + 1 \in 1 .. MaxGeneration
         /\ \A j \in 1 .. Len(slots) : j # i => slots'[j] = slots[j]
         /\ free' \in Seq(1 .. Limit) /\ Once(free')
         /\ Elems(free') = Elems(free) \cup (IF slots[i].generation + 1 # MaxGeneration THEN {i} ELSE {})
         /\ live' = live - 1
         /\ unprotects' = [unprotects EXCEPT ![slots[i].value] = unprotects[slots[i].value] + 1]
<1>0. /\ slots \in Seq(Slot) /\ Len(slots) \in Nat /\ Len(slots) <= Limit /\ Limit \in Nat
      /\ free \in Seq(1 .. Limit) /\ Once(free) /\ MaxGeneration \in Nat \ {0, 1}
      /\ Elems(free) = {j \in 1 .. Len(slots) : slots[j].value = NoValue /\ slots[j].generation # MaxGeneration}
  BY LenProperties, RootRegistryAssumption DEF RInv, RegistryTypes, StackIsExact
<1>1. slots[i].generation \in 1 .. MaxGeneration /\ slots[i].generation # MaxGeneration
  BY SlotFacts DEF SlotIsBound
<1> DEFINE g == slots[i].generation + 1
           x == [generation |-> g, value |-> NoValue, release |-> Live]
<1>2. g \in 1 .. MaxGeneration /\ NextGeneration(slots[i].generation) = g
  BY <1>0, <1>1 DEF NextGeneration
<1>3. x \in Slot
  BY <1>0, <1>2 DEF Slot, Live, RootRelease
<1>4. /\ slots' = [slots EXCEPT ![i] = x] /\ live' = live - 1
      /\ free' = IF g # MaxGeneration THEN Append(free, i) ELSE free
      /\ unprotects' = [unprotects EXCEPT ![slots[i].value] = unprotects[slots[i].value] + 1]
  BY <1>2 DEF RemoveRoot
<1>5. /\ slots' \in Seq(Slot) /\ Len(slots') = Len(slots) /\ slots'[i] = x
      /\ \A j \in 1 .. Len(slots) : j # i => slots'[j] = slots[j]
  BY <1>0, <1>3, <1>4, ExceptSeq
<1>6. /\ free' \in Seq(1 .. Limit) /\ Once(free')
      /\ Elems(free') = Elems(free) \cup (IF g # MaxGeneration THEN {i} ELSE {})
  <2>1. i \notin Elems(free) /\ i \in 1 .. Limit
    BY <1>0
  <2>2. CASE g # MaxGeneration
    BY <1>0, <1>4, <2>1, <2>2, PushElems
  <2>3. CASE g = MaxGeneration
    BY <1>0, <1>4, <2>3
  <2> QED
    BY <2>2, <2>3
<1> QED
  BY <1>2, <1>4, <1>5, <1>6

(* The occupied slots are finitely many. *)
LEMMA OccupiedIsFinite ==
  ASSUME RegistryTypes
  PROVE  IsFiniteSet(Occupied) /\ Cardinality(Occupied) \in Nat /\ Cardinality(Occupied) <= Len(slots)
<1>1. Len(slots) \in Nat
  BY LenProperties DEF RegistryTypes
<1>2. IsFiniteSet(1 .. Len(slots)) /\ Cardinality(1 .. Len(slots)) = Len(slots)
  <2>1. 1 \in Int /\ Len(slots) \in Int /\ Len(slots) - 1 + 1 = Len(slots) /\ (1 > Len(slots) => Len(slots) = 0)
    BY <1>1
  <2> QED
    BY <2>1, FS_Interval
<1>3. Occupied \in SUBSET (1 .. Len(slots))
  BY DEF Occupied
<1> QED
  BY <1>2, <1>3, FS_Subset, FS_CardinalityType

(* Context::persist and RootBackend::persist. *)
LEMMA PersistKeeps ==
  ASSUME RInv, NEW v \in Values, NEW k \in {"lease", "copy"}, Persist(v, k)
  PROVE  RInv'
<1>1. PICK i, g : InsertedAs(v, i, g)
  BY InsertedSlot DEF Persist
<1>2. /\ entry = "inside" /\ handle[v] = NoId /\ kind' = [kind EXCEPT ![v] = k]
      /\ UNCHANGED <<pending_head, pending, entry, queued, unprotects>>
  BY DEF Persist
<1>3. RegistryTypes /\ v # NoValue /\ Len(slots) \in Nat /\ Limit \in Nat /\ MaxGeneration \in Nat
  BY RootRegistryAssumption, LenProperties DEF RInv, RegistryTypes
<1>4. RegistryTypes'
  BY <1>1, <1>2, <1>3 DEF RegistryTypes, InsertedAs, Ids
<1>5. i \notin Occupied /\ Occupied' = Occupied \cup {i}
  BY <1>1, <1>3 DEF InsertedAs, Occupied
<1>6. StackIsExact'
  <2>1. Cardinality(Occupied') = Cardinality(Occupied) + 1
    BY <1>3, <1>5, OccupiedIsFinite, FS_AddElement
  <2>2. Elems(free') = {j \in 1 .. Len(slots') : slots'[j].value = NoValue /\ slots'[j].generation # MaxGeneration}
    BY <1>1, <1>3 DEF RInv, StackIsExact, InsertedAs
  <2> QED
    BY <1>1, <2>1, <2>2 DEF RInv, StackIsExact, InsertedAs
<1>7. ListIsExact'
  <2>1. {j \in 1 .. Len(slots') : slots'[j].release # Live} = {j \in 1 .. Len(slots) : slots[j].release # Live}
    BY <1>1 DEF InsertedAs
  <2>2. ASSUME NEW n \in 1 .. Len(queued)
        PROVE  slots'[queued[n]] = slots[queued[n]]
    <3>1. queued[n] \in {j \in 1 .. Len(slots) : slots[j].release # Live}
      BY DEF RInv, ListIsExact, Elems
    <3> QED
      BY <1>1, <3>1 DEF InsertedAs
  <2> QED
    BY <1>2, <2>1, <2>2 DEF RInv, ListIsExact
<1>8. ASSUME NEW j \in 1 .. Len(slots')
      PROVE  SlotIsBound(j)'
  <2>1. CASE j = i
    BY <1>1, <1>3, <2>1 DEF InsertedAs, SlotIsBound, RegistryTypes
  <2>2. CASE j # i
    <3>1. j \in 1 .. Len(slots) /\ slots'[j] = slots[j] /\ SlotIsBound(j)
      BY <1>1, <1>8, <2>2 DEF InsertedAs, RInv
    <3>2. slots[j].value # v
      <4> SUFFICES ASSUME slots[j].value = v
                   PROVE  FALSE
        OBVIOUS
      <4>1. handle[v].slot = j
        BY <1>3, <3>1 DEF SlotIsBound
      <4> QED
        BY <1>2, <1>3, <3>1, <4>1 DEF NoId
    <3> QED
      BY <1>1, <3>1, <3>2 DEF InsertedAs, SlotIsBound
  <2> QED
    BY <2>1, <2>2
<1>9. ASSUME NEW w \in Values
      PROVE  HandleIsBound(w)'
  <2>1. CASE w = v
    <3>1. handle'[v] = [slot |-> i, generation |-> g] /\ handle'[v] # NoId
      BY <1>1, <1>3 DEF InsertedAs, RegistryTypes, NoId
    <3>2. i \in 1 .. Len(slots') /\ slots'[i].generation = g /\ slots'[i].value = v /\ slots'[i].release = Live
      BY <1>1 DEF InsertedAs
    <3>3. unprotects'[v] = 0
      BY <1>2 DEF RInv, HandleIsBound
    <3>4. g < MaxGeneration /\ g <= g
      BY <1>1, <1>3 DEF InsertedAs
    <3>5. \E j \in 1 .. Len(slots') : slots'[j].value = v
      BY <3>2
    <3> QED
      BY <2>1, <3>1, <3>2, <3>3, <3>4, <3>5 DEF HandleIsBound
  <2>2. CASE w # v
    <3>1. handle'[w] = handle[w] /\ kind'[w] = kind[w] /\ unprotects'[w] = unprotects[w]
      BY <1>1, <1>2, <1>3, <2>2 DEF InsertedAs, RegistryTypes
    <3>2. HandleIsBound(w) /\ w # NoValue
      BY RootRegistryAssumption DEF RInv
    <3>3. CASE handle[w] = NoId
      BY <3>1, <3>2, <3>3 DEF HandleIsBound
    <3>4. CASE handle[w] # NoId
      <4>1. handle[w].slot \in 1 .. Len(slots) /\ handle[w].slot \in 1 .. Len(slots')
        BY <1>1, <3>2, <3>4 DEF HandleIsBound, InsertedAs
      <4>2. slots'[handle[w].slot].generation = slots[handle[w].slot].generation
        BY <1>1, <4>1 DEF InsertedAs
      <4>3. slots[handle[w].slot].value = w => slots'[handle[w].slot] = slots[handle[w].slot]
        BY <1>1, <3>2, <4>1 DEF InsertedAs
      <4>4. (\E j \in 1 .. Len(slots') : slots'[j].value = w) <=> (\E j \in 1 .. Len(slots) : slots[j].value = w)
        <5>1. slots'[i].value # w /\ (i \in 1 .. Len(slots) => slots[i].value # w)
          BY <1>1, <2>2, <3>2 DEF InsertedAs
        <5>2. ASSUME NEW j \in 1 .. Len(slots)
              PROVE  slots'[j].value = w <=> slots[j].value = w
          BY <1>1, <5>1 DEF InsertedAs
        <5>3. 1 .. Len(slots') = (1 .. Len(slots)) \cup {i}
          BY <1>1 DEF InsertedAs
        <5> QED
          BY <5>1, <5>2, <5>3, Zenon
      <4> QED
        BY <1>2, <3>1, <3>2, <3>4, <4>1, <4>2, <4>3, <4>4 DEF HandleIsBound
    <3> QED
      BY <3>3, <3>4
  <2> QED
    BY <2>1, <2>2
<1> QED
  BY <1>2, <1>4, <1>6, <1>7, <1>8, <1>9 DEF RInv

(* RootRegistry::remove, whoever asks for it: all but the list. *)
LEMMA RemoveKeeps ==
  ASSUME RInv, NEW i \in 1 .. Len(slots), slots[i].value # NoValue,
         kind[slots[i].value] # "lease", RemoveRoot(i), UNCHANGED <<entry, handle, kind>>
  PROVE  /\ (queued' \in Seq(1 .. Limit) => RegistryTypes') /\ StackIsExact'
         /\ \A j \in 1 .. Len(slots') : SlotIsBound(j)'
         /\ \A w \in Values : HandleIsBound(w)'
         /\ (entry = "destroyed" => Occupied = {})'
<1> DEFINE u == slots[i].value
           g == slots[i].generation
<1>1. /\ slots' \in Seq(Slot) /\ Len(slots') = Len(slots)
      /\ slots'[i] = [generation |-> g + 1, value |-> NoValue, release |-> Live]
      /\ g + 1 \in 1 .. MaxGeneration
      /\ \A j \in 1 .. Len(slots) : j # i => slots'[j] = slots[j]
      /\ free' \in Seq(1 .. Limit) /\ Once(free')
      /\ Elems(free') = Elems(free) \cup (IF g + 1 # MaxGeneration THEN {i} ELSE {})
      /\ live' = live - 1
      /\ unprotects' = [unprotects EXCEPT ![u] = unprotects[u] + 1]
  BY RemovedSlot
<1>2. /\ RegistryTypes /\ Len(slots) \in Nat /\ Limit \in Nat /\ MaxGeneration \in Nat
      /\ u \in Values /\ g \in 1 .. MaxGeneration /\ slots[i] \in Slot /\ SlotIsBound(i)
  BY SlotFacts, RootRegistryAssumption, LenProperties DEF RInv, RegistryTypes
<1>3. handle[u] = [slot |-> i, generation |-> g] /\ handle[u] # NoId /\ g # MaxGeneration
  BY <1>2 DEF SlotIsBound, NoId
<1>4. unprotects[u] = 0
  BY <1>2, <1>3 DEF RInv, HandleIsBound
<1>5. unprotects' = [unprotects EXCEPT ![u] = 1]
  BY <1>1, <1>4
<1>6. queued' \in Seq(1 .. Limit) => RegistryTypes'
  BY <1>1, <1>2, <1>5 DEF RegistryTypes
<1>7. i \in Occupied /\ Occupied' = Occupied \ {i}
  BY <1>1, <1>2 DEF Occupied
<1>8. StackIsExact'
  <2>1. Cardinality(Occupied') = Cardinality(Occupied) - 1
    BY <1>2, <1>7, OccupiedIsFinite, FS_RemoveElement
  <2>2. Elems(free') = {j \in 1 .. Len(slots') : slots'[j].value = NoValue /\ slots'[j].generation # MaxGeneration}
    <3>1. Elems(free) = {j \in 1 .. Len(slots) : slots[j].value = NoValue /\ slots[j].generation # MaxGeneration}
      BY DEF RInv, StackIsExact
    <3>2. ASSUME NEW j \in 1 .. Len(slots)
          PROVE  j \in Elems(free') <=> slots'[j].value = NoValue /\ slots'[j].generation # MaxGeneration
      <4>1. CASE j = i
        BY <1>1, <3>1, <4>1
      <4>2. CASE j # i
        BY <1>1, <3>1, <4>2
      <4> QED
        BY <4>1, <4>2
    <3>3. Elems(free') \subseteq 1 .. Len(slots)
      BY <1>1, <3>1
    <3> QED
      BY <1>1, <3>2, <3>3
  <2> QED
    BY <1>1, <2>1, <2>2 DEF RInv, StackIsExact
<1>9. ASSUME NEW j \in 1 .. Len(slots')
      PROVE  SlotIsBound(j)'
  <2>1. CASE j = i
    BY <1>1, <2>1 DEF SlotIsBound
  <2>2. CASE j # i
    BY <1>1, <2>2 DEF SlotIsBound, RInv
  <2> QED
    BY <2>1, <2>2
<1>10. ASSUME NEW w \in Values
       PROVE  HandleIsBound(w)'
  <2>0. w # NoValue /\ HandleIsBound(w) /\ handle'[w] = handle[w] /\ kind'[w] = kind[w] /\ entry' = entry
    BY RootRegistryAssumption DEF RInv
  <2>1. CASE w = u
    <3>1. \A j \in 1 .. Len(slots') : slots'[j].value # u
      <4>1. slots'[i].value # u
        BY <1>1, <1>2, RootRegistryAssumption
      <4>2. ASSUME NEW j \in 1 .. Len(slots), j # i
            PROVE  slots[j].value # u
        <5>1. SlotIsBound(j)
          BY DEF RInv
        <5> QED
          BY <1>2, <1>3, <4>2, <5>1 DEF SlotIsBound
      <4> QED
        BY <1>1, <4>1, <4>2
    <3>2. unprotects'[u] = 1
      BY <1>2, <1>5 DEF RegistryTypes
    <3>3. slots'[i].generation = g + 1 /\ g <= g + 1 /\ g < MaxGeneration /\ g # g + 1
      BY <1>1, <1>2, <1>3
    <3> HIDE DEF u, g
    <3> QED
      BY <1>1, <1>3, <2>0, <2>1, <3>1, <3>2, <3>3 DEF HandleIsBound, u
  <2>2. CASE w # u
    <3>1. unprotects'[w] = unprotects[w]
      BY <1>2, <1>5, <2>2 DEF RegistryTypes
    <3>2. CASE handle[w] = NoId
      BY <2>0, <3>1, <3>2 DEF HandleIsBound
    <3>3. CASE handle[w] # NoId
      <4> DEFINE h == handle[w].slot
      <4>1. h \in 1 .. Len(slots) /\ h \in 1 .. Len(slots') /\ handle[w].generation \in 0 .. MaxGeneration
        BY <1>1, <1>2, <2>0, <3>3 DEF HandleIsBound, RegistryTypes, Ids
      <4>2. (\E j \in 1 .. Len(slots') : slots'[j].value = w) <=> (\E j \in 1 .. Len(slots) : slots[j].value = w)
        <5>1. ASSUME NEW j \in 1 .. Len(slots)
              PROVE  slots'[j].value = w <=> slots[j].value = w
          BY <1>1, <2>0, <2>2
        <5> QED
          BY <1>1, <5>1
      <4>3. CASE h # i
        <5>1. slots'[h] = slots[h]
          BY <1>1, <4>1, <4>3
        <5> QED
          BY <2>0, <3>1, <3>3, <4>1, <4>2, <5>1 DEF HandleIsBound
      <4>4. CASE h = i
        <5>1. /\ handle[w].generation <= g /\ handle[w].generation < MaxGeneration
              /\ handle[w].generation # g /\ ~ (kind[w] = "lease" /\ entry # "destroyed")
          BY <2>0, <2>2, <3>3, <4>4 DEF HandleIsBound
        <5>2. /\ slots'[h].generation = g + 1 /\ handle[w].generation <= g + 1
              /\ handle[w].generation # g + 1
          BY <1>1, <1>2, <4>1, <4>4, <5>1
        <5> QED
          BY <2>0, <3>1, <3>3, <4>1, <4>2, <5>1, <5>2 DEF HandleIsBound
      <4> QED
        BY <4>3, <4>4
    <3> QED
      BY <3>2, <3>3
  <2> QED
    BY <2>1, <2>2
<1>11. (entry = "destroyed" => Occupied = {})'
  BY <1>7 DEF RInv
<1> QED
  BY <1>6, <1>8, <1>9, <1>10, <1>11

(* RootRegistry::get resolves a handle to its own value or to nothing. *)
LEMMA GetIsBound ==
  ASSUME RInv, NEW v \in Values, handle[v] # NoId
  PROVE  /\ Get(handle[v]) \in {v, NoValue}
         /\ Get(handle[v]) # NoValue =>
              /\ handle[v].slot \in 1 .. Len(slots) /\ slots[handle[v].slot].value = v
              /\ slots[handle[v].slot].release = Live
         /\ kind[v] = "lease" /\ entry # "destroyed" => Get(handle[v]) = v
<1>1. HandleIsBound(v) /\ v # NoValue
  BY RootRegistryAssumption DEF RInv
<1> DEFINE h == handle[v].slot
<1>2. DOMAIN slots = 1 .. Len(slots) /\ h \in 1 .. Len(slots)
  BY <1>1, LenProperties DEF RInv, RegistryTypes, HandleIsBound
<1>3. handle[v].generation = slots[h].generation => slots[h].value = v
  BY <1>1 DEF HandleIsBound
<1>4. slots[h].value = v => handle[v].generation = slots[h].generation
  <2>1. SlotIsBound(h)
    BY <1>2 DEF RInv
  <2> QED
    BY <1>1, <2>1 DEF SlotIsBound
<1>5. kind[v] = "lease" /\ entry # "destroyed" => slots[h].value = v /\ slots[h].release = Live
  BY <1>1 DEF HandleIsBound
<1> QED
  BY <1>1, <1>2, <1>3, <1>4, <1>5 DEF Get

(* RootBackend::release of a copied handle that is not stale. *)
LEMMA ReleaseKeeps ==
  ASSUME RInv, NEW v \in Values, Release(v)
  PROVE  RInv'
<1> DEFINE i == handle[v].slot
<1>1. /\ kind[v] = "copy" /\ Get(handle[v]) # NoValue /\ RemoveRoot(i)
      /\ UNCHANGED <<pending_head, pending, entry, handle, kind, queued>>
  BY DEF Release
<1>2. handle[v] # NoId
  BY <1>1 DEF RInv, HandleIsBound
<1>3. i \in 1 .. Len(slots) /\ slots[i].value = v /\ slots[i].release = Live /\ v # NoValue
  BY <1>1, <1>2, GetIsBound, RootRegistryAssumption
<1>4. /\ (queued' \in Seq(1 .. Limit) => RegistryTypes') /\ StackIsExact'
      /\ \A j \in 1 .. Len(slots') : SlotIsBound(j)'
      /\ \A w \in Values : HandleIsBound(w)'
      /\ (entry = "destroyed" => Occupied = {})'
  BY <1>1, <1>3, RemoveKeeps
<1>5. RegistryTypes'
  BY <1>1, <1>4 DEF RInv, RegistryTypes
<1>6. ListIsExact'
  <2>1. /\ Len(slots') = Len(slots) /\ slots'[i].release = Live
        /\ \A j \in 1 .. Len(slots) : j # i => slots'[j] = slots[j]
    BY <1>1, <1>3, RemovedSlot
  <2>2. {j \in 1 .. Len(slots') : slots'[j].release # Live} = {j \in 1 .. Len(slots) : slots[j].release # Live}
    BY <1>3, <2>1
  <2>3. ASSUME NEW n \in 1 .. Len(queued)
        PROVE  slots'[queued[n]].release = slots[queued[n]].release
    <3>1. queued[n] \in {j \in 1 .. Len(slots) : slots[j].release # Live}
      BY DEF RInv, ListIsExact, Elems
    <3> QED
      BY <1>3, <2>1, <3>1
  <2> QED
    BY <1>1, <2>2, <2>3 DEF RInv, ListIsExact
<1> QED
  BY <1>4, <1>5, <1>6 DEF RInv

(* RootRegistry::take_pending never meets a live slot, and the next head is *)
(* the slot queued before it.                                              *)
LEMMA TakePendingKeeps ==
  ASSUME RInv, TakePending
  PROVE  RInv'
<1> DEFINE i == pending_head
<1>1. /\ pending_head # 0 /\ pending_head' = slots[i].release.next /\ pending' = pending - 1
      /\ RemoveRoot(i) /\ queued' = Front(queued) /\ UNCHANGED <<entry, handle, kind>>
      /\ entry # "destroyed"
  BY DEF TakePending
<1>2. ListIsExact /\ queued \in Seq(1 .. Limit) /\ queued # <<>> /\ Once(queued) /\ i = queued[Len(queued)]
  BY <1>1 DEF RInv, ListIsExact, RegistryTypes
<1>3. /\ Front(queued) \in Seq(1 .. Limit) /\ Len(queued) \in Nat \ {0} /\ Len(Front(queued)) = Len(queued) - 1
      /\ i \in Elems(queued) /\ \A n \in 1 .. Len(queued) - 1 : Front(queued)[n] = queued[n]
      /\ Elems(Front(queued)) = Elems(queued) \ {i} /\ Once(Front(queued))
  BY <1>2, PopElems
<1>4. i \in 1 .. Len(slots) /\ slots[i].release # Live
  BY <1>2, <1>3 DEF ListIsExact
<1>5. slots[i].value # NoValue /\ slots[i].value \in Values /\ handle[slots[i].value].slot = i
  <2>1. slots[i].value # NoValue /\ slots[i].value \in Values \cup {NoValue}
    BY <1>4, SlotFacts DEF SlotIsBound
  <2>2. handle[slots[i].value] = [slot |-> i, generation |-> slots[i].generation]
    BY <1>4, <2>1, SlotFacts DEF SlotIsBound
  <2> QED
    BY <2>1, <2>2
<1>6. kind[slots[i].value] # "lease"
  <2>1. handle[slots[i].value] # NoId
    BY <1>4, <1>5, LenProperties DEF NoId, RInv, RegistryTypes
  <2> QED
    BY <1>1, <1>4, <1>5, <2>1 DEF RInv, HandleIsBound
<1>7. /\ (queued' \in Seq(1 .. Limit) => RegistryTypes') /\ StackIsExact'
      /\ \A j \in 1 .. Len(slots') : SlotIsBound(j)'
      /\ \A w \in Values : HandleIsBound(w)'
      /\ (entry = "destroyed" => Occupied = {})'
  BY <1>1, <1>4, <1>5, <1>6, RemoveKeeps
<1>8. RegistryTypes'
  BY <1>1, <1>3, <1>7
<1>9. ListIsExact'
  <2>1. /\ Len(slots') = Len(slots) /\ slots'[i].release = Live
        /\ \A j \in 1 .. Len(slots) : j # i => slots'[j] = slots[j]
    BY <1>1, <1>4, <1>5, RemovedSlot
  <2>2. Elems(queued') = {j \in 1 .. Len(slots') : slots'[j].release # Live}
    BY <1>1, <1>2, <1>3, <2>1 DEF ListIsExact
  <2>3. pending' = Len(queued') /\ Once(queued')
    BY <1>1, <1>2, <1>3 DEF ListIsExact
  <2>4. slots[i].release = Pending(IF Len(queued) = 1 THEN 0 ELSE queued[Len(queued) - 1])
    BY <1>2, <1>3 DEF ListIsExact
  <2>5. pending_head' = IF queued' = <<>> THEN 0 ELSE queued'[Len(queued')]
    <3>1. CASE Len(queued) = 1
      <4>1. queued' = <<>>
        BY <1>1, <1>3, <3>1, EmptySeq
      <4> QED
        BY <1>1, <2>4, <3>1, <4>1 DEF Pending
    <3>2. CASE Len(queued) # 1
      <4>1. queued' # <<>> /\ Len(queued') \in 1 .. Len(queued) - 1 /\ Len(queued') = Len(queued) - 1
        BY <1>1, <1>3, <3>2, EmptySeq
      <4>2. queued'[Len(queued')] = queued[Len(queued) - 1]
        BY <1>1, <1>3, <4>1
      <4> QED
        BY <1>1, <2>4, <3>2, <4>1, <4>2 DEF Pending
    <3> QED
      BY <3>1, <3>2
  <2>6. ASSUME NEW n \in 1 .. Len(queued')
        PROVE  slots'[queued'[n]].release = Pending(IF n = 1 THEN 0 ELSE queued'[n - 1])
    <3>1. /\ n \in 1 .. Len(queued) - 1 /\ n \in 1 .. Len(queued) /\ n # Len(queued)
          /\ (n # 1 => n - 1 \in 1 .. Len(queued) - 1)
      BY <1>1, <1>3, <2>6
    <3>2. queued'[n] = queued[n] /\ (n # 1 => queued'[n - 1] = queued[n - 1])
      BY <1>1, <1>3, <3>1
    <3>3. queued[n] # i /\ queued[n] \in Elems(queued)
      BY <1>2, <1>3, <3>1 DEF Once, Elems
    <3>4. slots'[queued[n]] = slots[queued[n]]
      BY <1>2, <2>1, <3>3 DEF ListIsExact
    <3>5. slots[queued[n]].release = Pending(IF n = 1 THEN 0 ELSE queued[n - 1])
      BY <1>2, <3>1 DEF ListIsExact
    <3> QED
      BY <3>2, <3>4, <3>5
  <2> QED
    BY <2>2, <2>3, <2>5, <2>6 DEF ListIsExact
<1> QED
  BY <1>7, <1>8, <1>9 DEF RInv

(* RootLease::drop, in an entry, between entries and after teardown. *)
LEMMA DropLeaseKeeps ==
  ASSUME RInv, NEW v \in Values, DropLease(v)
  PROVE  RInv'
<1> DEFINE i == handle[v].slot
<1>1. kind[v] = "lease" /\ kind' = [kind EXCEPT ![v] = "none"] /\ UNCHANGED <<free, live, entry, handle, unprotects>>
  BY DEF DropLease
<1>2. handle[v] # NoId /\ RegistryTypes
  BY <1>1 DEF RInv, HandleIsBound
<1>3. CASE entry = "destroyed"
  <2>1. UNCHANGED <<slots, pending_head, pending, queued>>
    BY <1>3 DEF DropLease
  <2>2. RegistryTypes' /\ StackIsExact' /\ ListIsExact' /\ Occupied' = {}
    BY <1>1, <1>2, <1>3, <2>1 DEF RInv, RegistryTypes, StackIsExact, ListIsExact, Occupied
  <2>3. \A j \in 1 .. Len(slots') : SlotIsBound(j)'
    BY <1>1, <2>1 DEF RInv, SlotIsBound
  <2>4. ASSUME NEW w \in Values
        PROVE  HandleIsBound(w)'
    <3>1. HandleIsBound(w) /\ kind'[w] \in {kind[w], "none"} /\ entry' = "destroyed"
      BY <1>1, <1>2, <1>3 DEF RInv, RegistryTypes
    <3> QED
      BY <1>1, <2>1, <3>1 DEF HandleIsBound
  <2> QED
    BY <2>2, <2>3, <2>4 DEF RInv
<1>4. CASE entry # "destroyed"
  <2> DEFINE x == [slots[i] EXCEPT !.release = Pending(pending_head)]
  <2>1. Get(handle[v]) = v /\ v # NoValue
    BY <1>1, <1>2, <1>4, GetIsBound, RootRegistryAssumption
  <2>2. i \in 1 .. Len(slots) /\ slots[i].value = v /\ slots[i].release = Live
    BY <1>2, <2>1, GetIsBound
  <2>3. /\ slots' = [slots EXCEPT ![i] = x]
        /\ pending_head' = i /\ pending' = pending + 1 /\ queued' = Append(queued, i)
    BY <1>4, <2>1 DEF DropLease, Requested
  <2>4. ListIsExact /\ Once(queued) /\ queued \in Seq(1 .. Limit) /\ slots \in Seq(Slot) /\ Len(slots) <= Limit
        /\ Limit \in Nat /\ Len(slots) \in Nat /\ Len(queued) \in Nat
    BY RootRegistryAssumption, LenProperties DEF RInv, RegistryTypes, ListIsExact
  <2>5. pending_head \in 0 .. Limit
    <3>1. CASE queued = <<>>
      BY <2>4, <3>1 DEF ListIsExact
    <3>2. CASE queued # <<>>
      <4>1. queued[Len(queued)] \in 1 .. Limit
        BY <2>4, <3>2, PopElems
      <4> QED
        BY <2>4, <3>2, <4>1 DEF ListIsExact
    <3> QED
      BY <3>1, <3>2
  <2>6. slots[i] \in Slot /\ Pending(pending_head) \in RootRelease /\ Pending(pending_head) # Live
    BY <2>2, <2>5, SlotFacts DEF Pending, RootRelease, Live
  <2>7. /\ x \in Slot /\ x.value = v /\ x.generation = slots[i].generation
        /\ x.release = Pending(pending_head)
    BY <2>2, <2>6 DEF Slot
  <2> HIDE DEF x
  <2>8. /\ slots' \in Seq(Slot) /\ Len(slots') = Len(slots) /\ slots'[i] = x
        /\ \A j \in 1 .. Len(slots) : j # i => slots'[j] = slots[j]
    BY <2>2, <2>3, <2>4, <2>7, ExceptSeq
  <2>9. \A j \in 1 .. Len(slots) : slots'[j].value = slots[j].value /\ slots'[j].generation = slots[j].generation
    BY <2>2, <2>7, <2>8
  <2>10. i \notin Elems(queued) /\ i \in 1 .. Limit
    BY <2>2, <2>4 DEF ListIsExact
  <2>11. /\ queued' \in Seq(1 .. Limit) /\ queued' # <<>>
         /\ Len(queued') = Len(queued) + 1 /\ queued'[Len(queued) + 1] = i
         /\ \A n \in 1 .. Len(queued) : queued'[n] = queued[n]
         /\ Elems(queued') = Elems(queued) \cup {i} /\ Once(queued')
    BY <2>3, <2>4, <2>10, PushElems
  <2>12. RegistryTypes'
    BY <1>1, <1>2, <2>8, <2>11 DEF RegistryTypes
  <2>13. Occupied' = Occupied
    BY <2>8, <2>9 DEF Occupied
  <2>14. StackIsExact'
    BY <1>1, <2>8, <2>9, <2>13 DEF RInv, StackIsExact
  <2>15. ListIsExact'
    <3>1. Elems(queued') = {j \in 1 .. Len(slots') : slots'[j].release # Live}
      BY <2>2, <2>4, <2>6, <2>7, <2>8, <2>11 DEF ListIsExact
    <3>2. ASSUME NEW n \in 1 .. Len(queued')
          PROVE  slots'[queued'[n]].release = Pending(IF n = 1 THEN 0 ELSE queued'[n - 1])
      <4>1. CASE n = Len(queued) + 1
        <5>1. slots'[queued'[n]].release = Pending(pending_head)
          BY <2>7, <2>8, <2>11, <4>1
        <5>2. CASE n = 1
          <6>1. queued = <<>>
            BY <2>4, <4>1, <5>2, EmptySeq
          <6> QED
            BY <2>4, <5>1, <5>2, <6>1 DEF ListIsExact
        <5>3. CASE n # 1
          <6>1. queued # <<>> /\ n - 1 = Len(queued) /\ n - 1 \in 1 .. Len(queued)
            BY <2>4, <4>1, <5>3, EmptySeq
          <6> QED
            BY <2>4, <2>11, <5>1, <5>3, <6>1 DEF ListIsExact
        <5> QED
          BY <5>2, <5>3
      <4>2. CASE n # Len(queued) + 1
        <5>1. n \in 1 .. Len(queued) /\ (n # 1 => n - 1 \in 1 .. Len(queued))
          BY <2>4, <2>11, <3>2, <4>2
        <5>2. queued'[n] = queued[n] /\ (n # 1 => queued'[n - 1] = queued[n - 1])
          BY <2>11, <5>1
        <5>3. queued[n] \in Elems(queued) /\ queued[n] # i
          BY <2>10, <5>1 DEF Elems
        <5>4. slots'[queued[n]] = slots[queued[n]]
          BY <2>4, <2>8, <5>3 DEF ListIsExact
        <5>5. slots[queued[n]].release = Pending(IF n = 1 THEN 0 ELSE queued[n - 1])
          BY <2>4, <5>1 DEF ListIsExact
        <5> QED
          BY <5>2, <5>4, <5>5
      <4> QED
        BY <4>1, <4>2
    <3>3. pending' = Len(queued')
      BY <2>3, <2>4, <2>11 DEF ListIsExact
    <3> QED
      BY <2>3, <2>11, <3>1, <3>2, <3>3 DEF ListIsExact
  <2>16. ASSUME NEW j \in 1 .. Len(slots')
         PROVE  SlotIsBound(j)'
    <3>1. j \in 1 .. Len(slots) /\ SlotIsBound(j)
      BY <2>8 DEF RInv
    <3>2. slots'[j].value = slots[j].value /\ slots'[j].generation = slots[j].generation
      BY <2>9, <3>1
    <3>3. slots'[j].release # Live => slots[j].release # Live \/ j = i
      BY <2>8, <3>1
    <3> QED
      BY <1>1, <2>1, <2>2, <3>1, <3>2, <3>3 DEF SlotIsBound
  <2>17. ASSUME NEW w \in Values
         PROVE  HandleIsBound(w)'
    <3>1. HandleIsBound(w) /\ handle'[w] = handle[w] /\ unprotects'[w] = unprotects[w] /\ entry' = entry
      BY <1>1 DEF RInv
    <3>2. CASE handle[w] = NoId
      <4>1. kind'[w] = kind[w]
        BY <1>1, <1>2, <3>2 DEF RegistryTypes
      <4> QED
        BY <3>1, <3>2, <4>1 DEF HandleIsBound
    <3>3. CASE handle[w] # NoId
      <4> DEFINE h == handle[w].slot
      <4>1. h \in 1 .. Len(slots)
        BY <3>1, <3>3 DEF HandleIsBound
      <4>2. slots'[h].value = slots[h].value /\ slots'[h].generation = slots[h].generation
        BY <2>9, <4>1
      <4>3. kind'[w] = "lease" => kind[w] = "lease" /\ w # v
        BY <1>1, <1>2 DEF RegistryTypes
      <4>4. kind'[w] = "lease" => slots'[h] = slots[h]
        <5>1. kind'[w] = "lease" => slots[h].value = w
          BY <1>4, <3>1, <3>3, <4>3 DEF HandleIsBound
        <5> QED
          BY <2>2, <2>8, <4>1, <4>3, <5>1
      <4>5. (\E j \in 1 .. Len(slots') : slots'[j].value = w) <=> (\E j \in 1 .. Len(slots) : slots[j].value = w)
        BY <2>8, <2>9
      <4> QED
        BY <2>8, <3>1, <3>3, <4>1, <4>2, <4>3, <4>4, <4>5 DEF HandleIsBound
    <3> QED
      BY <3>2, <3>3
  <2> QED
    BY <1>1, <1>4, <2>12, <2>14, <2>15, <2>16, <2>17 DEF RInv
<1> QED
  BY <1>3, <1>4

(* RootRegistry::drain: every slot is emptied and moves on a generation,     *)
(* and every value that was still protected is unprotected.                  *)
LEMMA DrainKeeps ==
  ASSUME RInv, Drain
  PROVE  RInv'
<1> DEFINE N == Len(slots)
           x(i) == [generation |-> NextGeneration(slots[i].generation), value |-> NoValue, release |-> Live]
<1>1. /\ slots' = [i \in DOMAIN slots |-> x(i)] /\ free' = Refilled
      /\ pending_head' = 0 /\ live' = 0 /\ pending' = 0 /\ queued' = <<>> /\ entry' = "destroyed"
      /\ unprotects' = [v \in Values |-> IF \E i \in DOMAIN slots : slots[i].value = v
                                         THEN unprotects[v] + 1 ELSE unprotects[v]]
      /\ UNCHANGED <<handle, kind>> /\ entry = "outside"
  BY DEF Drain
<1>2. /\ RegistryTypes /\ slots \in Seq(Slot) /\ N \in Nat /\ N <= Limit /\ DOMAIN slots = 1 .. N
      /\ MaxGeneration \in Nat \ {0, 1} /\ Limit \in Nat
  BY RootRegistryAssumption, LenProperties DEF RInv, RegistryTypes
<1>3. ASSUME NEW i \in 1 .. N
      PROVE  /\ x(i) \in Slot
             /\ slots[i].generation \in 1 .. MaxGeneration
             /\ x(i).generation >= slots[i].generation
             /\ (x(i).generation = slots[i].generation => slots[i].generation = MaxGeneration)
  <2>1. slots[i].generation \in 1 .. MaxGeneration
    BY SlotFacts
  <2>2. NextGeneration(slots[i].generation) \in 1 .. MaxGeneration
    BY <1>2, <2>1 DEF NextGeneration
  <2>3. x(i) \in Slot
    BY <1>2, <2>2 DEF Slot, Live, RootRelease
  <2> QED
    BY <1>2, <2>1, <2>3 DEF NextGeneration
<1>4. slots' \in Seq(Slot) /\ Len(slots') = N /\ \A i \in 1 .. N : slots'[i] = x(i)
  <2>1. slots' \in [1 .. N -> Slot]
    BY <1>1, <1>2, <1>3
  <2>2. slots' \in Seq(Slot)
    BY <1>2, <2>1, SeqDef
  <2>3. Len(slots') = N
    BY <1>2, <2>1, <2>2, LenProperties
  <2> QED
    BY <1>1, <1>2, <2>2, <2>3
<1>5. \A i \in 1 .. N : slots'[i].value = NoValue /\ slots'[i].release = Live
                        /\ slots'[i].generation = NextGeneration(slots[i].generation)
  <2> SUFFICES ASSUME NEW i \in 1 .. N
               PROVE  /\ slots'[i].value = NoValue /\ slots'[i].release = Live
                      /\ slots'[i].generation = NextGeneration(slots[i].generation)
    OBVIOUS
  <2>1. slots'[i] = x(i)
    BY <1>4
  <2>2. x(i).value = NoValue /\ x(i).release = Live /\ x(i).generation = NextGeneration(slots[i].generation)
    OBVIOUS
  <2> HIDE DEF x
  <2> QED
    BY <2>1, <2>2
<1>6. Occupied' = {} /\ \A v \in Values : ~ \E i \in 1 .. Len(slots') : slots'[i].value = v
  BY <1>4, <1>5, RootRegistryAssumption DEF Occupied
<1>7. /\ Refilled \in Seq(1 .. N) /\ Once(Refilled) /\ Elems(Refilled) = {i \in 1 .. N : Keeps(i)}
  BY <1>2, RefilledIsExact
<1>8. free' \in Seq(1 .. Limit)
  <2>1. (1 .. N) \subseteq 1 .. Limit
    BY <1>2
  <2> QED
    BY <1>1, <1>7, <2>1, SeqMonotonic
<1>9. ASSUME NEW v \in Values
      PROVE  HandleIsBound(v)' /\ unprotects'[v] \in Nat
  <2>1. HandleIsBound(v) /\ v # NoValue /\ unprotects[v] \in Nat
    BY <1>2, RootRegistryAssumption DEF RInv, RegistryTypes
  <2>2. unprotects'[v] = IF \E i \in 1 .. N : slots[i].value = v THEN unprotects[v] + 1 ELSE unprotects[v]
    BY <1>1, <1>2
  <2>3. CASE handle[v] = NoId
    <3>1. ASSUME NEW i \in 1 .. N
          PROVE  slots[i].value # v
      <4>1. SlotIsBound(i)
        BY DEF RInv
      <4> QED
        BY <1>2, <2>1, <2>3, <4>1 DEF SlotIsBound, NoId
    <3>2. unprotects'[v] = unprotects[v]
      BY <2>2, <3>1
    <3> QED
      BY <1>1, <2>1, <2>3, <3>2 DEF HandleIsBound
  <2>4. CASE handle[v] # NoId
    <3> DEFINE h == handle[v].slot
    <3>1. /\ h \in 1 .. N /\ handle[v].generation <= slots[h].generation
          /\ handle[v].generation < MaxGeneration /\ handle[v].generation \in 0 .. MaxGeneration
      BY <1>2, <2>1, <2>4 DEF HandleIsBound, RegistryTypes, Ids
    <3>2. handle[v].generation <= slots'[h].generation /\ handle[v].generation # slots'[h].generation
      <4>1. slots[h].generation \in 1 .. MaxGeneration /\ slots'[h].generation = NextGeneration(slots[h].generation)
        BY <1>3, <1>5, <3>1
      <4> QED
        BY <1>2, <3>1, <4>1 DEF NextGeneration
    <3>3. unprotects'[v] = 1
      <4>1. unprotects[v] = IF \E i \in 1 .. N : slots[i].value = v THEN 0 ELSE 1
        BY <2>1, <2>4 DEF HandleIsBound
      <4> QED
        BY <2>2, <4>1
    <3>4. handle'[v] = handle[v] /\ entry' = "destroyed" /\ Len(slots') = N
      BY <1>1, <1>4
    <3>5. ~ \E i \in 1 .. Len(slots') : slots'[i].value = v
      BY <1>6
    <3> QED
      BY <2>4, <3>1, <3>2, <3>3, <3>4, <3>5 DEF HandleIsBound
  <2> QED
    BY <2>3, <2>4
<1>10. RegistryTypes'
  <2>1. unprotects' \in [Values -> Nat]
    BY <1>1, <1>9
  <2>2. queued' \in Seq(1 .. Limit)
    BY <1>1, EmptySeq
  <2> QED
    BY <1>1, <1>2, <1>4, <1>8, <2>1, <2>2 DEF RegistryTypes
<1>11. StackIsExact'
  <2>1. Cardinality(Occupied') = 0
    BY <1>6, FS_EmptySet
  <2>2. Elems(free') = {i \in 1 .. Len(slots') : slots'[i].value = NoValue /\ slots'[i].generation # MaxGeneration}
    BY <1>1, <1>4, <1>5, <1>7 DEF Keeps
  <2> QED
    BY <1>1, <1>7, <2>1, <2>2 DEF StackIsExact
<1>12. ListIsExact'
  <2>1. Len(queued') = 0 /\ 1 .. 0 = {}
    BY <1>1, EmptySeq
  <2> QED
    BY <1>1, <1>4, <1>5, <2>1 DEF ListIsExact, Once, Elems
<1>13. \A i \in 1 .. Len(slots') : SlotIsBound(i)'
  BY <1>4, <1>5 DEF SlotIsBound
<1> QED
  BY <1>6, <1>9, <1>10, <1>11, <1>12, <1>13 DEF RInv

(* Entering, leaving and a drain that finds the queue empty touch no root. *)
LEMMA EntryKeeps ==
  ASSUME RInv, UNCHANGED <<registryVars, handle, kind, queued, unprotects>>,
         entry' = entry \/ (entry # "destroyed" /\ entry' \in {"outside", "entering", "inside", "leaving"})
  PROVE  RInv'
<1>1. UNCHANGED <<slots, free, pending_head, live, pending, handle, kind, queued, unprotects>>
  BY DEF registryVars
<1>2. RegistryTypes' /\ StackIsExact' /\ ListIsExact'
  BY <1>1 DEF RInv, RegistryTypes, StackIsExact, ListIsExact, Occupied
<1>3. \A i \in 1 .. Len(slots') : SlotIsBound(i)'
  BY <1>1 DEF RInv, SlotIsBound
<1>4. \A v \in Values : HandleIsBound(v)'
  BY <1>1 DEF RInv, HandleIsBound
<1>5. (entry = "destroyed" => Occupied = {})'
  BY <1>1 DEF RInv, Occupied
<1> QED
  BY <1>2, <1>3, <1>4, <1>5 DEF RInv

(* A registry without slots. *)
LEMMA InitRInv ==
  ASSUME Init
  PROVE  RInv
<1>1. slots = <<>> /\ free = <<>> /\ queued = <<>> /\ Len(<<>>) = 0 /\ 1 .. 0 = {}
  BY EmptySeq DEF Init
<1>2. RegistryTypes
  BY <1>1, EmptySeq, RootRegistryAssumption DEF Init, RegistryTypes, Ids, NoId
<1>3. Occupied = {} /\ Cardinality(Occupied) = 0
  BY <1>1, FS_EmptySet DEF Occupied
<1>4. StackIsExact /\ ListIsExact
  BY <1>1, <1>3 DEF Init, StackIsExact, ListIsExact, Once, Elems
<1>5. \A v \in Values : HandleIsBound(v)
  BY DEF Init, HandleIsBound
<1> QED
  BY <1>1, <1>2, <1>3, <1>4, <1>5 DEF RInv, Init

(* Every step of the registry and of its callers keeps it exact. *)
LEMMA NextRInv ==
  ASSUME RInv, [Next]_vars
  PROVE  RInv'
<1>1. CASE UNCHANGED vars
  BY <1>1, EntryKeeps DEF vars
<1>2. CASE Enter \/ Leave \/ DrainEnds
  <2>1. /\ UNCHANGED <<registryVars, handle, kind, queued, unprotects>>
        /\ entry # "destroyed" /\ entry' \in {"outside", "entering", "inside", "leaving"}
    BY <1>2 DEF Enter, Leave, DrainEnds
  <2> QED
    BY <2>1, EntryKeeps
<1>3. CASE TakePending
  BY <1>3, TakePendingKeeps
<1>4. CASE Drain
  BY <1>4, DrainKeeps
<1>5. ASSUME NEW v \in Values, DropLease(v)
      PROVE  RInv'
  BY <1>5, DropLeaseKeeps
<1>6. ASSUME NEW v \in Values, Release(v)
      PROVE  RInv'
  BY <1>6, ReleaseKeeps
<1>7. ASSUME NEW v \in Values, NEW k \in {"lease", "copy"}, Persist(v, k)
      PROVE  RInv'
  BY <1>7, PersistKeeps
<1> QED
  BY <1>1, <1>2, <1>3, <1>4, <1>5, <1>6, <1>7 DEF Next

(* The registry stays exact in every behaviour of its callers. *)
THEOREM RootInvariant == Spec => []RInv
<1>1. Init => RInv
  BY InitRInv
<1>2. RInv /\ [Next]_vars => RInv'
  BY NextRInv
<1> QED
  BY <1>1, <1>2, PTL DEF Spec

(* What the registry promises follows from how slots and handles are bound. *)
LEMMA BoundIsExact ==
  ASSUME RInv
  PROVE  RegistryIsExact /\ ProtectionIsBalanced
<1>1. /\ RegistryTypes /\ Limit \in Nat /\ Len(slots) \in Nat /\ DOMAIN slots = 1 .. Len(slots)
      /\ DOMAIN free = 1 .. Len(free) /\ DOMAIN queued = 1 .. Len(queued) /\ Len(slots) <= Limit
      /\ free \in Seq(1 .. Limit) /\ queued \in Seq(1 .. Limit) /\ Len(queued) \in Nat
  BY RootRegistryAssumption, LenProperties DEF RInv, RegistryTypes
<1>2. Occupied = {i \in DOMAIN slots : slots[i].value # NoValue}
  BY <1>1 DEF Occupied
<1>3. {queued[n] : n \in DOMAIN queued} = Elems(queued) /\ {free[n] : n \in DOMAIN free} = Elems(free)
  BY <1>1 DEF Elems
<1>4. TypeOK
  <2>1. live \in 0 .. Limit
    BY <1>1, OccupiedIsFinite DEF RInv, StackIsExact
  <2>2. pending \in 0 .. Limit
    <3>1. Elems(queued) \subseteq 1 .. Limit
      BY <1>1 DEF RInv, ListIsExact
    <3> QED
      BY <1>1, <3>1, OnceFits DEF RInv, ListIsExact
  <2>3. pending_head \in 0 .. Limit
    <3>1. CASE queued = <<>>
      BY <1>1, <3>1 DEF RInv, ListIsExact
    <3>2. CASE queued # <<>>
      <4>1. queued[Len(queued)] \in 1 .. Limit
        BY <1>1, <3>2, PopElems DEF RInv, ListIsExact
      <4> QED
        BY <1>1, <3>2, <4>1 DEF RInv, ListIsExact
    <3> QED
      BY <3>1, <3>2
  <2> QED
    BY <1>1, <2>1, <2>2, <2>3 DEF TypeOK, RegistryTypes, Slot, RootRelease
<1>5. PendingListIsExact
  <2>1. queued # <<>> => Last(queued) = queued[Len(queued)]
    BY DEF Last
  <2> QED
    BY <1>1, <1>3, <2>1 DEF RInv, ListIsExact, PendingListIsExact
<1>6. CapacityIsExact
  <2>1. Len(free) = Cardinality(Elems(free))
    BY <1>1, OnceCounts DEF RInv, StackIsExact
  <2> QED
    BY <1>1, <1>2, <1>3, <2>1 DEF RInv, StackIsExact, CapacityIsExact
<1>7. HandlesNeverAlias
  BY GetIsBound DEF HandlesNeverAlias
<1>8. ASSUME NEW v \in Values
      PROVE  /\ unprotects[v] <= 1
             /\ handle[v] # NoId => (unprotects[v] = 0 <=> \E i \in DOMAIN slots : slots[i].value = v)
             /\ entry = "destroyed" /\ handle[v] # NoId => unprotects[v] = 1
  <2>1. HandleIsBound(v) /\ v # NoValue
    BY RootRegistryAssumption DEF RInv
  <2>2. CASE handle[v] = NoId
    BY <2>1, <2>2 DEF HandleIsBound
  <2>3. CASE handle[v] # NoId
    <3>1. unprotects[v] = IF \E i \in 1 .. Len(slots) : slots[i].value = v THEN 0 ELSE 1
      BY <2>1, <2>3 DEF HandleIsBound
    <3>2. entry = "destroyed" => ~ \E i \in 1 .. Len(slots) : slots[i].value = v
      BY <2>1 DEF RInv, Occupied
    <3> QED
      BY <1>1, <3>1, <3>2
  <2> QED
    BY <2>2, <2>3
<1> QED
  BY <1>4, <1>5, <1>6, <1>7, <1>8 DEF RegistryIsExact, ProtectionIsBalanced

(* The queue, the free stack, the counts and the handles agree at every     *)
(* step, so no capacity is lost and no stale RootId reaches another value.  *)
THEOREM RegistryStaysExact == Spec => []RegistryIsExact
<1>1. RInv => RegistryIsExact
  BY BoundIsExact
<1> QED
  BY <1>1, RootInvariant, PTL

(* Every JSValueProtect has exactly one JSValueUnprotect, by the last       *)
(* handle's release, by the queue or by teardown (experimental.rs:1680).   *)
THEOREM ProtectionStaysBalanced == Spec => []ProtectionIsBalanced
<1>1. RInv => ProtectionIsBalanced
  BY BoundIsExact
<1> QED
  BY <1>1, RootInvariant, PTL
=============================================================================
