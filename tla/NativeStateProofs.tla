-------------------------- MODULE NativeStateProofs --------------------------
(***************************************************************************)
(* The finalizer queue and the registry of NativeState are exact for any   *)
(* number of finalizer threads, tokens and states, any limit and any width *)
(* of the generations (native_state.rs:173-342).                           *)
(***************************************************************************)
EXTENDS NativeState, FiniteSetTheorems, SequenceTheorems, TLAPS

Slot == [generation : 1 .. MaxGeneration, value : States \cup {NoState}]

(* The elements of a stack or a list, and that none is in it twice. *)
Elems(q) == {q[n] : n \in 1 .. Len(q)}
Once(q)  == \A m, n \in 1 .. Len(q) : q[m] = q[n] => m = n

(* The tokens of a sequence, linked one to the next from the first on. *)
Chain(link, list, first) ==
  /\ Once(list)
  /\ IF list = <<>> THEN first \notin Tokens ELSE first = list[1]
  /\ \A n \in 1 .. Len(list) : link[list[n]] = IF n = Len(list) THEN Null ELSE list[n + 1]

Chained(first, where) == \E list \in Seq(Tokens) : Chain(next, list, first) /\ Elems(list) = Placed({where})

Counting == {f \in Finalizers : pc[f] \in {"load", "exchange", "discard"}}

QueueTypes ==
  /\ head \in Tokens \cup {Null, Closed} /\ pending \in Nat
  /\ place \in [Tokens -> Places]
  /\ next \in [Tokens -> Tokens \cup {Null}]
  /\ pc \in [Finalizers -> {"idle", "count", "load", "exchange", "discard"}]
  /\ holding \in [Finalizers -> Tokens \cup {Null}]
  /\ expected \in [Finalizers -> Tokens \cup {Null}]
  /\ owner \in {"active", "publishing", "reclaiming", "closing", "closed", "destroyed"}
  /\ cursor \in Tokens \cup {Null}

(* A finalizer holds a token from the callback to its exchange, and only    *)
(* its holder links a token: what the exchange compares with is still its   *)
(* link, so that a head seen again may be exchanged, whatever became of it  *)
(* in between.                                                             *)
HandIsExact(f) ==
  /\ IF pc[f] = "idle" THEN holding[f] = Null
     ELSE holding[f] \in Tokens /\ place[holding[f]] = "handed"
  /\ pc[f] = "exchange" => next[holding[f]] = expected[f]

HandsAreExact ==
  /\ \A f \in Finalizers : HandIsExact(f)
  /\ \A f, g \in Finalizers : holding[f] = holding[g] /\ holding[f] # Null => f = g
  /\ \A t \in Tokens : place[t] = "handed" => \E f \in Finalizers : holding[f] = t

ListsAreExact == Chained(head, "linked") /\ Chained(cursor, "detached")

CountIsExact == PendingIsExact /\ IsFiniteSet(Counting)

(* The runtime's thread has a list in hand only while it reclaims one, and  *)
(* enters nothing after it has closed the queue.                           *)
OwnerInv ==
  /\ cursor # Null => owner \in {"reclaiming", "closing"}
  /\ head = Closed => owner \in {"closing", "closed", "destroyed"}

QInv == QueueTypes /\ HandsAreExact /\ ListsAreExact /\ CountIsExact /\ OwnerInv
----------------------------------------------------------------------------
Occupied == {i \in 1 .. Len(slots) : slots[i].value # NoState}

RegistryTypes ==
  /\ slots \in Seq(Slot) /\ free \in Seq(1 .. Len(slots)) /\ live \in 0 .. Limit
  /\ handle \in [States -> Ids] /\ lease \in States \cup {NoState} /\ drops \in [States -> Nat]

StackIsExact ==
  /\ live = Cardinality(Occupied)
  /\ Once(free)
  /\ Elems(free) = {i \in 1 .. Len(slots) : slots[i].value = NoState /\ slots[i].generation # MaxGeneration}

(* An occupied slot belongs to the handle of its state. *)
SlotIsBound(i) ==
  slots[i].value # NoState =>
    /\ handle[slots[i].value] = [slot |-> i, generation |-> slots[i].generation]
    /\ slots[i].generation # MaxGeneration

(* A handle is never ahead of its slot, and level with it only while the    *)
(* slot holds its state.                                                   *)
HandleIsBound(s) ==
  handle[s] # NoId =>
    /\ handle[s].slot \in 1 .. Len(slots)
    /\ handle[s].generation \in 1 .. MaxGeneration - 1
    /\ handle[s].generation <= slots[handle[s].slot].generation
    /\ handle[s].generation = slots[handle[s].slot].generation
         => slots[handle[s].slot].value = s

HandlesDiffer == \A s, r \in States : s # r /\ handle[s] # NoId => handle[s] # handle[r]

DropsAreExact(s) ==
  IF handle[s] = NoId THEN drops[s] <= 1 /\ s # lease
  ELSE drops[s] = IF s \in {Get(handle[s]), lease} THEN 0 ELSE 1

RInv ==
  /\ RegistryTypes /\ StackIsExact
  /\ \A i \in 1 .. Len(slots) : SlotIsBound(i)
  /\ HandlesDiffer /\ \A s \in States : HandleIsBound(s) /\ DropsAreExact(s)

(* Each token names the registration of one state, and no other does. *)
TInv ==
  /\ id \in [Tokens -> Ids]
  /\ \A t \in Tokens : place[t] # "unallocated" =>
       id[t] # NoId /\ \E s \in States : handle[s] = id[t]
  /\ \A t, u \in Tokens : t # u /\ place[t] # "unallocated" /\ place[u] # "unallocated" => id[t] # id[u]

(* No operation leases a state during teardown, and none is left after it. *)
EndInv ==
  /\ owner \in {"closing", "closed", "destroyed"} => lease = NoState
  /\ owner = "destroyed" => Occupied = {}

NInv == QInv /\ RInv /\ TInv /\ EndInv
----------------------------------------------------------------------------
(* A push: free.push. *)
LEMMA PushElems ==
  ASSUME NEW S, NEW q \in Seq(S), NEW x \in S, x \notin Elems(q), Once(q)
  PROVE  /\ Append(q, x) \in Seq(S) /\ Append(q, x) # <<>>
         /\ Len(Append(q, x)) = Len(q) + 1 /\ Append(q, x)[Len(q) + 1] = x
         /\ \A n \in 1 .. Len(q) : Append(q, x)[n] = q[n]
         /\ Elems(Append(q, x)) = Elems(q) \cup {x} /\ Once(Append(q, x))
<1>1. /\ Append(q, x) \in Seq(S) /\ Append(q, x) # <<>> /\ Len(Append(q, x)) = Len(q) + 1
      /\ Append(q, x)[Len(q) + 1] = x /\ \A n \in 1 .. Len(q) : Append(q, x)[n] = q[n]
  BY AppendProperties
<1>2. Len(q) \in Nat
  BY LenProperties
<1>3. 1 .. Len(q) + 1 = (1 .. Len(q)) \cup {Len(q) + 1}
  BY <1>2
<1>4. Elems(Append(q, x)) = Elems(q) \cup {x}
  BY <1>1, <1>3 DEF Elems
<1>5. Once(Append(q, x))
  BY <1>1, <1>3 DEF Elems, Once
<1> QED
  BY <1>1, <1>4, <1>5

(* A pop: free.pop. *)
LEMMA PopElems ==
  ASSUME NEW S, NEW q \in Seq(S), q # <<>>, Once(q)
  PROVE  /\ Front(q) \in Seq(S) /\ Len(q) \in Nat \ {0} /\ Len(Front(q)) = Len(q) - 1
         /\ Last(q) = q[Len(q)] /\ Last(q) \in S /\ Last(q) \in Elems(q)
         /\ \A n \in 1 .. Len(q) - 1 : Front(q)[n] = q[n]
         /\ Elems(Front(q)) = Elems(q) \ {Last(q)} /\ Once(Front(q))
<1>1. Len(q) \in Nat \ {0} /\ q \in [1 .. Len(q) -> S]
  BY LenProperties, EmptySeq
<1>2. Last(q) = q[Len(q)] /\ Last(q) \in S /\ Last(q) \in Elems(q)
  BY <1>1 DEF Last, Elems
<1>3. /\ Front(q) \in Seq(S) /\ Len(Front(q)) = Len(q) - 1
      /\ \A n \in 1 .. Len(q) - 1 : Front(q)[n] = q[n]
  <2>1. Len(q) - 1 \in 0 .. Len(q) /\ 1 \in 1 .. Len(q) + 1 /\ Len(q) - 1 \in 1 - 1 .. Len(q)
    BY <1>1
  <2>2. \A n \in 1 .. Len(q) - 1 : 1 + n - 1 = n
    BY <1>1
  <2>3. Len(q) - 1 - 1 + 1 = Len(q) - 1
    BY <1>1
  <2> QED
    BY <1>1, <2>1, <2>2, <2>3, SubSeqProperties DEF Front
<1>4. 1 .. Len(q) = (1 .. Len(q) - 1) \cup {Len(q)} /\ Len(q) \notin 1 .. Len(q) - 1
  BY <1>1
<1>5. Once(Front(q))
  BY <1>3, <1>4 DEF Once
<1>6. Elems(Front(q)) = Elems(q) \ {Last(q)}
  <2>1. ASSUME NEW n \in 1 .. Len(q) - 1
        PROVE  q[n] # q[Len(q)]
    BY <1>1, <1>4 DEF Once
  <2>2. Elems(Front(q)) = {q[n] : n \in 1 .. Len(q) - 1}
    BY <1>3 DEF Elems
  <2>3. Elems(q) = {q[n] : n \in 1 .. Len(q) - 1} \cup {q[Len(q)]}
    BY <1>4 DEF Elems
  <2> QED
    BY <1>2, <2>1, <2>2, <2>3
<1> QED
  BY <1>1, <1>2, <1>3, <1>5, <1>6

(* A sequence without repetition is as long as its elements are many. *)
LEMMA OnceCounts ==
  ASSUME NEW S, NEW q \in Seq(S), Once(q)
  PROVE  Cardinality(Elems(q)) = Len(q) /\ IsFiniteSet(Elems(q)) /\ Len(q) \in Nat
<1>1. Len(q) \in Nat /\ q \in [1 .. Len(q) -> S]
  BY LenProperties
<1>2. q \in [1 .. Len(q) -> Elems(q)]
  BY <1>1 DEF Elems
<1>3. q \in Bijection(1 .. Len(q), Elems(q))
  BY <1>2 DEF Bijection, Injection, Surjection, IsInjective, Once, Elems
<1>4. ExistsBijection(1 .. Len(q), Elems(q))
  BY <1>3 DEF ExistsBijection
<1> QED
  BY <1>1, <1>4, FS_CountingElements, FS_NatBijection

(* Induction over slots and list positions, from a least counterexample. *)
LEMMA LeastNumber ==
  ASSUME NEW T \in SUBSET Nat, 0 \notin T, \A n \in Nat : n \notin T => n + 1 \notin T
  PROVE  T = {}
<1> SUFFICES ASSUME T # {}
             PROVE  FALSE
  OBVIOUS
<1>1. IsWellFoundedOn(OpToRel(<, Nat), Nat)
  BY NatLessThanWellFounded
<1>2. PICK n \in T : \A m \in T : ~ (<<m, n>> \in OpToRel(<, Nat))
  BY <1>1, WFMin
<1>3. n \in Nat /\ n # 0
  OBVIOUS
<1>4. n - 1 \in Nat /\ n - 1 < n /\ (n - 1) + 1 = n
  BY <1>3
<1>5. n - 1 \in T
  BY <1>4
<1> QED
  BY <1>2, <1>3, <1>4, <1>5 DEF OpToRel

(* The slots that drain puts back on the stack. *)
Keeps(i) == NextGeneration(slots[i].generation) # MaxGeneration

IsRefill(g) ==
  g = [i \in 0 .. Len(slots) |->
         IF i = 0 THEN <<>> ELSE IF Keeps(i) THEN Append(g[i - 1], i) ELSE g[i - 1]]

(* The stack of drain's loop after each slot exists, so Refilled is the     *)
(* last of them.                                                           *)
LEMMA RefillExists ==
  ASSUME slots \in Seq(Slot)
  PROVE  \E g : IsRefill(g) /\ Refilled = g[Len(slots)]
<1> DEFINE N == Len(slots)
           Good(g, i) == g[i] = IF i = 0 THEN <<>> ELSE IF Keeps(i) THEN Append(g[i - 1], i) ELSE g[i - 1]
           Upto(g, n) == \A i \in 0 .. N : i <= n => Good(g, i)
           Bad == {n \in Nat : ~ \E g \in [0 .. N -> Seq(1 .. N)] : Upto(g, n)}
<1>1. N \in Nat
  BY LenProperties
<1>2. 0 \notin Bad
  <2>1. <<>> \in Seq(1 .. N)
    BY EmptySeq
  <2>2. [i \in 0 .. N |-> <<>>] \in [0 .. N -> Seq(1 .. N)]
    BY <2>1
  <2>3. Upto([i \in 0 .. N |-> <<>>], 0)
    BY <1>1
  <2> QED
    BY <2>2, <2>3
<1>3. ASSUME NEW n \in Nat, n \notin Bad
      PROVE  n + 1 \notin Bad
  <2>1. PICK g \in [0 .. N -> Seq(1 .. N)] : Upto(g, n)
    BY <1>3
  <2>2. CASE n + 1 \notin 0 .. N
    <3>1. \A i \in 0 .. N : i <= n + 1 => i <= n
      BY <1>1, <2>2
    <3> QED
      BY <2>1, <3>1
  <2>3. CASE n + 1 \in 0 .. N
    <3> DEFINE x == IF Keeps(n + 1) THEN Append(g[n], n + 1) ELSE g[n]
               h == [g EXCEPT ![n + 1] = x]
    <3>1. n \in 0 .. N /\ n + 1 \in 1 .. N /\ n + 1 # 0 /\ (n + 1) - 1 = n /\ n # n + 1
      BY <1>1, <2>3
    <3>2. g[n] \in Seq(1 .. N)
      BY <3>1
    <3>3. x \in Seq(1 .. N)
      BY <3>1, <3>2, AppendProperties
    <3>4. h \in [0 .. N -> Seq(1 .. N)]
      BY <3>3
    <3>5. h[n + 1] = x /\ h[n] = g[n]
      BY <2>3, <3>1
    <3>6. Good(h, n + 1)
      BY <3>1, <3>5
    <3>7. ASSUME NEW i \in 0 .. N, i <= n
          PROVE  Good(h, i)
      <4>1. Good(g, i)
        BY <2>1, <3>7
      <4>2. i # n + 1 /\ i - 1 # n + 1 /\ (i # 0 => i - 1 \in 0 .. N)
        BY <3>7, <1>1
      <4>3. h[i] = g[i] /\ (i # 0 => h[i - 1] = g[i - 1])
        BY <4>2
      <4> QED
        BY <4>1, <4>3
    <3>8. \A i \in 0 .. N : i <= n + 1 => i <= n \/ i = n + 1
      BY <1>1
    <3>9. Upto(h, n + 1)
      BY <3>6, <3>7, <3>8
    <3> QED
      BY <3>4, <3>9
  <2> QED
    BY <2>2, <2>3
<1>4. Bad = {}
  <2>1. Bad \in SUBSET Nat
    OBVIOUS
  <2> HIDE DEF Bad
  <2> QED
    BY <1>2, <1>3, <2>1, LeastNumber
<1>5. PICK g \in [0 .. N -> Seq(1 .. N)] : Upto(g, N)
  BY <1>1, <1>4
<1>6. \A i \in 0 .. N : Good(g, i)
  BY <1>1, <1>5
<1>7. IsRefill(g)
  <2> DEFINE h == [i \in 0 .. N |-> IF i = 0 THEN <<>> ELSE IF Keeps(i) THEN Append(g[i - 1], i) ELSE g[i - 1]]
  <2>1. \A i \in 0 .. N : h[i] = g[i]
    BY <1>6
  <2>2. g = [i \in 0 .. N |-> g[i]] /\ h = [i \in 0 .. N |-> h[i]]
    OBVIOUS
  <2>3. h = g
    BY <2>1, <2>2
  <2> QED
    BY <2>3 DEF IsRefill
<1>8. IsRefill(CHOOSE f : IsRefill(f))
  BY <1>7, Zenon
<1>9. Refilled = (CHOOSE f : IsRefill(f))[Len(slots)]
  BY Zenon DEF Refilled, IsRefill, Keeps
<1> QED
  BY <1>8, <1>9

(* NativeRegistry::drain puts every slot that has generations left on the     *)
(* stack, once.                                                            *)
LEMMA RefilledIsExact ==
  ASSUME slots \in Seq(Slot)
  PROVE  /\ Refilled \in Seq(1 .. Len(slots)) /\ Once(Refilled)
         /\ Elems(Refilled) = {i \in 1 .. Len(slots) : Keeps(i)}
<1> DEFINE N == Len(slots)
<1>1. PICK g : IsRefill(g) /\ Refilled = g[N]
  BY RefillExists
<1>2. N \in Nat
  BY LenProperties
<1>3. \A i \in 0 .. N :
        g[i] = IF i = 0 THEN <<>> ELSE IF Keeps(i) THEN Append(g[i - 1], i) ELSE g[i - 1]
  BY <1>1, Zenon DEF IsRefill
<1> DEFINE P(i) == /\ g[i] \in Seq(1 .. N) /\ Once(g[i])
                   /\ Elems(g[i]) = {j \in 1 .. i : Keeps(j)}
           Bad == {n \in Nat : n <= N /\ ~ P(n)}
<1>4. 0 \notin Bad
  <2>1. g[0] = <<>>
    BY <1>2, <1>3
  <2>2. <<>> \in Seq(1 .. N) /\ Len(<<>>) = 0
    BY EmptySeq
  <2>3. 1 .. 0 = {}
    OBVIOUS
  <2> QED
    BY <2>1, <2>2, <2>3 DEF Once, Elems
<1>5. ASSUME NEW n \in Nat, n \notin Bad
      PROVE  n + 1 \notin Bad
  <2> SUFFICES ASSUME n + 1 <= N
               PROVE  P(n + 1)
    OBVIOUS
  <2>1. /\ n \in 0 .. N /\ n + 1 \in 0 .. N /\ n + 1 \in 1 .. N /\ n <= N
        /\ n + 1 # 0 /\ (n + 1) - 1 = n /\ n + 1 \notin 1 .. n
        /\ 1 .. n + 1 = (1 .. n) \cup {n + 1}
    BY <1>2
  <2>2. P(n)
    BY <1>5, <2>1
  <2>3. g[n + 1] = IF Keeps(n + 1) THEN Append(g[n], n + 1) ELSE g[n]
    BY <1>3, <2>1
  <2>4. {j \in 1 .. n + 1 : Keeps(j)} = {j \in 1 .. n : Keeps(j)} \cup (IF Keeps(n + 1) THEN {n + 1} ELSE {})
    BY <2>1
  <2>5. CASE Keeps(n + 1)
    <3>1. g[n + 1] = Append(g[n], n + 1)
      BY <2>3, <2>5
    <3>2. n + 1 \notin Elems(g[n])
      BY <2>1, <2>2
    <3> QED
      BY <2>1, <2>2, <2>4, <2>5, <3>1, <3>2, PushElems
  <2>6. CASE ~ Keeps(n + 1)
    BY <2>2, <2>3, <2>4, <2>6
  <2> QED
    BY <2>5, <2>6
<1>6. Bad = {}
  <2>1. Bad \in SUBSET Nat
    OBVIOUS
  <2> HIDE DEF Bad
  <2> QED
    BY <1>4, <1>5, <2>1, LeastNumber
<1>7. P(N)
  BY <1>2, <1>6
<1> QED
  BY <1>1, <1>7
----------------------------------------------------------------------------
(* The exchange of push puts a token in front of the list it is linked to. *)
LEMMA ConsChain ==
  ASSUME NEW link, NEW list \in Seq(Tokens), NEW first \in Tokens \cup {Null}, Chain(link, list, first),
         NEW t \in Tokens, t \notin Elems(list), link[t] = first
  PROVE  \E longer \in Seq(Tokens) : Chain(link, longer, t) /\ Elems(longer) = Elems(list) \cup {t}
  <1>. DEFINE N == Len(list)
              longer == [n \in 1 .. N + 1 |-> IF n = 1 THEN t ELSE list[n - 1]]
  <1>1. N \in Nat /\ list \in [1 .. N -> Tokens]
    BY LenProperties
  <1>2. \A n \in 1 .. N + 1 : n = 1 \/ n - 1 \in 1 .. N
    BY <1>1
  <1>3. longer \in [1 .. N + 1 -> Tokens]
    BY <1>1, <1>2
  <1>4. longer \in Seq(Tokens) /\ Len(longer) = N + 1 /\ longer # <<>>
    BY <1>1, <1>3, IsASeq, LenProperties, EmptySeq
  <1>5. longer[1] = t /\ \A n \in 1 .. N : n + 1 \in 1 .. N + 1 /\ longer[n + 1] = list[n]
    <2>1. \A n \in 1 .. N : n + 1 \in 1 .. N + 1 /\ n + 1 # 1 /\ (n + 1) - 1 = n
      BY <1>1
    <2>. QED
      BY <1>1, <2>1
  <1>. HIDE DEF longer
  <1>6. \A n \in 1 .. N + 1 : n # 1 => n - 1 \in 1 .. N /\ longer[n] = list[n - 1]
    BY <1>1, <1>5
  <1>7. Elems(longer) = Elems(list) \cup {t}
    <2>1. Elems(longer) \subseteq Elems(list) \cup {t}
      BY <1>1, <1>4, <1>5, <1>6 DEF Elems
    <2>2. t \in Elems(longer)
      BY <1>1, <1>4, <1>5 DEF Elems
    <2>3. Elems(list) \subseteq Elems(longer)
      <3>. SUFFICES ASSUME NEW n \in 1 .. N PROVE list[n] \in Elems(longer)
        BY DEF Elems
      <3>. QED
        BY <1>4, <1>5 DEF Elems
    <2>. QED
      BY <2>1, <2>2, <2>3
  <1>8. Once(longer)
    <2>. SUFFICES ASSUME NEW m \in 1 .. N + 1, NEW n \in 1 .. N + 1, longer[m] = longer[n] PROVE m = n
      BY <1>4 DEF Once
    <2>1. \A i \in 1 .. N : list[i] # t
      BY DEF Elems
    <2>2. m = 1 <=> n = 1
      BY <1>5, <1>6, <2>1
    <2>3. CASE m # 1
      <3>1. m - 1 \in 1 .. N /\ n - 1 \in 1 .. N /\ list[m - 1] = list[n - 1]
        BY <1>6, <2>2, <2>3
      <3>2. m - 1 = n - 1
        BY <3>1 DEF Chain, Once
      <3>. QED
        BY <3>2
    <2>. QED
      BY <2>2, <2>3
  <1>9. ASSUME NEW n \in 1 .. N + 1
        PROVE  link[longer[n]] = IF n = N + 1 THEN Null ELSE longer[n + 1]
    <2>1. CASE n = 1
      <3>1. CASE N = 0
        BY <1>1, <1>5, <2>1, <3>1, EmptySeq DEF Chain
      <3>2. CASE N # 0
        BY <1>1, <1>5, <2>1, <3>2, EmptySeq DEF Chain
      <3>. QED
        BY <3>1, <3>2
    <2>2. CASE n # 1
      <3>1. n - 1 \in 1 .. N /\ longer[n] = list[n - 1] /\ (n = N + 1 <=> n - 1 = N) /\ (n - 1) + 1 = n
        BY <1>1, <1>6, <2>2
      <3>2. n # N + 1 => n \in 1 .. N /\ longer[n + 1] = list[n]
        BY <1>1, <1>5
      <3>. QED
        BY <3>1, <3>2 DEF Chain
    <2>. QED
      BY <2>1, <2>2
  <1>. QED
    BY <1>4, <1>5, <1>7, <1>8, <1>9 DEF Chain

(* reclaim_finalized goes on with the list behind its first token. *)
LEMMA TailChain ==
  ASSUME NEW link, NEW list \in Seq(Tokens), NEW first \in Tokens, Chain(link, list, first)
  PROVE  /\ \E rest \in Seq(Tokens) : Chain(link, rest, link[first]) /\ Elems(rest) = Elems(list) \ {first}
         /\ first \in Elems(list)
  <1>. DEFINE N == Len(list)
              rest == [n \in 1 .. N - 1 |-> list[n + 1]]
  <1>1. N \in Nat \ {0} /\ list \in [1 .. N -> Tokens] /\ list[1] = first
    BY LenProperties, EmptySeq DEF Chain
  <1>2. \A n \in 1 .. N - 1 : n + 1 \in 1 .. N
    BY <1>1
  <1>10. \A n \in 1 .. N : link[list[n]] = IF n = N THEN Null ELSE list[n + 1]
    BY Zenon DEF Chain
  <1>3. rest \in [1 .. N - 1 -> Tokens] /\ N - 1 \in Nat
    BY <1>1, <1>2
  <1>4. rest \in Seq(Tokens) /\ Len(rest) = N - 1
    BY <1>3, IsASeq, LenProperties
  <1>5. \A n \in 1 .. N - 1 : rest[n] = list[n + 1]
    OBVIOUS
  <1>. HIDE DEF rest
  <1>6. \A n \in 1 .. N : n # 1 => n - 1 \in 1 .. N - 1 /\ rest[n - 1] = list[n]
    BY <1>1, <1>5
  <1>7. first \in Elems(list)
    BY <1>1 DEF Elems
  <1>8. Elems(rest) = Elems(list) \ {first}
    <2>1. \A n \in 1 .. N : list[n] = first <=> n = 1
      <3>1. 1 \in 1 .. N
        BY <1>1
      <3>. QED
        BY <1>1, <3>1, Zenon DEF Chain, Once
    <2>2. ASSUME NEW t \in Elems(rest) PROVE t \in Elems(list) /\ t # first
      <3>1. PICK n \in 1 .. N - 1 : t = list[n + 1]
        <4>1. PICK n \in 1 .. N - 1 : t = rest[n]
          BY <1>4 DEF Elems
        <4>. QED
          BY <1>5, <4>1
      <3>2. n + 1 \in 1 .. N /\ n + 1 # 1
        BY <1>1
      <3>. QED
        BY <2>1, <3>1, <3>2 DEF Elems
    <2>3. ASSUME NEW t \in Elems(list), t # first PROVE t \in Elems(rest)
      BY <1>1, <1>4, <1>6, <2>3 DEF Elems
    <2>. QED
      BY <2>2, <2>3
  <1>9. Chain(link, rest, link[first])
    <2>1. Once(rest)
      <3>. SUFFICES ASSUME NEW m \in 1 .. N - 1, NEW n \in 1 .. N - 1, rest[m] = rest[n] PROVE m = n
        BY <1>4 DEF Once
      <3>1. m + 1 \in 1 .. N /\ n + 1 \in 1 .. N /\ list[m + 1] = list[n + 1]
        BY <1>1, <1>5
      <3>2. m + 1 = n + 1
        BY <3>1 DEF Chain, Once
      <3>. QED
        BY <3>2
    <2>2. IF rest = <<>> THEN link[first] \notin Tokens ELSE link[first] = rest[1]
      <3>1. link[first] = IF 1 = N THEN Null ELSE list[2]
        BY <1>1 DEF Chain
      <3>2. CASE N = 1
        BY <1>4, <3>1, <3>2, EmptySeq, NativeStateAssumption
      <3>3. CASE N # 1
        <4>1. rest # <<>> /\ rest[1] = list[2]
          BY <1>1, <1>4, <1>5, <3>3, EmptySeq
        <4>. QED
          BY <3>1, <3>3, <4>1
      <3>. QED
        BY <3>2, <3>3
    <2>3. ASSUME NEW n \in 1 .. N - 1
          PROVE  link[rest[n]] = IF n = N - 1 THEN Null ELSE rest[n + 1]
      <3>1. n + 1 \in 1 .. N /\ (n + 1 = N <=> n = N - 1) /\ rest[n] = list[n + 1]
        BY <1>1, <1>5
      <3>2. n # N - 1 => n + 1 \in 1 .. N - 1 /\ rest[n + 1] = list[(n + 1) + 1]
        <4>1. n # N - 1 => n + 1 \in 1 .. N - 1
          BY <1>3
        <4>. QED
          BY <1>5, <4>1
      <3>. QED
        <4>1. link[list[n + 1]] = IF n + 1 = N THEN Null ELSE list[(n + 1) + 1]
          BY <1>10, <3>1
        <4>2. CASE n = N - 1
          BY <3>1, <4>1, <4>2
        <4>3. CASE n # N - 1
          BY <3>1, <3>2, <4>1, <4>3
        <4>. QED
          BY <4>2, <4>3
    <2>. QED
      BY <1>4, <2>1, <2>2, <2>3 DEF Chain
  <1>. QED
    BY <1>4, <1>7, <1>8, <1>9

(* What ListFrom finds is the list, and no token finds itself again. *)
LEMMA ListIsChain ==
  ASSUME NEW list \in Seq(Tokens), NEW first, Chain(next, list, first)
  PROVE  ListFrom(first) = Elems(list) /\ \A t \in Elems(list) : t \notin ListFrom(next[t])
  <1>. DEFINE N == Len(list)
  <1>0. N \in Nat
    BY LenProperties
  <1>1. list \in [1 .. N -> Tokens]
    BY LenProperties
  <1>2. \A n \in 1 .. N : next[list[n]] = IF n = N THEN Null ELSE list[n + 1]
    BY Zenon DEF Chain
  <1>3. \A n \in 1 .. N : n # N => n + 1 \in 1 .. N
    <2>. HIDE DEF N
    <2>. QED
      BY <1>0
  <1>4. ListFrom(first) \subseteq Elems(list)
    <2>1. Elems(list) \in SUBSET Tokens
      BY <1>1 DEF Elems
    <2>2. Follows(Elems(list))
      BY <1>2, <1>3, NativeStateAssumption DEF Follows, Elems
    <2>3. first \in Tokens => first \in Elems(list)
      BY <1>1, EmptySeq DEF Chain, Elems
    <2>. QED
      BY <2>1, <2>2, <2>3 DEF ListFrom
  <1>5. ASSUME NEW S \in SUBSET Tokens, Follows(S), first \in Tokens => first \in S
        PROVE  Elems(list) \subseteq S
    <2>. DEFINE Bad == {n \in Nat : n \in 1 .. N /\ list[n] \notin S}
    <2>1. 0 \notin Bad /\ Bad \in SUBSET Nat
      OBVIOUS
    <2>2. ASSUME NEW n \in Nat, n \notin Bad PROVE n + 1 \notin Bad
      <3>. SUFFICES ASSUME n + 1 \in 1 .. N PROVE list[n + 1] \in S
        OBVIOUS
      <3>1. CASE n = 0
        <4>1. n + 1 = 1 /\ list # <<>>
          BY <3>1, EmptySeq
        <4>2. first = list[1]
          BY <4>1 DEF Chain
        <4>. QED
          BY <1>1, <1>5, <4>1, <4>2
      <3>2. CASE n # 0
        <4>1. n \in 1 .. N /\ n # N
          <5>. HIDE DEF N
          <5>. QED
            BY <1>0, <3>2
        <4>2. list[n] \in S /\ next[list[n]] = list[n + 1] /\ list[n + 1] \in Tokens
          BY <1>1, <1>2, <2>2, <4>1
        <4>. QED
          BY <1>5, <4>2 DEF Follows
      <3>. QED
        BY <3>1, <3>2
    <2>. HIDE DEF Bad
    <2>3. Bad = {}
      BY <2>1, <2>2, LeastNumber
    <2>. QED
      BY <1>1, <2>3 DEF Bad, Elems
  <1>6. Elems(list) \subseteq ListFrom(first)
    BY <1>1, <1>5 DEF ListFrom, Elems
  <1>7. ASSUME NEW n \in 1 .. N
        PROVE  list[n] \notin ListFrom(next[list[n]])
    <2>. DEFINE S == {list[m] : m \in {m \in 1 .. N : m > n}}
    <2>1. S \in SUBSET Tokens
      BY <1>1
    <2>2. Follows(S)
      <3>. SUFFICES ASSUME NEW m \in 1 .. N, m > n, next[list[m]] \in Tokens PROVE next[list[m]] \in S
        BY DEF Follows
      <3>1. m # N /\ next[list[m]] = list[m + 1]
        BY <1>2, NativeStateAssumption
      <3>2. m + 1 \in 1 .. N /\ m + 1 > n
        <4>. HIDE DEF N, S
        <4>. QED
          BY <1>0, <3>1
      <3>. QED
        BY <3>1, <3>2
    <2>3. next[list[n]] \in Tokens => next[list[n]] \in S
      <3>. SUFFICES ASSUME next[list[n]] \in Tokens PROVE next[list[n]] \in S
        OBVIOUS
      <3>1. n # N /\ next[list[n]] = list[n + 1]
        BY <1>2, NativeStateAssumption
      <3>2. n + 1 \in 1 .. N /\ n + 1 > n
        <4>. HIDE DEF N, S
        <4>. QED
          BY <1>0, <3>1
      <3>. QED
        BY <3>1, <3>2
    <2>4. list[n] \notin S
      <3>1. \A m \in 1 .. N : list[m] = list[n] => m = n
        BY DEF Chain, Once
      <3>2. ~ (n > n)
        <4>. HIDE DEF N, S
        <4>. QED
          BY <1>0
      <3>. QED
        BY <3>1, <3>2
    <2>. QED
      BY <2>1, <2>2, <2>3, <2>4 DEF ListFrom
  <1>. QED
    BY <1>1, <1>4, <1>6, <1>7 DEF Elems
----------------------------------------------------------------------------
(* A list stays one while its own tokens keep their links. *)
LEMMA LinksStay ==
  ASSUME NEW link, NEW relinked, NEW list \in Seq(Tokens), NEW first, Chain(link, list, first),
         \A t \in Elems(list) : relinked[t] = link[t]
  PROVE  Chain(relinked, list, first)
  <1>1. \A n \in 1 .. Len(list) : list[n] \in Elems(list)
    BY DEF Elems
  <1>. QED
    BY <1>1 DEF Chain

(* The lists depend only on their tokens, their places and their links. *)
LEMMA ListsStay ==
  ASSUME ListsAreExact, head' = head, cursor' = cursor,
         Placed({"linked"})' = Placed({"linked"}), Placed({"detached"})' = Placed({"detached"}),
         \A t \in Tokens : place[t] \in {"linked", "detached"} => next'[t] = next[t]
  PROVE  ListsAreExact'
  <1>1. PICK list \in Seq(Tokens) : Chain(next, list, head) /\ Elems(list) = Placed({"linked"})
    BY DEF ListsAreExact, Chained
  <1>2. PICK rest \in Seq(Tokens) : Chain(next, rest, cursor) /\ Elems(rest) = Placed({"detached"})
    BY DEF ListsAreExact, Chained
  <1>3. Chain(next', list, head)
    BY <1>1, LinksStay DEF Placed
  <1>4. Chain(next', rest, cursor)
    BY <1>2, LinksStay DEF Placed
  <1>5. Elems(list) = Placed({"linked"})' /\ Elems(rest) = Placed({"detached"})'
    BY <1>1, <1>2
  <1>. QED
    BY <1>3, <1>4, <1>5 DEF ListsAreExact, Chained

(* The tokens on the two lists are finitely many. *)
LEMMA ListsAreFinite ==
  ASSUME ListsAreExact
  PROVE  /\ IsFiniteSet(Placed({"linked", "detached"}))
         /\ Placed({"linked", "detached"}) = Placed({"linked"}) \cup Placed({"detached"})
  <1>1. IsFiniteSet(Placed({"linked"})) /\ IsFiniteSet(Placed({"detached"}))
    BY OnceCounts DEF ListsAreExact, Chained, Chain
  <1>2. Placed({"linked", "detached"}) = Placed({"linked"}) \cup Placed({"detached"})
    BY DEF Placed
  <1>. QED
    BY <1>1, <1>2, FS_Union

(* What leaves both lists alone leaves the counter exact. *)
LEMMA CountStays ==
  ASSUME CountIsExact, pending' = pending, Counting' = Counting,
         Placed({"linked", "detached"})' = Placed({"linked", "detached"})
  PROVE  CountIsExact'
  BY DEF CountIsExact, PendingIsExact, Counting
----------------------------------------------------------------------------
(* FinalizerQueue::new *)
LEMMA InitQueue == Init => QInv
  <1>. SUFFICES ASSUME Init PROVE QInv
    OBVIOUS
  <1>1. QueueTypes
    BY NativeStateAssumption DEF Init, QueueTypes, Places
  <1>2. HandsAreExact
    BY DEF Init, HandsAreExact, HandIsExact
  <1>3. Placed({"linked"}) = {} /\ Placed({"detached"}) = {} /\ Placed({"linked", "detached"}) = {}
    BY DEF Init, Placed
  <1>4. <<>> \in Seq(Tokens) /\ Len(<<>>) = 0
    BY EmptySeq
  <1>5. Elems(<<>>) = {} /\ Chain(next, <<>>, Null)
    BY <1>4, NativeStateAssumption DEF Elems, Chain, Once
  <1>6. ListsAreExact
    <2>1. head = Null /\ cursor = Null
      BY DEF Init
    <2>. QED
      BY <1>3, <1>4, <1>5, <2>1, Zenon DEF ListsAreExact, Chained
  <1>7. Counting = {}
    BY DEF Init, Counting
  <1>8. CountIsExact
    <2>1. IsFiniteSet({}) /\ Cardinality({}) = 0 /\ 0 = 0 + 0 /\ pending = 0
      BY FS_EmptySet DEF Init
    <2>2. PendingIsExact
      BY <1>3, <1>7, <2>1, Zenon DEF PendingIsExact, Counting
    <2>. QED
      BY <1>7, <2>1, <2>2 DEF CountIsExact
  <1>9. OwnerInv
    BY NativeStateAssumption DEF Init, OwnerInv
  <1>. QED
    BY <1>1, <1>2, <1>6, <1>8, <1>9 DEF QInv

(* A step that moves one token between places off the lists, keeps the      *)
(* links of the others, and leaves the rest of the queue alone.            *)
OffLists == {"unallocated", "rooted", "engine"}

Moved(t, to) ==
  /\ place[t] \in OffLists /\ to \in OffLists
  /\ place' = [place EXCEPT ![t] = to]
  /\ next' \in [Tokens -> Tokens \cup {Null}] /\ \A u \in Tokens \ {t} : next'[u] = next[u]
  /\ UNCHANGED <<queueVars, threadVars, cursor>>

(* Moving a token that is on no list and in no hands keeps the queue. *)
LEMMA MovedKeepsQueue ==
  ASSUME QInv, NEW t \in Tokens, NEW to, Moved(t, to), QueueTypes', OwnerInv'
  PROVE  QInv'
  <1>1. /\ Placed({"linked"})' = Placed({"linked"}) /\ Placed({"detached"})' = Placed({"detached"})
        /\ Placed({"linked", "detached"})' = Placed({"linked", "detached"})
    BY DEF Moved, OffLists, QInv, QueueTypes, Placed
  <1>2. ListsAreExact'
    <2>1. \A u \in Tokens : place[u] \in {"linked", "detached"} => next'[u] = next[u]
      BY DEF Moved, OffLists
    <2>. QED
      BY <1>1, <2>1, ListsStay DEF QInv, Moved, queueVars
  <1>3. CountIsExact'
    BY <1>1, CountStays DEF QInv, Moved, queueVars, threadVars, Counting
  <1>4. HandsAreExact'
    <2>1. \A f \in Finalizers : HandIsExact(f)'
      BY DEF QInv, QueueTypes, HandsAreExact, HandIsExact, Moved, OffLists, threadVars
    <2>2. \A u \in Tokens : place'[u] = "handed" <=> place[u] = "handed"
      BY DEF QInv, QueueTypes, Moved, OffLists
    <2>. QED
      BY <2>1, <2>2 DEF QInv, HandsAreExact, Moved, threadVars
  <1>. QED
    BY <1>2, <1>3, <1>4 DEF QInv

(* try_install_native_state, its publication and its rollback. *)
LEMMA InstallQueue ==
  ASSUME QInv, NEW s \in States, NEW t \in Tokens, Install(s, t)
  PROVE  QInv'
  <1>1. Moved(t, "rooted")
    BY DEF Install, Moved, OffLists, QInv, QueueTypes
  <1>2. QueueTypes' /\ OwnerInv'
    BY DEF QInv, QueueTypes, OwnerInv, Install, queueVars, threadVars, Places
  <1>. QED
    BY <1>1, <1>2, MovedKeepsQueue

(* A rooted token becomes the engine's or is freed by a rollback. *)
LEMMA PublishedQueue ==
  ASSUME QInv, NEW t \in Tokens, Published(t) \/ RolledBack(t)
  PROVE  QInv'
  <1>1. \E to \in OffLists : place' = [place EXCEPT ![t] = to]
    BY DEF Published, RolledBack, OffLists
  <1>2. PICK to \in OffLists : place' = [place EXCEPT ![t] = to]
    BY <1>1
  <1>3. Moved(t, to)
    BY <1>2 DEF Published, RolledBack, Moved, OffLists, QInv, QueueTypes
  <1>4. QueueTypes'
    BY <1>2 DEF QInv, QueueTypes, Published, RolledBack, queueVars, threadVars, Places, OffLists
  <1>5. OwnerInv'
    BY DEF QInv, OwnerInv, Published, RolledBack, queueVars
  <1>. QED
    BY <1>3, <1>4, <1>5, MovedKeepsQueue
----------------------------------------------------------------------------
(* native_state_finalize takes the token from the engine. *)
LEMMA FinalizeQueue ==
  ASSUME QInv, NEW f \in Finalizers, NEW t \in Tokens, Finalize(f, t)
  PROVE  QInv'
  <1>1. QueueTypes' /\ OwnerInv'
    BY DEF QInv, QueueTypes, OwnerInv, Finalize, queueVars, Places
  <1>2. /\ Placed({"linked"})' = Placed({"linked"}) /\ Placed({"detached"})' = Placed({"detached"})
        /\ Placed({"linked", "detached"})' = Placed({"linked", "detached"})
    BY DEF Finalize, QInv, QueueTypes, Placed
  <1>3. ListsAreExact'
    BY <1>2, ListsStay DEF QInv, Finalize, queueVars
  <1>4. CountIsExact'
    <2>1. Counting' = Counting
      BY DEF Finalize, Counting, QInv, QueueTypes
    <2>. QED
      BY <1>2, <2>1, CountStays DEF QInv, Finalize, queueVars
  <1>5. HandsAreExact'
    <2>1. holding[f] = Null /\ \A g \in Finalizers : holding[g] # t
      BY NativeStateAssumption DEF QInv, HandsAreExact, HandIsExact, Finalize
    <2>2. /\ \A g \in Finalizers : g # f => holding'[g] = holding[g] /\ pc'[g] = pc[g]
          /\ holding'[f] = t /\ pc'[f] = "count"
          /\ \A u \in Tokens : u # t => place'[u] = place[u]
          /\ place'[t] = "handed" /\ next' = next /\ expected' = expected
      BY DEF Finalize, QInv, QueueTypes
    <2>3. \A g \in Finalizers : HandIsExact(g)'
      BY <2>1, <2>2 DEF QInv, HandsAreExact, HandIsExact
    <2>4. \A g, h \in Finalizers : holding'[g] = holding'[h] /\ holding'[g] # Null => g = h
      BY <2>1, <2>2 DEF QInv, HandsAreExact
    <2>5. \A u \in Tokens : place'[u] = "handed" => \E g \in Finalizers : holding'[g] = u
      BY <2>1, <2>2, NativeStateAssumption DEF QInv, HandsAreExact
    <2>. QED
      BY <2>3, <2>4, <2>5 DEF HandsAreExact
  <1>. QED
    BY <1>1, <1>3, <1>4, <1>5 DEF QInv

(* push counts the signal first. *)
LEMMA PushCountQueue ==
  ASSUME QInv, NEW f \in Finalizers, PushCount(f)
  PROVE  QInv'
  <1>1. QueueTypes' /\ OwnerInv'
    BY DEF QInv, QueueTypes, OwnerInv, PushCount, tokenVars
  <1>2. ListsAreExact'
    BY ListsStay DEF QInv, PushCount, tokenVars, Placed
  <1>3. HandsAreExact'
    BY DEF QInv, QueueTypes, HandsAreExact, HandIsExact, PushCount, tokenVars
  <1>4. CountIsExact'
    <2>1. Counting' = Counting \cup {f} /\ f \notin Counting
      BY DEF PushCount, Counting, QInv, QueueTypes
    <2>2. IsFiniteSet(Counting') /\ Cardinality(Counting') = Cardinality(Counting) + 1
      BY <2>1, FS_AddElement DEF QInv, CountIsExact
    <2>3. Placed({"linked", "detached"})' = Placed({"linked", "detached"})
      BY DEF PushCount, tokenVars, Placed
    <2>4. /\ Cardinality(Counting) \in Nat
          /\ Cardinality(Placed({"linked", "detached"})) \in Nat
          /\ pending' = pending + 1
          /\ pending = Cardinality(Placed({"linked", "detached"})) + Cardinality(Counting)
      BY FS_CardinalityType, ListsAreFinite DEF QInv, CountIsExact, PendingIsExact, PushCount, Counting
    <2>5. pending' = Cardinality(Placed({"linked", "detached"})') + Cardinality(Counting')
      BY <2>2, <2>3, <2>4
    <2>. QED
      BY <2>2, <2>5 DEF CountIsExact, PendingIsExact, Counting
  <1>. QED
    BY <1>1, <1>2, <1>3, <1>4 DEF QInv

(* push links a token that no list has. *)
LEMMA PushLoadQueue ==
  ASSUME QInv, NEW f \in Finalizers, PushLoad(f)
  PROVE  QInv'
  <1>0. holding[f] \in Tokens /\ place[holding[f]] = "handed"
    BY DEF QInv, HandsAreExact, HandIsExact, PushLoad
  <1>1. QueueTypes' /\ OwnerInv'
    BY <1>0 DEF QInv, QueueTypes, OwnerInv, PushLoad, queueVars
  <1>2. \A t \in Tokens : t # holding[f] => next'[t] = next[t]
    BY DEF QInv, QueueTypes, PushLoad
  <1>3. ListsAreExact'
    BY <1>0, <1>2, ListsStay DEF QInv, PushLoad, queueVars, Placed
  <1>4. HandsAreExact'
    <2>1. \A g \in Finalizers : g # f => pc'[g] = pc[g] /\ expected'[g] = expected[g]
      BY DEF QInv, QueueTypes, PushLoad
    <2>2. holding' = holding /\ place' = place
      BY DEF PushLoad
    <2>3. HandIsExact(f)'
      BY <1>0, <2>2 DEF QInv, QueueTypes, HandIsExact, PushLoad
    <2>4. ASSUME NEW g \in Finalizers, g # f PROVE HandIsExact(g)'
      <3>1. pc[g] # "idle" => holding[g] \in Tokens /\ holding[g] # holding[f]
        BY <1>0, <2>4, NativeStateAssumption DEF QInv, HandsAreExact, HandIsExact
      <3>. QED
        BY <1>2, <2>1, <2>2, <2>4, <3>1 DEF QInv, HandsAreExact, HandIsExact
    <2>. QED
      BY <2>2, <2>3, <2>4 DEF QInv, HandsAreExact
  <1>5. CountIsExact'
    <2>1. Counting' = Counting
      BY DEF PushLoad, Counting, QInv, QueueTypes
    <2>. QED
      BY <2>1, CountStays DEF QInv, PushLoad, queueVars, Placed
  <1>. QED
    BY <1>1, <1>3, <1>4, <1>5 DEF QInv

(* push's exchange: the head is what the token is linked to, though it may  *)
(* have been another one in between.                                       *)
LEMMA PushExchangeQueue ==
  ASSUME QInv, NEW f \in Finalizers, PushExchange(f)
  PROVE  QInv'
  <1>. DEFINE t == holding[f]
  <1>0. t \in Tokens /\ place[t] = "handed" /\ next[t] = expected[f] /\ pc[f] = "exchange"
    BY DEF QInv, HandsAreExact, HandIsExact, PushExchange
  <1>1. QueueTypes'
    BY <1>0 DEF QInv, QueueTypes, PushExchange, Places
  <1>2. OwnerInv'
    BY <1>0, NativeStateAssumption DEF QInv, OwnerInv, PushExchange
  <1>3. CASE /\ head = expected[f]
             /\ head' = t
             /\ place' = [place EXCEPT ![t] = "linked"]
             /\ holding' = [holding EXCEPT ![f] = Null]
             /\ pc' = [pc EXCEPT ![f] = "idle"]
    <2>0. /\ \A u \in Tokens : u # t => place'[u] = place[u]
          /\ place'[t] = "linked" /\ holding'[f] = Null /\ pc'[f] = "idle"
          /\ \A g \in Finalizers : g # f => holding'[g] = holding[g] /\ pc'[g] = pc[g]
          /\ next' = next /\ expected' = expected /\ cursor' = cursor
      BY <1>0, <1>3 DEF QInv, QueueTypes, PushExchange
    <2>1. /\ Placed({"linked"})' = Placed({"linked"}) \cup {t} /\ t \notin Placed({"linked"})
          /\ Placed({"detached"})' = Placed({"detached"})
          /\ Placed({"linked", "detached"})' = Placed({"linked", "detached"}) \cup {t}
          /\ t \notin Placed({"linked", "detached"})
      BY <1>0, <2>0 DEF Placed
    <2>2. Chained(head, "linked")'
      <3>1. PICK list \in Seq(Tokens) : Chain(next, list, head) /\ Elems(list) = Placed({"linked"})
        BY DEF QInv, ListsAreExact, Chained
      <3>2. head \in Tokens \cup {Null} /\ next[t] = head
        BY <1>0, <1>3 DEF QInv, QueueTypes
      <3>3. PICK longer \in Seq(Tokens) : Chain(next, longer, t) /\ Elems(longer) = Elems(list) \cup {t}
        BY <1>0, <2>1, <3>1, <3>2, ConsChain
      <3>4. Chain(next', longer, head') /\ Elems(longer) = Placed({"linked"})'
        BY <1>3, <2>0, <2>1, <3>1, <3>3
      <3>. QED
        BY <3>4 DEF Chained
    <2>3. Chained(cursor, "detached")'
      BY <2>0, <2>1 DEF QInv, ListsAreExact, Chained
    <2>4. HandsAreExact'
      <3>1. \A g \in Finalizers : g # f => holding[g] # t
        BY <1>0, NativeStateAssumption DEF QInv, HandsAreExact
      <3>2. \A g \in Finalizers : HandIsExact(g)'
        BY <2>0, <3>1 DEF QInv, HandsAreExact, HandIsExact
      <3>3. \A g, h \in Finalizers : holding'[g] = holding'[h] /\ holding'[g] # Null => g = h
        BY <2>0 DEF QInv, HandsAreExact
      <3>4. \A u \in Tokens : place'[u] = "handed" => \E g \in Finalizers : holding'[g] = u
        BY <2>0 DEF QInv, HandsAreExact
      <3>. QED
        BY <3>2, <3>3, <3>4 DEF HandsAreExact
    <2>5. CountIsExact'
      <3>1. Counting' = Counting \ {f} /\ f \in Counting
        BY <1>0, <2>0 DEF Counting
      <3>2. IsFiniteSet(Counting') /\ Cardinality(Counting') = Cardinality(Counting) - 1
        BY <3>1, FS_RemoveElement DEF QInv, CountIsExact
      <3>3. /\ IsFiniteSet(Placed({"linked", "detached"}))
            /\ Cardinality(Placed({"linked", "detached"})') = Cardinality(Placed({"linked", "detached"})) + 1
        BY <2>1, ListsAreFinite, FS_AddElement DEF QInv
      <3>4. /\ Cardinality(Counting) \in Nat
            /\ Cardinality(Placed({"linked", "detached"})) \in Nat
            /\ pending' = pending
            /\ pending = Cardinality(Placed({"linked", "detached"})) + Cardinality(Counting)
        BY <3>3, FS_CardinalityType DEF QInv, CountIsExact, PendingIsExact, PushExchange, Counting
      <3>5. pending' = Cardinality(Placed({"linked", "detached"})') + Cardinality(Counting')
        BY <3>2, <3>3, <3>4
      <3>. QED
        BY <3>2, <3>5 DEF CountIsExact, PendingIsExact, Counting
    <2>. QED
      BY <1>1, <1>2, <2>2, <2>3, <2>4, <2>5 DEF QInv, ListsAreExact
  <1>4. CASE pc' = [pc EXCEPT ![f] = "load"] /\ UNCHANGED <<head, place, holding>>
    <2>1. ListsAreExact'
      BY <1>4, ListsStay DEF QInv, PushExchange, Placed
    <2>2. HandsAreExact'
      BY <1>0, <1>4 DEF QInv, QueueTypes, HandsAreExact, HandIsExact, PushExchange
    <2>3. Counting' = Counting
      BY <1>0, <1>4 DEF Counting, QInv, QueueTypes
    <2>4. CountIsExact'
      BY <1>4, <2>3, CountStays DEF QInv, PushExchange, Placed
    <2>. QED
      BY <1>1, <1>2, <2>1, <2>2, <2>4 DEF QInv
  <1>. QED
    BY <1>3, <1>4 DEF PushExchange

(* push on a closed queue frees its token and settles its own signal. *)
LEMMA PushDiscardQueue ==
  ASSUME QInv, NEW f \in Finalizers, PushDiscard(f)
  PROVE  QInv'
  <1>. DEFINE t == holding[f]
  <1>0. t \in Tokens /\ place[t] = "handed" /\ pc[f] = "discard"
    BY DEF QInv, HandsAreExact, HandIsExact, PushDiscard
  <1>1. /\ \A u \in Tokens : u # t => place'[u] = place[u]
        /\ place'[t] = "unallocated" /\ holding'[f] = Null /\ pc'[f] = "idle"
        /\ \A g \in Finalizers : g # f => holding'[g] = holding[g] /\ pc'[g] = pc[g]
        /\ next' = next /\ expected' = expected /\ cursor' = cursor /\ head' = head
    BY <1>0 DEF QInv, QueueTypes, PushDiscard
  <1>2. /\ Placed({"linked"})' = Placed({"linked"}) /\ Placed({"detached"})' = Placed({"detached"})
        /\ Placed({"linked", "detached"})' = Placed({"linked", "detached"})
    BY <1>0, <1>1 DEF Placed
  <1>3. ListsAreExact'
    BY <1>1, <1>2, ListsStay DEF QInv
  <1>4. HandsAreExact'
    <2>1. \A g \in Finalizers : g # f => holding[g] # t
      BY <1>0, NativeStateAssumption DEF QInv, HandsAreExact
    <2>2. \A g \in Finalizers : HandIsExact(g)'
      BY <1>1, <2>1 DEF QInv, HandsAreExact, HandIsExact
    <2>3. \A g, h \in Finalizers : holding'[g] = holding'[h] /\ holding'[g] # Null => g = h
      BY <1>1 DEF QInv, HandsAreExact
    <2>4. \A u \in Tokens : place'[u] = "handed" => \E g \in Finalizers : holding'[g] = u
      BY <1>1 DEF QInv, HandsAreExact
    <2>. QED
      BY <2>2, <2>3, <2>4 DEF HandsAreExact
  <1>5. CountIsExact' /\ pending' \in Nat
    <2>1. Counting' = Counting \ {f} /\ f \in Counting
      BY <1>0, <1>1 DEF Counting
    <2>2. IsFiniteSet(Counting') /\ Cardinality(Counting') = Cardinality(Counting) - 1
      BY <2>1, FS_RemoveElement DEF QInv, CountIsExact
    <2>3. /\ Cardinality(Counting) \in Nat /\ Cardinality(Counting') \in Nat
          /\ Cardinality(Placed({"linked", "detached"})) \in Nat
          /\ pending = Cardinality(Placed({"linked", "detached"})) + Cardinality(Counting)
      BY <2>2, ListsAreFinite, FS_CardinalityType DEF QInv, CountIsExact, PendingIsExact, Counting
    <2>4. pending' = pending - 1
      BY <2>2, <2>3 DEF PushDiscard, Settled
    <2>5. pending' = Cardinality(Placed({"linked", "detached"})') + Cardinality(Counting')
      BY <1>2, <2>2, <2>3, <2>4
    <2>. QED
      BY <2>2, <2>3, <2>4, <2>5 DEF CountIsExact, PendingIsExact, Counting
  <1>6. QueueTypes' /\ OwnerInv'
    BY <1>5 DEF QInv, QueueTypes, OwnerInv, PushDiscard, Places
  <1>. QED
    BY <1>3, <1>4, <1>5, <1>6 DEF QInv
----------------------------------------------------------------------------
(* take and close: the whole list, whatever was pushed until now, becomes  *)
(* the one that the runtime's thread reclaims.                             *)
LEMMA DetachQueue ==
  ASSUME QInv, owner = "active", head # Closed,
         cursor' = head, place' = Detached(head),
         (head' = Null /\ owner' = "reclaiming") \/ (head' = Closed /\ owner' = "closing"),
         UNCHANGED <<pending, next, threadVars>>
  PROVE  QInv'
  <1>1. PICK list \in Seq(Tokens) : Chain(next, list, head) /\ Elems(list) = Placed({"linked"})
    BY DEF QInv, ListsAreExact, Chained
  <1>2. ListFrom(head) = Placed({"linked"})
    BY <1>1, ListIsChain
  <1>3. cursor = Null
    BY DEF QInv, OwnerInv
  <1>4. Placed({"detached"}) = {}
    <2>1. PICK rest \in Seq(Tokens) : Chain(next, rest, cursor) /\ Elems(rest) = Placed({"detached"})
      BY DEF QInv, ListsAreExact, Chained
    <2>2. rest = <<>>
      <3>. SUFFICES ASSUME rest # <<>> PROVE FALSE
        OBVIOUS
      <3>1. rest[1] \in Tokens /\ cursor = rest[1]
        BY <2>1, LenProperties, EmptySeq DEF Chain
      <3>. QED
        BY <1>3, <3>1, NativeStateAssumption
    <2>3. 1 .. Len(rest) = {}
      BY <2>2, EmptySeq
    <2>. QED
      BY <2>1, <2>3 DEF Elems
  <1>5. \A u \in Tokens : place'[u] = IF place[u] = "linked" THEN "detached" ELSE place[u]
    BY <1>2 DEF Detached, Placed
  <1>6. /\ Placed({"linked"})' = {} /\ Placed({"detached"})' = Placed({"linked"})
        /\ Placed({"linked", "detached"})' = Placed({"linked", "detached"})
    BY <1>4, <1>5 DEF Placed
  <1>7. QueueTypes'
    <2>1. place' \in [Tokens -> Places]
      BY <1>5 DEF Detached, QInv, QueueTypes, Places
    <2>. QED
      BY <2>1 DEF QInv, QueueTypes, threadVars
  <1>8. OwnerInv'
    BY NativeStateAssumption DEF QInv, OwnerInv, QueueTypes
  <1>9. ListsAreExact'
    <2>1. <<>> \in Seq(Tokens) /\ Len(<<>>) = 0 /\ 1 .. 0 = {}
      BY EmptySeq
    <2>2. head' \notin Tokens
      BY NativeStateAssumption
    <2>3. Elems(<<>>) = Placed({"linked"})' /\ Chain(next', <<>>, head')
      BY <1>6, <2>1, <2>2 DEF Elems, Chain, Once
    <2>4. Chain(next', list, cursor') /\ Elems(list) = Placed({"detached"})'
      BY <1>1, <1>6 DEF threadVars
    <2>. QED
      BY <2>1, <2>3, <2>4, Zenon DEF ListsAreExact, Chained
  <1>10. HandsAreExact'
    <2>1. \A u \in Tokens : place'[u] = "handed" <=> place[u] = "handed"
      BY <1>5
    <2>. QED
      BY <2>1 DEF QInv, HandsAreExact, HandIsExact, threadVars
  <1>11. CountIsExact'
    BY <1>6, CountStays DEF QInv, threadVars, Counting
  <1>. QED
    BY <1>7, <1>8, <1>9, <1>10, <1>11 DEF QInv

(* take and close give the runtime's thread the whole list. *)
LEMMA TakeQueue ==
  ASSUME QInv, TakeFinalized \/ CloseFinalizers
  PROVE  QInv'
  <1>1. owner = "active" /\ head # Closed
    BY DEF TakeFinalized, CloseFinalizers, QInv, OwnerInv
  <1>2. /\ cursor' = head /\ place' = Detached(head)
        /\ (head' = Null /\ owner' = "reclaiming") \/ (head' = Closed /\ owner' = "closing")
        /\ UNCHANGED <<pending, next, threadVars>>
    <2>1. CASE TakeFinalized
      BY <2>1 DEF TakeFinalized
    <2>2. CASE CloseFinalizers
      BY <2>2 DEF CloseFinalizers
    <2>. QED
      BY <2>1, <2>2
  <1>. QED
    BY <1>1, <1>2, DetachQueue

(* reclaim_finalized: the signal of the token is still counted. *)
LEMMA ReclaimOneQueue ==
  ASSUME QInv, ReclaimOne
  PROVE  QInv'
  <1>0. cursor \in Tokens /\ owner \in {"reclaiming", "closing"}
    BY DEF QInv, QueueTypes, ReclaimOne
  <1>1. PICK list \in Seq(Tokens) : Chain(next, list, cursor) /\ Elems(list) = Placed({"detached"})
    BY DEF QInv, ListsAreExact, Chained
  <1>2. PICK rest \in Seq(Tokens) : Chain(next, rest, next[cursor]) /\ Elems(rest) = Elems(list) \ {cursor}
    BY <1>0, <1>1, TailChain
  <1>3. place[cursor] = "detached"
    BY <1>0, <1>1, TailChain DEF Placed
  <1>4. /\ \A u \in Tokens : u # cursor => place'[u] = place[u]
        /\ place'[cursor] = "unallocated" /\ next' = next /\ cursor' = next[cursor]
        /\ head' = head /\ owner' = owner /\ UNCHANGED threadVars
    BY <1>0 DEF QInv, QueueTypes, ReclaimOne
  <1>5. /\ Placed({"linked"})' = Placed({"linked"})
        /\ Placed({"detached"})' = Placed({"detached"}) \ {cursor}
        /\ Placed({"linked", "detached"})' = Placed({"linked", "detached"}) \ {cursor}
        /\ cursor \in Placed({"linked", "detached"})
    BY <1>0, <1>3, <1>4 DEF Placed
  <1>6. ListsAreExact'
    <2>1. Chained(head, "linked")'
      BY <1>4, <1>5 DEF QInv, ListsAreExact, Chained
    <2>2. Chain(next', rest, cursor') /\ Elems(rest) = Placed({"detached"})'
      BY <1>1, <1>2, <1>4, <1>5
    <2>. QED
      BY <2>1, <2>2 DEF ListsAreExact, Chained
  <1>7. HandsAreExact'
    BY <1>0, <1>3, <1>4 DEF QInv, HandsAreExact, HandIsExact, threadVars
  <1>8. CountIsExact' /\ pending' \in Nat
    <2>1. Counting' = Counting
      BY <1>4 DEF Counting, threadVars
    <2>2. Cardinality(Placed({"linked", "detached"})') = Cardinality(Placed({"linked", "detached"})) - 1
      BY <1>5, ListsAreFinite, FS_RemoveElement DEF QInv
    <2>3. /\ Cardinality(Counting) \in Nat
          /\ Cardinality(Placed({"linked", "detached"})) \in Nat
          /\ Cardinality(Placed({"linked", "detached"})') \in Nat
          /\ pending = Cardinality(Placed({"linked", "detached"})) + Cardinality(Counting)
      <3>1. IsFiniteSet(Placed({"linked", "detached"})) /\ IsFiniteSet(Placed({"linked", "detached"})')
        BY <1>5, ListsAreFinite, FS_RemoveElement DEF QInv
      <3>. QED
        BY <3>1, FS_CardinalityType DEF QInv, CountIsExact, PendingIsExact, Counting
    <2>4. pending' = pending - 1
      BY <2>2, <2>3 DEF ReclaimOne, Settled
    <2>5. pending' = Cardinality(Placed({"linked", "detached"})') + Cardinality(Counting')
      BY <2>1, <2>2, <2>3, <2>4
    <2>6. pending' \in Nat
      BY <2>1, <2>3, <2>5
    <2>7. IsFiniteSet(Counting')
      BY <2>1 DEF QInv, CountIsExact
    <2>. QED
      BY <2>5, <2>6, <2>7 DEF CountIsExact, PendingIsExact, Counting
  <1>9. QueueTypes' /\ OwnerInv'
    BY <1>0, <1>4, <1>8 DEF QInv, QueueTypes, OwnerInv, ReclaimOne, threadVars, Places
  <1>. QED
    BY <1>6, <1>7, <1>8, <1>9 DEF QInv

queueAll == <<queueVars, place, next, threadVars, cursor>>

(* Steps that do not touch the queue keep it. *)
LEMMA QuietQueue ==
  ASSUME QInv, UNCHANGED queueAll, OwnerInv',
         owner' \in {"active", "publishing", "reclaiming", "closing", "closed", "destroyed"}
  PROVE  QInv'
  BY DEF QInv, QueueTypes, HandsAreExact, HandIsExact, ListsAreExact, Chained, CountIsExact,
         PendingIsExact, Placed, Counting, queueAll, queueVars, threadVars

(* Every step keeps the queue exact. *)
LEMMA NextQueue == QInv /\ [Next]_vars => QInv'
  <1>. SUFFICES ASSUME QInv, [Next]_vars PROVE QInv'
    OBVIOUS
  <1>1. ASSUME NEW s \in States, InstallRejected(s) \/ StartOperation(s) PROVE QInv'
    BY <1>1, QuietQueue DEF InstallRejected, StartOperation, tokenVars, queueAll, QInv, QueueTypes, OwnerInv, queueVars
  <1>2. ASSUME NEW s \in States, NEW t \in Tokens, Install(s, t) PROVE QInv'
    BY <1>2, InstallQueue
  <1>3. CASE EndOperation
    BY <1>3, QuietQueue DEF EndOperation, tokenVars, queueAll, QInv, QueueTypes, OwnerInv, queueVars
  <1>4. ASSUME NEW t \in Tokens, Published(t) \/ RolledBack(t) PROVE QInv'
    BY <1>4, PublishedQueue
  <1>5. CASE TakeFinalized \/ CloseFinalizers
    BY <1>5, TakeQueue
  <1>6. CASE ReclaimOne
    BY <1>6, ReclaimOneQueue
  <1>7. CASE ReclaimEnd \/ RetireStates
    BY <1>7, QuietQueue DEF ReclaimEnd, RetireStates, tokenVars, queueAll, QInv, QueueTypes, OwnerInv, queueVars
  <1>8. ASSUME NEW f \in Finalizers, Push(f) PROVE QInv'
    BY <1>8, PushCountQueue, PushLoadQueue, PushExchangeQueue, PushDiscardQueue DEF Push
  <1>9. ASSUME NEW f \in Finalizers, NEW t \in Tokens, Finalize(f, t) PROVE QInv'
    BY <1>9, FinalizeQueue
  <1>10. CASE UNCHANGED vars
    BY <1>10, QuietQueue DEF vars, tokenVars, queueAll, QInv, QueueTypes, OwnerInv, queueVars
  <1>. QED
    BY <1>1, <1>2, <1>3, <1>4, <1>5, <1>6, <1>7, <1>8, <1>9, <1>10 DEF Next, Owner
----------------------------------------------------------------------------
(* The slots are numbered from one. *)
LEMMA SlotDomain ==
  ASSUME RegistryTypes
  PROVE  Len(slots) \in Nat /\ slots \in [1 .. Len(slots) -> Slot] /\ DOMAIN slots = 1 .. Len(slots)
  BY LenProperties DEF RegistryTypes

(* NativeRegistry::get finds the state of a handle or none. *)
LEMMA GetIsOwn ==
  ASSUME RInv, NEW s \in States, handle[s] # NoId
  PROVE  /\ Get(handle[s]) \in {s, NoState}
         /\ Get(handle[s]) = s <=> slots[handle[s].slot].generation = handle[s].generation
  <1>1. HandleIsBound(s) /\ DOMAIN slots = 1 .. Len(slots)
    BY SlotDomain DEF RInv
  <1>2. s # NoState
    BY NativeStateAssumption
  <1>. QED
    BY <1>1, <1>2 DEF HandleIsBound, Get

(* There are finitely many slots. *)
LEMMA OccupiedIsFinite ==
  ASSUME RegistryTypes
  PROVE  IsFiniteSet(Occupied)
  <1>1. IsFiniteSet(1 .. Len(slots))
    BY SlotDomain, FS_Interval
  <1>2. Occupied \subseteq 1 .. Len(slots)
    BY DEF Occupied
  <1>. QED
    BY <1>1, <1>2, FS_Subset

(* NativeRegistry::insert, whether it uses a slot again or adds one. *)
LEMMA InsertedSlot ==
  ASSUME RInv, NEW s \in States, Inserted(s)
  PROVE  /\ Len(slots) <= Len(slots') /\ slots' \in Seq(Slot) /\ Len(slots') \in Nat
         /\ InsertId = [slot |-> InsertId.slot, generation |-> InsertId.generation]
         /\ 1 .. Len(slots') = (1 .. Len(slots)) \cup {InsertId.slot}
         /\ InsertId.generation \in 1 .. MaxGeneration - 1
         /\ slots'[InsertId.slot] = [generation |-> InsertId.generation, value |-> s]
         /\ \A j \in 1 .. Len(slots) : j # InsertId.slot => slots'[j] = slots[j]
         /\ InsertId.slot \in 1 .. Len(slots) =>
              slots[InsertId.slot] = [generation |-> InsertId.generation, value |-> NoState]
         /\ free' \in Seq(1 .. Len(slots')) /\ Once(free') /\ Elems(free') = Elems(free) \ {InsertId.slot}
         /\ live' = live + 1
  <1>. DEFINE N == Len(slots)
  <1>0. N \in Nat /\ slots \in [1 .. N -> Slot] /\ DOMAIN slots = 1 .. N /\ slots \in Seq(Slot)
    BY SlotDomain DEF RInv, RegistryTypes
  <1>1. CASE free # <<>>
    <2>. DEFINE i == Last(free)
    <2>1. /\ Front(free) \in Seq(1 .. N) /\ Once(Front(free)) /\ Elems(Front(free)) = Elems(free) \ {i}
          /\ i \in 1 .. N /\ i \in Elems(free)
      BY <1>1, PopElems DEF RInv, RegistryTypes, StackIsExact
    <2>2. slots[i].value = NoState /\ slots[i].generation # MaxGeneration
      BY <2>1 DEF RInv, StackIsExact
    <2>3. slots[i] \in Slot
      BY <1>0, <2>1
    <2>4. slots[i] = [generation |-> slots[i].generation, value |-> NoState] /\ slots[i].generation \in 1 .. MaxGeneration
      BY <2>2, <2>3 DEF Slot
    <2>5. slots[i].generation \in 1 .. MaxGeneration - 1
      BY <2>2, <2>4, NativeStateAssumption
    <2>6. InsertId = [slot |-> i, generation |-> slots[i].generation]
      BY <1>1 DEF InsertId
    <2>7. slots' = [slots EXCEPT ![i].value = s] /\ free' = Front(free) /\ live' = live + 1
      BY <1>1 DEF Inserted
    <2>8. slots' \in [1 .. N -> Slot]
      BY <1>0, <2>1, <2>4, <2>7 DEF Slot
    <2>9. slots' \in Seq(Slot) /\ Len(slots') = N
      BY <1>0, <2>8, ElementOfSeq, SeqDef, LenProperties
    <2>10. slots'[i] = [generation |-> slots[i].generation, value |-> s] /\ \A j \in 1 .. N : j # i => slots'[j] = slots[j]
      BY <1>0, <2>1, <2>4, <2>7
    <2>11. 1 .. N = (1 .. N) \cup {i} /\ N <= N
      BY <1>0, <2>1
    <2>. QED
      BY <1>0, <2>1, <2>4, <2>5, <2>6, <2>7, <2>9, <2>10, <2>11
  <1>2. CASE free = <<>>
    <2>1. InsertId = [slot |-> N + 1, generation |-> 1]
      BY <1>2 DEF InsertId
    <2>2. slots' = Append(slots, [generation |-> 1, value |-> s]) /\ free' = free /\ live' = live + 1
      BY <1>2 DEF Inserted
    <2>3. [generation |-> 1, value |-> s] \in Slot
      BY NativeStateAssumption DEF Slot
    <2>4. /\ slots' \in Seq(Slot) /\ Len(slots') = N + 1
          /\ slots'[N + 1] = [generation |-> 1, value |-> s] /\ \A j \in 1 .. N : slots'[j] = slots[j]
      BY <1>0, <2>2, <2>3, AppendProperties
    <2>5. 1 .. N + 1 = (1 .. N) \cup {N + 1} /\ N <= N + 1 /\ N + 1 \notin 1 .. N /\ N + 1 \in Nat
          /\ 1 \in 1 .. MaxGeneration - 1
      BY <1>0, NativeStateAssumption
    <2>6. Len(<<>>) = 0 /\ 1 .. 0 = {} /\ <<>> \in Seq(1 .. N + 1)
      BY EmptySeq
    <2>7. free' \in Seq(1 .. N + 1) /\ Once(free') /\ Elems(free') = {} /\ Elems(free) = {}
      BY <1>2, <2>2, <2>6 DEF Once, Elems
    <2>. QED
      BY <1>0, <2>1, <2>2, <2>4, <2>5, <2>7
  <1>. QED
    BY <1>1, <1>2

(* A registration is new: no handle ever had its slot at its generation. *)
LEMMA InsertRegistry ==
  ASSUME RInv, NEW s \in States, handle[s] = NoId, drops[s] = 0, lease = NoState, Admits,
         Inserted(s), handle' = [handle EXCEPT ![s] = InsertId], UNCHANGED <<lease, drops>>
  PROVE  RInv' /\ InsertId # NoId /\ \A r \in States : handle[r] # InsertId
  <1>. DEFINE N == Len(slots)
              M == Len(slots')
              i == InsertId.slot
              g == InsertId.generation
  <1>0. N \in Nat /\ slots \in [1 .. N -> Slot] /\ DOMAIN slots = 1 .. N
    BY SlotDomain DEF RInv
  <1>1. /\ N <= M /\ slots' \in Seq(Slot) /\ M \in Nat /\ InsertId = [slot |-> i, generation |-> g]
        /\ 1 .. M = (1 .. N) \cup {i} /\ g \in 1 .. MaxGeneration - 1
        /\ slots'[i] = [generation |-> g, value |-> s]
        /\ \A j \in 1 .. N : j # i => slots'[j] = slots[j]
        /\ i \in 1 .. N => slots[i] = [generation |-> g, value |-> NoState]
        /\ free' \in Seq(1 .. M) /\ Once(free') /\ Elems(free') = Elems(free) \ {i}
        /\ live' = live + 1
    BY InsertedSlot
  <1>. HIDE DEF N, M, i, g
  <1>2. i \in 1 .. M /\ i # 0 /\ g \in 1 .. MaxGeneration /\ g # MaxGeneration
    BY <1>1, NativeStateAssumption
  <1>3. InsertId # NoId
    BY <1>1, <1>2 DEF NoId
  <1>4. s # NoState
    BY NativeStateAssumption
  <1>5. ASSUME NEW r \in States PROVE handle[r] # InsertId
    <2>. SUFFICES ASSUME handle[r] = InsertId PROVE FALSE
      OBVIOUS
    <2>1. /\ i \in 1 .. N
          /\ handle[r].generation = slots[i].generation => slots[i].value = r
      BY <1>1, <1>3 DEF RInv, HandleIsBound, N
    <2>2. slots[i].value = r
      BY <1>1, <2>1
    <2>. QED
      BY <1>1, <2>1, <2>2, NativeStateAssumption
  <1>6. /\ \A r \in States : r # s => handle'[r] = handle[r]
        /\ handle'[s] = InsertId
    BY DEF RInv, RegistryTypes
  <1>7. RegistryTypes'
    <2>1. Ids' = [slot : 0 .. M, generation : 0 .. MaxGeneration] /\ Ids = [slot : 0 .. N, generation : 0 .. MaxGeneration]
      BY DEF Ids, M, N
    <2>2. InsertId \in Ids'
      BY <1>1, <1>2, <2>1, NativeStateAssumption
    <2>3. Ids \subseteq Ids'
      BY <1>0, <1>1, <2>1
    <2>4. handle' \in [States -> Ids']
      BY <1>6, <2>2, <2>3 DEF RInv, RegistryTypes
    <2>5. live' \in 0 .. Limit
      BY <1>1, NativeStateAssumption DEF RInv, RegistryTypes, Admits
    <2>. QED
      BY <1>1, <2>4, <2>5 DEF RInv, RegistryTypes, M
  <1>8. Occupied' = Occupied \cup {i} /\ i \notin Occupied
    BY <1>1, <1>2, <1>4 DEF Occupied, N, M
  <1>9. StackIsExact'
    <2>1. Cardinality(Occupied') = Cardinality(Occupied) + 1
      BY <1>8, OccupiedIsFinite, FS_AddElement DEF RInv
    <2>2. Elems(free') = {j \in 1 .. M : slots'[j].value = NoState /\ slots'[j].generation # MaxGeneration}
      <3>1. Elems(free) = {j \in 1 .. N : slots[j].value = NoState /\ slots[j].generation # MaxGeneration}
        BY DEF RInv, StackIsExact, N
      <3>. QED
        BY <1>1, <1>2, <1>4, <3>1
    <2>. QED
      BY <1>1, <2>1, <2>2 DEF RInv, StackIsExact, M
  <1>10. ASSUME NEW j \in 1 .. M PROVE SlotIsBound(j)'
    <2>1. CASE j = i
      BY <1>1, <1>2, <1>6, <2>1 DEF SlotIsBound
    <2>2. CASE j # i
      <3>1. j \in 1 .. N /\ slots'[j] = slots[j] /\ SlotIsBound(j)
        BY <1>1, <2>2 DEF RInv, N
      <3>2. slots[j] \in Slot
        BY <1>0, <3>1 DEF N
      <3>3. slots[j].value # NoState => slots[j].value \in States /\ slots[j].value # s
        <4>1. slots[j].value = s => handle[s] = [slot |-> j, generation |-> slots[j].generation]
          BY <1>4, <3>1 DEF SlotIsBound
        <4>2. j # 0
          BY <1>0, <3>1
        <4>. QED
          BY <3>2, <4>1, <4>2 DEF Slot, NoId
      <3>. QED
        BY <1>6, <3>1, <3>3 DEF SlotIsBound
    <2>. QED
      BY <2>1, <2>2
  <1>11. ASSUME NEW r \in States PROVE HandleIsBound(r)'
    <2>1. CASE r = s
      BY <1>1, <1>2, <1>6, <2>1 DEF HandleIsBound, M
    <2>2. CASE r # s
      <3>. SUFFICES ASSUME handle[r] # NoId PROVE HandleIsBound(r)'
        BY <1>6, <2>2 DEF HandleIsBound
      <3>. DEFINE n == handle[r].slot
      <3>1. /\ n \in 1 .. N /\ handle[r].generation \in 1 .. MaxGeneration - 1
            /\ handle[r].generation <= slots[n].generation
            /\ handle[r].generation = slots[n].generation => slots[n].value = r
        BY DEF RInv, HandleIsBound, N
      <3>2. n \in 1 .. M
        BY <1>1, <3>1
      <3>3. CASE n = i
        <4>1. slots[n].generation = g /\ slots[n].value = NoState /\ slots'[n].generation = g
          BY <1>1, <3>1, <3>3
        <4>2. handle[r].generation # g
          BY <3>1, <4>1, NativeStateAssumption
        <4>. QED
          BY <1>6, <2>2, <3>1, <3>2, <4>1, <4>2 DEF HandleIsBound, M
      <3>4. CASE n # i
        BY <1>1, <1>6, <2>2, <3>1, <3>2, <3>4 DEF HandleIsBound, M
      <3>. QED
        BY <3>3, <3>4
    <2>. QED
      BY <2>1, <2>2
  <1>12. HandlesDiffer'
    BY <1>5, <1>6 DEF RInv, HandlesDiffer
  <1>13. ASSUME NEW r \in States PROVE DropsAreExact(r)'
    <2>0. lease' = NoState /\ drops' = drops /\ r # NoState /\ DOMAIN slots' = 1 .. M
      BY <1>1, LenProperties, NativeStateAssumption DEF M
    <2>1. CASE r = s
      <3>1. Get(handle[s])' = s
        BY <1>1, <1>2, <1>6, <2>0 DEF Get
      <3>. QED
        BY <1>3, <1>6, <2>1, <3>1 DEF DropsAreExact
    <2>2. CASE r # s
      <3>1. handle'[r] = handle[r] /\ DropsAreExact(r)
        BY <1>6, <2>2 DEF RInv
      <3>2. handle[r] # NoId => (r = Get(handle[r]) <=> r = Get(handle[r])')
        <4>. SUFFICES ASSUME handle[r] # NoId PROVE r = Get(handle[r]) <=> r = Get(handle[r])'
          OBVIOUS
        <4>. DEFINE n == handle[r].slot
        <4>1. n \in 1 .. N /\ n \in 1 .. M
          BY <1>1 DEF RInv, HandleIsBound, N
        <4>2. CASE n = i
          <5>1. slots[n] = [generation |-> g, value |-> NoState] /\ slots'[n] = [generation |-> g, value |-> s]
            BY <1>1, <4>1, <4>2
          <5>. QED
            BY <1>0, <2>0, <2>2, <3>1, <4>1, <5>1 DEF Get, N
        <4>3. CASE n # i
          BY <1>0, <1>1, <2>0, <3>1, <4>1, <4>3 DEF Get, N
        <4>. QED
          BY <4>2, <4>3
      <3>. QED
        BY <2>0, <3>1, <3>2 DEF DropsAreExact
    <2>. QED
      BY <2>1, <2>2
  <1>. QED
    BY <1>3, <1>5, <1>7, <1>9, <1>10, <1>11, <1>12, <1>13 DEF RInv, M

registryAll == <<registryVars, handle, lease, drops>>

(* Steps that do not touch the registry keep it. *)
LEMMA QuietRegistry ==
  ASSUME RInv, UNCHANGED registryAll
  PROVE  RInv' /\ Len(slots') = Len(slots)
  <1>1. UNCHANGED <<slots, free, live, handle, lease, drops>>
    BY DEF registryAll, registryVars
  <1>2. RegistryTypes' /\ StackIsExact'
    BY <1>1 DEF RInv, RegistryTypes, Ids, StackIsExact, Occupied
  <1>3. \A i \in 1 .. Len(slots) : SlotIsBound(i)'
    BY <1>1 DEF RInv, SlotIsBound
  <1>4. \A s \in States : HandleIsBound(s)' /\ DropsAreExact(s)'
    BY <1>1 DEF RInv, HandleIsBound, DropsAreExact, Get
  <1>. QED
    BY <1>1, <1>2, <1>3, <1>4 DEF RInv, HandlesDiffer

(* NativeRegistry::remove raises the generation of the slot it empties. *)
LEMMA RemoveRegistry ==
  ASSUME RInv, NEW s \in States, handle[s] # NoId, Removed(handle[s]), UNCHANGED <<handle, lease>>
  PROVE  RInv' /\ Len(slots') = Len(slots)
  <1>. DEFINE N == Len(slots)
              n == handle[s].slot
              g == handle[s].generation
  <1>0. N \in Nat /\ slots \in [1 .. N -> Slot] /\ DOMAIN slots = 1 .. N
    BY SlotDomain DEF RInv
  <1>1. CASE Get(handle[s]) = NoState
    BY <1>1, QuietRegistry DEF Removed, registryVars, registryAll
  <1>2. CASE Get(handle[s]) # NoState
    <2>1. /\ n \in 1 .. N /\ slots[n].generation = g /\ slots[n].value = s /\ g \in 1 .. MaxGeneration - 1
          /\ Get(handle[s]) = s
      BY <1>2, GetIsOwn DEF RInv, HandleIsBound
    <2>2. NextGeneration(g) = g + 1 /\ g + 1 \in 1 .. MaxGeneration /\ g + 1 # g /\ g \in Nat
      BY <2>1, NativeStateAssumption DEF NextGeneration
    <2>3. /\ slots' = [slots EXCEPT ![n] = [generation |-> g + 1, value |-> NoState]]
          /\ live' = live - 1
          /\ free' = IF g + 1 # MaxGeneration THEN Append(free, n) ELSE free
          /\ drops' = [drops EXCEPT ![s] = @ + IF s = lease THEN 0 ELSE 1]
          /\ handle' = handle /\ lease' = lease
      BY <1>2, <2>1, <2>2 DEF Removed, Dropped
    <2>4. [generation |-> g + 1, value |-> NoState] \in Slot
      BY <2>2 DEF Slot
    <2>5. slots' \in [1 .. N -> Slot]
      BY <1>0, <2>3, <2>4
    <2>6. slots' \in Seq(Slot) /\ Len(slots') = N
      BY <1>0, <2>5, ElementOfSeq, SeqDef, LenProperties
    <2>7. /\ slots'[n] = [generation |-> g + 1, value |-> NoState]
          /\ \A j \in 1 .. N : j # n => slots'[j] = slots[j]
      BY <1>0, <2>1, <2>3
    <2>8. s # NoState /\ drops[s] = 0 /\ DOMAIN slots' = 1 .. N
      BY <2>1, <2>5, NativeStateAssumption DEF RInv, DropsAreExact
    <2>. HIDE DEF N, n, g
    <2>9. Occupied' = Occupied \ {n} /\ n \in Occupied
      BY <2>1, <2>6, <2>7, <2>8 DEF Occupied, N
    <2>10. Cardinality(Occupied') = Cardinality(Occupied) - 1 /\ Cardinality(Occupied') \in Nat
      BY <2>9, OccupiedIsFinite, FS_RemoveElement, FS_CardinalityType DEF RInv
    <2>11. RegistryTypes' /\ StackIsExact'
      <3>1. live' \in 0 .. Limit /\ live' = Cardinality(Occupied')
        BY <2>3, <2>10, NativeStateAssumption DEF RInv, RegistryTypes, StackIsExact
      <3>2. n \notin Elems(free) /\ n \in 1 .. N
            /\ Elems(free) = {j \in 1 .. N : slots[j].value = NoState /\ slots[j].generation # MaxGeneration}
        BY <2>1, <2>8 DEF RInv, StackIsExact, N
      <3>3. CASE g + 1 # MaxGeneration
        <4>1. free' \in Seq(1 .. N) /\ Once(free') /\ Elems(free') = Elems(free) \cup {n}
          BY <2>3, <3>2, <3>3, PushElems DEF RInv, RegistryTypes, StackIsExact, N
        <4>2. Elems(free') = {j \in 1 .. N : slots'[j].value = NoState /\ slots'[j].generation # MaxGeneration}
          BY <2>7, <3>2, <3>3, <4>1
        <4>. QED
          BY <2>3, <2>6, <2>8, <3>1, <4>1, <4>2 DEF RInv, RegistryTypes, StackIsExact, Ids, N
      <3>4. CASE g + 1 = MaxGeneration
        <4>1. free' \in Seq(1 .. N) /\ Once(free') /\ Elems(free') = Elems(free)
          BY <2>3, <3>4 DEF RInv, RegistryTypes, StackIsExact, N
        <4>2. Elems(free') = {j \in 1 .. N : slots'[j].value = NoState /\ slots'[j].generation # MaxGeneration}
          BY <2>7, <3>2, <3>4, <4>1
        <4>. QED
          BY <2>3, <2>6, <2>8, <3>1, <4>1, <4>2 DEF RInv, RegistryTypes, StackIsExact, Ids, N
      <3>. QED
        BY <3>3, <3>4
    <2>12. \A j \in 1 .. N : SlotIsBound(j)'
      BY <2>3, <2>7 DEF RInv, SlotIsBound, N
    <2>13. ASSUME NEW r \in States PROVE HandleIsBound(r)'
      <3>. SUFFICES ASSUME handle[r] # NoId PROVE HandleIsBound(r)'
        BY <2>3 DEF HandleIsBound
      <3>1. /\ handle[r].slot \in 1 .. N /\ handle[r].generation \in 1 .. MaxGeneration - 1
            /\ handle[r].generation <= slots[handle[r].slot].generation
            /\ handle[r].generation = slots[handle[r].slot].generation => slots[handle[r].slot].value = r
        BY DEF RInv, HandleIsBound, N
      <3>2. CASE handle[r].slot = n
        <4>1. handle[r].generation <= g /\ slots'[handle[r].slot].generation = g + 1 /\ handle[r].generation \in Int
          BY <2>1, <2>7, <3>1, <3>2
        <4>2. handle[r].generation <= g + 1 /\ handle[r].generation # g + 1
          BY <2>2, <4>1
        <4>. QED
          BY <2>3, <2>6, <3>1, <4>1, <4>2 DEF HandleIsBound, N
      <3>3. CASE handle[r].slot # n
        BY <2>3, <2>6, <2>7, <3>1, <3>3 DEF HandleIsBound, N
      <3>. QED
        BY <3>2, <3>3
    <2>14. ASSUME NEW r \in States PROVE DropsAreExact(r)'
      <3>0. DropsAreExact(r) /\ drops \in [States -> Nat] /\ r # NoState
        BY NativeStateAssumption DEF RInv, RegistryTypes
      <3>1. CASE r = s
        <4>1. Get(handle[s])' = NoState
          BY <2>1, <2>2, <2>3, <2>7, <2>8 DEF Get, n, g
        <4>2. drops'[s] = IF s = lease THEN 0 ELSE 1
          BY <2>3, <2>8, <3>0
        <4>. QED
          BY <2>3, <2>8, <3>1, <4>1, <4>2 DEF DropsAreExact
      <3>2. CASE r # s
        <4>1. drops'[r] = drops[r]
          BY <2>3, <3>0, <3>2
        <4>2. ASSUME handle[r] # NoId PROVE r = Get(handle[r]) <=> r = Get(handle[r])'
          <5>1. CASE handle[r].slot = n
            <6>1. Get(handle[r]) # r /\ handle[r].generation <= g /\ handle[r].generation \in Int
              BY <1>0, <2>1, <3>0, <3>2, <4>2, <5>1 DEF RInv, HandleIsBound, Get
            <6>2. handle[r].generation # g + 1
              BY <2>2, <6>1
            <6>. QED
              BY <2>3, <2>7, <2>8, <3>0, <5>1, <6>1, <6>2 DEF Get
          <5>2. CASE handle[r].slot # n
            <6>1. handle[r].slot \in 1 .. N
              BY <4>2 DEF RInv, HandleIsBound, N
            <6>. QED
              BY <1>0, <2>3, <2>7, <2>8, <5>2, <6>1 DEF Get, N
          <5>. QED
            BY <5>1, <5>2
        <4>. QED
          BY <2>3, <3>0, <4>1, <4>2 DEF DropsAreExact
      <3>. QED
        BY <3>1, <3>2
    <2>15. HandlesDiffer'
      BY <2>3 DEF RInv, HandlesDiffer
    <2>. QED
      BY <2>6, <2>11, <2>12, <2>13, <2>14, <2>15 DEF RInv, N
  <1>. QED
    BY <1>1, <1>2

(* NativeRegistry::drain, in teardown. *)
LEMMA RetireRegistry ==
  ASSUME RInv, EndInv, RetireStates
  PROVE  RInv' /\ Len(slots') = Len(slots) /\ Occupied' = {}
  <1>. DEFINE N == Len(slots)
              kept(s) == \E i \in 1 .. N : slots[i].value = s
  <1>0. N \in Nat /\ slots \in [1 .. N -> Slot] /\ DOMAIN slots = 1 .. N /\ slots \in Seq(Slot)
    BY SlotDomain DEF RInv, RegistryTypes
  <1>1. /\ slots' = [i \in 1 .. N |-> [generation |-> NextGeneration(slots[i].generation), value |-> NoState]]
        /\ free' = Refilled /\ live' = 0 /\ handle' = handle /\ lease' = lease
        /\ drops' = [s \in States |-> drops[s] + IF kept(s) THEN 1 ELSE 0]
    BY <1>0, Zenon DEF RetireStates
  <1>2. \A i \in 1 .. N : slots[i].generation \in 1 .. MaxGeneration /\ NextGeneration(slots[i].generation) \in 1 .. MaxGeneration
    BY <1>0, NativeStateAssumption DEF Slot, NextGeneration
  <1>3. slots' \in [1 .. N -> Slot]
    BY <1>1, <1>2 DEF Slot
  <1>4. slots' \in Seq(Slot) /\ Len(slots') = N /\ DOMAIN slots' = 1 .. N
    BY <1>0, <1>3, ElementOfSeq, SeqDef, LenProperties
  <1>5. \A i \in 1 .. N : slots'[i].value = NoState /\ slots'[i].generation = NextGeneration(slots[i].generation)
    BY <1>1
  <1>6. Refilled \in Seq(1 .. N) /\ Once(Refilled) /\ Elems(Refilled) = {i \in 1 .. N : Keeps(i)}
    BY <1>0, RefilledIsExact
  <1>7. lease = NoState
    BY DEF EndInv, RetireStates
  <1>. HIDE DEF N
  <1>8. Occupied' = {}
    BY <1>4, <1>5 DEF Occupied
  <1>9. RegistryTypes'
    <2>1. drops' \in [States -> Nat]
      BY <1>1 DEF RInv, RegistryTypes
    <2>2. live' \in 0 .. Limit
      BY <1>1, NativeStateAssumption
    <2>. QED
      BY <1>1, <1>4, <1>6, <2>1, <2>2 DEF RInv, RegistryTypes, Ids, N
  <1>10. StackIsExact'
    <2>1. Elems(free') = {i \in 1 .. N : slots'[i].value = NoState /\ slots'[i].generation # MaxGeneration}
      BY <1>1, <1>5, <1>6 DEF Keeps
    <2>. QED
      BY <1>1, <1>4, <1>6, <1>8, <2>1, FS_EmptySet DEF StackIsExact
  <1>11. ASSUME NEW s \in States PROVE HandleIsBound(s)'
    <2>. SUFFICES ASSUME handle[s] # NoId PROVE HandleIsBound(s)'
      BY <1>1 DEF HandleIsBound
    <2>. DEFINE n == handle[s].slot
                g == handle[s].generation
    <2>1. n \in 1 .. N /\ g \in 1 .. MaxGeneration - 1 /\ g <= slots[n].generation
      BY DEF RInv, HandleIsBound, N
    <2>2. g <= NextGeneration(slots[n].generation) /\ g # NextGeneration(slots[n].generation)
      BY <1>2, <2>1, NativeStateAssumption DEF NextGeneration
    <2>. QED
      BY <1>1, <1>4, <1>5, <2>1, <2>2 DEF HandleIsBound
  <1>12. ASSUME NEW s \in States PROVE DropsAreExact(s)'
    <2>0. DropsAreExact(s) /\ drops \in [States -> Nat] /\ s # NoState /\ HandleIsBound(s)
      BY NativeStateAssumption DEF RInv, RegistryTypes
    <2>1. kept(s) => handle[s] # NoId /\ Get(handle[s]) = s
      <3>. SUFFICES ASSUME kept(s) PROVE handle[s] # NoId /\ Get(handle[s]) = s
        OBVIOUS
      <3>1. PICK i \in 1 .. N : slots[i].value = s
        OBVIOUS
      <3>2. handle[s] = [slot |-> i, generation |-> slots[i].generation]
        BY <2>0, <3>1 DEF RInv, SlotIsBound, N
      <3>3. i # 0
        BY <1>0 DEF N
      <3>. QED
        BY <1>0, <3>1, <3>2, <3>3 DEF Get, NoId, N
    <2>2. CASE handle[s] = NoId
      <3>1. drops'[s] = drops[s] + 0
        BY <1>1, <2>1, <2>2
      <3>. QED
        BY <1>1, <2>0, <2>2, <3>1 DEF DropsAreExact
    <2>3. CASE handle[s] # NoId
      <3>1. Get(handle[s])' = NoState
        BY <1>1, <1>4, <1>5 DEF Get
      <3>2. Get(handle[s]) = s => kept(s)
        BY <2>0, <2>3 DEF Get, HandleIsBound, N
      <3>3. drops'[s] = 1
        BY <1>1, <1>7, <2>0, <2>1, <2>3, <3>2 DEF DropsAreExact
      <3>. QED
        BY <1>1, <1>7, <2>0, <2>3, <3>1, <3>3 DEF DropsAreExact
    <2>. QED
      BY <2>2, <2>3
  <1>13. \A i \in 1 .. N : SlotIsBound(i)'
    BY <1>5 DEF SlotIsBound
  <1>14. HandlesDiffer'
    BY <1>1 DEF RInv, HandlesDiffer
  <1>. QED
    BY <1>4, <1>8, <1>9, <1>10, <1>11, <1>12, <1>13, <1>14 DEF RInv, N

(* A rejected state is dropped; an operation takes its lease and gives it   *)
(* back, and no registration changes.                                      *)
LEMMA LeaseRegistry ==
  ASSUME RInv, NEW s \in States, InstallRejected(s) \/ StartOperation(s) \/ EndOperation
  PROVE  RInv'
  <1>1. UNCHANGED <<slots, free, live, handle>>
    BY DEF InstallRejected, StartOperation, EndOperation, registryVars
  <1>2. \A r \in States : DropsAreExact(r) /\ r # NoState /\ drops[r] \in Nat /\ Get(handle[r])' = Get(handle[r])
    BY <1>1, NativeStateAssumption DEF RInv, RegistryTypes, Get
  <1>3. /\ lease' \in States \cup {NoState} /\ drops' \in [States -> Nat]
        /\ \A r \in States : DropsAreExact(r)'
    <2>1. CASE InstallRejected(s)
      <3>1. /\ drops' = [drops EXCEPT ![s] = @ + 1] /\ lease' = NoState /\ lease = NoState
            /\ handle[s] = NoId /\ drops[s] = 0
        BY <1>2, <2>1 DEF InstallRejected, Dropped
      <3>2. drops' \in [States -> Nat] /\ drops'[s] = 1 /\ \A r \in States : r # s => drops'[r] = drops[r]
        BY <3>1 DEF RInv, RegistryTypes
      <3>. QED
        BY <1>1, <1>2, <3>1, <3>2 DEF DropsAreExact
    <2>2. CASE StartOperation(s)
      <3>1. lease' = s /\ lease = NoState /\ handle[s] # NoId /\ Get(handle[s]) = s /\ drops' = drops
        BY <2>2, GetIsOwn DEF StartOperation
      <3>. QED
        BY <1>1, <1>2, <3>1 DEF RInv, RegistryTypes, DropsAreExact
    <2>3. CASE EndOperation
      <3>0. PICK l \in States : l = lease
        BY <2>3 DEF EndOperation, RInv, RegistryTypes
      <3>. DEFINE left == IF Get(handle[l]) = l THEN 0 ELSE 1
      <3>1. /\ lease = l /\ lease' = NoState
            /\ drops' = [drops EXCEPT ![l] = @ + left]
        BY <2>3, <3>0 DEF EndOperation
      <3>2. handle[l] # NoId /\ drops[l] = 0
        BY <1>2, <3>1 DEF DropsAreExact
      <3>3. drops' \in [States -> Nat] /\ drops'[l] = left /\ \A r \in States : r # l => drops'[r] = drops[r]
        BY <3>1, <3>2 DEF RInv, RegistryTypes
      <3>4. DropsAreExact(l)'
        BY <1>1, <1>2, <3>1, <3>2, <3>3 DEF DropsAreExact
      <3>5. ASSUME NEW r \in States, r # l PROVE DropsAreExact(r)'
        BY <1>1, <1>2, <3>1, <3>3, <3>5 DEF DropsAreExact
      <3>. QED
        BY <3>1, <3>3, <3>4, <3>5
    <2>. QED
      BY <2>1, <2>2, <2>3
  <1>4. RegistryTypes' /\ StackIsExact'
    BY <1>1, <1>3 DEF RInv, RegistryTypes, Ids, StackIsExact, Occupied
  <1>5. \A i \in 1 .. Len(slots) : SlotIsBound(i)'
    BY <1>1 DEF RInv, SlotIsBound
  <1>6. \A r \in States : HandleIsBound(r)'
    BY <1>1 DEF RInv, HandleIsBound
  <1>. QED
    BY <1>1, <1>3, <1>4, <1>5, <1>6 DEF RInv, HandlesDiffer
----------------------------------------------------------------------------
(* A step that boxes no token leaves each token the name of its state. *)
LEMMA TokensStay ==
  ASSUME TInv, UNCHANGED <<id, handle>>, Len(slots') = Len(slots),
         \A t \in Tokens : place'[t] # "unallocated" => place[t] # "unallocated"
  PROVE  TInv'
  BY DEF TInv, Ids

(* try_install_native_state boxes one token, for a new registration. *)
LEMMA InstallTokens ==
  ASSUME QInv, RInv, TInv, NEW s \in States, NEW t \in Tokens, Install(s, t)
  PROVE  RInv' /\ TInv'
  <1>. DEFINE new == InsertId
  <1>1. /\ handle[s] = NoId /\ drops[s] = 0 /\ lease = NoState /\ Admits /\ Inserted(s)
        /\ handle' = [handle EXCEPT ![s] = new] /\ UNCHANGED <<lease, drops>>
        /\ id' = [id EXCEPT ![t] = new] /\ place' = [place EXCEPT ![t] = "rooted"]
        /\ place[t] = "unallocated"
    BY DEF Install
  <1>2. RInv' /\ new # NoId /\ \A r \in States : handle[r] # new
    BY <1>1, InsertRegistry
  <1>3. Len(slots) <= Len(slots') /\ Len(slots) \in Nat /\ Len(slots') \in Nat
    BY <1>1, InsertedSlot, SlotDomain DEF RInv
  <1>4. Ids \subseteq Ids'
    BY <1>3 DEF Ids
  <1>. HIDE DEF new
  <1>5. /\ handle'[s] = new /\ id'[t] = new
        /\ \A r \in States : r # s => handle'[r] = handle[r]
        /\ \A u \in Tokens : u # t => id'[u] = id[u] /\ place'[u] = place[u]
    BY <1>1 DEF RInv, RegistryTypes, TInv, QInv, QueueTypes
  <1>6. new \in Ids'
    BY <1>2, <1>5 DEF RInv, RegistryTypes
  <1>7. id' \in [Tokens -> Ids']
    BY <1>1, <1>4, <1>6 DEF TInv
  <1>8. ASSUME NEW u \in Tokens, u # t, place'[u] # "unallocated"
        PROVE  id'[u] # NoId /\ id'[u] # new /\ \E r \in States : handle'[r] = id'[u]
    <2>1. PICK r \in States : handle[r] = id[u] /\ id[u] # NoId
      BY <1>5, <1>8 DEF TInv
    <2>. QED
      BY <1>1, <1>2, <1>5, <1>8, <2>1
  <1>9. ASSUME NEW u \in Tokens, NEW v \in Tokens, u # v, u # t, v # t,
               place'[u] # "unallocated", place'[v] # "unallocated"
        PROVE  id'[u] # id'[v]
    BY <1>5, <1>9 DEF TInv
  <1>. QED
    BY <1>2, <1>5, <1>7, <1>8, <1>9 DEF TInv

(* A token that is rolled back or reclaimed removes the registration of    *)
(* the one state it names.                                                 *)
LEMMA RemovedByToken ==
  ASSUME RInv, TInv, NEW t \in Tokens, place[t] # "unallocated", Removed(id[t]), UNCHANGED <<handle, lease>>
  PROVE  RInv' /\ Len(slots') = Len(slots)
  <1>1. PICK s \in States : handle[s] = id[t] /\ id[t] # NoId
    BY DEF TInv
  <1>. QED
    BY <1>1, RemoveRegistry

(* Only try_install_native_state boxes a token: any other step moves or     *)
(* frees one that is boxed.                                                *)
LEMMA PlacesStay ==
  ASSUME QInv, [Next]_vars, ~ \E s \in States, t \in Tokens : Install(s, t), NEW u \in Tokens,
         place'[u] # "unallocated"
  PROVE  place[u] # "unallocated"
  <1>1. ASSUME NEW s \in States, InstallRejected(s) \/ StartOperation(s) PROVE place[u] # "unallocated"
    BY <1>1 DEF InstallRejected, StartOperation, tokenVars
  <1>2. ASSUME NEW t \in Tokens, Published(t) \/ RolledBack(t) PROVE place[u] # "unallocated"
    BY <1>2 DEF Published, RolledBack, QInv, QueueTypes
  <1>3. CASE TakeFinalized \/ CloseFinalizers
    <2>1. place' = Detached(head)
      BY <1>3 DEF TakeFinalized, CloseFinalizers
    <2>2. PICK list \in Seq(Tokens) : Chain(next, list, head) /\ Elems(list) = Placed({"linked"})
      BY DEF QInv, ListsAreExact, Chained
    <2>3. ListFrom(head) = Placed({"linked"})
      BY <2>2, ListIsChain
    <2>. QED
      BY <2>1, <2>3 DEF Detached, Placed
  <1>4. CASE EndOperation \/ ReclaimEnd \/ RetireStates \/ UNCHANGED vars
    BY <1>4 DEF EndOperation, ReclaimEnd, RetireStates, tokenVars, vars
  <1>5. CASE ReclaimOne
    BY <1>5 DEF ReclaimOne, QInv, QueueTypes
  <1>6. ASSUME NEW f \in Finalizers, Push(f) PROVE place[u] # "unallocated"
    <2>1. CASE PushCount(f) \/ PushLoad(f)
      BY <2>1 DEF PushCount, PushLoad, tokenVars
    <2>2. CASE PushExchange(f) \/ PushDiscard(f)
      <3>1. holding[f] \in Tokens /\ place[holding[f]] = "handed"
        BY <2>2 DEF PushExchange, PushDiscard, QInv, HandsAreExact, HandIsExact
      <3>. QED
        BY <2>2, <3>1 DEF PushExchange, PushDiscard, QInv, QueueTypes
    <2>. QED
      BY <1>6, <2>1, <2>2 DEF Push
  <1>7. ASSUME NEW f \in Finalizers, NEW t \in Tokens, Finalize(f, t) PROVE place[u] # "unallocated"
    BY <1>7 DEF Finalize, QInv, QueueTypes
  <1>. QED
    BY <1>1, <1>2, <1>3, <1>4, <1>5, <1>6, <1>7 DEF Next, Owner
----------------------------------------------------------------------------
(* A new runtime has an empty queue and registry. *)
LEMMA InitNative == Init => NInv
  <1>. SUFFICES ASSUME Init PROVE NInv
    OBVIOUS
  <1>1. Len(slots) = 0 /\ slots \in Seq(Slot) /\ free \in Seq(1 .. 0) /\ 1 .. 0 = {} /\ Len(free) = 0
    BY EmptySeq DEF Init
  <1>2. Occupied = {} /\ Elems(free) = {} /\ Once(free)
    BY <1>1 DEF Occupied, Elems, Once
  <1>3. NoId \in Ids
    BY <1>1, NativeStateAssumption DEF NoId, Ids
  <1>4. RegistryTypes /\ StackIsExact
    BY <1>1, <1>2, <1>3, FS_EmptySet, NativeStateAssumption DEF Init, RegistryTypes, StackIsExact
  <1>5. \A s \in States : HandleIsBound(s) /\ DropsAreExact(s)
    BY NativeStateAssumption DEF Init, HandleIsBound, DropsAreExact
  <1>6. RInv
    BY <1>1, <1>4, <1>5 DEF Init, RInv, HandlesDiffer
  <1>7. TInv /\ EndInv
    BY <1>2, <1>3 DEF Init, TInv, EndInv
  <1>. QED
    BY <1>6, <1>7, InitQueue DEF NInv

(* Every step keeps the queue and the registry exact. *)
LEMMA NextNative == NInv /\ [Next]_vars => NInv'
  <1>. SUFFICES ASSUME NInv, [Next]_vars PROVE NInv'
    OBVIOUS
  <1>0. QInv /\ RInv /\ TInv /\ EndInv /\ QInv'
    BY NextQueue DEF NInv
  <1>1. CASE \E s \in States, t \in Tokens : Install(s, t)
    <2>1. PICK s \in States, t \in Tokens : Install(s, t)
      BY <1>1
    <2>2. RInv' /\ TInv'
      BY <1>0, <2>1, InstallTokens
    <2>3. EndInv'
      BY <2>1 DEF Install, EndInv
    <2>. QED
      BY <1>0, <2>2, <2>3 DEF NInv
  <1>2. CASE ~ \E s \in States, t \in Tokens : Install(s, t)
    <2>0. \A t \in Tokens : place'[t] # "unallocated" => place[t] # "unallocated"
      BY <1>0, <1>2, PlacesStay
    <2>. SUFFICES RInv' /\ UNCHANGED <<id, handle>> /\ Len(slots') = Len(slots) /\ EndInv'
      BY <1>0, <2>0, TokensStay DEF NInv
    <2>1. ASSUME NEW s \in States, InstallRejected(s) \/ StartOperation(s)
          PROVE  RInv' /\ UNCHANGED <<id, handle>> /\ Len(slots') = Len(slots) /\ EndInv'
      BY <1>0, <2>1, LeaseRegistry DEF InstallRejected, StartOperation, registryVars, tokenVars, EndInv, Occupied
    <2>2. CASE EndOperation
      <3>1. PICK s \in States : s = lease
        BY <1>0, <2>2 DEF EndOperation, RInv, RegistryTypes
      <3>. QED
        BY <1>0, <2>2, LeaseRegistry DEF EndOperation, registryVars, tokenVars, EndInv, Occupied
    <2>3. ASSUME NEW t \in Tokens, Published(t) \/ RolledBack(t)
          PROVE  RInv' /\ UNCHANGED <<id, handle>> /\ Len(slots') = Len(slots) /\ EndInv'
      <3>1. UNCHANGED <<id, handle, lease>> /\ owner' = "active" /\ place[t] # "unallocated"
        BY <2>3 DEF Published, RolledBack, stateVars
      <3>2. Removed(id[t]) \/ UNCHANGED registryAll
        BY <2>3 DEF Published, RolledBack, stateVars, registryAll
      <3>3. RInv' /\ Len(slots') = Len(slots)
        BY <1>0, <3>1, <3>2, RemovedByToken, QuietRegistry
      <3>. QED
        BY <3>1, <3>3 DEF EndInv
    <2>4. CASE TakeFinalized \/ CloseFinalizers
      <3>1. UNCHANGED <<id, registryVars, stateVars>> /\ owner' # "destroyed"
            /\ owner' = "closing" => lease = NoState /\ owner' # "closed"
        BY <2>4 DEF TakeFinalized, CloseFinalizers
      <3>. QED
        BY <1>0, <2>4, <3>1, QuietRegistry DEF registryAll, stateVars, EndInv, TakeFinalized, CloseFinalizers
    <2>5. CASE ReclaimOne
      <3>1. cursor \in Tokens
        BY <1>0, <2>5 DEF ReclaimOne, QInv, QueueTypes
      <3>2. place[cursor] # "unallocated"
        <4>1. PICK list \in Seq(Tokens) : Chain(next, list, cursor) /\ Elems(list) = Placed({"detached"})
          BY <1>0 DEF QInv, ListsAreExact, Chained
        <4>2. cursor \in Elems(list)
          BY <3>1, <4>1, TailChain
        <4>. QED
          BY <4>1, <4>2 DEF Placed
      <3>3. RInv' /\ Len(slots') = Len(slots)
        BY <1>0, <2>5, <3>1, <3>2, RemovedByToken DEF ReclaimOne
      <3>. QED
        BY <1>0, <2>5, <3>3 DEF ReclaimOne, EndInv
    <2>6. CASE ReclaimEnd
      BY <1>0, <2>6, QuietRegistry DEF ReclaimEnd, registryAll, stateVars, tokenVars, EndInv
    <2>7. CASE RetireStates
      BY <1>0, <2>7, RetireRegistry DEF RetireStates, EndInv, tokenVars
    <2>8. ASSUME NEW f \in Finalizers, Push(f)
          PROVE  RInv' /\ UNCHANGED <<id, handle>> /\ Len(slots') = Len(slots) /\ EndInv'
      <3>1. UNCHANGED <<id, owner, registryVars, stateVars>>
        BY <2>8 DEF Push, PushCount, PushLoad, PushExchange, PushDiscard, tokenVars
      <3>. QED
        BY <1>0, <3>1, QuietRegistry DEF registryAll, registryVars, stateVars, EndInv, Occupied
    <2>9. ASSUME NEW f \in Finalizers, NEW t \in Tokens, Finalize(f, t)
          PROVE  RInv' /\ UNCHANGED <<id, handle>> /\ Len(slots') = Len(slots) /\ EndInv'
      <3>1. UNCHANGED <<id, owner, registryVars, stateVars>>
        BY <2>9 DEF Finalize
      <3>. QED
        BY <1>0, <3>1, QuietRegistry DEF registryAll, registryVars, stateVars, EndInv, Occupied
    <2>10. CASE UNCHANGED vars
      <3>1. UNCHANGED <<id, owner, registryVars, stateVars>>
        BY <2>10 DEF vars, tokenVars
      <3>. QED
        BY <1>0, <3>1, QuietRegistry DEF registryAll, registryVars, stateVars, EndInv, Occupied
    <2>. QED
      BY <1>2, <2>1, <2>2, <2>3, <2>4, <2>5, <2>6, <2>7, <2>8, <2>9, <2>10 DEF Next, Owner
  <1>. QED
    BY <1>1, <1>2
----------------------------------------------------------------------------
(* Every reachable state of the queue and the registry is as NInv says,     *)
(* however pushes, drains, installations, operations and teardown           *)
(* interleave.                                                             *)
THEOREM NativeStateInvariant == Spec => []NInv
  <1>1. Init => NInv
    BY InitNative
  <1>2. NInv /\ [Next]_vars => NInv'
    BY NextNative
  <1>. QED
    BY <1>1, <1>2, PTL DEF Spec

(* FinalizerQueue (native_state.rs:173-262): no finalized wrapper is lost or *)
(* reported twice, although addresses are used again, and the pending       *)
(* counter agrees with what is queued and in flight.                       *)
THEOREM QueueStaysExact == Spec => []QueueIsExact
  <1>1. NInv => QueueIsExact
    <2>. SUFFICES ASSUME NInv PROVE QueueIsExact
      OBVIOUS
    <2>1. PICK list \in Seq(Tokens) : Chain(next, list, head) /\ Elems(list) = Placed({"linked"})
      BY DEF NInv, QInv, ListsAreExact, Chained
    <2>2. PICK rest \in Seq(Tokens) : Chain(next, rest, cursor) /\ Elems(rest) = Placed({"detached"})
      BY DEF NInv, QInv, ListsAreExact, Chained
    <2>3. ListFrom(head) = Placed({"linked"}) /\ ListFrom(cursor) = Placed({"detached"})
      BY <2>1, <2>2, ListIsChain
    <2>4. \A t \in Placed({"linked", "detached"}) : t \notin ListFrom(next[t])
      <3>1. Placed({"linked", "detached"}) = Elems(list) \cup Elems(rest)
        BY <2>1, <2>2, ListsAreFinite DEF NInv, QInv
      <3>. QED
        BY <2>1, <2>2, <3>1, ListIsChain
    <2>5. {holding[f] : f \in Finalizers} \ {Null} = Placed({"handed"})
      <3>1. \A f \in Finalizers : holding[f] # Null => holding[f] \in Placed({"handed"})
        BY DEF NInv, QInv, QueueTypes, HandsAreExact, HandIsExact, Placed
      <3>2. \A t \in Placed({"handed"}) : t # Null /\ \E f \in Finalizers : holding[f] = t
        BY NativeStateAssumption DEF NInv, QInv, HandsAreExact, Placed
      <3>. QED
        BY <3>1, <3>2
    <2>. QED
      BY <2>3, <2>4, <2>5 DEF QueueIsExact, TokensAreOwnedOnce, NInv, QInv, HandsAreExact, CountIsExact
  <1>. QED
    BY <1>1, NativeStateInvariant, PTL

(* NativeRegistry (native_state.rs:265-342): a handle and a token reach the *)
(* state they were made for or none, and the count and the free stack are   *)
(* exact, also when generations run out.                                   *)
THEOREM RegistryStaysExact == Spec => []RegistryIsExact
  <1>1. NInv => RegistryIsExact
    <2>. SUFFICES ASSUME NInv PROVE RegistryIsExact
      OBVIOUS
    <2>0. /\ Len(slots) \in Nat /\ DOMAIN slots = 1 .. Len(slots) /\ free \in Seq(1 .. Len(slots))
          /\ DOMAIN free = 1 .. Len(free)
      BY SlotDomain, LenProperties DEF NInv, RInv, RegistryTypes
    <2>1. TypeOK
      <3>1. slots \in Seq([generation : 1 .. MaxGeneration, value : States \cup {NoState}])
        BY DEF NInv, RInv, RegistryTypes, Slot
      <3>. QED
        BY <2>0, <3>1 DEF NInv, RInv, RegistryTypes, TInv, QInv, QueueTypes, TypeOK
    <2>2. HandlesNeverAlias
      BY GetIsOwn DEF NInv, RInv, TInv, HandlesDiffer, HandlesNeverAlias
    <2>3. live = Cardinality({i \in DOMAIN slots : slots[i].value # NoState})
      BY <2>0 DEF NInv, RInv, StackIsExact, Occupied
    <2>4. IsInjective(free)
      BY <2>0 DEF NInv, RInv, StackIsExact, Once, IsInjective
    <2>5. {free[i] : i \in DOMAIN free} = {i \in DOMAIN slots : slots[i].value = NoState /\ slots[i].generation # MaxGeneration}
      BY <2>0 DEF NInv, RInv, StackIsExact, Elems
    <2>. QED
      BY <2>1, <2>2, <2>3, <2>4, <2>5 DEF RegistryIsExact
  <1>. QED
    BY <1>1, NativeStateInvariant, PTL

(* drop_state (native_state.rs:92-101): a destructor runs at most once, never *)
(* under the operation that leases its state, and by the end of teardown it *)
(* has run for every state that was installed.                             *)
THEOREM StatesStayDroppedOnce == Spec => []StatesDropOnce
  <1>1. NInv => StatesDropOnce
    <2>. SUFFICES ASSUME NInv, NEW s \in States
                  PROVE  /\ drops[s] <= 1
                         /\ handle[s] # NoId => drops[s] = IF s \in {Get(handle[s]), lease} THEN 0 ELSE 1
                         /\ handle[s] # NoId /\ owner = "destroyed" => drops[s] = 1
      BY DEF StatesDropOnce
    <2>0. DropsAreExact(s) /\ s # NoState
      BY NativeStateAssumption DEF NInv, RInv
    <2>1. handle[s] # NoId => drops[s] = IF s \in {Get(handle[s]), lease} THEN 0 ELSE 1
      BY <2>0 DEF DropsAreExact
    <2>2. drops[s] <= 1
      BY <2>0, <2>1 DEF DropsAreExact
    <2>3. handle[s] # NoId /\ owner = "destroyed" => s \notin {Get(handle[s]), lease}
      <3>1. DOMAIN slots = 1 .. Len(slots)
        BY SlotDomain DEF NInv, RInv
      <3>. QED
        BY <2>0, <3>1 DEF NInv, EndInv, Occupied, Get
    <2>. QED
      BY <2>1, <2>2, <2>3
  <1>. QED
    BY <1>1, NativeStateInvariant, PTL
=============================================================================
