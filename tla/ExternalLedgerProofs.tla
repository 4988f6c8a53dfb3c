------------------------ MODULE ExternalLedgerProofs ------------------------
(***************************************************************************)
(* The external-buffer ledger is exact for any set of buffers, any lengths  *)
(* and any limits, however many deallocators overlap                       *)
(* (external_buffer.rs:107-132).  The first part is what a sum over a      *)
(* finite set is; the second is about the ledger.                          *)
(***************************************************************************)
EXTENDS ExternalLedger, FiniteSetTheorems, TLAPS

(* The bytes of the buffers in S, as LedgerIsExact adds them up. *)
SumOf(f, S) == MapThenSumSet(LAMBDA b : f[b], S)

(* The element that the sum takes first. *)
Pick(s) == CHOOSE x \in s : TRUE

(* g is a table of the sums over all the subsets of S. *)
IsSum(f, S, g) ==
  g = [s \in SUBSET S |-> IF s = {} THEN 0 ELSE f[Pick(s)] + g[s \ {Pick(s)}]]

(* A sum is an entry of some table that satisfies the recursion. *)
LEMMA SumIsTheChosenTable ==
  ASSUME NEW f, NEW S
  PROVE  SumOf(f, S) = (CHOOSE g : IsSum(f, S, g))[S]
  BY Zenon DEF SumOf, MapThenSumSet, MapThenFoldSet, IsSum, Pick

(* Induction over finite sets, from a least counterexample. *)
LEMMA LeastSet ==
  ASSUME NEW S, IsFiniteSet(S), NEW T \in SUBSET SUBSET S, T # {}
  PROVE  \E s \in T : \A t \in T : t \subseteq s => t = s
<1>1. IsWellFoundedOn(StrictSubsetOrdering(S), SUBSET S)
  BY FS_StrictSubsetOrderingWellFounded, FS_FiniteSubsetsOfFinite
<1>2. PICK s \in T : \A t \in T : ~ (<<t, s>> \in StrictSubsetOrdering(S))
  BY <1>1, WFMin
<1> QED
  BY <1>2 DEF StrictSubsetOrdering

(* There is such a table: it is completed one cardinality at a time. *)
LEMMA TableExists ==
  ASSUME NEW B, NEW f \in [B -> Nat], NEW S \in SUBSET B, IsFiniteSet(S)
  PROVE  \E g \in [SUBSET S -> Nat] : IsSum(f, S, g)
<1> DEFINE Good(g, s) == g[s] = IF s = {} THEN 0 ELSE f[Pick(s)] + g[s \ {Pick(s)}]
           Upto(g, n) == \A s \in SUBSET S : Cardinality(s) < n => Good(g, s)
           Bad == {n \in Nat : ~ \E g \in [SUBSET S -> Nat] : Upto(g, n)}
<1>1. ASSUME NEW s \in SUBSET S, s # {}
      PROVE  /\ Pick(s) \in s /\ f[Pick(s)] \in Nat /\ s \ {Pick(s)} \in SUBSET S
             /\ Cardinality(s) \in Nat /\ Cardinality(s \ {Pick(s)}) = Cardinality(s) - 1
  <2>1. Pick(s) \in s
    BY <1>1 DEF Pick
  <2>2. IsFiniteSet(s)
    BY FS_Subset
  <2> QED
    BY <2>1, <2>2, FS_RemoveElement, FS_CardinalityType
<1>2. ASSUME NEW s \in SUBSET S
      PROVE  Cardinality(s) \in Nat
  BY FS_Subset, FS_CardinalityType
<1>3. 0 \notin Bad
  <2>1. [s \in SUBSET S |-> 0] \in [SUBSET S -> Nat]
    OBVIOUS
  <2>2. Upto([s \in SUBSET S |-> 0], 0)
    BY <1>2
  <2> QED
    BY <2>1, <2>2
<1>4. ASSUME NEW n \in Nat, n \notin Bad
      PROVE  n + 1 \notin Bad
  <2>1. PICK g \in [SUBSET S -> Nat] : Upto(g, n)
    BY <1>4
  <2> DEFINE h == [s \in SUBSET S |-> IF s = {} THEN 0 ELSE f[Pick(s)] + g[s \ {Pick(s)}]]
  <2>2. h \in [SUBSET S -> Nat]
    <3>1. ASSUME NEW s \in SUBSET S, s # {}
          PROVE  f[Pick(s)] + g[s \ {Pick(s)}] \in Nat
      <4>1. f[Pick(s)] \in Nat /\ s \ {Pick(s)} \in SUBSET S
        BY <1>1, <3>1
      <4>2. g[s \ {Pick(s)}] \in Nat
        BY <4>1
      <4> HIDE DEF h
      <4> QED
        BY <4>1, <4>2
    <3>2. \A s \in SUBSET S : (IF s = {} THEN 0 ELSE f[Pick(s)] + g[s \ {Pick(s)}]) \in Nat
      BY <3>1
    <3> QED
      BY <3>2
  <2>3. ASSUME NEW s \in SUBSET S, Cardinality(s) < n
        PROVE  h[s] = g[s]
    BY <2>1, <2>3
  <2>4. ASSUME NEW s \in SUBSET S, Cardinality(s) < n + 1
        PROVE  Good(h, s)
    <3>1. CASE s = {}
      BY <3>1
    <3>2. CASE s # {}
      <4> DEFINE t == s \ {Pick(s)}
      <4>0. t \in SUBSET S /\ Cardinality(t) < n
        BY <1>1, <2>4, <3>2
      <4>1. h[t] = g[t]
        BY <4>0, <2>3
      <4>2. h[s] = f[Pick(s)] + g[s \ {Pick(s)}]
        BY <3>2
      <4> QED
        BY <4>1, <4>2, <3>2
    <3> QED
      BY <3>1, <3>2
  <2>5. Upto(h, n + 1)
    BY <2>4
  <2> QED
    BY <2>2, <2>5
<1>5. Bad = {}
  <2> SUFFICES ASSUME Bad # {}
               PROVE  FALSE
    OBVIOUS
  <2>1. IsWellFoundedOn(OpToRel(<, Nat), Nat)
    BY NatLessThanWellFounded
  <2> HIDE DEF Bad
  <2>2. PICK n \in Bad : \A m \in Bad : ~ (<<m, n>> \in OpToRel(<, Nat))
    <3>1. Bad \subseteq Nat
      BY DEF Bad
    <3> QED
      BY <2>1, <3>1, WFMin
  <2>3. n \in Nat /\ n # 0
    BY <1>3 DEF Bad
  <2>4. n - 1 \in Nat /\ n - 1 < n /\ (n - 1) + 1 = n
    BY <2>3
  <2>5. n - 1 \in Bad
    BY <1>4, <2>3, <2>4
  <2> QED
    BY <2>2, <2>3, <2>4, <2>5 DEF OpToRel
<1>6. Cardinality(S) + 1 \in Nat
  BY FS_CardinalityType
<1>7. PICK g \in [SUBSET S -> Nat] : Upto(g, Cardinality(S) + 1)
  BY <1>5, <1>6
<1>8. ASSUME NEW s \in SUBSET S
      PROVE  Good(g, s)
  <2>1. Cardinality(s) <= Cardinality(S) /\ Cardinality(s) \in Nat /\ Cardinality(S) \in Nat
    BY FS_Subset, FS_CardinalityType
  <2>2. Cardinality(s) < Cardinality(S) + 1
    BY <2>1
  <2> QED
    BY <1>7, <2>2
<1>9. IsSum(f, S, g)
  <2> DEFINE h == [s \in SUBSET S |-> IF s = {} THEN 0 ELSE f[Pick(s)] + g[s \ {Pick(s)}]]
  <2>1. \A s \in SUBSET S : h[s] = g[s]
    BY <1>8
  <2>2. DOMAIN h = SUBSET S /\ DOMAIN g = SUBSET S
    OBVIOUS
  <2>3. g = [s \in SUBSET S |-> g[s]] /\ h = [s \in SUBSET S |-> h[s]]
    OBVIOUS
  <2>4. h = g
    BY <2>1, <2>2, <2>3
  <2> QED
    BY <2>4 DEF IsSum
<1> QED
  BY <1>9

(* So a sum is an entry of a table that does satisfy the recursion. *)
LEMMA SumIsATable ==
  ASSUME NEW B, NEW f \in [B -> Nat], NEW S \in SUBSET B, IsFiniteSet(S)
  PROVE  \E g : IsSum(f, S, g) /\ SumOf(f, S) = g[S]
<1>1. \E g : IsSum(f, S, g)
  BY TableExists
<1>2. IsSum(f, S, CHOOSE g : IsSum(f, S, g))
  BY <1>1, Zenon
<1> QED
  BY <1>2, SumIsTheChosenTable

(* The recursion, at one set. *)
LEMMA TableAt ==
  ASSUME NEW f, NEW S, NEW g, IsSum(f, S, g), NEW s \in SUBSET S
  PROVE  /\ s = {} => g[s] = 0
         /\ s # {} => /\ g[s] = f[Pick(s)] + g[s \ {Pick(s)}]
                      /\ Pick(s) \in s
<1>1. g[s] = IF s = {} THEN 0 ELSE f[Pick(s)] + g[s \ {Pick(s)}]
  BY Zenon DEF IsSum
<1>2. s # {} => Pick(s) \in s
  BY Zenon DEF Pick
<1> QED
  BY <1>1, <1>2

(* Sums of lengths are natural numbers, so live_bytes cannot go below      *)
(* zero.                                                                   *)
LEMMA TableType ==
  ASSUME NEW B, NEW f \in [B -> Nat], NEW S \in SUBSET B, IsFiniteSet(S),
         NEW g, IsSum(f, S, g), NEW s \in SUBSET S
  PROVE  g[s] \in Nat
<1> DEFINE Bad == {t \in SUBSET S : g[t] \notin Nat}
<1> SUFFICES ASSUME Bad # {}
             PROVE  FALSE
  OBVIOUS
<1>0. Bad \in SUBSET SUBSET S
  OBVIOUS
<1>1. PICK t \in Bad : \A u \in Bad : u \subseteq t => u = t
  <2> HIDE DEF Bad
  <2> QED
    BY <1>0, LeastSet
<1> DEFINE x == Pick(t)
<1>2. t # {} /\ x \in t /\ g[t] = f[x] + g[t \ {x}]
  BY TableAt
<1>3. t \ {x} \notin Bad
  BY <1>1, <1>2
<1>4. g[t \ {x}] \in Nat /\ f[x] \in Nat
  BY <1>2, <1>3
<1> QED
  BY <1>2, <1>4

(* The table of a smaller set is a part of the table of a larger one. *)
LEMMA TablesAgree ==
  ASSUME NEW B, NEW f \in [B -> Nat], NEW S \in SUBSET B, IsFiniteSet(S),
         NEW V \in SUBSET S,
         NEW g, IsSum(f, S, g), NEW h, IsSum(f, V, h), NEW s \in SUBSET V
  PROVE  g[s] = h[s]
<1> DEFINE Bad == {t \in SUBSET V : g[t] # h[t]}
<1> SUFFICES ASSUME Bad # {}
             PROVE  FALSE
  OBVIOUS
<1>0. Bad \in SUBSET SUBSET V /\ IsFiniteSet(V)
  BY FS_Subset
<1>1. PICK t \in Bad : \A u \in Bad : u \subseteq t => u = t
  <2> HIDE DEF Bad
  <2> QED
    BY <1>0, LeastSet
<1> DEFINE x == Pick(t)
<1>2. t \in SUBSET S /\ t \in SUBSET V
  OBVIOUS
<1>3. t # {}
  BY <1>2, TableAt
<1>4. x \in t /\ g[t] = f[x] + g[t \ {x}] /\ h[t] = f[x] + h[t \ {x}]
  BY <1>2, <1>3, TableAt
<1>5. t \ {x} \notin Bad
  BY <1>1, <1>4
<1> QED
  BY <1>4, <1>5

(* Whichever buffer is released first, the rest of the sum is the same. *)
LEMMA AnyElementMayComeLast ==
  ASSUME NEW B, NEW f \in [B -> Nat], NEW S \in SUBSET B, IsFiniteSet(S),
         NEW g, IsSum(f, S, g), NEW s \in SUBSET S, NEW x \in s
  PROVE  g[s] = f[x] + g[s \ {x}]
<1> DEFINE Bad == {t \in SUBSET S : \E z \in t : g[t] # f[z] + g[t \ {z}]}
<1> SUFFICES ASSUME Bad # {}
             PROVE  FALSE
  OBVIOUS
<1>0. Bad \in SUBSET SUBSET S
  OBVIOUS
<1>1. PICK t \in Bad : \A u \in Bad : u \subseteq t => u = t
  <2> HIDE DEF Bad
  <2> QED
    BY <1>0, LeastSet
<1>2. PICK z \in t : g[t] # f[z] + g[t \ {z}]
  OBVIOUS
<1> DEFINE y == Pick(t)
<1>3. t \in SUBSET S /\ y \in t /\ g[t] = f[y] + g[t \ {y}]
  BY TableAt
<1>4. z # y
  BY <1>2, <1>3
<1> DEFINE ty == t \ {y}
           tz == t \ {z}
           tyz == t \ {y, z}
<1>5. ty \in SUBSET S /\ tz \in SUBSET S /\ ty # t /\ tz # t /\ ty \subseteq t /\ tz \subseteq t
  BY <1>3
<1>6. ty \notin Bad /\ tz \notin Bad
  BY <1>1, <1>5
<1>7. ty \ {z} = tyz /\ tz \ {y} = tyz /\ z \in ty /\ y \in tz
  BY <1>3, <1>4
<1>8. g[ty] = f[z] + g[tyz] /\ g[tz] = f[y] + g[tyz]
  BY <1>5, <1>6, <1>7
<1>9. f[z] \in Nat /\ f[y] \in Nat
  BY <1>3
<1>10. tyz \in SUBSET S /\ g[tyz] \in Nat
  BY <1>3, TableType
<1> QED
  BY <1>2, <1>3, <1>8, <1>9, <1>10

(* A ledger without buffers holds zero bytes, and no ledger less. *)
LEMMA SumType ==
  ASSUME NEW B, NEW f \in [B -> Nat], NEW S \in SUBSET B, IsFiniteSet(S)
  PROVE  SumOf(f, S) \in Nat /\ SumOf(f, {}) = 0
<1>1. SumOf(f, S) \in Nat
  BY SumIsATable, TableType
<1>2. {} \in SUBSET B /\ IsFiniteSet({})
  BY FS_EmptySet
<1>3. PICK g : IsSum(f, {}, g) /\ SumOf(f, {}) = g[{}]
  BY <1>2, SumIsATable
<1> QED
  BY <1>1, <1>3, TableAt

(* ExternalLedger::release takes exactly the length of its buffer off the  *)
(* sum.                                                                    *)
LEMMA SumRemove ==
  ASSUME NEW B, NEW f \in [B -> Nat], NEW S \in SUBSET B, IsFiniteSet(S), NEW x \in S
  PROVE  /\ SumOf(f, S \ {x}) \in Nat
         /\ SumOf(f, S) = f[x] + SumOf(f, S \ {x})
<1> DEFINE V == S \ {x}
<1>1. V \in SUBSET B /\ V \in SUBSET S /\ IsFiniteSet(V)
  BY FS_Subset
<1>2. PICK g : IsSum(f, S, g) /\ SumOf(f, S) = g[S]
  BY SumIsATable
<1>3. PICK h : IsSum(f, V, h) /\ SumOf(f, V) = h[V]
  BY <1>1, SumIsATable
<1>4. g[V] = h[V]
  BY <1>1, <1>2, <1>3, TablesAgree
<1>5. g[S] = f[x] + g[V]
  BY <1>2, AnyElementMayComeLast
<1> QED
  BY <1>1, <1>2, <1>3, <1>4, <1>5, SumType

(* ExternalLedger::reserve adds exactly the length of its buffer to the    *)
(* sum.                                                                    *)
LEMMA SumAdd ==
  ASSUME NEW B, NEW f \in [B -> Nat], NEW S \in SUBSET B, IsFiniteSet(S), NEW x \in B, x \notin S
  PROVE  /\ SumOf(f, S) \in Nat
         /\ SumOf(f, S \cup {x}) = SumOf(f, S) + f[x]
<1>1. S \cup {x} \in SUBSET B /\ IsFiniteSet(S \cup {x}) /\ (S \cup {x}) \ {x} = S
  BY FS_AddElement
<1>2. SumOf(f, S) \in Nat /\ SumOf(f, S \cup {x}) = f[x] + SumOf(f, S)
  BY <1>1, SumRemove
<1> QED
  BY <1>2
----------------------------------------------------------------------------
(* The buffers whose allocation is counted. *)
Charged ==
  Unreleased \cup {b \in Buffers : stage[b] \in {"counted", "refund", "bytes released"}}

(* The buffer that the runtime's thread has not yet answered for. *)
InTransfer(b) ==
  stage[b] \in {"counted", "refund", "reserved"} \/ (b \in reach /\ result[b] = "none")

(* A report that has read no allocation leaves nothing to be read of the   *)
(* bytes: only the reporting thread could charge another buffer.           *)
ReportWillBePlausible ==
  report.allocations = 0 =>
    IF owner = "reporting" THEN Charged = {} ELSE report.bytes = 0

(* The types of what is recorded of the buffers. *)
MarkTypes ==
  /\ observed \in [Buffers -> Nat]
  /\ origin \in [Buffers -> BOOLEAN] /\ on_owner \in [Buffers -> BOOLEAN]
  /\ size \in [Buffers -> Sizes] /\ stage \in [Buffers -> Stages]
  /\ reach \subseteq Buffers /\ result \in [Buffers -> {"none", "Ok", "Rejected", "Accepted"}]
  /\ owner \in {"idle", "transferring", "reporting"}

(* No deallocator, and no other caller, touches what is recorded of c. *)
Untouched(c) ==
  /\ stage'[c] = stage[c] /\ result'[c] = result[c] /\ (c \in reach' <=> c \in reach)
  /\ observed'[c] = observed[c] /\ origin'[c] = origin[c] /\ on_owner'[c] = on_owner[c]

(* What is recorded of a buffer follows from its stage: the thread is still  *)
(* transferring it, or has answered once, and the deallocator has stored as *)
(* much as it has passed.                                                   *)
Mark(b) ==
  /\ InTransfer(b) => owner = "transferring" /\ result[b] = "none"
  /\ b \in reach => stage[b] = "engine"
  /\ stage[b] = "engine" /\ result[b] = "none" => b \in reach
  /\ stage[b] \in {"origin stored", "flags stored", "observed", "bytes released", "allocation released", "released"}
       => origin[b] /\ result[b] # "none"
  /\ stage[b] \in {"flags stored", "observed", "bytes released", "allocation released", "released"}
       => on_owner[b]
  /\ observed[b] = IF stage[b] \in {"observed", "bytes released", "allocation released", "released"}
                   THEN 1 ELSE 0
  /\ result[b] = "Rejected" => stage[b] = "rust"
  /\ result[b] \in {"Ok", "Accepted"} => stage[b] \notin {"rust", "counted", "refund", "reserved"}

(* The runtime's thread transfers one buffer at a time. *)
OneTransfer == \A b, c \in Buffers : InTransfer(b) /\ InTransfer(c) => b = c

(* The part of the invariant about the buffers one by one. *)
Marks == MarkTypes /\ OneTransfer /\ \A b \in Buffers : Mark(b)

(* A step about one buffer leaves every other buffer as it was, and the    *)
(* thread's one transfer with it.                                          *)
LEMMA OthersKeepTheirMarks ==
  ASSUME Marks, NEW b \in Buffers, MarkTypes', Mark(b)',
         \A c \in Buffers : c # b => Untouched(c),
         owner' = owner \/ InTransfer(b) \/ owner = "idle",
         InTransfer(b)' => InTransfer(b) \/ owner = "idle"
  PROVE  Marks'
<1>1. ASSUME NEW c \in Buffers, c # b
      PROVE  Mark(c)' /\ (InTransfer(c)' <=> InTransfer(c))
  BY <1>1 DEF Marks, Mark, Untouched, InTransfer, OneTransfer
<1>2. OneTransfer'
  BY <1>1 DEF Marks, Mark, InTransfer, OneTransfer
<1> QED
  BY <1>1, <1>2 DEF Marks

(* Every call and every step of a deallocator keeps the marks of all       *)
(* buffers.                                                                *)
LEMMA NextMarks ==
  ASSUME Marks, [Next]_vars
  PROVE  Marks'
<1> USE DEF Marks, ledgerVars, observationVars, callVars
<1>1. CASE UNCHANGED vars
  BY <1>1 DEF vars, MarkTypes, OneTransfer, InTransfer, Mark
<1>2. CASE ReportAllocations
  BY <1>2 DEF ReportAllocations, MarkTypes, OneTransfer, InTransfer, Mark
<1>3. CASE ReportBytes
  BY <1>3 DEF ReportBytes, MarkTypes, OneTransfer, InTransfer, Mark
<1>4. ASSUME NEW b \in Buffers,
             \/ Reject(b) \/ ReserveAllocation(b) \/ ReserveBytes(b) \/ Refund(b)
             \/ MakeBuffer(b) \/ InspectFails(b) \/ Externalized(b) \/ Publish(b)
             \/ Unreach(b) \/ Deallocate(b)
      PROVE  Marks'
  <2> Mark(b) /\ MarkTypes
    OBVIOUS
  <2>1. CASE Reject(b)
    <3>1. MarkTypes'
      BY <2>1 DEF Reject, Answer, MarkTypes, Stages
    <3>2. ASSUME NEW c \in Buffers, c # b
          PROVE  Untouched(c)
      BY <2>1, <3>2 DEF Reject, Answer, MarkTypes, Untouched
    <3>3. /\ stage[b] = "rust" /\ stage'[b] = "rust"
          /\ result[b] = "none" /\ result'[b] = "Rejected"
          /\ (b \in reach' <=> b \in reach)
          /\ owner = "idle"
          /\ owner' = owner
          /\ origin'[b] = origin[b]
          /\ on_owner'[b] = on_owner[b]
          /\ observed'[b] = observed[b]
      BY <2>1 DEF Reject, Answer, MarkTypes
    <3>4. Mark(b)'
      BY <3>3 DEF Mark, InTransfer
    <3> QED
      BY <3>1, <3>2, <3>3, <3>4, OthersKeepTheirMarks DEF InTransfer
  <2>2. CASE ReserveAllocation(b)
    <3>1. MarkTypes'
      BY <2>2 DEF ReserveAllocation, Step, MarkTypes, Stages
    <3>2. ASSUME NEW c \in Buffers, c # b
          PROVE  Untouched(c)
      BY <2>2, <3>2 DEF ReserveAllocation, Step, MarkTypes, Untouched
    <3>3. /\ stage[b] = "rust" /\ stage'[b] = "counted"
          /\ result[b] = "none"
          /\ result'[b] = result[b]
          /\ (b \in reach' <=> b \in reach)
          /\ owner = "idle"
          /\ owner' = "transferring"
          /\ origin'[b] = origin[b]
          /\ on_owner'[b] = on_owner[b]
          /\ observed'[b] = observed[b]
      BY <2>2 DEF ReserveAllocation, Step, MarkTypes
    <3>4. Mark(b)'
      BY <3>3 DEF Mark, InTransfer
    <3> QED
      BY <3>1, <3>2, <3>3, <3>4, OthersKeepTheirMarks DEF InTransfer
  <2>3. CASE ReserveBytes(b)
    <3>1. MarkTypes'
      BY <2>3 DEF ReserveBytes, Step, MarkTypes, Stages
    <3>2. ASSUME NEW c \in Buffers, c # b
          PROVE  Untouched(c)
      BY <2>3, <3>2 DEF ReserveBytes, Step, MarkTypes, Untouched
    <3>3. /\ stage[b] = "counted" /\ stage'[b] \in {"reserved", "refund"}
          /\ result'[b] = result[b]
          /\ (b \in reach' <=> b \in reach)
          /\ owner' = owner
          /\ origin'[b] = origin[b]
          /\ on_owner'[b] = on_owner[b]
          /\ observed'[b] = observed[b]
      BY <2>3 DEF ReserveBytes, Step, MarkTypes
    <3>4. Mark(b)'
      BY <3>3 DEF Mark, InTransfer
    <3> QED
      BY <3>1, <3>2, <3>3, <3>4, OthersKeepTheirMarks DEF InTransfer
  <2>4. CASE Refund(b)
    <3>1. MarkTypes'
      BY <2>4 DEF Refund, Answer, Step, MarkTypes, Stages
    <3>2. ASSUME NEW c \in Buffers, c # b
          PROVE  Untouched(c)
      BY <2>4, <3>2 DEF Refund, Answer, Step, MarkTypes, Untouched
    <3>3. /\ stage[b] = "refund" /\ stage'[b] = "rust"
          /\ result[b] = "none" /\ result'[b] = "Rejected"
          /\ (b \in reach' <=> b \in reach)
          /\ owner' = "idle"
          /\ origin'[b] = origin[b]
          /\ on_owner'[b] = on_owner[b]
          /\ observed'[b] = observed[b]
      BY <2>4 DEF Refund, Answer, Step, MarkTypes
    <3>4. Mark(b)'
      BY <3>3 DEF Mark, InTransfer
    <3> QED
      BY <3>1, <3>2, <3>3, <3>4, OthersKeepTheirMarks DEF InTransfer
  <2>5. CASE MakeBuffer(b)
    <3>1. MarkTypes'
      BY <2>5 DEF MakeBuffer, Answer, Step, MarkTypes, Stages
    <3>2. ASSUME NEW c \in Buffers, c # b
          PROVE  Untouched(c)
      BY <2>5, <3>2 DEF MakeBuffer, Answer, Step, MarkTypes, Untouched
    <3>3. /\ stage[b] = "reserved" /\ stage'[b] = "engine"
          /\ \/ b \in reach' /\ result'[b] = "none" /\ owner' = owner
             \/ b \notin reach' /\ result'[b] = "Accepted" /\ owner' = "idle"
          /\ origin'[b] = origin[b]
          /\ on_owner'[b] = on_owner[b]
          /\ observed'[b] = observed[b]
      BY <2>5 DEF MakeBuffer, Answer, Step, MarkTypes, Mark, InTransfer
    <3>4. Mark(b)'
      BY <3>3 DEF Mark, InTransfer
    <3> QED
      BY <3>1, <3>2, <3>3, <3>4, OthersKeepTheirMarks DEF InTransfer
  <2>6. CASE InspectFails(b)
    <3>1. MarkTypes'
      BY <2>6 DEF InspectFails, Answer, Transferring, MarkTypes, Stages
    <3>2. ASSUME NEW c \in Buffers, c # b
          PROVE  Untouched(c)
      BY <2>6, <3>2 DEF InspectFails, Answer, Transferring, MarkTypes, Untouched
    <3>3. /\ stage[b] = "engine" /\ stage'[b] = "engine"
          /\ result[b] = "none" /\ result'[b] = "Accepted"
          /\ b \in reach /\ b \notin reach'
          /\ owner = "transferring"
          /\ owner' = "idle"
          /\ origin'[b] = origin[b]
          /\ on_owner'[b] = on_owner[b]
          /\ observed'[b] = observed[b]
      BY <2>6 DEF InspectFails, Answer, Transferring, MarkTypes
    <3>4. Mark(b)'
      BY <3>3 DEF Mark, InTransfer
    <3> QED
      BY <3>1, <3>2, <3>3, <3>4, OthersKeepTheirMarks DEF InTransfer
  <2>7. CASE Externalized(b)
    <3>1. MarkTypes'
      BY <2>7 DEF Externalized, Answer, Transferring, MarkTypes, Stages
    <3>2. ASSUME NEW c \in Buffers, c # b
          PROVE  Untouched(c)
      BY <2>7, <3>2 DEF Externalized, Answer, Transferring, MarkTypes, Untouched
    <3>3. /\ stage[b] = "engine" /\ stage'[b] = "engine"
          /\ result[b] = "none" /\ result'[b] = "Ok"
          /\ b \in reach
          /\ (b \in reach' <=> b \in reach)
          /\ owner = "transferring"
          /\ owner' = "idle"
          /\ origin'[b] = origin[b]
          /\ on_owner'[b] = on_owner[b]
          /\ observed'[b] = observed[b]
      BY <2>7 DEF Externalized, Answer, Transferring, MarkTypes
    <3>4. Mark(b)'
      BY <3>3 DEF Mark, InTransfer
    <3> QED
      BY <3>1, <3>2, <3>3, <3>4, OthersKeepTheirMarks DEF InTransfer
  <2>8. CASE Publish(b)
    <3>1. MarkTypes'
      BY <2>8 DEF Publish, Answer, Transferring, MarkTypes, Stages
    <3>2. ASSUME NEW c \in Buffers, c # b
          PROVE  Untouched(c)
      BY <2>8, <3>2 DEF Publish, Answer, Transferring, MarkTypes, Untouched
    <3>3. /\ stage[b] = "engine" /\ stage'[b] = "engine"
          /\ result[b] = "none" /\ result'[b] \in {"Ok", "Accepted"}
          /\ b \in reach
          /\ owner = "transferring"
          /\ owner' = "idle"
          /\ origin'[b] = origin[b]
          /\ on_owner'[b] = on_owner[b]
          /\ observed'[b] = observed[b]
      BY <2>8 DEF Publish, Answer, Transferring, MarkTypes
    <3>4. Mark(b)'
      BY <3>3 DEF Mark, InTransfer
    <3> QED
      BY <3>1, <3>2, <3>3, <3>4, OthersKeepTheirMarks DEF InTransfer
  <2>9. CASE Unreach(b)
    <3>1. MarkTypes'
      BY <2>9 DEF Unreach, MarkTypes, Stages
    <3>2. ASSUME NEW c \in Buffers, c # b
          PROVE  Untouched(c)
      BY <2>9, <3>2 DEF Unreach, MarkTypes, Untouched
    <3>3. /\ stage'[b] = stage[b]
          /\ result[b] # "none"
          /\ result'[b] = result[b]
          /\ b \in reach /\ b \notin reach'
          /\ owner' = owner
          /\ origin'[b] = origin[b]
          /\ on_owner'[b] = on_owner[b]
          /\ observed'[b] = observed[b]
      BY <2>9 DEF Unreach, MarkTypes
    <3>4. Mark(b)'
      BY <3>3 DEF Mark, InTransfer
    <3> QED
      BY <3>1, <3>2, <3>3, <3>4, OthersKeepTheirMarks DEF InTransfer
  <2>10. CASE StoreOrigin(b)
    <3>1. MarkTypes'
      BY <2>10 DEF StoreOrigin, Step, MarkTypes, Stages
    <3>2. ASSUME NEW c \in Buffers, c # b
          PROVE  Untouched(c)
      BY <2>10, <3>2 DEF StoreOrigin, Step, MarkTypes, Untouched
    <3>3. /\ stage[b] = "engine" /\ stage'[b] = "origin stored"
          /\ result'[b] = result[b]
          /\ b \notin reach
          /\ (b \in reach' <=> b \in reach)
          /\ owner' = owner
          /\ origin'[b]
          /\ on_owner'[b] = on_owner[b]
          /\ observed'[b] = observed[b]
      BY <2>10 DEF StoreOrigin, Step, MarkTypes
    <3>4. Mark(b)'
      BY <3>3 DEF Mark, InTransfer
    <3> QED
      BY <3>1, <3>2, <3>3, <3>4, OthersKeepTheirMarks DEF InTransfer
  <2>11. CASE StoreThread(b)
    <3>1. MarkTypes'
      BY <2>11 DEF StoreThread, Step, MarkTypes, Stages
    <3>2. ASSUME NEW c \in Buffers, c # b
          PROVE  Untouched(c)
      BY <2>11, <3>2 DEF StoreThread, Step, MarkTypes, Untouched
    <3>3. /\ stage[b] = "origin stored" /\ stage'[b] = "flags stored"
          /\ result'[b] = result[b]
          /\ (b \in reach' <=> b \in reach)
          /\ owner' = owner
          /\ on_owner'[b]
          /\ origin'[b] = origin[b]
          /\ observed'[b] = observed[b]
      BY <2>11 DEF StoreThread, Step, MarkTypes
    <3>4. Mark(b)'
      BY <3>3 DEF Mark, InTransfer
    <3> QED
      BY <3>1, <3>2, <3>3, <3>4, OthersKeepTheirMarks DEF InTransfer
  <2>12. CASE Observe(b)
    <3>0. stage[b] = "flags stored" /\ observed[b] = 0 /\ observed' = [observed EXCEPT ![b] = 1]
      <4>1. stage[b] = "flags stored"
        BY <2>12 DEF Observe, Step
      <4>2. observed[b] = 0
        BY <4>1 DEF Mark
      <4>3. observed' = [observed EXCEPT ![b] = observed[b] + 1]
        BY <2>12 DEF Observe
      <4>4. observed[b] + 1 = 1
        BY <4>2
      <4> QED
        BY <4>1, <4>2, <4>3, <4>4, Zenon
    <3>1. MarkTypes'
      <4>1. observed' \in [Buffers -> Nat]
        BY <3>0 DEF MarkTypes
      <4> QED
        BY <2>12, <4>1 DEF Observe, Step, MarkTypes, Stages
    <3>2. ASSUME NEW c \in Buffers, c # b
          PROVE  Untouched(c)
      BY <2>12, <3>2 DEF Observe, Step, MarkTypes, Untouched
    <3>3. /\ stage[b] = "flags stored" /\ stage'[b] = "observed"
          /\ result'[b] = result[b]
          /\ (b \in reach' <=> b \in reach)
          /\ owner' = owner
          /\ observed'[b] = 1
          /\ origin'[b] = origin[b]
          /\ on_owner'[b] = on_owner[b]
      BY <2>12, <3>0 DEF Observe, Step, MarkTypes
    <3>4. Mark(b)'
      BY <3>3 DEF Mark, InTransfer
    <3> QED
      BY <3>1, <3>2, <3>3, <3>4, OthersKeepTheirMarks DEF InTransfer
  <2>13. CASE ReleaseBytes(b)
    <3>1. MarkTypes'
      BY <2>13 DEF ReleaseBytes, Step, MarkTypes, Stages
    <3>2. ASSUME NEW c \in Buffers, c # b
          PROVE  Untouched(c)
      BY <2>13, <3>2 DEF ReleaseBytes, Step, MarkTypes, Untouched
    <3>3. /\ stage[b] = "observed" /\ stage'[b] = "bytes released"
          /\ result'[b] = result[b]
          /\ (b \in reach' <=> b \in reach)
          /\ owner' = owner
          /\ origin'[b] = origin[b]
          /\ on_owner'[b] = on_owner[b]
          /\ observed'[b] = observed[b]
      BY <2>13 DEF ReleaseBytes, Step, MarkTypes
    <3>4. Mark(b)'
      BY <3>3 DEF Mark, InTransfer
    <3> QED
      BY <3>1, <3>2, <3>3, <3>4, OthersKeepTheirMarks DEF InTransfer
  <2>14. CASE ReleaseAllocation(b)
    <3>1. MarkTypes'
      BY <2>14 DEF ReleaseAllocation, Step, MarkTypes, Stages
    <3>2. ASSUME NEW c \in Buffers, c # b
          PROVE  Untouched(c)
      BY <2>14, <3>2 DEF ReleaseAllocation, Step, MarkTypes, Untouched
    <3>3. /\ stage[b] = "bytes released" /\ stage'[b] = "allocation released"
          /\ result'[b] = result[b]
          /\ (b \in reach' <=> b \in reach)
          /\ owner' = owner
          /\ origin'[b] = origin[b]
          /\ on_owner'[b] = on_owner[b]
          /\ observed'[b] = observed[b]
      BY <2>14 DEF ReleaseAllocation, Step, MarkTypes
    <3>4. Mark(b)'
      BY <3>3 DEF Mark, InTransfer
    <3> QED
      BY <3>1, <3>2, <3>3, <3>4, OthersKeepTheirMarks DEF InTransfer
  <2>15. CASE CountDeallocation(b)
    <3>1. MarkTypes'
      BY <2>15 DEF CountDeallocation, Step, MarkTypes, Stages
    <3>2. ASSUME NEW c \in Buffers, c # b
          PROVE  Untouched(c)
      BY <2>15, <3>2 DEF CountDeallocation, Step, MarkTypes, Untouched
    <3>3. /\ stage[b] = "allocation released" /\ stage'[b] = "released"
          /\ result'[b] = result[b]
          /\ (b \in reach' <=> b \in reach)
          /\ owner' = owner
          /\ origin'[b] = origin[b]
          /\ on_owner'[b] = on_owner[b]
          /\ observed'[b] = observed[b]
      BY <2>15 DEF CountDeallocation, Step, MarkTypes
    <3>4. Mark(b)'
      BY <3>3 DEF Mark, InTransfer
    <3> QED
      BY <3>1, <3>2, <3>3, <3>4, OthersKeepTheirMarks DEF InTransfer
  <2> QED
    BY <1>4, <2>1, <2>2, <2>3, <2>4, <2>5, <2>6, <2>7, <2>8, <2>9, <2>10, <2>11, <2>12, <2>13,
       <2>14, <2>15 DEF Deallocate, Release
<1> QED
  BY <1>1, <1>2, <1>3, <1>4 DEF Next
----------------------------------------------------------------------------
(* The inductive invariant. *)
LInv == LedgerIsExact /\ IsFiniteSet(Charged) /\ Marks /\ ReportWillBePlausible

(* What a caller is told follows from the marks. *)
LEMMA MarksAreHonest ==
  ASSUME LInv
  PROVE  TransferIsHonest /\ ReportIsPlausible
<1>1. ASSUME NEW b \in Buffers
      PROVE  /\ result[b] = "Rejected" => stage[b] = "rust"
             /\ result[b] \in {"Ok", "Accepted"} => stage[b] \notin {"rust", "counted", "refund", "reserved"}
             /\ observed[b] <= 1
             /\ observed[b] = 1 => b \notin reach /\ origin[b] /\ on_owner[b]
             /\ stage[b] \in {"bytes released", "allocation released", "released"} => observed[b] = 1
  <2>1. Mark(b)
    BY DEF LInv, Marks
  <2>2. observed[b] = IF stage[b] \in {"observed", "bytes released", "allocation released", "released"}
                      THEN 1 ELSE 0
    BY <2>1, Zenon DEF Mark
  <2>3. /\ observed[b] <= 1
        /\ observed[b] = 1
             => stage[b] \in {"observed", "bytes released", "allocation released", "released"}
        /\ stage[b] \in {"bytes released", "allocation released", "released"} => observed[b] = 1
    <3>1. 0 <= 1 /\ 1 <= 1 /\ 0 # 1
      OBVIOUS
    <3>2. CASE stage[b] \in {"observed", "bytes released", "allocation released", "released"}
      BY <2>2, <3>1, <3>2, Zenon
    <3>3. CASE stage[b] \notin {"observed", "bytes released", "allocation released", "released"}
      <4>1. observed[b] = 0
        BY <2>2, <3>3, Zenon
      <4> QED
        BY <3>1, <3>3, <4>1, Zenon
    <3> QED
      BY <3>2, <3>3, Zenon
  <2>4. stage[b] \in {"observed", "bytes released", "allocation released", "released"}
          => b \notin reach /\ origin[b] /\ on_owner[b]
    BY <2>1 DEF Mark
  <2>5. /\ result[b] = "Rejected" => stage[b] = "rust"
        /\ result[b] \in {"Ok", "Accepted"} => stage[b] \notin {"rust", "counted", "refund", "reserved"}
    BY <2>1, Zenon DEF Mark
  <2> QED
    BY <2>3, <2>4, <2>5
<1>2. ReportIsPlausible
  BY DEF LInv, ReportWillBePlausible, ReportIsPlausible
<1> QED
  BY <1>1, <1>2 DEF TransferIsHonest

(* A new ledger has counted nothing. *)
LEMMA InitLInv ==
  ASSUME Init
  PROVE  LInv
<1>1. Unreleased = {} /\ Charged = {}
  BY DEF Init, Unreleased, Charged
<1>2. IsFiniteSet({}) /\ Cardinality({}) = 0
  BY FS_EmptySet
<1>3. size \in [Buffers -> Nat] /\ {} \in SUBSET Buffers
  BY LimitsAssumption DEF Init
<1>4. SumOf(size, {}) = 0
  BY <1>2, <1>3, SumType
<1>5. MarkTypes /\ TypeOK
  BY LimitsAssumption DEF Init, MarkTypes, TypeOK, Stages
<1>6. Marks
  BY <1>5 DEF Init, Marks, OneTransfer, InTransfer, Mark
<1>7. LedgerIsExact
  <2>1. live_bytes = SumOf(size, Unreleased) /\ live_allocations = Cardinality(Charged)
    BY <1>1, <1>2, <1>4 DEF Init
  <2> QED
    BY <2>1, <1>5 DEF LedgerIsExact, SumOf, Charged
<1>8. ReportWillBePlausible
  BY DEF Init, ReportWillBePlausible
<1> QED
  BY <1>1, <1>2, <1>6, <1>7, <1>8 DEF LInv

(* The counters against the sets they count. *)
Counts ==
  /\ live_bytes = SumOf(size, Unreleased)
  /\ live_allocations = Cardinality(Charged)
  /\ live_allocations \in 0 .. AllocationLimit /\ live_bytes \in 0 .. ByteLimit
  /\ IsFiniteSet(Charged)

(* The two counters in terms of the sets they count. *)
LEMMA LedgerIsCounts ==
  LedgerIsExact /\ IsFiniteSet(Charged) <=> TypeOK /\ Counts
<1>1. LedgerIsExact <=> /\ TypeOK
                        /\ live_bytes = SumOf(size, Unreleased)
                        /\ live_allocations = Cardinality(Charged)
  BY DEF LedgerIsExact, SumOf, Charged
<1> QED
  BY <1>1 DEF Counts, TypeOK

(* The types that the facts about sums and cardinalities need. *)
LEMMA SetsAndSums ==
  ASSUME LInv
  PROVE  /\ size \in [Buffers -> Nat]
         /\ Unreleased \in SUBSET Buffers /\ Charged \in SUBSET Buffers
         /\ IsFiniteSet(Charged) /\ IsFiniteSet(Unreleased)
         /\ AllocationLimit \in Nat /\ ByteLimit \in Nat
<1>1. size \in [Buffers -> Nat] /\ AllocationLimit \in Nat /\ ByteLimit \in Nat
  BY LimitsAssumption DEF LInv, Marks, MarkTypes
<1>2. Unreleased \in SUBSET Charged /\ Unreleased \in SUBSET Buffers /\ Charged \in SUBSET Buffers
  BY DEF Unreleased, Charged
<1>3. IsFiniteSet(Charged)
  BY DEF LInv
<1>4. IsFiniteSet(Unreleased)
  BY <1>2, <1>3, FS_Subset
<1> QED
  BY <1>1, <1>2, <1>3, <1>4

(* reserve, its refund and release move both counters with the sets they   *)
(* count; only a reservation, made by the idle thread, adds a buffer.      *)
LEMMA NextCounts ==
  ASSUME LInv, Next
  PROVE  Counts' /\ (owner = "idle" \/ Charged' \subseteq Charged)
<1> USE DEF ledgerVars, observationVars, callVars
<1>1. Counts /\ TypeOK /\ stage \in [Buffers -> Stages]
  BY LedgerIsCounts DEF LInv, TypeOK
<1>2. CASE ReportAllocations \/ ReportBytes
  <2>1. UNCHANGED <<live_allocations, live_bytes, size, stage>>
    BY <1>2 DEF ReportAllocations, ReportBytes
  <2>2. Unreleased' = Unreleased /\ Charged' = Charged
    BY <2>1 DEF Unreleased, Charged
  <2> QED
    BY <1>1, <2>1, <2>2 DEF Counts
<1>3. ASSUME NEW b \in Buffers,
             \/ Reject(b) \/ ReserveAllocation(b) \/ ReserveBytes(b) \/ Refund(b)
             \/ MakeBuffer(b) \/ InspectFails(b) \/ Externalized(b) \/ Publish(b)
             \/ Unreach(b) \/ Deallocate(b)
      PROVE  Counts' /\ (owner = "idle" \/ Charged' \subseteq Charged)
  <2>0. size' = size
    BY <1>3 DEF Deallocate, Release, Reject, ReserveAllocation, ReserveBytes, Refund, MakeBuffer,
       InspectFails, Externalized, Publish, Unreach, StoreOrigin, StoreThread, Observe,
       ReleaseBytes, ReleaseAllocation, CountDeallocation
  <2>1. CASE Reject(b) \/ InspectFails(b) \/ Externalized(b) \/ Publish(b) \/ Unreach(b)
    <3>1. UNCHANGED <<live_allocations, live_bytes, stage>>
      BY <2>1 DEF Reject, InspectFails, Externalized, Publish, Unreach
    <3>2. Unreleased' = Unreleased /\ Charged' = Charged
      BY <3>1 DEF Unreleased, Charged
    <3> QED
      BY <1>1, <2>0, <3>1, <3>2 DEF Counts
  <2>2. CASE MakeBuffer(b) \/ StoreOrigin(b) \/ StoreThread(b) \/ Observe(b) \/ CountDeallocation(b)
    <3>1. UNCHANGED <<live_allocations, live_bytes>>
      BY <2>2 DEF MakeBuffer, StoreOrigin, StoreThread, Observe, CountDeallocation
    <3>2. Unreleased' = Unreleased /\ Charged' = Charged
      BY <1>1, <2>2 DEF Unreleased, Charged, MakeBuffer, StoreOrigin, StoreThread, Observe,
         CountDeallocation, Step
    <3> QED
      BY <1>1, <2>0, <3>1, <3>2 DEF Counts
  <2>3. CASE ReserveAllocation(b)
    <3>1. /\ Unreleased' = Unreleased /\ Charged' = Charged \cup {b} /\ b \notin Charged
          /\ live_bytes' = live_bytes /\ live_allocations' = live_allocations + 1
          /\ live_allocations < AllocationLimit /\ owner = "idle"
      BY <1>1, <2>3 DEF Unreleased, Charged, ReserveAllocation, Step
    <3>2. Cardinality(Charged') = Cardinality(Charged) + 1 /\ IsFiniteSet(Charged')
      BY <3>1, FS_AddElement, SetsAndSums
    <3>3. live_allocations + 1 \in 0 .. AllocationLimit
      BY <1>1, <3>1, SetsAndSums DEF Counts
    <3> QED
      BY <1>1, <2>0, <3>1, <3>2, <3>3 DEF Counts
  <2>4. CASE ReserveBytes(b) /\ stage'[b] = "reserved"
    <3>1. /\ Unreleased' = Unreleased \cup {b} /\ Charged' = Charged /\ b \notin Unreleased
          /\ live_bytes' = live_bytes + size[b] /\ live_allocations' = live_allocations
          /\ live_bytes + size[b] <= ByteLimit
      BY <1>1, <2>4 DEF Unreleased, Charged, ReserveBytes, Step
    <3>2. SumOf(size, Unreleased') = SumOf(size, Unreleased) + size[b]
      BY <3>1, SumAdd, SetsAndSums
    <3>3. live_bytes + size[b] \in 0 .. ByteLimit
      BY <1>1, <3>1, SetsAndSums DEF Counts
    <3> QED
      BY <1>1, <2>0, <3>1, <3>2, <3>3 DEF Counts
  <2>5. CASE ReserveBytes(b) /\ stage'[b] # "reserved"
    <3>1. /\ Unreleased' = Unreleased /\ Charged' = Charged
          /\ live_bytes' = live_bytes /\ live_allocations' = live_allocations
      BY <1>1, <2>5 DEF Unreleased, Charged, ReserveBytes, Step
    <3> QED
      BY <1>1, <2>0, <3>1 DEF Counts
  <2>6. CASE Refund(b) \/ ReleaseAllocation(b)
    <3>1. /\ Unreleased' = Unreleased /\ Charged' = Charged \ {b} /\ b \in Charged
          /\ live_bytes' = live_bytes /\ live_allocations' = live_allocations - 1
      BY <1>1, <2>6 DEF Unreleased, Charged, Refund, ReleaseAllocation, Step
    <3>2. Cardinality(Charged') = Cardinality(Charged) - 1 /\ IsFiniteSet(Charged')
      BY <3>1, FS_RemoveElement, SetsAndSums
    <3>3. Cardinality(Charged') \in Nat
      BY <3>2, FS_CardinalityType
    <3>4. live_allocations - 1 \in 0 .. AllocationLimit
      BY <1>1, <3>2, <3>3, SetsAndSums DEF Counts
    <3> QED
      BY <1>1, <2>0, <3>1, <3>2, <3>4 DEF Counts
  <2>7. CASE ReleaseBytes(b)
    <3>1. /\ Unreleased' = Unreleased \ {b} /\ Charged' = Charged /\ b \in Unreleased
          /\ live_bytes' = live_bytes - size[b] /\ live_allocations' = live_allocations
      BY <1>1, <2>7 DEF Unreleased, Charged, ReleaseBytes, Step
    <3>2. SumOf(size, Unreleased') \in Nat /\ SumOf(size, Unreleased) = size[b] + SumOf(size, Unreleased')
      BY <3>1, SumRemove, SetsAndSums
    <3>3. live_bytes' = SumOf(size, Unreleased') /\ live_bytes' \in 0 .. ByteLimit
      BY <1>1, <3>1, <3>2, SetsAndSums DEF Counts
    <3> QED
      BY <1>1, <2>0, <3>1, <3>3 DEF Counts
  <2> QED
    BY <1>3, <2>1, <2>2, <2>3, <2>4, <2>5, <2>6, <2>7 DEF Deallocate, Release
<1> QED
  BY <1>2, <1>3 DEF Next

(* Deallocators that run between the two loads of a report can only lower  *)
(* what it reads.                                                          *)
LEMMA NextReport ==
  ASSUME LInv, Next, Marks', Counts'
  PROVE  ReportWillBePlausible' /\ report' \in [allocations : 0 .. AllocationLimit, bytes : 0 .. ByteLimit]
<1>1. Counts /\ TypeOK
  BY LedgerIsCounts DEF LInv
<1>2. CASE ReportAllocations
  <2>1. /\ report' = [report EXCEPT !.allocations = live_allocations]
        /\ owner' = "reporting" /\ UNCHANGED stage
    BY <1>2 DEF ReportAllocations
  <2>2. report'.allocations = live_allocations /\ report' \in [allocations : 0 .. AllocationLimit, bytes : 0 .. ByteLimit]
    BY <1>1, <2>1 DEF TypeOK
  <2>3. live_allocations = 0 => Charged = {}
    BY <1>1, FS_EmptySet DEF Counts
  <2>4. Charged' = Charged
    BY <2>1 DEF Charged, Unreleased
  <2> QED
    BY <2>1, <2>2, <2>3, <2>4 DEF ReportWillBePlausible
<1>3. CASE ReportBytes
  <2>1. /\ report' = [report EXCEPT !.bytes = live_bytes]
        /\ owner = "reporting" /\ owner' = "idle"
    BY <1>3 DEF ReportBytes
  <2>2. /\ report'.allocations = report.allocations /\ report'.bytes = live_bytes
        /\ report' \in [allocations : 0 .. AllocationLimit, bytes : 0 .. ByteLimit]
    BY <1>1, <2>1 DEF TypeOK
  <2>3. Charged = {} => Unreleased = {}
    BY DEF Charged
  <2>4. Unreleased = {} => live_bytes = 0
    BY <1>1, SumType, SetsAndSums DEF Counts
  <2> QED
    BY <2>1, <2>2, <2>3, <2>4 DEF LInv, ReportWillBePlausible
<1>4. ASSUME NEW b \in Buffers,
             \/ Reject(b) \/ ReserveAllocation(b) \/ ReserveBytes(b) \/ Refund(b)
             \/ MakeBuffer(b) \/ InspectFails(b) \/ Externalized(b) \/ Publish(b)
             \/ Unreach(b) \/ Deallocate(b)
      PROVE  ReportWillBePlausible' /\ report' \in [allocations : 0 .. AllocationLimit, bytes : 0 .. ByteLimit]
  <2>1. report' = report
    BY <1>4 DEF Deallocate, Release, Reject, ReserveAllocation, ReserveBytes, Refund, MakeBuffer,
       InspectFails, Externalized, Publish, Unreach, StoreOrigin, StoreThread, Observe,
       ReleaseBytes, ReleaseAllocation, CountDeallocation
  <2>2. owner' = "reporting" <=> owner = "reporting"
    <3>1. CASE UNCHANGED owner
      BY <3>1
    <3>2. CASE InTransfer(b)
      BY <1>4, <3>2 DEF LInv, Marks, Mark, InTransfer, Deallocate, Release, Step, Transferring,
         Answer, Reject, ReserveAllocation, ReserveBytes, Refund, MakeBuffer, InspectFails,
         Externalized, Publish, Unreach, StoreOrigin, StoreThread, Observe, ReleaseBytes,
         ReleaseAllocation, CountDeallocation
    <3>3. CASE owner = "idle"
      BY <1>4, <3>3 DEF Deallocate, Release, Transferring, Reject, ReserveAllocation, ReserveBytes,
         Refund, MakeBuffer, InspectFails, Externalized, Publish, Unreach, StoreOrigin, StoreThread,
         Observe, ReleaseBytes, ReleaseAllocation, CountDeallocation
    <3> QED
      BY <1>4, <3>1, <3>2, <3>3 DEF InTransfer, Deallocate, Release, Step, Transferring, Reject,
         ReserveAllocation, ReserveBytes, Refund, MakeBuffer, InspectFails, Externalized, Publish,
         Unreach, StoreOrigin, StoreThread, Observe, ReleaseBytes, ReleaseAllocation,
         CountDeallocation
  <2>3. owner = "reporting" => Charged' \subseteq Charged
    BY NextCounts
  <2> QED
    BY <1>1, <2>1, <2>2, <2>3 DEF LInv, ReportWillBePlausible, TypeOK
<1> QED
  BY <1>2, <1>3, <1>4 DEF Next

(* Every step keeps the ledger exact. *)
LEMMA NextLInv ==
  ASSUME LInv, [Next]_vars
  PROVE  LInv'
<1>1. CASE UNCHANGED vars
  <2>1. Unreleased' = Unreleased /\ Charged' = Charged
    BY <1>1 DEF vars, Unreleased, Charged
  <2>2. Counts /\ TypeOK
    BY LedgerIsCounts DEF LInv
  <2>3. Counts' /\ TypeOK'
    BY <1>1, <2>1, <2>2 DEF vars, ledgerVars, observationVars, callVars, Counts, TypeOK
  <2>4. LedgerIsExact' /\ IsFiniteSet(Charged)'
    BY <2>3, LedgerIsCounts, PTL
  <2>5. ReportWillBePlausible'
    BY <1>1, <2>1 DEF vars, LInv, ReportWillBePlausible
  <2> QED
    BY <2>4, <2>5, NextMarks DEF LInv
<1>2. CASE Next
  <2>1. Marks' /\ Counts'
    BY <1>2, NextMarks, NextCounts DEF LInv
  <2>2. ReportWillBePlausible' /\ report' \in [allocations : 0 .. AllocationLimit, bytes : 0 .. ByteLimit]
    BY <1>2, <2>1, NextReport
  <2>3. deallocations' \in Nat
    <3>1. deallocations \in Nat
      BY DEF LInv, LedgerIsExact, TypeOK
    <3>2. deallocations' = deallocations \/ deallocations' = deallocations + 1
      BY <1>2 DEF Next, ledgerVars, ReportAllocations, ReportBytes, Deallocate, Release, Reject,
         ReserveAllocation, ReserveBytes, Refund, MakeBuffer, InspectFails, Externalized, Publish,
         Unreach, StoreOrigin, StoreThread, Observe, ReleaseBytes, ReleaseAllocation, CountDeallocation
    <3> QED
      BY <3>1, <3>2
  <2>4. TypeOK'
    BY <2>1, <2>2, <2>3 DEF Counts, Marks, MarkTypes, TypeOK
  <2>5. LedgerIsExact' /\ IsFiniteSet(Charged)'
    BY <2>1, <2>4, LedgerIsCounts, PTL
  <2> QED
    BY <2>1, <2>2, <2>5 DEF LInv
<1> QED
  BY <1>1, <1>2

(* The ledger, the marks and the report agree in every behaviour. *)
THEOREM LedgerInvariant == Spec => []LInv
<1>1. Init => LInv
  BY InitLInv
<1>2. LInv /\ [Next]_vars => LInv'
  BY NextLInv
<1> QED
  BY <1>1, <1>2, PTL DEF Spec

(* Both counters are exact at every step of every overlapping reservation, *)
(* refund and release, and never leave their limits                        *)
(* (external_buffer.rs:107-132).                                           *)
THEOREM LedgerStaysExact == Spec => []LedgerIsExact
<1>1. LInv => LedgerIsExact
  BY DEF LInv
<1> QED
  BY <1>1, LedgerInvariant, PTL

(* A finished report without allocations has no bytes                      *)
(* (attachment.rs:359-360), whichever deallocators ran while it was made.  *)
THEOREM ReportsStayPlausible == Spec => []ReportIsPlausible
<1>1. LInv => ReportIsPlausible
  BY MarksAreHonest
<1> QED
  BY <1>1, LedgerInvariant, PTL

(* What OwnershipTransferError says about whose the bytes are is true, and *)
(* they are freed at most once (external_buffer.rs:239-328).               *)
THEOREM TransfersStayHonest == Spec => []TransferIsHonest
<1>1. LInv => TransferIsHonest
  BY MarksAreHonest
<1> QED
  BY <1>1, LedgerInvariant, PTL
=============================================================================
