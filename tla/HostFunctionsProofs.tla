------------------------- MODULE HostFunctionsProofs -------------------------
(***************************************************************************)
(* Local values, calls and callbacks stay as HostFunctions says for any     *)
(* heap, limits, argument lists and strings, and for any number of          *)
(* callbacks and attachments (local_budget.rs, scopes.rs, argument_roots.rs, *)
(* common.rs; experimental.rs:1029-1106, 1380-1394, 1586-1709, 2012-2018).  *)
(***************************************************************************)
EXTENDS HostFunctions, FiniteSetTheorems, SequenceTheorems, TLAPS

Elems(q) == {q[n] : n \in 1 .. Len(q)}

Ops    == Scopes \cup Engine \cup {"callback"}
Values == Cells \cup {Scalar}

FrameType ==
  [op : Ops, roots : Seq(Values), held : Nat, todo : Seq({Scalar} \cup Nat), count : Nat,
   threw : BOOLEAN, cell : Cells \cup {Free}, id : Nat, left : Nat, copied : Nat]

LocalTypes ==
  /\ heap \in [Cells -> {Free, Plain} \cup Callbacks] /\ reachable \subseteq Cells
  /\ protect \in [Cells -> Nat] /\ kept \subseteq Cells /\ used \in 0 .. local_roots

FunctionTypes ==
  /\ Registered \subseteq Cells /\ installs \in 0 .. MaxInstalls
  /\ dropped \in [Callbacks -> Nat]
  /\ handles \subseteq [epoch : Nat, key : Cells, id : Callbacks]
  /\ epoch \in 1 .. MaxEpoch /\ attached \in BOOLEAN /\ leaked \in [Cells -> Nat]

(* How one frame may stand below another: above an operation in the engine   *)
(* there are callbacks and what they read, above the preparation of a call  *)
(* there is nothing.  The outermost frame is a scope.                       *)
Beneath(f, g) == f.op \in Scopes \/ (f.op # "prepare" /\ g.op \in {"callback", "read"})

Stacked(q) ==
  /\ q \in Seq(FrameType)
  /\ \A i, j \in 1 .. Len(q) : i < j => Beneath(q[i], q[j])
  /\ q # <<>> => q[1].op \in Scopes

(* The frames that name a registered callback. *)
Calls(f) == f.op \in {"callback", "install", "prepare"} \/ (f.op = "call" /\ f.id # 0)

(* What a frame may hold, what it calls, and what it may still copy. *)
FrameIsExact(f) ==
  /\ f.op \in {"callback", "install", "read"} => f.held = 0 /\ f.roots = <<>>
  /\ f.op \in {"prepare", "eval", "call"} => f.held >= 1
  /\ \A k \in 1 .. Len(f.roots) : f.roots[k] = Scalar \/ heap[f.roots[k]] # Free
  /\ Calls(f) => f.cell \in Registered /\ host_functions[f.cell] = f.id
  /\ f.op = "callback" => f.left + f.copied = inbound_bytes
  /\ f.op = "install" => \A h \in handles : h.epoch = epoch => h.key # f.cell

(* The sums over a stack: what its frames have admitted, and how often they  *)
(* protect each cell.                                                       *)
Sums(q, u, p) ==
  /\ IsFiniteSet(Reserved(q)) /\ u = Cardinality(Reserved(q))
  /\ \A c \in Cells : IsFiniteSet(Holding(q, c)) /\ p[c] = Cardinality(Holding(q, c))

(* The protections that the stack accounts for. *)
OnStack == [c \in Cells |-> protect[c] - (Owned(c) + leaked[c])]

(* A registered callback's function is in its cell; callbacks are registered *)
(* once, and dropped when they are registered no more.                      *)
RegistryIsExact ==
  /\ IsFiniteSet(Registered) /\ Cardinality(Registered) <= registrations
  /\ \A c \in Registered : heap[c] = host_functions[c] /\ host_functions[c] \in 1 .. installs
  /\ \A c, d \in Registered : host_functions[c] = host_functions[d] => c = d
  /\ \A i \in Callbacks :
       dropped[i] = IF i <= installs /\ ~\E c \in Registered : host_functions[c] = i THEN 1 ELSE 0

(* A handle of this attachment is of a registered callback. *)
HandlesAreExact ==
  \A h \in handles :
    /\ h.epoch <= epoch
    /\ h.epoch = epoch /\ attached => h.key \in Registered /\ host_functions[h.key] = h.id

HInv ==
  /\ LocalTypes /\ FunctionTypes /\ Stacked(stack)
  /\ \A f \in Elems(stack) : FrameIsExact(f)
  /\ Sums(stack, used, OnStack)
  /\ \A c \in kept : heap[c] # Free
  /\ RegistryIsExact /\ HandlesAreExact
  /\ stack # <<>> => attached
----------------------------------------------------------------------------
(* Pairs are equal where their parts are. *)
LEMMA SamePair ==
  ASSUME NEW a, NEW b, NEW x, NEW y, <<a, x>> = <<b, y>>
  PROVE  a = b
  OBVIOUS

(* The disjoint union of one set more. *)
LEMMA TogetherGrows ==
  ASSUME NEW N \in Nat, NEW s, NEW t, DOMAIN s = 1 .. N, DOMAIN t = 1 .. N + 1,
         \A i \in 1 .. N : t[i] = s[i], IsFiniteSet(t[N + 1]),
         IsFiniteSet(Together(s)) \/ IsFiniteSet(Together(t))
  PROVE  /\ IsFiniteSet(Together(s)) /\ IsFiniteSet(Together(t))
         /\ Cardinality(Together(t)) = Cardinality(Together(s)) + Cardinality(t[N + 1])
  <1>. DEFINE new == {N + 1} \X t[N + 1]
  <1>1. N + 1 \notin 1 .. N /\ 1 .. N + 1 = (1 .. N) \cup {N + 1}
    OBVIOUS
  <1>2. Together(s) \cap new = {}
    <2>. SUFFICES ASSUME NEW z, z \in Together(s), z \in new PROVE FALSE
      OBVIOUS
    <2>1. PICK i \in 1 .. N : z \in {i} \X s[i]
      BY DEF Together
    <2>2. PICK x \in s[i], y \in t[N + 1] : z = <<i, x>> /\ z = <<N + 1, y>>
      <3>1. \E x \in s[i] : z = <<i, x>>
        BY <2>1
      <3>2. \E y \in t[N + 1] : z = <<N + 1, y>>
        OBVIOUS
      <3>. QED
        BY <3>1, <3>2
    <2>3. i = N + 1
      BY <2>2, SamePair
    <2>. QED
      BY <1>1, <2>3
  <1>3. Together(t) = Together(s) \cup new
    <2>1. ASSUME NEW z PROVE z \in Together(t) <=> \E i \in 1 .. N + 1 : z \in {i} \X t[i]
      BY Zenon DEF Together
    <2>2. ASSUME NEW z PROVE z \in Together(s) <=> \E i \in 1 .. N : z \in {i} \X s[i]
      BY Zenon DEF Together
    <2>3. \A i \in 1 .. N : {i} \X t[i] = {i} \X s[i]
      OBVIOUS
    <2>. HIDE DEF new
    <2>4. new = {N + 1} \X t[N + 1]
      BY DEF new
    <2>5. ASSUME NEW z, z \in Together(t) PROVE z \in Together(s) \/ z \in new
      <3>1. PICK i \in 1 .. N + 1 : z \in {i} \X t[i]
        BY <2>1, <2>5
      <3>2. CASE i = N + 1
        BY <2>4, <3>1, <3>2, Zenon
      <3>3. CASE i \in 1 .. N
        BY <2>2, <2>3, <3>1, <3>3, Zenon
      <3>. QED
        <4>1. i = N + 1 \/ i \in 1 .. N
          BY <1>1
        <4>. QED
          BY <3>2, <3>3, <4>1
    <2>6. ASSUME NEW z, z \in Together(s) PROVE z \in Together(t)
      <3>1. PICK i \in 1 .. N : z \in {i} \X s[i]
        BY <2>2, <2>6
      <3>2. i \in 1 .. N + 1 /\ z \in {i} \X t[i]
        BY <1>1, <2>3, <3>1, Zenon
      <3>. QED
        BY <2>1, <3>2, Zenon
    <2>7. ASSUME NEW z, z \in new PROVE z \in Together(t)
      <3>1. N + 1 \in 1 .. N + 1
        BY <1>1
      <3>. QED
        BY <2>1, <2>4, <2>7, <3>1, Zenon
    <2>. QED
      BY <2>5, <2>6, <2>7, Zenon
  <1>4. IsFiniteSet(new) /\ Cardinality(new) = Cardinality(t[N + 1])
    <2>1. IsFiniteSet({N + 1}) /\ Cardinality({N + 1}) = 1 /\ Cardinality(t[N + 1]) \in Nat
      BY FS_Singleton, FS_CardinalityType
    <2>. QED
      BY <2>1, FS_Product
  <1>. HIDE DEF new
  <1>5. IsFiniteSet(Together(s))
    BY <1>3, FS_Subset
  <1>6. IsFiniteSet(Together(t)) /\ Cardinality(Together(t)) = Cardinality(Together(s)) + Cardinality(new)
    <2>1. Cardinality(Together(s) \cap new) = 0 /\ Cardinality(Together(s)) \in Nat /\ Cardinality(new) \in Nat
      BY <1>2, <1>4, <1>5, FS_EmptySet, FS_CardinalityType
    <2>2. /\ IsFiniteSet(Together(s) \cup new)
          /\ Cardinality(Together(s) \cup new)
               = Cardinality(Together(s)) + Cardinality(new) - Cardinality(Together(s) \cap new)
      BY <1>4, <1>5, FS_Union, Zenon
    <2>. QED
      BY <1>3, <2>1, <2>2
  <1>. QED
    BY <1>4, <1>5, <1>6

(* Where a cell occurs in a list. *)
LEMMA Counts ==
  ASSUME NEW cells \in Seq(Values), NEW c
  PROVE  IsFiniteSet(Where(cells, c)) /\ Cardinality(Where(cells, c)) \in Nat
  <1>1. Len(cells) \in Nat /\ Where(cells, c) \subseteq 1 .. Len(cells)
    BY LenProperties DEF Where
  <1>2. IsFiniteSet(1 .. Len(cells))
    BY <1>1, FS_Interval
  <1>. QED
    BY <1>1, <1>2, FS_Subset, FS_CardinalityType

(* One root more. *)
LEMMA CountsGrow ==
  ASSUME NEW cells \in Seq(Values), NEW v \in Values, NEW c
  PROVE  /\ Append(cells, v) \in Seq(Values) /\ Len(Append(cells, v)) = Len(cells) + 1
         /\ \A k \in 1 .. Len(cells) : Append(cells, v)[k] = cells[k]
         /\ Append(cells, v)[Len(cells) + 1] = v
         /\ Cardinality(Where(Append(cells, v), c)) = Cardinality(Where(cells, c)) + IF c = v THEN 1 ELSE 0
  <1>. DEFINE more == Append(cells, v)
  <1>1. /\ more \in Seq(Values) /\ Len(more) = Len(cells) + 1 /\ more[Len(cells) + 1] = v
        /\ \A k \in 1 .. Len(cells) : more[k] = cells[k]
    BY AppendProperties
  <1>2. /\ Len(cells) \in Nat /\ DOMAIN cells = 1 .. Len(cells) /\ DOMAIN more = 1 .. Len(cells) + 1
        /\ 1 .. Len(cells) + 1 = (1 .. Len(cells)) \cup {Len(cells) + 1} /\ Len(cells) + 1 \notin 1 .. Len(cells)
    BY <1>1, LenProperties
  <1>. HIDE DEF more
  <1>3. Where(more, c) = Where(cells, c) \cup IF c = v THEN {Len(cells) + 1} ELSE {}
    BY <1>1, <1>2 DEF Where
  <1>4. Len(cells) + 1 \notin Where(cells, c) /\ IsFiniteSet(Where(cells, c)) /\ Cardinality(Where(cells, c)) \in Nat
    BY <1>2, Counts DEF Where
  <1>5. Cardinality(Where(more, c)) = Cardinality(Where(cells, c)) + IF c = v THEN 1 ELSE 0
    <2>1. CASE c = v
      BY <1>3, <1>4, <2>1, FS_AddElement
    <2>2. CASE c # v
      BY <1>3, <1>4, <2>2
    <2>. QED
      BY <2>1, <2>2
  <1>. QED
    BY <1>1, <1>5 DEF more

(* A cell that occurs is counted. *)
LEMMA CountsSee ==
  ASSUME NEW cells \in Seq(Values), NEW k \in 1 .. Len(cells)
  PROVE  Cardinality(Where(cells, cells[k])) > 0
  <1>1. k \in Where(cells, cells[k])
    BY LenProperties DEF Where
  <1>. QED
    BY <1>1, Counts, FS_EmptySet
----------------------------------------------------------------------------
(* The frames below the running one. *)
LEMMA FrontIsShorter ==
  ASSUME NEW S, NEW q \in Seq(S), q # <<>>
  PROVE  /\ Len(q) \in Nat \ {0} /\ Last(q) = q[Len(q)] /\ Last(q) \in S
         /\ Front(q) \in Seq(S) /\ Len(Front(q)) = Len(q) - 1
         /\ \A n \in 1 .. Len(q) - 1 : Front(q)[n] = q[n]
  <1>. DEFINE N == Len(q)
  <1>1. N \in Nat \ {0} /\ q \in [1 .. N -> S]
    BY LenProperties, EmptySeq
  <1>2. Last(q) = q[N] /\ Last(q) \in S
    BY <1>1 DEF Last
  <1>3. N - 1 \in 0 .. N /\ 1 \in 1 .. N + 1 /\ N - 1 \in 1 - 1 .. N
    BY <1>1
  <1>4. (\A n \in 1 .. N - 1 : 1 + n - 1 = n) /\ N - 1 - 1 + 1 = N - 1
    BY <1>1
  <1>. QED
    BY <1>1, <1>2, <1>3, <1>4, SubSeqProperties DEF Front

LEMMA FrontOfAppend ==
  ASSUME NEW S, NEW q \in Seq(S), NEW f \in S
  PROVE  Front(Append(q, f)) = q /\ Last(Append(q, f)) = f
  <1>. DEFINE p == Append(q, f)
  <1>1. /\ p \in Seq(S) /\ p # <<>> /\ Len(p) = Len(q) + 1 /\ p[Len(q) + 1] = f
        /\ \A n \in 1 .. Len(q) : p[n] = q[n]
    BY AppendProperties
  <1>2. Len(q) \in Nat
    BY LenProperties
  <1>. HIDE DEF p
  <1>3. Front(p) \in Seq(S) /\ Len(Front(p)) = Len(q) /\ Last(p) = f /\ \A n \in 1 .. Len(q) : Front(p)[n] = q[n]
    <2>1. Len(p) - 1 = Len(q)
      BY <1>1, <1>2
    <2>. QED
      BY <1>1, <2>1, FrontIsShorter
  <1>4. Front(p) = q
    BY <1>3, SeqEqual
  <1>. QED
    BY <1>3, <1>4 DEF p

LEMMA AppendOfFront ==
  ASSUME NEW S, NEW q \in Seq(S), q # <<>>
  PROVE  q = Append(Front(q), Last(q))
  <1>. DEFINE p == Append(Front(q), Last(q))
              N == Len(q)
  <1>1. /\ N \in Nat \ {0} /\ Last(q) = q[N] /\ Last(q) \in S
        /\ Front(q) \in Seq(S) /\ Len(Front(q)) = N - 1
        /\ \A n \in 1 .. N - 1 : Front(q)[n] = q[n]
    BY FrontIsShorter
  <1>2. /\ p \in Seq(S) /\ Len(p) = N /\ p[N] = q[N] /\ \A n \in 1 .. N - 1 : p[n] = q[n]
    <2>1. N - 1 + 1 = N
      BY <1>1
    <2>. QED
      BY <1>1, <2>1, AppendProperties
  <1>3. 1 .. N = (1 .. N - 1) \cup {N}
    BY <1>1
  <1>. HIDE DEF p, N
  <1>4. \A n \in 1 .. N : p[n] = q[n]
    BY <1>2, <1>3
  <1>5. p = q
    BY <1>2, <1>4, SeqEqual DEF N
  <1>. QED
    BY <1>5 DEF p

(* A frame on top of a stack. *)
LEMMA PushFrame ==
  ASSUME NEW q, Stacked(q), NEW f \in FrameType,
         \A g \in Elems(q) : Beneath(g, f), q = <<>> => f.op \in Scopes
  PROVE  /\ Stacked(Append(q, f)) /\ Elems(Append(q, f)) = Elems(q) \cup {f}
         /\ Append(q, f) # <<>> /\ Last(Append(q, f)) = f /\ Front(Append(q, f)) = q
  <1>. DEFINE N == Len(q)
              p == Append(q, f)
  <1>1. q \in Seq(FrameType)
    BY DEF Stacked
  <1>2. /\ p \in Seq(FrameType) /\ Len(p) = N + 1 /\ p[N + 1] = f /\ \A n \in 1 .. N : p[n] = q[n]
        /\ p # <<>>
    BY <1>1, AppendProperties
  <1>3. N \in Nat /\ 1 .. N + 1 = (1 .. N) \cup {N + 1} /\ \A n \in 1 .. N : n # N + 1
    BY <1>1, LenProperties
  <1>4. Front(p) = q
    BY <1>1, FrontOfAppend
  <1>. HIDE DEF N, p
  <1>5. Elems(p) = Elems(q) \cup {f}
    BY <1>2, <1>3 DEF Elems, N
  <1>6. ASSUME NEW i \in 1 .. N + 1, NEW j \in 1 .. N + 1, i < j PROVE Beneath(p[i], p[j])
    <2>1. i \in 1 .. N /\ p[i] = q[i] /\ q[i] \in Elems(q)
      BY <1>2, <1>3, <1>6 DEF Elems, N
    <2>2. CASE j = N + 1
      BY <1>2, <2>1, <2>2
    <2>3. CASE j \in 1 .. N
      BY <1>2, <1>6, <2>1, <2>3 DEF Stacked, N
    <2>. QED
      BY <1>3, <2>2, <2>3
  <1>7. p[1].op \in Scopes
    <2>1. CASE q = <<>>
      BY <1>2, <1>3, <2>1 DEF N
    <2>2. CASE q # <<>>
      <3>1. 1 \in 1 .. N /\ q[1].op \in Scopes
        BY <1>1, <2>2, LenProperties, EmptySeq DEF Stacked, N
      <3>. QED
        BY <1>2, <3>1
    <2>. QED
      BY <2>1, <2>2
  <1>8. Stacked(p)
    BY <1>2, <1>6, <1>7 DEF Stacked
  <1>9. Last(p) = f
    BY <1>2 DEF Last
  <1>. QED
    BY <1>2, <1>4, <1>5, <1>8, <1>9 DEF p

(* And its end. *)
LEMMA PopFrame ==
  ASSUME NEW q, Stacked(q), q # <<>>
  PROVE  /\ Stacked(Front(q)) /\ Last(q) \in FrameType /\ Elems(q) = Elems(Front(q)) \cup {Last(q)}
         /\ q = Append(Front(q), Last(q)) /\ (Front(q) = <<>> => Last(q).op \in Scopes)
         /\ \A g \in Elems(Front(q)) : Beneath(g, Last(q))
  <1>. DEFINE N == Len(q)
              p == Front(q)
  <1>1. q \in Seq(FrameType) /\ N \in Nat \ {0} /\ q \in [1 .. N -> FrameType]
    BY LenProperties, EmptySeq DEF Stacked
  <1>2. Last(q) = q[N] /\ Last(q) \in FrameType
    BY <1>1 DEF Last
  <1>3. p \in Seq(FrameType) /\ Len(p) = N - 1 /\ \A n \in 1 .. N - 1 : p[n] = q[n]
    BY <1>1, FrontIsShorter
  <1>4. 1 .. N = (1 .. N - 1) \cup {N} /\ \A n \in 1 .. N - 1 : n < N
    BY <1>1
  <1>5. q = Append(p, Last(q))
    BY <1>1, AppendOfFront
  <1>. HIDE DEF N, p
  <1>6. Elems(p) = {q[n] : n \in 1 .. N - 1} /\ Elems(q) = {q[n] : n \in 1 .. N - 1} \cup {q[N]}
    BY <1>3, <1>4 DEF Elems, N
  <1>7. \A g \in Elems(p) : Beneath(g, Last(q))
    BY <1>2, <1>4, <1>6 DEF Stacked, N
  <1>8. Stacked(p)
    <2>1. p # <<>> => 1 \in 1 .. N - 1
      BY <1>1, <1>3, EmptySeq, LenProperties
    <2>. QED
      BY <1>3, <1>4, <2>1 DEF Stacked, N
  <1>9. p = <<>> => Last(q).op \in Scopes
    <2>1. p = <<>> => N = 1
      BY <1>1, <1>3, EmptySeq
    <2>. QED
      BY <1>2, <2>1 DEF Stacked
  <1>. QED
    BY <1>2, <1>5, <1>6, <1>7, <1>8, <1>9 DEF p
----------------------------------------------------------------------------
(* What a frame adds to the sums. *)
Adds(f, c) == Cardinality(Where(f.roots, c))

LEMMA FrameCounts ==
  ASSUME NEW f \in FrameType
  PROVE  /\ Admitted(f) \in Nat /\ f.roots \in Seq(Values) /\ f.held \in Nat
         /\ \A c : IsFiniteSet(Where(f.roots, c)) /\ Adds(f, c) \in Nat
  <1>1. f.roots \in Seq(Values) /\ f.held \in Nat
    BY DEF FrameType
  <1>2. Admitted(f) \in Nat
    BY <1>1, LenProperties DEF Admitted
  <1>. QED
    BY <1>1, <1>2, Counts DEF Adds

LEMMA NumbersTo ==
  ASSUME NEW n \in Nat
  PROVE  IsFiniteSet(1 .. n) /\ Cardinality(1 .. n) = n
  BY FS_Interval

(* The sums grow and shrink with the stack. *)
LEMMA StackCounts ==
  ASSUME NEW q \in Seq(FrameType), NEW f \in FrameType,
         NEW c
  PROVE  /\ IsFiniteSet(Reserved(q)) \/ IsFiniteSet(Reserved(Append(q, f)))
              => /\ IsFiniteSet(Reserved(q)) /\ IsFiniteSet(Reserved(Append(q, f)))
                 /\ Cardinality(Reserved(Append(q, f))) = Cardinality(Reserved(q)) + Admitted(f)
         /\ IsFiniteSet(Holding(q, c)) \/ IsFiniteSet(Holding(Append(q, f), c))
              => /\ IsFiniteSet(Holding(q, c)) /\ IsFiniteSet(Holding(Append(q, f), c))
                 /\ Cardinality(Holding(Append(q, f), c)) = Cardinality(Holding(q, c)) + Adds(f, c)
  <1>. DEFINE N == Len(q)
              p == Append(q, f)
              a == [i \in DOMAIN q |-> 1 .. Admitted(q[i])]
              b == [i \in DOMAIN p |-> 1 .. Admitted(p[i])]
              v == [i \in DOMAIN q |-> Where(q[i].roots, c)]
              w == [i \in DOMAIN p |-> Where(p[i].roots, c)]
  <1>1. /\ N \in Nat /\ DOMAIN q = 1 .. N /\ DOMAIN p = 1 .. N + 1
        /\ p[N + 1] = f /\ \A n \in 1 .. N : p[n] = q[n]
    BY LenProperties, AppendProperties
  <1>2. N + 1 \in 1 .. N + 1 /\ \A i \in 1 .. N : i \in 1 .. N + 1
    BY <1>1
  <1>3. Admitted(f) \in Nat /\ IsFiniteSet(Where(f.roots, c))
    BY FrameCounts
  <1>. HIDE DEF N, p
  <1>4. DOMAIN a = 1 .. N /\ DOMAIN b = 1 .. N + 1 /\ b[N + 1] = 1 .. Admitted(f) /\ \A i \in 1 .. N : b[i] = a[i]
    BY <1>1, <1>2
  <1>5. DOMAIN v = 1 .. N /\ DOMAIN w = 1 .. N + 1 /\ w[N + 1] = Where(f.roots, c) /\ \A i \in 1 .. N : w[i] = v[i]
    BY <1>1, <1>2
  <1>6. Reserved(q) = Together(a) /\ Reserved(p) = Together(b)
    BY DEF Reserved
  <1>7. Holding(q, c) = Together(v) /\ Holding(p, c) = Together(w)
    BY DEF Holding
  <1>. HIDE DEF a, b, v, w
  <1>8. ASSUME IsFiniteSet(Together(a)) \/ IsFiniteSet(Together(b))
        PROVE  /\ IsFiniteSet(Together(a)) /\ IsFiniteSet(Together(b))
               /\ Cardinality(Together(b)) = Cardinality(Together(a)) + Admitted(f)
    <2>1. IsFiniteSet(b[N + 1]) /\ Cardinality(b[N + 1]) = Admitted(f)
      BY <1>3, <1>4, NumbersTo
    <2>. QED
      BY <1>1, <1>4, <1>8, <2>1, TogetherGrows
  <1>9. ASSUME IsFiniteSet(Together(v)) \/ IsFiniteSet(Together(w))
        PROVE  /\ IsFiniteSet(Together(v)) /\ IsFiniteSet(Together(w))
               /\ Cardinality(Together(w)) = Cardinality(Together(v)) + Adds(f, c)
    <2>1. IsFiniteSet(w[N + 1]) /\ Cardinality(w[N + 1]) = Adds(f, c)
      BY <1>3, <1>5 DEF Adds
    <2>. QED
      BY <1>1, <1>5, <1>9, <2>1, TogetherGrows
  <1>. QED
    BY <1>6, <1>7, <1>8, <1>9 DEF p

LEMMA SumsOfNone ==
  ASSUME NEW p, \A c \in Cells : p[c] = 0
  PROVE  Sums(<<>>, 0, p)
  <1>1. Reserved(<<>>) = {} /\ \A c : Holding(<<>>, c) = {}
    BY DEF Reserved, Holding, Together
  <1>. QED
    BY <1>1, FS_EmptySet DEF Sums

LEMMA SumsPush ==
  ASSUME NEW q \in Seq(FrameType), NEW f \in FrameType, NEW u, NEW p, NEW r,
         Sums(q, u, p), \A c \in Cells : r[c] = p[c] + Adds(f, c)
  PROVE  Sums(Append(q, f), u + Admitted(f), r)
  BY StackCounts DEF Sums

LEMMA SumsPop ==
  ASSUME NEW q \in Seq(FrameType), NEW f \in FrameType, NEW u, NEW p, NEW r,
         Sums(Append(q, f), u, p), \A c \in Cells : r[c] = p[c] - Adds(f, c)
  PROVE  /\ Sums(q, u - Admitted(f), r)
         /\ u \in Nat /\ u - Admitted(f) \in Nat
         /\ \A c \in Cells : p[c] \in Nat /\ p[c] - Adds(f, c) \in Nat
  <1>1. Admitted(f) \in Nat /\ \A c : Adds(f, c) \in Nat
    BY FrameCounts
  <1>2. /\ IsFiniteSet(Reserved(q)) /\ u = Cardinality(Reserved(q)) + Admitted(f)
        /\ Cardinality(Reserved(q)) \in Nat
    BY StackCounts, FS_CardinalityType DEF Sums
  <1>3. ASSUME NEW c \in Cells
        PROVE  /\ IsFiniteSet(Holding(q, c)) /\ p[c] = Cardinality(Holding(q, c)) + Adds(f, c)
               /\ Cardinality(Holding(q, c)) \in Nat
    BY StackCounts, FS_CardinalityType DEF Sums
  <1>4. u - Admitted(f) = Cardinality(Reserved(q)) /\ u \in Nat
    BY <1>1, <1>2
  <1>5. ASSUME NEW c \in Cells
        PROVE  p[c] - Adds(f, c) = Cardinality(Holding(q, c)) /\ p[c] \in Nat
    BY <1>1, <1>3
  <1>. QED
    BY <1>2, <1>3, <1>4, <1>5 DEF Sums
----------------------------------------------------------------------------
(* A set counts an element once. *)
LEMMA OneCounts ==
  ASSUME NEW c, NEW S
  PROVE  Cardinality({c} \cap S) = IF c \in S THEN 1 ELSE 0
  <1>1. CASE c \in S
    <2>1. {c} \cap S = {c}
      BY <1>1
    <2>. QED
      BY <1>1, <2>1, FS_Singleton
  <1>2. CASE c \notin S
    <2>1. {c} \cap S = {}
      BY <1>2
    <2>. QED
      BY <1>2, <2>1, FS_EmptySet
  <1>. QED
    BY <1>1, <1>2

(* The registry and the persistent roots protect a cell once each. *)
LEMMA OwnedCounts ==
  ASSUME NEW c
  PROVE  Owned(c) = (IF c \in Registered THEN 1 ELSE 0) + (IF c \in kept THEN 1 ELSE 0)
  BY OneCounts DEF Owned

LEMMA OwnedWillCount ==
  ASSUME NEW c
  PROVE  Owned(c)' = (IF c \in Registered' THEN 1 ELSE 0) + (IF c \in kept' THEN 1 ELSE 0)
  BY OneCounts DEF Owned

(* What the protections of a cell add up to. *)
LEMMA ProtectionIsSum ==
  ASSUME HInv, NEW c \in Cells
  PROVE  /\ Owned(c) \in Nat /\ leaked[c] \in Nat /\ protect[c] \in Nat
         /\ IsFiniteSet(Holding(stack, c)) /\ Cardinality(Holding(stack, c)) \in Nat
         /\ protect[c] = Owned(c) + leaked[c] + Cardinality(Holding(stack, c))
  <1>1. Owned(c) \in Nat /\ leaked[c] \in Nat /\ protect[c] \in Nat
    <2>1. Owned(c) \in Nat
      BY OwnedCounts
    <2>. QED
      BY <2>1 DEF HInv, FunctionTypes, LocalTypes
  <1>2. IsFiniteSet(Holding(stack, c)) /\ protect[c] - (Owned(c) + leaked[c]) = Cardinality(Holding(stack, c))
    BY DEF HInv, Sums, OnStack
  <1>. QED
    BY <1>1, <1>2, FS_CardinalityType

(* A cell that a frame holds is protected. *)
LEMMA RootsAreProtected ==
  ASSUME HInv, NEW f \in Elems(stack), NEW k \in 1 .. Len(f.roots), f.roots[k] # Scalar
  PROVE  f.roots[k] \in Cells /\ protect[f.roots[k]] > 0 /\ heap[f.roots[k]] # Free
  <1>1. PICK i \in 1 .. Len(stack) : f = stack[i]
    BY DEF Elems
  <1>2. f \in FrameType /\ DOMAIN stack = 1 .. Len(stack)
    BY <1>1, LenProperties DEF HInv, Stacked
  <1>3. f.roots[k] \in Cells /\ k \in DOMAIN f.roots
    BY <1>2, FrameCounts, LenProperties DEF Values
  <1>4. <<i, k>> \in Holding(stack, f.roots[k])
    <2>1. k \in Where(stack[i].roots, f.roots[k])
      BY <1>1, <1>3 DEF Where
    <2>. QED
      BY <1>2, <2>1 DEF Holding, Together
  <1>5. Cardinality(Holding(stack, f.roots[k])) # 0
    BY <1>3, <1>4, ProtectionIsSum, FS_EmptySet
  <1>6. protect[f.roots[k]] > 0
    BY <1>3, <1>5, ProtectionIsSum
  <1>7. heap[f.roots[k]] # Free
    BY DEF HInv, FrameIsExact
  <1>. QED
    BY <1>3, <1>6, <1>7

(* So is one of a registered function, or of a persistent root. *)
LEMMA OwnedAreProtected ==
  ASSUME HInv, NEW c \in Registered \cup kept
  PROVE  c \in Cells /\ protect[c] > 0 /\ heap[c] # Free
  <1>1. c \in Cells
    BY DEF HInv, FunctionTypes, LocalTypes
  <1>2. Owned(c) > 0
    BY OwnedCounts
  <1>3. protect[c] > 0
    BY <1>1, <1>2, ProtectionIsSum
  <1>4. heap[c] # Free
    <2>1. CASE c \in Registered
      <3>1. heap[c] \in 1 .. installs /\ installs \in 0 .. MaxInstalls
        BY <2>1 DEF HInv, RegistryIsExact, FunctionTypes
      <3>2. 1 .. installs \subseteq 1 .. MaxInstalls
        BY <3>1, FunctionsAssumption
      <3>. QED
        BY <3>1, <3>2, FunctionsAssumption
    <2>2. CASE c \in kept
      BY <2>2 DEF HInv
    <2>. QED
      BY <2>1, <2>2
  <1>. QED
    BY <1>1, <1>3, <1>4

(* Whatever is protected stays in its cell. *)
HeapStays ==
  /\ heap' \in [Cells -> {Free, Plain} \cup Callbacks]
  /\ \A c \in Cells : heap[c] # Free /\ protect[c] > 0 => heap'[c] = heap[c]

(* A frame stays exact as long as what it calls stays registered.  *)
LEMMA FrameStays ==
  ASSUME HInv, NEW f \in Elems(stack), HeapStays,
         Calls(f) => f.cell \in Registered' /\ host_functions'[f.cell] = host_functions[f.cell],
         f.op = "install" => handles' = handles /\ epoch' = epoch
  PROVE  FrameIsExact(f)'
  <1>1. FrameIsExact(f)
    BY DEF HInv
  <1>2. ASSUME NEW k \in 1 .. Len(f.roots), f.roots[k] # Scalar PROVE heap'[f.roots[k]] # Free
    BY <1>2, RootsAreProtected DEF HeapStays
  <1>3. Calls(f) => f.cell \in Registered' /\ host_functions'[f.cell] = f.id
    BY <1>1 DEF FrameIsExact
  <1>4. f.op = "install" => \A h \in handles' : h.epoch = epoch' => h.key # f.cell
    BY <1>1 DEF FrameIsExact
  <1>. QED
    BY <1>1, <1>2, <1>3, <1>4 DEF FrameIsExact

(* A step of scopes, operations and the engine, which leaves the registry   *)
(* alone, and of whose frames and sums the rest is known.                   *)
LEMMA LocalStep ==
  ASSUME HInv, UNCHANGED functionVars, HeapStays,
         reachable' \subseteq Cells, protect' \in [Cells -> Nat], kept' \subseteq Cells,
         used' \in 0 .. local_roots,
         Stacked(stack'), stack' # <<>> => attached,
         \A f \in Elems(stack') : f \in Elems(stack) \/ FrameIsExact(f)',
         \A c \in kept' : heap'[c] # Free,
         Sums(stack', used', OnStack')
  PROVE  HInv'
  <1>1. UNCHANGED <<host_functions, installs, dropped, handles, epoch, attached, leaked>> /\ Registered' = Registered
    BY DEF functionVars, Registered
  <1>2. LocalTypes'
    BY DEF LocalTypes, HeapStays
  <1>3. FunctionTypes'
    BY <1>1 DEF HInv, FunctionTypes
  <1>4. ASSUME NEW f \in Elems(stack') PROVE FrameIsExact(f)'
    <2>1. CASE f \in Elems(stack)
      <3>1. Calls(f) => f.cell \in Registered
        BY <2>1 DEF HInv, FrameIsExact
      <3>. QED
        BY <1>1, <2>1, <3>1, FrameStays
    <2>. QED
      BY <1>4, <2>1
  <1>5. RegistryIsExact'
    <2>1. \A c \in Registered : heap'[c] = heap[c]
      BY OwnedAreProtected DEF HeapStays
    <2>. QED
      BY <1>1, <2>1 DEF HInv, RegistryIsExact
  <1>6. HandlesAreExact'
    BY <1>1 DEF HInv, HandlesAreExact
  <1>. QED
    BY <1>1, <1>2, <1>3, <1>4, <1>5, <1>6 DEF HInv, Elems

(* The lower part of the stack, what it has admitted, and the protections   *)
(* that remain without the frames above.                                    *)
Base(q, u, b) ==
  /\ Stacked(q) /\ Elems(q) \subseteq Elems(stack) /\ (q # <<>> => attached)
  /\ u \in 0 .. local_roots /\ b \in [Cells -> Nat]
  /\ Sums(q, u, [c \in Cells |-> b[c] - (Owned(c) + leaked[c])])

LEMMA PushStep ==
  ASSUME HInv, UNCHANGED <<functionVars, kept>>, HeapStays, reachable' \subseteq Cells,
         NEW q, NEW u, NEW b, Base(q, u, b), NEW f \in FrameType,
         \A g \in Elems(q) : Beneath(g, f), q = <<>> => f.op \in Scopes, attached,
         stack' = Append(q, f),
         used' = u + Admitted(f), used' <= local_roots,
         protect' \in [Cells -> Int], \A c \in Cells : protect'[c] = b[c] + Adds(f, c),
         FrameIsExact(f)'
  PROVE  HInv'
  <1>1. Stacked(stack') /\ Elems(stack') = Elems(q) \cup {f}
    BY PushFrame DEF Base
  <1>2. UNCHANGED <<host_functions, leaked, attached>> /\ \A c : Owned(c)' = Owned(c)
    BY DEF functionVars, Owned, Registered
  <1>3. Admitted(f) \in Nat /\ \A c : Adds(f, c) \in Nat
    BY FrameCounts
  <1>4. used' \in 0 .. local_roots
    BY <1>3, ScopesAssumption DEF Base
  <1>5. /\ \A c \in Cells : b[c] \in Nat /\ Owned(c) \in Nat /\ leaked[c] \in Nat /\ protect'[c] \in Nat
    BY <1>3, ProtectionIsSum DEF Base
  <1>6. protect' \in [Cells -> Nat]
    BY <1>5
  <1>7. Sums(stack', used', OnStack')
    <2>1. q \in Seq(FrameType) /\ Sums(q, u, [c \in Cells |-> b[c] - (Owned(c) + leaked[c])])
      BY DEF Base, Stacked
    <2>2. \A c \in Cells : OnStack'[c] = [d \in Cells |-> b[d] - (Owned(d) + leaked[d])][c] + Adds(f, c)
      <3>1. \A c \in Cells : OnStack'[c] = protect'[c] - (Owned(c) + leaked[c])
        BY <1>2 DEF OnStack
      <3>. QED
        BY <1>3, <1>5, <3>1
    <2>. QED
      BY <2>1, <2>2, SumsPush
  <1>8. \A c \in kept' : heap'[c] # Free
    BY OwnedAreProtected DEF HeapStays
  <1>9. \A g \in Elems(stack') : g \in Elems(stack) \/ FrameIsExact(g)'
    BY <1>1 DEF Base
  <1>. QED
    BY <1>1, <1>2, <1>4, <1>6, <1>7, <1>8, <1>9, LocalStep DEF HInv, LocalTypes

LEMMA PopStep ==
  ASSUME HInv, UNCHANGED <<functionVars, kept>>, HeapStays, reachable' \subseteq Cells,
         NEW q, NEW u, NEW b, Base(q, u, b),
         stack' = q, used' = u, protect' = b
  PROVE  HInv'
  <1>1. UNCHANGED <<host_functions, leaked, attached>> /\ \A c : Owned(c)' = Owned(c)
    BY DEF functionVars, Owned, Registered
  <1>2. OnStack' = [c \in Cells |-> b[c] - (Owned(c) + leaked[c])]
    BY <1>1 DEF OnStack
  <1>3. \A c \in kept' : heap'[c] # Free
    BY OwnedAreProtected DEF HeapStays
  <1>4. \A g \in Elems(stack') : g \in Elems(stack)
    BY DEF Base
  <1>. QED
    BY <1>2, <1>3, <1>4, LocalStep DEF Base, HInv, LocalTypes

(* The whole stack is such a part, and so is what is below its top frame,   *)
(* and below the scope of an operation.                                     *)
LEMMA BaseWhole ==
  ASSUME HInv
  PROVE  Base(stack, used, protect)
  BY DEF HInv, LocalTypes, OnStack, Base

LEMMA BaseBelow ==
  ASSUME HInv, NEW q, NEW u, NEW b, Base(q, u, b), q # <<>>
  PROVE  LET f == Last(q) r == [c \in Cells |-> b[c] - Adds(f, c)]
         IN  /\ f \in FrameType /\ f \in Elems(q) /\ FrameIsExact(f) /\ attached
             /\ Base(Front(q), u - Admitted(f), r)
             /\ \A g \in Elems(Front(q)) : Beneath(g, f)
             /\ Front(q) = <<>> => f.op \in Scopes
             /\ q = Append(Front(q), f)
             /\ u - Admitted(f) <= u
  <1>. DEFINE f == Last(q)
              r == [c \in Cells |-> b[c] - Adds(f, c)]
              p == [c \in Cells |-> b[c] - (Owned(c) + leaked[c])]
  <1>1. /\ Stacked(Front(q)) /\ f \in FrameType /\ Elems(q) = Elems(Front(q)) \cup {f}
        /\ q = Append(Front(q), f) /\ (Front(q) = <<>> => f.op \in Scopes)
        /\ \A g \in Elems(Front(q)) : Beneath(g, f)
    BY PopFrame DEF Base
  <1>2. FrameIsExact(f) /\ attached
    BY <1>1 DEF Base, HInv
  <1>3. Admitted(f) \in Nat /\ \A c : Adds(f, c) \in Nat
    BY <1>1, FrameCounts
  <1>4. \A c \in Cells : b[c] \in Nat /\ Owned(c) \in Nat /\ leaked[c] \in Nat
    BY ProtectionIsSum DEF Base
  <1>. DEFINE s == [c \in Cells |-> r[c] - (Owned(c) + leaked[c])]
  <1>5. Front(q) \in Seq(FrameType) /\ Sums(Append(Front(q), f), u, p)
    BY <1>1 DEF Stacked, Base
  <1>6. \A c \in Cells : s[c] = p[c] - Adds(f, c)
    BY <1>3, <1>4
  <1>. HIDE DEF f, p, s
  <1>7. /\ Sums(Front(q), u - Admitted(f), s) /\ u \in Nat /\ u - Admitted(f) \in Nat
        /\ \A c \in Cells : p[c] \in Nat /\ p[c] - Adds(f, c) \in Nat
    BY <1>1, <1>5, <1>6, SumsPop
  <1>8. u - Admitted(f) \in 0 .. local_roots /\ u - Admitted(f) <= u
    BY <1>3, <1>7, ScopesAssumption DEF Base
  <1>9. r \in [Cells -> Nat]
    <2>1. ASSUME NEW c \in Cells PROVE b[c] - Adds(f, c) \in Nat
      <3>1. b[c] - (Owned(c) + leaked[c]) - Adds(f, c) \in Nat
        BY <1>7 DEF p
      <3>. QED
        BY <1>3, <1>4, <3>1
    <2>. QED
      BY <2>1
  <1>10. Base(Front(q), u - Admitted(f), r)
    BY <1>1, <1>2, <1>7, <1>8, <1>9 DEF Base, s
  <1>. QED
    BY <1>1, <1>2, <1>8, <1>10 DEF f
----------------------------------------------------------------------------
(* The running frame, and the scope or the callback under it. *)
LEMMA TopFrame ==
  ASSUME HInv, stack # <<>>
  PROVE  LET t == Last(stack)
         IN  /\ t \in FrameType /\ t \in Elems(stack) /\ FrameIsExact(t) /\ attached
             /\ Base(Front(stack), used - Admitted(t), Unprotected(t.roots))
             /\ \A c \in Cells : Unprotected(t.roots)[c] = protect[c] - Adds(t, c)
             /\ \A g \in Elems(Front(stack)) : g \in Elems(stack) /\ Beneath(g, t)
             /\ t.op \notin {"callback", "read"} => \A g \in Elems(Front(stack)) : g.op \in Scopes
             /\ Front(stack) = <<>> => t.op \in Scopes
  <1>. DEFINE t == Last(stack)
  <1>1. /\ t \in FrameType /\ t \in Elems(stack) /\ FrameIsExact(t) /\ attached
        /\ Base(Front(stack), used - Admitted(t), [c \in Cells |-> protect[c] - Adds(t, c)])
        /\ \A g \in Elems(Front(stack)) : Beneath(g, t)
        /\ Front(stack) = <<>> => t.op \in Scopes
    BY BaseWhole, BaseBelow
  <1>2. Unprotected(t.roots) = [c \in Cells |-> protect[c] - Adds(t, c)]
    BY DEF Unprotected, Adds
  <1>3. Elems(Front(stack)) \subseteq Elems(stack)
    BY <1>1 DEF Base
  <1>. HIDE DEF t
  <1>4. t.op \notin {"callback", "read"} => \A g \in Elems(Front(stack)) : g.op \in Scopes
    BY <1>1 DEF Beneath
  <1>. QED
    BY <1>1, <1>2, <1>3, <1>4 DEF t

LEMMA UnderFrame ==
  ASSUME HInv, stack # <<>>, Last(stack).op \notin Scopes
  PROVE  LET t == Last(stack)
         IN  /\ Under \in FrameType /\ Under \in Elems(stack) /\ FrameIsExact(Under) /\ Beneath(Under, t)
             /\ Base(Front(Front(stack)), used - Admitted(t) - Admitted(Under),
                     [c \in Cells |-> Unprotected(t.roots)[c] - Adds(Under, c)])
             /\ \A g \in Elems(Front(Front(stack))) : Beneath(g, Under)
             /\ Front(Front(stack)) = <<>> => Under.op \in Scopes
  <1>1. /\ Base(Front(stack), used - Admitted(Last(stack)), Unprotected(Last(stack).roots))
        /\ Front(stack) # <<>>
        /\ \A g \in Elems(Front(stack)) : g \in Elems(stack) /\ Beneath(g, Last(stack))
    BY TopFrame
  <1>. QED
    BY <1>1, BaseBelow DEF Under

LEMMA FrameOf ==
  ASSUME NEW op \in Ops
  PROVE  /\ Frame(op) \in FrameType /\ Frame(op).op = op /\ Frame(op).roots = <<>> /\ Frame(op).held = 0
         /\ Frame(op).id = 0 /\ Frame(op).todo = <<>>
  BY EmptySeq DEF Frame, FrameType

LEMMA NoRoots ==
  ASSUME NEW f, f.roots = <<>>
  PROVE  /\ \A c : Adds(f, c) = 0
         /\ Admitted(f) = IF f.op \in Scopes THEN 0 ELSE f.held
  <1>1. \A c : Where(f.roots, c) = {}
    BY DEF Where
  <1>2. Len(f.roots) = 0
    BY EmptySeq
  <1>. QED
    BY <1>1, <1>2, FS_EmptySet DEF Adds, Admitted

(* A frame in place of the running one. *)
LEMMA BecomeStep ==
  ASSUME HInv, stack # <<>>, UNCHANGED <<functionVars, kept>>, HeapStays, reachable' \subseteq Cells,
         NEW f \in FrameType, Becomes(f), f.op \in Scopes <=> Last(stack).op \in Scopes,
         \A g \in Elems(Front(stack)) : Beneath(g, f),
         used' = used - Admitted(Last(stack)) + Admitted(f), used' <= local_roots,
         protect' \in [Cells -> Int], \A c \in Cells : protect'[c] = protect[c] - Adds(Last(stack), c) + Adds(f, c),
         FrameIsExact(f)'
  PROVE  HInv'
  <1>1. /\ Base(Front(stack), used - Admitted(Last(stack)), Unprotected(Last(stack).roots)) /\ attached
        /\ \A c \in Cells : Unprotected(Last(stack).roots)[c] = protect[c] - Adds(Last(stack), c)
        /\ Front(stack) = <<>> => f.op \in Scopes
    BY TopFrame
  <1>2. stack' = Append(Front(stack), f)
    BY DEF Becomes
  <1>3. \A c \in Cells : protect'[c] = Unprotected(Last(stack).roots)[c] + Adds(f, c)
    BY <1>1
  <1>. QED
    BY <1>1, <1>2, <1>3, PushStep

(* A frame that holds nothing on top of the running one. *)
LEMMA BeginStep ==
  ASSUME HInv, attached, UNCHANGED <<functionVars, kept, protect, heap, reachable>>,
         NEW f \in FrameType, f.roots = <<>>, Push(f), f.op \in Scopes \/ stack # <<>>,
         \A g \in Elems(stack) : Beneath(g, f),
         used' = used + Admitted(f), used' <= local_roots,
         FrameIsExact(f)'
  PROVE  HInv'
  <1>1. Base(stack, used, protect)
    BY BaseWhole
  <1>2. stack' = Append(stack, f)
    BY DEF Push
  <1>3. /\ HeapStays /\ reachable' \subseteq Cells /\ protect' \in [Cells -> Int]
        /\ \A c \in Cells : protect'[c] = protect[c] + Adds(f, c)
    BY NoRoots DEF HInv, LocalTypes, HeapStays
  <1>. QED
    BY <1>1, <1>2, <1>3, PushStep

(* The end of a frame, with what it held. *)
LEMMA EndStep ==
  ASSUME HInv, stack # <<>>, UNCHANGED <<functionVars, kept, heap, reachable>>,
         stack' = Front(stack), used' = used - Admitted(Last(stack)), protect' = Unprotected(Last(stack).roots)
  PROVE  HInv'
  <1>1. HeapStays /\ reachable' \subseteq Cells
    BY DEF HInv, LocalTypes, HeapStays
  <1>. QED
    BY <1>1, TopFrame, PopStep
----------------------------------------------------------------------------
(* with_context, with_backend and open_scope *)
LEMMA EnterStep ==
  ASSUME HInv, NEW op \in Scopes, attached, Enter(op), UNCHANGED functionVars
  PROVE  HInv'
  <1>1. /\ stack = <<>> /\ Push(Frame(op)) /\ op \in Ops
        /\ UNCHANGED <<functionVars, kept, protect, heap, reachable>> /\ used' = used
    BY DEF Enter, engineVars, Ops
  <1>2. /\ Frame(op) \in FrameType /\ Frame(op).op = op /\ Frame(op).roots = <<>> /\ Admitted(Frame(op)) = 0
    BY <1>1, FrameOf, NoRoots
  <1>3. FrameIsExact(Frame(op))'
    BY <1>1, <1>2, FrameOf, EmptySeq DEF FrameIsExact, Calls, Scopes
  <1>4. (\A g \in Elems(stack) : Beneath(g, Frame(op))) /\ used' <= local_roots /\ used \in Nat
    BY <1>1, EmptySeq, ScopesAssumption DEF Elems, HInv, LocalTypes
  <1>. QED
    BY <1>1, <1>2, <1>3, <1>4, BeginStep

LEMMA WithScopeStep ==
  ASSUME HInv, WithScope, UNCHANGED functionVars
  PROVE  HInv'
  <1>1. /\ stack # <<>> /\ Last(stack).op = "context" /\ Push(Frame("context")) /\ "context" \in Ops
        /\ UNCHANGED <<functionVars, kept, protect, heap, reachable>> /\ used' = used
    BY DEF WithScope, On, engineVars, Ops, Scopes
  <1>2. /\ Frame("context") \in FrameType /\ Frame("context").op = "context"
        /\ Frame("context").roots = <<>> /\ Admitted(Frame("context")) = 0
    BY <1>1, FrameOf, NoRoots DEF Scopes
  <1>3. FrameIsExact(Frame("context"))'
    BY <1>1, <1>2, FrameOf, EmptySeq DEF FrameIsExact, Calls
  <1>4. attached /\ \A g \in Elems(stack) : Beneath(g, Frame("context"))
    BY <1>1, TopFrame, BaseBelow, PopFrame DEF Beneath, Scopes, HInv
  <1>5. used' <= local_roots /\ used \in Nat
    BY <1>1, ScopesAssumption DEF HInv, LocalTypes
  <1>. QED
    BY <1>1, <1>2, <1>3, <1>4, <1>5, BeginStep

(* Drop of a scope *)
LEMMA LeaveStep ==
  ASSUME HInv, Leave, UNCHANGED functionVars
  PROVE  HInv'
  <1>1. /\ stack # <<>> /\ Last(stack).op \in Scopes /\ stack' = Front(stack)
        /\ protect' = Unprotected(Last(stack).roots) /\ used' = used - Len(Last(stack).roots)
        /\ UNCHANGED <<functionVars, kept, heap, reachable>>
    BY DEF Leave, On
  <1>2. Admitted(Last(stack)) = Len(Last(stack).roots)
    BY <1>1 DEF Admitted
  <1>. QED
    BY <1>1, <1>2, EndStep

(* Context::eval, JscScope::evaluate and call: the result's reservation. *)
LEMMA RunStep ==
  ASSUME HInv, NEW op \in {"eval", "call"}, On(Scopes), Run(op), UNCHANGED functionVars
  PROVE  HInv'
  <1>. DEFINE f == [Frame(op) EXCEPT !.held = 1]
  <1>1. /\ stack # <<>> /\ Last(stack).op \in Scopes /\ Push(f) /\ op \in Ops
        /\ UNCHANGED <<functionVars, kept, protect, heap, reachable>> /\ used' = used + 1 /\ used + 1 <= local_roots
    BY DEF Run, On, Admits, engineVars, Ops, Engine
  <1>2. f \in FrameType /\ f.op = op /\ f.roots = <<>> /\ f.held = 1 /\ f.id = 0
    BY <1>1, EmptySeq DEF FrameType, Frame
  <1>. HIDE DEF f
  <1>3. Admitted(f) = 1
    BY <1>2, NoRoots DEF Scopes
  <1>4. FrameIsExact(f)'
    BY <1>1, <1>2, EmptySeq DEF FrameIsExact, Calls
  <1>5. attached /\ \A g \in Elems(stack) : Beneath(g, f)
    BY <1>1, TopFrame, PopFrame DEF Beneath, Scopes, HInv
  <1>. QED
    BY <1>1, <1>2, <1>3, <1>4, <1>5, BeginStep

(* Context::string and Call::string: the conversion begins. *)
LEMMA ReadBegins ==
  ASSUME HInv, On({"context", "callback"}), Push(Frame("read")),
         UNCHANGED <<functionVars, engineVars, kept, used>>
  PROVE  HInv'
  <1>1. /\ stack # <<>> /\ Last(stack).op \in {"context", "callback"} /\ "read" \in Ops
        /\ UNCHANGED <<functionVars, kept, protect, heap, reachable>> /\ used' = used
    BY DEF On, engineVars, Ops, Engine
  <1>2. /\ Frame("read") \in FrameType /\ Frame("read").op = "read" /\ Frame("read").roots = <<>>
        /\ Frame("read").held = 0 /\ Admitted(Frame("read")) = 0
    BY <1>1, FrameOf, NoRoots DEF Scopes
  <1>3. FrameIsExact(Frame("read"))'
    BY <1>1, <1>2, EmptySeq DEF FrameIsExact, Calls
  <1>4. attached /\ \A g \in Elems(stack) : Beneath(g, Frame("read"))
    BY <1>1, <1>2, TopFrame, PopFrame DEF Beneath, Scopes, HInv
  <1>5. used' <= local_roots /\ used \in Nat
    BY <1>1, ScopesAssumption DEF HInv, LocalTypes
  <1>. QED
    BY <1>1, <1>2, <1>3, <1>4, <1>5, BeginStep

(* The end of a conversion or of a callback, which hold nothing. *)
LEMMA ReadStops ==
  ASSUME HInv, On({"read", "callback"}), stack' = Front(stack),
         UNCHANGED <<functionVars, engineVars, kept, used>>
  PROVE  HInv'
  <1>1. /\ stack # <<>> /\ Last(stack).op \in {"read", "callback"}
        /\ UNCHANGED <<functionVars, kept, protect, heap, reachable>> /\ used' = used
    BY DEF On, engineVars
  <1>2. /\ Last(stack).held = 0 /\ Last(stack).roots = <<>>
    BY <1>1, TopFrame DEF FrameIsExact
  <1>3. Admitted(Last(stack)) = 0 /\ \A c \in Cells : Unprotected(Last(stack).roots)[c] = protect[c]
    BY <1>1, <1>2, TopFrame, NoRoots DEF Scopes, HInv, LocalTypes
  <1>4. used \in Nat /\ protect \in [Cells -> Nat]
    BY ScopesAssumption DEF HInv, LocalTypes
  <1>5. protect = Unprotected(Last(stack).roots)
    BY <1>3, <1>4 DEF Unprotected
  <1>. QED
    BY <1>1, <1>3, <1>4, <1>5, EndStep

(* A frame that holds one value more. *)
LEMMA HoldsMore ==
  ASSUME NEW f \in FrameType, NEW v \in Values, NEW g \in FrameType, g.roots = Append(f.roots, v),
         g.op = f.op, g.held = f.held, g.cell = f.cell, g.id = f.id, f.op \notin {"callback", "install", "read"}
  PROVE  /\ Admitted(g) = Admitted(f) + IF f.op \in Scopes THEN 1 ELSE 0
         /\ \A c : Adds(g, c) = Adds(f, c) + IF c = v THEN 1 ELSE 0
         /\ FrameIsExact(f)' /\ (v = Scalar \/ heap'[v] # Free) => FrameIsExact(g)'
  <1>1. /\ f.roots \in Seq(Values) /\ Len(f.roots) \in Nat /\ Len(g.roots) = Len(f.roots) + 1
        /\ g.roots[Len(f.roots) + 1] = v /\ \A k \in 1 .. Len(f.roots) : g.roots[k] = f.roots[k]
        /\ \A c : Adds(g, c) = Adds(f, c) + IF c = v THEN 1 ELSE 0
    BY CountsGrow, FrameCounts, LenProperties DEF Adds
  <1>2. Admitted(g) = Admitted(f) + IF f.op \in Scopes THEN 1 ELSE 0
    BY <1>1, FrameCounts DEF Admitted
  <1>3. ASSUME FrameIsExact(f)', v = Scalar \/ heap'[v] # Free
        PROVE  FrameIsExact(g)'
    <2>1. ASSUME NEW k \in 1 .. Len(g.roots) PROVE g.roots[k] = Scalar \/ heap'[g.roots[k]] # Free
      <3>1. k \in 1 .. Len(f.roots) \/ k = Len(f.roots) + 1
        BY <1>1
      <3>. QED
        BY <1>1, <1>3, <3>1 DEF FrameIsExact
    <2>2. Calls(g) <=> Calls(f)
      BY DEF Calls
    <2>. QED
      BY <1>3, <2>1, <2>2 DEF FrameIsExact
  <1>. QED
    BY <1>1, <1>2, <1>3
----------------------------------------------------------------------------
(* Context::call: all reservations are made before the first argument. *)
LEMMA CallStep ==
  ASSUME HInv, NEW c \in Registered, NEW arguments \in Arguments, Call(c, host_functions[c], arguments),
         UNCHANGED functionVars
  PROVE  HInv'
  <1>. DEFINE held == 1 + Cardinality(StringArguments(arguments))
              frame == [Frame("prepare") EXCEPT !.held = held, !.todo = arguments,
                                                !.count = Len(arguments), !.cell = c, !.id = host_functions[c]]
  <1>1. /\ stack # <<>> /\ Last(stack).op = "context" /\ Push(frame) /\ Admits(held)
        /\ UNCHANGED <<functionVars, kept, protect, heap, reachable>> /\ used' = used + held
    BY DEF Call, On, engineVars
  <1>2. arguments \in Seq({Scalar} \cup Nat) /\ Len(arguments) \in Nat
    BY ScopesAssumption, LenProperties
  <1>3. held \in Nat /\ held >= 1
    <2>1. StringArguments(arguments) \subseteq 1 .. Len(arguments)
      BY <1>2, LenProperties DEF StringArguments
    <2>2. Cardinality(StringArguments(arguments)) \in Nat
      BY <1>2, <2>1, NumbersTo, FS_Subset, FS_CardinalityType
    <2>. QED
      BY <2>2
  <1>. HIDE DEF held
  <1>4. c \in Cells /\ host_functions[c] \in Nat
    BY DEF HInv, FunctionTypes, RegistryIsExact
  <1>5. /\ frame \in FrameType /\ frame.op = "prepare" /\ frame.roots = <<>> /\ frame.held = held
        /\ frame.cell = c /\ frame.id = host_functions[c]
    BY <1>2, <1>3, <1>4, EmptySeq DEF FrameType, Frame, Ops, Engine
  <1>. HIDE DEF frame
  <1>6. PICK f \in FrameType : f = frame
    BY <1>5
  <1>7. Admitted(f) = held
    BY <1>5, <1>6, NoRoots DEF Scopes
  <1>8. used' <= local_roots
    BY <1>1, <1>3 DEF Admits
  <1>9. FrameIsExact(f)'
    <2>1. f.cell \in Registered' /\ host_functions'[f.cell] = f.id
      BY <1>5, <1>6 DEF functionVars, Registered
    <2>2. f.op = "prepare" /\ f.roots = <<>> /\ f.held >= 1 /\ Len(f.roots) = 0
      BY <1>3, <1>5, <1>6, EmptySeq
    <2>. QED
      BY <2>1, <2>2 DEF FrameIsExact
  <1>10. attached /\ \A g \in Elems(stack) : Beneath(g, f)
    BY <1>1, TopFrame, PopFrame DEF Beneath, Scopes, HInv
  <1>. QED
    BY <1>1, <1>5, <1>6, <1>7, <1>8, <1>9, <1>10, BeginStep

(* The running frame stays exact under a step of its own operation. *)
LEMMA TopStays ==
  ASSUME HInv, stack # <<>>, HeapStays, UNCHANGED functionVars
  PROVE  \A f \in Elems(stack) : FrameIsExact(f)'
  <1>1. Registered' = Registered /\ UNCHANGED <<host_functions, handles, epoch>>
    BY DEF functionVars, Registered
  <1>2. \A f \in Elems(stack) : Calls(f) => f.cell \in Registered
    BY DEF HInv, FrameIsExact
  <1>. QED
    BY <1>1, <1>2, FrameStays

(* prepare_argument: the value that was made is protected at once. *)
LEMMA PrepareStep ==
  ASSUME HInv, NEW c \in Cells, Prepare(c), UNCHANGED functionVars
  PROVE  HInv'
  <1>1. /\ stack # <<>> /\ Last(stack).op = "prepare" /\ Last(stack).todo # <<>> /\ heap[c] = Free
        /\ heap' = [heap EXCEPT ![c] = Plain] /\ protect' = [protect EXCEPT ![c] = @ + 1]
        /\ Becomes([Last(stack) EXCEPT !.todo = Tail(@), !.roots = Append(@, c)])
        /\ UNCHANGED <<functionVars, reachable, kept, used>>
    BY DEF Prepare, On, ArgumentRoot
  <1>2. PICK t \in FrameType : t = Last(stack) /\ t \in Elems(stack)
    BY <1>1, TopFrame
  <1>3. PICK f \in FrameType : /\ f = [t EXCEPT !.todo = Tail(@), !.roots = Append(@, c)]
                               /\ f.op = "prepare" /\ f.roots = Append(t.roots, c)
                               /\ f.held = t.held /\ f.cell = t.cell /\ f.id = t.id
    <2>. DEFINE f == [t EXCEPT !.todo = Tail(@), !.roots = Append(@, c)]
    <2>1. Tail(t.todo) \in Seq({Scalar} \cup Nat) /\ Append(t.roots, c) \in Seq(Values)
      BY <1>1, <1>2, HeadTailProperties, AppendProperties DEF FrameType, Values
    <2>2. f \in FrameType /\ f.op = "prepare" /\ f.roots = Append(t.roots, c) /\ f.held = t.held /\ f.cell = t.cell /\ f.id = t.id
      BY <1>1, <1>2, <2>1 DEF FrameType
    <2>. QED
      BY <2>2
  <1>4. HeapStays /\ heap'[c] # Free
    BY <1>1, ScopesAssumption DEF HeapStays, HInv, LocalTypes
  <1>5. /\ Admitted(f) = Admitted(t) /\ Admitted(t) \in Nat
        /\ FrameIsExact(f)' /\ \A d : Adds(f, d) = Adds(t, d) + IF d = c THEN 1 ELSE 0
    <2>1. FrameIsExact(t)'
      BY <1>1, <1>2, <1>4, TopStays
    <2>2. t.op = "prepare" /\ c \in Values
      BY <1>1, <1>2 DEF Values
    <2>3. Admitted(t) \in Nat
      BY FrameCounts
    <2>4. f.roots = Append(t.roots, c) /\ f.op = t.op /\ f.held = t.held /\ f.cell = t.cell /\ f.id = t.id
      BY <1>3, <2>2
    <2>5. /\ Admitted(f) = Admitted(t) + IF t.op \in Scopes THEN 1 ELSE 0
          /\ \A d : Adds(f, d) = Adds(t, d) + IF d = c THEN 1 ELSE 0
          /\ FrameIsExact(f)'
      BY <1>4, <2>1, <2>2, <2>4, HoldsMore
    <2>6. t.op \notin Scopes
      BY <2>2 DEF Scopes
    <2>. QED
      BY <2>3, <2>5, <2>6
  <1>6. /\ reachable' \subseteq Cells /\ protect' \in [Cells -> Int] /\ used \in Nat /\ used' <= local_roots
        /\ \A d \in Cells : protect[d] \in Nat /\ protect'[d] = protect[d] + IF d = c THEN 1 ELSE 0
    BY <1>1, ScopesAssumption DEF HInv, LocalTypes
  <1>7. ASSUME NEW d \in Cells PROVE protect'[d] = protect[d] - Adds(t, d) + Adds(f, d)
    <2>1. Adds(t, d) \in Nat /\ Adds(f, d) = Adds(t, d) + IF d = c THEN 1 ELSE 0
      BY <1>5, FrameCounts
    <2>. QED
      BY <1>6, <2>1
  <1>8. (f.op \in Scopes <=> t.op \in Scopes) /\ \A g \in Elems(Front(stack)) : Beneath(g, f)
    BY <1>1, <1>2, <1>3, TopFrame DEF Beneath
  <1>9. used' = used - Admitted(t) + Admitted(f)
    BY <1>1, <1>5, <1>6
  <1>10. Becomes(f)
    BY <1>1, <1>2, <1>3
  <1>. QED
    BY <1>1, <1>2, <1>3, <1>4, <1>5, <1>6, <1>7, <1>8, <1>9, <1>10, BecomeStep

(* The running frame goes on, and holds what it held. *)
LEMMA AlterStep ==
  ASSUME HInv, stack # <<>>, UNCHANGED <<functionVars, engineVars, kept, used>>,
         NEW f \in FrameType, Becomes(f),
         f.roots = Last(stack).roots, f.held = Last(stack).held, f.cell = Last(stack).cell,
         f.id = Last(stack).id, f.left = Last(stack).left, f.copied = Last(stack).copied,
         f.op = Last(stack).op \/ (Last(stack).op = "prepare" /\ f.op = "call")
  PROVE  HInv'
  <1>1. PICK t \in FrameType : t = Last(stack) /\ t \in Elems(stack)
    BY TopFrame
  <1>2. HeapStays /\ heap' = heap /\ protect' = protect /\ reachable' = reachable /\ used' = used
    BY DEF engineVars, HInv, LocalTypes, HeapStays
  <1>3. FrameIsExact(t)'
    BY <1>1, <1>2, TopStays
  <1>4. FrameIsExact(f)'
    <2>1. CASE f.op = t.op
      <3>1. Calls(f) <=> Calls(t)
        BY <1>1, <2>1 DEF Calls
      <3>. QED
        BY <1>1, <1>3, <2>1, <3>1 DEF FrameIsExact
    <2>2. CASE t.op = "prepare" /\ f.op = "call"
      <3>1. Calls(t)
        BY <2>2 DEF Calls
      <3>. QED
        BY <1>1, <1>3, <2>2, <3>1 DEF FrameIsExact
    <2>. QED
      BY <1>1, <2>1, <2>2
  <1>5. f.op \in Scopes <=> t.op \in Scopes
    BY <1>1 DEF Scopes
  <1>6. Admitted(f) = Admitted(t) /\ Admitted(t) \in Nat /\ \A c : Adds(f, c) = Adds(t, c) /\ Adds(t, c) \in Nat
    BY <1>1, <1>5, FrameCounts DEF Admitted, Adds
  <1>7. /\ used \in Nat /\ used <= local_roots /\ protect \in [Cells -> Nat] /\ reachable \subseteq Cells
    BY ScopesAssumption DEF HInv, LocalTypes
  <1>8. used' = used - Admitted(t) + Admitted(f) /\ used' <= local_roots
    BY <1>2, <1>6, <1>7
  <1>9. \A c \in Cells : protect'[c] = protect[c] - Adds(t, c) + Adds(f, c)
    BY <1>2, <1>6, <1>7
  <1>10. \A g \in Elems(Front(stack)) : Beneath(g, f)
    BY <1>1, TopFrame DEF Beneath
  <1>11. protect' \in [Cells -> Int] /\ reachable' \subseteq Cells /\ UNCHANGED <<functionVars, kept>>
    BY <1>2, <1>7
  <1>. QED
    BY <1>1, <1>2, <1>4, <1>5, <1>8, <1>9, <1>10, <1>11, BecomeStep

LEMMA PrepareScalarStep ==
  ASSUME HInv, PrepareScalar, UNCHANGED functionVars
  PROVE  HInv'
  <1>1. /\ stack # <<>> /\ Last(stack).op = "prepare" /\ Last(stack).todo # <<>>
        /\ Becomes([Last(stack) EXCEPT !.todo = Tail(@)]) /\ UNCHANGED <<functionVars, engineVars, kept, used>>
    BY DEF PrepareScalar, On
  <1>2. PICK t \in FrameType : t = Last(stack)
    BY <1>1, TopFrame
  <1>3. Tail(t.todo) \in Seq({Scalar} \cup Nat)
    BY <1>1, <1>2, HeadTailProperties DEF FrameType
  <1>. DEFINE f == [t EXCEPT !.todo = Tail(@)]
  <1>4. /\ f \in FrameType /\ f.op = t.op /\ f.roots = t.roots /\ f.held = t.held /\ f.cell = t.cell
        /\ f.id = t.id /\ f.left = t.left /\ f.copied = t.copied
    BY <1>3 DEF FrameType
  <1>5. Becomes(f)
    BY <1>1, <1>2
  <1>. HIDE DEF f
  <1>. QED
    BY <1>1, <1>2, <1>4, <1>5, AlterStep

(* exception_to_owned *)
LEMMA ThrowStep ==
  ASSUME HInv, Throw, UNCHANGED functionVars
  PROVE  HInv'
  <1>1. /\ stack # <<>> /\ Becomes([Last(stack) EXCEPT !.threw = TRUE])
        /\ UNCHANGED <<functionVars, engineVars, kept, used>>
    BY DEF Throw, On
  <1>2. PICK t \in FrameType : t = Last(stack)
    BY <1>1, TopFrame
  <1>. DEFINE f == [t EXCEPT !.threw = TRUE]
  <1>3. /\ f \in FrameType /\ f.op = t.op /\ f.roots = t.roots /\ f.held = t.held /\ f.cell = t.cell
        /\ f.id = t.id /\ f.left = t.left /\ f.copied = t.copied
    BY DEF FrameType
  <1>4. Becomes(f)
    BY <1>1, <1>2
  <1>. HIDE DEF f
  <1>. QED
    BY <1>1, <1>2, <1>3, <1>4, AlterStep

(* The operation ends without a value for the scope: an argument or the     *)
(* operation failed, or the result is a scalar.                             *)
LEMMA FinishStep ==
  ASSUME HInv, stack # <<>>, Last(stack).op \notin Scopes,
         protect' = Unprotected(Last(stack).roots), Finished(Front(stack)),
         UNCHANGED <<functionVars, heap, reachable, kept>>
  PROVE  HInv'
  <1>1. used' = used - Admitted(Last(stack)) /\ stack' = Front(stack)
    BY DEF Finished, Admitted
  <1>. QED
    BY <1>1, EndStep

(* A scope with one value more. *)
LEMMA RootedFrame ==
  ASSUME NEW w \in FrameType, NEW v \in Values
  PROVE  /\ Rooted(w, v) \in FrameType /\ Rooted(w, v).roots = Append(w.roots, v) /\ Rooted(w, v).op = w.op
         /\ Rooted(w, v).held = w.held /\ Rooted(w, v).cell = w.cell /\ Rooted(w, v).id = w.id
  <1>1. Append(w.roots, v) \in Seq(Values)
    BY AppendProperties DEF FrameType
  <1>. QED
    BY <1>1 DEF FrameType, Rooted

(* root_local and root_nonnull: the scope takes the value over, if it has   *)
(* to be protected.                                                        *)
LEMMA CommitStep ==
  ASSUME HInv, stack # <<>>, Last(stack).op \in {"eval", "call"}, UNCHANGED <<functionVars, reachable, kept>>,
         NEW v \in Values, Commit(v), HeapStays, v = Scalar \/ heap'[v] # Free,
         protect' \in [Cells -> Int],
         \A c \in Cells : protect'[c] = Unprotected(Last(stack).roots)[c] + IF c = v THEN 1 ELSE 0
  PROVE  HInv'
  <1>1. PICK t \in FrameType : t = Last(stack) /\ FrameIsExact(t)
    BY TopFrame
  <1>2. t.op \in {"eval", "call"} /\ t.op \notin Scopes /\ t.op \notin {"callback", "read"} /\ t.held \in Nat /\ t.held >= 1
    BY <1>1, FrameCounts DEF FrameIsExact, Scopes
  <1>3. PICK w \in FrameType : w = Under /\ w \in Elems(stack)
    BY <1>1, <1>2, UnderFrame
  <1>4. w.op \in Scopes
    BY <1>1, <1>2, <1>3, UnderFrame DEF Beneath
  <1>. DEFINE b == Unprotected(t.roots)
              r == [c \in Cells |-> b[c] - Adds(w, c)]
  <1>5. /\ Base(Front(Front(stack)), used - Admitted(t) - Admitted(w), r)
        /\ \A g \in Elems(Front(Front(stack))) : Beneath(g, w)
        /\ attached /\ Base(Front(stack), used - Admitted(t), b)
    BY <1>1, <1>2, <1>3, TopFrame, UnderFrame
  <1>6. PICK f \in FrameType : f = Rooted(w, v) /\ f.roots = Append(w.roots, v) /\ f.op = w.op /\ f.held = w.held /\ f.cell = w.cell /\ f.id = w.id
    BY RootedFrame
  <1>7. /\ Admitted(f) = Admitted(w) + 1 /\ \A c : Adds(f, c) = Adds(w, c) + IF c = v THEN 1 ELSE 0
        /\ FrameIsExact(f)'
    <2>1. w.op \notin {"callback", "install", "read"}
      BY <1>4 DEF Scopes
    <2>2. FrameIsExact(w)'
      BY <1>3, TopStays
    <2>. QED
      BY <1>4, <1>6, <2>1, <2>2, HoldsMore
  <1>8. Admitted(t) = t.held /\ Admitted(w) \in Nat /\ \A c : Adds(w, c) \in Nat
    BY <1>2, FrameCounts DEF Admitted
  <1>9. stack' = Append(Front(Front(stack)), f) /\ used' = used - t.held + 1
    BY <1>1, <1>3, <1>6 DEF Commit, Resumes
  <1>10. /\ used \in Nat /\ used <= local_roots /\ local_roots \in Nat /\ b \in [Cells -> Nat] /\ reachable' \subseteq Cells
    BY <1>5, ScopesAssumption DEF HInv, LocalTypes, Base
  <1>. HIDE DEF b
  <1>11. used' = (used - Admitted(t) - Admitted(w)) + Admitted(f) /\ used' <= local_roots
    BY <1>2, <1>7, <1>8, <1>9, <1>10
  <1>12. ASSUME NEW c \in Cells PROVE protect'[c] = r[c] + Adds(f, c)
    <2>1. r[c] = b[c] - Adds(w, c) /\ protect'[c] = b[c] + IF c = v THEN 1 ELSE 0
      BY <1>1 DEF b
    <2>. QED
      BY <1>7, <1>8, <1>10, <2>1
  <1>13. (\A g \in Elems(Front(Front(stack))) : Beneath(g, f)) /\ f.op \in Scopes
    BY <1>4, <1>5, <1>6 DEF Beneath
  <1>. HIDE DEF r
  <1>. QED
    BY <1>5, <1>7, <1>9, <1>10, <1>11, <1>12, <1>13, PushStep

(* local_or_exception *)
LEMMA ReturnStep ==
  ASSUME HInv, NEW c \in Cells, Return(c), UNCHANGED functionVars
  PROVE  HInv'
  <1>. DEFINE p == Unprotected(Last(stack).roots)
  <1>1. /\ stack # <<>> /\ Last(stack).op \in {"eval", "call"} /\ Commit(c)
        /\ heap' = [heap EXCEPT ![c] = IF @ = Free THEN Plain ELSE @]
        /\ protect' = [p EXCEPT ![c] = @ + 1]
        /\ UNCHANGED <<functionVars, reachable, kept>>
    BY DEF Return, On
  <1>2. HeapStays /\ heap'[c] # Free /\ c \in Values
    BY <1>1, ScopesAssumption DEF HeapStays, HInv, LocalTypes, Values
  <1>3. p \in [Cells -> Nat]
    BY <1>1, TopFrame DEF Base
  <1>. HIDE DEF p
  <1>4. protect' \in [Cells -> Int] /\ \A d \in Cells : protect'[d] = p[d] + IF d = c THEN 1 ELSE 0
    BY <1>1, <1>3
  <1>. QED
    BY <1>1, <1>2, <1>4, CommitStep DEF p

LEMMA ReturnScalarStep ==
  ASSUME HInv, ReturnScalar, UNCHANGED functionVars
  PROVE  HInv'
  <1>. DEFINE p == Unprotected(Last(stack).roots)
  <1>1. /\ stack # <<>> /\ Last(stack).op \in {"eval", "call"} /\ protect' = p
        /\ Commit(Scalar) \/ Finished(Front(stack))
        /\ UNCHANGED <<functionVars, heap, reachable, kept>>
    BY DEF ReturnScalar, On
  <1>2. p \in [Cells -> Nat]
    BY <1>1, TopFrame DEF Base
  <1>3. Last(stack).op \notin Scopes
    BY <1>1 DEF Scopes
  <1>4. CASE Commit(Scalar)
    <2>1. HeapStays /\ Scalar \in Values /\ protect' \in [Cells -> Int]
      BY <1>1, <1>2 DEF HeapStays, HInv, LocalTypes, Values
    <2>2. ASSUME NEW c \in Cells PROVE protect'[c] = p[c] + IF c = Scalar THEN 1 ELSE 0
      <3>1. p[c] \in Nat /\ c # Scalar
        BY <1>2, ScopesAssumption
      <3>. QED
        BY <1>1, <3>1
    <2>. HIDE DEF p
    <2>. QED
      BY <1>1, <1>4, <2>1, <2>2, CommitStep DEF p
  <1>5. CASE Finished(Front(stack))
    BY <1>1, <1>3, <1>5, FinishStep
  <1>. QED
    BY <1>1, <1>4, <1>5

(* root_local and root_nonnull outside an operation. *)
LEMMA RootStep ==
  ASSUME HInv, On(Scopes), NEW c \in Cells, Root(c), HeapStays, heap'[c] # Free, UNCHANGED functionVars
  PROVE  HInv'
  <1>1. /\ stack # <<>> /\ Last(stack).op \in Scopes /\ used' = used + 1 /\ used + 1 <= local_roots
        /\ protect' = [protect EXCEPT ![c] = @ + 1] /\ Becomes(Rooted(Last(stack), c))
        /\ UNCHANGED <<functionVars, reachable, kept>>
    BY DEF Root, On, Admits
  <1>2. PICK t \in FrameType : t = Last(stack) /\ t \in Elems(stack)
    BY <1>1, TopFrame
  <1>3. c \in Values
    BY DEF Values
  <1>4. PICK f \in FrameType : f = Rooted(t, c) /\ f.roots = Append(t.roots, c) /\ f.op = t.op /\ f.held = t.held /\ f.cell = t.cell /\ f.id = t.id
    BY <1>3, RootedFrame
  <1>5. /\ Admitted(f) = Admitted(t) + 1 /\ \A d : Adds(f, d) = Adds(t, d) + IF d = c THEN 1 ELSE 0
        /\ FrameIsExact(f)'
    <2>1. t.op \notin {"callback", "install", "read"}
      BY <1>1, <1>2 DEF Scopes
    <2>2. FrameIsExact(t)'
      BY <1>1, <1>2, TopStays
    <2>. QED
      BY <1>1, <1>2, <1>3, <1>4, <2>1, <2>2, HoldsMore
  <1>6. /\ reachable' \subseteq Cells /\ protect' \in [Cells -> Int] /\ used \in Nat /\ used' <= local_roots
        /\ \A d \in Cells : protect[d] \in Nat /\ protect'[d] = protect[d] + IF d = c THEN 1 ELSE 0
    BY <1>1, ScopesAssumption DEF HInv, LocalTypes
  <1>7. ASSUME NEW d \in Cells PROVE protect'[d] = protect[d] - Adds(t, d) + Adds(f, d)
    <2>1. Adds(t, d) \in Nat /\ Adds(f, d) = Adds(t, d) + IF d = c THEN 1 ELSE 0
      BY <1>5, FrameCounts
    <2>. QED
      BY <1>6, <2>1
  <1>8. (f.op \in Scopes <=> t.op \in Scopes) /\ \A g \in Elems(Front(stack)) : Beneath(g, f)
    BY <1>1, <1>2, <1>4, TopFrame DEF Beneath
  <1>9. used' = used - Admitted(t) + Admitted(f)
    <2>1. Admitted(t) \in Nat
      BY FrameCounts
    <2>. QED
      BY <1>1, <1>5, <1>6, <2>1
  <1>10. Becomes(f)
    BY <1>1, <1>2, <1>4
  <1>. QED
    BY <1>1, <1>2, <1>5, <1>6, <1>7, <1>8, <1>9, <1>10, BecomeStep

LEMMA MakeStep ==
  ASSUME HInv, NEW c \in Cells, MakeString(c) \/ Externalize(c) \/ Resolve(c) \/ ResolveRoot(c),
         UNCHANGED functionVars
  PROVE  HInv'
  <1>1. On(Scopes) /\ Root(c)
    BY DEF MakeString, Externalize, Resolve, ResolveRoot, On, Scopes
  <1>2. CASE heap[c] = Free /\ heap' = [heap EXCEPT ![c] = Plain]
    <2>1. HeapStays /\ heap'[c] # Free
      BY <1>2, ScopesAssumption DEF HeapStays, HInv, LocalTypes
    <2>. QED
      BY <1>1, <2>1, RootStep
  <1>3. CASE c \in kept /\ UNCHANGED heap
    <2>1. HeapStays /\ heap'[c] # Free
      BY <1>3 DEF HeapStays, HInv, LocalTypes
    <2>. QED
      BY <1>1, <2>1, RootStep
  <1>. QED
    BY <1>2, <1>3 DEF MakeString, Externalize, Resolve, ResolveRoot

(* persist and release: a persistent root has a protection of its own. *)
LEMMA KeepStep ==
  ASSUME HInv, NEW c \in Cells, UNCHANGED <<functionVars, heap, reachable, stack, used>>,
         \/ c \notin kept /\ heap[c] # Free /\ kept' = kept \cup {c} /\ protect' = [protect EXCEPT ![c] = @ + 1]
         \/ c \in kept /\ kept' = kept \ {c} /\ protect' = [protect EXCEPT ![c] = @ - 1]
  PROVE  HInv'
  <1>1. /\ UNCHANGED <<host_functions, leaked, attached>> /\ Registered' = Registered
        /\ protect \in [Cells -> Nat] /\ kept \subseteq Cells /\ leaked \in [Cells -> Nat]
    BY DEF functionVars, Registered, HInv, LocalTypes, FunctionTypes
  <1>2. c \in kept => protect[c] > 0
    BY OwnedAreProtected
  <1>3. ASSUME NEW d \in Cells
        PROVE  protect'[d] \in Nat /\ protect'[d] - (Owned(d)' + leaked'[d]) = protect[d] - (Owned(d) + leaked[d])
    <2>1. Owned(d)' = (IF d \in Registered THEN 1 ELSE 0) + (IF d \in kept' THEN 1 ELSE 0)
      BY <1>1, OwnedWillCount
    <2>2. Owned(d) = (IF d \in Registered THEN 1 ELSE 0) + (IF d \in kept THEN 1 ELSE 0)
      BY OwnedCounts
    <2>3. protect[d] \in Nat /\ leaked[d] \in Nat
      BY <1>1
    <2>4. CASE d # c
      <3>1. protect'[d] = protect[d] /\ (d \in kept' <=> d \in kept)
        BY <1>1, <2>4
      <3>. QED
        BY <1>1, <2>1, <2>2, <2>3, <3>1
    <2>5. CASE d = c /\ c \in kept
      <3>1. protect'[d] = protect[d] - 1 /\ d \notin kept'
        BY <1>1, <2>5
      <3>. QED
        BY <1>1, <1>2, <2>1, <2>2, <2>3, <2>5, <3>1
    <2>6. CASE d = c /\ c \notin kept
      <3>1. protect'[d] = protect[d] + 1 /\ d \in kept'
        BY <1>1, <2>6
      <3>. QED
        BY <1>1, <2>1, <2>2, <2>3, <2>6, <3>1
    <2>. QED
      BY <2>4, <2>5, <2>6
  <1>4. protect' \in [Cells -> Nat]
    <2>1. protect' \in [Cells -> Int]
      BY <1>1
    <2>. QED
      BY <1>3, <2>1
  <1>5. OnStack' = OnStack
    BY <1>3 DEF OnStack
  <1>6. /\ HeapStays /\ reachable' \subseteq Cells /\ kept' \subseteq Cells /\ used' \in 0 .. local_roots
        /\ Stacked(stack') /\ (stack' # <<>> => attached) /\ \A f \in Elems(stack') : f \in Elems(stack)
        /\ \A d \in kept' : heap'[d] # Free
    BY <1>1 DEF HeapStays, HInv, LocalTypes
  <1>7. Sums(stack', used', OnStack')
    BY <1>5 DEF HInv
  <1>. QED
    BY <1>4, <1>6, <1>7, LocalStep

LEMMA PersistStep ==
  ASSUME HInv, NEW c \in Cells, Persist(c), UNCHANGED functionVars
  PROVE  HInv'
  <1>1. PICK i \in DOMAIN stack : c \in ToSet(stack[i].roots)
    BY DEF Persist, InScope
  <1>2. stack[i] \in FrameType /\ stack[i] \in Elems(stack)
    BY <1>1, LenProperties DEF HInv, Stacked, Elems
  <1>3. PICK k \in 1 .. Len(stack[i].roots) : stack[i].roots[k] = c
    BY <1>1, <1>2, FrameCounts, LenProperties DEF ToSet
  <1>4. heap[c] # Free
    BY <1>2, <1>3, RootsAreProtected, ScopesAssumption
  <1>. QED
    BY <1>4, KeepStep DEF Persist

LEMMA ReleaseStep ==
  ASSUME HInv, NEW c \in Cells, Release(c), UNCHANGED functionVars
  PROVE  HInv'
  BY KeepStep DEF Release

(* What the engine does by itself reaches nothing that is protected. *)
LEMMA EngineStep ==
  ASSUME HInv, NEW c \in Cells, JsKeep(c) \/ JsForget(c) \/ Collect(c), UNCHANGED functionVars
  PROVE  HInv'
  <1>1. protect' = protect /\ stack' = stack /\ used' = used /\ UNCHANGED <<functionVars, kept>>
    BY DEF JsKeep, JsForget, Collect, scopeVars
  <1>2. HeapStays /\ reachable' \subseteq Cells
    BY DEF JsKeep, JsForget, Collect, HeapStays, HInv, LocalTypes
  <1>3. Base(stack, used, protect)
    BY BaseWhole
  <1>. QED
    BY <1>1, <1>2, <1>3, PopStep

(* Every step of the scopes, of their operations and of the engine. *)
LEMMA LocalNextStep ==
  ASSUME HInv, LocalNext, UNCHANGED functionVars
  PROVE  HInv'
  <1>1. CASE WithScope
    BY <1>1, WithScopeStep
  <1>2. CASE Leave
    BY <1>2, LeaveStep
  <1>3. CASE Eval \/ Evaluate \/ CallValue
    <2>1. On(Scopes) /\ (Run("eval") \/ Run("call"))
      BY <1>3 DEF Eval, Evaluate, CallValue, On, Scopes
    <2>. QED
      BY <2>1, RunStep
  <1>4. CASE ReadString
    <2>1. On({"context", "callback"})
      BY <1>4 DEF ReadString, On
    <2>. QED
      BY <1>4, <2>1, ReadBegins DEF ReadString
  <1>5. CASE ReadEnds
    <2>1. On({"read", "callback"})
      BY <1>5 DEF ReadEnds, On
    <2>. QED
      BY <1>5, <2>1, ReadStops DEF ReadEnds
  <1>6. CASE PrepareScalar
    BY <1>6, PrepareScalarStep
  <1>7. CASE PrepareFails \/ Thrown
    <2>1. stack # <<>> /\ Last(stack).op \notin Scopes
      BY <1>7 DEF PrepareFails, Thrown, On, Scopes
    <2>. QED
      BY <1>7, <2>1, FinishStep DEF PrepareFails, Thrown
  <1>8. CASE ReturnScalar
    BY <1>8, ReturnScalarStep
  <1>9. CASE Throw
    BY <1>9, ThrowStep
  <1>10. ASSUME NEW c \in Cells,
                \/ Prepare(c) \/ Return(c) \/ MakeString(c) \/ Externalize(c)
                \/ Persist(c) \/ Resolve(c) \/ ResolveRoot(c) \/ Release(c)
                \/ JsKeep(c) \/ JsForget(c) \/ Collect(c)
         PROVE  HInv'
    BY <1>10, PrepareStep, ReturnStep, MakeStep, PersistStep, ReleaseStep, EngineStep
  <1>. QED
    BY <1>1, <1>2, <1>3, <1>4, <1>5, <1>6, <1>7, <1>8, <1>9, <1>10 DEF LocalNext
----------------------------------------------------------------------------
(* A frame of a callback for a registered function. *)
LEMMA CallbackFrame ==
  ASSUME HInv, NEW c \in Registered
  PROVE  /\ Callback(c) \in FrameType /\ Callback(c).op = "callback" /\ Callback(c).roots = <<>>
         /\ Callback(c).held = 0 /\ Callback(c).cell = c /\ Callback(c).id = host_functions[c]
         /\ Callback(c).left = inbound_bytes /\ Callback(c).copied = 0
  <1>1. c \in Cells /\ host_functions[c] \in Nat /\ inbound_bytes \in Nat
    BY FunctionsAssumption DEF HInv, FunctionTypes, RegistryIsExact
  <1>. QED
    BY <1>1, EmptySeq DEF Callback, FrameType, Frame, Ops

(* Such a frame is exact while the registry stays as it is. *)
LEMMA CallbackIsExact ==
  ASSUME NEW f, f.op = "callback", f.held = 0, f.roots = <<>>, f.left = inbound_bytes, f.copied = 0,
         f.cell \in Registered, host_functions[f.cell] = f.id, UNCHANGED functionVars
  PROVE  FrameIsExact(f)'
  <1>1. f.cell \in Registered' /\ host_functions'[f.cell] = f.id
    BY DEF functionVars, Registered
  <1>2. Len(f.roots) = 0 /\ f.left + f.copied = inbound_bytes
    BY EmptySeq, FunctionsAssumption
  <1>. QED
    BY <1>1, <1>2 DEF FrameIsExact

(* host_function_callback, for a call of JavaScript's. *)
LEMMA JsCallStep ==
  ASSUME HInv, NEW c \in Cells, NEW count, JsCall(c, count)
  PROVE  HInv'
  <1>1. /\ stack # <<>> /\ Last(stack).op \in Engine \ {"prepare"} /\ c \in Registered /\ Push(Callback(c))
        /\ UNCHANGED <<functionVars, kept, protect, heap, reachable>> /\ used' = used
    BY DEF JsCall, JavaScript, On, engineVars
  <1>2. PICK f \in FrameType : f = Callback(c)
    BY <1>1, CallbackFrame
  <1>3. /\ f.op = "callback" /\ f.roots = <<>> /\ f.held = 0 /\ f.cell = c /\ f.id = host_functions[c]
        /\ f.left = inbound_bytes /\ f.copied = 0
    BY <1>1, <1>2, CallbackFrame
  <1>4. Admitted(f) = 0
    BY <1>3, NoRoots DEF Scopes
  <1>5. attached /\ \A g \in Elems(stack) : Beneath(g, f)
    BY <1>1, <1>3, TopFrame, PopFrame DEF Beneath, Scopes, HInv
  <1>6. FrameIsExact(f)'
    BY <1>1, <1>3, CallbackIsExact
  <1>7. used' = used + Admitted(f) /\ used' <= local_roots
    BY <1>1, <1>4, ScopesAssumption DEF HInv, LocalTypes
  <1>. QED
    BY <1>1, <1>2, <1>3, <1>5, <1>6, <1>7, BeginStep

(* Context::call of a handle *)
LEMMA CallHandleStep ==
  ASSUME HInv, NEW handle \in handles, NEW arguments \in Arguments, CallHandle(handle, arguments)
  PROVE  HInv'
  <1>1. handle.key \in Registered /\ host_functions[handle.key] = handle.id
    BY DEF CallHandle, HInv, HandlesAreExact
  <1>. QED
    BY <1>1, CallStep DEF CallHandle

(* The engine calls the function of a prepared call, or refuses it. *)
LEMMA InvokeStep ==
  ASSUME HInv, Invoke
  PROVE  HInv'
  <1>1. /\ stack # <<>> /\ Last(stack).op = "prepare" /\ UNCHANGED <<functionVars, engineVars, kept, used>>
        /\ \/ Becomes([CallPrepared EXCEPT !.threw = TRUE])
           \/ stack' = Append(Append(Front(stack), CallPrepared), Callback(Last(stack).cell))
    BY DEF Invoke, On
  <1>2. PICK t \in FrameType : t = Last(stack) /\ t \in Elems(stack) /\ FrameIsExact(t)
    BY <1>1, TopFrame
  <1>3. t.op = "prepare" /\ t.cell \in Registered /\ host_functions[t.cell] = t.id
    BY <1>1, <1>2 DEF FrameIsExact, Calls
  <1>4. PICK g \in FrameType :
          /\ g = CallPrepared /\ g.op = "call" /\ g.roots = t.roots /\ g.held = t.held /\ g.cell = t.cell
          /\ g.id = t.id /\ g.left = t.left /\ g.copied = t.copied
    <2>. DEFINE g == [t EXCEPT !.op = "call"]
    <2>1. /\ g \in FrameType /\ g.op = "call" /\ g.roots = t.roots /\ g.held = t.held /\ g.cell = t.cell
          /\ g.id = t.id /\ g.left = t.left /\ g.copied = t.copied
      BY DEF FrameType, Ops, Engine
    <2>2. g = CallPrepared
      BY <1>2 DEF CallPrepared
    <2>. QED
      BY <2>1, <2>2
  <1>5. CASE Becomes([CallPrepared EXCEPT !.threw = TRUE])
    <2>. DEFINE f == [g EXCEPT !.threw = TRUE]
    <2>1. /\ f \in FrameType /\ f.op = "call" /\ f.roots = t.roots /\ f.held = t.held /\ f.cell = t.cell
          /\ f.id = t.id /\ f.left = t.left /\ f.copied = t.copied
      BY <1>4 DEF FrameType
    <2>2. Becomes(f)
      BY <1>4, <1>5
    <2>. HIDE DEF f
    <2>. QED
      BY <1>1, <1>2, <1>3, <2>1, <2>2, AlterStep
  <1>6. CASE stack' = Append(Append(Front(stack), CallPrepared), Callback(Last(stack).cell))
    <2>1. PICK f \in FrameType : f = Callback(t.cell)
      BY <1>3, CallbackFrame
    <2>2. /\ f.op = "callback" /\ f.roots = <<>> /\ f.held = 0 /\ f.cell = t.cell /\ f.id = host_functions[t.cell]
          /\ f.left = inbound_bytes /\ f.copied = 0
      BY <1>3, <2>1, CallbackFrame
    <2>. DEFINE q == Front(stack)
                p == Append(q, g)
                b == [c \in Cells |-> Unprotected(t.roots)[c] - (Owned(c) + leaked[c])]
    <2>3. /\ Base(q, used - Admitted(t), Unprotected(t.roots)) /\ attached
          /\ \A c \in Cells : Unprotected(t.roots)[c] = protect[c] - Adds(t, c)
          /\ \A e \in Elems(q) : e \in Elems(stack) /\ e.op \in Scopes
          /\ q # <<>>
      BY <1>1, <1>2, TopFrame DEF Scopes
    <2>4. /\ \A e \in Elems(q) : Beneath(e, g) /\ Beneath(e, f)
          /\ Beneath(g, f)
      BY <1>4, <2>2, <2>3 DEF Beneath
    <2>5. Stacked(q) /\ q \in Seq(FrameType) /\ Sums(q, used - Admitted(t), b)
      BY <2>3 DEF Base, Stacked
    <2>. HIDE DEF q
    <2>6. Stacked(p) /\ Elems(p) = Elems(q) \cup {g} /\ p # <<>> /\ p \in Seq(FrameType)
      BY <2>3, <2>4, <2>5, PushFrame DEF Stacked
    <2>. HIDE DEF p
    <2>7. stack' = Append(p, f)
      BY <1>2, <1>4, <1>6, <2>1 DEF p, q
    <2>8. Stacked(stack') /\ Elems(stack') = Elems(q) \cup {g} \cup {f}
      BY <2>4, <2>6, <2>7, PushFrame
    <2>9. Admitted(g) = Admitted(t) /\ Admitted(t) \in Nat /\ Admitted(f) = 0
          /\ \A c : Adds(g, c) = Adds(t, c) /\ Adds(t, c) \in Nat /\ Adds(f, c) = 0
      <3>1. Admitted(f) = 0 /\ \A c : Adds(f, c) = 0
        BY <2>2, NoRoots DEF Scopes
      <3>2. Admitted(g) = Admitted(t) /\ \A c : Adds(g, c) = Adds(t, c)
        BY <1>3, <1>4 DEF Admitted, Adds, Scopes
      <3>. QED
        BY <3>1, <3>2, FrameCounts
    <2>10. /\ used \in Nat /\ used' = used /\ protect' = protect /\ heap' = heap /\ reachable' = reachable
           /\ protect \in [Cells -> Nat]
      BY <1>1, ScopesAssumption DEF engineVars, HInv, LocalTypes
    <2>11. OnStack' = OnStack
      BY <1>1, <2>10 DEF OnStack, functionVars, Owned, Registered
    <2>12. ASSUME NEW c \in Cells PROVE OnStack[c] = b[c] + Adds(g, c)
      <3>1. Owned(c) \in Nat /\ leaked[c] \in Nat /\ protect[c] \in Nat
        BY ProtectionIsSum
      <3>. QED
        BY <2>3, <2>9, <3>1 DEF OnStack
    <2>. HIDE DEF b
    <2>13. Sums(p, used - Admitted(t) + Admitted(g), OnStack)
      BY <2>5, <2>12, SumsPush DEF p
    <2>14. Sums(p, used, OnStack)
      <3>1. used - Admitted(t) + Admitted(g) = used
        BY <2>9, <2>10
      <3>. QED
        BY <2>13, <3>1
    <2>15. Sums(stack', used + Admitted(f), OnStack)
      <3>1. \A c \in Cells : OnStack[c] = OnStack[c] + Adds(f, c)
        <4>1. \A c \in Cells : OnStack[c] \in Int
          BY ProtectionIsSum DEF OnStack
        <4>. QED
          BY <2>9, <4>1
      <3>. QED
        BY <2>6, <2>7, <2>14, <3>1, SumsPush
    <2>16. Sums(stack', used', OnStack')
      BY <2>9, <2>10, <2>11, <2>15
    <2>17. HeapStays
      BY <2>10 DEF HeapStays, HInv, LocalTypes
    <2>18. FrameIsExact(g)'
      <3>1. FrameIsExact(t)'
        BY <1>1, <1>2, <2>17, TopStays
      <3>2. Calls(t)
        BY <1>3 DEF Calls
      <3>. QED
        BY <1>3, <1>4, <3>1, <3>2 DEF FrameIsExact
    <2>19. FrameIsExact(f)'
      BY <1>1, <1>3, <2>2, CallbackIsExact
    <2>20. \A e \in Elems(stack') : e \in Elems(stack) \/ FrameIsExact(e)'
      BY <2>3, <2>8, <2>18, <2>19
    <2>21. /\ reachable' \subseteq Cells /\ protect' \in [Cells -> Nat] /\ kept' \subseteq Cells
           /\ used' \in 0 .. local_roots /\ \A c \in kept' : heap'[c] # Free
      BY <1>1, <2>10 DEF HInv, LocalTypes
    <2>. QED
      BY <1>1, <2>3, <2>8, <2>16, <2>17, <2>20, <2>21, LocalStep
  <1>. QED
    BY <1>1, <1>5, <1>6

(* Call::string: what was copied comes off what may be copied. *)
LEMMA ReadStep ==
  ASSUME HInv, NEW s \in Strings, Read(s)
  PROVE  HInv'
  <1>. DEFINE value == copy_js_string_with_limit(s, Under.left)
  <1>1. /\ stack # <<>> /\ Last(stack).op = "read" /\ Under.op = "callback" /\ value # NoString
        /\ Resumes([Under EXCEPT !.left = @ - Bytes(value), !.copied = @ + Bytes(value)])
        /\ UNCHANGED <<functionVars, engineVars, kept, used>>
    BY DEF Read, On
  <1>2. PICK t \in FrameType : t = Last(stack) /\ t.held = 0 /\ t.roots = <<>> /\ t.op = "read"
    BY <1>1, TopFrame DEF FrameIsExact
  <1>3. t.op \notin Scopes
    BY <1>2 DEF Scopes
  <1>4. PICK w \in FrameType : w = Under /\ w \in Elems(stack) /\ FrameIsExact(w)
    BY <1>1, <1>2, <1>3, UnderFrame
  <1>5. /\ w.op = "callback" /\ w.held = 0 /\ w.roots = <<>> /\ w.left + w.copied = inbound_bytes
        /\ w.left \in Nat /\ w.copied \in Nat
    BY <1>1, <1>4 DEF FrameIsExact, FrameType
  <1>6. Bytes(value) \in Nat /\ Bytes(value) <= w.left
    <2>1. w.left \in 0 .. inbound_bytes
      BY <1>5, FunctionsAssumption
    <2>2. Bytes(value) \in Nat
      BY <1>1, <1>4, <2>1, FunctionsAssumption
    <2>3. ~ (Bytes(value) > w.left)
      BY <1>1, <1>4 DEF copy_js_string_with_limit
    <2>. QED
      BY <1>5, <2>2, <2>3
  <1>. HIDE DEF value
  <1>7. PICK n \in Nat : n = Bytes(value) /\ n <= w.left
    BY <1>6
  <1>. DEFINE f == [w EXCEPT !.left = @ - n, !.copied = @ + n]
  <1>8. /\ f \in FrameType /\ f.op = "callback" /\ f.held = 0 /\ f.roots = <<>> /\ f.cell = w.cell /\ f.id = w.id
        /\ f.left + f.copied = inbound_bytes
    <2>1. w.left - n \in Nat /\ w.copied + n \in Nat /\ (w.left - n) + (w.copied + n) = inbound_bytes
      BY <1>5, <1>7
    <2>2. f \in FrameType /\ f.op = w.op /\ f.held = w.held /\ f.roots = w.roots /\ f.cell = w.cell /\ f.id = w.id
          /\ f.left = w.left - n /\ f.copied = w.copied + n
      BY <2>1 DEF FrameType
    <2>. QED
      BY <1>5, <2>1, <2>2
  <1>9. stack' = Append(Front(Front(stack)), f)
    BY <1>1, <1>4, <1>7 DEF Resumes, value
  <1>. HIDE DEF f
  <1>10. Admitted(t) = 0 /\ Admitted(w) = 0 /\ Admitted(f) = 0
         /\ \A c : Adds(t, c) = 0 /\ Adds(w, c) = 0 /\ Adds(f, c) = 0
    <2>1. w.op \notin Scopes /\ f.op \notin Scopes
      BY <1>5, <1>8 DEF Scopes
    <2>. QED
      BY <1>2, <1>3, <1>5, <1>8, <2>1, NoRoots
  <1>. DEFINE b == [c \in Cells |-> Unprotected(t.roots)[c] - Adds(w, c)]
  <1>11. /\ Base(Front(Front(stack)), used - Admitted(t) - Admitted(w), b)
         /\ \A g \in Elems(Front(Front(stack))) : Beneath(g, w)
         /\ (Front(Front(stack)) = <<>> => w.op \in Scopes) /\ attached
         /\ \A c \in Cells : Unprotected(t.roots)[c] = protect[c] - Adds(t, c)
    BY <1>1, <1>2, <1>3, <1>4, TopFrame, UnderFrame
  <1>12. /\ used' = used /\ protect' = protect /\ heap' = heap /\ reachable' = reachable
         /\ used \in Nat /\ used <= local_roots /\ protect \in [Cells -> Nat] /\ reachable \subseteq Cells
    BY <1>1, ScopesAssumption DEF engineVars, HInv, LocalTypes
  <1>13. HeapStays
    BY <1>12 DEF HeapStays, HInv, LocalTypes
  <1>14. ASSUME NEW c \in Cells PROVE protect'[c] = b[c] + Adds(f, c)
    BY <1>10, <1>11, <1>12
  <1>15. used' = (used - Admitted(t) - Admitted(w)) + Admitted(f) /\ used' <= local_roots
    BY <1>10, <1>12
  <1>16. FrameIsExact(f)'
    <2>1. FrameIsExact(w)'
      BY <1>1, <1>4, <1>13, TopStays
    <2>2. Len(f.roots) = 0 /\ Calls(w)
      BY <1>5, <1>8, EmptySeq DEF Calls
    <2>. QED
      BY <1>5, <1>8, <2>1, <2>2 DEF FrameIsExact
  <1>17. (\A g \in Elems(Front(Front(stack))) : Beneath(g, f)) /\ (Front(Front(stack)) = <<>> => f.op \in Scopes)
    BY <1>5, <1>8, <1>11 DEF Beneath, Scopes
  <1>18. protect' \in [Cells -> Int] /\ reachable' \subseteq Cells /\ UNCHANGED <<functionVars, kept>>
    BY <1>1, <1>12
  <1>. HIDE DEF b
  <1>. QED
    BY <1>8, <1>9, <1>11, <1>13, <1>14, <1>15, <1>16, <1>17, <1>18, PushStep
----------------------------------------------------------------------------
(* One registration more. *)
LEMMA RegisterOne ==
  ASSUME HInv, NEW c \in Cells, heap[c] = Free, Cardinality(Registered) < registrations, installs < MaxInstalls,
         installs' = installs + 1, heap' = [heap EXCEPT ![c] = installs + 1],
         host_functions' = [d \in Registered \cup {c} |-> IF d = c THEN installs' ELSE host_functions[d]], dropped' = dropped
  PROVE  /\ c \notin Registered /\ Registered' = Registered \cup {c} /\ host_functions'[c] = installs'
         /\ \A d \in Registered : host_functions'[d] = host_functions[d]
         /\ RegistryIsExact' /\ HeapStays
         /\ installs' \in Callbacks
  <1>1. /\ installs \in Nat /\ MaxInstalls \in Nat /\ installs + 1 \in 1 .. MaxInstalls
    BY FunctionsAssumption DEF HInv, FunctionTypes
  <1>2. c \notin Registered
    BY OwnedAreProtected
  <1>3. /\ Registered' = Registered \cup {c} /\ host_functions'[c] = installs + 1
        /\ \A d \in Registered : host_functions'[d] = host_functions[d]
    BY <1>2 DEF Registered
  <1>4. /\ IsFiniteSet(Registered) /\ Cardinality(Registered) \in Nat /\ registrations \in Nat
    BY FS_CardinalityType, FunctionsAssumption DEF HInv, RegistryIsExact
  <1>5. IsFiniteSet(Registered') /\ Cardinality(Registered') <= registrations
    <2>1. IsFiniteSet(Registered') /\ Cardinality(Registered') = Cardinality(Registered) + 1
      BY <1>2, <1>3, <1>4, FS_AddElement
    <2>. QED
      BY <1>4, <2>1
  <1>6. HeapStays
    BY <1>1 DEF HeapStays, HInv, LocalTypes, Callbacks
  <1>7. ASSUME NEW d \in Registered PROVE heap'[d] = host_functions[d] /\ host_functions[d] \in 1 .. installs
    <2>1. d \in Cells /\ d # c /\ heap[d] = host_functions[d] /\ host_functions[d] \in 1 .. installs
      BY <1>2 DEF HInv, RegistryIsExact, FunctionTypes
    <2>2. heap'[d] = heap[d]
      BY <2>1 DEF HInv, LocalTypes
    <2>. QED
      BY <2>1, <2>2
  <1>8. \A d \in Registered' : heap'[d] = host_functions'[d] /\ host_functions'[d] \in 1 .. installs'
    <2>1. heap'[c] = installs + 1
      BY DEF HInv, LocalTypes
    <2>. QED
      BY <1>1, <1>3, <1>7, <2>1
  <1>9. \A d, e \in Registered' : host_functions'[d] = host_functions'[e] => d = e
    <2>1. \A d \in Registered : host_functions'[d] # installs + 1
      BY <1>1, <1>3, <1>7
    <2>2. \A d, e \in Registered : host_functions[d] = host_functions[e] => d = e
      BY DEF HInv, RegistryIsExact
    <2>. QED
      BY <1>3, <2>1, <2>2
  <1>10. ASSUME NEW i \in Callbacks
         PROVE  dropped'[i] = IF i <= installs' /\ ~\E d \in Registered' : host_functions'[d] = i THEN 1 ELSE 0
    <2>1. dropped[i] = IF i <= installs /\ ~\E d \in Registered : host_functions[d] = i THEN 1 ELSE 0
      BY DEF HInv, RegistryIsExact
    <2>2. CASE i = installs + 1
      <3>1. ~(i <= installs) /\ \E d \in Registered' : host_functions'[d] = i
        BY <1>1, <1>3, <2>2
      <3>. QED
        BY <2>1, <3>1
    <2>3. CASE i # installs + 1
      <3>1. i <= installs' <=> i <= installs
        BY <1>1, <2>3 DEF Callbacks
      <3>2. (\E d \in Registered' : host_functions'[d] = i) <=> (\E d \in Registered : host_functions[d] = i)
        BY <1>3, <2>3
      <3>. QED
        BY <2>1, <3>1, <3>2
    <2>. QED
      BY <2>2, <2>3
  <1>11. RegistryIsExact'
    BY <1>5, <1>8, <1>9, <1>10 DEF RegistryIsExact, Callbacks
  <1>. QED
    BY <1>1, <1>2, <1>3, <1>6, <1>11 DEF Callbacks

(* One registration less. *)
LEMMA UnregisterOne ==
  ASSUME HInv, NEW c \in Registered, Unregistered(c), heap' = heap, installs' = installs
  PROVE  /\ Registered' = Registered \ {c} /\ \A d \in Registered' : host_functions'[d] = host_functions[d]
         /\ RegistryIsExact' /\ dropped' \in [Callbacks -> Nat]
  <1>1. Registered' = Registered \ {c} /\ \A d \in Registered' : host_functions'[d] = host_functions[d]
    BY DEF Unregistered, Registered
  <1>2. /\ IsFiniteSet(Registered) /\ Cardinality(Registered) \in Nat /\ Cardinality(Registered) <= registrations
    BY FS_CardinalityType DEF HInv, RegistryIsExact
  <1>3. IsFiniteSet(Registered') /\ Cardinality(Registered') <= registrations
    <2>1. IsFiniteSet(Registered') /\ Cardinality(Registered') = Cardinality(Registered) - 1
      BY <1>1, <1>2, FS_RemoveElement
    <2>. QED
      BY <1>2, <2>1, FunctionsAssumption
  <1>4. /\ \A d \in Registered' : heap'[d] = host_functions'[d] /\ host_functions'[d] \in 1 .. installs'
        /\ \A d, e \in Registered' : host_functions'[d] = host_functions'[e] => d = e
    BY <1>1 DEF HInv, RegistryIsExact
  <1>5. ASSUME NEW i \in Callbacks
        PROVE  /\ dropped'[i] \in Nat
               /\ dropped'[i] = IF i <= installs' /\ ~\E d \in Registered' : host_functions'[d] = i THEN 1 ELSE 0
    <2>1. dropped[i] = IF i <= installs /\ ~\E d \in Registered : host_functions[d] = i THEN 1 ELSE 0
      BY DEF HInv, RegistryIsExact
    <2>2. dropped'[i] = dropped[i] + IF i = host_functions[c] THEN 1 ELSE 0
      BY DEF Unregistered
    <2>3. CASE i = host_functions[c]
      <3>1. i <= installs /\ i \in Nat
        BY <2>3 DEF HInv, RegistryIsExact, FunctionTypes
      <3>2. ~\E d \in Registered' : host_functions'[d] = i
        BY <1>1, <2>3 DEF HInv, RegistryIsExact
      <3>. QED
        BY <2>1, <2>2, <2>3, <3>1, <3>2
    <2>4. CASE i # host_functions[c]
      <3>1. (\E d \in Registered' : host_functions'[d] = i) <=> (\E d \in Registered : host_functions[d] = i)
        BY <1>1, <2>4
      <3>. QED
        BY <2>1, <2>2, <2>4, <3>1
    <2>. QED
      BY <2>3, <2>4
  <1>6. dropped' \in [Callbacks -> Nat]
    BY <1>5 DEF Unregistered
  <1>. QED
    BY <1>1, <1>3, <1>4, <1>5, <1>6 DEF RegistryIsExact, Callbacks
----------------------------------------------------------------------------
(* What the stack accounts for does not change when a protection and what   *)
(* owns it come or go together.                                             *)
LEMMA OnStackStays ==
  ASSUME HInv, \A c \in Cells : protect'[c] - (Owned(c)' + leaked'[c]) = protect[c] - (Owned(c) + leaked[c])
  PROVE  OnStack' = OnStack
  BY DEF OnStack

(* Every frame under and including a scope is a scope, and so is every      *)
(* frame under a publication.                                               *)
LEMMA ScopesBelow ==
  ASSUME HInv, stack # <<>>
  PROVE  /\ Last(stack).op \in Scopes => \A g \in Elems(stack) : g.op \in Scopes
         /\ Last(stack).op = "install" => \A g \in Elems(Front(stack)) : g.op \in Scopes
  <1>1. /\ Last(stack).op \notin {"callback", "read"} => \A g \in Elems(Front(stack)) : g.op \in Scopes
        /\ Elems(stack) = Elems(Front(stack)) \cup {Last(stack)}
    BY TopFrame, PopFrame DEF HInv
  <1>. QED
    BY <1>1 DEF Scopes

(* install_host_function, up to the property that publishes the function. *)
LEMMA InstallStep ==
  ASSUME HInv, NEW c \in Cells, Install(c)
  PROVE  HInv'
  <1>1. /\ stack # <<>> /\ Last(stack).op = "context" /\ heap[c] = Free
        /\ Cardinality(Registered) < registrations /\ installs < MaxInstalls
        /\ installs' = installs + 1 /\ heap' = [heap EXCEPT ![c] = installs + 1]
        /\ host_functions' = [d \in Registered \cup {c} |-> IF d = c THEN installs' ELSE host_functions[d]]
        /\ Push([Frame("install") EXCEPT !.cell = c, !.id = installs + 1])
        /\ protect' = [protect EXCEPT ![c] = @ + 1]
        /\ UNCHANGED <<reachable, kept, used, dropped, handles, epoch, attached, leaked>>
    BY DEF Install, Make, On
  <1>2. /\ c \notin Registered /\ Registered' = Registered \cup {c} /\ host_functions'[c] = installs'
        /\ RegistryIsExact' /\ HeapStays /\ installs' \in Callbacks
    BY <1>1, RegisterOne
  <1>3. PICK f \in FrameType :
          /\ f.op = "install" /\ f.roots = <<>> /\ f.held = 0 /\ f.cell = c /\ f.id = installs'
          /\ stack' = Append(stack, f)
    <2>. DEFINE f == [Frame("install") EXCEPT !.cell = c, !.id = installs + 1]
    <2>1. Frame("install") \in FrameType /\ Frame("install").op = "install"
          /\ Frame("install").roots = <<>> /\ Frame("install").held = 0
      BY FrameOf DEF Ops, Engine
    <2>2. installs + 1 \in Nat
      BY <1>1, <1>2 DEF Callbacks
    <2>3. f \in FrameType /\ f.op = "install" /\ f.roots = <<>> /\ f.held = 0 /\ f.cell = c /\ f.id = installs + 1
      BY <2>1, <2>2 DEF FrameType
    <2>. QED
      BY <1>1, <2>3 DEF Push
  <1>4. \A g \in Elems(stack) : g.op \in Scopes
    BY <1>1, ScopesBelow DEF Scopes
  <1>5. Stacked(stack') /\ Elems(stack') = Elems(stack) \cup {f} /\ stack \in Seq(FrameType) /\ attached
    <2>1. \A g \in Elems(stack) : Beneath(g, f)
      BY <1>4 DEF Beneath
    <2>. QED
      BY <1>1, <1>3, <2>1, PushFrame DEF HInv, Stacked
  <1>6. protect \in [Cells -> Nat] /\ protect' \in [Cells -> Nat]
    BY <1>1 DEF HInv, LocalTypes
  <1>7. OnStack' = OnStack
    <2>1. ASSUME NEW d \in Cells
          PROVE  protect'[d] - (Owned(d)' + leaked'[d]) = protect[d] - (Owned(d) + leaked[d])
      <3>1. /\ protect[d] \in Nat /\ leaked[d] \in Nat /\ Owned(d) \in Nat /\ leaked' = leaked
            /\ protect'[d] = protect[d] + IF d = c THEN 1 ELSE 0
        BY <1>1, <1>6, ProtectionIsSum
      <3>2. Owned(d)' = Owned(d) + IF d = c THEN 1 ELSE 0
        BY <1>1, <1>2, OwnedCounts, OwnedWillCount
      <3>. QED
        BY <3>1, <3>2
    <2>. QED
      BY <2>1, OnStackStays
  <1>8. Sums(stack', used', OnStack')
    <2>1. Admitted(f) = 0 /\ \A d : Adds(f, d) = 0
      BY <1>3, NoRoots DEF Scopes
    <2>2. \A d \in Cells : OnStack[d] \in Int
      BY ProtectionIsSum DEF OnStack
    <2>3. Sums(stack, used, OnStack) /\ used \in Nat
      BY ScopesAssumption DEF HInv, LocalTypes
    <2>4. Sums(stack', used + Admitted(f), OnStack)
      <3>1. \A d \in Cells : OnStack[d] = OnStack[d] + Adds(f, d)
        BY <2>1, <2>2
      <3>. QED
        BY <1>3, <1>5, <2>3, <3>1, SumsPush
    <2>. QED
      BY <1>1, <1>7, <2>1, <2>3, <2>4
  <1>9. FrameIsExact(f)'
    <2>1. \A h \in handles : h.epoch = epoch => h.key # c
      BY <1>2, <1>5 DEF HInv, HandlesAreExact
    <2>2. \A k \in 1 .. Len(f.roots) : FALSE
      BY <1>3, EmptySeq
    <2>3. f.cell \in Registered' /\ host_functions'[f.cell] = f.id
      BY <1>2, <1>3
    <2>4. \A h \in handles' : h.epoch = epoch' => h.key # f.cell
      BY <1>1, <1>3, <2>1
    <2>. QED
      BY <1>3, <2>2, <2>3, <2>4 DEF FrameIsExact
  <1>10. ASSUME NEW g \in Elems(stack) PROVE FrameIsExact(g)'
    <2>1. ~Calls(g) /\ g.op # "install"
      BY <1>4 DEF Calls, Scopes
    <2>. QED
      BY <1>2, <2>1, FrameStays
  <1>11. LocalTypes'
    BY <1>1, <1>2, <1>6 DEF HInv, LocalTypes, HeapStays
  <1>12. FunctionTypes'
    BY <1>1, <1>2 DEF HInv, FunctionTypes, Callbacks
  <1>13. HandlesAreExact'
    BY <1>1, <1>2 DEF HInv, HandlesAreExact
  <1>14. \A d \in kept' : heap'[d] # Free
    BY <1>1, <1>2, OwnedAreProtected DEF HeapStays
  <1>. QED
    BY <1>1, <1>2, <1>5, <1>8, <1>9, <1>10, <1>11, <1>12, <1>13, <1>14 DEF HInv

(* A publication that ends leaves scopes only, and all that they hold. *)
LEMMA PublicationEnds ==
  ASSUME HInv, On({"install"})
  PROVE  LET t == Last(stack)
         IN  /\ Stacked(Front(stack)) /\ Sums(Front(stack), used, OnStack) /\ attached
             /\ \A g \in Elems(Front(stack)) : g \in Elems(stack) /\ g.op \in Scopes
             /\ t.cell \in Registered /\ host_functions[t.cell] = t.id
             /\ \A h \in handles : h.epoch = epoch => h.key # t.cell
  <1>1. stack # <<>> /\ Last(stack).op = "install"
    BY DEF On
  <1>2. PICK t \in FrameType : t = Last(stack) /\ FrameIsExact(t) /\ attached
    BY <1>1, TopFrame
  <1>3. t.op = "install" /\ t.held = 0 /\ t.roots = <<>>
    BY <1>1, <1>2 DEF FrameIsExact
  <1>4. Admitted(t) = 0 /\ \A c : Adds(t, c) = 0
    BY <1>3, NoRoots DEF Scopes
  <1>5. /\ Base(Front(stack), used - Admitted(t), Unprotected(t.roots))
        /\ \A c \in Cells : Unprotected(t.roots)[c] = protect[c] - Adds(t, c)
        /\ \A g \in Elems(Front(stack)) : g \in Elems(stack)
    BY <1>1, <1>2, TopFrame
  <1>6. used \in Nat /\ protect \in [Cells -> Nat]
    BY ScopesAssumption DEF HInv, LocalTypes
  <1>7. [c \in Cells |-> Unprotected(t.roots)[c] - (Owned(c) + leaked[c])] = OnStack
    <2>1. \A c \in Cells : Unprotected(t.roots)[c] = protect[c]
      BY <1>4, <1>5, <1>6
    <2>. QED
      BY <2>1 DEF OnStack
  <1>8. Stacked(Front(stack)) /\ Sums(Front(stack), used, OnStack)
    <2>1. used - Admitted(t) = used
      BY <1>4, <1>6
    <2>. QED
      BY <1>5, <1>7, <2>1 DEF Base
  <1>9. \A g \in Elems(Front(stack)) : g.op \in Scopes
    BY <1>1, ScopesBelow
  <1>. QED
    BY <1>2, <1>3, <1>5, <1>8, <1>9 DEF FrameIsExact, Calls

(* The function is published, and its handle given out. *)
LEMMA InstalledStep ==
  ASSUME HInv, Installed
  PROVE  HInv'
  <1>. DEFINE t == Last(stack)
  <1>1. /\ On({"install"}) /\ stack' = Front(stack)
        /\ handles' = handles \cup {[epoch |-> epoch, key |-> t.cell, id |-> t.id]}
        /\ UNCHANGED <<engineVars, kept, used, host_functions, installs, dropped, epoch, attached, leaked>>
    BY DEF Installed
  <1>2. /\ Stacked(Front(stack)) /\ Sums(Front(stack), used, OnStack) /\ attached
        /\ \A g \in Elems(Front(stack)) : g \in Elems(stack) /\ g.op \in Scopes
        /\ t.cell \in Registered /\ host_functions[t.cell] = t.id
    BY <1>1, PublicationEnds
  <1>. HIDE DEF t
  <1>3. heap' = heap /\ reachable' = reachable /\ protect' = protect /\ Registered' = Registered
    BY <1>1 DEF engineVars, Registered
  <1>4. LocalTypes' /\ (\A c \in kept' : heap'[c] # Free) /\ HeapStays
    BY <1>1, <1>3 DEF HInv, LocalTypes, HeapStays
  <1>5. t.cell \in Cells /\ t.id \in Callbacks /\ epoch \in Nat /\ epoch \in 1 .. MaxEpoch
    BY <1>2, FunctionsAssumption DEF HInv, FunctionTypes, RegistryIsExact, Callbacks
  <1>6. FunctionTypes'
    BY <1>1, <1>3, <1>5 DEF HInv, FunctionTypes
  <1>7. HandlesAreExact'
    <2>1. ASSUME NEW h \in handles'
          PROVE  h.epoch <= epoch /\ (h.epoch = epoch /\ attached => h.key \in Registered /\ host_functions[h.key] = h.id)
      <3>1. CASE h \in handles
        BY <3>1 DEF HInv, HandlesAreExact
      <3>2. CASE h = [epoch |-> epoch, key |-> t.cell, id |-> t.id]
        BY <1>2, <1>5, <3>2
      <3>. QED
        BY <1>1, <3>1, <3>2
    <2>. QED
      BY <1>1, <1>3, <2>1 DEF HandlesAreExact
  <1>8. RegistryIsExact'
    BY <1>1, <1>3 DEF HInv, RegistryIsExact
  <1>9. OnStack' = OnStack
    BY <1>1, <1>3, OwnedCounts, OwnedWillCount DEF OnStack
  <1>10. ASSUME NEW g \in Elems(stack') PROVE FrameIsExact(g)'
    <2>1. g \in Elems(stack) /\ ~Calls(g) /\ g.op # "install"
      BY <1>1, <1>2 DEF Calls, Scopes
    <2>. QED
      BY <1>4, <2>1, FrameStays
  <1>. QED
    BY <1>1, <1>2, <1>4, <1>6, <1>7, <1>8, <1>9, <1>10 DEF HInv

(* rollback_host_function, of a publication that failed. *)
LEMMA RolledBackStep ==
  ASSUME HInv, RolledBack
  PROVE  HInv'
  <1>1. PICK c : c = Last(stack).cell
    OBVIOUS
  <1>2. /\ On({"install"}) /\ stack' = Front(stack) /\ Unregistered(c)
        /\ protect' = [protect EXCEPT ![c] = @ - 1]
        /\ UNCHANGED <<heap, reachable, kept, used, installs, handles, epoch, attached, leaked>>
    BY <1>1 DEF RolledBack
  <1>3. /\ Stacked(Front(stack)) /\ Sums(Front(stack), used, OnStack) /\ attached
        /\ \A g \in Elems(Front(stack)) : g \in Elems(stack) /\ g.op \in Scopes
        /\ c \in Registered
        /\ \A h \in handles : h.epoch = epoch => h.key # c
    BY <1>1, <1>2, PublicationEnds
  <1>4. /\ Registered' = Registered \ {c} /\ \A d \in Registered' : host_functions'[d] = host_functions[d]
        /\ RegistryIsExact' /\ dropped' \in [Callbacks -> Nat]
    BY <1>2, <1>3, UnregisterOne
  <1>5. c \in Cells /\ protect \in [Cells -> Nat] /\ protect[c] > 0
    BY <1>3, OwnedAreProtected DEF HInv, LocalTypes
  <1>6. LocalTypes' /\ (\A d \in kept' : heap'[d] # Free) /\ HeapStays
    <2>1. protect' \in [Cells -> Nat]
      BY <1>2, <1>5
    <2>. QED
      BY <1>2, <2>1 DEF HInv, LocalTypes, HeapStays
  <1>7. FunctionTypes'
    BY <1>2, <1>4 DEF HInv, FunctionTypes
  <1>8. HandlesAreExact'
    <2>1. ASSUME NEW h \in handles, h.epoch = epoch
          PROVE  h.key \in Registered' /\ host_functions'[h.key] = h.id
      BY <1>3, <1>4, <2>1 DEF HInv, HandlesAreExact
    <2>. QED
      BY <1>2, <2>1 DEF HInv, HandlesAreExact
  <1>9. OnStack' = OnStack
    <2>1. ASSUME NEW d \in Cells
          PROVE  protect'[d] - (Owned(d)' + leaked'[d]) = protect[d] - (Owned(d) + leaked[d])
      <3>1. /\ protect[d] \in Nat /\ leaked[d] \in Nat /\ Owned(d) \in Nat /\ leaked' = leaked
            /\ protect'[d] = protect[d] - IF d = c THEN 1 ELSE 0
        BY <1>2, <1>5, ProtectionIsSum
      <3>2. Owned(d) = Owned(d)' + (IF d = c THEN 1 ELSE 0) /\ Owned(d)' \in Nat
        BY <1>2, <1>3, <1>4, OwnedCounts, OwnedWillCount
      <3>. QED
        BY <3>1, <3>2
    <2>. QED
      BY <2>1, OnStackStays
  <1>10. ASSUME NEW g \in Elems(stack') PROVE FrameIsExact(g)'
    <2>1. g \in Elems(stack) /\ ~Calls(g) /\ g.op # "install"
      BY <1>2, <1>3 DEF Calls, Scopes
    <2>. QED
      BY <1>6, <2>1, FrameStays
  <1>. QED
    BY <1>2, <1>3, <1>4, <1>6, <1>7, <1>8, <1>9, <1>10 DEF HInv
----------------------------------------------------------------------------
(* An empty stack has no frames. *)
LEMMA NoFrames ==
  ASSUME stack = <<>>
  PROVE  Elems(stack) = {} /\ Stacked(stack)
  BY EmptySeq DEF Elems, Stacked

(* The two teardowns of an attachment, between entries. *)
LEMMA DetachStep ==
  ASSUME HInv, DetachWith \/ DetachWithout
  PROVE  HInv'
  <1>1. /\ stack = <<>> /\ stack' = stack /\ attached' = FALSE /\ kept' = {} /\ host_functions' = <<>>
        /\ dropped' = [i \in Callbacks |-> dropped[i] + IF i \in Range(host_functions) THEN 1 ELSE 0]
        /\ UNCHANGED <<heap, reachable, used, installs, handles, epoch>>
    BY DEF DetachWith, DetachWithout, Retired
  <1>2. Registered' = {}
    BY <1>1 DEF Registered
  <1>3. ASSUME NEW c \in Cells
        PROVE  /\ protect'[c] - (Owned(c)' + leaked'[c]) = protect[c] - (Owned(c) + leaked[c])
               /\ protect'[c] \in Nat /\ leaked'[c] \in Nat
    <2>1. /\ Owned(c) \in Nat /\ leaked[c] \in Nat /\ protect[c] \in Nat /\ Cardinality(Holding(stack, c)) \in Nat
          /\ protect[c] = Owned(c) + leaked[c] + Cardinality(Holding(stack, c))
      BY ProtectionIsSum
    <2>2. Owned(c)' = 0
      BY <1>1, <1>2, OwnedWillCount
    <2>3. CASE DetachWith
      <3>1. protect'[c] = protect[c] - Owned(c) /\ leaked'[c] = leaked[c]
        BY <2>3 DEF DetachWith
      <3>. QED
        BY <2>1, <2>2, <3>1
    <2>4. CASE DetachWithout
      <3>1. protect'[c] = protect[c] /\ leaked'[c] = leaked[c] + Owned(c)
        BY <2>4 DEF DetachWithout
      <3>. QED
        BY <2>1, <2>2, <3>1
    <2>. QED
      BY <2>3, <2>4
  <1>4. protect' \in [Cells -> Nat] /\ leaked' \in [Cells -> Nat]
    <2>1. CASE DetachWith
      <3>1. protect' = [c \in Cells |-> protect[c] - Owned(c)] /\ leaked' = leaked
        BY <2>1 DEF DetachWith
      <3>. QED
        BY <1>3, <3>1 DEF HInv, FunctionTypes
    <2>2. CASE DetachWithout
      <3>1. protect' = protect /\ leaked' = [c \in Cells |-> leaked[c] + Owned(c)]
        BY <2>2 DEF DetachWithout
      <3>. QED
        BY <1>3, <3>1 DEF HInv, LocalTypes
    <2>. QED
      BY <2>1, <2>2
  <1>5. OnStack' = OnStack
    BY <1>3, OnStackStays
  <1>6. ASSUME NEW i \in Callbacks
        PROVE  dropped'[i] \in Nat /\ dropped'[i] = IF i <= installs THEN 1 ELSE 0
    <2>1. i \in Range(host_functions) <=> \E c \in Registered : host_functions[c] = i
      BY DEF Range, Registered
    <2>2. dropped[i] = IF i <= installs /\ ~\E c \in Registered : host_functions[c] = i THEN 1 ELSE 0
      BY DEF HInv, RegistryIsExact
    <2>3. (\E c \in Registered : host_functions[c] = i) => i <= installs
      BY DEF HInv, RegistryIsExact, FunctionTypes
    <2>4. dropped'[i] = dropped[i] + IF i \in Range(host_functions) THEN 1 ELSE 0
      BY <1>1
    <2>. QED
      BY <2>1, <2>2, <2>3, <2>4
  <1>7. RegistryIsExact'
    <2>1. IsFiniteSet({}) /\ Cardinality({}) = 0
      BY FS_EmptySet
    <2>. QED
      BY <1>1, <1>2, <1>6, <2>1, FunctionsAssumption DEF RegistryIsExact, Callbacks
  <1>8. FunctionTypes'
    <2>1. dropped' \in [Callbacks -> Nat]
      BY <1>1, <1>6
    <2>. QED
      BY <1>1, <1>2, <1>4, <2>1 DEF HInv, FunctionTypes, Callbacks
  <1>9. LocalTypes'
    BY <1>1, <1>4 DEF HInv, LocalTypes, Callbacks
  <1>10. HandlesAreExact'
    BY <1>1 DEF HInv, HandlesAreExact
  <1>11. Elems(stack') = {} /\ Stacked(stack') /\ Sums(stack', used', OnStack')
    BY <1>1, <1>5, NoFrames DEF HInv
  <1>. QED
    BY <1>1, <1>7, <1>8, <1>9, <1>10, <1>11 DEF HInv

(* Another attachment on the same context. *)
LEMMA AttachStep ==
  ASSUME HInv, Attach
  PROVE  HInv'
  <1>1. /\ ~attached /\ epoch < MaxEpoch /\ attached' = TRUE /\ epoch' = epoch + 1
        /\ UNCHANGED <<heap, reachable, protect, kept, stack, used>>
        /\ UNCHANGED <<host_functions, installs, dropped, handles, leaked>>
    BY DEF Attach, engineVars, scopeVars
  <1>2. stack = <<>>
    BY <1>1 DEF HInv
  <1>3. Registered' = Registered /\ epoch \in Nat /\ epoch + 1 \in 1 .. MaxEpoch
    BY <1>1, FunctionsAssumption DEF Registered, HInv, FunctionTypes
  <1>4. FunctionTypes' /\ LocalTypes'
    BY <1>1, <1>3 DEF HInv, FunctionTypes, LocalTypes, Callbacks
  <1>5. HandlesAreExact'
    <2>1. \A h \in handles : h.epoch \in Nat /\ h.epoch <= epoch
      BY DEF HInv, HandlesAreExact, FunctionTypes
    <2>2. \A h \in handles : h.epoch <= epoch + 1 /\ h.epoch # epoch + 1
      BY <1>3, <2>1
    <2>. QED
      BY <1>1, <2>2 DEF HandlesAreExact
  <1>6. RegistryIsExact'
    BY <1>1, <1>3 DEF HInv, RegistryIsExact, Callbacks
  <1>7. OnStack' = OnStack
    BY <1>1, <1>3, OwnedCounts, OwnedWillCount DEF OnStack
  <1>8. Elems(stack') = {} /\ Stacked(stack') /\ Sums(stack', used', OnStack')
    BY <1>1, <1>2, <1>7, NoFrames DEF HInv
  <1>. QED
    BY <1>1, <1>4, <1>5, <1>6, <1>8 DEF HInv

LEMMA InitHInv ==
  ASSUME HostInit
  PROVE  HInv
  <1>1. /\ heap = [c \in Cells |-> Free] /\ reachable = {} /\ protect = [c \in Cells |-> 0]
        /\ kept = {} /\ stack = <<>> /\ used = 0
        /\ host_functions = <<>> /\ installs = 0 /\ dropped = [i \in Callbacks |-> 0]
        /\ handles = {} /\ epoch = 1 /\ attached = TRUE /\ leaked = [c \in Cells |-> 0]
    BY DEF HostInit, Init
  <1>2. Registered = {}
    BY <1>1 DEF Registered
  <1>3. LocalTypes /\ FunctionTypes
    BY <1>1, <1>2, ScopesAssumption, FunctionsAssumption DEF LocalTypes, FunctionTypes
  <1>4. RegistryIsExact
    <2>1. IsFiniteSet({}) /\ Cardinality({}) = 0
      BY FS_EmptySet
    <2>2. \A i \in Callbacks : dropped[i] = 0 /\ ~(i <= installs)
      BY <1>1, FunctionsAssumption DEF Callbacks
    <2>. QED
      BY <1>2, <2>1, <2>2, FunctionsAssumption DEF RegistryIsExact
  <1>5. HandlesAreExact
    BY <1>1 DEF HandlesAreExact
  <1>6. Elems(stack) = {} /\ Stacked(stack)
    BY <1>1, NoFrames
  <1>7. Sums(stack, used, OnStack)
    <2>1. \A c \in Cells : OnStack[c] = 0
      BY <1>1, <1>2, OwnedCounts DEF OnStack
    <2>. QED
      BY <1>1, <2>1, SumsOfNone
  <1>. QED
    BY <1>1, <1>3, <1>4, <1>5, <1>6, <1>7 DEF HInv

LEMMA NextHInv ==
  ASSUME HInv, [Next]_vars
  PROVE  HInv'
  <1>1. CASE LocalNext /\ UNCHANGED functionVars
    BY <1>1, LocalNextStep
  <1>2. ASSUME NEW op \in Scopes, attached, Enter(op), UNCHANGED functionVars PROVE HInv'
    BY <1>2, EnterStep
  <1>3. ASSUME NEW c \in Cells, Install(c) PROVE HInv'
    BY <1>3, InstallStep
  <1>4. CASE Installed
    BY <1>4, InstalledStep
  <1>5. CASE RolledBack
    BY <1>5, RolledBackStep
  <1>6. ASSUME NEW c \in Cells, NEW count \in 0 .. inbound_arguments + 1, JsCall(c, count) PROVE HInv'
    BY <1>6, JsCallStep
  <1>7. ASSUME NEW handle \in handles, NEW arguments \in Arguments, CallHandle(handle, arguments) PROVE HInv'
    BY <1>7, CallHandleStep
  <1>8. CASE Invoke
    BY <1>8, InvokeStep
  <1>9. CASE StartRead
    <2>1. On({"context", "callback"})
      BY <1>9 DEF StartRead, On
    <2>. QED
      BY <1>9, <2>1, ReadBegins DEF StartRead
  <1>10. CASE CallbackReturns
    <2>1. On({"read", "callback"})
      BY <1>10 DEF CallbackReturns, On
    <2>. QED
      BY <1>10, <2>1, ReadStops DEF CallbackReturns
  <1>11. ASSUME NEW s \in Strings, Read(s) PROVE HInv'
    BY <1>11, ReadStep
  <1>12. CASE DetachWith \/ DetachWithout
    BY <1>12, DetachStep
  <1>13. CASE Attach
    BY <1>13, AttachStep
  <1>14. CASE UNCHANGED vars
    <2>1. /\ UNCHANGED <<functionVars, kept>> /\ heap' = heap /\ reachable' = reachable
          /\ protect' = protect /\ stack' = stack /\ used' = used
      BY <1>14 DEF vars, engineVars, scopeVars
    <2>2. HeapStays /\ reachable' \subseteq Cells
      BY <2>1 DEF HeapStays, HInv, LocalTypes
    <2>3. Base(stack, used, protect)
      BY BaseWhole
    <2>. QED
      BY <2>1, <2>2, <2>3, PopStep
  <1>. QED
    BY <1>1, <1>2, <1>3, <1>4, <1>5, <1>6, <1>7, <1>8, <1>9, <1>10, <1>11, <1>12, <1>13, <1>14 DEF Next

(* Scopes, operations inside the engine and callbacks stay on one stack as   *)
(* HInv says, and the registry, the handles and every sum with them          *)
(* (experimental.rs:1029-1106, 1586-1709, 2012-2018).                        *)
THEOREM HostFunctionsInvariant == Spec => []HInv
  <1>1. HostInit => HInv
    BY InitHInv
  <1>2. HInv /\ [Next]_vars => HInv'
    BY NextHInv
  <1>. QED
    BY <1>1, <1>2, PTL DEF Spec
----------------------------------------------------------------------------
LEMMA HInvLocals ==
  ASSUME HInv
  PROVE  LocalsAreExact
  <1>1. TypeOK
    BY DEF HInv, LocalTypes, FunctionTypes, TypeOK
  <1>2. BudgetIsExact
    BY ScopesAssumption DEF HInv, LocalTypes, Sums, BudgetIsExact
  <1>3. HeldValuesLive
    <2>1. \A c \in kept : heap[c] # Free
      BY DEF HInv
    <2>2. ASSUME NEW i \in DOMAIN stack, NEW c \in ToSet(stack[i].roots), c # Scalar
          PROVE  heap[c] # Free
      <3>1. stack[i] \in FrameType /\ stack[i] \in Elems(stack)
        BY LenProperties DEF HInv, Stacked, Elems
      <3>2. PICK k \in 1 .. Len(stack[i].roots) : stack[i].roots[k] = c
        BY <3>1, FrameCounts, LenProperties DEF ToSet
      <3>. QED
        BY <2>2, <3>1, <3>2, RootsAreProtected
    <2>. QED
      BY <2>1, <2>2 DEF HeldValuesLive
  <1>4. \A c \in Cells : protect[c] = Owned(c) + leaked[c] + Cardinality(Holding(stack, c))
    BY ProtectionIsSum
  <1>. QED
    BY <1>1, <1>2, <1>3, <1>4 DEF LocalsAreExact

LEMMA HInvCalls ==
  ASSUME HInv
  PROVE  CallsReachTheirCallback /\ CallbacksAreExact
  <1>1. ASSUME NEW i \in DOMAIN stack PROVE stack[i] \in FrameType /\ FrameIsExact(stack[i])
    BY LenProperties DEF HInv, Stacked, Elems
  <1>2. CallsReachTheirCallback
    <2>1. ASSUME NEW i \in DOMAIN stack, stack[i].op = "callback"
          PROVE  heap[stack[i].cell] = stack[i].id
      BY <1>1, <2>1 DEF FrameIsExact, Calls, HInv, RegistryIsExact
    <2>2. ASSUME NEW i \in DOMAIN stack, stack[i].op \in {"prepare", "call"}, stack[i].id # 0
          PROVE  stack[i].cell \in Registered /\ host_functions[stack[i].cell] = stack[i].id
      BY <1>1, <2>2 DEF FrameIsExact, Calls
    <2>. QED
      BY <2>1, <2>2 DEF CallsReachTheirCallback
  <1>3. ASSUME NEW i \in 1 .. installs
        PROVE  dropped[i] = IF i \in Range(host_functions) THEN 0 ELSE 1
    <2>1. i \in Callbacks /\ i <= installs
      BY FunctionsAssumption DEF HInv, FunctionTypes, Callbacks
    <2>2. i \in Range(host_functions) <=> \E c \in Registered : host_functions[c] = i
      BY DEF Range, Registered
    <2>. QED
      BY <2>1, <2>2 DEF HInv, RegistryIsExact
  <1>4. ASSUME NEW i \in DOMAIN stack, stack[i].op = "callback"
        PROVE  dropped[stack[i].id] = 0 /\ stack[i].copied <= inbound_bytes
    <2>1. /\ stack[i].left \in Nat /\ stack[i].copied \in Nat /\ stack[i].left + stack[i].copied = inbound_bytes
          /\ stack[i].cell \in Registered /\ host_functions[stack[i].cell] = stack[i].id
      BY <1>1, <1>4 DEF FrameIsExact, Calls, FrameType
    <2>2. stack[i].id \in 1 .. installs /\ stack[i].id \in Range(host_functions)
      BY <2>1 DEF HInv, RegistryIsExact, Range, Registered
    <2>. QED
      BY <1>3, <2>1, <2>2, FunctionsAssumption
  <1>5. Cardinality(Registered) <= registrations
    BY DEF HInv, RegistryIsExact
  <1>. QED
    BY <1>2, <1>3, <1>4, <1>5 DEF CallbacksAreExact

(* Whatever is returned, thrown, refused or unwound, in whatever nesting of  *)
(* calls and callbacks: the protections of a cell are exactly those of what *)
(* holds it, the budget counts exactly what is admitted, and no value that  *)
(* is held leaves its cell (local_budget.rs:22-57, scopes.rs:55-72,         *)
(* experimental.rs:1029-1046, 1676-1709).                                   *)
THEOREM LocalsStayExact == Spec => []LocalsAreExact
  BY HostFunctionsInvariant, HInvLocals, PTL

(* However often cells, keys and attachments are used again, a callback      *)
(* that runs is the one registered for the function that was called, and a  *)
(* handle reaches the callback it was given out for                         *)
(* (experimental.rs:1095-1106, 2012-2018).                                  *)
THEOREM CallsStayWithTheirCallback == Spec => []CallsReachTheirCallback
  BY HostFunctionsInvariant, HInvCalls, PTL

(* A callback is dropped once, when it is registered no more and while none  *)
(* of its calls runs; the registry keeps its limit, and so does what one    *)
(* call copies (experimental.rs:1065-1073, 1380-1394, 1586-1591).           *)
THEOREM CallbacksStayExact == Spec => []CallbacksAreExact
  BY HostFunctionsInvariant, HInvCalls, PTL
=============================================================================
