-------------------------- MODULE JscTeardownProofs --------------------------
(***************************************************************************)
(* Entries, teardown and its reports stay as JscTeardown says for any       *)
(* number of standalone runtimes, attachments and context groups, whatever  *)
(* destructors and hosts call (experimental.rs:803-893, 1593-1720,          *)
(* 1853-1917; attachment.rs, common.rs and host_adapter.rs).                *)
(***************************************************************************)
EXTENDS JscTeardown, SequenceTheorems, TLAPS

Elems(q) == {q[n] : n \in 1 .. Len(q)}
Once(q)  == \A m, n \in 1 .. Len(q) : q[m] = q[n] => m = n

(* Nothing of the runtime has been torn down. *)
Unreported(r) == r \in Adopted => report[r] = NoReport /\ accounted[r] = 0

Whole(r) ==
  /\ gate[r] \in {"Active", "Draining"}
  /\ resources[r] = "held" /\ native[r] = 1 /\ final_entry[r] = "None" /\ context[r] = "live"
  /\ Unreported(r)

(* The two ways to end: in a final entry, or without the context.  An       *)
(* attachment that was promised a final entry only ends the second way when *)
(* it is dropped, and its gate records no outcome.                          *)
Completed(r) ==
  /\ resources[r] = "settled" /\ final_entry[r] = "Completed"
  /\ context[r] = IF r \in Owned THEN "released" ELSE "live"

Abandoned(r) ==
  /\ r \in Adopted /\ resources[r] = "unresolved" /\ context[r] = "live"
  /\ IF policy[r] = "Guaranteed" THEN final_entry[r] = "None" /\ ~held[r]
     ELSE final_entry[r] = "Unavailable"

(* Between the two halves of a teardown, and within the second. *)
Releasing(r, f) ==
  /\ gate[r] = "Draining" /\ resources[r] = "settled" /\ native[r] = 1
  /\ final_entry[r] = "None" /\ context[r] = "live" /\ Unreported(r)
  /\ f.settled = 1 /\ f.unresolved = 0

Retiring(r, f) ==
  /\ native[r] = 0 /\ Unreported(r)
  /\ gate[r] = IF final_entry[r] = "None" THEN "Draining" ELSE "Invalid"
  /\ \/ Completed(r) /\ f.settled = 2 /\ f.unresolved = 0
     \/ Abandoned(r) /\ f.settled = 1 /\ f.unresolved = 1

(* What is reported is the recorded outcome, once for both resources. *)
IsReported(r) ==
  /\ report[r].final_entry = final_entry[r] /\ final_entry[r] # "None" /\ accounted[r] = 2
  /\ IF final_entry[r] = "Completed" THEN report[r].unresolved = 0 ELSE report[r].settled < 2

Over(r) ==
  /\ native[r] = 0 /\ (Completed(r) \/ Abandoned(r))
  /\ gate[r] = IF final_entry[r] = "None" THEN "Draining" ELSE "Destroyed"
  /\ r \in Adopted => (report[r] = NoReport /\ accounted[r] = 0 /\ ~held[r]) \/ IsReported(r)
----------------------------------------------------------------------------
Torn(r) == \E f \in Elems(stack) : f.runtime = r /\ f.at \in {"callbacks", "states"}

RuntimeIsExact(r) == ~Torn(r) => Over(r) \/ (Whole(r) /\ (held[r] \/ r \in Elems(deferred)))

(* A deferred runtime is dropped, whole, and in no frame. *)
DeferredIsExact ==
  /\ Once(deferred)
  /\ \A r \in Elems(deferred) :
       ~held[r] /\ gate[r] # "Destroyed" /\ \A f \in Elems(stack) : f.runtime # r

FrameIsExact(f) ==
  /\ f.at = "drain" <=> f.runtime = NoRuntime
  /\ f.at = "operation" => f.runtime = active /\ f.previous = NoRuntime /\ gate[f.runtime] = "Active"
  /\ f.at = "host_detach" => gate[f.runtime] # "Destroyed"
  /\ f.at = "callbacks" => Releasing(f.runtime, f)
  /\ f.at = "states" => Retiring(f.runtime, f)
  /\ f.at \in {"host", "host_detach", "host_backend", "operation"} => held[f.runtime]

(* How one frame may stand below another.  A host that was asked for an     *)
(* entry has called back before anything else runs; above an entry only     *)
(* teardown runs, that of its own context group not in the engine; and a    *)
(* runtime has a second frame only inside its host's.                       *)
Beneath(f, g) ==
  /\ f.at \notin {"host_backend", "host_detach"}
  /\ f.at = "operation" => g.at \in {"callbacks", "states"}
  /\ f.at = "operation" /\ g.at = "callbacks" => Group[f.runtime] # Group[g.runtime]
  /\ f.runtime = g.runtime /\ f.runtime # NoRuntime =>
       f.at = "host" /\ g.at \in {"operation", "callbacks", "states"}

Ordered(q) == \A i, j \in 1 .. Len(q) : i < j => Beneath(q[i], q[j])

JInv ==
  /\ TypeOK /\ Ordered(stack)
  /\ \A f \in Elems(stack) : FrameIsExact(f)
  /\ active # NoRuntime => \E f \in Elems(stack) : f.at = "operation"
  /\ DeferredIsExact
  /\ \A r \in Runtimes : RuntimeIsExact(r)
----------------------------------------------------------------------------
(* A push onto the thread's stack. *)
LEMMA PushStack ==
  ASSUME NEW S, NEW q \in Seq(S), NEW f \in S, Ordered(q), \A g \in Elems(q) : Beneath(g, f)
  PROVE  Append(q, f) \in Seq(S) /\ Elems(Append(q, f)) = Elems(q) \cup {f} /\ Ordered(Append(q, f))
  <1>. DEFINE N == Len(q)
              p == Append(q, f)
  <1>1. p \in Seq(S) /\ Len(p) = N + 1 /\ p[N + 1] = f /\ \A n \in 1 .. N : p[n] = q[n]
    BY AppendProperties
  <1>2. N \in Nat /\ 1 .. N + 1 = (1 .. N) \cup {N + 1}
    BY LenProperties
  <1>. HIDE DEF N, p
  <1>3. Elems(p) = Elems(q) \cup {f}
    BY <1>1, <1>2 DEF Elems, N
  <1>4. ASSUME NEW i \in 1 .. N + 1, NEW j \in 1 .. N + 1, i < j PROVE Beneath(p[i], p[j])
    <2>1. i \in 1 .. N /\ p[i] = q[i] /\ q[i] \in Elems(q)
      BY <1>1, <1>2, <1>4 DEF Elems, N
    <2>2. CASE j = N + 1
      BY <1>1, <2>1, <2>2
    <2>3. CASE j \in 1 .. N
      BY <1>1, <1>4, <2>1, <2>3 DEF Ordered, N
    <2>. QED
      BY <1>2, <2>2, <2>3
  <1>. QED
    BY <1>1, <1>3, <1>4 DEF Ordered, p

(* A pop from it. *)
LEMMA PopStack ==
  ASSUME NEW S, NEW q \in Seq(S), q # <<>>, Ordered(q)
  PROVE  /\ Front(q) \in Seq(S) /\ Last(q) \in S /\ Elems(q) = Elems(Front(q)) \cup {Last(q)}
         /\ Ordered(Front(q)) /\ \A g \in Elems(Front(q)) : Beneath(g, Last(q))
  <1>. DEFINE N == Len(q)
              p == Front(q)
  <1>1. N \in Nat \ {0} /\ q \in [1 .. N -> S]
    BY LenProperties, EmptySeq
  <1>2. Last(q) = q[N] /\ Last(q) \in S
    BY <1>1 DEF Last
  <1>3. p \in Seq(S) /\ Len(p) = N - 1 /\ \A n \in 1 .. N - 1 : p[n] = q[n]
    <2>1. N - 1 \in 0 .. N /\ 1 \in 1 .. N + 1 /\ N - 1 \in 1 - 1 .. N
      BY <1>1
    <2>2. \A n \in 1 .. N - 1 : 1 + n - 1 = n
      BY <1>1
    <2>3. N - 1 - 1 + 1 = N - 1
      BY <1>1
    <2>. QED
      BY <1>1, <2>1, <2>2, <2>3, SubSeqProperties DEF Front
  <1>4. 1 .. N = (1 .. N - 1) \cup {N} /\ \A n \in 1 .. N - 1 : n < N
    BY <1>1
  <1>. HIDE DEF N, p
  <1>5. Elems(p) = {q[n] : n \in 1 .. N - 1} /\ Elems(q) = {q[n] : n \in 1 .. N - 1} \cup {q[N]}
    BY <1>3, <1>4 DEF Elems, N
  <1>6. \A g \in Elems(p) : Beneath(g, Last(q))
    BY <1>2, <1>4, <1>5 DEF Ordered, N
  <1>7. Ordered(p)
    BY <1>3, <1>4 DEF Ordered, N
  <1>. QED
    BY <1>2, <1>3, <1>5, <1>6, <1>7 DEF p

(* DEFERRED_OWNED_DROPS.push *)
LEMMA PushElems ==
  ASSUME NEW S, NEW q \in Seq(S), NEW x \in S, x \notin Elems(q), Once(q)
  PROVE  /\ Append(q, x) \in Seq(S) /\ Append(q, x) # <<>>
         /\ Len(Append(q, x)) = Len(q) + 1 /\ Append(q, x)[Len(q) + 1] = x
         /\ \A n \in 1 .. Len(q) : Append(q, x)[n] = q[n]
         /\ Elems(Append(q, x)) = Elems(q) \cup {x} /\ Once(Append(q, x))
<1>1. /\ Append(q, x) \in Seq(S) /\ Append(q, x) # <<>> /\ Len(Append(q, x)) = Len(q) + 1
      /\ Append(q, x)[Len(q) + 1] = x /\ \A n \in 1 .. Len(q) : Append(q, x)[n] = q[n]
  BY AppendProperties
<1>2. Len(q) \in Nat
  BY LenProperties
<1>3. 1 .. Len(q) + 1 = (1 .. Len(q)) \cup {Len(q) + 1}
  BY <1>2
<1>4. Elems(Append(q, x)) = Elems(q) \cup {x}
  BY <1>1, <1>3 DEF Elems
<1>5. Once(Append(q, x))
  BY <1>1, <1>3 DEF Elems, Once
<1> QED
  BY <1>1, <1>4, <1>5

(* DEFERRED_OWNED_DROPS.pop *)
LEMMA PopElems ==
  ASSUME NEW S, NEW q \in Seq(S), q # <<>>, Once(q)
  PROVE  /\ Front(q) \in Seq(S) /\ Len(q) \in Nat \ {0} /\ Len(Front(q)) = Len(q) - 1
         /\ Last(q) = q[Len(q)] /\ Last(q) \in S /\ Last(q) \in Elems(q)
         /\ \A n \in 1 .. Len(q) - 1 : Front(q)[n] = q[n]
         /\ Elems(Front(q)) = Elems(q) \ {Last(q)} /\ Once(Front(q))
<1>1. Len(q) \in Nat \ {0} /\ q \in [1 .. Len(q) -> S]
  BY LenProperties, EmptySeq
<1>2. Last(q) = q[Len(q)] /\ Last(q) \in S /\ Last(q) \in Elems(q)
  BY <1>1 DEF Last, Elems
<1>3. /\ Front(q) \in Seq(S) /\ Len(Front(q)) = Len(q) - 1
      /\ \A n \in 1 .. Len(q) - 1 : Front(q)[n] = q[n]
  <2>1. Len(q) - 1 \in 0 .. Len(q) /\ 1 \in 1 .. Len(q) + 1 /\ Len(q) - 1 \in 1 - 1 .. Len(q)
    BY <1>1
  <2>2. \A n \in 1 .. Len(q) - 1 : 1 + n - 1 = n
    BY <1>1
  <2>3. Len(q) - 1 - 1 + 1 = Len(q) - 1
    BY <1>1
  <2> QED
    BY <1>1, <2>1, <2>2, <2>3, SubSeqProperties DEF Front
<1>4. 1 .. Len(q) = (1 .. Len(q) - 1) \cup {Len(q)} /\ Len(q) \notin 1 .. Len(q) - 1
  BY <1>1
<1>5. Once(Front(q))
  BY <1>3, <1>4 DEF Once
<1>6. Elems(Front(q)) = Elems(q) \ {Last(q)}
  <2>1. ASSUME NEW n \in 1 .. Len(q) - 1
        PROVE  q[n] # q[Len(q)]
    BY <1>1, <1>4 DEF Once
  <2>2. Elems(Front(q)) = {q[n] : n \in 1 .. Len(q) - 1}
    BY <1>3 DEF Elems
  <2>3. Elems(q) = {q[n] : n \in 1 .. Len(q) - 1} \cup {q[Len(q)]}
    BY <1>4 DEF Elems
  <2> QED
    BY <1>2, <2>1, <2>2, <2>3
<1> QED
  BY <1>1, <1>2, <1>3, <1>5, <1>6
----------------------------------------------------------------------------
(* A step leaves everything about a runtime but its frames. *)
Same(r) ==
  /\ held'[r] = held[r] /\ policy'[r] = policy[r] /\ gate'[r] = gate[r]
  /\ resources'[r] = resources[r] /\ native'[r] = native[r]
  /\ final_entry'[r] = final_entry[r] /\ context'[r] = context[r]
  /\ r \in Adopted => report'[r] = report[r] /\ accounted'[r] = accounted[r]

(* What is said of a runtime depends on nothing else. *)
LEMMA SameStays ==
  ASSUME NEW r, Same(r), NEW f
  PROVE  /\ Whole(r)' <=> Whole(r)
         /\ Over(r)' <=> Over(r)
         /\ Releasing(r, f)' <=> Releasing(r, f)
         /\ Retiring(r, f)' <=> Retiring(r, f)
  <1>1. Unreported(r)' <=> Unreported(r)
    BY DEF Same, Unreported
  <1>2. (Completed(r)' <=> Completed(r)) /\ (Abandoned(r)' <=> Abandoned(r))
    BY DEF Same, Completed, Abandoned
  <1>3. r \in Adopted => (IsReported(r)' <=> IsReported(r))
    BY DEF Same, IsReported
  <1>4. Whole(r)' <=> Whole(r)
    BY <1>1 DEF Same, Whole
  <1>5. Over(r)' <=> Over(r)
    BY <1>2, <1>3 DEF Same, Over
  <1>6. Releasing(r, f)' <=> Releasing(r, f)
    BY <1>1 DEF Same, Releasing
  <1>7. Retiring(r, f)' <=> Retiring(r, f)
    BY <1>1, <1>2 DEF Same, Retiring
  <1>. QED
    BY <1>4, <1>5, <1>6, <1>7

(* A frame is exact as long as its runtime is the same. *)
LEMMA FrameStays ==
  ASSUME NEW f \in Frames, FrameIsExact(f), f.runtime \in Runtimes => Same(f.runtime),
         f.at = "operation" => active' = active
  PROVE  FrameIsExact(f)'
  <1>1. CASE f.runtime = NoRuntime
    BY <1>1 DEF FrameIsExact
  <1>2. CASE f.runtime # NoRuntime
    <2>1. f.runtime \in Runtimes /\ Same(f.runtime)
      BY <1>2 DEF Frames
    <2>2. /\ held'[f.runtime] = held[f.runtime] /\ gate'[f.runtime] = gate[f.runtime]
          /\ Releasing(f.runtime, f)' <=> Releasing(f.runtime, f)
          /\ Retiring(f.runtime, f)' <=> Retiring(f.runtime, f)
      <3>1. held'[f.runtime] = held[f.runtime] /\ gate'[f.runtime] = gate[f.runtime]
        BY <2>1 DEF Same
      <3>. QED
        BY <2>1, <3>1, SameStays
    <2>. QED
      BY <2>2 DEF FrameIsExact
  <1>. QED
    BY <1>1, <1>2

(* And so is a runtime as long as its teardown keeps its frame. *)
LEMMA RuntimeStays ==
  ASSUME NEW r \in Runtimes, RuntimeIsExact(r), Same(r), Torn(r) => Torn(r)',
         r \in Elems(deferred) => r \in Elems(deferred)'
  PROVE  RuntimeIsExact(r)'
  <1>1. (Whole(r)' <=> Whole(r)) /\ (Over(r)' <=> Over(r)) /\ held'[r] = held[r]
    BY SameStays DEF Same
  <1>. QED
    BY <1>1 DEF RuntimeIsExact

(* No deferred runtime is touched, or gets a frame. *)
LEMMA DeferredStays ==
  ASSUME DeferredIsExact, deferred' = deferred,
         \A q \in Elems(deferred) : Same(q),
         \A f \in Elems(stack)' : f \in Elems(stack) \/ f.runtime \notin Elems(deferred)
  PROVE  DeferredIsExact'
  <1>1. Once(deferred)' /\ Elems(deferred)' = Elems(deferred)
    BY DEF DeferredIsExact
  <1>2. ASSUME NEW q \in Elems(deferred)
        PROVE  ~held'[q] /\ gate'[q] # "Destroyed" /\ \A f \in Elems(stack)' : f.runtime # q
    BY DEF DeferredIsExact, Same
  <1>. QED
    BY <1>1, <1>2 DEF DeferredIsExact

(* A step that touches only the stack, and drops no frame of a teardown. *)
LEMMA StackStep ==
  ASSUME JInv, UNCHANGED <<held, policy, teardownVars, context, deferred>>,
         stack' \in Seq(Frames), active' \in Runtimes \cup {NoRuntime}, Ordered(stack)',
         \A f \in Elems(stack) : f.at \in {"callbacks", "states"} => f \in Elems(stack)',
         \A f \in Elems(stack)' :
           \/ f \in Elems(stack) /\ (f.at = "operation" => active' = active)
           \/ f.runtime \notin Elems(deferred) /\ FrameIsExact(f)',
         active' # NoRuntime => \E f \in Elems(stack)' : f.at = "operation"
  PROVE  JInv'
  <1>1. UNCHANGED <<held, policy, gate, resources, native, final_entry, report, accounted, context, deferred>>
    BY DEF teardownVars
  <1>2. \A r : Same(r)
    BY <1>1 DEF Same
  <1>3. TypeOK'
    BY <1>1 DEF JInv, TypeOK
  <1>4. DeferredIsExact'
    BY <1>1, <1>2, DeferredStays DEF JInv
  <1>5. ASSUME NEW r \in Runtimes PROVE RuntimeIsExact(r)'
    <2>1. Torn(r) => Torn(r)'
      BY DEF Torn
    <2>. QED
      BY <1>1, <1>2, <2>1, RuntimeStays DEF JInv
  <1>6. ASSUME NEW f \in Elems(stack)' PROVE FrameIsExact(f)'
    <2>1. CASE FrameIsExact(f)'
      BY <2>1
    <2>2. CASE f \in Elems(stack) /\ (f.at = "operation" => active' = active)
      <3>1. f \in Frames
        BY <2>2, LenProperties DEF JInv, TypeOK, Elems
      <3>. QED
        BY <1>2, <2>2, <3>1, FrameStays DEF JInv
    <2>. QED
      BY <2>1, <2>2
  <1>. QED
    BY <1>3, <1>4, <1>5, <1>6 DEF JInv

(* A step that touches one runtime, which is not entered, and its frames. *)
LEMMA TeardownStep ==
  ASSUME JInv, NEW r \in Runtimes, TypeOK', DeferredIsExact', RuntimeIsExact(r)', Ordered(stack)',
         active' = active, active # r,
         \A q \in Runtimes \ {r} : Same(q) /\ (q \in Elems(deferred) => q \in Elems(deferred)'),
         \A f \in Elems(stack) : f.runtime # r => f \in Elems(stack)',
         \A f \in Elems(stack)' : (f \in Elems(stack) /\ f.runtime # r) \/ FrameIsExact(f)'
  PROVE  JInv'
  <1>0. \A f \in Elems(stack) : f \in Frames
    BY LenProperties DEF JInv, TypeOK, Elems
  <1>1. ASSUME NEW q \in Runtimes, q # r PROVE RuntimeIsExact(q)'
    <2>1. Torn(q) => Torn(q)'
      BY <1>1 DEF Torn
    <2>. QED
      BY <1>1, <2>1, RuntimeStays DEF JInv
  <1>2. ASSUME NEW f \in Elems(stack)' PROVE FrameIsExact(f)'
    BY <1>0, <1>2, FrameStays DEF JInv
  <1>3. active' # NoRuntime => \E f \in Elems(stack)' : f.at = "operation"
    BY DEF JInv, FrameIsExact
  <1>. QED
    BY <1>1, <1>2, <1>3 DEF JInv
----------------------------------------------------------------------------
(* Only the drain of deferred drops is a frame of no runtime. *)
LEMMA FrameTypes == JInv => \A f \in Elems(stack) : f \in Frames /\ (f.runtime \in Runtimes <=> f.at # "drain")
  <1>. SUFFICES ASSUME JInv, NEW f \in Elems(stack) PROVE f \in Frames /\ (f.runtime \in Runtimes <=> f.at # "drain")
    OBVIOUS
  <1>1. f \in Frames
    BY LenProperties DEF JInv, TypeOK, Elems
  <1>. QED
    BY <1>1, RuntimesAssumption DEF JInv, FrameIsExact, Frames

(* Only standalone runtimes are deferred. *)
LEMMA DeferredAreRuntimes == TypeOK => \A q \in Elems(deferred) : q \in Runtimes
  BY LenProperties DEF TypeOK, Elems, Runtimes

(* The innermost frame, and those beneath it. *)
LEMMA TopFrame ==
  ASSUME JInv, stack # <<>>
  PROVE  /\ Last(stack) \in Elems(stack) /\ Elems(stack) = Elems(Front(stack)) \cup {Last(stack)}
         /\ Front(stack) \in Seq(Frames) /\ Ordered(Front(stack))
         /\ \A f \in Elems(Front(stack)) : f \in Elems(stack) /\ Beneath(f, Last(stack))
  <1>1. stack \in Seq(Frames) /\ Ordered(stack)
    BY DEF JInv, TypeOK
  <1>2. /\ Front(stack) \in Seq(Frames) /\ Elems(stack) = Elems(Front(stack)) \cup {Last(stack)}
        /\ Ordered(Front(stack)) /\ \A f \in Elems(Front(stack)) : Beneath(f, Last(stack))
    BY <1>1, PopStack
  <1>. QED
    BY <1>2

(* A value that can be used is in no frame, and whole or destroyed. *)
LEMMA UsableIsOutside ==
  ASSUME JInv, NEW r \in Runtimes, Usable(r)
  PROVE  /\ held[r] /\ ~Torn(r) /\ r \notin Elems(deferred) /\ active # r
         /\ \A f \in Elems(stack) : f.runtime # r
         /\ IF gate[r] = "Destroyed" THEN Over(r) ELSE Whole(r)
  <1>1. held[r] /\ \A f \in Elems(stack) : f.runtime # r
    BY LenProperties DEF Usable, Elems, JInv, TypeOK
  <1>2. ~Torn(r) /\ r \notin Elems(deferred)
    BY <1>1 DEF Torn, JInv, DeferredIsExact
  <1>3. active # r
    <2>. SUFFICES ASSUME active = r PROVE FALSE
      OBVIOUS
    <2>1. PICK f \in Elems(stack) : f.at = "operation"
      BY RuntimesAssumption DEF JInv
    <2>. QED
      BY <1>1, <2>1 DEF JInv, FrameIsExact
  <1>4. Over(r) \/ Whole(r)
    BY <1>2 DEF JInv, RuntimeIsExact
  <1>5. Over(r) => gate[r] = "Destroyed"
    BY <1>1 DEF Over, Completed, Abandoned
  <1>6. Whole(r) => gate[r] # "Destroyed"
    BY DEF Whole
  <1>. QED
    BY <1>1, <1>2, <1>3, <1>4, <1>5, <1>6

(* No operation is on the stack of a thread that is not entered. *)
LEMMA NoOperations ==
  ASSUME JInv, active = NoRuntime
  PROVE  \A f \in Elems(stack) : f.at # "operation"
  BY DEF JInv, FrameIsExact

(* Where application code runs, every host asked for an entry has called.   *)
LEMMA HostsHaveCalled ==
  ASSUME JInv, UserCode
  PROVE  \A f \in Elems(stack) : f.at \notin {"host_backend", "host_detach"}
  <1>1. CASE stack = <<>>
    <2>1. Elems(<<>>) = {}
      BY EmptySeq DEF Elems
    <2>. QED
      BY <1>1, <2>1
  <1>2. CASE stack # <<>>
    BY <1>2, TopFrame DEF UserCode, Top, Beneath
  <1>. QED
    BY <1>1, <1>2

(* ActiveEntryFrame::enter, and a host asked for an entry. *)
LEMMA EntryStep ==
  ASSUME JInv, NEW r \in Runtimes, NEW at \in {"operation", "host_backend", "host_detach"},
         UserCode, Usable(r), Compatible(r), Push(at, r),
         at = "operation" => gate[r] = "Active", at = "host_detach" => gate[r] # "Destroyed",
         active' = IF at = "operation" THEN r ELSE active,
         UNCHANGED <<held, policy, teardownVars, context, deferred>>
  PROVE  JInv'
  <1>1. /\ held[r] /\ r \notin Elems(deferred) /\ active = NoRuntime
        /\ \A f \in Elems(stack) : f.runtime # r
    BY UsableIsOutside DEF Compatible
  <1>2. /\ \A f \in Elems(stack) : f.at \notin {"operation", "host_backend", "host_detach"}
        /\ stack \in Seq(Frames) /\ Ordered(stack)
    BY <1>1, NoOperations, HostsHaveCalled DEF JInv, TypeOK
  <1>. DEFINE new == [at |-> at, runtime |-> r, previous |-> NoRuntime, settled |-> 0, unresolved |-> 0]
  <1>3. new \in Frames /\ stack' = Append(stack, new)
    BY <1>1 DEF Frames, Push, Frame
  <1>4. new.at = at /\ new.runtime = r /\ new.previous = NoRuntime
    OBVIOUS
  <1>. HIDE DEF new
  <1>5. \A f \in Elems(stack) : Beneath(f, new)
    BY <1>1, <1>2, <1>4 DEF Beneath
  <1>6. stack' \in Seq(Frames) /\ Elems(stack)' = Elems(stack) \cup {new} /\ Ordered(stack)'
    BY <1>2, <1>3, <1>5, PushStack
  <1>7. held' = held /\ gate' = gate
    BY DEF teardownVars
  <1>8. FrameIsExact(new)'
    BY <1>1, <1>4, <1>7, RuntimesAssumption DEF FrameIsExact
  <1>9. active' # NoRuntime => \E f \in Elems(stack)' : f.at = "operation"
    BY <1>1, <1>4, <1>6
  <1>10. \A f \in Elems(stack)' :
           \/ f \in Elems(stack) /\ (f.at = "operation" => active' = active)
           \/ f.runtime \notin Elems(deferred) /\ FrameIsExact(f)'
    BY <1>1, <1>2, <1>4, <1>6, <1>8
  <1>11. active' \in Runtimes \cup {NoRuntime}
    BY <1>1
  <1>. QED
    BY <1>6, <1>9, <1>10, <1>11, StackStep

(* ActiveEntryFrame::drop: the entry was the only one, so the drops it      *)
(* deferred are next.                                                      *)
LEMMA LeaveStep ==
  ASSUME JInv, Leave
  PROVE  JInv'
  <1>1. stack # <<>> /\ Last(stack).at = "operation" /\ active' = Last(stack).previous
        /\ UNCHANGED <<held, policy, teardownVars, context, deferred>>
    BY DEF Leave, Top
  <1>2. PICK t \in Frames : t = Last(stack) /\ t \in Elems(stack)
    BY <1>1, TopFrame, FrameTypes
  <1>3. active' = NoRuntime
    BY <1>1, <1>2 DEF JInv, FrameIsExact
  <1>. DEFINE new == [at |-> "drain", runtime |-> NoRuntime, previous |-> NoRuntime, settled |-> 0, unresolved |-> 0]
  <1>4. new \in Frames /\ stack' = Append(Front(stack), new)
    BY <1>3 DEF Frames, Leave, Frame
  <1>5. new.at = "drain" /\ new.runtime = NoRuntime
    OBVIOUS
  <1>. HIDE DEF new
  <1>6. \A f \in Elems(Front(stack)) : f \in Elems(stack) /\ f.at # "operation" /\ Beneath(f, new)
    BY <1>1, <1>5, TopFrame DEF Beneath
  <1>7. stack' \in Seq(Frames) /\ Elems(stack)' = Elems(Front(stack)) \cup {new} /\ Ordered(stack)'
    BY <1>1, <1>4, <1>6, TopFrame, PushStack
  <1>8. \A f \in Elems(stack) : f.at \in {"callbacks", "states"} => f \in Elems(stack)'
    BY <1>1, <1>7, TopFrame
  <1>9. new.runtime \notin Elems(deferred) /\ FrameIsExact(new)'
    BY <1>5, RuntimesAssumption, LenProperties DEF JInv, TypeOK, Elems, Runtimes, FrameIsExact
  <1>. QED
    BY <1>1, <1>3, <1>6, <1>7, <1>8, <1>9, StackStep

(* The ends of drain_deferred_owned_drops and of a host's entry. *)
LEMMA PopStep ==
  ASSUME JInv, stack # <<>>, Last(stack).at \in {"drain", "host"}, stack' = Front(stack),
         UNCHANGED <<held, policy, teardownVars, context, deferred, active>>
  PROVE  JInv'
  <1>1. stack' \in Seq(Frames) /\ Ordered(stack)' /\ Elems(stack)' \subseteq Elems(stack)
    BY TopFrame
  <1>2. \A f \in Elems(stack) : f.at \in {"callbacks", "states", "operation"} => f \in Elems(stack)'
    BY TopFrame
  <1>3. active' \in Runtimes \cup {NoRuntime} /\ (active' # NoRuntime => \E f \in Elems(stack)' : f.at = "operation")
    BY <1>2 DEF JInv, TypeOK
  <1>. QED
    BY <1>1, <1>2, <1>3, StackStep

(* A host that calls back is not inside any entry: it was asked outside of  *)
(* them and has run nothing since.                                         *)
LEMMA HostCalls ==
  ASSUME JInv, stack # <<>>, Last(stack).at \in {"host_backend", "host_detach"}, NEW r, r = Last(stack).runtime
  PROVE  /\ r \in Runtimes /\ held[r] /\ active = NoRuntime /\ r \notin Elems(deferred)
         /\ HostCalled \in Seq(Frames) /\ Ordered(HostCalled)
         /\ \A f \in Elems(Front(stack)) : f.runtime # r /\ f \in Elems(stack)
         /\ \A f \in Elems(HostCalled) : f.at \notin {"operation", "host_backend", "host_detach"}
         /\ \E h \in Frames : /\ Elems(HostCalled) = Elems(Front(stack)) \cup {h}
                              /\ h.at = "host" /\ h.runtime = r
  <1>1. PICK t \in Frames : t = Last(stack) /\ t \in Elems(stack)
    BY TopFrame, FrameTypes
  <1>2. r \in Runtimes /\ held[r] /\ r # NoRuntime
    BY <1>1, FrameTypes, RuntimesAssumption DEF JInv, FrameIsExact
  <1>3. \A f \in Elems(Front(stack)) : /\ f.runtime # r /\ f \in Elems(stack)
                                       /\ f.at \notin {"operation", "host_backend", "host_detach"}
    BY <1>1, <1>2, TopFrame DEF Beneath
  <1>4. active = NoRuntime
    BY <1>1, <1>3, TopFrame DEF JInv
  <1>5. r \notin Elems(deferred)
    BY <1>1 DEF JInv, DeferredIsExact
  <1>. DEFINE h == [t EXCEPT !.at = "host"]
  <1>6. h \in Frames /\ h.at = "host" /\ h.runtime = r /\ HostCalled = Append(Front(stack), h)
    BY <1>1 DEF Frames, HostCalled
  <1>. HIDE DEF h
  <1>7. \A f \in Elems(Front(stack)) : Beneath(f, h)
    BY <1>3, <1>6 DEF Beneath
  <1>8. HostCalled \in Seq(Frames) /\ Elems(HostCalled) = Elems(Front(stack)) \cup {h} /\ Ordered(HostCalled)
    BY <1>6, <1>7, TopFrame, PushStack
  <1>. QED
    BY <1>2, <1>3, <1>4, <1>5, <1>6, <1>8

(* Attachment::with_backend, and an operation or a detach that the host's   *)
(* call is refused.                                                        *)
LEMMA HostStep ==
  ASSUME JInv, stack # <<>>, Last(stack).at \in {"host_backend", "host_detach"}, NEW r, r = Last(stack).runtime,
         UNCHANGED <<held, policy, teardownVars, context, deferred>>,
         \/ stack' = HostCalled /\ active' = active
         \/ gate[r] = "Active" /\ active' = r /\ stack' = Append(HostCalled, Frame("operation", r))
  PROVE  JInv'
  <1>1. /\ r \in Runtimes /\ held[r] /\ active = NoRuntime /\ r \notin Elems(deferred)
        /\ HostCalled \in Seq(Frames) /\ Ordered(HostCalled)
        /\ \A f \in Elems(Front(stack)) : f.runtime # r /\ f \in Elems(stack)
        /\ \A f \in Elems(HostCalled) : f.at \notin {"operation", "host_backend", "host_detach"}
    BY HostCalls
  <1>2. PICK h \in Frames : Elems(HostCalled) = Elems(Front(stack)) \cup {h} /\ h.at = "host" /\ h.runtime = r
    BY HostCalls
  <1>3. held' = held /\ gate' = gate /\ r # NoRuntime
    BY <1>1, RuntimesAssumption DEF teardownVars
  <1>4. FrameIsExact(h)'
    BY <1>1, <1>2, <1>3 DEF FrameIsExact
  <1>5. \A f \in Elems(stack) : f.at \in {"callbacks", "states"} => f \in Elems(HostCalled)
    BY <1>2, TopFrame
  <1>6. CASE stack' = HostCalled /\ active' = active
    <2>. HIDE DEF HostCalled
    <2>1. stack' \in Seq(Frames) /\ Ordered(stack)' /\ Elems(stack)' = Elems(HostCalled)
      BY <1>1, <1>6
    <2>. QED
      BY <1>1, <1>2, <1>4, <1>5, <1>6, <2>1, StackStep
  <1>7. CASE gate[r] = "Active" /\ active' = r /\ stack' = Append(HostCalled, Frame("operation", r))
    <2>. DEFINE new == [at |-> "operation", runtime |-> r, previous |-> NoRuntime, settled |-> 0, unresolved |-> 0]
    <2>1. new \in Frames /\ stack' = Append(HostCalled, new)
      BY <1>1, <1>7 DEF Frames, Frame
    <2>2. new.at = "operation" /\ new.runtime = r /\ new.previous = NoRuntime
      OBVIOUS
    <2>. HIDE DEF new
    <2>3. \A f \in Elems(HostCalled) : Beneath(f, new)
      BY <1>1, <1>2, <2>2 DEF Beneath
    <2>4. stack' \in Seq(Frames) /\ Elems(stack)' = Elems(HostCalled) \cup {new} /\ Ordered(stack)'
      BY <1>1, <2>1, <2>3, PushStack
    <2>5. FrameIsExact(new)'
      BY <1>1, <1>3, <1>7, <2>2 DEF FrameIsExact
    <2>6. \A f \in Elems(stack)' :
           \/ f \in Elems(stack) /\ (f.at = "operation" => active' = active)
           \/ f.runtime \notin Elems(deferred) /\ FrameIsExact(f)'
      BY <1>1, <1>2, <1>4, <2>2, <2>4, <2>5
    <2>7. \A f \in Elems(stack) : f.at \in {"callbacks", "states"} => f \in Elems(stack)'
      BY <1>5, <2>4
    <2>8. active' \in Runtimes \cup {NoRuntime} /\ \E f \in Elems(stack)' : f.at = "operation"
      BY <1>1, <1>7, <2>2, <2>4
    <2>. QED
      BY <2>4, <2>6, <2>7, <2>8, StackStep
  <1>. QED
    BY <1>6, <1>7
----------------------------------------------------------------------------
(* A stack that keeps the frames of all other runtimes, and at most the      *)
(* host's frame of this one.                                               *)
Beside(r, below) ==
  /\ below \in Seq(Frames) /\ Ordered(below)
  /\ \A f \in Elems(stack) : f.runtime # r => f \in Elems(below)
  /\ \A f \in Elems(below) :
       /\ f.at \notin {"host_backend", "host_detach"}
       /\ (f.runtime # r /\ f \in Elems(stack)) \/ (f.runtime = r /\ f.at = "host")

(* The first half of a teardown that reaches the engine: of a value or of a *)
(* deferred drop, on the thread's stack or inside the host's entry, and     *)
(* while no entry of the runtime's context group is on the stack.           *)
LEMMA ReleaseStep ==
  ASSUME JInv, NEW r \in Runtimes, NEW below, Beside(r, below), Whole(r), ReleaseOn(below, r),
         held'[r] \/ \A f \in Elems(below) : f.runtime # r,
         active # r, active = NoRuntime \/ Group[active] # Group[r], UNCHANGED <<policy, context, active>>,
         held' \in [Runtimes -> BOOLEAN], \A q \in Runtimes \ {r} : held'[q] = held[q],
         deferred' \in Seq(Owned), Once(deferred'), Elems(deferred') = Elems(deferred) \ {r}
  PROVE  JInv'
  <1>0. TypeOK /\ r # NoRuntime
    BY RuntimesAssumption DEF JInv
  <1>1. /\ gate' = [gate EXCEPT ![r] = "Draining"] /\ resources' = [resources EXCEPT ![r] = "settled"]
        /\ UNCHANGED <<native, final_entry, report, accounted, policy, context, active>>
    BY DEF ReleaseOn
  <1>2. [at |-> "callbacks", runtime |-> r, previous |-> active, settled |-> 1, unresolved |-> 0] \in Frames
    BY <1>0 DEF Frames, TypeOK
  <1>. PICK new \in Frames : new = [at |-> "callbacks", runtime |-> r, previous |-> active, settled |-> 1, unresolved |-> 0]
    BY <1>2
  <1>3. /\ new.at = "callbacks" /\ new.runtime = r /\ new.settled = 1 /\ new.unresolved = 0
        /\ stack' = Append(below, new)
    <2>1. Held(r) = 1
      BY DEF Whole, Held
    <2>2. [Frame("callbacks", r) EXCEPT !.settled = Held(r)] = new
      BY <2>1 DEF Frame
    <2>. QED
      BY <2>2 DEF ReleaseOn, Above
  <1>4. ASSUME NEW f \in Elems(below) PROVE Beneath(f, new)
    <2>1. CASE f.runtime # r /\ f \in Elems(stack)
      <3>1. FrameIsExact(f)
        BY <2>1 DEF JInv
      <3>2. f.at = "operation" => f.runtime = active /\ f.runtime # NoRuntime
        BY <3>1 DEF FrameIsExact
      <3>3. f.at \notin {"host_backend", "host_detach"}
        BY <1>4 DEF Beside
      <3>. QED
        BY <1>3, <2>1, <3>2, <3>3 DEF Beneath
    <2>2. CASE f.runtime = r /\ f.at = "host"
      BY <1>3, <2>2 DEF Beneath
    <2>. QED
      BY <1>4, <2>1, <2>2 DEF Beside
  <1>5. stack' \in Seq(Frames) /\ Elems(stack)' = Elems(below) \cup {new} /\ Ordered(stack)'
    BY <1>3, <1>4, PushStack DEF Beside
  <1>6. TypeOK'
    BY <1>0, <1>1, <1>5 DEF TypeOK
  <1>7. \A q \in Runtimes \ {r} : Same(q)
    BY <1>0, <1>1 DEF Same, TypeOK
  <1>8. Releasing(r, new)'
    BY <1>0, <1>1, <1>3 DEF Whole, Releasing, Unreported, TypeOK
  <1>9. FrameIsExact(new)'
    BY <1>0, <1>3, <1>8 DEF FrameIsExact
  <1>10. RuntimeIsExact(r)'
    BY <1>3, <1>5 DEF RuntimeIsExact, Torn
  <1>11. DeferredIsExact'
    <2>1. ASSUME NEW q \in Elems(deferred) \ {r}
          PROVE  ~held'[q] /\ gate'[q] # "Destroyed" /\ \A f \in Elems(stack)' : f.runtime # q
      <3>1. q \in Runtimes
        BY <1>0, DeferredAreRuntimes
      <3>. QED
        BY <1>3, <1>5, <1>7, <2>1, <3>1 DEF JInv, DeferredIsExact, Same, Beside
    <2>. QED
      BY <2>1 DEF DeferredIsExact
  <1>12. \A f \in Elems(stack)' : (f \in Elems(stack) /\ f.runtime # r) \/ FrameIsExact(f)'
    <2>1. \A f : f.at = "host" /\ f.runtime = r /\ held'[r] => FrameIsExact(f)'
      BY <1>0 DEF FrameIsExact
    <2>. QED
      BY <1>5, <1>9, <2>1 DEF Beside
  <1>13. \A q \in Runtimes \ {r} : q \in Elems(deferred) => q \in Elems(deferred)'
    OBVIOUS
  <1>14. \A f \in Elems(stack) : f.runtime # r => f \in Elems(stack)'
    BY <1>5 DEF Beside
  <1>. QED
    BY <1>1, <1>5, <1>6, <1>7, <1>10, <1>11, <1>12, <1>13, <1>14, TeardownStep

(* A teardown that is refused closes the gate of a whole runtime. *)
LEMMA RefusedStep ==
  ASSUME JInv, NEW r \in Runtimes, NEW below, Beside(r, below), Whole(r), RefusedOn(below, r),
         active # r, held[r], r \notin Elems(deferred), UNCHANGED <<held, policy, context, active, deferred>>
  PROVE  JInv'
  <1>0. TypeOK /\ r # NoRuntime
    BY RuntimesAssumption DEF JInv
  <1>1. /\ gate' = [gate EXCEPT ![r] = "Draining"] /\ stack' = below
        /\ UNCHANGED <<resources, native, final_entry, report, accounted, held, policy, context, active, deferred>>
    BY DEF RefusedOn
  <1>2. stack' \in Seq(Frames) /\ Elems(stack)' = Elems(below) /\ Ordered(stack)'
    BY <1>1 DEF Beside
  <1>3. TypeOK'
    BY <1>0, <1>1, <1>2 DEF TypeOK
  <1>4. \A q \in Runtimes \ {r} : Same(q)
    BY <1>0, <1>1 DEF Same, TypeOK
  <1>5. Whole(r)'
    BY <1>0, <1>1 DEF Whole, Unreported, TypeOK
  <1>6. RuntimeIsExact(r)'
    BY <1>1, <1>5 DEF RuntimeIsExact
  <1>7. DeferredIsExact'
    <2>1. \A q \in Elems(deferred) : q \in Runtimes /\ q # r
      BY <1>0, DeferredAreRuntimes
    <2>. QED
      BY <1>1, <1>2, <1>4, <2>1, DeferredStays DEF JInv, Beside
  <1>8. \A f \in Elems(stack)' : (f \in Elems(stack) /\ f.runtime # r) \/ FrameIsExact(f)'
    <2>1. \A f : f.at = "host" /\ f.runtime = r => FrameIsExact(f)'
      BY <1>0, <1>1 DEF FrameIsExact
    <2>. QED
      BY <1>2, <2>1 DEF Beside
  <1>. QED
    BY <1>1, <1>2, <1>3, <1>4, <1>6, <1>7, <1>8, TeardownStep DEF Beside

(* The stack under the teardown of a value that can be used, and of a       *)
(* deferred drop.                                                          *)
LEMMA StackIsBeside ==
  ASSUME JInv, NEW r, \A f \in Elems(stack) : f.runtime # r /\ f.at \notin {"host_backend", "host_detach"}
  PROVE  Beside(r, stack)
  BY DEF JInv, TypeOK, Beside

(* Runtime::invalidate, Runtime::drop and detach_with_context. *)
LEMMA UsableRelease ==
  ASSUME JInv, NEW r \in Runtimes, UserCode, Usable(r), gate[r] # "Destroyed", Compatible(r) \/ Independent(r),
         Release(r), UNCHANGED <<policy, context, active, deferred>>,
         held' \in [Runtimes -> BOOLEAN], \A q \in Runtimes \ {r} : held'[q] = held[q]
  PROVE  JInv'
  <1>1. /\ held[r] /\ r \notin Elems(deferred) /\ active # r /\ Whole(r)
        /\ \A f \in Elems(stack) : f.runtime # r
    BY UsableIsOutside
  <1>2. PICK below \in Seq(Frames) : below = stack
    BY DEF JInv, TypeOK
  <1>3. Beside(r, below) /\ ReleaseOn(below, r) /\ \A f \in Elems(below) : f.runtime # r
    BY <1>1, <1>2, HostsHaveCalled, StackIsBeside DEF Release
  <1>4. active = NoRuntime \/ Group[active] # Group[r]
    BY <1>1 DEF Compatible, Independent
  <1>5. deferred' \in Seq(Owned) /\ Once(deferred') /\ Elems(deferred') = Elems(deferred) \ {r}
    BY <1>1 DEF JInv, TypeOK, DeferredIsExact
  <1>. QED
    BY <1>1, <1>3, <1>4, <1>5, ReleaseStep

(* drain_deferred_owned_drops runs where nothing is entered. *)
LEMMA DrainOneStep ==
  ASSUME JInv, DrainOne
  PROVE  JInv'
  <1>1. /\ stack # <<>> /\ Last(stack).at = "drain" /\ deferred # <<>>
        /\ deferred' = Front(deferred) /\ Release(Last(deferred)) /\ UNCHANGED <<held, policy, context, active>>
    BY DEF DrainOne, Top
  <1>2. deferred \in Seq(Owned) /\ Once(deferred) /\ held \in [Runtimes -> BOOLEAN] /\ stack \in Seq(Frames)
    BY DEF JInv, TypeOK, DeferredIsExact
  <1>3. /\ deferred' \in Seq(Owned) /\ Last(deferred) \in Owned /\ Last(deferred) \in Elems(deferred)
        /\ Elems(deferred') = Elems(deferred) \ {Last(deferred)} /\ Once(deferred')
    BY <1>1, <1>2, PopElems
  <1>4. PICK r \in Owned : r = Last(deferred)
    BY <1>3
  <1>5. r \in Runtimes /\ r \notin Adopted /\ ~held[r] /\ gate[r] # "Destroyed" /\ \A f \in Elems(stack) : f.runtime # r
    BY <1>3, <1>4, RuntimesAssumption DEF JInv, DeferredIsExact, Runtimes
  <1>6. Whole(r)
    <2>1. Over(r) \/ Whole(r)
      BY <1>5 DEF JInv, RuntimeIsExact, Torn
    <2>. QED
      BY <1>5, <2>1 DEF Over, Completed, Abandoned
  <1>7. \A f \in Elems(stack) : f.at \notin {"operation", "host_backend", "host_detach"}
    BY <1>1, TopFrame DEF Beneath
  <1>8. active = NoRuntime /\ active # r
    BY <1>5, <1>7, RuntimesAssumption DEF JInv
  <1>9. PICK below \in Seq(Frames) : below = stack
    BY <1>2
  <1>10. Beside(r, below) /\ ReleaseOn(below, r) /\ \A f \in Elems(below) : f.runtime # r
    BY <1>1, <1>4, <1>5, <1>7, <1>9, StackIsBeside DEF Release
  <1>. QED
    BY <1>1, <1>2, <1>3, <1>4, <1>5, <1>6, <1>8, <1>10, ReleaseStep

(* detach_with_context: a runtime that can be used, or whose host has just  *)
(* called back.                                                            *)
LEMMA DetachWithStep ==
  ASSUME JInv, NEW r \in Adopted, DetachWith(r)
  PROVE  JInv'
  <1>0. r \in Runtimes
    BY DEF Runtimes
  <1>1. /\ UserCode /\ Usable(r) /\ Compatible(r) /\ gate[r] # "Destroyed" /\ DetachOn(stack, r)
        /\ UNCHANGED <<held, policy, context, active, deferred>>
    BY DEF DetachWith
  <1>2. CASE policy[r] # "Unavailable"
    <2>1. Release(r) /\ held' \in [Runtimes -> BOOLEAN] /\ \A q \in Runtimes \ {r} : held'[q] = held[q]
      BY <1>1, <1>2 DEF DetachOn, Release, JInv, TypeOK
    <2>. QED
      BY <1>0, <1>1, <2>1, UsableRelease
  <1>3. CASE policy[r] = "Unavailable"
    <2>1. PICK below \in Seq(Frames) : below = stack
      BY DEF JInv, TypeOK
    <2>2. /\ held[r] /\ r \notin Elems(deferred) /\ active # r /\ Whole(r)
          /\ \A f \in Elems(stack) : f.runtime # r
      BY <1>0, <1>1, UsableIsOutside
    <2>3. RefusedOn(below, r) /\ Beside(r, below)
      BY <1>1, <1>3, <2>1, <2>2, HostsHaveCalled, StackIsBeside DEF DetachOn
    <2>. QED
      BY <1>0, <1>1, <2>2, <2>3, RefusedStep
  <1>. QED
    BY <1>2, <1>3

(* The same inside the entry that the host was asked for. *)
LEMMA HostDetachStep ==
  ASSUME JInv, HostDetach
  PROVE  JInv'
  <1>1. stack # <<>> /\ Last(stack).at = "host_detach" /\ UNCHANGED <<held, policy, context, active, deferred>>
    BY DEF HostDetach, Top
  <1>2. PICK t \in Frames : t = Last(stack) /\ t \in Elems(stack)
    BY <1>1, TopFrame, FrameTypes
  <1>3. PICK r \in Runtimes : r = Last(stack).runtime
    BY <1>1, <1>2, FrameTypes
  <1>4. /\ held[r] /\ active = NoRuntime /\ r \notin Elems(deferred)
        /\ HostCalled \in Seq(Frames) /\ Ordered(HostCalled)
        /\ \A f \in Elems(Front(stack)) : f.runtime # r /\ f \in Elems(stack)
        /\ \A f \in Elems(HostCalled) : f.at \notin {"operation", "host_backend", "host_detach"}
    BY <1>1, <1>3, HostCalls
  <1>5. PICK h \in Frames : Elems(HostCalled) = Elems(Front(stack)) \cup {h} /\ h.at = "host" /\ h.runtime = r
    BY <1>1, <1>3, HostCalls
  <1>6. Compatible(r) /\ active # r
    BY <1>4, RuntimesAssumption DEF Compatible
  <1>7. DetachOn(HostCalled, r)
    BY <1>3, <1>6 DEF HostDetach
  <1>8. PICK below \in Seq(Frames) : below = HostCalled
    BY <1>4
  <1>9. Beside(r, below) /\ DetachOn(below, r)
    <2>1. \A f \in Elems(stack) : f.runtime # r => f \in Elems(below)
      BY <1>1, <1>3, <1>5, <1>8, TopFrame
    <2>. QED
      BY <1>4, <1>5, <1>7, <1>8, <2>1 DEF Beside
  <1>10. Whole(r)
    <2>1. ~Torn(r)
      BY <1>1, <1>4, TopFrame DEF Torn
    <2>2. gate[r] # "Destroyed"
      BY <1>1, <1>2, <1>3 DEF JInv, FrameIsExact
    <2>3. Over(r) \/ Whole(r)
      BY <2>1 DEF JInv, RuntimeIsExact
    <2>. QED
      BY <1>4, <2>2, <2>3 DEF Over, Completed, Abandoned
  <1>11. CASE policy[r] = "Unavailable"
    BY <1>1, <1>4, <1>6, <1>9, <1>10, <1>11, RefusedStep DEF DetachOn
  <1>12. CASE policy[r] # "Unavailable"
    <2>1. deferred' \in Seq(Owned) /\ Once(deferred') /\ Elems(deferred') = Elems(deferred) \ {r}
      BY <1>1, <1>4 DEF JInv, TypeOK, DeferredIsExact
    <2>2. ReleaseOn(below, r) /\ held' \in [Runtimes -> BOOLEAN] /\ held'[r] /\ \A q \in Runtimes : held'[q] = held[q]
      BY <1>1, <1>4, <1>9, <1>12 DEF DetachOn, JInv, TypeOK
    <2>. QED
      BY <1>1, <1>4, <1>6, <1>9, <1>10, <2>1, <2>2, ReleaseStep
  <1>. QED
    BY <1>11, <1>12
----------------------------------------------------------------------------
(* What a teardown writes in its frame. *)
LEMMA Counted ==
  ASSUME NEW f \in Frames, NEW settled \in 0 .. 2, NEW unresolved \in 0 .. 1
  PROVE  /\ [f EXCEPT !.settled = settled, !.unresolved = unresolved] \in Frames
         /\ [f EXCEPT !.at = "states", !.settled = settled] \in Frames
  <1>1. [f EXCEPT !.settled = settled] \in Frames /\ [f EXCEPT !.at = "states"] \in Frames
    BY DEF Frames
  <1>2. /\ [[f EXCEPT !.settled = settled] EXCEPT !.unresolved = unresolved] \in Frames
        /\ [[f EXCEPT !.at = "states"] EXCEPT !.settled = settled] \in Frames
    BY <1>1 DEF Frames
  <1>3. [[f EXCEPT !.settled = settled] EXCEPT !.unresolved = unresolved]
          = [f EXCEPT !.settled = settled, !.unresolved = unresolved]
    OBVIOUS
  <1>4. [[f EXCEPT !.at = "states"] EXCEPT !.settled = settled] = [f EXCEPT !.at = "states", !.settled = settled]
    OBVIOUS
  <1>. QED
    BY <1>2, <1>3, <1>4

(* abandon_engine_resources: of a dropped attachment, or of a detach without *)
(* context of one that was not promised its final entry.                   *)
LEMMA AbandonStep ==
  ASSUME JInv, NEW r \in Adopted, UserCode, Usable(r), gate[r] # "Destroyed", Abandon(r),
         UNCHANGED <<policy, context, active, deferred>>,
         held' \in [Runtimes -> BOOLEAN], \A q \in Runtimes \ {r} : held'[q] = held[q],
         policy[r] = "Guaranteed" => ~held'[r]
  PROVE  JInv'
  <1>0. TypeOK /\ r \in Runtimes /\ r # NoRuntime
    BY RuntimesAssumption DEF JInv, Runtimes
  <1>1. /\ held[r] /\ r \notin Elems(deferred) /\ active # r /\ Whole(r)
        /\ \A f \in Elems(stack) : f.runtime # r
    BY <1>0, UsableIsOutside
  <1>. DEFINE refused == policy[r] = "Guaranteed"
  <1>2. /\ gate' = [gate EXCEPT ![r] = IF refused THEN "Draining" ELSE "Invalid"]
        /\ resources' = [resources EXCEPT ![r] = "unresolved"] /\ native' = [native EXCEPT ![r] = 0]
        /\ final_entry' = [final_entry EXCEPT ![r] = IF refused THEN @ ELSE "Unavailable"]
        /\ UNCHANGED <<report, accounted, policy, context, active, deferred>>
    BY DEF Abandon
  <1>3. [at |-> "states", runtime |-> r, previous |-> active, settled |-> 0, unresolved |-> 0] \in Frames
    BY <1>0 DEF Frames, TypeOK
  <1>4. PICK base \in Frames : base = Frame("states", r) /\ base.at = "states" /\ base.runtime = r
    BY <1>3 DEF Frame
  <1>5. PICK new \in Frames : /\ new.at = "states" /\ new.runtime = r /\ new.settled = 1 /\ new.unresolved = 1
                              /\ stack' = Append(stack, new)
    <2>1. Held(r) = 1 /\ native[r] = 1
      BY <1>1 DEF Whole, Held
    <2>2. stack' = Append(stack, [base EXCEPT !.settled = 1, !.unresolved = 1])
      BY <1>4, <2>1 DEF Abandon, Above
    <2>3. [base EXCEPT !.settled = 1, !.unresolved = 1] \in Frames
      <3>1. 1 \in 0 .. 2 /\ 1 \in 0 .. 1
        OBVIOUS
      <3>. QED
        BY <3>1, Counted, Zenon
    <2>4. /\ [base EXCEPT !.settled = 1, !.unresolved = 1].at = "states"
          /\ [base EXCEPT !.settled = 1, !.unresolved = 1].runtime = r
          /\ [base EXCEPT !.settled = 1, !.unresolved = 1].settled = 1
          /\ [base EXCEPT !.settled = 1, !.unresolved = 1].unresolved = 1
      BY <1>4 DEF Frames
    <2>. QED
      BY <2>2, <2>3, <2>4
  <1>6. \A f \in Elems(stack) : Beneath(f, new)
    BY <1>1, <1>5, HostsHaveCalled DEF Beneath
  <1>7. stack' \in Seq(Frames) /\ Elems(stack)' = Elems(stack) \cup {new} /\ Ordered(stack)'
    BY <1>5, <1>6, PushStack DEF JInv, TypeOK
  <1>8. TypeOK'
    BY <1>0, <1>2, <1>7 DEF TypeOK, Outcomes
  <1>9. \A q \in Runtimes \ {r} : Same(q)
    BY <1>0, <1>2 DEF Same, TypeOK
  <1>10. Retiring(r, new)'
    <2>1. /\ native'[r] = 0 /\ resources'[r] = "unresolved" /\ context'[r] = "live" /\ Unreported(r)'
          /\ final_entry'[r] = (IF refused THEN "None" ELSE "Unavailable")
          /\ gate'[r] = (IF refused THEN "Draining" ELSE "Invalid")
      BY <1>0, <1>1, <1>2 DEF TypeOK, Whole, Unreported
    <2>2. Abandoned(r)'
      BY <1>2, <2>1 DEF Abandoned
    <2>. QED
      BY <1>5, <2>1, <2>2 DEF Retiring
  <1>11. FrameIsExact(new)'
    BY <1>0, <1>5, <1>10 DEF FrameIsExact
  <1>12. RuntimeIsExact(r)'
    BY <1>5, <1>7 DEF RuntimeIsExact, Torn
  <1>13. DeferredIsExact'
    <2>1. \A q \in Elems(deferred) : q \in Runtimes /\ q # r
      BY <1>0, <1>1, DeferredAreRuntimes
    <2>. QED
      BY <1>2, <1>5, <1>7, <1>9, <2>1, DeferredStays DEF JInv
  <1>14. \A f \in Elems(stack)' : (f \in Elems(stack) /\ f.runtime # r) \/ FrameIsExact(f)'
    BY <1>1, <1>7, <1>11
  <1>. QED
    BY <1>0, <1>1, <1>2, <1>7, <1>8, <1>9, <1>12, <1>13, <1>14, TeardownStep

(* A value that is dropped after its teardown, or deferred by the entry of   *)
(* another runtime of its context group.                                   *)
LEMMA DropStep ==
  ASSUME JInv, NEW r \in Runtimes, Usable(r), held' = [held EXCEPT ![r] = FALSE],
         UNCHANGED <<policy, teardownVars, stack, context, active>>,
         \/ gate[r] = "Destroyed" /\ deferred' = deferred
         \/ r \in Owned /\ gate[r] # "Destroyed" /\ deferred' = Append(deferred, r)
  PROVE  JInv'
  <1>0. /\ TypeOK /\ r # NoRuntime
        /\ r \in Owned => r \notin Adopted
    BY RuntimesAssumption DEF JInv
  <1>1. /\ r \notin Elems(deferred) /\ active # r /\ \A f \in Elems(stack) : f.runtime # r
        /\ IF gate[r] = "Destroyed" THEN Over(r) ELSE Whole(r)
    BY UsableIsOutside
  <1>2. /\ ~held'[r] /\ \A q \in Runtimes \ {r} : held'[q] = held[q]
        /\ UNCHANGED <<policy, gate, resources, native, final_entry, report, accounted, stack, context, active>>
    BY <1>0 DEF TypeOK, teardownVars
  <1>3. \A q \in Runtimes \ {r} : Same(q)
    BY <1>2 DEF Same
  <1>4. deferred' \in Seq(Owned) /\ Once(deferred)'
        /\ Elems(deferred)' = IF gate[r] = "Destroyed" THEN Elems(deferred) ELSE Elems(deferred) \cup {r}
    <2>1. CASE gate[r] = "Destroyed" /\ deferred' = deferred
      BY <1>0, <2>1 DEF JInv, DeferredIsExact, TypeOK
    <2>2. CASE r \in Owned /\ gate[r] # "Destroyed" /\ deferred' = Append(deferred, r)
      <3>1. deferred \in Seq(Owned) /\ Once(deferred)
        BY DEF JInv, TypeOK, DeferredIsExact
      <3>. QED
        BY <1>1, <2>2, <3>1, PushElems
    <2>. QED
      BY <2>1, <2>2
  <1>5. TypeOK'
    BY <1>0, <1>2, <1>4 DEF TypeOK
  <1>6. RuntimeIsExact(r)'
    <2>1. CASE gate[r] = "Destroyed"
      <3>1. Over(r) /\ final_entry[r] # "None"
        BY <1>1, <2>1 DEF Over
      <3>2. (Completed(r)' <=> Completed(r)) /\ (Abandoned(r) => Abandoned(r)') /\ (r \in Adopted => (IsReported(r)' <=> IsReported(r)))
        BY <1>2, <3>1 DEF Completed, Abandoned, IsReported
      <3>3. Over(r)'
        BY <1>2, <3>1, <3>2 DEF Over
      <3>. QED
        BY <3>3 DEF RuntimeIsExact
    <2>2. CASE gate[r] # "Destroyed"
      <3>1. Whole(r)'
        BY <1>1, <1>2, <2>2 DEF Whole, Unreported
      <3>. QED
        BY <1>4, <2>2, <3>1 DEF RuntimeIsExact
    <2>. QED
      BY <2>1, <2>2
  <1>7. DeferredIsExact'
    <2>1. Elems(stack)' = Elems(stack)
      BY <1>2
    <2>2. ASSUME NEW q \in Elems(deferred)
          PROVE  ~held'[q] /\ gate'[q] # "Destroyed" /\ \A f \in Elems(stack)' : f.runtime # q
      <3>1. q \in Runtimes /\ q # r
        BY <1>0, <1>1, <2>2, DeferredAreRuntimes
      <3>. QED
        BY <1>2, <2>1, <2>2, <3>1 DEF JInv, DeferredIsExact
    <2>. QED
      BY <1>1, <1>2, <1>4, <2>1, <2>2 DEF DeferredIsExact
  <1>8. Ordered(stack)' /\ Elems(stack)' = Elems(stack)
    BY <1>2 DEF JInv
  <1>9. \A q \in Runtimes \ {r} : q \in Elems(deferred) => q \in Elems(deferred)'
    BY <1>4
  <1>. QED
    BY <1>1, <1>2, <1>3, <1>5, <1>6, <1>7, <1>8, <1>9, TeardownStep

(* What stands under the innermost frame of a teardown is no other frame of *)
(* its runtime but the host's, and the runtime is not entered.              *)
LEMMA TornAlone ==
  ASSUME JInv, stack # <<>>, Last(stack).at \in {"callbacks", "states"}, NEW r, r = Last(stack).runtime
  PROVE  /\ r \in Runtimes /\ active # r /\ r \notin Elems(deferred)
         /\ \A f \in Elems(Front(stack)) :
              /\ f \in Elems(stack)
              /\ f.runtime = r => f.at = "host" /\ FrameIsExact(f) /\ held[r]
         /\ \A f \in Elems(stack) : f.runtime # r => f \in Elems(Front(stack))
  <1>1. PICK t \in Frames : t = Last(stack) /\ t \in Elems(stack)
    BY TopFrame, FrameTypes
  <1>2. r \in Runtimes /\ r # NoRuntime
    BY <1>1, FrameTypes, RuntimesAssumption
  <1>3. \A f \in Elems(Front(stack)) :
          /\ f \in Elems(stack)
          /\ f.runtime = r => f.at = "host" /\ FrameIsExact(f)
    BY <1>1, <1>2, TopFrame DEF Beneath, JInv
  <1>4. \A f \in Elems(Front(stack)) : f.runtime = r => held[r]
    BY <1>3 DEF FrameIsExact
  <1>5. active # r
    <2>. SUFFICES ASSUME active = r PROVE FALSE
      OBVIOUS
    <2>1. PICK f \in Elems(stack) : f.at = "operation" /\ f.runtime = r
      BY <1>2 DEF JInv, FrameIsExact
    <2>2. f \in Elems(Front(stack))
      BY <2>1, TopFrame
    <2>. QED
      BY <1>3, <2>1, <2>2
  <1>6. r \notin Elems(deferred)
    BY <1>1 DEF JInv, DeferredIsExact
  <1>7. \A f \in Elems(stack) : f.runtime # r => f \in Elems(Front(stack))
    BY TopFrame
  <1>. QED
    BY <1>2, <1>3, <1>4, <1>5, <1>6, <1>7

(* The second half of a teardown in the engine. *)
LEMMA CallbacksStep ==
  ASSUME JInv, CallbacksEnd
  PROVE  JInv'
  <1>0. TypeOK /\ stack # <<>> /\ Last(stack).at = "callbacks"
    BY DEF JInv, CallbacksEnd, Top
  <1>1. PICK t \in Frames : t = Last(stack) /\ t \in Elems(stack)
    BY <1>0, TopFrame, FrameTypes
  <1>2. PICK r \in Runtimes : r = Last(stack).runtime
    BY <1>0, TornAlone
  <1>3. /\ active # r /\ r \notin Elems(deferred) /\ r # NoRuntime
        /\ \A f \in Elems(Front(stack)) : f \in Elems(stack) /\ (f.runtime = r => f.at = "host" /\ held[r])
        /\ \A f \in Elems(stack) : f.runtime # r => f \in Elems(Front(stack))
    BY <1>0, <1>2, TornAlone, RuntimesAssumption
  <1>4. /\ gate' = [gate EXCEPT ![r] = "Invalid"] /\ final_entry' = [final_entry EXCEPT ![r] = "Completed"]
        /\ context' = [context EXCEPT ![r] = IF r \in Owned THEN "released" ELSE @]
        /\ native' = [native EXCEPT ![r] = 0]
        /\ stack' = Append(Front(stack), [t EXCEPT !.at = "states", !.settled = @ + native[r]])
        /\ UNCHANGED <<held, policy, resources, report, accounted, active, deferred>>
    BY <1>1, <1>2 DEF CallbacksEnd, Above
  <1>5. Releasing(r, t)
    BY <1>0, <1>1, <1>2 DEF JInv, FrameIsExact
  <1>6. native[r] = 1 /\ t.settled = 1
    BY <1>5 DEF Releasing
  <1>7. [t EXCEPT !.at = "states", !.settled = 2] \in Frames
    <2>1. 2 \in 0 .. 2 /\ 0 \in 0 .. 1
      OBVIOUS
    <2>. QED
      BY <2>1, Counted, Zenon
  <1>8. PICK new \in Frames : new = [t EXCEPT !.at = "states", !.settled = 2]
    BY <1>7
  <1>9. /\ new.at = "states" /\ new.runtime = r /\ new.settled = 2 /\ new.unresolved = 0
        /\ stack' = Append(Front(stack), new)
    <2>1. t.runtime = r /\ t.unresolved = 0
      BY <1>1, <1>2, <1>5 DEF Releasing
    <2>2. new.at = "states" /\ new.runtime = t.runtime /\ new.settled = 2 /\ new.unresolved = t.unresolved
      BY <1>8 DEF Frames
    <2>3. t.settled + native[r] = 2
      BY <1>6
    <2>4. [t EXCEPT !.at = "states", !.settled = @ + native[r]] = new
      BY <1>8, <2>3
    <2>. QED
      BY <1>4, <2>1, <2>2, <2>4
  <1>10. \A f \in Elems(Front(stack)) : Beneath(f, new)
    BY <1>0, <1>1, <1>2, <1>3, <1>9, TopFrame DEF Beneath
  <1>11. stack' \in Seq(Frames) /\ Elems(stack)' = Elems(Front(stack)) \cup {new} /\ Ordered(stack)'
    BY <1>0, <1>9, <1>10, TopFrame, PushStack
  <1>12. TypeOK'
    BY <1>0, <1>4, <1>11 DEF TypeOK, Outcomes
  <1>13. \A q \in Runtimes \ {r} : Same(q)
    BY <1>0, <1>4 DEF Same, TypeOK
  <1>14. Retiring(r, new)'
    <2>1. /\ native'[r] = 0 /\ resources'[r] = "settled" /\ final_entry'[r] = "Completed" /\ Unreported(r)'
          /\ gate'[r] = "Invalid" /\ context'[r] = (IF r \in Owned THEN "released" ELSE "live")
      BY <1>0, <1>4, <1>5 DEF TypeOK, Releasing, Unreported
    <2>. QED
      BY <1>9, <2>1 DEF Retiring, Completed
  <1>15. FrameIsExact(new)'
    BY <1>3, <1>9, <1>14 DEF FrameIsExact
  <1>16. RuntimeIsExact(r)'
    BY <1>9, <1>11 DEF RuntimeIsExact, Torn
  <1>17. DeferredIsExact'
    <2>1. \A q \in Elems(deferred) : q \in Runtimes /\ q # r
      BY <1>0, <1>3, DeferredAreRuntimes
    <2>. QED
      BY <1>3, <1>4, <1>9, <1>11, <1>13, <2>1, DeferredStays DEF JInv
  <1>18. \A f \in Elems(stack)' : (f \in Elems(stack) /\ f.runtime # r) \/ FrameIsExact(f)'
    <2>1. \A f : f.at = "host" /\ f.runtime = r /\ held[r] => FrameIsExact(f)'
      BY <1>3, <1>4 DEF FrameIsExact
    <2>. QED
      BY <1>3, <1>11, <1>15, <2>1
  <1>19. \A f \in Elems(stack) : f.runtime # r => f \in Elems(stack)'
    BY <1>3, <1>11
  <1>. QED
    BY <1>3, <1>4, <1>11, <1>12, <1>13, <1>16, <1>17, <1>18, <1>19, TeardownStep

(* mark_destroyed, and the report of a detach. *)
LEMMA StatesStep ==
  ASSUME JInv, StatesEnd
  PROVE  JInv'
  <1>0. TypeOK /\ stack # <<>> /\ Last(stack).at = "states"
    BY DEF JInv, StatesEnd, Top
  <1>1. PICK t \in Frames : t = Last(stack) /\ t \in Elems(stack)
    BY <1>0, TopFrame, FrameTypes
  <1>2. PICK r \in Runtimes : r = Last(stack).runtime
    BY <1>0, TornAlone
  <1>3. /\ active # r /\ r \notin Elems(deferred) /\ r # NoRuntime
        /\ \A f \in Elems(Front(stack)) : f \in Elems(stack) /\ (f.runtime = r => f.at = "host" /\ held[r])
        /\ \A f \in Elems(stack) : f.runtime # r => f \in Elems(Front(stack))
    BY <1>0, <1>2, TornAlone, RuntimesAssumption
  <1>4. /\ gate' = [gate EXCEPT ![r] = IF @ = "Invalid" THEN "Destroyed" ELSE @]
        /\ IF r \in Adopted /\ held[r] THEN Reported(r, t.settled, t.unresolved)
           ELSE UNCHANGED <<report, accounted>>
        /\ stack' = Front(stack)
        /\ UNCHANGED <<held, policy, resources, native, final_entry, context, active, deferred>>
    BY <1>1, <1>2 DEF StatesEnd
  <1>5. Retiring(r, t)
    BY <1>0, <1>1, <1>2 DEF JInv, FrameIsExact
  <1>6. /\ native[r] = 0 /\ (r \in Adopted => report[r] = NoReport /\ accounted[r] = 0)
        /\ gate[r] = (IF final_entry[r] = "None" THEN "Draining" ELSE "Invalid")
        /\ \/ Completed(r) /\ t.settled = 2 /\ t.unresolved = 0
           \/ Abandoned(r) /\ t.settled = 1 /\ t.unresolved = 1
    BY <1>5 DEF Retiring, Unreported
  <1>7. stack' \in Seq(Frames) /\ Ordered(stack)' /\ Elems(stack)' = Elems(Front(stack))
    BY <1>0, <1>4, TopFrame
  <1>8. ASSUME r \in Adopted, held[r]
        PROVE  /\ final_entry[r] \in {"Completed", "Unavailable"}
               /\ report' = [report EXCEPT ![r] = [final_entry |-> final_entry[r], settled |-> t.settled, unresolved |-> t.unresolved]]
               /\ accounted' = [accounted EXCEPT ![r] = 2]
    <2>1. final_entry[r] \in {"Completed", "Unavailable"}
      BY <1>6, <1>8 DEF Completed, Abandoned
    <2>2. accounted[r] + t.settled + t.unresolved = 2
      BY <1>6, <1>8
    <2>. QED
      BY <1>4, <1>8, <2>1, <2>2 DEF Reported
  <1>9. TypeOK'
    <2>1. gate' \in [Runtimes -> {"Active", "Draining", "Invalid", "Destroyed"}]
      BY <1>0, <1>4 DEF TypeOK
    <2>2. /\ report' \in [Adopted -> [final_entry : Outcomes, settled : 0 .. 2, unresolved : 0 .. 1]]
          /\ accounted' \in [Adopted -> 0 .. 2]
      <3>1. CASE r \in Adopted /\ held[r]
        <4>1. [final_entry |-> final_entry[r], settled |-> t.settled, unresolved |-> t.unresolved]
                \in [final_entry : Outcomes, settled : 0 .. 2, unresolved : 0 .. 1]
          BY <1>1, <1>8, <3>1 DEF Frames, Outcomes
        <4>2. /\ report \in [Adopted -> [final_entry : Outcomes, settled : 0 .. 2, unresolved : 0 .. 1]]
              /\ accounted \in [Adopted -> 0 .. 2]
          BY <1>0 DEF TypeOK
        <4>3. report' \in [Adopted -> [final_entry : Outcomes, settled : 0 .. 2, unresolved : 0 .. 1]]
          BY <1>8, <3>1, <4>1, <4>2, Zenon
        <4>4. accounted' \in [Adopted -> 0 .. 2]
          BY <1>8, <3>1, <4>2
        <4>. QED
          BY <4>3, <4>4
      <3>2. CASE ~(r \in Adopted /\ held[r])
        BY <1>0, <1>4, <3>2 DEF TypeOK
      <3>. QED
        BY <3>1, <3>2
    <2>. QED
      BY <1>0, <1>4, <1>7, <2>1, <2>2 DEF TypeOK
  <1>10. \A q \in Runtimes \ {r} : Same(q)
    <2>1. \A q \in Adopted \ {r} : report'[q] = report[q] /\ accounted'[q] = accounted[q]
      BY <1>0, <1>4, <1>8 DEF TypeOK
    <2>. QED
      BY <1>0, <1>4, <2>1 DEF Same, TypeOK
  <1>11. Over(r)'
    <2>1. gate'[r] = (IF final_entry[r] = "None" THEN "Draining" ELSE "Destroyed")
      BY <1>0, <1>4, <1>6 DEF TypeOK
    <2>2. native'[r] = 0 /\ (Completed(r)' \/ Abandoned(r)')
      BY <1>4, <1>6 DEF Completed, Abandoned
    <2>3. ASSUME r \in Adopted
          PROVE  (report'[r] = NoReport /\ accounted'[r] = 0 /\ ~held'[r]) \/ IsReported(r)'
      <3>1. CASE ~held[r]
        BY <1>4, <1>6, <2>3, <3>1
      <3>2. CASE held[r]
        <4>1. /\ report'[r] = [final_entry |-> final_entry[r], settled |-> t.settled, unresolved |-> t.unresolved]
              /\ accounted'[r] = 2 /\ final_entry'[r] = final_entry[r] /\ final_entry[r] # "None"
          BY <1>0, <1>4, <1>8, <2>3, <3>2 DEF TypeOK
        <4>2. IF final_entry[r] = "Completed" THEN t.unresolved = 0 ELSE t.settled < 2
          BY <1>6 DEF Completed, Abandoned
        <4>. QED
          BY <4>1, <4>2 DEF IsReported
      <3>. QED
        BY <3>1, <3>2
    <2>. QED
      BY <1>4, <2>1, <2>2, <2>3 DEF Over
  <1>12. RuntimeIsExact(r)'
    BY <1>11 DEF RuntimeIsExact
  <1>13. DeferredIsExact'
    <2>1. \A q \in Elems(deferred) : q \in Runtimes /\ q # r
      BY <1>0, <1>3, DeferredAreRuntimes
    <2>. QED
      BY <1>3, <1>4, <1>7, <1>10, <2>1, DeferredStays DEF JInv
  <1>14. \A f \in Elems(stack)' : (f \in Elems(stack) /\ f.runtime # r) \/ FrameIsExact(f)'
    <2>1. \A f : f.at = "host" /\ f.runtime = r /\ held[r] => FrameIsExact(f)'
      BY <1>3, <1>4 DEF FrameIsExact
    <2>. QED
      BY <1>3, <1>7, <2>1
  <1>. QED
    BY <1>3, <1>4, <1>7, <1>9, <1>10, <1>12, <1>13, <1>14, TeardownStep

(* Attachment::empty_report *)
LEMMA DetachAgainStep ==
  ASSUME JInv, NEW r \in Adopted, DetachAgain(r)
  PROVE  JInv'
  <1>0. TypeOK /\ r \in Runtimes
    BY DEF JInv, Runtimes
  <1>1. /\ Usable(r) /\ gate[r] = "Destroyed" /\ Reported(r, 0, 0)
        /\ UNCHANGED <<held, policy, gate, resources, native, final_entry, context, active, deferred, stack>>
    BY DEF DetachAgain
  <1>2. /\ held[r] /\ r \notin Elems(deferred) /\ active # r /\ Over(r)
        /\ \A f \in Elems(stack) : f.runtime # r
    BY <1>0, <1>1, UsableIsOutside
  <1>3. final_entry[r] # "None" /\ accounted[r] = 2 /\ final_entry[r] \in Outcomes
    BY <1>0, <1>1, <1>2 DEF Over, IsReported, TypeOK
  <1>. DEFINE told == [final_entry |-> final_entry[r], settled |-> 0, unresolved |-> 0]
  <1>4. report' = [report EXCEPT ![r] = told] /\ accounted' = [accounted EXCEPT ![r] = 2]
    BY <1>1, <1>3 DEF Reported
  <1>5. told \in [final_entry : Outcomes, settled : 0 .. 2, unresolved : 0 .. 1]
    BY <1>3
  <1>6. TypeOK'
    BY <1>0, <1>1, <1>4, <1>5 DEF TypeOK
  <1>7. \A q \in Runtimes \ {r} : Same(q)
    BY <1>0, <1>1, <1>4 DEF TypeOK, Same
  <1>8. Over(r)'
    <2>1. report'[r] = told /\ accounted'[r] = 2
      BY <1>0, <1>4 DEF TypeOK
    <2>2. IsReported(r)'
      BY <1>1, <1>3, <2>1 DEF IsReported
    <2>3. (Completed(r)' <=> Completed(r)) /\ (Abandoned(r)' <=> Abandoned(r))
      BY <1>1 DEF Completed, Abandoned
    <2>. QED
      BY <1>1, <1>2, <2>2, <2>3 DEF Over
  <1>9. Elems(stack)' = Elems(stack) /\ Ordered(stack)' /\ RuntimeIsExact(r)'
    BY <1>1, <1>8 DEF JInv, RuntimeIsExact
  <1>10. DeferredIsExact'
    BY <1>0, <1>1, <1>2, <1>7, <1>9, DeferredAreRuntimes, DeferredStays DEF JInv
  <1>. QED
    BY <1>0, <1>1, <1>2, <1>6, <1>7, <1>9, <1>10, TeardownStep
----------------------------------------------------------------------------
(* A thread starts outside of every entry. *)
LEMMA InitTeardown == Init => JInv
  <1>. SUFFICES ASSUME Init PROVE JInv
    OBVIOUS
  <1>1. stack = <<>> /\ deferred = <<>> /\ Len(<<>>) = 0 /\ 1 .. 0 = {} /\ <<>> \in Seq(Frames) /\ <<>> \in Seq(Owned)
    BY EmptySeq DEF Init
  <1>2. Elems(stack) = {} /\ Elems(deferred) = {} /\ Ordered(stack) /\ Once(deferred)
    BY <1>1 DEF Elems, Ordered, Once
  <1>3. TypeOK
    BY <1>1 DEF Init, TypeOK, Outcomes, NoReport
  <1>4. \A r \in Runtimes : RuntimeIsExact(r)
    BY DEF Init, RuntimeIsExact, Whole, Unreported
  <1>. QED
    BY <1>2, <1>3, <1>4 DEF Init, JInv, DeferredIsExact

(* Every step keeps the entries and the teardowns apart and exact. *)
LEMMA NextTeardown == JInv /\ [Next]_vars => JInv'
  <1>. SUFFICES ASSUME JInv, [Next]_vars PROVE JInv'
    OBVIOUS
  <1>0. held \in [Runtimes -> BOOLEAN]
    BY DEF JInv, TypeOK
  <1>1. CASE Leave
    BY <1>1, LeaveStep
  <1>2. CASE DrainOne
    BY <1>2, DrainOneStep
  <1>3. CASE DrainEnds \/ HostEnds
    <2>1. /\ stack # <<>> /\ Last(stack).at \in {"drain", "host"} /\ stack' = Front(stack)
          /\ UNCHANGED <<held, policy, teardownVars, context, deferred, active>>
      BY <1>3 DEF DrainEnds, HostEnds, Top
    <2>. QED
      BY <2>1, PopStep
  <1>4. CASE CallbacksEnd
    BY <1>4, CallbacksStep
  <1>5. CASE StatesEnd
    BY <1>5, StatesStep
  <1>6. CASE HostBackend
    <2>1. stack # <<>> /\ Last(stack).at = "host_backend" /\ UNCHANGED <<held, policy, teardownVars, context, deferred>>
      BY <1>6 DEF HostBackend, Top
    <2>2. PICK r \in Runtimes : r = Last(stack).runtime
      BY <2>1, HostCalls
    <2>3. active = NoRuntime
      BY <2>1, <2>2, HostCalls
    <2>4. \/ stack' = HostCalled /\ active' = active
          \/ gate[r] = "Active" /\ active' = r /\ stack' = Append(HostCalled, Frame("operation", r))
      BY <1>6, <2>2 DEF HostBackend, Above
    <2>. QED
      BY <2>1, <2>2, <2>4, HostStep
  <1>7. CASE HostDetach
    BY <1>7, HostDetachStep
  <1>8. ASSUME NEW r \in Runtimes, EnterOwned(r) \/ EnterAttached(r) PROVE JInv'
    BY <1>8, EntryStep DEF EnterOwned, EnterAttached, Enter
  <1>9. ASSUME NEW r \in Runtimes, Invalidate(r) PROVE JInv'
    BY <1>0, <1>9, UsableRelease DEF Invalidate
  <1>10. ASSUME NEW r \in Runtimes, Drop(r) PROVE JInv'
    <2>1. /\ UserCode /\ r \in Owned /\ Usable(r) /\ held' = [held EXCEPT ![r] = FALSE]
          /\ UNCHANGED <<policy, context, active>>
      BY <1>10 DEF Drop
    <2>2. CASE gate[r] # "Destroyed" /\ (Compatible(r) \/ Independent(r)) /\ Release(r) /\ UNCHANGED deferred
      BY <1>0, <2>1, <2>2, UsableRelease
    <2>3. CASE gate[r] = "Destroyed" /\ UNCHANGED <<teardownVars, stack, deferred>>
      BY <2>1, <2>3, DropStep
    <2>4. CASE gate[r] # "Destroyed" /\ deferred' = Append(deferred, r) /\ UNCHANGED <<teardownVars, stack>>
      BY <2>1, <2>4, DropStep
    <2>. QED
      BY <1>10, <2>2, <2>3, <2>4 DEF Drop
  <1>11. ASSUME NEW r \in Runtimes, DetachWith(r) PROVE JInv'
    BY <1>11, DetachWithStep DEF DetachWith
  <1>12. ASSUME NEW r \in Runtimes, DetachWithout(r) PROVE JInv'
    <2>1. /\ UserCode /\ r \in Adopted /\ Usable(r) /\ gate[r] # "Destroyed"
          /\ UNCHANGED <<held, policy, context, active, deferred>>
      BY <1>12 DEF DetachWithout
    <2>2. CASE policy[r] = "Guaranteed" /\ RefusedOn(stack, r)
      <3>1. PICK below \in Seq(Frames) : below = stack
        BY DEF JInv, TypeOK
      <3>2. /\ held[r] /\ r \notin Elems(deferred) /\ active # r /\ Whole(r)
            /\ \A f \in Elems(stack) : f.runtime # r
        BY <2>1, UsableIsOutside
      <3>3. RefusedOn(below, r) /\ Beside(r, below)
        BY <2>1, <2>2, <3>1, <3>2, HostsHaveCalled, StackIsBeside
      <3>. QED
        BY <2>1, <3>2, <3>3, RefusedStep
    <2>3. CASE policy[r] # "Guaranteed" /\ Abandon(r)
      BY <1>0, <2>1, <2>3, AbandonStep
    <2>. QED
      BY <1>12, <2>2, <2>3 DEF DetachWithout
  <1>13. ASSUME NEW r \in Runtimes, DropAttachment(r) PROVE JInv'
    <2>1. /\ UserCode /\ r \in Adopted /\ Usable(r) /\ held' = [held EXCEPT ![r] = FALSE]
          /\ UNCHANGED <<policy, context, active, deferred>>
      BY <1>13 DEF DropAttachment
    <2>2. CASE gate[r] = "Destroyed" /\ UNCHANGED <<teardownVars, stack>>
      BY <2>1, <2>2, DropStep
    <2>3. CASE gate[r] # "Destroyed" /\ Abandon(r)
      BY <1>0, <2>1, <2>3, AbandonStep
    <2>. QED
      BY <1>13, <2>2, <2>3 DEF DropAttachment
  <1>14. ASSUME NEW r \in Runtimes, DetachAgain(r) PROVE JInv'
    BY <1>14, DetachAgainStep DEF DetachAgain
  <1>15. ASSUME NEW r \in Runtimes, NEW purpose \in {"host_backend", "host_detach"}, HostEnter(r, purpose) PROVE JInv'
    <2>1. /\ UserCode /\ Usable(r) /\ Compatible(r) /\ Push(purpose, r)
          /\ purpose = "host_detach" => gate[r] # "Destroyed"
          /\ UNCHANGED <<held, policy, teardownVars, context, active, deferred>>
      BY <1>15 DEF HostEnter
    <2>2. purpose # "operation" /\ purpose \in {"operation", "host_backend", "host_detach"}
      OBVIOUS
    <2>. QED
      BY <2>1, <2>2, EntryStep
  <1>16. CASE UNCHANGED vars
    <2>1. UNCHANGED <<held, policy, teardownVars, context, active, deferred, stack>>
      BY <1>16 DEF vars
    <2>2. stack' \in Seq(Frames) /\ Ordered(stack)' /\ Elems(stack)' = Elems(stack) /\ active' = active
          /\ active \in Runtimes \cup {NoRuntime}
      BY <2>1 DEF JInv, TypeOK
    <2>. QED
      BY <2>1, <2>2, StackStep DEF JInv
  <1>. QED
    BY <1>1, <1>2, <1>3, <1>4, <1>5, <1>6, <1>7, <1>8, <1>9, <1>10, <1>11, <1>12, <1>13, <1>14, <1>15, <1>16 DEF Next
----------------------------------------------------------------------------
(* A runtime is whole, in one of the two halves of its teardown, or torn     *)
(* down.                                                                   *)
LEMMA Phases ==
  ASSUME JInv, NEW r \in Runtimes
  PROVE  Whole(r) \/ Over(r) \/ \E f : Releasing(r, f) \/ Retiring(r, f)
  <1>1. ASSUME NEW f \in Elems(stack), f.runtime = r, f.at \in {"callbacks", "states"}
        PROVE  Releasing(r, f) \/ Retiring(r, f)
    BY <1>1 DEF JInv, FrameIsExact
  <1>. QED
    BY <1>1 DEF JInv, RuntimeIsExact, Torn

(* Entries, frames and runtimes are exact in every state that the thread    *)
(* reaches: the invariant from which the next theorems follow.              *)
THEOREM TeardownInvariant == Spec => []JInv
  <1>. QED
    BY InitTeardown, NextTeardown, PTL DEF Spec

(* What a destroyed gate and the reports of detaches say of the resources    *)
(* is true (experimental.rs:1593-1720, attachment.rs:331-367, 400-470), for *)
(* any number of runtimes, policies and context groups.                    *)
THEOREM TeardownStaysHonest == Spec => []DestroyedIsHonest
  <1>1. JInv => DestroyedIsHonest
    <2>. SUFFICES ASSUME JInv PROVE DestroyedIsHonest
      OBVIOUS
    <2>1. ASSUME NEW r \in Runtimes
          PROVE  /\ gate[r] \in {"Invalid", "Destroyed"} /\ policy[r] = "Guaranteed"
                      => resources[r] = "settled"
                 /\ gate[r] = "Destroyed" => resources[r] # "held" /\ native[r] = 0
                 /\ gate[r] = "Destroyed" => (context[r] = "released" <=> r \in Owned)
                 /\ context[r] = "released" => resources[r] = "settled" /\ gate[r] \in {"Invalid", "Destroyed"}
      <3>0. r \in Owned => r \notin Adopted
        BY RuntimesAssumption
      <3>1. CASE Whole(r)
        BY <3>1 DEF Whole
      <3>2. CASE Over(r)
        BY <3>0, <3>2 DEF Over, Completed, Abandoned
      <3>3. ASSUME NEW f, Releasing(r, f)
            PROVE  gate[r] = "Draining" /\ context[r] = "live"
        BY <3>3 DEF Releasing
      <3>4. ASSUME NEW f, Retiring(r, f)
            PROVE  /\ gate[r] \in {"Draining", "Invalid"}
                   /\ gate[r] = "Invalid" /\ policy[r] = "Guaranteed" => resources[r] = "settled"
                   /\ context[r] = "released" => resources[r] = "settled" /\ gate[r] = "Invalid"
        BY <3>4 DEF Retiring, Completed, Abandoned
      <3>. QED
        BY <3>1, <3>2, <3>3, <3>4, Phases
    <2>2. ASSUME NEW r \in Adopted
          PROVE  /\ accounted[r] = IF gate[r] = "Destroyed" /\ report[r].final_entry # "None" THEN 2 ELSE 0
                 /\ gate[r] = "Destroyed" /\ held[r] => report[r].final_entry # "None"
                 /\ report[r].final_entry = "Completed" => resources[r] = "settled" /\ report[r].unresolved = 0
                 /\ report[r].final_entry = "Unavailable" => resources[r] = "unresolved" /\ report[r].settled < 2
      <3>0. r \in Runtimes /\ NoReport.final_entry = "None"
        BY DEF Runtimes, NoReport
      <3>1. CASE Whole(r)
        BY <3>0, <3>1 DEF Whole, Unreported
      <3>2. CASE Over(r) /\ report[r] = NoReport /\ accounted[r] = 0 /\ ~held[r]
        BY <3>0, <3>2
      <3>3. CASE Over(r) /\ IsReported(r)
        BY <3>3 DEF Over, IsReported, Completed, Abandoned
      <3>4. ASSUME NEW f, Releasing(r, f) \/ Retiring(r, f)
            PROVE  report[r] = NoReport /\ accounted[r] = 0 /\ gate[r] # "Destroyed"
        BY <3>4 DEF Releasing, Retiring, Unreported
      <3>5. Over(r) => (report[r] = NoReport /\ accounted[r] = 0 /\ ~held[r]) \/ IsReported(r)
        BY DEF Over
      <3>. QED
        BY <3>0, <3>1, <3>2, <3>3, <3>4, <3>5, Phases
    <2>. QED
      BY <2>1, <2>2 DEF JInv, DestroyedIsHonest
  <1>. QED
    BY <1>1, TeardownInvariant, PTL

(* The entry on the stack is the only one, and inside any host that was      *)
(* asked for one.                                                          *)
LEMMA OneEntry == JInv => ActiveIsTheEntry
  <1>. SUFFICES ASSUME JInv PROVE ActiveIsTheEntry
    OBVIOUS
  <1>1. /\ Len(stack) \in Nat /\ DOMAIN stack = 1 .. Len(stack)
        /\ \A i \in DOMAIN stack : stack[i] \in Elems(stack) /\ FrameIsExact(stack[i])
        /\ \A i, j \in DOMAIN stack : i < j => Beneath(stack[i], stack[j])
    BY LenProperties DEF JInv, TypeOK, Elems, Ordered
  <1>2. \A i, j \in DOMAIN stack : i # j => i < j \/ j < i
    BY <1>1
  <1>3. ASSUME NEW i \in Operations, NEW j \in DOMAIN stack, i < j
        PROVE  stack[j].at \in {"callbacks", "states"}
    BY <1>1, <1>3 DEF Operations, Beneath
  <1>4. \A i, j \in Operations : i = j
    BY <1>2, <1>3 DEF Operations
  <1>5. \A i \in Operations : stack[i].runtime = active /\ gate[active] = "Active" /\ active # NoRuntime
    BY <1>1 DEF Operations, FrameIsExact
  <1>6. active # NoRuntime => Operations # {}
    <2>1. \A f \in Elems(stack) : \E i \in DOMAIN stack : f = stack[i]
      BY <1>1 DEF Elems
    <2>. QED
      BY <2>1 DEF JInv, Operations
  <1>7. ASSUME NEW i \in HostFrames, NEW j \in Operations
        PROVE  i < j
    BY <1>2, <1>3 DEF HostFrames, Operations
  <1>. QED
    BY <1>4, <1>5, <1>6, <1>7 DEF ActiveIsTheEntry

(* A step that reaches into the engine for the runtime. *)
Reached(r) == (resources'[r] = "settled" /\ resources[r] # "settled") \/ context'[r] # context[r]

(* Only the release of a runtime's resources settles them. *)
LEMMA ReleaseReaches ==
  ASSUME TypeOK, NEW r, NEW below, ReleaseOn(below, r) \/ RefusedOn(below, r), context' = context,
         NEW q \in Runtimes, Reached(q)
  PROVE  q = r
  BY DEF TypeOK, ReleaseOn, RefusedOn, Reached

(* An abandoned attachment's resources are left as they are. *)
LEMMA AbandonReachesNone ==
  ASSUME TypeOK, NEW r, Abandon(r), context' = context, NEW q \in Runtimes
  PROVE  ~Reached(q)
  <1>1. resources' = [resources EXCEPT ![r] = "unresolved"] /\ resources \in [Runtimes -> {"held", "settled", "unresolved"}]
    BY DEF TypeOK, Abandon
  <1>2. resources'[q] = resources[q] \/ resources'[q] = "unresolved"
    BY <1>1
  <1>. QED
    BY <1>2 DEF Reached

(* While a runtime's resources are settled and its context is released, no   *)
(* entry of its context group is on the stack.                             *)
LEMMA TeardownsAreApart ==
  ASSUME JInv, Next, NEW q \in Runtimes, Reached(q)
  PROVE  active = NoRuntime \/ Group[active] # Group[q]
  <1>0. TypeOK /\ ~UNCHANGED <<resources, context>>
    BY DEF JInv, Reached
  <1>1. ASSUME NEW r \in Runtimes, Usable(r), Compatible(r) \/ Independent(r)
        PROVE  active = NoRuntime \/ Group[active] # Group[r]
    BY <1>1, UsableIsOutside DEF Compatible, Independent
  <1>2. CASE DrainOne
    <2>1. stack # <<>> /\ Last(stack).at = "drain"
      BY <1>2 DEF DrainOne, Top
    <2>2. \A f \in Elems(stack) : f.at # "operation"
      BY <2>1, TopFrame DEF Beneath
    <2>. QED
      BY <2>2 DEF JInv
  <1>3. CASE CallbacksEnd
    <2>1. stack # <<>> /\ Last(stack).at = "callbacks"
      BY <1>3 DEF CallbacksEnd, Top
    <2>2. q = Last(stack).runtime
      BY <1>0, <1>3 DEF TypeOK, CallbacksEnd, Reached
    <2>3. ASSUME NEW f \in Elems(stack), f.at = "operation" PROVE Group[f.runtime] # Group[q]
      BY <2>1, <2>2, <2>3, TopFrame DEF Beneath
    <2>. QED
      BY <2>3 DEF JInv, FrameIsExact
  <1>4. CASE HostDetach
    <2>1. stack # <<>> /\ Last(stack).at = "host_detach"
      BY <1>4 DEF HostDetach, Top
    <2>. QED
      BY <2>1, HostCalls
  <1>5. ASSUME NEW r \in Runtimes, Invalidate(r) \/ Drop(r)
        PROVE  active = NoRuntime \/ Group[active] # Group[q]
    <2>1. Usable(r) /\ context' = context
      BY <1>5 DEF Invalidate, Drop
    <2>2. ReleaseOn(stack, r) /\ (Compatible(r) \/ Independent(r))
      BY <1>0, <1>5 DEF Invalidate, Drop, Release, teardownVars
    <2>3. q = r
      BY <1>0, <2>1, <2>2, ReleaseReaches
    <2>. QED
      BY <1>1, <2>1, <2>2, <2>3
  <1>6. ASSUME NEW r \in Runtimes, DetachWith(r)
        PROVE  active = NoRuntime \/ Group[active] # Group[q]
    <2>1. Usable(r) /\ Compatible(r) /\ context' = context /\ (ReleaseOn(stack, r) \/ RefusedOn(stack, r))
      BY <1>6 DEF DetachWith, DetachOn
    <2>2. q = r
      BY <1>0, <2>1, ReleaseReaches
    <2>. QED
      BY <1>1, <2>1, <2>2
  <1>7. ASSUME NEW r \in Runtimes, DetachWithout(r) \/ DropAttachment(r)
        PROVE  FALSE
    <2>1. Abandon(r) /\ context' = context
      BY <1>0, <1>7 DEF DetachWithout, DropAttachment, RefusedOn, teardownVars
    <2>. QED
      BY <1>0, <2>1, AbandonReachesNone
  <1>8. CASE Leave \/ DrainEnds \/ StatesEnd \/ HostBackend \/ HostEnds
    BY <1>0, <1>8 DEF Leave, DrainEnds, StatesEnd, HostBackend, HostEnds, teardownVars
  <1>9. ASSUME NEW r \in Runtimes, EnterOwned(r) \/ EnterAttached(r) \/ DetachAgain(r)
               \/ \E purpose \in {"host_backend", "host_detach"} : HostEnter(r, purpose)
        PROVE  FALSE
    BY <1>0, <1>9 DEF EnterOwned, EnterAttached, Enter, DetachAgain, HostEnter, teardownVars
  <1>. QED
    BY <1>2, <1>3, <1>4, <1>5, <1>6, <1>7, <1>8, <1>9 DEF Next

(* Entries stay apart (experimental.rs:803-893, 1853-1917): at most one is   *)
(* on the stack, no host is asked for its lock inside of it, and teardown   *)
(* never reaches the engine inside an entry of its own context group,      *)
(* whatever destructors and hosts call.                                    *)
THEOREM EntriesAreKeptApart == Spec => EntriesStayApart
  <1>1. JInv /\ [Next]_vars => [\A r \in Runtimes : (resources'[r] = "settled" /\ resources[r] # "settled") \/ context'[r] # context[r]
                                  => active = NoRuntime \/ Group[active] # Group[r]]_vars
    BY TeardownsAreApart DEF Reached
  <1>. QED
    BY <1>1, OneEntry, TeardownInvariant, PTL DEF Spec, EntriesStayApart
=============================================================================
