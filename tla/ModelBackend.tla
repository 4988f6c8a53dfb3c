---------------------------- MODULE ModelBackend ----------------------------
(***************************************************************************)
(* The deterministic backend of testkit/src/model.rs, which contract tests *)
(* run against instead of an engine: two generational slot maps, the local *)
(* values of the open scope, programmed outcomes of evaluations and calls, *)
(* injected faults, and reference-counted owners of external bytes.        *)
(*                                                                         *)
(* The operations are functions of the model's state `m', so that the      *)
(* conformance checks of testkit/src/conformance.rs can be written as what *)
(* they are, sequences of operations, and be tried in every state.         *)
(***************************************************************************)
EXTENDS SequencesExt, BackendManifest

CONSTANTS
  Primitives,            \* kinds of primitive values
  Owners, NoOwner,       \* boxes of bytes that may be transferred; each has one byte
  None,                  \* an empty slot
  MAX,                   \* u64::MAX, of a generation
  MaxSlots, MaxRoots,    \* bound: slots of the two maps
  MaxProgram,            \* bound: outcomes and faults that wait to be used
  MaxViews               \* bound: views of an owner that exist at a time

(* The kinds of values, those that no value of the model has included. *)
ValueKind == {"Undefined", "Null", "Boolean", "Number", "String", "Symbol", "BigInt", "Object", "Function", "Buffer"}

ASSUME MaxAssumption == MAX \in Nat /\ MAX > 1
ASSUME PrimitivesAssumption == Primitives \subseteq ValueKind

VARIABLES
  m,                     \* ModelState, the open scope's locals, fault and counters
  open,                  \* a ModelScope borrows the backend
  caller,                \* owners that no backend has accepted
  views, leaked          \* owner -> live ModelBufferViews, and forgotten ones

ValueIds == [slot : 1 .. MaxSlots, generation : 1 .. MAX]
RootIds  == [slot : 1 .. MaxRoots, generation : 1 .. MAX]
Faults   == {"Reject", "AcceptThenFail"}

vars == <<m, open, caller, views, leaked>>
----------------------------------------------------------------------------
NewMap == [slots |-> <<>>, free |-> <<>>]

InsertId(map) ==
  IF map.free # <<>> THEN [slot |-> Last(map.free), generation |-> map.slots[Last(map.free)].generation]
  ELSE [slot |-> Len(map.slots) + 1, generation |-> 1]

Insert(map, x) ==
  IF map.free # <<>>
  THEN [slots |-> [map.slots EXCEPT ![Last(map.free)].value = x], free |-> Front(map.free)]
  ELSE [map EXCEPT !.slots = Append(@, [generation |-> 1, value |-> x])]

Get(map, id) ==
  IF id.slot \in DOMAIN map.slots /\ map.slots[id.slot].generation = id.generation
  THEN map.slots[id.slot].value ELSE None

(* A slot whose generations are used up is not used again. *)
RemoveSlot(map, id) ==
  LET generation == IF id.generation < MAX THEN id.generation + 1 ELSE MAX
  IN  IF Get(map, id) = None THEN map
      ELSE [slots |-> [map.slots EXCEPT ![id.slot] = [generation |-> generation, value |-> None]],
            free  |-> IF generation # MAX THEN Append(map.free, id.slot) ELSE map.free]

Live(map) == {id \in [slot : DOMAIN map.slots, generation : 1 .. MAX] : Get(map, id) # None}

HasRoom(map, bound) == map.free # <<>> \/ Len(map.slots) < bound
----------------------------------------------------------------------------
Primitive(kind) == [kind |-> kind, owner |-> NoOwner]
Function        == [kind |-> "Function", owner |-> NoOwner]
External(o)     == [kind |-> "Buffer", owner |-> o]
Entries == {Primitive(k) : k \in Primitives} \cup {Function} \cup {External(o) : o \in Owners}

(* Evaluation and Invocation: a value, or an exception or a failure. *)
Raises == [kind |-> "Raises", owner |-> NoOwner]
Invocations == {Primitive(k) : k \in Primitives} \cup {Raises}
Evaluations == Invocations \cup {Function}

insert(s, entry) == [s EXCEPT !.values = Insert(@, entry), !.locals = @ \cup {InsertId(s.values)}]

(* ModelExternalOwner::accept, and the drop of a reference to it: the last  *)
(* one frees the bytes.                                                    *)
accept(s, o) == [s EXCEPT !.rc[o] = 1, !.accepted = @ + 1, !.live_bytes = @ + 1]

DropOwner(s, o) ==
  IF s.rc[o] > 1 THEN [s EXCEPT !.rc[o] = @ - 1]
  ELSE [s EXCEPT !.rc[o] = 0, !.finalized = @ + 1, !.live_bytes = @ - 1]

IsRooted(s, id) == \E i \in DOMAIN s.roots.slots : s.roots.slots[i].value = id

RemoveValue(s, id) ==
  LET entry == Get(s.values, id)
      t == [s EXCEPT !.values = RemoveSlot(@, id)]
  IN  IF entry # None /\ entry.owner # NoOwner THEN DropOwner(t, entry.owner) ELSE t

(* ModelScope::validate and require_kind: what a handle stands for, or why  *)
(* it is refused.  as_boolean, as_number and to_string convert nothing.     *)
validate(s, id) == IF Get(s.values, id) = None THEN "StaleHandle" ELSE Get(s.values, id).kind

require_kind(s, id, kind) == validate(s, id) = kind

read(s, id, kind) ==
  IF require_kind(s, id, kind) THEN Get(s.values, id) ELSE [expected |-> kind, actual |-> validate(s, id)]

persist(s, id) == [s EXCEPT !.roots = Insert(@, id)]

resolve(s, root) ==
  LET id == Get(s.roots, root)
  IN  IF id = None \/ Get(s.values, id) = None THEN s ELSE [s EXCEPT !.locals = @ \cup {id}]

(* Mutant: a released value is removed although another root has it. *)
ReleaseIgnoresRoots(s, root) ==
  LET id == Get(s.roots, root)
      t == [s EXCEPT !.roots = RemoveSlot(@, root)]
  IN  IF id = None \/ id \in s.locals THEN t ELSE RemoveValue(t, id)

(* Mutant: a released value is removed although the open scope has it. *)
ReleaseIgnoresLocals(s, root) ==
  LET id == Get(s.roots, root)
      t == [s EXCEPT !.roots = RemoveSlot(@, root)]
  IN  IF id = None \/ IsRooted(t, id) THEN t ELSE RemoveValue(t, id)

(* Mutant: a released value stays, to be removed by a scope that is over. *)
ReleaseKeepsValue(s, root) == [s EXCEPT !.roots = RemoveSlot(@, root)]

release(s, root) ==
  LET id == Get(s.roots, root)
      t == [s EXCEPT !.roots = RemoveSlot(@, root)]
  IN  IF id = None \/ id \in s.locals \/ IsRooted(t, id) THEN t ELSE RemoveValue(t, id)

externalize(s, o) ==
  LET t == [s EXCEPT !.fault = "None"]
  IN  CASE s.fault = "Reject"         -> t
        [] s.fault = "AcceptThenFail" -> DropOwner(accept(t, o), o)
        [] s.fault = "None"           -> insert(accept(t, o), External(o))

(* Rc::clone of the entry's owner. *)
buffer_bytes(s, id) == [s EXCEPT !.rc[Get(s.values, id).owner] = @ + 1]

(* ModelScope::drop visits a HashSet: the order of the removals is open. *)
Unrooted(s) == {id \in s.locals : ~IsRooted(s, id)}
DropScope(s, order) == FoldLeft(RemoveValue, [s EXCEPT !.locals = {}], order)
----------------------------------------------------------------------------
NewState ==
  [values |-> NewMap, roots |-> NewMap, locals |-> {}, evaluations |-> <<>>, invocations |-> <<>>]
NewStats == [rc |-> [o \in Owners |-> 0], accepted |-> 0, live_bytes |-> 0, finalized |-> 0]

Init ==
  /\ m = NewState @@ NewStats @@ [fault |-> "None"]
  /\ open = FALSE /\ caller = Owners
  /\ views = [o \in Owners |-> 0] /\ leaked = [o \in Owners |-> 0]

(* Between scopes a test programs what comes next. *)
Programmable ==
  /\ ~open
  /\ Len(m.evaluations) + Len(m.invocations) + (IF m.fault = "None" THEN 0 ELSE 1) < MaxProgram

PushEvaluation(e) ==
  /\ Programmable
  /\ m' = [m EXCEPT !.evaluations = Append(@, e)] /\ UNCHANGED <<open, caller, views, leaked>>

PushInvocation(i) ==
  /\ Programmable
  /\ m' = [m EXCEPT !.invocations = Append(@, i)] /\ UNCHANGED <<open, caller, views, leaked>>

FailNextExternal(fault) ==
  /\ Programmable
  /\ m' = [m EXCEPT !.fault = fault] /\ UNCHANGED <<open, caller, views, leaked>>

OpenScope == ~open /\ open' = TRUE /\ UNCHANGED <<m, caller, views, leaked>>

(* A view borrows its scope, so it is dropped or forgotten first. *)
CloseScope(order) ==
  /\ open /\ \A o \in Owners : views[o] = 0
  /\ open' = FALSE /\ m' = DropScope(m, order) /\ UNCHANGED <<caller, views, leaked>>

Scalar(kind) ==
  /\ open /\ HasRoom(m.values, MaxSlots)
  /\ m' = insert(m, Primitive(kind)) /\ UNCHANGED <<open, caller, views, leaked>>

(* A programmed outcome is used up whether it is a value or an error. *)
Returns(s, outcome) == IF outcome = Raises THEN s ELSE insert(s, outcome)

Evaluate ==
  /\ open /\ m.evaluations # <<>> /\ HasRoom(m.values, MaxSlots)
  /\ m' = Returns([m EXCEPT !.evaluations = Tail(@)], Head(m.evaluations))
  /\ UNCHANGED <<open, caller, views, leaked>>

(* The global object, or a value. *)
CallReceiver == m.locals \cup {None}

(* Function and receiver are checked before an outcome is used up. *)
Call(function, receiver) ==
  /\ open /\ function \in m.locals /\ require_kind(m, function, "Function")
  /\ receiver # None => validate(m, receiver) \in {"Object", "Function", "Buffer"}
  /\ m.invocations # <<>> /\ HasRoom(m.values, MaxSlots)
  /\ m' = Returns([m EXCEPT !.invocations = Tail(@)], Head(m.invocations))
  /\ UNCHANGED <<open, caller, views, leaked>>

Persist(id) ==
  /\ open /\ id \in m.locals /\ validate(m, id) # "StaleHandle" /\ HasRoom(m.roots, MaxRoots)
  /\ m' = persist(m, id) /\ UNCHANGED <<open, caller, views, leaked>>

(* Roots are plain copies, so any of them may come back at any time. *)
Resolve(root) ==
  /\ open /\ Get(m.roots, root) # None
  /\ m' = resolve(m, root) /\ UNCHANGED <<open, caller, views, leaked>>

Release(root) ==
  /\ open /\ Get(m.roots, root) # None
  /\ m' = release(m, root) /\ UNCHANGED <<open, caller, views, leaked>>

(* A rejected owner returns to the caller. *)
Externalize(o) ==
  /\ open /\ o \in caller /\ HasRoom(m.values, MaxSlots)
  /\ m' = externalize(m, o)
  /\ caller' = IF m.fault = "Reject" THEN caller ELSE caller \ {o}
  /\ UNCHANGED <<open, views, leaked>>

BufferBytes(id) ==
  /\ open /\ id \in m.locals /\ require_kind(m, id, "Buffer")
  /\ LET o == Get(m.values, id).owner
     IN  views[o] + leaked[o] < MaxViews /\ views' = [views EXCEPT ![o] = @ + 1]
  /\ m' = buffer_bytes(m, id) /\ UNCHANGED <<open, caller, leaked>>

DropView(o) ==
  /\ views[o] > 0
  /\ views' = [views EXCEPT ![o] = @ - 1]
  /\ m' = DropOwner(m, o) /\ UNCHANGED <<open, caller, leaked>>

(* mem::forget of a view keeps its reference for good. *)
LeakView(o) ==
  /\ views[o] > 0
  /\ views' = [views EXCEPT ![o] = @ - 1] /\ leaked' = [leaked EXCEPT ![o] = @ + 1]
  /\ UNCHANGED <<m, open, caller>>

Next ==
  \/ \E e \in Evaluations : PushEvaluation(e)
  \/ \E i \in Invocations : PushInvocation(i)
  \/ \E fault \in Faults : FailNextExternal(fault)
  \/ OpenScope
  \/ \E order \in SetToSeqs(Unrooted(m)) : CloseScope(order)
  \/ \E kind \in Primitives : Scalar(kind)
  \/ Evaluate
  \/ \E function \in m.locals, receiver \in CallReceiver : Call(function, receiver)
  \/ \E id \in m.locals : Persist(id) \/ BufferBytes(id)
  \/ \E root \in RootIds : Resolve(root) \/ Release(root)
  \/ \E o \in Owners : Externalize(o) \/ DropView(o) \/ LeakView(o)

Spec == Init /\ [][Next]_vars
----------------------------------------------------------------------------
(* A value exists exactly as long as it is a local of the open scope or has *)
(* a root (model.rs:314-324, 563-577): nothing is removed under a handle    *)
(* and nothing stays that no handle reaches.  Every accepted owner is freed *)
(* once, when its value and its views are gone, and external_buffer_stats   *)
(* reports it until then; a forgotten view keeps it for good.               *)
OwnershipIsExact ==
  /\ ~open => m.locals = {}
  /\ Live(m.values) = m.locals \cup {Get(m.roots, r) : r \in Live(m.roots)}
  /\ m.live_bytes = Cardinality({o \in Owners : m.rc[o] > 0})
  /\ m.accepted = m.live_bytes + m.finalized
  /\ m.accepted = Cardinality(Owners \ caller)
  /\ \A o \in Owners :
       m.rc[o] = views[o] + leaked[o] + Cardinality({id \in Live(m.values) : Get(m.values, id).owner = o})

(* verify_base_values (conformance.rs:15-70): a value of every primitive    *)
(* kind is read back as what it is and as nothing else, in one scope.       *)
PrimitiveKinds == {"Undefined", "Null", "Boolean", "Number", "String"}

BaseValues(s) ==
  \A first, second \in PrimitiveKinds :
    LET v == InsertId(s.values)
        t == insert(s, Primitive(first))
        w == InsertId(t.values)
        u == insert(t, Primitive(second))
    IN  /\ read(u, v, first) = Primitive(first) /\ read(u, w, second) = Primitive(second)
        /\ first # second => read(u, v, second) = [expected |-> second, actual |-> first]

(* verify_strong_root_round_trip (conformance.rs:78-136): a root crosses    *)
(* scopes, resolves to its value, and is stale once released.               *)
RoundTrip(s) ==
  LET v       == InsertId(s.values)
      r       == InsertId(s.roots)
      created == DropScope(persist(insert(s, Primitive("Number")), v), <<>>)
      found   == resolve(created, r)
      gone    == release(found, r)
  IN  /\ v \in found.locals /\ read(found, v, "Number") = Primitive("Number")
      /\ Get(gone.roots, r) = None /\ resolve(gone, r) = gone

(* verify_borrowed_buffer_stability_in_scope (conformance.rs:207-292): a    *)
(* view of a buffer still has its bytes after a second view, another        *)
(* transfer, and roots that came and went.                                 *)
Stable(s, o, p) ==
  LET v      == InsertId(s.values)
      viewed == buffer_bytes(externalize(s, o), v)
      n      == InsertId(viewed.values)
      worked == externalize(buffer_bytes(insert(viewed, Primitive("Number")), v), p)
      root   == InsertId(worked.roots)
      rooted == resolve(persist(worked, v), root)
      temporary == InsertId(rooted.roots)
      after  == release(release(persist(rooted, n), temporary), root)
  IN  /\ read(viewed, v, "Buffer") = External(o) /\ read(worked, n, "Number") = Primitive("Number")
      /\ read(rooted, v, "Buffer") = External(o)
      /\ after.rc[o] = 3 /\ read(after, v, "Buffer") = External(o)

(* verify_owned_external_buffer and verify_external_buffer_identity_in_scope *)
(* (conformance.rs:179-195, 312-325): the buffer of a transferred owner is   *)
(* classified as one, and a view of it has the bytes of that very owner.     *)
OwnedBuffer(s, o) == validate(externalize(s, o), InsertId(s.values)) = "Buffer"

SameAllocation(s, o) ==
  LET v      == InsertId(s.values)
      viewed == buffer_bytes(externalize(s, o), v)
  IN  /\ Get(viewed.values, v).owner = o /\ viewed.rc[o] = 2
      /\ DropScope(DropOwner(viewed, o), <<v>>).finalized = s.finalized + 1

(* BackendManifest::require (lib.rs:192-209) by sets instead of words: a     *)
(* caller is refused exactly for what the manifest does not have.            *)
NegotiationIsExact ==
  \A manifest \in {ModelManifest, JscManifest}, required \in SUBSET Capabilities, major \in 1 .. 3, minor \in 0 .. 1 :
    LET answer == require(manifest, ContractVersion(major, minor), FoldSet(LAMBDA c, set : with(set, c), empty, required))
    IN  IF major # 2 \/ minor # 0 THEN answer.refused = "ContractVersion"
        ELSE /\ iter(answer.missing) = required \ iter(manifest.capabilities)
             /\ answer.refused = "Ok" <=> answer.missing = empty

(* The conformance checks of every capability the manifest advertises        *)
(* succeed in every state a test may reach, not only on the new backend that *)
(* the tests run them on, and a caller that requires the capability is let   *)
(* through, which a new backend is asked.                                    *)
ConformanceHolds ==
  /\ m.values = NewMap => NegotiationIsExact
  /\ ~open => BaseValues(m)
  /\ ~open /\ contains(ModelManifest.capabilities, StrongRoots) => RoundTrip(m)
  /\ m.fault = "None" /\ contains(ModelManifest.capabilities, OwnedExternalBuffers) =>
       /\ \A o \in caller : OwnedBuffer(m, o)
       /\ contains(ModelManifest.capabilities, BorrowedBufferBytes) =>
            /\ ~open => \A o \in caller : SameAllocation(m, o)
            /\ \A o, p \in caller : o # p => Stable(m, o, p)

(* The model keeps the contract of the traits it stands in for.  A handle   *)
(* has been issued if its slot has gone past its generation or holds it.    *)
Issued(map) ==
  {id \in [slot : DOMAIN map.slots, generation : 1 .. MAX] :
     id.generation < map.slots[id.slot].generation \/ Get(map, id) # None}

Tagged(tag, ids) == {[tag |-> tag, id |-> id] : id \in ids}

Contract ==
  INSTANCE BackendContract WITH
    Values  <- Tagged("value", ValueIds), Roots <- Tagged("root", RootIds), Contents <- Entries,
    locals  <- Tagged("value", m.locals),
    roots   <- [r \in Tagged("root", Live(m.roots)) |-> [tag |-> "value", id |-> Get(m.roots, r.id)]],
    denotes <- [v \in Tagged("value", m.locals \cup {Get(m.roots, r) : r \in Live(m.roots)}) |-> Get(m.values, v.id)],
    issued  <- Tagged("value", Issued(m.values)) \cup Tagged("root", Issued(m.roots)),
    owner   <- [o \in Owners |-> IF o \in caller THEN "caller" ELSE IF m.rc[o] > 0 THEN "backend" ELSE "freed"],
    views   <- [o \in Owners |-> views[o] + leaked[o]]

ImplementsContract == Contract!Spec
=============================================================================
