---------------------------- MODULE LocalScopes -----------------------------
(***************************************************************************)
(* The local values of one entered JSC attachment: the budget they are     *)
(* admitted against (local_budget.rs), the scopes that protect them        *)
(* (scopes.rs, local_roots.rs, JscScope of common.rs), and the evaluations *)
(* and calls that make them (experimental.rs, common.rs).                  *)
(*                                                                         *)
(* Rust and JavaScript share one stack.  Scopes are at its bottom; above   *)
(* them are an operation inside the engine and, while JavaScript runs,     *)
(* what HostFunctions adds: callbacks into Rust and their conversions.     *)
(* The top frame alone moves.  A panic unwinds by the same Drop code as a  *)
(* return: a scope that Leave pops may be doing either.                    *)
(*                                                                         *)
(* The engine (external) keeps a value in a cell of its heap until nobody  *)
(* protects it and JavaScript no longer reaches it, and then may use the   *)
(* cell for something else.                                                *)
(***************************************************************************)
EXTENDS Naturals, SequencesExt

CONSTANTS
  Cells,                 \* places for values on the engine's heap
  Free,                  \* a cell that holds nothing
  Plain,                 \* a string or an object that is no host function
  Scalar,                \* a value that needs no cell; also an argument
  local_roots,           \* RootLimits::local_roots
  persistent_slots,      \* RootLimits::persistent_slots
  MAX_SCOPE_DEPTH,       \* 64 in the code
  call_arguments, call_bytes,   \* CallLimits
  Arguments              \* argument lists of Context::call that are tried

ASSUME ScopesAssumption ==
  /\ Free # Plain /\ Scalar \notin Cells
  /\ local_roots \in Nat
  /\ \A arguments \in Arguments : arguments \in Seq({Scalar} \cup Nat)

VARIABLES
  heap,                  \* what each cell holds
  reachable,             \* the functions JavaScript can still reach
  protect,               \* protections of each cell by this process
  kept,                  \* the cells of persistent roots (RootRegistry)
  stack,                 \* frames, the running one last
  used                   \* LocalBudget::used

engineVars == <<heap, reachable, protect>>
scopeVars == <<kept, stack, used>>

Scopes == {"context", "backend"}
Engine == {"prepare", "eval", "call", "install", "read"}

(* A frame.  op: a scope, an operation inside the engine, or a callback;    *)
(* roots: the cells it protects (LocalRoots, or ArgumentRoots of a call);   *)
(* held: its uncommitted reservations; todo: the arguments that are not yet *)
(* values, count: all of them; threw: an exception is being made a string;  *)
(* cell, id: the function it calls or publishes; left, copied: the string   *)
(* bytes it may still copy, and those it did.                              *)
Frame(op) ==
  [op |-> op, roots |-> <<>>, held |-> 0, todo |-> <<>>, count |-> 0,
   threw |-> FALSE, cell |-> Free, id |-> 0, left |-> 0, copied |-> 0]

(* Frames are pushed and popped at the top; the running one may change, or  *)
(* end, and then the one under it goes on.                                  *)
Push(frame)    == stack' = Append(stack, frame)
Becomes(frame) == stack' = Append(Front(stack), frame)
Under          == Last(Front(stack))
Resumes(frame) == stack' = Append(Front(Front(stack)), frame)

(* A reading of the top frame. *)
On(ops) == stack # <<>> /\ Last(stack).op \in ops

Init ==
  /\ heap = [c \in Cells |-> Free] /\ reachable = {}
  /\ protect = [c \in Cells |-> 0]
  /\ kept = {} /\ stack = <<>> /\ used = 0

(* JavaScript runs inside an operation, or for the host outside any entry. *)
JavaScript == stack = <<>> \/ On(Engine \ {"prepare"})

(* Where a cell occurs in a list of roots. *)
Where(cells, c) == {k \in DOMAIN cells : cells[k] = c}

Unprotected(cells) == [c \in Cells |-> protect[c] - Cardinality(Where(cells, c))]
----------------------------------------------------------------------------
(* with_context, with_backend and open_scope; the entry itself is in        *)
(* JscTeardown.  Only a Context has child scopes.                          *)
Enter(op) ==
  /\ stack = <<>>
  /\ Push(Frame(op)) /\ UNCHANGED <<engineVars, kept, used>>

WithScope ==
  /\ On({"context"}) /\ Len(stack) - 1 < MAX_SCOPE_DEPTH
  /\ Push(Frame("context")) /\ UNCHANGED <<engineVars, kept, used>>

(* Drop of a Context or a JscScope, on return and on unwinding. *)
Leave ==
  /\ On(Scopes)
  /\ protect' = Unprotected(Last(stack).roots)
  /\ used' = used - Len(Last(stack).roots)
  /\ stack' = Front(stack) /\ UNCHANGED <<heap, reachable, kept>>
----------------------------------------------------------------------------
(* LocalBudget::reserve_many; nothing is asked for no reservation. *)
Admits(count) == count = 0 \/ used + count <= local_roots

(* CallLimits::validate: which arguments are strings, or a refusal. *)
StringArguments(arguments) == {k \in DOMAIN arguments : arguments[k] # Scalar}
Validates(arguments) ==
  /\ Len(arguments) <= call_arguments
  /\ SumFunctionOnSet(arguments, StringArguments(arguments)) <= call_bytes

(* LocalBudget::reserve for the result, and JavaScript runs. *)
Run(op) ==
  /\ Admits(1) /\ used' = used + 1
  /\ Push([Frame(op) EXCEPT !.held = 1]) /\ UNCHANGED <<engineVars, kept>>

Eval      == On({"context"}) /\ Run("eval")   \* Context::eval
Evaluate  == On({"backend"}) /\ Run("eval")   \* JscScope::evaluate

(* JscScope::call: its function is no scalar, and that, the receiver and    *)
(* the arguments are values of the scope, which keeps them meanwhile.       *)
CallValue ==
  /\ On({"backend"}) /\ ToSet(Last(stack).roots) \cap Cells # {}
  /\ Run("call")

(* Context::call of the host function in cell c: validation, the result's   *)
(* reservation, then one for all string arguments together.                 *)
Call(c, id, arguments) ==
  LET held == 1 + Cardinality(StringArguments(arguments))
  IN  /\ On({"context"}) /\ Validates(arguments) /\ Admits(held)
      /\ used' = used + held
      /\ Push([Frame("prepare") EXCEPT !.held = held, !.todo = arguments,
                                       !.count = Len(arguments), !.cell = c, !.id = id])
      /\ UNCHANGED <<engineVars, kept>>

Finished(frames) == used' = used - Last(stack).held /\ stack' = frames

(* Mutant: an argument is protected when the call is made, not before. *)
PrepareUnprotected(c) ==
  /\ On({"prepare"}) /\ Last(stack).todo # <<>>
  /\ Head(Last(stack).todo) # Scalar /\ heap[c] = Free
  /\ heap' = [heap EXCEPT ![c] = Plain]
  /\ Becomes([Last(stack) EXCEPT !.todo = Tail(@), !.roots = Append(@, c)])
  /\ UNCHANGED <<reachable, protect, kept, used>>

(* prepare_argument: a string becomes a value that ArgumentRoot protects    *)
(* before the engine is asked for anything else.                            *)
ArgumentRoot(c) == protect' = [protect EXCEPT ![c] = @ + 1]

Prepare(c) ==
  /\ On({"prepare"}) /\ Last(stack).todo # <<>>
  /\ Head(Last(stack).todo) # Scalar /\ heap[c] = Free
  /\ heap' = [heap EXCEPT ![c] = Plain]
  /\ ArgumentRoot(c)
  /\ Becomes([Last(stack) EXCEPT !.todo = Tail(@), !.roots = Append(@, c)])
  /\ UNCHANGED <<reachable, kept, used>>

PrepareScalar ==
  /\ On({"prepare"}) /\ Last(stack).todo # <<>> /\ Head(Last(stack).todo) = Scalar
  /\ Becomes([Last(stack) EXCEPT !.todo = Tail(@)])
  /\ UNCHANGED <<engineVars, kept, used>>

(* The value of an argument could not be made: what was prepared is undone. *)
PrepareFails ==
  /\ On({"prepare"}) /\ Last(stack).todo # <<>>
  /\ protect' = Unprotected(Last(stack).roots)
  /\ Finished(Front(stack)) /\ UNCHANGED <<heap, reachable, kept>>
----------------------------------------------------------------------------
(* root_local and root_nonnull: the scope below takes the cell over with    *)
(* the result's reservation; those of the arguments go with their roots.    *)
Rooted(frame, cell) == [frame EXCEPT !.roots = Append(@, cell)]
Commit(cell) ==
  /\ Resumes(Rooted(Under, cell))
  /\ used' = used - Last(stack).held + 1

(* What a script or a function may return: a value of its own, or one it    *)
(* was given.                                                              *)
Given ==
  ToSet(IF On({"call"}) /\ Under.op = "backend" THEN Under.roots ELSE Last(stack).roots)
Returnable(c) == heap[c] = Free \/ c \in reachable \cup Given

(* local_or_exception: the result is protected before the arguments are let go. *)
Return(c) ==
  /\ On({"eval", "call"}) /\ ~Last(stack).threw /\ Returnable(c)
  /\ heap' = [heap EXCEPT ![c] = IF @ = Free THEN Plain ELSE @]
  /\ protect' = LET p == Unprotected(Last(stack).roots) IN [p EXCEPT ![c] = @ + 1]
  /\ Commit(c) /\ UNCHANGED <<reachable, kept>>

(* A scalar result needs no protection.  JscScope::evaluate roots it all    *)
(* the same, JscScope::call and a Context do not.                          *)
ReturnScalar ==
  /\ On({"eval", "call"}) /\ ~Last(stack).threw
  /\ protect' = Unprotected(Last(stack).roots)
  /\ IF Last(stack).op = "eval" /\ Under.op = "backend"
       THEN Commit(Scalar) ELSE Finished(Front(stack))
  /\ UNCHANGED <<heap, reachable, kept>>

(* exception_to_owned runs the exception's own conversion to a string, with *)
(* the reservations and the argument roots of the operation still held.     *)
Throw ==
  /\ On({"eval", "call", "install"}) /\ ~Last(stack).threw
  /\ Becomes([Last(stack) EXCEPT !.threw = TRUE])
  /\ UNCHANGED <<engineVars, kept, used>>

Thrown ==
  /\ On({"eval", "call"}) /\ Last(stack).threw
  /\ protect' = Unprotected(Last(stack).roots)
  /\ Finished(Front(stack)) /\ UNCHANGED <<heap, reachable, kept>>

(* root_local and root_nonnull where JavaScript does not run between the    *)
(* reservation and its commit.                                             *)
Root(c) ==
  /\ Admits(1) /\ used' = used + 1
  /\ protect' = [protect EXCEPT ![c] = @ + 1]
  /\ Becomes(Rooted(Last(stack), c))
  /\ UNCHANGED <<reachable, kept>>

(* JscScope::string, and the local value of JscScope::externalize, whose    *)
(* bytes are in ExternalLedger.                                            *)
MakeString(c)  == On({"backend"}) /\ heap[c] = Free /\ heap' = [heap EXCEPT ![c] = Plain] /\ Root(c)
Externalize(c) == On({"backend"}) /\ heap[c] = Free /\ heap' = [heap EXCEPT ![c] = Plain] /\ Root(c)

(* Context::string converts a value, which may run JavaScript. *)
ReadString ==
  /\ On({"context"})
  /\ Push(Frame("read")) /\ UNCHANGED <<engineVars, kept, used>>

(* The conversion is over, with a copy or with an exception. *)
ReadEnds ==
  /\ On({"read"})
  /\ stack' = Front(stack) /\ UNCHANGED <<engineVars, kept, used>>
----------------------------------------------------------------------------
(* persist, resolve and release of a persistent root, as RootRegistry has   *)
(* them: a root is a protection of its own, inside or outside a scope.      *)
InScope(c) == \E i \in DOMAIN stack : stack[i].op \in Scopes /\ c \in ToSet(stack[i].roots)

Persist(c) ==
  /\ On(Scopes) /\ InScope(c) /\ c \notin kept /\ Cardinality(kept) < persistent_slots
  /\ kept' = kept \cup {c} /\ protect' = [protect EXCEPT ![c] = @ + 1]
  /\ UNCHANGED <<heap, reachable, stack, used>>

Resolve(c)     == On({"context"}) /\ c \in kept /\ Root(c) /\ UNCHANGED heap
ResolveRoot(c) == On({"backend"}) /\ c \in kept /\ Root(c) /\ UNCHANGED heap

Release(c) ==
  /\ On(Scopes) /\ c \in kept
  /\ kept' = kept \ {c} /\ protect' = [protect EXCEPT ![c] = @ - 1]
  /\ UNCHANGED <<heap, reachable, stack, used>>
----------------------------------------------------------------------------
(* The engine and its JavaScript.  A plain value that JavaScript keeps is    *)
(* only safer, so it keeps functions alone: the one a setter is given.      *)
JsKeep(c) ==
  /\ On({"install"}) /\ c = Last(stack).cell /\ c \notin reachable
  /\ reachable' = reachable \cup {c} /\ UNCHANGED <<heap, protect, scopeVars>>

JsForget(c) ==
  /\ JavaScript /\ c \in reachable
  /\ reachable' = reachable \ {c} /\ UNCHANGED <<heap, protect, scopeVars>>

(* The collector also sees the functions and arguments of running calls. *)
Executing == {stack[i].cell : i \in {j \in DOMAIN stack : stack[j].op = "callback"}}

Collect(c) ==
  /\ heap[c] # Free /\ protect[c] = 0 /\ c \notin reachable \cup Executing
  /\ heap' = [heap EXCEPT ![c] = Free] /\ UNCHANGED <<reachable, protect, scopeVars>>

LocalNext ==
  \/ WithScope \/ Leave
  \/ Eval \/ Evaluate \/ CallValue \/ ReadString \/ ReadEnds
  \/ PrepareScalar \/ PrepareFails \/ ReturnScalar \/ Throw \/ Thrown
  \/ \E c \in Cells :
       \/ Prepare(c) \/ Return(c) \/ MakeString(c) \/ Externalize(c)
       \/ Persist(c) \/ Resolve(c) \/ ResolveRoot(c) \/ Release(c)
       \/ JsKeep(c) \/ JsForget(c) \/ Collect(c)
----------------------------------------------------------------------------
(* The elements of some sets, each told apart by the set it is from. *)
Together(sets) == UNION {{i} \X sets[i] : i \in DOMAIN sets}

(* The places on the stack that protect a cell. *)
Holding(q, c) == Together([i \in DOMAIN q |-> Where(q[i].roots, c)])

(* What each frame has admitted: its roots if it is a scope, what it still  *)
(* holds if it is an operation.                                            *)
Admitted(frame) == IF frame.op \in Scopes THEN Len(frame.roots) ELSE frame.held

(* The budget counts exactly the local values of the open scopes and the    *)
(* reservations of the running operation, so it is empty between entries,   *)
(* and never exceeds its limit.  Part of LocalsAreExact, as the next is.    *)
Reserved(q) == Together([i \in DOMAIN q |-> 1 .. Admitted(q[i])])

BudgetIsExact ==
  /\ used = Cardinality(Reserved(stack))
  /\ used <= local_roots

(* What a scope, a call in preparation or a persistent root holds is still  *)
(* in its cell.                                                             *)
HeldValuesLive ==
  \A c \in kept \cup UNION {ToSet(stack[i].roots) : i \in DOMAIN stack} :
    c = Scalar \/ heap[c] # Free
=============================================================================
