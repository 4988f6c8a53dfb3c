--------------------------- MODULE HostFunctions ----------------------------
(***************************************************************************)
(* Rust callbacks as JavaScript functions (experimental.rs): registration, *)
(* the C callback that finds a registration by the ADDRESS of the function *)
(* it is called for, what a callback may copy, and the two teardowns of an *)
(* attachment; composed with the scopes and calls of LocalScopes.          *)
(*                                                                         *)
(* A function outlives its registration, and so does a handle to it: a     *)
(* setter may keep the function of a registration that is rolled back, an  *)
(* attachment is replaced on the same context while JavaScript keeps its   *)
(* functions, and the cell of a collected function becomes another one.    *)
(***************************************************************************)
EXTENDS LocalScopes, JscValues

CONSTANTS
  registrations,         \* HostFunctionLimits::registrations
  inbound_arguments, inbound_bytes,   \* InboundCallbackLimits
  Strings,               \* strings that callbacks read
  Texts,                 \* strings whose copies are compared with the originals
  MaxInstalls,           \* bound: callbacks installed in all
  MaxEpoch,              \* bound: attachments of the context
  MaxDepth               \* bound: frames on the stack, of operations and callbacks

(* A copy of a string has a length. *)
ASSUME FunctionsAssumption ==
  /\ registrations \in Nat /\ inbound_bytes \in Nat
  /\ MaxInstalls \in Nat /\ MaxEpoch \in Nat \ {0}
  /\ {Free, Plain} \cap 1 .. MaxInstalls = {}
  /\ \A s \in Strings, n \in 0 .. inbound_bytes :
       LET copy == copy_js_string_with_limit(s, n) IN copy # NoString => Bytes(copy) \in Nat

VARIABLES
  host_functions,        \* cell of a function -> the callback registered for it
  installs,              \* callbacks installed so far; they are 1 .. installs
  dropped,               \* how often each callback has been dropped
  handles,               \* HostFunction handles that were given out
  epoch, attached,       \* the attachment of the context
  leaked                 \* protections that no attachment will undo

functionVars == <<host_functions, installs, dropped, handles, epoch, attached, leaked>>
vars == <<engineVars, scopeVars, functionVars>>

Callbacks == 1 .. MaxInstalls

HostInit ==
  /\ Init
  /\ host_functions = <<>> /\ installs = 0 /\ dropped = [i \in Callbacks |-> 0]
  /\ handles = {} /\ epoch = 1 /\ attached = TRUE
  /\ leaked = [c \in Cells |-> 0]

Registered == DOMAIN host_functions
----------------------------------------------------------------------------
(* install_host_function: the function is made, registered under its       *)
(* address and protected; then the global property is set, which may run a *)
(* setter of JavaScript's.                                                 *)
Make(c) ==
  /\ On({"context"}) /\ heap[c] = Free
  /\ Cardinality(Registered) < registrations /\ installs < MaxInstalls
  /\ installs' = installs + 1
  /\ heap' = [heap EXCEPT ![c] = installs + 1]
  /\ host_functions' = [d \in Registered \cup {c} |-> IF d = c THEN installs' ELSE host_functions[d]]
  /\ Push([Frame("install") EXCEPT !.cell = c, !.id = installs + 1])
  /\ UNCHANGED <<reachable, kept, used, dropped, handles, epoch, attached, leaked>>

(* Mutant: the function is protected only once it is published. *)
InstallUnprotected(c) == Make(c) /\ UNCHANGED protect

Install(c) == Make(c) /\ protect' = [protect EXCEPT ![c] = @ + 1]

Installed ==
  /\ On({"install"}) /\ ~Last(stack).threw
  /\ stack' = Front(stack)
  /\ handles' = handles \cup {[epoch |-> epoch, key |-> Last(stack).cell, id |-> Last(stack).id]}
  /\ UNCHANGED <<engineVars, kept, used, host_functions, installs, dropped, epoch, attached, leaked>>

(* rollback_host_function, after the exception has been made a string, and  *)
(* drop_callback, which contains a panic of the callback's own Drop.        *)
Unregistered(c) ==
  /\ host_functions' = [d \in Registered \ {c} |-> host_functions[d]]
  /\ dropped' = [i \in Callbacks |-> dropped[i] + IF c \in Registered /\ i = host_functions[c] THEN 1 ELSE 0]

(* Mutant: a failed publication gives its protection back, not its slot. *)
RolledBackKeepsEntry ==
  /\ On({"install"}) /\ Last(stack).threw
  /\ protect' = [protect EXCEPT ![Last(stack).cell] = @ - 1]
  /\ stack' = Front(stack)
  /\ UNCHANGED <<heap, reachable, kept, used, host_functions, dropped, installs, handles, epoch, attached, leaked>>

RolledBack ==
  /\ On({"install"}) /\ Last(stack).threw
  /\ Unregistered(Last(stack).cell)
  /\ protect' = [protect EXCEPT ![Last(stack).cell] = @ - 1]
  /\ stack' = Front(stack)
  /\ UNCHANGED <<heap, reachable, kept, used, installs, handles, epoch, attached, leaked>>
----------------------------------------------------------------------------
(* host_function_callback: outside an entry, with too many arguments or for *)
(* a function without a registration it throws, and nothing else happens.   *)
Callback(c) ==
  [Frame("callback") EXCEPT !.cell = c, !.id = host_functions[c], !.left = inbound_bytes]

JsCall(c, count) ==
  /\ JavaScript /\ stack # <<>> /\ c \in reachable /\ Len(stack) < MaxDepth
  /\ count <= inbound_arguments /\ c \in Registered
  /\ Push(Callback(c)) /\ UNCHANGED <<engineVars, kept, used, functionVars>>

(* Context::call: a handle is refused if its attachment is not this one, or *)
(* if its key is not registered; the engine then calls the function.        *)
CallHandle(handle, arguments) ==
  /\ attached /\ handle.epoch = epoch /\ handle.key \in Registered
  /\ Call(handle.key, handle.id, arguments) /\ UNCHANGED functionVars

CallPrepared == [Last(stack) EXCEPT !.op = "call"]

Invoke ==
  /\ On({"prepare"}) /\ Last(stack).todo = <<>>
  /\ IF Last(stack).count <= inbound_arguments
       THEN stack' = Append(Append(Front(stack), CallPrepared), Callback(Last(stack).cell))
       ELSE Becomes([CallPrepared EXCEPT !.threw = TRUE])
  /\ UNCHANGED <<engineVars, kept, used, functionVars>>

(* A callback converts an argument to a string, which may run JavaScript;   *)
(* if that throws, or the string is too long, ReadEnds copies nothing.      *)
StartRead ==
  /\ On({"callback"})
  /\ Push(Frame("read")) /\ UNCHANGED <<engineVars, kept, used, functionVars>>

(* Call::string: what the callback may still copy shrinks by the copy. *)
Read(s) ==
  LET value == copy_js_string_with_limit(s, Under.left)
  IN  /\ On({"read"}) /\ Under.op = "callback" /\ value # NoString
      /\ Resumes([Under EXCEPT !.left = @ - Bytes(value), !.copied = @ + Bytes(value)])
      /\ UNCHANGED <<engineVars, kept, used, functionVars>>

(* A callback returns, or fails or panics, which write_exception turns into *)
(* an exception of JavaScript; the frames below are not unwound.            *)
CallbackReturns ==
  /\ On({"callback"})
  /\ stack' = Front(stack) /\ UNCHANGED <<engineVars, kept, used, functionVars>>
----------------------------------------------------------------------------
(* Both teardowns take the whole registry, then drop every callback; only   *)
(* release_engine_resources may unprotect.  A new attachment starts empty.  *)
Owned(c) == Cardinality({c} \cap Registered) + Cardinality({c} \cap kept)

Retired ==
  /\ stack = <<>> /\ attached
  /\ attached' = FALSE /\ kept' = {} /\ host_functions' = <<>>
  /\ dropped' = [i \in Callbacks |-> dropped[i] + IF i \in Range(host_functions) THEN 1 ELSE 0]
  /\ UNCHANGED <<heap, reachable, stack, used, installs, handles, epoch>>

DetachWith ==
  /\ Retired
  /\ protect' = [c \in Cells |-> protect[c] - Owned(c)] /\ UNCHANGED leaked

DetachWithout ==
  /\ Retired
  /\ leaked' = [c \in Cells |-> leaked[c] + Owned(c)] /\ UNCHANGED protect

Attach ==
  /\ ~attached /\ epoch < MaxEpoch
  /\ attached' = TRUE /\ epoch' = epoch + 1
  /\ UNCHANGED <<engineVars, scopeVars, host_functions, installs, dropped, handles, leaked>>

Next ==
  \/ LocalNext /\ UNCHANGED functionVars
  \/ \E op \in Scopes : attached /\ Enter(op) /\ UNCHANGED functionVars
  \/ \E c \in Cells : Install(c)
  \/ Installed \/ RolledBack
  \/ \E c \in Cells, count \in 0 .. inbound_arguments + 1 : JsCall(c, count)
  \/ \E handle \in handles, arguments \in Arguments : CallHandle(handle, arguments)
  \/ Invoke \/ StartRead \/ CallbackReturns
  \/ \E s \in Strings : Read(s)
  \/ DetachWith \/ DetachWithout \/ Attach

Spec == HostInit /\ [][Next]_vars
----------------------------------------------------------------------------
TypeOK ==
  /\ heap \in [Cells -> {Free, Plain} \cup Callbacks] /\ reachable \subseteq Cells
  /\ kept \subseteq Cells /\ Registered \subseteq Cells
  /\ installs \in 0 .. MaxInstalls /\ epoch \in 1 .. MaxEpoch /\ attached \in BOOLEAN

(* The protections of a cell are those of the open scopes, the arguments of *)
(* the call in preparation, the registrations, the persistent roots and     *)
(* what a teardown without a context left behind (experimental.rs:1029-1046, *)
(* 1676-1709), no more and no fewer, whatever failed on the way; the budget *)
(* counts what scopes and operations hold (local_budget.rs:22-57), through  *)
(* returns, exceptions, failed arguments and unwinding; and every value     *)
(* that is held is still in its cell (scopes.rs:55-72), whatever child      *)
(* scopes, nested calls and releases did meanwhile.                         *)
LocalsAreExact ==
  /\ TypeOK /\ BudgetIsExact /\ HeldValuesLive
  /\ \A c \in Cells :
       protect[c] = Owned(c) + leaked[c] + Cardinality(Holding(stack, c))

(* A callback that runs is the one whose function was called, and a handle  *)
(* reaches the callback it was given out for (experimental.rs:2012-2018,    *)
(* 1095-1106), however often addresses and attachments are used again.      *)
CallsReachTheirCallback ==
  \A i \in DOMAIN stack :
    /\ stack[i].op = "callback" => heap[stack[i].cell] = stack[i].id
    /\ stack[i].op \in {"prepare", "call"} /\ stack[i].id # 0
         => stack[i].cell \in Registered /\ host_functions[stack[i].cell] = stack[i].id

(* Every callback is dropped once, when its registration is gone and not    *)
(* while it runs (experimental.rs:1065-1073, 1586-1591); the registry never *)
(* holds more than its limit, and no callback copies more than its own,     *)
(* whatever its conversions and the callbacks nested in them copy in        *)
(* between (experimental.rs:1380-1394).                                     *)
CallbacksAreExact ==
  /\ Cardinality(Registered) <= registrations
  /\ \A i \in 1 .. installs : dropped[i] = IF i \in Range(host_functions) THEN 0 ELSE 1
  /\ \A i \in DOMAIN stack :
       stack[i].op = "callback" => dropped[stack[i].id] = 0 /\ stack[i].copied <= inbound_bytes

(* A string that Rust asks for arrives whole, and with a limit arrives      *)
(* exactly if it is within it (experimental.rs:2163-2229).  A diagnostic    *)
(* (exception_message.rs:10-69) is whole if it fits, and is otherwise cut   *)
(* between two characters with room for the suffix and for no other         *)
(* character, in both directions alike; on its way through JavaScript and   *)
(* back it stays bounded, and a redacted error (experimental.rs:1444)       *)
(* discloses nothing.  Reads convert nothing (common.rs:371-426).  The      *)
(* operators keep no state, so the initial state is enough to check them.   *)
CrossingsAreExact ==
  HostInit => ExactCopies(Texts) /\ StrictReads(Strings) /\ BoundedDisclosure(Texts)
=============================================================================
