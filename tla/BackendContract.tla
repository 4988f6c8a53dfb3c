-------------------------- MODULE BackendContract ---------------------------
(***************************************************************************)
(* What a backend promises its callers, by the implementation contracts of *)
(* the traits in backend/src/lib.rs: BackendScope, RootScope,              *)
(* OwnedExternalBufferScope and BorrowedBufferScope.                       *)
(*                                                                         *)
(* A handle is never issued twice, so one that outlived its scope or its   *)
(* release is recognised; what a usable handle denotes does not change;    *)
(* and the bytes of an accepted owner are freed once, when neither a value *)
(* nor a view needs them, or any time later.                               *)
(***************************************************************************)
EXTENDS Naturals, FiniteSets

CONSTANTS Values, Roots, Owners, Contents, NoOwner

VARIABLES
  open,        \* a scope is open
  locals,      \* the values of that scope
  roots,       \* live root -> value
  denotes,     \* local or rooted value -> its content, with its owner if it has one
  issued,      \* values and roots that were ever handed out
  owner,       \* owner of bytes -> who is responsible for it
  views        \* owner -> borrowed views that still exist

vars == <<open, locals, roots, denotes, issued, owner, views>>

Init ==
  /\ open = FALSE /\ locals = {} /\ roots = <<>> /\ denotes = <<>> /\ issued = {}
  /\ owner = [o \in Owners |-> "caller"] /\ views = [o \in Owners |-> 0]

Usable == locals \cup {roots[r] : r \in DOMAIN roots}

(* Handles keep what they denote; those that are gone denote nothing. *)
Keeps == denotes' = [v \in Usable' |-> denotes[v]]

Needed(o) == views[o] > 0 \/ \E v \in Usable : denotes[v].owner = o

(* The backend may free an owner as soon as nothing needs it, or later. *)
Frees ==
  /\ \A o \in Owners : owner'[o] # owner[o] => owner[o] = "backend" /\ owner'[o] = "freed" /\ ~Needed(o)'
  /\ owner' \in [Owners -> {"caller", "backend", "freed"}]

OpenScope == ~open /\ open' = TRUE /\ UNCHANGED <<locals, roots, denotes, issued, owner, views>>

(* undefined, null, boolean, number, string, evaluate and call. *)
Creates(v, content) ==
  /\ open /\ v \notin issued
  /\ locals' = locals \cup {v} /\ issued' = issued \cup {v}
  /\ denotes' = [w \in Usable \cup {v} |-> IF w = v THEN content ELSE denotes[w]]
  /\ UNCHANGED <<open, roots, views>>

Create(v, content) == content.owner = NoOwner /\ Creates(v, content) /\ UNCHANGED owner

Persist(v, r) ==
  /\ open /\ v \in locals /\ r \notin issued
  /\ roots' = [s \in DOMAIN roots \cup {r} |-> IF s = r THEN v ELSE roots[s]]
  /\ issued' = issued \cup {r}
  /\ UNCHANGED <<open, locals, denotes, owner, views>>

Resolve(r) ==
  /\ open /\ r \in DOMAIN roots
  /\ locals' = locals \cup {roots[r]}
  /\ UNCHANGED <<open, roots, denotes, issued, owner, views>>

Release(r) ==
  /\ open /\ r \in DOMAIN roots
  /\ roots' = [s \in DOMAIN roots \ {r} |-> roots[s]]
  /\ Keeps /\ Frees /\ UNCHANGED <<open, locals, issued, views>>

(* The exact allocation becomes a buffer; or it is accepted and the         *)
(* operation fails after that, which makes the backend free it.  A          *)
(* rejection leaves it with the caller, and changes nothing.                *)
Externalize(v, content) ==
  /\ content.owner # NoOwner /\ owner[content.owner] = "caller"
  /\ Creates(v, content)
  /\ owner' = [owner EXCEPT ![content.owner] = "backend"]

AcceptedThenFailed(o) ==
  /\ open /\ owner[o] = "caller"
  /\ \E after \in {"backend", "freed"} : owner' = [owner EXCEPT ![o] = after]
  /\ UNCHANGED <<open, locals, roots, denotes, issued, views>>

BufferBytes(v) ==
  /\ open /\ v \in locals /\ denotes[v].owner # NoOwner
  /\ views' = [views EXCEPT ![denotes[v].owner] = @ + 1]
  /\ UNCHANGED <<open, locals, roots, denotes, issued, owner>>

DropView(o) ==
  /\ views[o] > 0
  /\ views' = [views EXCEPT ![o] = @ - 1]
  /\ Frees /\ UNCHANGED <<open, locals, roots, denotes, issued>>

CloseScope ==
  /\ open /\ open' = FALSE /\ locals' = {}
  /\ Keeps /\ Frees /\ UNCHANGED <<roots, issued, views>>

Finalize == Frees /\ UNCHANGED <<open, locals, roots, denotes, issued, views>>

Next ==
  \/ OpenScope \/ CloseScope \/ Finalize
  \/ \E v \in Values, content \in Contents : Create(v, content) \/ Externalize(v, content)
  \/ \E v \in Values, r \in Roots : Persist(v, r)
  \/ \E r \in Roots : Resolve(r) \/ Release(r)
  \/ \E v \in Values : BufferBytes(v)
  \/ \E o \in Owners : AcceptedThenFailed(o) \/ DropView(o)

Spec == Init /\ [][Next]_vars
=============================================================================
