# RustJSI in TLA+

A verification project for RustJSI: TLA+ modules of the parts of the system that carry its own concurrency and
lifecycle logic, TLC instances that check them, and TLAPS proofs of the results that hold for every instance.
Paths below are relative to the repository; `experimental.rs` is `backend-jsc/src/experimental.rs`.

Run the tools in this directory: `tlc -config <run>.cfg <module>.tla` for a row of the table of runs, and
`tlapm <module>.tla` for a module of proofs.

## 1. The system

RustJSI lets Rust code own or borrow a JavaScript engine. A *logical runtime* outlives its engines: each engine is an
*attachment* with an epoch. Other threads schedule work for an attachment; the host is asked to run a *drain task* on
the engine's thread; the drain dispatches the work through a counted *entry*; teardown ends admission, then draining,
then entry, then the engine. The layers, from the bottom:

| Component | State it keeps | Operations | Who calls it |
|---|---|---|---|
| Ingress gate (`runtime/src/ingress.rs`) | one atomic word: phase bits and a count of permits | `reserve`, `begin_close`, `try_seal`, settle and drop of a permit | the closable mailbox, twice: producers, normal drains |
| Drain signal (`runtime/src/drain.rs`) | one atomic: idle, pending, draining, draining+pending, closed | `request`, `acquire`, `close`, `finish` and drop of a permit | both mailboxes |
| Bounded mailbox (`runtime/src/mailbox.rs`) | a bounded lock-free queue and a drain signal | `enqueue`, `acquire`, `pop`, `finish` and drop of a drain | applications without a close protocol |
| Closable mailbox (`runtime/src/closable_mailbox.rs`) | the same, two gates, a terminal state | `enqueue`, `enqueue_and_post`, `post_pending_with`, `acquire`, `pop`, `finish_with`, `begin_close`, `try_begin_terminal_drain`, terminal `pop`, `finish` and drop | `ScheduledWorkMailbox` |
| Entry gate (`host/src/entry.rs`) | thread-affine state, entry count, cleanup flag, final outcome | `try_enter`, `request_drain`, `try_begin_cleanup`, `complete`, `finish_drain`, `mark_destroyed`, guard drops | every JSC attachment (`Shared::gate`) |
| Attachment work (`host/src/work_owner.rs`, `drain_registration.rs`, `work_mailbox.rs`, `work.rs`) | registered attachment, its mailbox | senders, task resolution, dispatch, `post_pending`, `begin_close`, terminal drain, `replace` | the host, any thread through senders |
| Identity (`host/src/identity.rs`) | next epoch of a runtime; a process-wide id counter | `allocate`, `next_attachment` | attachments |
| JSC native state (`experimental/native_state.rs`) | generational registry, lock-free list of finalized tokens | install, rollback, finalize, take, close, reclaim, drain | the runtime's thread, JSC's finalizers on any thread |
| JSC persistent roots (`experimental.rs`, `common.rs`) | slots with generations, a queue of dropped leases threaded through them | `persist`, `resolve`, `release`, lease drop, maintenance, `drain` | application code on the runtime's thread, destructors |
| JSC entry and teardown (`experimental.rs`, `attachment.rs`) | the active runtime and context of a thread, deferred drops | `with_context`, `invalidate`, drop, the two detaches | application code and destructors, nested in each other |
| JSC external buffers (`external_buffer.rs`) | two quota counters, an observation per buffer | `reserve`, refund, the deallocator, reports | the runtime's thread, JSC on any thread |
| JSC local scopes and budgets (`local_budget.rs`, `local_roots.rs`, `scopes.rs`, `argument_roots.rs`) | a counter of admitted locals, the roots of each open scope | `with_scope`, evaluate, call, root, persist, release, scope drops | application code, callbacks |
| JSC host functions and calls (`experimental.rs`, `exception_message.rs`, `panic_boundary.rs`) | a registry keyed by the address of the function object | install, publish, roll back, the C callback, argument reads, detach | application code, JavaScript |
| JSC common backend and host adapter (`common.rs`, `host_adapter.rs`) | none of their own | the trait operations, entries through a foreign host | the host crate |
| Backend contract (`backend/src/lib.rs`) | none: promises of traits, and a capability word | negotiation | hosts and conformance tests |
| Test kit (`testkit/src`) | a deterministic backend, a queue oracle, a lifecycle oracle, a post queue | the operations of what each stands for | tests of hosts and backends |
| JSC bindings, reserved crates, benchmarks | none | | |

How they interact: a sender reserves the producer gate, pushes and requests a drain; the request's answer decides
whether the host's poster is called, still under the permit. The host's task resolves through the registration,
acquires a drain, and dispatches through the host contract, which enters a JSC attachment. JSC calls back into Rust
from its finalizers and deallocators on any thread, which only touch the finalizer list and the buffer ledger; the
next entry, or teardown, does the rest. Destructors of application state run in maintenance and teardown and may call
almost anything again, which is why teardown nests.

### What makes each part correct, and what is hard about it

`PROJECT.json` lists the hazards line by line. In short:

* **Ingress gate.** The count bits are exactly the live permits, also at the largest count a word holds; a begun close
  is never undone. Hard: phase and count change in one word under racing compare-exchanges.
* **Drain signal and mailboxes.** No retained payload without an obligation to drain it; one drain at a time; no lost
  wake-up when a request meets the end of a drain, a post fails, or a drain unwinds.
* **Closable mailbox.** Terminal ownership excludes every producer, drain and second owner although it is taken in five
  steps with no lock; nothing is posted to the host after that; a closed mailbox is empty; the close finishes.
* **Entry gate.** Engine access ends before the gate says so, whatever guards nest, are dropped out of order or are
  forgotten; the report about the final entry is true.
* **Attachment work.** Work runs only in the attachment it captured; late tasks and senders do no harm; a retired
  attachment is empty.
* **Native state.** No token is lost or handed over twice although addresses and slots are used again; each state is
  dropped exactly once on every path.
* **Persistent roots.** Each protection is balanced once; the queue inside the slots stays a list; stale handles do not
  alias.
* **Entry and teardown.** The active runtime is the one whose operation runs; teardown never enters the context group
  of a running entry; a deferred drop is done once.
* **External buffers.** Quotas are exact under overlapping deallocators; reports are consistent; a caller whose transfer
  fails is told truly whether the bytes are still its own.
* **Local scopes.** Scopes, arguments and results share one budget, and each gives back exactly what it took, whether it
  returns, fails half-way, throws or unwinds; a local stays alive as long as its scope.
* **Host functions.** A call reaches the callback it was installed for or none, although a function outlives its
  registration and its address is used again; each callback is dropped once.
* **Strings, values, errors.** Copies are exact or refused, cuts never split a character, no read coerces, and a
  redacted error discloses nothing.
* **Backend contract and test kit.** A handle is never issued twice; bytes are freed once, when nothing needs them. An
  oracle that is wrong would pass a wrong implementation, so the oracles are held to the same specifications as the code.

## 2. Plan

Order of work, the most important behaviour first: what crosses threads and decides who owns work; then the host
protocol built on it; then the JSC backend.

1. `IngressGate`, `DrainSignal` (operators), `ClosableMailbox` (composes both), `WorkCustody` (its abstract
   specification). *Done, with proofs.*
2. `BoundedMailbox`, `EntryGate` (proofs), `AttachmentWork`. *Done.*
3. `NativeState`, `RootRegistry`, `JscTeardown`, `ExternalLedger`. *Done.*
4. `LocalScopes`, and `HostFunctions` over it, with `JscStrings` and `JscValues` for what crosses the boundary. *Done.*
5. `BackendContract` and `ModelBackend`, which implements it; `WorkQueue`, which implements `WorkCustody`;
   `HostLifecycle` (the entry gate beside its oracle); `DrainPostQueue` (a user of `BoundedMailbox`). *Done.*
6. Proofs. Done: the gates, the closable mailbox and its refinement of `WorkCustody`, the bounded mailbox under its
   user, the entry gate and the host that drives it, attachment work, the root registry, the external-buffer ledger,
   native state, entry and teardown, local scopes and host functions, and the two oracles of the test kit (section 5).
   Left: `ModelBackend` (the steps of `BackendContract`).

Each module takes its sizes as CONSTANTS with named assumptions and has one action per operation or per atomic access.
No module declares a RECURSIVE operator. Definitions whose comment says *Mutant* are plausible bugs of the definition
that follows them. Nothing uses them in a specification; each is there to see that a property notices it.

## 3. The modules

### IngressGate, IngressGateSpec: `runtime/src/ingress.rs`

`IngressGate` has operators only: a gate is a record of the `word` and of the set of live `permits`, and each
operation maps a gate to a gate. The word is a number, `phase * (ReservationMask + 1) + count`, so that a count beyond
its bits would carry into the phase as it does in the code. A loop of `compare_exchange_weak` that
retries until its condition holds is one atomic step, as no attempt that fails changes the word. `IngressGateSpec` makes a state machine of it for any set of
permit holders; `ClosableMailboxProofs` proves its theorems and uses their lemmas for both gates of the mailbox. It has no run, since the mailbox runs use the same operators and reach the word's
limit.

### DrainSignal: `runtime/src/drain.rs`

One operator per operation on `state`, and the set `drains` of live permits. Instantiated by both mailboxes.

### ClosableMailbox, ClosableMailboxProofs, MCClosableMailbox, WorkCustody: `runtime/src/closable_mailbox.rs`, `host/src/post.rs`

**Each action is one atomic access of one shared object**: a queue operation, a gate or signal operation, a compare-exchange
of `terminal_state`, a call of the host's poster. `pc` holds the access a thread's call makes next. So `enqueue_and_post`
is `EnqueueReserve`, `EnqueuePush`, `EnqueueRequest`, `EnqueuePost`, `SettleProducer`, and
`try_begin_terminal_drain` is five actions which two close owners interleave. The `unreachable!` branches go to the
label `panic`. An unfinished drain that is dropped or unwinds is `DrainPreserve`, which looks at the queue, and
`DrainPreserveRequest`, which asks for a successor. The host
is a counter of accepted posts (up to `MaxPosts`, then refused) and `missed`, the history of a post that was due and
not accepted. Memory orderings are not modelled: accesses are sequentially consistent.

`WorkCustody` is what a mailbox promises of payloads: each is admitted, retained in a line, handed over once and in
order, and to a terminal owner only when no producer or normal drain is left. `ImplementsWorkCustody` says that the
mailbox, seen through `state()`, implements it (`line <- queue, phase <- State`).

### WorkQueue (proved about in ClosableMailboxProofs): `testkit/src/work_queue.rs`

The sequential oracle for such queues. Its tokens are plain copies, so every operation is tried with every token ever
issued. It implements the same `WorkCustody`.

### BoundedMailbox, DrainPostQueue, HostProofs: `runtime/src/mailbox.rs`, `testkit/src/drain_post_queue.rs`

The same granularity without the close. The mailbox posts nothing; `owed` counts the answers that tell a caller to
arrange a drain, less the drains acquired. `DrainPostQueue` is its user: what it retains are the attachments that asked
for a drain, several times each if they ask several times.

### EntryGate, HostLifecycle, HostProofs: `host/src/entry.rs`, `testkit/src/lifecycle.rs`, `testkit/src/model_host.rs`

The gate is `!Send`, so its operations do not overlap, and each is one action. What interleaves is the life of the
guards: `held`, `forgotten` (`mem::forget`), `cleaner`, `completions` are the guards that really exist; the gate sees
only its counters. The limit is checked at its boundary. `HostLifecycle` composes the gate with the pure oracle host tests
use: one action is one operation on both. The oracle names entries and keeps a trace, so that both must accept the same
steps and the trace must tell them.

### AttachmentWork, AttachmentWorkProofs: `host/src/work_owner.rs`, `drain_registration.rs`, `work_mailbox.rs`, `work.rs`, `identity.rs`

The owner's operations are atomic (they take `&mut self` on one thread), except that `begin_close` is two actions:
the registration closes, then the mailbox. Senders publish in two steps, admission and the rest. Drain tasks are delivered late, twice, out of order
and for foreign runtimes. The host drains and replaces the engine when it likes. Every attachment has a mailbox of its
own, of which this module uses what `ClosableMailbox` is shown to provide. A host that breaks its own contract
(`HostContractViolation`) is not modelled.

### NativeState, NativeStateProofs: `experimental/native_state.rs`

Finalizer threads take one action per access in `FinalizerQueue::push`; `take` and `close` are the atomic exchange that succeeds; the
runtime's thread reclaims a detached list one token at a time. Tokens are *addresses*: a freed one is used again, so
the ABA case of the list occurs. `place` says where each token is, and the queue itself is only `head` and the links.
A list is what its links spell (`Follows`): stale links may close a cycle
elsewhere, which no list then contains. Retiring the registry refills its free stack in a loop, which is a recursive function on numbers (`Refilled`). The
exchange may fail for no reason (`compare_exchange_weak`). JSC finalizes a wrapper at any time after its property
is published, also after teardown. An operation holds a lease on its state, so that a state the registry lets go is
dropped when the lease ends. TypeIds are left out.

### RootRegistry, RootRegistryProofs: `experimental.rs`, `common.rs`

Slots, free stack and the queue of dropped leases as in the code, with the saturating generation. `queued` is the
history of what was queued and not taken, which the links must spell. An entry drains the queue, runs, and drains
again unless it unwinds. Copies (`JscRoot`) may be released twice. Teardown here is the one with engine access; the
abandoning one, which unprotects nothing, is in `JscTeardown`.

### JscTeardown, JscTeardownProofs, MCJscTeardown: `experimental.rs`, `experimental/attachment.rs`

The stack of frames is the thread's call stack as far as RustJSI is concerned: an operation, the destructors of
callbacks, the destructors of states, the loop that drains deferred drops. User code runs on top of the first three
and may start anything on a runtime no frame borrows. `Group` gives the context group of a runtime, which decides what
`invalidate` may do inside an entry. The gate of each runtime keeps what an exclusive borrow leaves of `EntryGate`.
Roots and functions are one resource, `held`, `settled` or `unresolved`; what each detach reports about it, repeated
detaches included, is added up in `accounted`. Through the host adapter an entry asks a foreign host for the context
first (`host_backend`, `host_detach` frames): that happens only when no other runtime is entered.

### ExternalLedger, ExternalLedgerProofs: `experimental/external_buffer.rs`

One action per access of the two counters and of the observation. The runtime's thread reserves, refunds and reports;
each buffer's deallocator runs beside it and beside the others. A transfer may be refused, fail in the engine or fail
when what the engine made is inspected; `result` is what the caller was told. JSC owns a buffer from its successful
reservation and deallocates it in the end, also when making the object fails.

### LocalScopes: `local_budget.rs`, `local_roots.rs`, `scopes.rs`, `argument_roots.rs`, `common.rs`, `experimental.rs`

Rust and JavaScript share one stack, of which the top frame alone moves: scopes, an operation in the engine, the
preparation of a call's arguments one by one, and what `HostFunctions` puts on top. Every step pushes, pops or
rewrites that frame (`Under`, `Resumes`, `Becomes`), and the values a frame holds and the budget it has admitted are sums
over the stack (`Holding`, `Reserved`). Values live in *cells* of the engine's
heap. A cell nobody protects and JavaScript does not reach may be collected and used for something else, which is what
protections are for. Each failing path gives back what its `Drop` code gives back.

### HostFunctions, HostFunctionsProofs, MCHostFunctions, JscStrings, JscValues: `experimental.rs`, `exception_message.rs`, `common.rs`

`HostFunctions` adds installation, publication through a setter that may call the function and keep it, rollback, the C
callback with its admission limits, argument reads that convert and so run JavaScript, and two attachments one after the
other on the same context. The registry's key is a cell, so reuse of an address occurs.

`JscStrings` and `JscValues` are functions without state. A character is the number of its UTF-8 bytes, a string a
sequence of them, so cuts and limits are exact; copying, truncating, strict reads and the way of an error message
through the engine are checked against their reference over all strings of up to five characters.

### BackendContract, BackendManifest, ModelBackend, MCModelBackend: `backend/src/lib.rs`, `testkit/src/model.rs`, `conformance.rs`

`BackendContract` is the abstract specification: what the traits' implementation contracts promise about handles, roots,
and owners of bytes. `BackendManifest` has the negotiation, with capabilities as bits of a word. `ModelBackend` is the
deterministic backend, its operations written as functions of its state. So the conformance checks of the test
kit, sequences of operations, are tried in every reachable state rather than in a fresh backend. Scopes drop their values in any
order (the code iterates a hash set). `ImplementsContract` is the refinement.

## 4. The runs

State counts are those of TLC. All runs together take about eight minutes on two workers.

| Run | Module, cfg | Instance | Distinct states | Shows |
|---|---|---|---|---|
| `mailbox_safety` | MCClosableMailbox, ClosableMailbox_safety.cfg | 2 producers, 3 drain threads, 2 close owners, 3 payloads, capacity 2, gate limit 2, 1 post, symmetric | 123,310 | all safety properties and the refinement |
| `mailbox_liveness` | MCClosableMailbox, ClosableMailbox_liveness.cfg | 1 of each thread, 2 payloads, capacity 1 | 5,293 | work is handed over, a close completes |
| `drain_post_queue` | MCDrainPostQueue, DrainPostQueue.cfg | 2 posters, 2 drain threads, 2 posts for each of 2 attachments, capacity 2 | 9,949 | safety and delivery |
| `host_lifecycle` | HostLifecycle | limit 3, entry sequences up to 5 | 9,274 | guards, outcome, oracle and trace, completion |
| `attachment_work` | AttachmentWork | 2 payloads, capacity 1, 2 epochs, 1 post | 15,440 | replacement, and every work accounted for |
| `work_queue` | WorkQueue | 4 payloads, capacity 2, 3 tokens of each kind | 143,835 | the oracle implements `WorkCustody` |
| `native_state` | NativeState | 2 token addresses, 3 states, 2 finalizer threads, limit 2, generations up to 3 | 66,575 | list, registry, drops, and that they happen |
| `root_registry` | RootRegistry | 4 values, 3 slots, generations up to 3 | 152,709 | list, capacity, protections, handles, release |
| `jsc_teardown` | MCJscTeardown, JscTeardown.cfg | 2 runtimes and an attachment of one group, 1 runtime of another | 219,130 | entries, deferral, reports, destruction |
| `external_ledger` | ExternalLedger | 3 buffers of 0 to 2 bytes, 2 allocations, 3 bytes | 1,133,036 | counters, reports, answers |
| `host_functions` | MCHostFunctions, HostFunctions.cfg | 2 cells, 3 local roots, 2 registrations, 2 callbacks, 2 attachments, 5 frames, symmetric | 921,333 | budget, protections, registry, crossings |
| `model_backend` | MCModelBackend, ModelBackend.cfg | 2 owners, 2 value and 2 root slots, generations up to 3, symmetric | 233,804 | ownership, conformance, the contract |

The properties, by the module of the run. A type invariant is checked by itself where a proof starts from it
(`ClosableMailbox`); elsewhere it is the first conjunct of a property about the state it bounds.

| Module | Properties |
|---|---|
| ClosableMailbox | `TypeOK` (with both gate words exact), `NoUnreachable`, `TerminalIsExclusive`, `RetainedWorkIsCovered`, `NoPostAfterTerminalClaim`, `ImplementsWorkCustody`, `RetainedWorkIsHandedOver`, `ClosingCompletes` |
| BoundedMailbox, DrainPostQueue | `OneDrainIsOwed`, `EveryPostIsARecord`, `RetainedWorkIsDelivered` |
| EntryGate, HostLifecycle | `NoAccessAfterDrain`, `OutcomeIsHonest`, `OracleAgrees`, `DrainCompletes`; `TeardownIsOneWay` is proved |
| AttachmentWork | `RetiredIsSettled`, `RunsUnderItsAttachment`, `NothingRunsWhileClosing`, `AdmittedIsAccountedFor` |
| WorkQueue | `ImplementsWorkCustody` |
| NativeState | `QueueIsExact`, `RegistryIsExact` (with `HandlesNeverAlias`), `StatesDropOnce`, `FinalizedStatesDrop` |
| RootRegistry | `RegistryIsExact` (with `PendingListIsExact`, `CapacityIsExact`, `HandlesNeverAlias`), `ProtectionIsBalanced`, `DroppedLeaseIsReleased` |
| JscTeardown | `DestroyedIsHonest`, `EntriesStayApart` (with `ActiveIsTheEntry`), `DroppedIsDestroyed` |
| ExternalLedger | `LedgerIsExact`, `ReportIsPlausible`, `TransferIsHonest` |
| HostFunctions | `LocalsAreExact` (with `BudgetIsExact`, `HeldValuesLive` of LocalScopes), `CallsReachTheirCallback`, `CallbacksAreExact`, `CrossingsAreExact` (`ExactCopies`, `StrictReads`, `BoundedDisclosure`) |
| ModelBackend | `OwnershipIsExact`, `ConformanceHolds`, `ImplementsContract` |

**The bounds and why they are enough.**

* *Mailboxes*: two threads of each role give every pairwise race, including two close owners at different steps of the
  claim. A third drain thread over a gate of two reservations meets the word's limit. Three payloads over capacity 2
  fill the queue and leave one to be refused or to arrive late. One post makes
  the host refuse the second. A payload is offered once: the mailbox does not look at payloads, and the FIFO order of
  those it holds is part of the refinement. In `drain_post_queue` the same attachment posts twice, over a queue of two.
* *Lifecycle*: with limit 3 guards nest and drop out of order; the oracle's entry sequences end at 5, where a test stops entering.
* *Queue oracle*: four payloads over capacity 2 and three tokens of each kind, so that each token space runs out while
  stale tokens are around.
* *Attachment work*: with two epochs there is a current, a retired and a future attachment, and the identity runs out.
* *Native state*: the list can be taken, freed and rebuilt with the old head's address while the other finalizer
  stands between its load and its exchange. Three states over two addresses and two slots make slots be used again and be
  retired for good.
* *Roots*: four values over three slots use slots again while others are queued, up to the last generation.
* *Teardown*: a dropped runtime of the entered group, one outside it, and a third dropped by a destructor while the deferred
  ones are drained; the attachment takes each of the three policies.
* *Ledger*: either limit may be the one that refuses, while two deallocators and a report are under way.
* *Host functions*: two cells make a freed function's address be the next function's or a string's. Three local roots are
  fewer than a scope, the arguments of a call and its result can ask for, and five frames are a scope, a call, a
  callback, its argument's conversion and the callback nested in that. `MAX_SCOPE_DEPTH` is 1 here and is met. Two attachments
  give the function of a dead one to the next.
* *Strings*: messages of up to 8 bytes with a suffix of 3 and a prefix of 4, over characters of one to four bytes: each cut falls inside, before and
  after a character. The named assumptions are what the real sizes (4096, 15, 7) share with these.
* *Deterministic backend*: two slots with three generations, and an owner that is a local, rooted and viewed at once.

`CHECK_DEADLOCK FALSE` is used where the system may rightly stop: every payload is delivered, every runtime gone,
every buffer released.

**Fairness.** Runs without a liveness property assume none. The others (`mailbox_liveness`, `drain_post_queue`,
`host_lifecycle`, `attachment_work`, `native_state`, `root_registry`, `jsc_teardown`) assume:

* a call that has begun is run on (weak fairness per thread: no access blocks);
* of the host, what its contract asks: it runs drain tasks it accepted, and a caller that was told of a missed post
  retries until one is accepted (strong fairness, since a retry is disabled while another thread drains);
* drains pop until the queue is empty, as `dispatch_next` in a loop does, and close owners retry `try_begin_terminal_drain`, pop
  and finish, as `TerminalAcquireError` asks of them. Strong fairness, because other threads disable these steps and
  enable them again;
* of a host that drains its attachment: entries and cleanups end, or are forgotten, and a cleanup that unwound is tried
  again until one completes;
* in the JSC modules: operations and destructors return, a finalizer's exchange does not fail forever, and the runtime is entered again or torn
  down. Without the last, the code does not promise that a finalized state or a dropped lease is released, and
  its documentation says so too. For teardown, strong fairness of returning: a destructor may start other entries, any finite number of times.

## 5. The proofs

TLAPS proves the following for every value of the constants, from the named assumptions on constants only: numbers are
numbers (and capacities, word sizes and entry limits positive, generations at least two), absent values are no values,
distinguished values are distinct. One assumption says what a fold over a string gives, that a copied string has a length
(`FunctionsAssumption`): that is induction over data, and TLC evaluates it.

* **ClosableMailboxProofs**, the gate alone (`Alone`, an instance of `IngressGateSpec`): `GateStaysExact` and `GateCloseIsFinal`. The invariant is
  `Exact`: the word is its phase times the unit plus the number of permits, at most the mask, none if sealed. Each
  operation preserves it; the arithmetic and the cardinality of a set with one element more or less are lemmas of
  their own. `Exact` is inductive as it stands.
* **ClosableMailboxProofs**, from `InductiveInvariant`: `TypeCorrect`, `UnreachableIsUnreachable`,
  `RetainedWorkStaysCovered`, `TerminalExcludesOthers`, and the action property `NoPostAfterClaim`. None of the
  invariants is inductive alone: that no admitted producer meets a closed signal depends on the gate that was sealed
  two steps before. `IInv` adds, to types and the two invariants, which permits a thread holds at each access
  (`PermitsFollowCalls`: the permit sets are exactly the threads at certain labels), how far a close owner must have
  come for each label (`CloseFollowsCalls`), the order producers sealed, normal drains sealed, signal closed, terminal
  claimed (`CloseIsOrdered`), and one live drain, one owner (`OwnersAreUnique`). One lemma per action shows that it
  preserves `IInv`; sealing a gate with no permits then contradicts every thread at a label that holds one, which is
  the heart of the argument.
* **ClosableMailboxProofs**, the refinement: `MailboxImplementsCustody` shows that the mailbox implements `WorkCustody`
  (`ImplementsWorkCustody`), step by step. `CustodyInv` adds to `IInv` that a payload is submitted exactly while one
  thread is about to push it, and that the queue holds retained payloads, each once (`QueueIsRetained`). Most accesses move no payload and
  leave what `state()` reports alone, and are stutters (`QuietIsStutter`); push, the two pops, the returns of a full or
  a closed mailbox, and the accesses that move the reported state are one abstract step each.
* **ClosableMailboxProofs**, the oracle of the test kit: `OracleImplementsCustody` shows that `WorkQueue` implements
  `WorkCustody` too, with stale reservations and leases tried at every point, for any payloads, capacity and last sequence
  number. `OracleInv` shares `QueueIsRetained` with the mailbox and adds that each reservation carries a payload of its
  own, submitted exactly while the reservation is live (`ReservationsCarry`), and that live tokens belong to their phase.
* **HostProofs**, the queue of drain posts: `OneDrainStaysOwed` and `PostsStayRecords`. `QInv` adds that the live drains
  are the threads between acquiring and finishing. That a post is a record, in order, needs what `Append` and `Tail` do
  to the sequence of records, which are lemmas.
* **HostProofs**, the gate: `DrainEndsAccess`, `OutcomesAreHonest`, `TeardownStaysOneWay`. `GInv` adds to the checked
  invariants `OutcomeIsPending`, which ties the outcome to the states before `Invalid`. `HostKeepsTheGate` shows that a
  step of the host is a step of the gate, so that all of it holds of the host and its oracle.
* **HostProofs**, the oracle: `OracleStaysInStep`. `OInv` adds that the oracle's live entries are as many as the gate
  counts and were handed out before, and describes the trace by the milestones it has told (`Trace`, `Passed`): telling an
  event in its turn keeps it complete (`TraceGrows`), and each operation tells in its turn. What gate and oracle would
  admit is compared through the gate's guards, `MayEnter` and `MayFinish`.
* **AttachmentWorkProofs**: `RetiredStaysSettled`, `RunsStayWithTheirAttachment`, and the action property
  `ClosingStopsWork`, from `AttachmentInvariant`. `AInv` says that retained work is in the line of the attachment it
  captured, once; that only the current mailbox is in use; that an admitted sender holds off the terminal phase of its
  mailbox; and which phases the owner's progress allows. Replacement then finds nothing that could still
  reach the retired mailbox, which is what `RetiredIsSettled` needs and does not say.
* **RootRegistryProofs**: `RegistryStaysExact` and `ProtectionStaysBalanced`, from `RootInvariant`. `RInv` binds slots and
  handles to each other: an occupied slot is named by the handle of its value in its own generation, a handle is never
  ahead of its slot and level with it only while the slot holds its value, generations that saturate are never handed
  out, and only an occupied slot is queued. That neither stack nor queue holds a slot twice makes the lengths
  cardinalities, and bounds them. `drain`'s loop (`Refilled`) is a recursive function; that it exists and what it
  computes is shown by induction over the slots.
* **ExternalLedgerProofs**: `LedgerStaysExact`, `ReportsStayPlausible`, `TransfersStayHonest`, from `LedgerInvariant`. `LInv`
  gives every buffer its marks: at most one is being transferred, and what was answered, observed and stored follows
  from its stage. The allocations are the cardinality of the charged buffers and the bytes a sum over the unreleased
  ones; a report that has read no allocation knows there is no charged buffer, because only its own thread could charge
  one. The first half of the module shows what the sum of the community modules (`MapThenSumSet`) does when an element
  is added or removed: its table of partial sums exists, is unique, and may take its elements in any order.
* **NativeStateProofs**: `QueueStaysExact`, `RegistryStaysExact`, `StatesStayDroppedOnce`, from `NativeStateInvariant`. `NInv`
  is four parts. `QInv`: head and cursor each start a chain whose elements are the tokens placed there; a thread that
  is about to exchange is the only one that has its token in hand, so the link it wrote is still the head it expects. That
  is why an ABA of the head is harmless: whatever happened in between, the link is true when the exchange succeeds.
  `RInv`: slots, free stack and handles, as in `RootRegistry`, with the leased state beside them. `TInv`: each token in use names the registration of one state, and
  no other token names it. `EndInv`: what
  teardown has closed stays closed.
* **JscTeardownProofs**: `TeardownStaysHonest` and the action property `EntriesAreKeptApart`, from `TeardownInvariant`. `JInv` says of
  each runtime that it is whole, releasing (its callbacks are being dropped), retiring (its states are) or over, by the frame
  that tears it down; of each frame what it knows of its runtime; of each pair of frames which may stand below which
  (`Beneath`): an entry has only teardown above it, and never the engine's teardown of its own context group; of a
  deferred runtime that it is whole, unborrowed and deferred once. At most one entry on the stack is then a lemma
  (`OneEntry`), and that a step reaches the engine outside of it another (`TeardownsAreApart`).

* **HostFunctionsProofs**: `LocalsStayExact`, `CallsStayWithTheirCallback`, `CallbacksStayExact`, from
  `HostFunctionsInvariant`. `HInv` says which frame may stand below which (`Beneath`: callbacks and their reads over an
  operation in the engine, nothing over the preparation of a call, a scope outermost); what one frame may hold, call and
  still copy (`FrameIsExact`); that the budget and the protections of every cell are the cardinalities of what the frames
  hold, each hold tagged with its frame (`Sums`), so that pushing, popping and rewriting the top frame are disjoint
  unions; that registered callbacks are in their cells, once (`RegistryIsExact`); and that a handle names the callback
  it was given for (`HandlesAreExact`). Everything below the top frame stays, which one lemma for each way the stack
  changes says.

Each inductive invariant was checked by TLC on the instances above before it was proved. Inductions (over slots, over
finite sets) are by least counterexample, from the well-foundedness of `<` and of strict inclusion, since the provers
cannot instantiate the library's induction rules.

**Only model-checked**: everything about liveness and fairness, which is out of the prover's reach; `CrossingsAreExact`,
since what a fold over a string computes is induction over data; the refinement of `BackendContract` by `ModelBackend` and
its invariants, since negotiation uses bitwise operators, which the provers do not know.

## 6. What is not modelled

* JavaScriptCore: only what its callbacks (finalizers, deallocators, host function calls) and its protection counts do
  to RustJSI's state.
* Memory orderings weaker than sequential consistency, and the inside of `ArrayQueue` (one atomic FIFO).
* Process death, out-of-memory, panics while panicking: nothing is persisted, and the code aborts.
* Wording of messages, TypeIds of native states, conversions between error enums, and the setters and getters of report records: data
  without protocol. What an error may disclose and how messages are cut *is* modelled.
* `RuntimeIdentity::allocate`: one checked atomic increment.
* A host that breaks its own contract (`HostContractViolation`).
* `model_entry.rs` of the test kit (forwarding), the reserved crates (empty), benchmarks, bindings.

No disagreement between the code and its documentation was found by these runs.
