# A verification of the Andrix owner runtime

TLA+ models of the parts of this repository that decide *when ordinary owner
work may run, and when it must be over*, the TLC runs that check them on small
instances, and TLAPS proofs for instances of any size. Every definition is
translated from the source; `PROJECT.json` maps each one to its lines.

## 1. The system and its parts

Andrix runs an owner's ordinary programs beside Android. A native daemon keeps
the owner's session; a work manager starts programs ("works"), each in its own
cgroup; permission to start one comes from system_server, which says whether
the user is running and unlocked. Nothing below trusts a path, a PID or a
message for permission: permission is one word of shared memory per work.

| part | source | state | operations |
|---|---|---|---|
| admission gate | `owner/native/work_admission.cpp` | one atomic word, epoch and window per work, in a sealed memfd | Stop, Bind, Prepared, Publish, ClaimEntry |
| admission authority | same | slots, epoch, deadline, `failed_`, under a mutex | Observe, Admit, Prepared, Release, Retire, Revoke |
| lifecycle lease | `owner/native/lifecycle_core.cpp` | registration, lease deadline, outstanding query | begin, begin_query, report, valid, ready_until, revoke |
| platform adapter | `owner/native/platform_lifecycle.cpp` | the two above, an observer thread, a Binder peer | start, observe, ready, failed, admit/prepare/release/retire_work, retain |
| launcher | `owner/native/work_launcher.cpp` | its own mapping of the gate | adopt, stage, wake, claim, exec |
| work registry | `owner/native/work_registry.cpp` | slots, records, request streams, tickets, creator budget | Reserve, Start, Observe, Reclaim, Forget, Close, ... |
| I/O store, catalog | `work_io.cpp`, `work_catalog.cpp` | standard-stream bindings, leases; works by name | Reserve, Capture, Lease, Forget, Collect |
| work runtime, manager | `work_runtime.cpp`, `work_manager.cpp` | supervisor and killer threads, connections | Submit, Poll, StopAll, supervise |
| supervision | `supervision/native/*`, `supervision/init/*` | one service instance: boundary, tickets, population, cleanup; restart slot | mutations, observation, cleanup, retire, restart |
| owner session | `andrixd.cpp`, `session_core.cpp`, `terminal_*` | attachment lease, output tail | attach, renew, detach, append, consume |
| terminal client | `owner/terminal` (Java) | attachment, input queue, acknowledged output | connect, resume, background |
| keep and lifecycle services | `owner/platform/java` | user state, retained work, notification | snapshot, keepWork |
| identity and principals | `owner/platform/framework` | journalled identity records, pins | allocate, persist, recover |
| deployment | `owner/deployment/java` | tickets, artifact and deployment records | build, sign, install, reconcile |

How they interact: the daemon's main loop polls the adapter; the observer
thread alone talks to system_server; the work runtime asks the adapter to
admit, prepare and release a work, and stops its gate on any failure; the
launcher, another process, claims entry through the shared word and never
speaks to the authority. Registry, catalog and I/O store are called by the
runtime from several threads. Supervision is driven by one event loop and by
workers whose answers come late.

What is hard here, and hard to test:

* lock-free words shared by processes: an instruction of one actor between any
  two of another (Bind and Publish are two exchanges around plain stores; Stop
  and ClaimEntry take no lock);
* permission that must end by itself: leases based on when a question was
  *asked*, answers that are late, observers that hang;
* "closed before it returns" promises about operations that are loops;
* tickets for work done elsewhere: late, duplicated, timed-out or foreign
  results, against a state that has moved on;
* bounded tables and counters whose exhaustion must fail closed;
* retries after a lost reply; restarts while something old is still owned;
* journals that must be recoverable at every step (identity, deployment).

`PROJECT.json` lists each hazard at its line, with the properties that cover it
or the module that will.

## 2. Modules

| module | models | proofs |
|---|---|---|
| `WorkAdmission` | gate word, authority and launcher, one step per atomic instruction | `WorkAdmissionInvariant`, `WorkAdmissionSteps`, `WorkAdmissionProofs` |
| `LifecycleGate` | the lease, as functions of its state and a clock sample | used below |
| `PlatformLifecycle` | observer thread, lease, authority, launcher and the platform's state together | `PlatformLifecycleProofs` |
| `Permission` | what all of them promise together: no locks, words, slots or queries | `PermissionProofs` |
| `InstanceState` | the supervision state of one service instance, one operator per member function | |
| `SupervisedService` | allocator, restart slot and instance, with the preparation, the cleanup worker process and the kernel around them | |
| `MCWorkAdmission`, `MCPlatformLifecycle`, `MCSupervisedService` | instances for TLC | |

### WorkAdmission

`word[g]` is the set of bits of `Shared::flags`; `epoch[g]` and `grant[g]` are
the plain fields behind it. `authority` is the record of `epoch_`, `deadline_`,
`observed_` and `failed_`; `admissions` the set of gates in slots. `op` is the
operation that holds `mutex_`: an authority call is a first step up to its
first write to a gate, then `BindCas`, `BindWrite`, `BindDone`, `PublishCas`,
`PublishWrite`, `PublishDone`, `PreparedCas`, or one `RevokeStop` per slot.
`Stop` is one step that any holder takes at any time. A launcher goes through
`Adopt`, `ClaimSample` (it reads the clock), `ClaimLoad`, `ClaimCheck` and
`ClaimCas`, each interleaved with everything else. `Fresh` is `Lapsed` (when it
revokes), `Seen` (what it records) and `Fresh` (what it returns).

In `Spec` the adapter is arbitrary: it calls in any order, with any evidence
and any ceiling. `PlatformLifecycle` takes `WorkAdmission`'s actions as they
are and only says when they are called and with what, so what holds under
`Spec` holds there too.

Atomics are sequentially consistent in the model. The code uses the default
order for exchanges and acquire loads; plain fields are only read after a load
that saw the bit published behind them, and `PublishedFrozen` is what makes
that reading safe.

### LifecycleGate and PlatformLifecycle

`LifecycleGate` has no variables: callers serialize its operations, so each is
an operator from a state and a clock sample to a state. `PlatformLifecycle`
keeps one such state in `lifecycle` and adds the observer thread as two
critical sections (`BeginQuery`, `Receive`) around an unlocked Binder call
(`Snapshot`), the failing and succeeding polls (`FailCall`, `Poll`), and the
work calls. The class's mutex is held across authority calls, so it is held
exactly when `op # Idle`; `Retire`, `Stop` and the launchers do not take it.
`platform` is `OwnerLifecycleState`: the generation under which its snapshot is
available, or none. `Withdraw` is a call that ends in `revoke()` or `fail()`,
`Grant` one after which user and CE storage are ready; `revoke()` moves to a new
generation, so an epoch that was withdrawn does not come back. A positive CE
report that carries a new revocation is a `Withdraw` and a `Grant`. `lostAt` is
history: when each epoch was withdrawn. An answer is what the platform says at
one moment of the call, or a failed transaction.

### Permission

The abstract specification. A gate has no window, then an open one, which one
launcher uses, and it can be closed at any time for good. A window opens in the
present, before any revocation, is at most a lease long and ends within a lease
of the loss of its epoch, and all windows of the process are under one epoch.
The refinement mapping in `PlatformLifecycle` (`Permits`, `Entries`) reads a
gate's state off its word: a window is visible from Released on, whatever was
written before; `revoked` is the authority's `failed_`. Most concrete steps
stutter. The ones that do not are the last exchange of Publish, the claim's
exchange, Stop or a revocation's stop of one gate, and the setting of `failed_`.

### InstanceState and SupervisedService

One event loop owns an `InstanceState`, so each member function is an operator
from the object `s` to the object after the call; empty optionals are tickets
of sequence 0, which is never issued. `SupervisedService` holds one in
`current`, with the serial of the allocator and the fault of the slot. The
rest of its variables are what drives it: init's `delegated_service.cpp`, its
cleanup worker process and the kernel.
`world` has the cgroup root, the members and the initial process of every
instance ever started. A creator (`Prepare`, the fork, `Assign`) works under a
mutation ticket and may make a root, members or a process until it ceases
(`FinishPreparation`), whether or not the instance was stopped meanwhile.
`readers` and `cleaners` are requests that a worker is at, under an observation
or a cleanup ticket; it may never answer, or die and be reaped (`Reaped`). What
a read may report is `Sighted` (`read_population`), and `Remove` is the last
rmdir of `ReclamationCursor::Step`. Every answer stays in
`sightings` or `outcomes` and can be delivered at any later time, again, or to
the next instance. That is wider than `Receive`, which takes a reply once and
checks its identity first; the tickets of `InstanceState` are made for it, and
it shows what they are worth alone. The adapter reports only what is true (an exit after the
exit, a reap after the reap, a worker's end after its end), in any order.

## 3. What the runs check

| run | instance | result |
|---|---|---|
| `admission_race` | 1 gate, 2 launchers, 2 epochs, 1 slot, lease 2, clock 0..2 | one entry at most, inside its window; stop and revocation are final; published fields never move |
| `admission_slots` | 2 gates, 1 launcher, 1 slot | capacity; only stopped gates leave a slot; revocation reaches every open gate |
| `platform_entry` | 1 gate, 1 launcher, lease 3, query limit 2, clock 0..3, 2 challenges | freshness, the two leases lost together and equal, query cap, one query; implements `Permission` |
| `platform_withdrawal` | 1 gate, 2 epochs, lease 2, query limit 1, fairness | withdrawal closes every gate eventually though the observer may hang; the process never moves to a second epoch |
| `supervised_reclaim` | 1 instance, 2 pending mutations, 4 sequences, 7 boundaries | nothing is removed or retired while anything of the instance lives; a step keeps its evidence; one worker at a time; exhaustion quarantines for good |
| `supervised_restart` | 2 instances, 1 pending mutation, 3 sequences, 6 boundaries | no instance beside the remains of another, whatever old replies arrive |

Bounds. `MaxTime` ends the clock, and so the leases that are explored run from
every tick to past every deadline: with lease 2 and clock 2 a window can be
open, expire while a launcher holds a sample, and be renewed. One gate suffices
where a property is about one gate and its racers; two gates against one slot
are needed for capacity and for a revocation that is under way. In
`platform_entry` the query limit is 2, so that an answer can arrive later than
it was asked and a lease dated from arrival would show. `MaxToken` 2 lets one
query follow another and then exhausts the challenges. Launchers and gates are
symmetric; the liveness run uses no symmetry. In the supervised runs the
shortest retirement takes 3 sequences (mutation, observation, cleanup step)
and 5 boundaries (mutation begun and ended, root, exit with stop, reap), so
both runs retire an instance; the fourth sequence of `supervised_reclaim` is a
second mutation, a repeated observation or a second step, and both counters
are also run to exhaustion.

Fairness is only assumed of the clock, of the polling main loop (`FailCall`
stays enabled once the lease is lost, and the daemon polls `failed()` on every
turn), and of the step that holds the mutex, which is a few memory operations.
Nothing is assumed of the observer thread, Binder, the platform or launchers.

Every property has a mutant: an operator named for the bug it introduces
(`RetireOpen`, `report_from_arrival`, ...) stands before the definition it
replaces, and TLC finds the property violated with it.

## 4. What is proved

All theorems hold for every set of gates, launchers and epochs, every capacity,
lease and clock bound, under the named assumptions of the modules: `NoEpoch`
and `NoGate` are not real values, gates are finitely many, the lease is
positive, the query limit is at most the lease (the code's `static_assert`) and
there is at least one token.

`WorkAdmissionInvariant`, `WorkAdmissionSteps` and `WorkAdmissionProofs`: `TypeOK`,
`RevocationClosesGates`, `EntryWithinGrant`, `SingleEntry`,
`GrantWithinAuthority` and `OpenGatesRegistered` as invariants, `StopIsFinal`,
`PublishedFrozen` and `NoEntryAfterRevocation` as action properties. None of
them is inductive alone. `IInv` adds

* `OpInv`: what the operation that holds the mutex was started from (a bind
  has a free slot and an authority that has not failed, a publication a
  registered gate and a non-empty window, at most a lease long, within the
  authority's deadline; a revocation still has to reach gates in slots);
* `WindowInv`: between the two exchanges of Bind and of Publish the word holds
  exactly the bits the operation put there, but for Stopped, and the plain
  fields what it wrote;
* `AuthorityInv`: every bound gate carries the authority's epoch, every gate in
  a slot is bound, and the deadline is at most a lease past the last evidence;
* `ClaimInv`: what a launcher learned at each step of ClaimEntry is still true
  of the gate, so that a successful exchange proves that nothing has happened
  since the load.

Each action has a lemma `<Action>Preserves`; `Inductive` combines them.

`PlatformLifecycleProofs`: first that every step of `PlatformSpec` is a step of
`WorkAdmission` or leaves its variables alone, so all of the above carries over.
On top of it `PlatformTypeCorrect`, `Freshness`, `QueryExclusive`,
`LeasesCoincide`, `QueryCap` and `EpochForever`. The invariant behind
`Freshness` (`CapInv`) bounds the authority's deadline and every published one
by the withdrawal time of its epoch plus one lease. It is inductive because of
`QueryInv`: an answer that vouches for an epoch was sampled after its query was
issued, so the issue time is no later than the withdrawal. `EpochForever` needs
`EpochInv`: the authority knows no epoch but the one the observer has bound, so
neither does any gate that it binds.

`PermissionProofs`: `Refinement`, that `PlatformSpec` implements `Permission`
under the mapping above, one lemma per action. The steps that open a window,
use it or close it rest on four facts: `WindowInv` (at the
last exchange of Publish the plain fields are what the call wrote, and its
sample is in the past), `CapInv` (the deadline written is within a lease of the
loss of the epoch), `ClaimInv` (a claim's exchange finds the word it checked)
and `SampleInv` (a launcher's clock sample is never ahead of the clock). A gate that is stopped between the two exchanges of Publish maps to a
closed permit without a window.

Only model-checked: `WithdrawalCloses` (liveness under fairness is out of the
prover's reach) and the properties of `SupervisedService` (their inductive
invariant is planned).

## 5. What is not modelled

* Results that operations return, error numbers, descriptors and mappings:
  data that no property tells apart.
* `ANDRIX_OWNER_KEEP`: `retain()` and the keep request (planned).
* Death of the Binder peer: the process exits; there is nothing left to check.
* Parsing and encoding of packets, launch descriptions and profiles; kernel
  I/O of the cgroup code; host scripts; the vendored terminal emulator.
* Init's choice of the next supervision operation (`Pump`), its deadlines,
  readiness handling and worker epochs; the budgets of the subtree walk.
* Progress of supervision: nothing here says that a stopped instance is in the
  end reclaimed, only what must be true when it is.
* Wrapping of the clock: the range check of the lease deadline is modelled, but
  model time stays far below the end of its range.
* The time between a launcher's clock sample and its exchange is unbounded, in
  the code and in the model: an entry is inside its window by its sample, and
  what keeps a late exchange out is a stopped gate.

## 6. Plan

In this order; each module with its abstract promise, its instances and, where
it is provable, its inductive invariant.

1. *Done*: `WorkAdmission`, `LifecycleGate`, `PlatformLifecycle`, `Permission`.
2. *Model done*: `InstanceState`, `SupervisedService`. To do: the inductive
   invariant behind `ReclaimOnlyQuiet`, `RetiredOwesNothing` and `NoOverlap`,
   and its proof for any limits; `DelegatedService`, init's controller that
   calls `InstanceState` from its event loop, with its cleanup worker process.
3. `WorkRecord`, `WorkRegistry`: lock-free Stop against Settle, slots and
   streams under retry; theorems: a completed result is frozen, creator budget
   equals the charged records, one work per request. Bounds: 2 slots, 2
   streams, 2 sequences, 1 creator.
4. `WorkIo`, `WorkCatalog`: leases and bindings, collection; composition with
   the registry.
5. `WorkRuntime`: supervise, killer and Poll over the record, the gate and the
   scope; liveness of Stop under fairness of the killer. An abstract `Work`
   (reserved, accepted, entered, ended, complete) that it implements.
6. `OwnerSession`: attachment lease, output tail, client reconnects.
7. `KeepWork` with `retain()`; the flags and sequences of
   `OwnerLifecycleState` one by one.
8. `DeploymentTicket` and reconciliation; `IdentityJournal`: crash at every
   step, recovery as an abstract atomic update.
