# Leone: a TLA+ verification project

TLA+ models of the serving core of Leone, TLC configurations that check them on
small instances, and TLAPS proofs of the safety invariants and refinements of the
scheduler, the service, the sessions and their store, the response path, the
connections, the memory accounts and the caches. Paths are relative to the repository; `server.rs` and `transport.rs` are in
`crates/leone-cli/src`, `runtime.rs`, `kv.rs` and `backend.rs` in
`crates/leone/src`.

## 1. The system

Leone is an LLM inference engine with an OpenAI-compatible server. Most of the
code computes tensors; the control logic is in the serving stack and in the
bookkeeping of the runtime. A request passes, from the outside in, through these
parts.

| Part | State it keeps | Operations | What makes it correct |
|---|---|---|---|
| Transport (`transport.rs`) | connection leases and limits, a thread per connection, bounded response channel, deadlines, cancel flags | accept, read, assign a client, enqueue, write, fall back at the deadline, watch for a reset, shut down | one owner of the ending of a response; exact counts; every thread ends |
| Serve loop, `ServerExecutor` (`server.rs`) | tasks by request, queued jobs | accept, begin, execute a batch, finish, prune | every task ends in one finish; a session is kept only for an answer that was handed over |
| Session lifecycle (`Server`, `server.rs`) | resident and hibernated sessions, cached archive metadata, session clock | continue, fork, wake, persist, retain, discard, hibernate, evict | no answered session is lost, no discarded one returns, insertion terminates |
| Session store and leases (`server.rs`) | `blobs/`, `refs/`, `quarantine/`, table of retained leases, recovery slots | persist, lease, retire, restore, requarantine, discard, recover at start | every crash state can be started on; each quarantined file has an owner |
| `ScheduledService` (`crates/leone/src/service.rs`) | outputs by request, the scheduler, the executor | admit, tick, tick_batch, cancel, prune | executor and scheduler agree whatever the executor does |
| `ContinuousScheduler` (`crates/leone/src/scheduler.rs`) | request records, dispatches in flight, reserved KV bytes, statistics | admit, dispatch_batch, complete_quantum, abort_quantum, cancel, take_expired_deadlines, prune_terminal | bytes and tokens are conserved, limits hold, ends are final |
| Runtime sessions (`runtime.rs`) | session caches, the one captured decode graph, batch signature | prefill in steps, generate, speculate, batch step, fork, hibernate, wake, discard | a session reads its own text; no stale graph is replayed |
| KV cache (`kv.rs`) | segments over storages that forks share, a pending append, a layout revision | append, truncate, grow, commit, roll back, fork, snapshot, restore | a failed operation changes nothing; positions are held once |
| `MemoryTracker`, service memory (`backend.rs`, `service_memory.rs`) | live and reserved bytes and counts per root, tracker and class; the resolved policy | reserve, commit, drop, reclassify, change budgets; resolve and install a policy | the books balance; what is reserved can be committed |

Interaction. The serve loop is one thread; it calls the service, which calls the
scheduler and the executor; the executor calls the session lifecycle, which calls
the store, and the runtime, whose backend charges the memory trackers. Transport
threads meet the loop through channels and atomics. What is hard: two threads that
may both end one response; deadlines that pass between two of a thread's reads; an
executor that fails half way through a batch; a store whose every call is several
file operations, each of which can fail or be the last before a crash; an append
that fails after it has changed the cache; a graph that holds addresses of a cache
that has moved on.

`PROJECT.json` lists these parts, the ones left out with the reason, and the
hazards at their lines.

## 2. Modules

```
Scheduler <-- ScheduledService     SessionStore <-- SessionServer
TerminalResponse <== ResponsePath  Connections
KvState <-- GenerationSessions     MemoryTracker <-- ServiceMemory
Sums <-- MemoryTracker, ResponsePath

ScheduledService <-- ServiceProofs               Connections <-- ConnectionsProofs
SessionServer <-- SessionProofs <-- SessionFilesProofs
Sums <-- SumsProofs                              GenerationSessions <-- GenerationProofs
ServiceMemory, SumsProofs <-- MemoryProofs       ResponsePath, SumsProofs <-- ResponseProofs
```

`<--` is `EXTENDS`, `<==` a refinement through `INSTANCE ... WITH`; each `MC`
module extends the one it instantiates. `map` in `PROJECT.json` gives the lines of
each definition. Definitions marked `Mutant` are plausible faults that show each
property able to fail; no specification uses them.

### Scheduler

One action per method of `ContinuousScheduler`; a method has exclusive access and
is one action. An `Err` that changes nothing is a disabled action. `requests` and
`running` are partial functions as the code's maps are; `reserved_kv_bytes` is
the code's separate running total. Policy limits are constants with the
assumptions `SchedulerPolicy::validate` makes. A request shape is a member of
`RequestSpec`, of which only the field types are assumed.

Dispatch order is the relation of `compare_requests` (urgent requests
first, by deadline, virtual runtime and sequence; then the others, by virtual
runtime, priority and sequence); `SelectBatchIds` takes the first
`limit` of it. Left out: latency statistics and 64-bit saturation of the
virtual runtime (it needs about 2^64 tokens of service).

### ScheduledService

Adds the executor (the set of requests it holds state for) and the position of
the current call (`phase`), so that a tick is several steps: dispatch, finish the
expired, execute, then commit or abort each member. The executor may refuse
`begin`, fail a batch, or return any member of `QuantumOutput`; the service's
validation decides. `Spec`, the scheduler's specification, is a property of this
module: `ScheduledService` is a refinement of `Scheduler` under the identity
mapping of the shared variables.

### SessionStore

`disk` is the set of files the process sees; a file has a session, a nonce, an
intent (`Active` for `refs/`, otherwise the suffix of its quarantine name) and
`last_used`. One persist writes one archive and one reference, so `last_used`
stands for the archive's hash too. Every store call is a script of file
operations, each carrying the lease as it stands after the operation succeeded;
`IoSucceeds` and `IoFails` run it. `mem`, `table`, `persisted` and `proc` are
`Server` and `SessionStore` fields and the call in progress.

Crash model. Renames, links and removals are atomic and reach the disk in order;
`durable` is the set of states a power loss may leave. A directory sync keeps
those that agree with the process on that directory. A crash either keeps the
process's view (process exit) or picks any member of `durable`. Temporary files
are not modelled: a start ignores them. A build without directory syncs makes no
promise about power loss, and none is modelled for it.

### SessionServer

The operations of `Server` over the store. A session is absent, in a task,
resident or hibernated. Backend work (load, capture, wake) and memory
reservations are choices between their outcomes. Left out: tokens, prefix reuse
(it reads a resident session and changes none), the `has_reference` probe made
while a fork is planned (it makes the same resolution as the metadata call that
is modelled), and `discard_idle_session`, which exists only on macOS.

History variables: `kept` is the `last_used` a client was told of, `discarded`
the sessions whose discard completed. A session whose receipt cannot be written is
discarded once; the code discards it there (`server.rs:7320`) and once more when the
task is finished (`server.rs:8832`), a second attempt that the model leaves out.

### ResponsePath and TerminalResponse

One response, from the request in the engine's channel to the closed socket, with
four parties: the engine (the serve loop running this request's task), the writer
(`write_loop` of the connection's thread), the watcher that peeks for a reset, and
the client. A step is one access to what they share: the atomics of `OutputState`,
the `Cancellation` token and the channel of frames. `epc`, `wpc` and `watch` are the
program counters; an engine write is four steps (check, reserve, stamp, send).

Everything handed over in one write is one frame; a frame is 1 byte, a whole
response 2. Time has three instants: before the deadline, in the grace period of
the terminal frame, after it. The runtime's work is a choice between its outcomes;
sessions are reduced to how the request leaves them (`SessionServer` has the rest).
The engine's program follows `run_serve_loop`, `execute_task_quantum`,
`finish_scheduled_chat` and `finish_active`, with every early return.

`TerminalResponse` is what the transport promises without threads, queue, socket
or clock. A chat has an ending with one owner, sent at most once and last. A plain
request is answered by `write_response`, which claims nothing (`Answer`), so the
writer may still own the ending: its deadline response can follow the answer
(`Overtake`). A session is kept only by an engine that owns the response.
`ImplementsPromise` maps `plain` to the kind of the task, `owner` to
`terminal_claimed` with its winner, `sent` to the frames on the wire, of which a
complete response, an SSE ending and a last chunk are endings whoever wrote them,
`open` to the connection's thread and `kept` to the session.

History variable: `headLost`, the head of a stream was dropped as late.

### Connections

The accept thread, one thread per connection, the rejection worker, the engine's
channel and `Transport::drop`. `ConnectionLimits` is locked for each operation, so
each is one step; the stop flag, the registration of a socket and the shutdown are
steps of their own. `Identity` is `request_client_identity` with its walk over the
forwarded chain. What was received before a socket was shut down can still be read
and parsed. What the thread does between the queue and its end is `ResponsePath`; here
it only ends.

### KvState and GenerationSessions

`KvState` has one operator per method of `KvState`, on a record; each returns
whether it succeeded and the state it leaves, rollback included. `Rc::get_mut` is
membership in the set of storages with one owner. `GenerationSessions` is the
`Runtime` over two or more of them. A position's keys and values are the token
they were computed from, so "reads its own text" is an equality. A forward pass
writes through the span the code would pass to the kernel; a captured graph writes
through the span it was captured with. The runtime is borrowed for a whole call, so
a call that streams is several steps that exclude other calls (`call`).

Abstractions. `Buckets` stands for the powers of two of `decode_graph_bucket`.
Generations and batch identities are 64-bit counters that do not repeat in a
process; the model takes the least value nothing holds, which keeps the state
finite and changes no comparison. `MaxRevision` is the largest layout revision, a
small number here, so that the checked additions fail. All layers of a segment move
together; Q8 tails, metadata bytes, image prompts and rounds of sequential
(unverified) drafts are left out. So are the two-part prefill of a restored session
(`split_replay`: its prefix in chunks, then the rest), which appends the same
positions in the same order, and a `retire_decode_graph` or `discard_session` that
fails (`runtime.rs:1397`, `3274`: 2^64 generations, or a graph the device will not
drop). A quarantined session keeps its cache and can only be discarded.

### MemoryTracker and ServiceMemory

`MemoryTracker` has one action per operation; each holds the locks of the root and
of the tracker and is one step. Counters keep a width (`MaxBytes`, `MaxCount`), which
the code checks for roots and trackers but not for classes; `AccountsBalance` bounds
all of them. A reservation is a handle until it is committed or dropped. `ServiceMemory` adds what
the server does once: observe the host and the backend, resolve a policy, install
it (a shared root with two children, or two independent roots), or refuse to start.
Left out: peaks, the parsing of `/proc/meminfo`, and `resolve_kv_reservation`, which
only tests call.

## 3. Runs

| Run | Instance | Distinct states | Checks |
|---|---|---|---|
| `scheduler` | 3 ids, 3 admissions, batches of 2, quantum 1, clock 0..1 | 694,046 | types, records, tokens, KV bytes, outcomes, limits, `TerminalIsFinal` |
| `service` | 2 ids, 10 executor outputs, fairness | 429,336 | executor, outputs and scheduler agree; refinement `Spec`; `EveryRequestEnds` |
| `session_crash` | 1 session, 3 failures, 2 crashes | 158,871 | `StartNeverRefused`, `KeptSurvives`, `DiscardedStaysGone` |
| `session_pool` | 2 sessions, 1 resident and 1 hibernated place, forks, 2 failures | 380,523 | `TypeOK`, `QuarantineOwned`, `CacheAgrees` |
| `session_slots` | 2 sessions, 1 recovery slot, 1 failure, 1 crash, fairness | 649,973 | `SlotKeepsRoom`, `CallsEnd` |
| `response` | a plain, a whole and a streamed response, 1 token, 3 bytes, 2 frames | 3,099,240 | `TypeOK`, `PendingExact`, `WireWellFormed`, `KeptOnlyIfAnswered`, refinement `ImplementsPromise` |
| `response_liveness` | a plain and a whole response, fairness | 104,710 | `ConnectionCloses`, `TaskEnds` |
| `connections` | 3 connections, 2 places, 1 per client, a trusted proxy, fairness | 899,481 | `LeasesCounted`, `NoReaderMissed`, `EveryConnectionEnds`, `DropEnds` |
| `kv` | 2 sessions, 2 device profiles, revisions 0..3 | 160,337 | `CachesWellFormed`, `ReadsOwnText`, `GraphIsCurrent`, `FailedPrepareChangesNothing` |
| `memory` | 2 trackers, 2 classes, 3 handles, counts to 3 | 197,378 | `AccountsBalance`, `ReservationsCommit`, `PolicyFits` |
| `session_discard` | 1 session, failing syncs only | violation | `FailedCleanupNotAutoloaded` |
| `session_fork` | 1 session, forked while it runs | violation | `LeaseHasOwner` |

Why the bounds suffice.

- Scheduler and service. Three requests and batches of two give a batch, a request
  left out of it, and one that arrives during it; a third admission with two
  identifiers (`service`) reuses one. Two output tokens over a quantum of one, and
  one prompt token beyond the reused prefix, give first, middle and last quanta of
  both kinds. Four tokens take two pages of three, so reservations round up, and
  the KV budget takes one long request with two short ones, or two long ones, but
  not all three. Of the reasons to reject, `scheduler` meets an invalid priority, a
  passed deadline, and the limits of the queue and of the budget. It never meets the
  resident limit, which `LimitsHold` covers. No property bounds the queue:
  running requests that go back to it may exceed `max_queued_requests`, as in the code.
- Sessions. Only slots, the cache and the pool join sessions: one session is enough
  for what a crash leaves, two for the pools at their limits. Two persists, then a
  discard or a retained failure, fit in a clock of 3 or 4. `session_slots` with two
  failures holds as well (1,596,201 states, over four minutes).
- Response. Two frames and three bytes let the channel be full by count and by
  bytes; one token gives a head, a boundary, content and an ending, more than the
  channel takes. A second token would repeat the same steps. The three instants are
  all that any comparison of the code distinguishes. The liveness run leaves the
  stream out: its steps only add frames before the same endings.
- Connections. Three connections for two places and one per client reach both
  limits; the origins give a direct client, the same client behind the proxy, and a
  malformed chain. Channels of one are full at once.
- Cache. Two sessions are a fork and its source, or a batch; three storages leave an
  allocation that fails; revisions to 3 are used up by an append, a cut and a capture. The first
  profile has graphs, chunked prefill and calls long enough to speculate; the
  second sequential prefill and hibernation.
- Memory. Three handles are two siblings and one more; sizes 1 and 2 against a
  budget of 3 make some sums fit and others not; counts end at 3.

`MaxClock`, `MaxFailures`, `MaxCrashes`, `MaxAdmissions` and `MaxTime` are
bounds of the model, not of the code. Identifiers, sessions, handles and classes are
symmetric where no liveness is checked.

`ForkParents` says which sessions requests fork. It is empty in `session_crash`
and `session_slots`: those invariants do not hold when a session is forked while
it runs (section 4). `KeptSurvives` holds then as well (355,649 states in the
instance of `session_crash` with `ForkParents = {s1}`).

A deadlock is an error except where the system may stop: a closed connection, a
dropped transport, and counters that have reached their width.

Fairness.

- `ServiceFairness`: a begun call returns and its loops run on (sequential code, an
  executor that answers), and the serve loop ticks while a request is runnable.
  Nothing is assumed of arrivals, cancels, the clock or the executor's outcome.
- `FairSpec` of the sessions: a call in progress runs on; failures are finitely many,
  which stands for a disk that works again at some point.
- `WriterSpec`: the clock advances and the writer runs, since each of its waits has a
  timeout. The engine is not assumed to run: `ConnectionCloses` says that a stuck
  executor cannot hold a connection. `TaskEnds` has the engine's fairness as its
  premise and assumes nothing of the client or the watcher.
- `FairSpec` of the connections: each thread runs, a read being bounded by the
  request deadline and a write by its timeout, and the drop goes on once begun.
  Nothing is assumed of the engine or of a stop.

## 4. Findings

1. **A discard that can never complete** (`session_discard`). Persist publishes
   `refs/<key>.json`, the sync fails. `retain_failed_session` restores the lease;
   the active reference supersedes it, so the old file becomes `superseded` and
   is removed, and the sync after the removal fails. The session is resident with
   a lease in state `Superseded` and no file. When its next request is discarded,
   `mark_discard_intent` renames the missing file; `NotFound` ends every attempt
   before `refs/<key>.json` is reached, and the next start loads the session. The
   comment at `server.rs:759` says "A failed cleanup leaves the reference outside
   the autoload namespace."
2. **Forking a session that is running** (`session_fork`). Only the child's
   identifier is checked against running tasks. The task may hold a lease in state
   `Active` (its reference is back in `refs/`, the sync failed). The fork leases
   that file again; if giving it back fails its lease stays in the table. The
   task's discard then fails, finds the table's place for this session taken, no
   owner in memory, and the assertion at `server.rs:7954`, "a recovery lease has a
   bounded owner", ends the server. Setting `ForkParents = {s1}` in
   `MCSessionCrash.cfg` shows two further effects: two quarantined references of
   one session, which a start refuses if it meets the older one first
   (`StartNeverRefused`), and one that outlives a completed discard
   (`DiscardedStaysGone`, against `docs/openai-api.md:146`).

All of these need at least two failing file operations.

What else `ResponsePath` shows; no run of its own expects it.

- *A stream without its head.* The engine passes its check before the deadline and
  queues the head after it. The writer drops the head as late but keeps the terminal
  frames that follow, so the client reads chunks and no status line, where
  `docs/openai-api.md:190-198` promises a 408 or a complete SSE ending.
  `WireWellFormed` covers the runs in which frames are dropped late and names this one
  exception (`headLost`): such a client reads terminal frames, or a torn one, and
  nothing else. Without `\/ headLost` in it, TLC finds the stream (35 states).
- *A second response.* The answer to a plain request is claimed by nobody. If the deadline
  passes before its sink is dropped, the writer's 408 follows it: the step `Overtake`
  of `TerminalResponse`, at most once and after plain requests only.
- A reset, or a deadline that only the writer has noticed, can reach the metrics as
  `ClientCancellation`.

## 5. Proofs

A theorem holds for every value of the constants that satisfies the assumptions
of the module; TLC evaluates those assumptions on every run of an instance. Proofs
are in modules of their own: one for the scheduler and the service around it, two
for the sessions (the leases, then the files), one for each other component.

| Module | Theorem | States |
|---|---|---|
| `ServiceProofs` | `TypeCorrect` | `[]TypeOK`; the KV total is a natural number, so the unchecked `u64` subtraction never wraps |
| | `DispatchesCoherent` | `[]RunningCoherent` |
| | `RecordsCorrect` | `[]TokensConserved` |
| | `CancellationsHonoured` | `[]CancellationHonoured` |
| | `KvCorrect` | `[](KvAccounting /\ KvWithinBudget)` |
| | `OutcomesCorrect` | `[](OutcomesBalance /\ OvershootBounded)` |
| | `LimitsHold` | `[]LimitsRespected` |
| | `EndsAreFinal` | `TerminalIsFinal`; no step writes the record of a request that has ended |
| | `ServiceImplementsScheduler` | `ServiceSpec => Spec`, the refinement of the scheduler |
| | `ServiceTypesCorrect` | `[]ServiceTypeOK` |
| | `ExecutorAlwaysMatches` | `[]ExecutorMatchesScheduler` |
| | `OutputsAlwaysMatch` | `[]OutputsMatchEmitted` |
| `SessionProofs` | `SessionTypes` | `[]TypeOK`, with any forks |
| | `QuarantineAlwaysOwned` | `[]QuarantineOwned`, with any forks |
| | `SlotsWithinLimit` | the recovery slots in use are at most `RecoveryLimit`, with any forks |
| | `SlotAlwaysKeepsRoom` | `[]SlotKeepsRoom`, without forks |
| `SessionFilesProofs` | `StartIsNeverRefused` | `[]StartNeverRefused`, without forks |
| | `LeaseAlwaysHasOwner` | `[]LeaseHasOwner`, without forks |
| | `DiscardedNeverReturns` | `[]DiscardedStaysGone`, without forks |
| | `KeptAlwaysSurvives` | `[]KeptSurvives`, without forks |
| | `CacheAlwaysAgrees` | `[]CacheAgrees`, without forks |
| `ConnectionsProofs` | `ConnectionTypes` | `[]TypeOK` |
| | `LeasesAreCounted` | `[]LeasesCounted` |
| | `NoReaderIsMissed` | `[]NoReaderMissed` |
| `MemoryProofs` | `AccountsAlwaysBalance` | `[]AccountsBalance` |
| | `ReservationsAlwaysCommit` | `[]ReservationsCommit` |
| | `PolicyAlwaysFits` | `[]PolicyFits` |
| `ResponseProofs` | `ResponseTypes` | `[]TypeOK` |
| | `PendingAlwaysExact` | `[]PendingExact` |
| | `WireAlwaysWellFormed` | `[]WireWellFormed` |
| | `KeptAlwaysAnswered` | `[]KeptOnlyIfAnswered` |
| | `ResponseKeepsPromise` | `ImplementsPromise`, the refinement of `TerminalResponse` |
| `GenerationProofs` | `CachesAlwaysWellFormed` | `[]CachesWellFormed` |
| | `FailedPrepareAlwaysUndone` | `[]FailedPrepareChangesNothing` |
| | `GraphAlwaysCurrent` | `[]GraphIsCurrent` |

Assumptions. The scheduler's are what `SchedulerPolicy::validate` checks
(`PolicyAssumption`), field types (`SpecAssumption`) and finitely many identifiers;
the service adds the types of an executor's output. Connections, handles and
sessions are finitely many, and there is at least one session; limits of the transport are positive, as
`Config::validate` makes them; bytes, budgets, widths, growth and `MaxRevision` are
natural numbers. Batches have one or two members (`Batches`). Nothing is assumed of
the order of operations. "Without forks" is the hypothesis `ForkParents = {}`, that no
request forks a session while it runs. It is needed: section 4 shows what fails with
such forks. Of `KeptSurvives` and `CacheAgrees` TLC found no counterexample with them
(`session_pool` checks the second with forks); the proofs use that a session has one
lease, which they break.

None of the properties is inductive alone. The arguments:

- **Scheduler.** `RecordInv` speaks of each record: its type, that an admitted one
  has a shape admission accepts, its tokens, that it is running exactly when
  dispatched, and that a cancelled one is running or cancelled. It is preserved
  without looking at totals (`RecordStep`, one lemma per action). `TotalsInv` relates
  the totals to the records (bytes held, outcome counters, live requests, high-water
  marks) and uses `RecordInv` (`TotalsStep`). `EndsAreFinal` follows from
  `RecordInv`: a dispatch in flight belongs to a Running record, so a completion
  or an abort never meets one that has ended. For `LimitsHold`, `SequenceInv` keeps
  sequence numbers distinct, so the order of `compare_requests` is strict and
  total, and the first `limit` of it are at most `limit` requests (`BatchInv`).
- **Service.** `ServiceInv` holds the scheduler's invariants, the two agreements and
  `PhaseInv`, what each phase of a call still has to do for its batch and its
  expired requests. A step of the service is then one action of the scheduler or
  leaves its variables alone, which is the refinement.
- **Sessions: leases.** `SessionInv` is the types (`TypeInv`), where the lease and the
  session may be at each position of a call (`ControlInv`), the slots (`SlotInv`), that
  each operation of the script in progress moves the reference its lease stands for
  or ends the lease (`ScriptInv`), and `OwnedInv`, the strengthening of
  `QuarantineOwned` to every step. A control step is shown once to pass leases on
  between session, table and call without losing one (`Turn`); each action then has
  one lemma. Without forks, `OneInv` adds that a session has at most one live lease,
  which with the slots gives `SlotKeepsRoom`.
- **Sessions: files.** Without forks and for every member of `durable`, not only for
  what the process sees. `TableInv`: a call that may have to retain a lease finds the
  table's place free, so neither assertion of `discard_leased_session` fails.
  `FilesInv`: each state of the disk is one a start accepts (`FilesOK`), each
  operation left in the script keeps it so whether or not it reaches the disk
  (`SoundInv`), files are older than the clock, and a persist in progress has done
  what its position says. `DiskInv`: which files a lease's state allows, that a
  discard marker is durable before the last reference is removed, and that a
  session whose discard ended has no reference left on any durable state. `KeptInv`:
  a session that was answered is under no discard, and from the sync of its persist
  on every durable state loads it, no older than the answer. `CacheInv`: the lease that
  `persisted_metadata` reads is the session's only reference, a cached entry is what a
  start would load unless a persist or a discard of its session is in progress, and
  a session under discard has none once its discard has ended.
- **Connections.** `ThreadsInv` says that the connection the accept thread holds has no
  thread of its own yet, that the rejection worker holds only refused or closed ones,
  and that the drop set the stop flag first. The counts are then cardinalities that
  change by one.
- **Sums** (`Sums`, `SumsProofs`). A sum over a finite set is the cardinality of
  a disjoint union with one element per unit, so that adding, removing and changing a
  summand are facts about finite sets and need no induction. The
  scheduler's `ReservedSum`, the handles of `MemoryProofs` and the bytes of the
  channel in `ResponseProofs` use this form.
- **Memory.** `TrackerInv` says that each account is the sum over the handles it
  covers, that what is owned and reserved fits the budgets and widths, and that
  identities are unique and below the next one. An operation on one handle moves
  the sums of root, tracker and class by the same amounts (`Moved`, `ClassMoved`).
  The code checks no width of a class counter: a class holds no more than its tracker
  and has freed no more, so the room kept in the tracker's counters serves the
  class too (`ClassStands`).
  `PhaseInv` keeps what the policy was resolved from.
- **Response.** `WriteInv` and `PhaseInv` say which frames the engine's position may
  still write, `TaskInv` what the task has done, `BytesInv` how the bytes split
  between the engine's hand, the channel and the writer's, `OwnerInv` who may write
  once the ending is claimed, `EndInv` and `HeadInv` where on the wire, in the
  writer's hand and in the channel endings and heads can stand, `FullInv` that a
  chat claims its complete response before it queues it, and `PlainInv` that a plain request has no other frame.
  `ClockInv` orders the frames of the channel by the instants they were queued at, so
  that behind a head dropped as late everything is late or terminal (`LostInv`). For
  the refinement, what the writer puts on the wire finds no ending there, or is the
  deadline response after a plain answer (`BeforeTheEnd`, `WriterShows`).
- **Caches.** `GenerationInv` says that every cache is well-formed, within
  the device's storages and the revision limit, that a pending append has at least one token,
  that a hibernated copy describes a well-formed cache, and that the call
  belongs to the session that generates. The operators of `KvState` are shown, for any list
  of segments, to leave such a cache or the same one (`Sound`); for the nested
  transactions, that each stage can be undone exactly (`Recovers`), so that a failure
  at any point returns the cache it began with. Where one would use induction over
  the segments, a least index is taken instead (`LeastNat`, from the
  well-foundedness of `<`). A batch carries the invariant from member to member
  (`Carries`); its fold is unfolded for one and two members. `GraphInv` adds, for
  `GraphIsCurrent`, that the token of a session and the entry of a batch's signature
  are never ahead of the cache they name, and that the graph has the segments which
  that revision had: the layout revision never falls and counts each change of
  segments, and a new generation or identity is one that nothing holds.

Only model-checked: `ReadsOwnText`, which needs an invariant on every token written
through a shared storage; the two violations; and liveness (`EveryRequestEnds`,
`CallsEnd`, `ConnectionCloses`, `TaskEnds`, `EveryConnectionEnds`, `DropEnds`), which
is out of the prover's reach with `ENABLED` and with what a recursive definition
computes for every input.

## 6. Plan

Done: the modules of section 2 and the theorems of section 5. Next, in this order:

1. `KeptSurvives` and `CacheAgrees` with forks.
2. `ReadsOwnText`: with one writer per storage (`Rc::get_mut`), an append changes no
   position that another session reads.
3. A run that expects the stream without its head (section 4).
4. Models: `ServerExecutor` joining `ScheduledService`, `SessionServer` and
   `ResponsePath` through tasks; `StateAllocator`; the trace replay.

## 7. Not modelled

Tensor computation and backends, samplers, tokenizers, templates, file formats
(GGUF, session archive, receipts), metrics, speculative decoding's choice of drafts,
the command line and the measurement gates: they have no protocol a model checker
reaches, or only compute on data. They are most of the repository's lines: device
kernels and their bindings, model loading, and offline measurement. `PROJECT.json`
gives the reason for each.

## 8. Running

```
tlc -config MCSessionCrash.cfg MCSessionServer    # any row of section 3
tlapm ServiceProofs.tla                           # likewise each *Proofs module
```
