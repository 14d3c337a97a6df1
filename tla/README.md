# rota-lb in TLA+

rota-lb distributes outbound connections over a pool of backends. This
directory holds TLA+ modules translated from the Rust source under
`src/src/`, the TLC configurations that model-check them, and proofs checked
by TLAPS. `PROJECT.json` is the index: components, runs, the source lines every
definition stands for, hazards, findings, theorems.

## 1. Inventory of the system

| part | source | state | operations | modelled by |
|---|---|---|---|---|
| `LoadBalancer` | `services/balancer.rs` | `backends`, `ids`, `metrics` (RwLock), `strategy` (Mutex), `generation` (atomic) | `new`, `dial`, `add_backend[_with_id]`, `remove_backend[_by_ptr,_by_id]`, `replace_backends`, `drain_backend`, `undrain_backend`, `set_strategy`, `metrics`, `is_draining`, `shutdown` | `Balancer` |
| connection guards | `services/balancer.rs` | index and generation of the dial | `Drop`, `into_inner` | `Balancer` |
| nine strategies | `strategies/*.rs` | cursor, pin, primary, pick counts | `pick`, `report_error`, `report_success` | `Strategies` |
| retry and timeout | `balancer.rs`, `utils/retry.rs` | attempt counter, timers | `dial_with_retry`, `should_retry` of each policy | `Retry` |
| construction | `balancer.rs`, `factory/` | the backends in hand | `new`, `new_with_metrics`, `from_factories`, `LoadBalancerBuilder::build` | `Construction` |
| Tower service | `tower.rs` | a clone of the `Arc` per call | `poll_ready`, `call` with overrides | `Service` |
| TLS | `configs/tls.rs` | none of its own | `TlsBackend::dial`: inner dial, handshake | `Retry` (dial only) |
| health checker | `utils/health.rs` | streak counters, shared metrics | `spawn`, loop, `shutdown`, drop, `record_dial_result` | `Health` |
| discovery | `utils/discovery.rs` | balancer behind a Mutex, loop, oneshot | `start`, `stop`, loop, `reconcile`, `dial` | `Discovery` |
| discovery sources | `utils/discovery.rs` | the registry's records | `discover` of static, DNS, Consul, etcd | `Sources` |
| C interface | `ffi/*.rs` | handle with two std Mutexes and a plain field | create, destroy, select, report, metrics, set_strategy, reset | `Ffi` |

How they interact: a dial locks the metrics, then the strategy, picks an index,
counts the connection and releases both; it then runs the retry loop on
`backends[idx]` without any lock; afterwards it locks the metrics and then the
strategy again to record the result. Admin operations take `&mut self`, so they
exclude dials and readers, but not guards: a `GuardedConnection` owns clones of
the `Arc`s and may be dropped while an admin operation is at an await, on any
thread. Discovery drives the admin operations from a background task through a
Mutex around the balancer. The health checker writes a metrics vector of its
own. The C interface uses the strategies directly. A Tower call holds the balancer
through its own clone of the `Arc`, so whoever wants it by value or by `&mut`
waits for the call.

What makes this hard: futures that are dropped at any await; the pool and its
metrics changing in two steps with an await between them; a decrement that is
given up when the lock is contended; indices kept across a change of the pool
(guard, `Failover::primary`, `Sticky::pinned`); values read before a lock is
taken and used after; timeouts that race late answers; a round of several
awaits that may fail in the middle. `PROJECT.json` lists each at its line.

## 2. Modules

- **Strategies**: `PickIndex` is the set of indices `pick` may return,
  `AfterPick` the strategy afterwards. A scan with a strict comparison is stated
  by what it returns (`FirstBest`): the index that beats every earlier one and is
  beaten by no later one. RTTs are in milliseconds; a missing RTT is
  `NoRtt` and compares as `Duration::MAX`.
- **Scans**: the scanning loops as coded (folds with a best index and a best value
  that starts at the largest number of its type). The assumption
  `ScansFindFirstBest`, evaluated by TLC in the run `ffi`, compares them with
  `FirstBest` on all vectors of up to three backends over values at both ends of
  their types.
- **Balancer**: one record per caller of `dial` (where it is, the index, the
  generation, and the backend it was given as a history value) and one record
  for the admin operation in progress (which one, at which await, what it holds).
  Each await is a step boundary. The strategy Mutex is never held across an await
  and never tried, so locking, using and unlocking it is one step; for the
  metrics lock the holder is state, because `try_write` observes it.
  `CancelDial` and `CancelAdmin` drop a future at an await. With
  `MultiThread` a guard's check and its decrement are two steps; without it
  they are one, as on a current-thread runtime. Closing a connection is dropping its
  guard; a connection that `into_inner` takes out of its guard is subtracted at once,
  by the same steps, and is not counted from then on. Initial metrics differ in their
  RTTs; the counters start at zero, although a caller could seed them too.
- **Pool**: what the balancer promises about backends, without vectors, locks,
  indices and generations: a backend enters, serves, leaves and is shut down, in
  that order and once; a dial uses a serving backend from pick to return; admin
  operations exclude dials and each other. `Balancer` implements it
  (`ImplementsPool`): a backend's place is computed from the pool vector and from
  what the admin operation holds.
- **Construction**: a request is a record of the builder's fields; the other
  constructors are requests with most fields unset. Factories are awaited one
  after another; any of them may fail and the future may be dropped at each.
- **Retry**: one dial. Time is a clock; timers fire when due, the backend answers,
  fails or hangs. Jitter is a choice between half of the delay and all of it; a
  raw delay above `FloatMax` stands for `f64` infinity (multipliers are whole numbers
  here, so delays do not shrink; the `f64` of the code also allows one between 0 and 1,
  which makes them shrink, and a negative one, from which `from_secs_f64` panics), an attempt number above
  `I32Max` for the failed `i32::try_from`. A `TlsBackend` goes through a second
  phase, the handshake, under the same timer; its failures are `Error::Backend`.
- **Service**: `Construction` and `Retry` composed through the Tower service: a
  balancer is built, `poll_ready` looks at it, a call takes a clone of the `Arc`,
  its overrides or else the builder's options govern the dial, and removal and
  shutdown wait until no call is in flight. `Options` declares `None`.
- **Health**: the loop (`select!`, probes, lock, write), the owner of the handle
  (shutdown with its five seconds, drop), other tasks that call
  `record_dial_result`, and backends that go up and down.
- **Sources**: what each of the four sources makes of the records it finds. Records
  keep only what decides the outcome: whether an SRV target has a root dot, tags,
  missing fields, bytes that are not UTF-8, values that are no socket address.
- **Discovery**: any number of loops (one per `start`), the registry behind
  `discover()`, users of the Mutex. The balancer is a sequence of (id, address)
  slots: `reconcile` holds the Mutex and completes every balancer operation it
  starts, so each is one step here and has its detail in `Balancer`. Users add
  backends without an id, by `add_backend`.
- **Ffi**: threads inside one handle. `select` holds `scratch` while it takes
  `strategy`. `strategy_kind` is a plain field, read before the lock by
  `rota_lb_reset`. The score of HealthWeighted is computed modulo `U64Max + 1` in
  a build that wraps; with overflow checks it panics, `catch_panic` returns, and
  both Mutexes stay poisoned.
- **MC\***: the small instances.
- **Vectors**: `Vec::remove`. It is the community modules' `RemoveAt`; defined here
  because every module that reaches `SequencesExt` makes each proof step several times
  slower.
- **SharedFacts**: lemmas about sequences, induction and the strategies, which the other
  proofs share.
- **BalancerProofs**: types, structure and the safety invariants of `Balancer`;
  **BalancerCountProofs**: its counters; **BalancerRoutingProofs**: that it implements
  `Pool`, and what RoundRobin, Sticky and Failover promise.
- **FfiProofs**, **ServiceProofs**, **HealthProofs**, **DiscoveryProofs**: the safety of
  the module each is named after.

Operators whose comment or name says what they get wrong (`GenerationUnchecked`,
`ShutdownTwice`, ...) are deliberate defects. They are not part of the
specification; substituting one for the definition after it makes a named
property fail (`mutants` in `PROJECT.json`).

## 3. What is checked

Deadlock is checked in every run: a state in which nothing is possible except
waiting is an error, and `Quiet` and `Stopped` mark the ends that are
legitimate.

Runs that pass:

| run | asks | bounds |
|---|---|---|
| `core` | do concurrent dials, cancellations, guards and every admin operation keep the three vectors aligned and every index in bounds, never undercount a guarded connection, and does every dial and admin operation complete? | 2 callers, 2 backends, 2 removals/replacements, 2 dials per backend |
| `hostile` | with guards on other threads and admin futures dropped at any await: do the types hold, does a backend have one owner and at most one shutdown, does every dial use a backend of the pool, does the balancer implement `Pool`? | 2 callers, 3 backends of which at most 2 in the pool, 1 removal/replacement, 2 dials per backend |
| `fixed_pool` | on a pool of fixed size: even RoundRobin, one backend for Sticky, Failover leaving a failed primary once however many dials fail on it, a drain respected by HealthWeighted | all nine strategies, three RTTs, `U32Max = 9` (a penalty of 4500 ms) |
| `ffi` | C threads, with and without overflow checks: range, proportional picks, whole read-back, and that nothing but an overflowing score poisons the handle | 2 threads, one of them with admin calls, up to 2 backends, five strategies, `U64Max = 5000` |
| `retry` | from `build` to `shutdown`: is a balancer what was asked for, is a request's timeout kept over dial and handshake, are attempts, delays and budget bounded, does the call return? | every combination of the builder's fields over 2 backends, 10 policies, delays up to 6 units, 5 attempts, one call |
| `health` | thresholds, clean shutdown, detection of a dead backend, end of the loop, interference by other tasks | 2 backends, 1 metrics row |
| `discovery` | do rounds add up, are manual backends kept, is a round exact, does a running loop converge and a stopped one end, with a failing factory? | 2 loops, 4 sources with up to 2 registries of 1 to 4 records each, 1 user backend |

Why the bounds are enough: every property relates at most two callers or two
backends. In `core`, two generation steps allow a removal followed by a
replacement with guards of both older generations alive. `hostile` has more kinds of
steps and makes do with one, but has a third backend, which enters while the other
two serve, leave or are held; its properties, like the safety properties of `core`, are
proved for every number of backends. `U32Max` is small so
that saturation and the drain marker are reached. `Health` has one backend
without a row, which the loop skips. The registries of `discovery` hold an id
twice, an id that moves, an address whose factory fails, and records that are
filtered, skipped or unreadable. `U64Max` is above every score that errors and
connections can produce in the instance, as in the code, and below what one
enormous RTT adds. In `retry` a request's override and the builder's option differ,
so the timer shows which one governs.

`DrainRespected` is about HealthWeighted alone; what the other strategies do with a
drained backend is listed below.

Runs that show a disagreement between the code and what its comments promise
(`findings` quotes the lines):

| run | what happens |
|---|---|
| `v_drop_race` | a guard checks the generation, a removal moves the rows, the decrement hits another backend's row: its count is below its open connections |
| `v_cancel_replace` | a dropped admin future leaves vectors of different lengths |
| `v_failover` | after a shrink, `primary` is past the end and errors no longer rotate it |
| `v_counts_converge` | a guard dropped while a reader holds the lock gives its decrement up; from then on the balancer keeps coming to rest with no connection open and one counted |
| `v_health_recovery` | a failed probe turns an unhealthy backend healthy |

`v_drop_race` needs several threads and `v_cancel_replace` a caller that drops an
admin future; `core` shows the same properties without those, and `fixed_pool`
shows `FailoverRotates` while the pool is not resized.

Read off the code while modelling it, and not the subject of a run:

- a dial future dropped between the pick and the guard leaves its connection counted
  for good (`balancer.rs:187`), just as a decrement that is given up does;
- only HealthWeighted reads the drain marker (`balancer.rs:410`), the other
  strategies keep using a drained backend;
- a successful dial on a drained backend clears the marker, because it resets
  `recent_errors` (`balancer.rs:216`), and a backend with `u32::MAX` failures in a row cannot be
  told from a drained one;
- a removal below Sticky's pin moves new connections to another backend
  (`sticky.rs:43`);
- `total_dials` counts picks (`balancer.rs:174`), `traits/strategy.rs:57` says
  successful dials;
- `rota_lb_reset` racing `rota_lb_set_strategy` brings the old strategy back under
  the new name (`ffi/api.rs:289`);
- a change of the RTT vector restarts WeightedRoundRobin at index 0
  (`weighted_round_robin.rs:51`);
- `dial_with_retry` never consults `max_attempts()`, so a custom policy that states one
  and ignores it in `should_retry` is not stopped, although `retry.rs:27` calls it the
  maximum; and it compares the budget before the
  sleep rather than after it (`balancer.rs:261`; `BudgetOverrun` bounds the
  effect);
- dropping the health checker's handle detaches the task (`health.rs:127`), and after
  five seconds `shutdown` returns although the loop may still write (`health.rs:133`;
  the handle state `gave_up`);
- `reconcile` compares ids only, so a new address of a known id is ignored, and a
  factory error ends the round before the later descriptors
  (`discovery.rs:286`, `:288`); the comment at `discovery.rs:265` also mentions
  replacing, which does not happen;
- one answer that names an id twice adds it twice (`discovery.rs:285`), Consul entries
  without an id share the empty one, and Consul entries without tags pass every tag
  filter;
- one pair that is not UTF-8 fails every etcd lookup until it is gone, while a bad
  Consul entry costs only itself;
- the `port` that `DnsDiscovery::new` documents as a fallback is ignored;
- a handle whose Mutexes were poisoned never recovers: `select` returns `u32::MAX`,
  `set_strategy` and `reset` return -1, `metrics` reads zeros; in a release build the
  same rows wrap the score and the slowest backend may look like the best
  (`health_weighted.rs:32`);
- an I/O error during the TLS handshake becomes `Error::Backend` and is not retried by
  a transient-only policy (`tls.rs:231`, `retry.rs:211`);
- with factories, a wrong length of `initial_metrics` is reported only after every
  factory has run, and the backends are dropped without `shutdown`
  (`balancer.rs:570`);
- `poll_ready` reserves nothing: a call it admitted may find the pool empty;
- `DEFAULT_DIAL_TIMEOUT`, `MAX_BACKENDS` and `TlsConfig`'s `connect_timeout` are
  never used.

### Fairness

- `Balancer`: a call that has started goes on (weak fairness: the runtime polls
  ready tasks), and a waiter of the metrics lock is not overtaken for ever
  (strong fairness: tokio's RwLock is FIFO). Nothing is assumed about callers
  starting calls or closing connections; the backend's own dial and shutdown are
  taken to return.
- `Service`: the executor polls a call, time passes and due timers fire; factories and
  backends owe nothing.
- `Health`: the loop is polled, the mutex is FIFO, its holders let go, and
  `select!`, which polls its branches in random order, does not ignore a ready
  shutdown for ever.
- `Discovery`: as above; a lookup ends, one whose records convert succeeds now and
  then, and a factory that may succeed does not fail for ever.
`Ffi` has no liveness property: `std::sync::Mutex` is not fair, so nothing says that a
waiting thread gets the lock. `v_counts_converge` is refuted under the fairness of
`Balancer`.

## 4. What is proved

The theorems hold for every set of callers, threads and backends, every bound and,
but for what the table says, every setting of `MultiThread`, `CancelDials` and
`CancelAdmins`. The assumptions on the constants are named in the modules that
declare them: initial pools and builder requests list no backend twice
(`InitAssumption`, `RequestAssumption`: a `Box` has one owner), the parameters have
the types of the Rust code, and the values that stand for "nothing" differ from all
others.

| theorem | states | assumes besides |
|---|---|---|
| `TypeCorrect` | `Spec => [](TypeOK /\ Structure)` of `Balancer` | |
| `DialsUseThePool` | `Spec => []DialsLiveBackend` | |
| `LifecycleSafe` | `Spec => []BackendLifecycle` | |
| `VectorsStayAligned` | `Spec => []PoolAligned` | `~CancelAdmins`; `v_cancel_replace` shows why |
| `NothingPanics` | `Spec => []NoPanic` | `~CancelAdmins` |
| `CountsStaySafe` | `Spec => []NeverUndercounted` | `~CancelAdmins`, and `~MultiThread`; `v_drop_race` shows why |
| `DrainsAreRespected` | `Spec => DrainRespected`, an action property | RTTs and dials below the weight of the drain marker |
| `BalancerImplementsPool` | `Spec => ImplementsPool`, that is `P!Spec` | |
| `RoundRobinStaysEven` | `... => []RoundRobinEven` | `[][PoolUntouched]_vars` |
| `StickyStaysOnOne` | `... => []StickyOneBackend` | `[][PoolOnlyGrows]_vars` |
| `FailoverMovesOn` | `... => FailoverRotates`, an action property | `[][NeverShrinks]_vars`, `~CancelDials`; `v_failover` shows why |
| `FfiTypeCorrect` | `Spec => []TypeOK` of `Ffi` | |
| `SelectStaysInRange` | `Spec => []SelectInRange` | |
| `OnlyOverflowPoisons` | `Spec => []PoisonedByOverflow` | |
| `MetricsReadBackWhole` | `Spec => ReadbackWhole`, an action property | |
| `PicksStayProportional` | `Spec => []WeightedProportional` | |
| `ServiceTypeCorrect` | `Spec => []TypeOK` of `Service` | |
| `BuildIsSound` | `Spec => BuildSound`, an action property | |
| `AttemptsAreTimed` | `Spec => []AttemptTimed` | |
| `AttemptsAreBounded` | `Spec => []AttemptsBounded` | a custom policy states no `max_attempts` |
| `BackoffIsBounded` | `Spec => BackoffBounded`, an action property | |
| `BudgetIsKept` | `Spec => BudgetOverrun`, an action property | |
| `HealthTypeCorrect` | `Spec => []TypeOK` of `Health` | |
| `UnhealthyAfterFailures` | `Spec => UnhealthyNeedsFailures`, an action property | |
| `RecoveryAfterSuccesses` | `Spec => RecoveryNeedsSuccesses`, an action property | |
| `ShutdownLeavesMetrics` | `Spec => ShutdownIsClean`, an action property | |
| `DiscoveryTypeCorrect` | `Spec => []TypeOK` of `Discovery` | |
| `CopiesStayBounded` | `Spec => []CopiesBounded` | |
| `ManualBackendsKept` | `Spec => ManualKept`, an action property | |
| `RoundsAreExact` | `Spec => RoundIsExact`, an action property | |

With these every safety property of the runs that pass has its theorem.

**Types.** `TypeOK` alone is not inductive. A pick writes `metrics[idx]`,
`RemoveCommit` removes a row, the last step of a replacement uses what the first
one took: each keeps its type only because of what earlier steps left behind.
`Structure` states that: each admin operation is at one of its own awaits, none
has panicked, a dial in progress and an admin operation exclude each other
(`&mut self`), a dial sees a pool that is not empty, a pool emptied by
`replace_backends` or `shutdown` stays empty until the new one is committed, and
there is at least one metrics row and one id per backend, one row more while a
removal is pending. "At least", because a dropped admin future may leave extra
rows. The proof has lemmas on updating one row, removing one element of a
sequence and what each strategy's `pick` may return, then one step per action.

**Dials.** `DialInv` adds that a caller has no backend before its pick and that
from then on, while it borrows the balancer, `backends[idx]` is that backend.

**Alignment.** `AlignedInv` says by how much the three vectors may differ at the
awaits: a pending removal has one metrics row more, a replacement that has emptied
the pool has only its ids, all of them empty, and the name `add_backend` holds is
that of its backend. The difference is made good by the last step of the
operation, hence the assumption that it gets there.

**Ownership.** `BackendLifecycle` becomes inductive with `HandsOK`, which says
at which awaits an operation holds no backends. `LifecycleStep` then follows each
backend from one owner to the next: taken out of the pool, shut down from the
head of the list, moved from the caller into the pool, or dropped with the future.

**Counters.** A guard holds an index and a generation, not a backend. `KnownInv` says
why that is enough on one thread: while the generation is the guard's, its index still
denotes the backend it was counted on; a removal or replacement advances the generation
before it moves anything, so until it ends every open connection is a generation
behind and subtracts nothing; and a backend that enters has no callers, so its fresh
row is right. `NeverUndercounted` follows row by row, a pending removal shifting
the rows behind it (`Row`).

**The ledger.** `DrainsAreRespected` needs to know how large a row can become, also where
counts go wrong, so `LedgerInv` does not ask on which backend a caller was counted. It
says of every row that its open and failed dials are no more than its dials, that it
has room for the failure of every dial that may still report one at this index
(`MayFail`), and that callers waiting to pick keep it within `MaxDials`. A failing dial
takes one from `MayFail` and adds one error; a decrement of another backend's row only
makes the sum smaller; a row that enters or moves takes nobody with it, because admin
operations exclude dials.

**Drained backends.** The marker is `U32Max` recent errors, which weigh `500 * U32Max`.
`RowOK` bounds every other row by what its dials can have cost it, so an unmarked
row scores less as long as the RTT and the dials counted so far weigh less than the
marker. That is the numeric assumption; with the real `u32::MAX` it says that one backend
has fewer than about four billion dials and no RTT comes near the 68 years that the
marker weighs.

**Routing.** `EvenInv`: the rows before RoundRobin's cursor have been dialed once more
than those behind it. `PinnedInv`: whoever is counted is on the backend Sticky is pinned
to, and an index stays with its backend while nothing is removed. `FailoverInv`: the
primary is an index of the pool, and a dial that may report an error has told the
strategy how long the pool is, so that an error on the primary rotates it modulo that
length and an error elsewhere leaves it: of two dials that fail on one primary the second
finds it moved on. Each
needs what its hypothesis says of the admin calls: a removal shifts indices and a new
backend starts at no dials. A dial future that is dropped at its last lock reports no
error, hence `~CancelDials` for Failover.

**Refinement.** `Whereabouts` maps a backend to its place: `serving` in the pool
vector, `entering` or `leaving` in the hands of the admin operation, otherwise what
became of it. With the invariants above every caller's step is a `DialOn`,
`Connect`, `GiveUp`, `Close` or a stutter (`CallerRefines`), and every admin step
takes backends in or out, shuts one down, installs, abandons, or stutters
(`AdminRefines`). That guards of an older generation, and connections that outlive
their backend, are harmless to the pool follows: `Close` changes no place.

**The C handle.** `HandleInv` relates the threads inside a handle to its buffers: a
`select` between filling and picking has one row per backend, `scratch` is then
the conversion of those rows, it stays so until the next `select` fills it, and a
poisoned handle has no `select` in progress. Hence the index is in range whichever
strategy is found under the lock. Reading back needs that the conversion to
`TunnelMetrics` and back loses nothing (`RowRoundTrip`).

**Weighted picks.** `Proportional` compares the picks of each two backends,
multiplied out as the scan in `pick` does. `OneMore` is the arithmetic: the backend
with the fewest picks per weight may be picked once more without getting more than
one pick ahead. `RebuiltProportional` covers a change of the RTTs, which starts the
counts again; a rebuild that kept them would break the invariant.

**Construction.** `ConstructionInv` says what a build in progress has in hand: the
backends given, or the first so many of those its factories make, without
repetitions; and that it excludes a finished balancer. Hence only a request whose
factories have all run, and whose metrics match them, ends in a balancer.

**Attempts.** `CallInv` says that a call in flight keeps its balancer alive, that the
dial works with the options of that call, and that its timer was set when the attempt
began, so the handshake of a `TlsBackend` cannot restart it. `LimitInv` adds that a
sleep only begins below the limit. `dial_with_retry` never looks at `max_attempts()`;
the limit is kept because each built-in `should_retry` checks it, and a custom one
has to do the same, hence the assumption.

**Backoff and budget.** `PlanInv` says that the sleep a dial is in, or came from, was
planned by its policy for the attempt before it, and when the budget still allowed it.
`Power` is a recursive function; that it grows with the exponent is proved by
induction over the set of exponents for which it does. Jitter takes at most half,
so a delay is at least half of any delay no longer than itself.

**Health.** `StreakInv` gives the two counters their meaning: the newest results of a
backend are that many failures, or that many successes. `streak` is the history of the
last `MaxErrors` results. `ReturnedInv` says that
`shutdown` returns only when the task has ended.

**Discovery.** `RoundInv` follows a round of `reconcile` through its awaits, id by id:
while it removes (`Removing`), the slots of an id are those it found less the removals
made, and the ids still to remove account for the rest; while it adds (`Adding`), an id
it did not find has the answer's backends up to the descriptor it is at. Each loop
works from lists it read at the start of the round, and the Mutex keeps them true
(`Reconciling`). `BoundInv` is `CopiesBounded`; rounds do not add up because an id that
is there is not added. Manual backends have no id, and `None` is never in the list of
ids that are gone. The lemmas say what filtering does to appended, removed and
concatenated elements.

Not provable with the installed provers and left to TLC: liveness under fairness
(`DialCompletes`, `AdminCompletes`, `CallReturns`,
`DeadBackendDetected`, `LoopEnds`, `Converges`, `StoppedLoopEnds`), and that the
scanning loops return what `FirstBest` says for vectors of every length, which
`ScansFindFirstBest` compares on small ones.

## 5. Not modelled, and why

- **TLS beyond the dial**: `TlsConfig` reads certificate files and fills in a rustls
  configuration once, before any dial, and keeps no state of its own; the bytes of a
  connection are rustls's. Only the shape of `TlsBackend::dial` and the class of its
  errors matter to the other parts, and those are in `Retry`.
- **Reading and writing on connections** (`AsyncRead` and `AsyncWrite` of
  `GuardedConnection`, `TlsConnection`): pure forwarding.
- **The clients of DNS, Consul and etcd**: input/output. A lookup answers, fails or
  takes its time; what is made of the answer is in `Sources`.
- **`Error`, constants, the crate root**: `Error` occurs through the four classes the
  retry policies tell apart; the constants are used where they bite.
- **A custom strategy, backend or retry policy** may do what its trait allows. Backends
  answer, fail or hang; a custom policy that always retries is in `retry`; a strategy
  that returns an index out of range makes `dial` panic at `metrics[idx]`
  (`balancer.rs:173`) and is not modelled.
- **`Discovery` over `Balancer`** is not one state space: the loop holds the Mutex for a
  whole round and drops no future, so each balancer operation is one step, and
  `core` shows that operations that run to completion keep the pool aligned
  and complete.
- **Two threads that administer one C handle**, and a call racing
  `rota_lb_destroy`, are outside what the interface allows.
