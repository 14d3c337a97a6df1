------------------------------- MODULE Balancer -------------------------------
(***************************************************************************)
(* LoadBalancer (src/src/services/balancer.rs): the backend pool, the      *)
(* per-backend metrics behind an async RwLock, the strategy behind an      *)
(* async Mutex, the generation counter, and the drop guard of every        *)
(* connection handed out.                                                  *)
(*                                                                         *)
(* Concurrency.  Any number of dials (&self) run together.  An admin       *)
(* operation (&mut self) runs alone with respect to dials and readers, but *)
(* not with respect to connections: a GuardedConnection owns its share of  *)
(* the metrics and of the generation and may be dropped at any moment.     *)
(* Every await is a point where another process runs or where the caller   *)
(* drops the future.  The strategy Mutex is never held across an await and *)
(* never tried without waiting, so locking it, using it and unlocking it   *)
(* is one step; the metrics lock is, so who holds it is state.             *)
(***************************************************************************)
EXTENDS Strategies, Vectors, FiniteSets, Functions

CONSTANTS
    Task,           \* callers of dial; each has at most one connection
    Backend,        \* Box<dyn Backend> values
    IdOf,           \* the service-discovery id each backend is registered under
    InitBackends,   \* the pool new_with_metrics is called with
    InitRtts,       \* RTTs that initial_metrics may seed
    Kinds,          \* strategies the balancer may be built with
    NewKinds,       \* strategies an admin may install later
    MultiThread,    \* guards are dropped on several threads
    CancelDials,    \* callers drop dial futures before they complete
    CancelAdmins,   \* callers drop admin futures before they complete
    NoBackend, NoId, NoKind,
    MaxDials,       \* bound: dials recorded for one backend
    MaxGeneration,  \* bound: removals and replacements
    MaxPool         \* bound: pool size

ASSUME TaskAssumption == IsFiniteSet(Task)
ASSUME BackendAssumption == NoBackend \notin Backend /\ NoId \notin {IdOf[b] : b \in Backend}
ASSUME InitAssumption ==
    /\ InitBackends \in Seq(Backend) /\ InitBackends # <<>> /\ IsInjective(InitBackends)
    /\ InitRtts \subseteq Rtt /\ InitRtts # {}
    /\ Kinds \subseteq Kind /\ Kinds # {} /\ NewKinds \subseteq Kind /\ NoKind \notin Kind
ASSUME ModeAssumption == {MultiThread, CancelDials, CancelAdmins} \subseteq BOOLEAN
ASSUME BoundAssumption == {MaxDials, MaxGeneration, MaxPool} \subseteq Nat
ASSUME HolderAssumption == {"free", "reader", "admin"} \cap Task = {}

VARIABLES
    backends,    \* Vec<Box<dyn Backend>>
    ids,         \* Vec<Option<String>>
    metrics,     \* Vec<TunnelMetrics>
    strategy,    \* Box<dyn BalanceStrategy>
    generation,  \* AtomicUsize, bumped by every removal and replacement
    lock,        \* who holds the metrics RwLock
    tasks,       \* where each caller of dial is, and its connection
    admin,       \* the admin operation in progress
    fate         \* what became of each backend (history)

vars == <<backends, ids, metrics, strategy, generation, lock, tasks, admin, fate>>

-----------------------------------------------------------------------------
(* States of the processes.                                                *)

\* A dial between its first await and its return: it borrows the balancer.
Dialing == {"metrics_wait", "strategy_wait", "dialing", "ok_wait", "ok_locked", "ok_report",
            "err_wait", "err_locked", "err_report"}

\* Between the increment of active_connections and its decrement.
Counted == {"dialing", "ok_wait", "ok_locked", "ok_report", "err_wait", "err_locked",
            "open", "dropping"}

TaskPc == Dialing \cup {"idle", "open", "dropping", "panicked"}

TaskState == [pc: TaskPc, idx: Nat, gen: Nat, be: Backend \cup {NoBackend}]

IdleTask == [pc |-> "idle", idx |-> 0, gen |-> 0, be |-> NoBackend]

\* An admin operation: which one, and the await it is at.
AdminOp == {"none", "add", "remove", "replace", "drain", "undrain", "shutdown", "closed",
            "panicked"}

AdminAt == {"none", "wait", "locked", "down", "strategy"}

Ids == {IdOf[b] : b \in Backend} \cup {NoId}

AdminState == [op: AdminOp, at: AdminAt, index: Nat, id: Ids, incoming: Seq(Backend),
               leaving: Seq(Backend), kind: Kind \cup {NoKind}]

IdleAdmin == [op |-> "none", at |-> "none", index |-> 0, id |-> NoId, incoming |-> <<>>,
              leaving |-> <<>>, kind |-> NoKind]

Fate == {"fresh", "owned", "down", "dropped"}

\* &mut self: no dial and no reader borrows the balancer.
LbShared == admin.op = "none"
LbExclusive == /\ admin.op = "none"
               /\ \A t \in Task : tasks[t].pc \notin Dialing
               /\ lock # "reader"

-----------------------------------------------------------------------------
(* new, new_with_metrics.  Of the rows that initial_metrics may seed, the   *)
(* RTT is taken: the counters start at zero.                               *)

Init ==
    /\ backends = InitBackends
    /\ ids = [i \in 1..Len(InitBackends) |-> NoId]
    /\ metrics \in {[i \in 1..Len(InitBackends) |-> [DefaultMetrics EXCEPT !.rtt = r[i]]] :
                       r \in [1..Len(InitBackends) -> InitRtts]}
    /\ strategy \in {NewStrategy(k) : k \in Kinds}
    /\ generation = 0
    /\ lock = "free"
    /\ tasks = [t \in Task |-> IdleTask]
    /\ admin = IdleAdmin
    /\ fate = [b \in Backend |->
                 IF b \in Range(InitBackends) THEN "owned" ELSE "fresh"]

-----------------------------------------------------------------------------
(* dial.                                                                   *)

PcOf(t) == tasks[t].pc

Goto(t, pc) == tasks' = [tasks EXCEPT ![t].pc = pc]

\* Bound: keeps total_dials of every backend at most MaxDials.
WithinDialBudget ==
    \A i \in 1..Len(metrics) :
        metrics[i].total_dials
            + Cardinality({t \in Task : PcOf(t) \in {"metrics_wait", "strategy_wait"}}) < MaxDials

\* dial_with_options up to its first await; an invalid address or an empty
\* pool returns an error and changes nothing.
DialStart(t) ==
    /\ PcOf(t) = "idle"
    /\ admin.op = "none"
    /\ backends # <<>>
    /\ WithinDialBudget
    /\ Goto(t, "metrics_wait")
    /\ UNCHANGED <<backends, ids, metrics, strategy, generation, lock, admin, fate>>

\* The metrics write lock is granted; the strategy lock is still awaited.
PickAcquire(t) ==
    /\ PcOf(t) = "metrics_wait"
    /\ lock = "free"
    /\ lock' = t
    /\ Goto(t, "strategy_wait")
    /\ UNCHANGED <<backends, ids, metrics, strategy, generation, admin, fate>>

Picked(m) == [m EXCEPT !.active_connections = @ + 1, !.total_dials = @ + 1]

\* Pick index i under both locks, count the connection, release, read the
\* generation and index the pool for the first attempt.
PickAt(t, i) ==
    /\ strategy' = AfterPick(strategy, metrics, i)
    /\ metrics' = [metrics EXCEPT ![i + 1] = Picked(@)]
    /\ tasks' = [tasks EXCEPT ![t] =
           IF i < Len(backends)
           THEN [pc |-> "dialing", idx |-> i, gen |-> generation, be |-> backends[i + 1]]
           ELSE [IdleTask EXCEPT !.pc = "panicked"]]
    /\ lock' = "free"
    /\ UNCHANGED <<backends, ids, generation, admin, fate>>

Pick(t) ==
    /\ PcOf(t) = "strategy_wait"
    /\ \E addr \in Addr : \E i \in PickIndex(strategy, addr, metrics) : PickAt(t, i)

\* dial_with_retry returns; its attempts all use the same index (see Retry).
DialReturns(t) ==
    /\ PcOf(t) = "dialing"
    /\ \E pc \in {"ok_wait", "err_wait"} : Goto(t, pc)
    /\ UNCHANGED <<backends, ids, metrics, strategy, generation, lock, admin, fate>>

RecordAcquire(t) ==
    /\ PcOf(t) \in {"ok_wait", "err_wait"}
    /\ lock = "free"
    /\ lock' = t
    /\ Goto(t, IF PcOf(t) = "ok_wait" THEN "ok_locked" ELSE "err_locked")
    /\ UNCHANGED <<backends, ids, metrics, strategy, generation, admin, fate>>

SatSub(n) == IF n > 0 THEN n - 1 ELSE 0

Succeeded(m) == [m EXCEPT !.recent_errors = 0]

FailedWithoutSaturation(m) == [m EXCEPT !.active_connections = SatSub(@),
                                        !.recent_errors = @ + 1, !.total_errors = @ + 1]
Failed(m) == [m EXCEPT !.active_connections = SatSub(@),
                       !.recent_errors = IF @ < U32Max THEN @ + 1 ELSE @,
                       !.total_errors = @ + 1]

\* metrics.get_mut(idx): nothing happens past the end.
Update(idx, F(_)) == IF idx < Len(metrics)
                     THEN [metrics EXCEPT ![idx + 1] = F(@)] ELSE metrics

\* handle_dial_success, handle_dial_error up to the strategy lock.
RecordSuccess(t) ==
    /\ PcOf(t) = "ok_locked"
    /\ metrics' = Update(tasks[t].idx, Succeeded)
    /\ lock' = "free"
    /\ Goto(t, "ok_report")
    /\ UNCHANGED <<backends, ids, strategy, generation, admin, fate>>

RecordErrorKeepsLock(t) ==
    /\ PcOf(t) = "err_locked"
    /\ metrics' = Update(tasks[t].idx, Failed)
    /\ Goto(t, "err_report")
    /\ UNCHANGED <<backends, ids, strategy, generation, lock, admin, fate>>

RecordError(t) ==
    /\ PcOf(t) = "err_locked"
    /\ metrics' = Update(tasks[t].idx, Failed)
    /\ lock' = "free"
    /\ Goto(t, "err_report")
    /\ UNCHANGED <<backends, ids, strategy, generation, admin, fate>>

\* The strategy is told; the caller gets its guarded connection or its error.
ReportOk(t) ==
    /\ PcOf(t) = "ok_report"
    /\ strategy' = ReportSuccess(strategy, tasks[t].idx)
    /\ Goto(t, "open")
    /\ UNCHANGED <<backends, ids, metrics, generation, lock, admin, fate>>

ReportErr(t) ==
    /\ PcOf(t) = "err_report"
    /\ strategy' = ReportError(strategy, tasks[t].idx)
    /\ tasks' = [tasks EXCEPT ![t] = IdleTask]
    /\ UNCHANGED <<backends, ids, metrics, generation, lock, admin, fate>>

\* The caller drops the dial future at an await: a held lock is released, a
\* counted connection stays counted.
CancelDial(t) ==
    /\ CancelDials
    /\ PcOf(t) \in Dialing \ {"ok_locked", "err_locked"}
    /\ lock' = IF lock = t THEN "free" ELSE lock
    /\ tasks' = [tasks EXCEPT ![t] = IdleTask]
    /\ UNCHANGED <<backends, ids, metrics, strategy, generation, admin, fate>>

-----------------------------------------------------------------------------
(* Drop for ActiveConnectionGuard.  into_inner drops the guard and keeps   *)
(* the connection, which from then on nobody counts: a caller is "open"    *)
(* while it has a guarded connection.                                      *)

Dropped(m) == [m EXCEPT !.active_connections = SatSub(@)]

GenerationUnchecked(t) == t \in Task
GenerationCurrent(t) == tasks[t].gen = generation

\* try_write: decrement if the lock can be had at once, give up otherwise.
TryDecrement(t) ==
    /\ metrics' = IF lock = "free" THEN Update(tasks[t].idx, Dropped) ELSE metrics
    /\ tasks' = [tasks EXCEPT ![t] = IdleTask]

\* On one thread nothing runs between the generation check and try_write.
GuardDrop(t) ==
    /\ ~MultiThread
    /\ PcOf(t) = "open"
    /\ IF GenerationCurrent(t) THEN TryDecrement(t)
       ELSE metrics' = metrics /\ tasks' = [tasks EXCEPT ![t] = IdleTask]
    /\ UNCHANGED <<backends, ids, strategy, generation, lock, admin, fate>>

GuardDropCheck(t) ==
    /\ MultiThread
    /\ PcOf(t) = "open"
    /\ tasks' = [tasks EXCEPT ![t] =
                    IF GenerationCurrent(t) THEN [@ EXCEPT !.pc = "dropping"] ELSE IdleTask]
    /\ UNCHANGED <<backends, ids, metrics, strategy, generation, lock, admin, fate>>

GuardDropTry(t) ==
    /\ PcOf(t) = "dropping"
    /\ TryDecrement(t)
    /\ UNCHANGED <<backends, ids, strategy, generation, lock, admin, fate>>

-----------------------------------------------------------------------------
(* metrics() and is_draining(): the read lock is held while copying.       *)

ReadAcquire ==
    /\ admin.op = "none"
    /\ lock = "free"
    /\ lock' = "reader"
    /\ UNCHANGED <<backends, ids, metrics, strategy, generation, tasks, admin, fate>>

ReadRelease ==
    /\ lock = "reader"
    /\ lock' = "free"
    /\ UNCHANGED <<backends, ids, metrics, strategy, generation, tasks, admin, fate>>

-----------------------------------------------------------------------------
(* Admin operations.                                                       *)

Begin(op, at) == [IdleAdmin EXCEPT !.op = op, !.at = at]

\* The metrics write lock is granted to the admin operation.
AdminAcquire ==
    /\ admin.at = "wait"
    /\ lock = "free"
    /\ lock' = "admin"
    /\ admin' = [admin EXCEPT !.at = "locked"]
    /\ UNCHANGED <<backends, ids, metrics, strategy, generation, tasks, fate>>

\* add_backend, add_backend_with_id.
AddStart(b, id) ==
    /\ LbExclusive
    /\ fate[b] = "fresh"
    /\ Len(backends) < MaxPool
    /\ admin' = [Begin("add", "wait") EXCEPT !.incoming = <<b>>, !.id = id]
    /\ fate' = [fate EXCEPT ![b] = "owned"]
    /\ UNCHANGED <<backends, ids, metrics, strategy, generation, lock, tasks>>

AddCommitForgetsId ==
    /\ admin.op = "add" /\ admin.at = "locked"
    /\ backends' = backends \o admin.incoming
    /\ metrics' = Append(metrics, DefaultMetrics)
    /\ lock' = "free"
    /\ admin' = IdleAdmin
    /\ UNCHANGED <<ids, strategy, generation, tasks, fate>>

AddCommit ==
    /\ admin.op = "add" /\ admin.at = "locked"
    /\ backends' = backends \o admin.incoming
    /\ ids' = Append(ids, admin.id)
    /\ metrics' = Append(metrics, DefaultMetrics)
    /\ lock' = "free"
    /\ admin' = IdleAdmin
    /\ UNCHANGED <<strategy, generation, tasks, fate>>

\* remove_backend up to its first await: the pool shrinks before the metrics.
RemoveBackend(i) ==
    /\ LbExclusive
    /\ i < Len(backends)
    /\ generation < MaxGeneration
    /\ generation' = generation + 1
    /\ backends' = RemoveAt(backends, i + 1)
    /\ ids' = RemoveAt(ids, i + 1)
    /\ admin' = [Begin("remove", "wait") EXCEPT !.index = i, !.leaving = <<backends[i + 1]>>]
    /\ UNCHANGED <<metrics, strategy, lock, tasks, fate>>

\* The first position with this pointer, or with this id.
RemoveBackendByPtr(b) == \E i \in 1..Len(backends) :
    /\ backends[i] = b /\ \A j \in 1..(i - 1) : backends[j] # b
    /\ RemoveBackend(i - 1)

RemoveBackendById(id) == \E i \in 1..Len(ids) :
    /\ ids[i] = id /\ \A j \in 1..(i - 1) : ids[j] # id
    /\ RemoveBackend(i - 1)

\* Vec::remove panics past the end.
RemoveCommit ==
    /\ admin.op = "remove" /\ admin.at = "locked"
    /\ lock' = "free"
    /\ IF admin.index < Len(metrics)
       THEN /\ metrics' = RemoveAt(metrics, admin.index + 1)
            /\ admin' = [admin EXCEPT !.at = "down"]
       ELSE /\ admin' = Begin("panicked", "none")
            /\ UNCHANGED metrics
    /\ UNCHANGED <<backends, ids, strategy, generation, tasks, fate>>

\* One awaited Backend::shutdown, in remove_backend, replace_backends or shutdown.
ShutdownTwice ==
    /\ admin.at = "down"
    /\ admin.leaving # <<>>
    /\ fate' = [fate EXCEPT ![Head(admin.leaving)] = "down"]
    /\ UNCHANGED <<backends, ids, metrics, strategy, generation, lock, tasks, admin>>

BackendShutdown ==
    /\ admin.at = "down"
    /\ admin.leaving # <<>>
    /\ fate' = [fate EXCEPT ![Head(admin.leaving)] = "down"]
    /\ admin' = [admin EXCEPT !.leaving = Tail(@)]
    /\ UNCHANGED <<backends, ids, metrics, strategy, generation, lock, tasks>>

RemoveEnd ==
    /\ admin.op = "remove" /\ admin.at = "down" /\ admin.leaving = <<>>
    /\ admin' = IdleAdmin
    /\ UNCHANGED <<backends, ids, metrics, strategy, generation, lock, tasks, fate>>

\* replace_backends: drain(..) empties the pool at once and then shuts the old
\* backends down one by one.
ReplaceStart(new, kind) ==
    /\ LbExclusive
    /\ new # <<>> /\ IsInjective(new) /\ \A b \in Range(new) : fate[b] = "fresh"
    /\ generation < MaxGeneration
    /\ generation' = generation + 1
    /\ backends' = <<>>
    /\ admin' = [Begin("replace", "down") EXCEPT !.incoming = new, !.leaving = backends,
                                                !.kind = kind]
    /\ fate' = [b \in Backend |-> IF b \in Range(new) THEN "owned" ELSE fate[b]]
    /\ UNCHANGED <<ids, metrics, strategy, lock, tasks>>

ReplaceIdsEarly ==
    /\ admin.op = "replace" /\ admin.at = "down"
    /\ ids' = [i \in 1..Len(admin.incoming) |-> NoId]
    /\ admin' = [admin EXCEPT !.at = "wait"]
    /\ UNCHANGED <<backends, metrics, strategy, generation, lock, tasks, fate>>

ReplaceIds ==
    /\ admin.op = "replace" /\ admin.at = "down" /\ admin.leaving = <<>>
    /\ ids' = [i \in 1..Len(admin.incoming) |-> NoId]
    /\ admin' = [admin EXCEPT !.at = "wait"]
    /\ UNCHANGED <<backends, metrics, strategy, generation, lock, tasks, fate>>

ReplaceCommit ==
    /\ admin.op = "replace" /\ admin.at = "locked"
    /\ metrics' = [i \in 1..Len(admin.incoming) |-> DefaultMetrics]
    /\ backends' = admin.incoming
    /\ lock' = "free"
    /\ admin' = IF admin.kind = NoKind THEN IdleAdmin
                ELSE [admin EXCEPT !.at = "strategy", !.incoming = <<>>]
    /\ UNCHANGED <<ids, strategy, generation, tasks, fate>>

ReplaceStrategy ==
    /\ admin.op = "replace" /\ admin.at = "strategy"
    /\ strategy' = NewStrategy(admin.kind)
    /\ admin' = IdleAdmin
    /\ UNCHANGED <<backends, ids, metrics, generation, lock, tasks, fate>>

DrainStart(i) ==
    /\ LbExclusive
    /\ i < Len(backends)
    /\ admin' = [Begin("drain", "wait") EXCEPT !.index = i]
    /\ UNCHANGED <<backends, ids, metrics, strategy, generation, lock, tasks, fate>>

UndrainStart(i) ==
    /\ LbExclusive
    /\ admin' = [Begin("undrain", "wait") EXCEPT !.index = i]
    /\ UNCHANGED <<backends, ids, metrics, strategy, generation, lock, tasks, fate>>

Drained(m) == [m EXCEPT !.recent_errors = U32Max]

Undrained(m) == [m EXCEPT !.recent_errors = IF @ = U32Max THEN 0 ELSE @]

DrainCommitKeepsLock ==
    /\ admin.op \in {"drain", "undrain"} /\ admin.at = "locked"
    /\ metrics' = IF admin.op = "drain" THEN Update(admin.index, Drained)
                  ELSE Update(admin.index, Undrained)
    /\ admin' = IdleAdmin
    /\ UNCHANGED <<backends, ids, strategy, generation, lock, tasks, fate>>

DrainCommit ==
    /\ admin.op \in {"drain", "undrain"} /\ admin.at = "locked"
    /\ metrics' = IF admin.op = "drain" THEN Update(admin.index, Drained)
                  ELSE Update(admin.index, Undrained)
    /\ lock' = "free"
    /\ admin' = IdleAdmin
    /\ UNCHANGED <<backends, ids, strategy, generation, tasks, fate>>

SetStrategy(kind) ==
    /\ LbExclusive
    /\ strategy' = NewStrategy(kind)
    /\ UNCHANGED <<backends, ids, metrics, generation, lock, tasks, admin, fate>>

\* shutdown(self) consumes the balancer; connections and their guards live on.
ShutdownStart ==
    /\ LbExclusive
    /\ backends' = <<>>
    /\ admin' = [Begin("shutdown", "down") EXCEPT !.leaving = backends]
    /\ UNCHANGED <<ids, metrics, strategy, generation, lock, tasks, fate>>

ShutdownEnd ==
    /\ admin.op = "shutdown" /\ admin.leaving = <<>>
    /\ admin' = Begin("closed", "none")
    /\ UNCHANGED <<backends, ids, metrics, strategy, generation, lock, tasks, fate>>

\* The caller drops the admin future at an await: the backends it holds are
\* dropped with it, what it already changed stays changed.
CancelAdmin ==
    /\ CancelAdmins
    /\ admin.at \in {"wait", "down", "strategy"}
    /\ fate' = [b \in Backend |->
                  IF b \in Range(admin.leaving) \cup Range(admin.incoming)
                  THEN "dropped" ELSE fate[b]]
    /\ admin' = IF admin.op = "shutdown" THEN Begin("closed", "none") ELSE IdleAdmin
    /\ UNCHANGED <<backends, ids, metrics, strategy, generation, lock, tasks>>

-----------------------------------------------------------------------------

\* Nothing is in progress and the callers want nothing more.
Quiet ==
    /\ admin.op \in {"none", "closed", "panicked"}
    /\ lock = "free"
    /\ \A t \in Task : PcOf(t) \in {"idle", "panicked"}
    /\ UNCHANGED vars

\* What the balancer does on its own once a call has started.
TaskStep(t) ==
    \/ PickAcquire(t) \/ Pick(t) \/ DialReturns(t) \/ RecordAcquire(t)
    \/ RecordSuccess(t) \/ RecordError(t) \/ ReportOk(t) \/ ReportErr(t)
    \/ GuardDropTry(t)

AdminStep ==
    \/ AdminAcquire \/ AddCommit \/ RemoveCommit \/ BackendShutdown \/ RemoveEnd
    \/ ReplaceIds \/ ReplaceCommit \/ ReplaceStrategy \/ DrainCommit \/ ShutdownEnd

\* What callers choose to do.
TaskCall(t) == DialStart(t) \/ CancelDial(t) \/ GuardDrop(t) \/ GuardDropCheck(t)

AdminCall ==
    \/ \E b \in Backend, id \in Ids : id \in {NoId, IdOf[b]} /\ AddStart(b, id)
    \/ \E i \in 0..(MaxPool - 1) : RemoveBackend(i) \/ DrainStart(i) \/ UndrainStart(i)
    \/ \E b \in Backend : RemoveBackendByPtr(b) \/ RemoveBackendById(IdOf[b])
    \/ \E n \in 1..MaxPool : \E new \in [1..n -> Backend], k \in NewKinds \cup {NoKind} :
            ReplaceStart(new, k)
    \/ \E k \in NewKinds : SetStrategy(k)
    \/ ShutdownStart
    \/ CancelAdmin

Next ==
    \/ \E t \in Task : TaskStep(t) \/ TaskCall(t)
    \/ AdminStep \/ AdminCall
    \/ ReadAcquire \/ ReadRelease
    \/ Quiet

Spec == Init /\ [][Next]_vars

\* The runtime polls every ready task and every lock of tokio is FIFO: a call
\* that has started goes on, and a waiter is not overtaken for ever.
Fairness ==
    /\ \A t \in Task : SF_vars(PickAcquire(t)) /\ SF_vars(RecordAcquire(t)) /\ WF_vars(TaskStep(t))
    /\ SF_vars(AdminAcquire) /\ WF_vars(AdminStep) /\ WF_vars(ReadRelease)

FairSpec == Spec /\ Fairness

-----------------------------------------------------------------------------
(* Properties.                                                             *)

\* Every variable keeps its type.
TypeOK ==
    /\ backends \in Seq(Backend)
    /\ ids \in Seq(Ids)
    /\ metrics \in Seq(TunnelMetrics)
    /\ strategy \in Strategy
    /\ generation \in Nat
    /\ lock \in Task \cup {"free", "reader", "admin"}
    /\ tasks \in [Task -> TaskState]
    /\ admin \in AdminState
    /\ fate \in [Backend -> Fate]

\* Whenever a dial may start, the three parallel vectors of LoadBalancer have
\* one entry per backend, and an entry of ids is the id its backend was added
\* under: every add, remove and replace moves the three together although it
\* awaits the metrics lock halfway.
PoolAligned ==
    admin.op = "none" =>
        /\ Len(ids) = Len(backends)
        /\ Len(metrics) = Len(backends)
        /\ \A i \in 1..Len(backends) : ids[i] \in {NoId, IdOf[backends[i]]}

\* No index panics: neither self.backends[idx] in dial_with_retry nor
\* Vec::remove in remove_backend is ever past the end.
NoPanic ==
    /\ admin.op # "panicked"
    /\ \A t \in Task : PcOf(t) # "panicked"

Live(b) == {t \in Task : PcOf(t) \in Counted /\ tasks[t].be = b}

\* remove_backend shrinks the pool first and its metrics row later.
RemovePending == admin.op = "remove" /\ admin.at \in {"wait", "locked"}

\* The metrics row of backends[i].
Row(i) == IF RemovePending /\ i > admin.index THEN i + 1 ELSE i

\* active_connections may be inflated but is never below the number of dials
\* in progress and guarded connections still open on that backend, whatever is
\* added, removed, cancelled or dropped meanwhile.
NeverUndercounted ==
    \A i \in 1..Len(backends) :
        Cardinality(Live(backends[i])) <= metrics[Row(i)].active_connections

\* Nobody dials, holds a guarded connection, reads or administers.
AtRest == admin.op = "none" /\ lock = "free" /\ \A t \in Task : PcOf(t) = "idle"

\* What the comment on active_connections says: a decrement that a guard gave up
\* because the lock was contended is made good once contention subsides.  If the
\* balancer comes to rest again and again, it does so with no connection counted.
CountsConverge ==
    []<>AtRest => []<>(AtRest /\ \A i \in 1..Len(metrics) : metrics[i].active_connections = 0)

\* The backends the balancer owns are exactly the ones in the pool or in the
\* hands of an admin operation, each in one place: none is leaked, none is
\* shut down twice, none is dialed after its shutdown.
BackendLifecycle ==
    LET pool == Range(backends)
        out == Range(admin.leaving)
        in == Range(admin.incoming)
    IN  /\ IsInjective(backends) /\ IsInjective(admin.leaving) /\ IsInjective(admin.incoming)
        /\ pool \cap out = {} /\ pool \cap in = {} /\ out \cap in = {}
        /\ {b \in Backend : fate[b] = "owned"} = pool \cup out \cup in

\* A dial in progress uses a backend that is in the pool and not shut down.
DialsLiveBackend ==
    \A t \in Task : PcOf(t) \in Dialing /\ tasks[t].be # NoBackend =>
        \E i \in 1..Len(backends) : backends[i] = tasks[t].be /\ i = tasks[t].idx + 1

\* On a fixed pool RoundRobin's dial counts differ by at most one, however
\* the dials interleave and fail.
RoundRobinEven ==
    strategy.kind = "round_robin" => \A i, j \in 1..Len(metrics) :
        metrics[i].total_dials <= metrics[j].total_dials + 1

\* Sticky: all connections on backends still in the pool are on one backend.
StickyOneBackend ==
    strategy.kind = "sticky" => \A i, j \in 1..Len(backends) :
        Live(backends[i]) # {} /\ Live(backends[j]) # {} => i = j

\* The backend Failover routes the next dial to.
FailoverTarget == strategy.primary % Len(metrics)

\* Failover: the failure of a dial on the backend it is routing to sends the next
\* dial to the one after it, and the failure of a dial on any other backend moves
\* nothing: several dials that fail on one backend together rotate once.
FailoverRotates ==
    [][\A t \in Task :
         PcOf(t) = "err_report" /\ PcOf(t)' = "idle" /\ strategy.kind = "failover" =>
             FailoverTarget' = IF tasks[t].idx = FailoverTarget
                               THEN (tasks[t].idx + 1) % Len(metrics) ELSE FailoverTarget]_vars

\* Under HealthWeighted a backend that drain_backend marked receives no new
\* connection while an unmarked one is in the pool: the marker outweighs every
\* RTT, load and error count below it.
DrainRespected ==
    [][\A t \in Task : \A i \in 1..Len(metrics) :
         /\ strategy.kind = "health_weighted"
         /\ PcOf(t) = "strategy_wait" /\ PcOf(t)' = "dialing" /\ tasks'[t].idx + 1 = i
         /\ metrics[i].recent_errors = U32Max
         => \A j \in 1..Len(metrics) : metrics[j].recent_errors = U32Max]_vars

\* Every dial that starts returns a connection or an error.
DialCompletes == \A t \in Task : PcOf(t) = "metrics_wait" ~> PcOf(t) \in {"idle", "open"}

\* Every admin operation that starts ends, and then no backend is left
\* between the pool and its shutdown.
AdminCompletes == admin.op # "none" ~> (admin.op \in {"none", "closed"} /\ admin.leaving = <<>>)
-----------------------------------------------------------------------------
(* Refinement.                                                             *)

\* Where a backend is: in the vector, in the hands of the admin operation, or
\* where its fate has left it.
Whereabouts ==
    [b \in Backend |->
        IF b \in Range(backends) THEN "serving"
        ELSE IF b \in Range(admin.incoming) THEN "entering"
        ELSE IF b \in Range(admin.leaving) THEN "leaving"
        ELSE fate[b]]

UsedBy(pcs) == [t \in Task |-> IF PcOf(t) \in pcs THEN tasks[t].be ELSE NoBackend]

P == INSTANCE Pool WITH Caller <- Task, place <- Whereabouts, dials <- UsedBy(Dialing),
                        conns <- UsedBy({"open", "dropping"})

\* The balancer keeps the promises of Pool: a dial uses a backend that serves
\* from its pick to its return, admin operations exclude dials and each other
\* although they await halfway, a backend goes through its life once, and the
\* new ones of replace_backends serve only when the old ones are shut down.
ImplementsPool == P!Spec
===============================================================================
