--------------------------------- MODULE Ffi ---------------------------------
(***************************************************************************)
(* The C interface (src/src/ffi/api.rs): one FfiLoadBalancer handle used   *)
(* by several threads.  The handle has two std Mutexes, scratch and        *)
(* strategy, and a plain field, strategy_kind.  rota_lb_select holds       *)
(* scratch while it takes strategy, so who holds scratch is state;         *)
(* strategy is held only around a computation that does not block, so      *)
(* taking it, using it and releasing it is one step.                       *)
(***************************************************************************)
EXTENDS Strategies

CONSTANTS
    Thread,     \* callers
    Admin,      \* the callers that also call set_strategy, reset, create, destroy
    Sizes,      \* values of n passed to rota_lb_create
    Rows,       \* FfiMetric rows a caller may pass; rtt 0 means not measured
    Kinds,      \* strategy_kind arguments
    Free, NoPick, NoOut,
    U64Max,     \* u64::MAX in the unit of the scores
    MaxPicks    \* bound: WeightedRoundRobin picks of one backend

ASSUME ThreadAssumption == Admin \subseteq Thread /\ Free \notin Thread
ASSUME ArgumentAssumption ==
    /\ Sizes \subseteq Nat /\ Kinds \subseteq Kind /\ {MaxPicks, U64Max} \subseteq Nat
    /\ Rows \subseteq [rtt: Nat, active_connections: Nat, recent_errors: 0..U32Max,
                       total_dials: Nat, total_errors: Nat]

VARIABLES
    checked,        \* the build has overflow checks (debug) or wraps (release)
    live,           \* the handle exists
    strategy,       \* Mutex<Box<dyn BalanceStrategy>>
    strategy_kind,  \* read and written outside any lock
    backend_count,
    scratch,        \* Mutex<Vec<TunnelMetrics>>
    scratch_lock,   \* the thread that holds it, or Free
    poisoned,       \* a panic was caught while both Mutexes were held
    calls,          \* where each thread is, with its local variables
    given,          \* the rows of the last select that filled scratch (history)
    last,           \* the pick before this one by the same strategy object (history)
    out             \* what rota_lb_metrics returned last

vars == <<checked, live, strategy, strategy_kind, backend_count, scratch, scratch_lock,
          poisoned, calls, given, last, out>>

Idle == [pc |-> "idle", rows |-> <<>>, kind |-> "round_robin"]

Call == [pc: {"idle", "fill", "pick", "reset"}, rows: Seq(Rows), kind: Kind]

\* Only Failover is told the pool size when it is built.
Build(kind, n) == IF kind = "failover" THEN [NewStrategy(kind) EXCEPT !.len = n]
                  ELSE NewStrategy(kind)

FfiToTunnel(m) == [m EXCEPT !.rtt = IF @ = 0 THEN NoRtt ELSE @]

ZeroMetric == [rtt |-> 0, active_connections |-> 0, recent_errors |-> 0,
               total_dials |-> 0, total_errors |-> 0]

\* A missing RTT reads back as 0.
TunnelToFfi(m) == [m EXCEPT !.rtt = IF @ = NoRtt THEN 0 ELSE @]

Ready(t) == live /\ calls[t].pc = "idle"

-----------------------------------------------------------------------------

Init ==
    /\ checked \in BOOLEAN /\ live = FALSE /\ poisoned = FALSE
    /\ strategy = NewStrategy("round_robin") /\ strategy_kind = "round_robin"
    /\ backend_count = 0
    /\ scratch = <<>> /\ scratch_lock = Free
    /\ calls = [t \in Thread |-> Idle]
    /\ given = NoOut /\ last = NoPick /\ out = NoOut

\* n = 0 returns null.
Create(n, kind) ==
    /\ ~live
    /\ n > 0
    /\ live' = TRUE /\ poisoned' = FALSE
    /\ strategy' = Build(kind, n) /\ strategy_kind' = kind
    /\ backend_count' = n
    /\ scratch' = <<>> /\ given' = NoOut /\ last' = NoPick /\ out' = NoOut
    /\ UNCHANGED <<checked, scratch_lock, calls>>

\* The caller must not use the handle any more, in any thread.
Destroy ==
    /\ live
    /\ \A t \in Thread : calls[t].pc = "idle"
    /\ live' = FALSE
    /\ UNCHANGED <<checked, strategy, strategy_kind, backend_count, scratch, scratch_lock,
                   poisoned, calls, given, last, out>>

RowsUnchecked == [1..(backend_count + 1) -> Rows]
RowsAccepted == [1..backend_count -> Rows]

Unguarded == scratch_lock = Free
Lockable == scratch_lock = Free /\ ~poisoned

\* rota_lb_select up to scratch.clear(); it returns u32::MAX for another number
\* of rows and once the Mutex is poisoned.
SelectLock(t) ==
    /\ Ready(t)
    /\ Lockable
    /\ \A i \in 1..Len(strategy.picks) : strategy.picks[i] < MaxPicks
    /\ \E rows \in RowsAccepted :
           calls' = [calls EXCEPT ![t] = [@ EXCEPT !.pc = "fill", !.rows = rows]]
    /\ scratch_lock' = t
    /\ scratch' = <<>>
    /\ UNCHANGED <<checked, live, strategy, strategy_kind, backend_count, poisoned, given,
                   last, out>>

\* scratch.extend(...)
SelectFill(t) ==
    /\ calls[t].pc = "fill"
    /\ scratch' = [i \in 1..Len(calls[t].rows) |-> FfiToTunnel(calls[t].rows[i])]
    /\ calls' = [calls EXCEPT ![t].pc = "pick"]
    /\ given' = calls[t].rows
    /\ UNCHANGED <<checked, live, strategy, strategy_kind, backend_count, scratch_lock,
                   poisoned, last, out>>

\* HealthWeighted adds three u64: the sum may exceed u64::MAX when a caller
\* passes an enormous RTT.
Overflows == strategy.kind = "health_weighted"
             /\ \E i \in 1..Len(scratch) : Score(scratch[i]) > U64Max

Wrapped(m) == [i \in 1..Len(m) |-> Score(m[i]) % (U64Max + 1)]

Picks(addr) ==
    IF strategy.kind = "health_weighted"
    THEN FirstBest(Len(scratch), LAMBDA i, j : Wrapped(scratch)[i + 1] < Wrapped(scratch)[j + 1])
    ELSE PickIndex(strategy, addr, scratch)

ReleaseNothing(t) ==
    /\ calls' = [calls EXCEPT ![t] = Idle]
    /\ UNCHANGED scratch_lock
ReleaseScratch(t) ==
    /\ calls' = [calls EXCEPT ![t] = Idle]
    /\ scratch_lock' = Free

\* The strategy lock is taken, pick runs on scratch, both locks are released.
SelectPick(t) ==
    /\ calls[t].pc = "pick"
    /\ ~(checked /\ Overflows)
    /\ \E addr \in Addr : \E i \in Picks(addr) :
           /\ strategy' = AfterPick(strategy, scratch, i)
           /\ last' = i
    /\ ReleaseScratch(t)
    /\ UNCHANGED <<checked, live, strategy_kind, backend_count, scratch, poisoned, given,
                   out>>

\* With overflow checks pick panics.  catch_panic turns that into u32::MAX, but
\* the unwinding drops both guards and poisons both Mutexes.
SelectPanics(t) ==
    /\ calls[t].pc = "pick"
    /\ checked /\ Overflows
    /\ poisoned' = TRUE
    /\ ReleaseScratch(t)
    /\ UNCHANGED <<checked, live, strategy, strategy_kind, backend_count, scratch, given, last,
                   out>>

\* rota_lb_report_error and rota_lb_report_success, with any index.
Report(t) ==
    /\ Ready(t)
    /\ ~poisoned
    /\ \E idx \in 0..backend_count :
           strategy' \in {ReportError(strategy, idx), ReportSuccess(strategy, idx)}
    /\ UNCHANGED <<checked, live, strategy_kind, backend_count, scratch, scratch_lock,
                   poisoned, calls, given, last, out>>

\* What the read-back finds in scratch; an empty Vec when it is poisoned.
Snapshot == IF poisoned THEN <<>> ELSE scratch

Anytime == TRUE
ScratchFree == scratch_lock = Free

\* rota_lb_metrics: the rows of the last select, zeros before the first one.
Metrics(t) ==
    /\ Ready(t)
    /\ ScratchFree
    /\ out' = [i \in 1..backend_count |->
                 IF i <= Len(Snapshot) THEN TunnelToFfi(Snapshot[i]) ELSE ZeroMetric]
    /\ UNCHANGED <<checked, live, strategy, strategy_kind, backend_count, scratch,
                   scratch_lock, poisoned, calls, given, last>>

\* A poisoned handle refuses the swap (-1).
SetStrategy(t, kind) ==
    /\ Ready(t)
    /\ ~poisoned
    /\ strategy' = Build(kind, backend_count)
    /\ strategy_kind' = kind
    /\ last' = NoPick
    /\ UNCHANGED <<checked, live, backend_count, scratch, scratch_lock, poisoned, calls,
                   given, out>>

\* rota_lb_reset reads strategy_kind before it waits for the strategy lock, and
\* returns -1 when that is poisoned.
ResetStart(t) ==
    /\ Ready(t)
    /\ calls' = [calls EXCEPT ![t] = [@ EXCEPT !.pc = "reset", !.kind = strategy_kind]]
    /\ UNCHANGED <<checked, live, strategy, strategy_kind, backend_count, scratch,
                   scratch_lock, poisoned, given, last, out>>

Reset(t) ==
    /\ calls[t].pc = "reset"
    /\ calls' = [calls EXCEPT ![t] = Idle]
    /\ IF poisoned THEN UNCHANGED <<strategy, last>>
       ELSE strategy' = Build(calls[t].kind, backend_count) /\ last' = NoPick
    /\ UNCHANGED <<checked, live, strategy_kind, backend_count, scratch, scratch_lock,
                   poisoned, given, out>>

Continue(t) == SelectFill(t) \/ SelectPick(t) \/ SelectPanics(t) \/ Reset(t)

Next ==
    \/ \E n \in Sizes, k \in Kinds : Create(n, k)
    \/ Destroy
    \/ \E t \in Thread : SelectLock(t) \/ Continue(t) \/ Report(t) \/ Metrics(t)
    \/ \E t \in Admin : ResetStart(t) \/ \E k \in Kinds : SetStrategy(t, k)

Spec == Init /\ [][Next]_vars

-----------------------------------------------------------------------------
(* Properties.                                                             *)

\* Every variable keeps its type, and scratch is held exactly by the thread
\* between filling it and picking from it.
TypeOK ==
    /\ {checked, live, poisoned} \subseteq BOOLEAN
    /\ strategy \in Strategy /\ strategy_kind \in Kind
    /\ backend_count \in Nat
    /\ scratch \in Seq(TunnelMetrics)
    /\ calls \in [Thread -> Call]
    /\ \A t \in Thread : scratch_lock = t <=> calls[t].pc \in {"fill", "pick"}
    /\ last \in Nat \cup {NoPick}

\* Whatever threads do between two selects, an index handed out is one of
\* the handle's backends.
SelectInRange == last # NoPick => last < backend_count

\* WeightedRoundRobin stays within one pick of its weights, for the RTTs it
\* was last called with.
WeightedProportional ==
    \A i, j \in 1..Len(strategy.picks) : strategy.picks[i] > 0 =>
        (strategy.picks[i] - 1) * Weight(strategy.rtts[j]) <= strategy.picks[j] * Weight(strategy.rtts[i])

\* rota_lb_metrics returns the rows of one select call, unchanged: never a
\* half-filled buffer, and zeros only before the first select and for a
\* poisoned handle.
ReadbackWhole ==
    [][(\E t \in Thread : Metrics(t)) /\ given # NoOut
       => out' = IF poisoned THEN [i \in 1..backend_count |-> ZeroMetric] ELSE given]_vars

\* A handle stops serving only because of its last select, one that passed a row
\* whose score exceeds u64::MAX, in a build with overflow checks: no other rows,
\* strategy swap or race of threads makes it panic, and once it has, no thread
\* gets as far as filling scratch.
PoisonedByOverflow ==
    poisoned => checked /\ \E i \in 1..backend_count : Score(FfiToTunnel(given[i])) > U64Max
==============================================================================
