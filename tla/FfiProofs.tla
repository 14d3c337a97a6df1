------------------------------ MODULE FfiProofs ------------------------------
(* Safety of the C interface, for any threads, sizes and rows. *)
EXTENDS Ffi, SharedFacts

\* What a C row becomes in scratch is a metrics row, and reads back as it was.
LEMMA RowRoundTrip ==
    ASSUME NEW r \in Rows
    PROVE  FfiToTunnel(r) \in TunnelMetrics /\ TunnelToFfi(FfiToTunnel(r)) = r
  <1>1. r \in [rtt: Nat, active_connections: Nat, recent_errors: 0..U32Max,
               total_dials: Nat, total_errors: Nat]
    BY ArgumentAssumption
  <1>2. FfiToTunnel(r) \in TunnelMetrics
    BY <1>1 DEF FfiToTunnel, TunnelMetrics, Rtt, NoRtt
  <1>3. CASE r.rtt = 0
    <2>1. FfiToTunnel(r) = [r EXCEPT !.rtt = NoRtt]
      BY <1>3 DEF FfiToTunnel
    <2>2. FfiToTunnel(r).rtt = NoRtt
      BY <1>1, <2>1
    <2>3. TunnelToFfi(FfiToTunnel(r)) = [FfiToTunnel(r) EXCEPT !.rtt = 0]
      BY <2>2 DEF TunnelToFfi
    <2> QED
      BY <1>1, <1>2, <1>3, <2>1, <2>3, Zenon
  <1>4. CASE r.rtt # 0
    <2>1. FfiToTunnel(r) = [r EXCEPT !.rtt = r.rtt]
      BY <1>4 DEF FfiToTunnel
    <2>2. FfiToTunnel(r) = r
      BY <1>1, <2>1
    <2>3. r.rtt # NoRtt
      BY <1>1 DEF NoRtt
    <2>4. TunnelToFfi(r) = [r EXCEPT !.rtt = r.rtt]
      BY <2>3 DEF TunnelToFfi
    <2> QED
      BY <1>1, <1>2, <2>2, <2>4
  <1> QED
    BY <1>2, <1>3, <1>4

\* Whichever build and strategy, select picks an index of scratch.
LEMMA PicksInRange ==
    ASSUME strategy \in Strategy, scratch \in Seq(TunnelMetrics), Len(scratch) > 0,
           NEW addr \in Addr, NEW i \in Picks(addr)
    PROVE  i \in Indices(scratch)
  <1>1. CASE strategy.kind = "health_weighted"
    BY <1>1 DEF Picks, FirstBest, Indices
  <1>2. CASE strategy.kind # "health_weighted"
    BY <1>2, PickInRange DEF Picks
  <1> QED
    BY <1>1, <1>2

\* Only Failover is built differently by the C interface.
LEMMA BuildType ==
    ASSUME NEW k \in Kind, NEW n \in Nat
    PROVE  Build(k, n) \in Strategy
  <1>1. NewStrategy(k) \in Strategy
    BY NewStrategyType
  <1>2. [NewStrategy(k) EXCEPT !.len = n] \in Strategy
    BY <1>1 DEF Strategy
  <1> QED
    BY <1>1, <1>2 DEF Build

-----------------------------------------------------------------------------

InSelect(t) == calls[t].pc \in {"fill", "pick"}

\* scratch holds the rows that were given, converted.
Filled ==
    /\ given \in [1..backend_count -> Rows]
    /\ scratch = [i \in 1..backend_count |-> FfiToTunnel(given[i])]

\* A handle in use has backends; a select in progress has one row for each of
\* them, and has filled scratch with them when it picks; scratch still holds the
\* last rows given unless a select is about to fill it; a poisoned handle has
\* no select in progress and holds the rows that poisoned it.
HandleInv ==
    /\ scratch_lock \in Thread \cup {Free}
    /\ live => backend_count > 0
    /\ ~live => \A t \in Thread : calls[t].pc = "idle"
    /\ \A t \in Thread : InSelect(t) => calls[t].rows \in [1..backend_count -> Rows]
    /\ \A t \in Thread : calls[t].pc = "pick" => Filled
    /\ given # NoOut /\ (\A t \in Thread : calls[t].pc # "fill") => Filled
    /\ poisoned => \A t \in Thread : ~InSelect(t)
    /\ PoisonedByOverflow
    /\ SelectInRange

\* A new handle, or none, satisfies the invariant.
LEMMA FfiInit == Init => TypeOK /\ HandleInv
  <1> SUFFICES ASSUME Init PROVE TypeOK /\ HandleInv
    OBVIOUS
  <1>1. NewStrategy("round_robin") \in Strategy
    BY NewStrategyType DEF Kind
  <1>2. Idle \in Call
    BY DEF Idle, Call, Kind
  <1>3. TypeOK
    <2>1. calls \in [Thread -> Call]
      BY <1>2 DEF Init
    <2>2. \A t \in Thread : scratch_lock = t <=> calls[t].pc \in {"fill", "pick"}
      BY ThreadAssumption DEF Init, Idle
    <2>3. scratch \in Seq(TunnelMetrics) /\ strategy \in Strategy /\ strategy_kind \in Kind
      BY <1>1 DEF Init, Kind
    <2>4. {checked, live, poisoned} \subseteq BOOLEAN
      BY Zenon DEF Init
    <2> QED
      BY <2>1, <2>2, <2>3, <2>4 DEF Init, TypeOK
  <1>4. HandleInv
    BY DEF Init, HandleInv, InSelect, Idle, PoisonedByOverflow, SelectInRange
  <1> QED
    BY <1>3, <1>4

\* Every step of every thread preserves it.
LEMMA FfiStep == TypeOK /\ HandleInv /\ [Next]_vars => TypeOK' /\ HandleInv'
  <1> SUFFICES ASSUME TypeOK, HandleInv, [Next]_vars
               PROVE  TypeOK' /\ HandleInv'
    OBVIOUS
  <1>a. Free \notin Thread /\ Admin \subseteq Thread /\ Sizes \subseteq Nat /\ Kinds \subseteq Kind
    BY ThreadAssumption, ArgumentAssumption
  <1>b. /\ checked \in BOOLEAN /\ live \in BOOLEAN /\ poisoned \in BOOLEAN
        /\ calls \in [Thread -> Call] /\ backend_count \in Nat
    BY DEF TypeOK
  <1>1. ASSUME NEW n \in Sizes, NEW k \in Kinds, Create(n, k)
        PROVE  TypeOK' /\ HandleInv'
    <2>1. Build(k, n) \in Strategy /\ k \in Kind /\ n \in Nat
      BY <1>1, <1>a, BuildType
    <2>2. TypeOK'
      <3>0. checked' = checked /\ live' = TRUE /\ poisoned' = FALSE
        BY <1>1 DEF Create
      <3>a. {checked, live, poisoned}' \subseteq BOOLEAN
        BY <3>0, <1>b, Zenon
      <3>b. scratch' \in Seq(TunnelMetrics)
        BY <1>1 DEF Create
      <3>1. /\ strategy' \in Strategy /\ strategy_kind' \in Kind /\ backend_count' \in Nat
            /\ last' = NoPick
        BY <1>1, <2>1 DEF Create
      <3>2. UNCHANGED <<calls, scratch_lock>>
        BY <1>1 DEF Create
      <3> QED
        BY <3>a, <3>b, <3>1, <3>2 DEF TypeOK
    <2>3. HandleInv'
      <3>1. /\ \A t \in Thread : calls'[t].pc = "idle"
            /\ poisoned' = FALSE /\ given' = NoOut /\ last' = NoPick /\ backend_count' = n /\ n > 0
            /\ scratch_lock' \in Thread \cup {Free}
        BY <1>1 DEF Create, HandleInv
      <3> QED
        BY <3>1 DEF HandleInv, InSelect, PoisonedByOverflow, SelectInRange
    <2> QED
      BY <2>2, <2>3
  <1>2. CASE Destroy
    <2>1. TypeOK'
      BY <1>2, <1>b, Zenon DEF Destroy, TypeOK
    <2>2. HandleInv'
      BY <1>2 DEF Destroy, HandleInv, InSelect, PoisonedByOverflow, SelectInRange, Filled
    <2> QED
      BY <2>1, <2>2
  <1>3. ASSUME NEW t \in Thread, SelectLock(t)
        PROVE  TypeOK' /\ HandleInv'
    <2>1. PICK rows \in [1..backend_count -> Rows] :
              calls' = [calls EXCEPT ![t] = [calls[t] EXCEPT !.pc = "fill", !.rows = rows]]
      BY <1>3, Zenon DEF SelectLock, RowsAccepted
    <2>2. rows \in Seq(Rows)
      BY <2>1, <1>b
    <2>3. /\ calls' \in [Thread -> Call] /\ calls'[t].pc = "fill" /\ calls'[t].rows = rows
          /\ \A u \in Thread \ {t} : calls'[u] = calls[u]
      BY <2>1, <2>2, <1>b, Zenon DEF Call
    <2>4. \A u \in Thread : ~InSelect(u)
      BY <1>3, <1>a DEF SelectLock, Lockable, TypeOK, InSelect
    <2>5. TypeOK'
      BY <1>3, <1>a, <1>b, <2>3, <2>4 DEF SelectLock, TypeOK, InSelect
    <2>6. ~poisoned /\ live /\ poisoned' = poisoned /\ scratch_lock' = t
      BY <1>3 DEF SelectLock, Lockable, Ready
    <2>7. UNCHANGED <<checked, live, backend_count, given, last>>
      BY <1>3 DEF SelectLock
    <2>8. HandleInv'
      BY <2>1, <2>3, <2>4, <2>6, <2>7 DEF HandleInv, InSelect, PoisonedByOverflow, SelectInRange
    <2> QED
      BY <2>5, <2>8
  <1>4. ASSUME NEW t \in Thread, SelectFill(t)
        PROVE  TypeOK' /\ HandleInv'
    <2>1. /\ calls[t].pc = "fill" /\ calls[t].rows \in [1..backend_count -> Rows]
          /\ Len(calls[t].rows) = backend_count
      BY <1>4, <1>b DEF SelectFill, HandleInv, InSelect
    <2>2. /\ calls' \in [Thread -> Call] /\ calls'[t].pc = "pick"
          /\ calls'[t].rows = calls[t].rows
          /\ \A u \in Thread \ {t} : calls'[u] = calls[u]
      BY <1>4, <1>b, Zenon DEF SelectFill, Call
    <2>3. UNCHANGED <<checked, live, strategy, strategy_kind, backend_count, scratch_lock, poisoned,
                      last>>
      BY <1>4 DEF SelectFill
    <2>4. Filled'
      BY <1>4, <2>1, <2>3 DEF SelectFill, Filled
    <2>5. scratch' \in Seq(TunnelMetrics)
      BY <2>3, <2>4, <1>b, RowRoundTrip DEF Filled
    <2>6. TypeOK'
      BY <1>b, <2>1, <2>2, <2>3, <2>5 DEF TypeOK
    <2>7. ~poisoned
      BY <2>1 DEF HandleInv, InSelect
    <2>8. HandleInv'
      BY <2>1, <2>2, <2>3, <2>4, <2>7 DEF HandleInv, InSelect, PoisonedByOverflow, SelectInRange
    <2> QED
      BY <2>6, <2>8
  <1>5. ASSUME NEW t \in Thread, calls[t].pc = "pick", ReleaseScratch(t)
        PROVE  /\ calls' \in [Thread -> Call] /\ calls'[t].pc = "idle"
               /\ \A u \in Thread \ {t} : calls'[u] = calls[u] /\ ~InSelect(u)
               /\ scratch_lock' = Free /\ scratch_lock = t
    BY <1>5, <1>b DEF ReleaseScratch, Idle, Call, Kind, TypeOK, InSelect
  <1>6. ASSUME NEW t \in Thread, SelectPick(t)
        PROVE  TypeOK' /\ HandleInv'
    <2>1. calls[t].pc = "pick" /\ ReleaseScratch(t) /\ Filled /\ live
      BY <1>6 DEF SelectPick, HandleInv
    <2>2. scratch \in Seq(TunnelMetrics) /\ Len(scratch) = backend_count /\ backend_count > 0
      BY <2>1, <1>b DEF Filled, TypeOK, HandleInv
    <2>a. PICK addr \in Addr : \E i \in Picks(addr) :
              strategy' = AfterPick(strategy, scratch, i) /\ last' = i
      BY <1>6 DEF SelectPick
    <2>3. PICK i \in Picks(addr) : strategy' = AfterPick(strategy, scratch, i) /\ last' = i
      BY <2>a
    <2>4. i \in 0..(backend_count - 1)
      BY <2>2, <2>3, PicksInRange DEF TypeOK, Indices
    <2>5. strategy' \in Strategy
      BY <2>2, <2>3, <2>4, <1>b, AfterPickType DEF TypeOK
    <2>6. UNCHANGED <<checked, live, strategy_kind, backend_count, scratch, poisoned, given>>
      BY <1>6 DEF SelectPick
    <2>7. TypeOK'
      BY <1>5, <1>a, <1>b, <2>1, <2>3, <2>4, <2>5, <2>6 DEF TypeOK, InSelect
    <2>8. HandleInv'
      BY <1>5, <1>b, <2>1, <2>3, <2>4, <2>6 DEF HandleInv, InSelect, PoisonedByOverflow, SelectInRange, Filled
    <2> QED
      BY <2>7, <2>8
  <1>7. ASSUME NEW t \in Thread, SelectPanics(t)
        PROVE  TypeOK' /\ HandleInv'
    <2>1. calls[t].pc = "pick" /\ ReleaseScratch(t) /\ Filled /\ checked /\ Overflows
      BY <1>7 DEF SelectPanics, HandleInv
    <2>2. UNCHANGED <<checked, live, strategy, strategy_kind, backend_count, scratch, given, last>>
          /\ poisoned' = TRUE
      BY <1>7 DEF SelectPanics
    <2>3. \E i \in 1..backend_count : Score(FfiToTunnel(given[i])) > U64Max
      BY <2>1, <1>b DEF Overflows, Filled
    <2>4. PoisonedByOverflow'
      BY <2>1, <2>2, <2>3 DEF PoisonedByOverflow
    <2>5. TypeOK'
      BY <1>5, <1>a, <1>b, <2>1, <2>2 DEF TypeOK, InSelect
    <2>6. HandleInv'
      BY <1>5, <2>1, <2>2, <2>4 DEF HandleInv, InSelect, SelectInRange, Filled
    <2> QED
      BY <2>5, <2>6
  <1>8. ASSUME NEW t \in Thread, Report(t)
        PROVE  TypeOK' /\ HandleInv'
    <2>1. strategy' \in Strategy
      BY <1>8, <1>b, ReportErrorType DEF Report, ReportSuccess, TypeOK
    <2>2. TypeOK'
      BY <1>8, <1>b, <2>1 DEF Report, TypeOK
    <2>3. HandleInv'
      BY <1>8 DEF Report, HandleInv, InSelect, PoisonedByOverflow, SelectInRange, Filled
    <2> QED
      BY <2>2, <2>3
  <1>9. ASSUME NEW t \in Thread, Metrics(t)
        PROVE  TypeOK' /\ HandleInv'
    <2>1. TypeOK'
      BY <1>9, <1>b DEF Metrics, TypeOK
    <2>2. HandleInv'
      BY <1>9, Zenon DEF Metrics, HandleInv, InSelect, PoisonedByOverflow, SelectInRange, Filled
    <2> QED
      BY <2>1, <2>2
  <1>10. ASSUME NEW t \in Admin, NEW k \in Kinds, SetStrategy(t, k)
         PROVE  TypeOK' /\ HandleInv'
    <2>1. strategy' \in Strategy /\ k \in Kind
      BY <1>10, <1>a, <1>b, BuildType DEF SetStrategy
    <2>2. TypeOK'
      BY <1>10, <1>b, <2>1 DEF SetStrategy, TypeOK
    <2>3. HandleInv'
      BY <1>10 DEF SetStrategy, HandleInv, InSelect, PoisonedByOverflow, SelectInRange, Filled
    <2> QED
      BY <2>2, <2>3
  <1>11. ASSUME NEW t \in Admin, ResetStart(t)
         PROVE  TypeOK' /\ HandleInv'
    <2>1. /\ t \in Thread /\ calls[t].pc = "idle" /\ live
          /\ calls' \in [Thread -> Call] /\ calls'[t].pc = "reset"
          /\ \A u \in Thread \ {t} : calls'[u] = calls[u]
      BY <1>11, <1>a, <1>b, Zenon DEF ResetStart, Ready, Call, TypeOK
    <2>2. UNCHANGED <<checked, live, strategy, strategy_kind, backend_count, scratch, scratch_lock,
                      poisoned, given, last>>
      BY <1>11 DEF ResetStart
    <2>3. TypeOK'
      BY <1>b, <2>1, <2>2 DEF TypeOK
    <2>4. HandleInv'
      BY <2>1, <2>2 DEF HandleInv, InSelect, PoisonedByOverflow, SelectInRange, Filled
    <2> QED
      BY <2>3, <2>4
  <1>12. ASSUME NEW t \in Thread, Reset(t)
         PROVE  TypeOK' /\ HandleInv'
    <2>1. /\ calls[t].pc = "reset" /\ calls[t].kind \in Kind
          /\ calls' \in [Thread -> Call] /\ calls'[t].pc = "idle"
          /\ \A u \in Thread \ {t} : calls'[u] = calls[u]
      <3>1. calls[t].pc = "reset" /\ calls' = [calls EXCEPT ![t] = Idle]
        BY <1>12 DEF Reset
      <3>2. Idle \in Call /\ Idle.pc = "idle"
        BY EmptySeq DEF Idle, Call, Kind
      <3>3. calls[t] \in Call /\ calls[t].kind \in Kind
        BY <1>b DEF Call
      <3> QED
        BY <1>b, <3>1, <3>2, <3>3
    <2>2. UNCHANGED <<checked, live, strategy_kind, backend_count, scratch, scratch_lock,
                      poisoned, given>>
      BY <1>12 DEF Reset
    <2>3. strategy' \in Strategy /\ last' \in {last, NoPick}
      BY <1>12, <1>b, <2>1, BuildType DEF Reset, TypeOK
    <2>4. TypeOK'
      BY <1>b, <2>1, <2>2, <2>3 DEF TypeOK
    <2>5. HandleInv'
      BY <2>1, <2>2, <2>3 DEF HandleInv, InSelect, PoisonedByOverflow, SelectInRange, Filled
    <2> QED
      BY <2>4, <2>5
  <1>13. CASE UNCHANGED vars
    <2>1. TypeOK'
      BY <1>13, <1>b DEF vars, TypeOK
    <2>2. HandleInv'
      BY <1>13 DEF vars, HandleInv, InSelect, PoisonedByOverflow, SelectInRange, Filled
    <2> QED
      BY <2>1, <2>2
  <1> QED
    BY <1>1, <1>2, <1>3, <1>4, <1>6, <1>7, <1>8, <1>9, <1>10, <1>11, <1>12, <1>13
    DEF Next, Continue

-----------------------------------------------------------------------------

\* The inductive invariant holds in every state of the handle.
LEMMA FfiInvariant == Spec => [](TypeOK /\ HandleInv)
  BY FfiInit, FfiStep, PTL DEF Spec

\* Whatever the threads call in whatever order, the handle's buffers, its strategy and
\* the lock word keep their types.
THEOREM FfiTypeCorrect == Spec => []TypeOK
  BY FfiInvariant, PTL

\* However many threads call in whatever order, and although the strategy may be
\* swapped between filling scratch and picking, select returns an index of the
\* handle's backends.
THEOREM SelectStaysInRange == Spec => []SelectInRange
  <1>1. TypeOK /\ HandleInv => SelectInRange
    BY DEF HandleInv
  <1> QED
    BY <1>1, FfiInvariant, PTL

\* The only way to poison a handle is a score beyond u64::MAX in a build with
\* overflow checks.
THEOREM OnlyOverflowPoisons == Spec => []PoisonedByOverflow
  <1>1. TypeOK /\ HandleInv => PoisonedByOverflow
    BY DEF HandleInv
  <1> QED
    BY <1>1, FfiInvariant, PTL

\* rota_lb_metrics returns exactly the rows the last select was given, zeros for a
\* poisoned handle: no interleaving shows it a half-filled buffer.
THEOREM MetricsReadBackWhole == Spec => ReadbackWhole
  <1> DEFINE Whole == (\E t \in Thread : Metrics(t)) /\ given # NoOut
                 => out' = IF poisoned THEN [i \in 1..backend_count |-> ZeroMetric] ELSE given
  <1>1. TypeOK /\ HandleInv => Whole
    <2> SUFFICES ASSUME TypeOK, HandleInv, NEW t \in Thread, Metrics(t), given # NoOut
                 PROVE  out' = IF poisoned THEN [i \in 1..backend_count |-> ZeroMetric] ELSE given
      OBVIOUS
    <2>1. \A u \in Thread : calls[u].pc # "fill"
      BY ThreadAssumption DEF Metrics, ScratchFree, TypeOK
    <2>2. Filled /\ backend_count \in Nat
      BY <2>1 DEF HandleInv, TypeOK
    <2>3. CASE poisoned
      <3>1. \A i \in 1..backend_count : ~(i <= Len(Snapshot))
        BY <2>3 DEF Snapshot
      <3>2. out' = [i \in 1..backend_count |-> ZeroMetric]
        BY <3>1 DEF Metrics
      <3> QED
        BY <2>3, <3>2
    <2>4. CASE ~poisoned
      <3>1. Snapshot = scratch /\ Len(scratch) = backend_count
        BY <2>2, <2>4 DEF Snapshot, Filled
      <3>2. \A i \in 1..backend_count : TunnelToFfi(scratch[i]) = given[i]
        BY <2>2, RowRoundTrip DEF Filled
      <3>3. out' = [i \in 1..backend_count |-> given[i]]
        BY <3>1, <3>2, <2>2 DEF Metrics
      <3> QED
        BY <2>2, <2>4, <3>3 DEF Filled
    <2> QED
      BY <2>3, <2>4
  <1>2. Spec => [][Whole]_vars
    BY <1>1, FfiInvariant, PTL DEF Spec
  <1> QED
    BY <1>2 DEF ReadbackWhole

\* Every step keeps the counts of WeightedRoundRobin proportional; the other
\* strategies leave them alone, and a new strategy has none.
LEMMA ProportionalStep ==
    TypeOK /\ HandleInv /\ Proportional(strategy) /\ [Next]_vars => Proportional(strategy')
  <1> SUFFICES ASSUME TypeOK, HandleInv, Proportional(strategy), [Next]_vars
               PROVE  Proportional(strategy')
    OBVIOUS
  <1>1. ASSUME NEW k, NEW n
        PROVE  Proportional(Build(k, n))
    <2>1. Build(k, n).picks = <<>> /\ Build(k, n).rtts = <<>>
      BY DEF Build, NewStrategy
    <2> QED
      BY <2>1 DEF Proportional
  <1>2. ASSUME NEW s, s.picks = strategy.picks, s.rtts = strategy.rtts
        PROVE  Proportional(s)
    BY <1>2 DEF Proportional
  <1>3. ASSUME NEW t \in Thread, SelectPick(t)
        PROVE  Proportional(strategy')
    <2>1. strategy \in Strategy /\ scratch \in Seq(TunnelMetrics)
      BY DEF TypeOK
    <2>2. PICK addr \in Addr : \E i \in Picks(addr) : strategy' = AfterPick(strategy, scratch, i)
      BY <1>3 DEF SelectPick
    <2>3. PICK i \in Picks(addr) : strategy' = AfterPick(strategy, scratch, i)
      BY <2>2
    <2>4. CASE strategy.kind = "weighted_round_robin"
      <3>1. i \in WeightedRoundRobinPick(strategy, scratch)
        BY <2>3, <2>4 DEF Picks, PickIndex
      <3> QED
        BY <2>1, <2>3, <2>4, <3>1, PickProportional
    <2>5. CASE strategy.kind # "weighted_round_robin"
      <3>1. strategy' \in {[strategy EXCEPT !.next = i + 1], [strategy EXCEPT !.len = Len(scratch)],
                           [strategy EXCEPT !.pinned = i], strategy}
        BY <2>3, <2>5 DEF AfterPick, Advance, Pin
      <3>2. strategy'.picks = strategy.picks /\ strategy'.rtts = strategy.rtts
        BY <2>1, <3>1 DEF Strategy
      <3> QED
        BY <1>2, <3>2
    <2> QED
      BY <2>4, <2>5
  <1>4. ASSUME NEW t \in Thread, Report(t)
        PROVE  Proportional(strategy')
    <2>1. PICK i \in 0..backend_count :
              strategy' \in {ReportError(strategy, i), ReportSuccess(strategy, i)}
      BY <1>4 DEF Report
    <2>2. strategy'.picks = strategy.picks /\ strategy'.rtts = strategy.rtts
      BY <2>1 DEF ReportError, ReportSuccess, TypeOK, Strategy
    <2> QED
      BY <1>2, <2>2
  <1>5. CASE strategy' = strategy
    BY <1>5
  <1>6. ASSUME NEW n \in Sizes, NEW k \in Kinds, Create(n, k)
        PROVE  Proportional(strategy')
    BY <1>1, <1>6 DEF Create
  <1>7. ASSUME NEW t \in Admin, NEW k \in Kinds, SetStrategy(t, k)
        PROVE  Proportional(strategy')
    BY <1>1, <1>7 DEF SetStrategy
  <1>8. ASSUME NEW t \in Thread, Reset(t)
        PROVE  Proportional(strategy')
    BY <1>1, <1>5, <1>8 DEF Reset
  <1> QED
    BY <1>3, <1>4, <1>5, <1>6, <1>7, <1>8, Zenon
    DEF Next, Continue, Destroy, SelectLock, SelectFill, SelectPanics, Metrics, ResetStart, vars

\* Whatever threads select, swap and reset, and for any number of backends and any
\* RTTs, WeightedRoundRobin stays within one pick of its weights.
THEOREM PicksStayProportional == Spec => []WeightedProportional
  <1>1. Init => Proportional(strategy)
    <2>1. ASSUME Init PROVE strategy.picks = <<>> /\ strategy.rtts = <<>>
      BY <2>1 DEF Init, NewStrategy
    <2> QED
      BY <2>1 DEF Proportional
  <1>2. Proportional(strategy) => WeightedProportional
    BY DEF Proportional, WeightedProportional
  <1>3. Spec => []Proportional(strategy)
    <2>1. TypeOK /\ HandleInv /\ Proportional(strategy) /\ [Next]_vars => Proportional(strategy)'
      BY ProportionalStep DEF Proportional
    <2> QED
      BY <1>1, <2>1, FfiInvariant, PTL DEF Spec
  <1> QED
    BY <1>2, <1>3, PTL
==============================================================================
