------------------------------ MODULE Strategies ------------------------------
(***************************************************************************)
(* The nine balance strategies of src/src/strategies/ as pure operators.   *)
(* A strategy is a record that holds the fields of the nine structs; each  *)
(* kind reads and writes its own.  Backend indices are 0-based, as in the  *)
(* code: index i is position i + 1 of the metrics sequence.                *)
(*                                                                         *)
(* A pick is the SET of indices the code may return (one index, except for *)
(* Random).  The scanning loops are stated here by what they search for.   *)
(***************************************************************************)
EXTENDS Integers, Sequences

CONSTANTS U32Max,   \* u32::MAX, the recent_errors value that marks a drain
          Addr      \* dial addresses, each represented by its DefaultHasher hash

ASSUME U32MaxAssumption == U32Max \in Nat \ {0}
ASSUME AddrAssumption == Addr \subseteq Nat

-----------------------------------------------------------------------------
(* TunnelMetrics: the row of counters kept for each backend; rtt in ms.    *)

NoRtt == -1

Rtt == Nat \cup {NoRtt}

TunnelMetrics == [rtt: Rtt, active_connections: Nat, recent_errors: 0..U32Max,
                  total_dials: Nat, total_errors: Nat]

DefaultMetrics == [rtt |-> NoRtt, active_connections |-> 0, recent_errors |-> 0,
                   total_dials |-> 0, total_errors |-> 0]

\* A missing RTT compares as Duration::MAX.
RttLess(a, b) == a # NoRtt /\ (b = NoRtt \/ a < b)

Indices(m) == 0 .. (Len(m) - 1)

-----------------------------------------------------------------------------
(* Strategy state.                                                         *)

Kind == {"round_robin", "random", "lowest_rtt", "least_connections", "hash_by_addr",
         "weighted_round_robin", "failover", "health_weighted", "sticky"}

Unpinned == -1

Strategy == [kind: Kind, next: Nat, primary: Nat, len: Nat, pinned: Nat \cup {Unpinned},
             rtts: Seq(Rtt), picks: Seq(Nat)]

NewStrategy(kind) == [kind |-> kind, next |-> 0, primary |-> 0, len |-> 0,
                      pinned |-> Unpinned, rtts |-> <<>>, picks |-> <<>>]

-----------------------------------------------------------------------------
(* What the scanning loops look for.                                       *)

\* The index a left-to-right scan with a strict comparison ends on: it beats
\* every earlier index and no later one beats it.
FirstBest(n, Better(_, _)) ==
    {i \in 0..(n - 1) : \A j \in 0..(n - 1) :
        /\ j < i => Better(i, j)
        /\ j > i => ~Better(j, i)}

FewerConnections(x, y) ==
    \/ x.active_connections < y.active_connections
    \/ x.active_connections = y.active_connections /\ RttLess(x.rtt, y.rtt)

\* HealthWeighted's score in ms: 500 ms per recent error, 10 ms per open
\* connection, 1000 ms for a backend that was never probed.
ScoreIgnoringErrors(x) == (IF x.rtt = NoRtt THEN 1000 ELSE x.rtt) + 10 * x.active_connections
Score(x) == (IF x.rtt = NoRtt THEN 1000 ELSE x.rtt)
            + 500 * x.recent_errors + 10 * x.active_connections

Weight(rtt) == IF rtt = NoRtt \/ rtt > 1000 THEN 1
               ELSE IF rtt = 0 THEN 1000 ELSE 1000 \div rtt

Rtts(m) == [i \in 1..Len(m) |-> m[i].rtt]

\* WeightedRoundRobin::rebuild: a changed RTT vector resets the pick counts.
RebuiltKeepsPicks(s, m) ==
    [s EXCEPT !.rtts = Rtts(m),
              !.picks = [i \in 1..Len(m) |-> IF i <= Len(s.picks) THEN s.picks[i] ELSE 0]]
Rebuilt(s, m) ==
    IF Rtts(m) = s.rtts THEN s
    ELSE [s EXCEPT !.rtts = Rtts(m), !.picks = [i \in 1..Len(m) |-> 0]]

\* picks[i] / weight[i] < picks[j] / weight[j]
FewerPicksPerWeight(s, i, j) ==
    s.picks[i + 1] * Weight(s.rtts[j + 1]) < s.picks[j + 1] * Weight(s.rtts[i + 1])

LowestRttPick(m) ==
    FirstBest(Len(m), LAMBDA i, j : RttLess(m[i + 1].rtt, m[j + 1].rtt))

LeastConnectionsPick(m) ==
    FirstBest(Len(m), LAMBDA i, j : FewerConnections(m[i + 1], m[j + 1]))

HealthWeightedPick(m) ==
    FirstBest(Len(m), LAMBDA i, j : Score(m[i + 1]) < Score(m[j + 1]))

WeightedRoundRobinPick(s, m) ==
    FirstBest(Len(m), LAMBDA i, j : FewerPicksPerWeight(Rebuilt(s, m), i, j))

StickyPick(s, m) ==
    IF s.pinned = Unpinned THEN LowestRttPick(m)
    ELSE {IF s.pinned < Len(m) THEN s.pinned ELSE Len(m) - 1}

-----------------------------------------------------------------------------
(* BalanceStrategy: pick, report_error, report_success.                    *)

\* The indices pick may return for a non-empty view m.
PickIndex(s, addr, m) ==
    CASE s.kind = "round_robin"          -> {s.next % Len(m)}
      [] s.kind = "random"               -> Indices(m)
      [] s.kind = "lowest_rtt"           -> LowestRttPick(m)
      [] s.kind = "least_connections"    -> LeastConnectionsPick(m)
      [] s.kind = "hash_by_addr"         -> {addr % Len(m)}
      [] s.kind = "weighted_round_robin" -> WeightedRoundRobinPick(s, m)
      [] s.kind = "failover"             -> {s.primary % Len(m)}
      [] s.kind = "health_weighted"      -> HealthWeightedPick(m)
      [] s.kind = "sticky"               -> StickyPick(s, m)

\* What the stateful strategies remember of a pick i.
NextSkips(s, i) == [s EXCEPT !.next = i + 2]
Advance(s, i) == [s EXCEPT !.next = i + 1]

PinNext(s, i) == IF s.pinned = Unpinned THEN [s EXCEPT !.pinned = i + 1] ELSE s
Pin(s, i) == IF s.pinned = Unpinned THEN [s EXCEPT !.pinned = i] ELSE s

\* The strategy once pick has returned i.
AfterPick(s, m, i) ==
    CASE s.kind = "round_robin"          -> Advance(s, i)
      [] s.kind = "failover"             -> [s EXCEPT !.len = Len(m)]
      [] s.kind = "weighted_round_robin" -> [Rebuilt(s, m) EXCEPT !.picks[i + 1] = @ + 1]
      [] s.kind = "sticky"               -> Pin(s, i)
      [] OTHER                           -> s

\* Failover rotates away from its primary; the others ignore errors.
ErrorAlwaysRotates(s, idx) ==
    IF s.kind = "failover"
    THEN [s EXCEPT !.primary = (@ + 1) % (IF s.len > 0 THEN s.len ELSE idx + 1)]
    ELSE s
ReportError(s, idx) ==
    IF s.kind = "failover" /\ idx = s.primary
    THEN [s EXCEPT !.primary = (idx + 1) % (IF s.len > 0 THEN s.len ELSE idx + 1)]
    ELSE s

\* No built-in strategy overrides the trait's empty report_success.
ReportSuccess(s, idx) == s
===============================================================================
