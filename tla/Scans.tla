-------------------------------- MODULE Scans --------------------------------
(***************************************************************************)
(* The scanning loops of the strategies as they are coded, left to right   *)
(* with a best index and a best value that starts at the largest number of *)
(* its type, against what Strategies and Ffi say they look for.            *)
(***************************************************************************)
EXTENDS Ffi

LOCAL INSTANCE SequencesExt

\* Duration::MAX, above every RTT in use.
DurationMax == U64Max + 1

OrMax(rtt) == IF rtt = NoRtt THEN DurationMax ELSE rtt

FindLowestRtt(m) ==
    LET Step(s, i) == IF m[i].rtt # NoRtt /\ m[i].rtt < s.best_rtt
                      THEN [best |-> i - 1, best_rtt |-> m[i].rtt] ELSE s
    IN  FoldLeftDomain(Step, [best |-> 0, best_rtt |-> DurationMax], m).best

LeastConnectionsScan(m) ==
    LET Step(s, i) ==
            IF m[i].active_connections < s.best_count
            THEN [best |-> i - 1, best_count |-> m[i].active_connections]
            ELSE IF m[i].active_connections = s.best_count
                    /\ OrMax(m[i].rtt) < OrMax(m[s.best + 1].rtt)
            THEN [s EXCEPT !.best = i - 1] ELSE s
    IN  FoldLeftDomain(Step, [best |-> 0, best_count |-> U32Max], m).best

\* In a build without overflow checks the sum wraps.
HealthWeightedScan(m) ==
    LET Step(s, i) ==
            LET score == Score(m[i]) % (U64Max + 1)
            IN  IF score < s.best_score THEN [best |-> i - 1, best_score |-> score] ELSE s
    IN  FoldLeftDomain(Step, [best |-> 0, best_score |-> U64Max], m).best

\* From index 1, after the rebuild.
WeightedRoundRobinScan(s) ==
    LET Step(best, i) == IF s.picks[i] * Weight(s.rtts[best + 1])
                              < s.picks[best + 1] * Weight(s.rtts[i])
                         THEN i - 1 ELSE best
    IN  FoldLeftDomain(Step, 0, s.picks)

-----------------------------------------------------------------------------
(* Bounded inputs: all vectors of up to MaxScan backends over values at    *)
(* both ends of their types.                                               *)

MaxScan == 3

Vectors(S) == UNION {[1..n -> S] : n \in 1..MaxScan}

RttVectors == Vectors({[DefaultMetrics EXCEPT !.rtt = r] : r \in {NoRtt, 0, 1, 7, U64Max}})

ConnectionVectors ==
    Vectors({[DefaultMetrics EXCEPT !.rtt = r, !.active_connections = a] :
                r \in {NoRtt, 0, 7}, a \in {0, 1, U32Max}})

\* Scores at 0, at u64::MAX and one, or a penalty, beyond it.
ScoreVectors ==
    Vectors({[DefaultMetrics EXCEPT !.rtt = r, !.recent_errors = e] :
                r \in {NoRtt, 0, U64Max, U64Max + 1}, e \in {0, 1, U32Max}})

PickVectors ==
    UNION {{[NewStrategy("weighted_round_robin") EXCEPT !.rtts = r, !.picks = p] :
               r \in [1..n -> {NoRtt, 0, 400, 2000}], p \in [1..n -> 0..3]} : n \in 1..MaxScan}

\* Each loop returns the one index FirstBest describes, also where a value
\* equals the largest number the loop starts with and where every backend is
\* unmeasured, saturated or tied.
ASSUME ScansFindFirstBest ==
    /\ \A m \in RttVectors : LowestRttPick(m) = {FindLowestRtt(m)}
    /\ \A m \in ConnectionVectors : LeastConnectionsPick(m) = {LeastConnectionsScan(m)}
    /\ \A m \in ScoreVectors :
           FirstBest(Len(m), LAMBDA i, j : Wrapped(m)[i + 1] < Wrapped(m)[j + 1])
               = {HealthWeightedScan(m)}
    /\ \A s \in PickVectors :
           FirstBest(Len(s.picks), LAMBDA i, j : FewerPicksPerWeight(s, i, j))
               = {WeightedRoundRobinScan(s)}
==============================================================================
