----------------------------- MODULE HealthProofs -----------------------------
(* Proofs about Health. *)
EXTENDS Health, TLAPS, SequenceTheorems

\* What the two counters of HealthChecker mean: the newest probe results of a
\* backend are that many failures, or that many successes.
StreakInv ==
    \A i \in Index : /\ streak[i] \in Seq(BOOLEAN)
                     /\ AllOf(streak[i], consecutive_failures[i], FALSE)
                     /\ AllOf(streak[i], consecutive_successes[i], TRUE)

\* shutdown returns only when the task has ended.
ReturnedInv == handle = "returned" => pc = "done"

HealthInv == TypeOK /\ StreakInv /\ ReturnedInv

\* The history after one more result: it comes first, the others move back by
\* one, and only what is further back than MaxErrors is forgotten.
LEMMA LatestProperties ==
    ASSUME NEW s \in Seq(BOOLEAN), NEW r \in BOOLEAN
    PROVE  LET new == Latest(<<r>> \o s) IN
           /\ new \in Seq(BOOLEAN)
           /\ Len(new) = IF Len(s) < MaxErrors THEN Len(s) + 1 ELSE MaxErrors
           /\ \A k \in 1..Len(new) : new[k] = IF k = 1 THEN r ELSE s[k - 1]
  <1> DEFINE a == <<r>> \o s
             n == IF Len(a) < MaxErrors THEN Len(a) ELSE MaxErrors
  <1>1. <<r>> \in Seq(BOOLEAN) /\ Len(<<r>>) = 1 /\ <<r>>[1] = r /\ Len(s) \in Nat
    BY LenProperties
  <1>2. /\ a \in Seq(BOOLEAN) /\ Len(a) = Len(<<r>>) + Len(s)
        /\ \A i \in 1..(Len(<<r>>) + Len(s)) : a[i] = IF i <= Len(<<r>>) THEN <<r>>[i] ELSE s[i - Len(<<r>>)]
    BY <1>1, ConcatProperties, Zenon
  <1>3. Len(a) = Len(s) + 1 /\ \A i \in 1..(Len(s) + 1) : a[i] = IF i = 1 THEN r ELSE s[i - 1]
    BY <1>1, <1>2
  <1> HIDE DEF a
  <1>4. n \in 0..Len(a) /\ MaxErrors \in Nat
    BY <1>1, <1>3, HealthAssumption
  <1>5. /\ SubSeq(a, 1, n) \in Seq(BOOLEAN) /\ Len(SubSeq(a, 1, n)) = n
        /\ \A i \in 1..n : SubSeq(a, 1, n)[i] = a[i]
    BY <1>2, <1>4, SubSeqProperties
  <1>6. n = IF Len(s) < MaxErrors THEN Len(s) + 1 ELSE MaxErrors
    BY <1>1, <1>3, <1>4
  <1>7. Latest(a) = SubSeq(a, 1, n)
    BY DEF Latest
  <1> QED
    BY <1>1, <1>3, <1>4, <1>5, <1>6, <1>7, SMTT(30) DEF a

\* One more equal result makes the streak one longer, up to MaxErrors.
LEMMA StreakGrows ==
    ASSUME NEW s \in Seq(BOOLEAN), NEW r \in BOOLEAN, NEW n \in 0..MaxErrors, AllOf(s, n, r)
    PROVE  AllOf(Latest(<<r>> \o s), Capped(n), r)
  <1> DEFINE new == Latest(<<r>> \o s)
  <1>1. /\ new \in Seq(BOOLEAN)
        /\ Len(new) = IF Len(s) < MaxErrors THEN Len(s) + 1 ELSE MaxErrors
        /\ \A k \in 1..Len(new) : new[k] = IF k = 1 THEN r ELSE s[k - 1]
    BY LatestProperties, Zenon
  <1>2. Len(s) \in Nat /\ MaxErrors \in Nat /\ n \in Nat
    BY LenProperties, HealthAssumption
  <1> HIDE DEF new
  <1>3. Len(s) >= n /\ \A k \in 1..n : s[k] = r
    BY DEF AllOf
  <1>4. Capped(n) \in Nat /\ Capped(n) <= Len(new) /\ Capped(n) <= n + 1
    BY <1>1, <1>2, <1>3 DEF Capped
  <1>5. ASSUME NEW k \in 1..Capped(n) PROVE new[k] = r
    <2>1. k \in 1..Len(new) /\ (k = 1 \/ k - 1 \in 1..n)
      BY <1>1, <1>2, <1>4, LenProperties
    <2> QED
      BY <1>1, <1>3, <2>1
  <1>6. AllOf(new, Capped(n), r)
    BY <1>4, <1>5 DEF AllOf
  <1> QED
    BY <1>6 DEF new

\* A new checker has seen nothing.
LEMMA HealthStart == Init => HealthInv
  <1> SUFFICES ASSUME Init PROVE HealthInv
    OBVIOUS
  <1>1. MaxErrors \in Nat /\ U32Max \in Nat
    BY HealthAssumption
  <1>2. TypeOK
    BY <1>1, HealthAssumption DEF Init, TypeOK
  <1>3. StreakInv
    BY DEF Init, StreakInv, AllOf
  <1> QED
    BY <1>2, <1>3 DEF HealthInv, ReturnedInv, Init

\* Applying a round keeps the meaning of the counters and the types.
LEMMA WriteStep ==
    ASSUME HealthInv, WriteResults
    PROVE  HealthInv'
  <1>1. MaxErrors \in Nat /\ U32Max \in Nat /\ U32Max > MaxErrors
    BY HealthAssumption
  <1>2. \A n \in 0..MaxErrors : Capped(n) \in 0..MaxErrors
    BY <1>1 DEF Capped
  <1>3. \A i \in Index : Failures[i] \in 0..MaxErrors /\ Successes[i] \in 0..MaxErrors
    BY <1>1, <1>2 DEF Failures, Successes, HealthInv, TypeOK
  <1>4. Failures \in [Index -> 0..MaxErrors] /\ Successes \in [Index -> 0..MaxErrors]
    BY <1>3 DEF Failures, Successes
  <1>5. \A i \in Row : Written(i) \in 0..U32Max
    BY <1>1, <1>3 DEF Written, HealthInv, TypeOK
  <1>6. TypeOK'
    BY <1>4, <1>5, HealthAssumption DEF WriteResults, HealthInv, TypeOK
  <1>7. StreakInv'
    <2> SUFFICES ASSUME NEW i \in Index
                 PROVE  /\ streak'[i] \in Seq(BOOLEAN)
                        /\ AllOf(streak'[i], consecutive_failures'[i], FALSE)
                        /\ AllOf(streak'[i], consecutive_successes'[i], TRUE)
      BY Zenon DEF StreakInv
    <2>1. /\ streak[i] \in Seq(BOOLEAN)
          /\ AllOf(streak[i], consecutive_failures[i], FALSE)
          /\ AllOf(streak[i], consecutive_successes[i], TRUE)
          /\ consecutive_failures[i] \in 0..MaxErrors /\ consecutive_successes[i] \in 0..MaxErrors
          /\ results[i] \in BOOLEAN
      BY Zenon DEF HealthInv, StreakInv, TypeOK
    <2>2. CASE ~Checked(i)
      BY <2>1, <2>2, Zenon DEF WriteResults, Failures, Successes
    <2>3. CASE Checked(i)
      <3>1. streak'[i] = Latest(<<results[i]>> \o streak[i])
        BY <2>3 DEF WriteResults
      <3>2. streak'[i] \in Seq(BOOLEAN)
        BY <2>1, <3>1, LatestProperties
      <3>3. AllOf(streak'[i], 0, FALSE) /\ AllOf(streak'[i], 0, TRUE)
        BY <3>2, LenProperties DEF AllOf
      <3>4. CASE results[i] = TRUE
        <4>1. AllOf(streak'[i], Capped(consecutive_successes[i]), TRUE)
          BY <2>1, <3>1, <3>4, StreakGrows, Zenon
        <4> QED
          BY <2>3, <3>2, <3>3, <3>4, <4>1, Zenon DEF WriteResults, Failures, Successes
      <3>5. CASE results[i] = FALSE
        <4>1. AllOf(streak'[i], Capped(consecutive_failures[i]), FALSE)
          BY <2>1, <3>1, <3>5, StreakGrows, Zenon
        <4> QED
          BY <2>3, <3>2, <3>3, <3>5, <4>1, Zenon DEF WriteResults, Failures, Successes
      <3> QED
        BY <2>1, <3>4, <3>5, Zenon
    <2> QED
      BY <2>2, <2>3, Zenon
  <1>8. ReturnedInv'
    BY DEF WriteResults, HealthInv, ReturnedInv
  <1> QED
    BY <1>6, <1>7, <1>8 DEF HealthInv

\* Every step of the loop, of the handle's owner and of other tasks keeps the
\* invariant.
LEMMA HealthStep == HealthInv /\ [Next]_vars => HealthInv'
  <1> SUFFICES ASSUME HealthInv, [Next]_vars PROVE HealthInv'
    OBVIOUS
  <1>1. ASSUME UNCHANGED <<consecutive_failures, consecutive_successes, streak>> PROVE StreakInv'
    BY <1>1 DEF HealthInv, StreakInv, AllOf
  <1>2. CASE TickBranch \/ LockMetrics \/ ShutdownBranch
    BY <1>1, <1>2, HealthAssumption
       DEF TickBranch, LockMetrics, ShutdownBranch, HealthInv, TypeOK, ReturnedInv
  <1>3. CASE ProbesDone
    BY <1>1, <1>3 DEF ProbesDone, HealthInv, TypeOK, ReturnedInv
  <1>4. CASE WriteResults
    BY <1>4, WriteStep
  <1>5. CASE ShutdownStart \/ ShutdownReturn \/ ShutdownTimeout \/ DropHandle
    BY <1>1, <1>5 DEF ShutdownStart, ShutdownReturn, ShutdownTimeout, DropHandle, HealthInv, TypeOK, ReturnedInv
  <1>6. CASE OtherLock
    BY <1>1, <1>6, HealthAssumption DEF OtherLock, HealthInv, TypeOK, ReturnedInv
  <1>7. ASSUME NEW i \in Row, NEW success \in BOOLEAN, RecordDialResult(i, success) PROVE HealthInv'
    <2>1. recent_errors' \in [Row -> 0..U32Max]
      <3>1. recent_errors[i] \in 0..U32Max /\ U32Max \in Nat
        BY HealthAssumption DEF HealthInv, TypeOK
      <3>2. (IF success THEN 0 ELSE IF recent_errors[i] < U32Max THEN recent_errors[i] + 1
             ELSE recent_errors[i]) \in 0..U32Max
        BY <3>1
      <3> QED
        BY <1>7, <3>2 DEF RecordDialResult, HealthInv, TypeOK
    <2> QED
      BY <1>1, <1>7, <2>1, HealthAssumption DEF RecordDialResult, HealthInv, TypeOK, ReturnedInv
  <1>8. ASSUME NEW i \in Index, Flip(i) PROVE HealthInv'
    <2>1. up' \in [Index -> BOOLEAN]
      BY <1>8 DEF Flip, HealthInv, TypeOK
    <2> QED
      BY <1>1, <1>8, <2>1 DEF Flip, HealthInv, TypeOK, ReturnedInv
  <1>9. CASE Stopped \/ UNCHANGED vars
    BY <1>1, <1>9 DEF Stopped, vars, HealthInv, TypeOK, ReturnedInv
  <1> QED
    BY <1>2, <1>3, <1>4, <1>5, <1>6, <1>7, <1>8, <1>9 DEF Next, LoopStep

\* The types, the meaning of the counters and of a returned shutdown hold for
\* any number of backends and rows and any thresholds.
LEMMA HealthInvariant == Spec => []HealthInv
  BY HealthStart, HealthStep, PTL DEF Spec

\* The checker's variables keep their types, and it holds the metrics mutex
\* exactly while it writes a round's results.
THEOREM HealthTypeCorrect == Spec => []TypeOK
  <1>1. HealthInv => TypeOK
    BY DEF HealthInv
  <1> QED
    BY <1>1, HealthInvariant, PTL

\* The checker marks a backend unhealthy only after unhealthy_threshold failed
\* probes in a row, whatever other tasks record meanwhile.
THEOREM UnhealthyAfterFailures == Spec => UnhealthyNeedsFailures
  <1>1. ASSUME HealthInv, [Next]_vars, NEW i \in Index \cap Row, WriteResults,
               IsHealthy(recent_errors[i]), ~IsHealthy(recent_errors'[i])
        PROVE  AllOf(streak'[i], unhealthy_threshold, FALSE)
    <2>1. HealthInv'
      BY <1>1, WriteStep
    <2>2. /\ recent_errors[i] \in Nat /\ unhealthy_threshold \in Nat \ {0}
          /\ consecutive_failures'[i] \in Nat
      BY <1>1, <2>1, HealthAssumption DEF HealthInv, TypeOK
    <2>3. recent_errors'[i] = Written(i) /\ consecutive_failures'[i] = Failures[i]
      BY <1>1 DEF WriteResults
    <2>4. recent_errors'[i] = consecutive_failures'[i]
      BY <1>1, <2>2, <2>3 DEF Written, IsHealthy
    <2>5. consecutive_failures'[i] >= unhealthy_threshold
      BY <1>1, <2>2, <2>4 DEF IsHealthy
    <2>6. AllOf(streak'[i], consecutive_failures'[i], FALSE) /\ Len(streak'[i]) \in Nat
      BY <2>1, LenProperties, Zenon DEF HealthInv, StreakInv
    <2> QED
      BY <2>2, <2>5, <2>6 DEF AllOf
  <1>2. HealthInv /\ [Next]_vars
        => [\A i \in Index \cap Row :
              WriteResults /\ IsHealthy(recent_errors[i]) /\ ~IsHealthy(recent_errors'[i])
              => AllOf(streak'[i], unhealthy_threshold, FALSE)]_vars
    BY <1>1, Zenon
  <1> QED
    BY <1>2, HealthInvariant, PTL DEF Spec, UnhealthyNeedsFailures

\* A successful probe brings an unhealthy backend back only as the
\* healthy_threshold-th in a row, whatever other tasks record meanwhile.
THEOREM RecoveryAfterSuccesses == Spec => RecoveryNeedsSuccesses
  <1>1. ASSUME HealthInv, [Next]_vars, NEW i \in Index \cap Row, WriteResults, results[i],
               ~IsHealthy(recent_errors[i]), IsHealthy(recent_errors'[i])
        PROVE  AllOf(streak'[i], healthy_threshold, TRUE)
    <2>1. HealthInv'
      BY <1>1, WriteStep
    <2>2. healthy_threshold \in Nat \ {0} /\ consecutive_successes'[i] \in Nat
      BY <1>1, <2>1, HealthAssumption DEF HealthInv, TypeOK
    <2>3. recent_errors'[i] = Written(i) /\ consecutive_successes'[i] = Successes[i]
      BY <1>1 DEF WriteResults
    <2>4. consecutive_successes'[i] >= healthy_threshold
      BY <1>1, <2>2, <2>3 DEF Written, IsHealthy
    <2>5. AllOf(streak'[i], consecutive_successes'[i], TRUE) /\ Len(streak'[i]) \in Nat
      BY <2>1, LenProperties, Zenon DEF HealthInv, StreakInv
    <2> QED
      BY <2>2, <2>4, <2>5 DEF AllOf
  <1>2. HealthInv /\ [Next]_vars
        => [\A i \in Index \cap Row :
              WriteResults /\ results[i] /\ ~IsHealthy(recent_errors[i])
                           /\ IsHealthy(recent_errors'[i])
              => AllOf(streak'[i], healthy_threshold, TRUE)]_vars
    BY <1>1, Zenon
  <1> QED
    BY <1>2, HealthInvariant, PTL DEF Spec, RecoveryNeedsSuccesses

\* Once shutdown has returned in time, only other tasks change the metrics.
THEOREM ShutdownLeavesMetrics == Spec => ShutdownIsClean
  <1>1. HealthInv /\ [Next]_vars => [handle = "returned" => UNCHANGED Probed \/ lock = Other]_vars
    <2> SUFFICES ASSUME HealthInv, Next, handle = "returned" PROVE UNCHANGED Probed \/ lock = Other
      OBVIOUS
    <2>1. pc = "done"
      BY DEF HealthInv, ReturnedInv
    <2>2. CASE LoopStep
      BY <2>1, <2>2 DEF LoopStep, ProbesDone, LockMetrics, WriteResults, TickBranch, ShutdownBranch
    <2>3. CASE ~LoopStep
      BY <2>3 DEF Next, ShutdownStart, ShutdownReturn, ShutdownTimeout, DropHandle, OtherLock,
                  RecordDialResult, Flip, Stopped, vars, Probed
    <2> QED
      BY <2>2, <2>3
  <1> QED
    BY <1>1, HealthInvariant, PTL DEF Spec, ShutdownIsClean
===============================================================================
