-------------------------------- MODULE Health --------------------------------
(***************************************************************************)
(* HealthChecker (src/src/utils/health.rs): the background loop that       *)
(* probes every backend, counts consecutive results and writes them into a *)
(* shared Mutex<Vec<TunnelMetrics>>; record_dial_result, which other tasks *)
(* call on the same rows; shutdown and drop of the handle.                 *)
(***************************************************************************)
EXTENDS Integers, Sequences

CONSTANTS
    N,                   \* backends
    Rows,                \* rows of the metrics vector, which others own
    unhealthy_threshold, healthy_threshold,
    U32Max,
    Passive,             \* other tasks record their own dial results
    Free, Checker, Other,
    MaxErrors            \* bound: consecutive results counted

ASSUME HealthAssumption ==
    /\ {N, Rows, unhealthy_threshold, healthy_threshold} \subseteq Nat \ {0}
    /\ MaxErrors \in Nat /\ U32Max \in Nat /\ U32Max > MaxErrors
    /\ Passive \in BOOLEAN
    /\ Free # Checker /\ Free # Other /\ Checker # Other

Index == 1..N
Row == 1..Rows

VARIABLES
    recent_errors,          \* of each row
    consecutive_failures, consecutive_successes,
    lock,                   \* who holds the metrics mutex
    pc,                     \* of the loop: "select", "probing", "waiting", "writing", "done"
    results,                \* of the round in progress
    up,                     \* which backends answer (environment)
    handle,                 \* what its owner did: "held", "stopping", "returned", "gave_up", "dropped"
    streak                  \* the last probe results of each backend, newest first (history)

vars == <<recent_errors, consecutive_failures, consecutive_successes, lock, pc, results, up,
          handle, streak>>

Probed == <<recent_errors, consecutive_failures, consecutive_successes>>

IsHealthy(errors) == errors < unhealthy_threshold

-----------------------------------------------------------------------------

Init ==
    /\ recent_errors = [i \in Row |-> 0]
    /\ consecutive_failures = [i \in Index |-> 0]
    /\ consecutive_successes = [i \in Index |-> 0]
    /\ lock = Free
    /\ pc = "select"
    /\ results = [i \in Index |-> FALSE]
    /\ up \in [Index -> BOOLEAN]
    /\ handle = "held"
    /\ streak = [i \in Index |-> <<>>]

\* select! takes the interval branch; it may do so although a shutdown
\* message is waiting, since select! picks among ready branches at random.
TickBranch ==
    /\ pc = "select"
    /\ pc' = "probing"
    /\ UNCHANGED <<recent_errors, consecutive_failures, consecutive_successes, lock, results, up,
                   handle, streak>>

\* join_all over timeout(dial): a backend that is up may still fail a probe.
ProbesDone ==
    /\ pc = "probing"
    /\ results' \in {r \in [Index -> BOOLEAN] : \A i \in Index : r[i] => up[i]}
    /\ pc' = "waiting"
    /\ UNCHANGED <<recent_errors, consecutive_failures, consecutive_successes, lock, up, handle,
                   streak>>

LockMetrics ==
    /\ pc = "waiting" /\ lock = Free
    /\ lock' = Checker /\ pc' = "writing"
    /\ UNCHANGED <<recent_errors, consecutive_failures, consecutive_successes, results, up, handle,
                   streak>>

Capped(n) == IF n < MaxErrors THEN n + 1 ELSE n

\* A backend without a row is skipped: its counters stay as they are.
Checked(i) == i \in Row

FailuresNotReset == [i \in Index |-> IF Checked(i) /\ ~results[i]
                                     THEN Capped(consecutive_failures[i])
                                     ELSE consecutive_failures[i]]
Failures == [i \in Index |-> IF ~Checked(i) THEN consecutive_failures[i]
                             ELSE IF results[i] THEN 0 ELSE Capped(consecutive_failures[i])]

Successes == [i \in Index |-> IF ~Checked(i) THEN consecutive_successes[i]
                              ELSE IF results[i] THEN Capped(consecutive_successes[i]) ELSE 0]

WrittenIgnoringThreshold(i) ==
    IF i \notin Index THEN recent_errors[i] ELSE IF results[i] THEN 0 ELSE Failures[i]
WrittenOnce(i) ==
    IF i \notin Index THEN recent_errors[i]
    ELSE IF results[i] /\ Successes[i] >= healthy_threshold THEN 0
    ELSE IF results[i] THEN recent_errors[i] ELSE 1
Written(i) ==
    IF i \notin Index THEN recent_errors[i]
    ELSE IF results[i] /\ Successes[i] >= healthy_threshold THEN 0
    ELSE IF results[i] THEN recent_errors[i] ELSE Failures[i]

Latest(s) == SubSeq(s, 1, IF Len(s) < MaxErrors THEN Len(s) ELSE MaxErrors)

WriteKeepsLock ==
    /\ pc = "writing"
    /\ consecutive_failures' = Failures
    /\ consecutive_successes' = Successes
    /\ recent_errors' = [i \in Row |-> Written(i)]
    /\ streak' = [i \in Index |->
                    IF Checked(i) THEN Latest(<<results[i]>> \o streak[i]) ELSE streak[i]]
    /\ pc' = "select"
    /\ UNCHANGED <<lock, results, up, handle>>

\* The round's results are applied and the lock is released.
WriteResults ==
    /\ pc = "writing"
    /\ consecutive_failures' = Failures
    /\ consecutive_successes' = Successes
    /\ recent_errors' = [i \in Row |-> Written(i)]
    /\ streak' = [i \in Index |->
                    IF Checked(i) THEN Latest(<<results[i]>> \o streak[i]) ELSE streak[i]]
    /\ lock' = Free /\ pc' = "select"
    /\ UNCHANGED <<results, up, handle>>

\* select! takes the shutdown branch: a message, or the sender is gone.
ShutdownOnMessageOnly ==
    /\ pc = "select" /\ handle = "stopping"
    /\ pc' = "done"
    /\ UNCHANGED <<recent_errors, consecutive_failures, consecutive_successes, lock, results, up,
                   handle, streak>>

ShutdownBranch ==
    /\ pc = "select" /\ handle # "held"
    /\ pc' = "done"
    /\ UNCHANGED <<recent_errors, consecutive_failures, consecutive_successes, lock, results, up,
                   handle, streak>>

-----------------------------------------------------------------------------
(* The owner of the handle, other tasks, and the backends.                 *)

\* shutdown(self): the message is in the channel; now await the task.
ShutdownStart ==
    /\ handle = "held"
    /\ handle' = "stopping"
    /\ UNCHANGED <<recent_errors, consecutive_failures, consecutive_successes, lock, pc, results,
                   up, streak>>

ShutdownNoWait ==
    /\ handle = "stopping"
    /\ handle' = "returned"
    /\ UNCHANGED <<recent_errors, consecutive_failures, consecutive_successes, lock, pc, results,
                   up, streak>>

\* It returns when the task has ended,
ShutdownReturn ==
    /\ handle = "stopping"
    /\ pc = "done"
    /\ handle' = "returned"
    /\ UNCHANGED <<recent_errors, consecutive_failures, consecutive_successes, lock, pc, results,
                   up, streak>>

\* or after five seconds, while a round may still be under way.
ShutdownTimeout ==
    /\ handle = "stopping" /\ pc # "done"
    /\ handle' = "gave_up"
    /\ UNCHANGED <<recent_errors, consecutive_failures, consecutive_successes, lock, pc, results,
                   up, streak>>

DropHandle ==
    /\ handle = "held"
    /\ handle' = "dropped"
    /\ UNCHANGED <<recent_errors, consecutive_failures, consecutive_successes, lock, pc, results,
                   up, streak>>

OtherLock ==
    /\ Passive /\ lock = Free
    /\ lock' = Other
    /\ UNCHANGED <<recent_errors, consecutive_failures, consecutive_successes, pc, results, up,
                   handle, streak>>

\* record_dial_result under the lock; total_errors is not looked at here.
RecordDialResult(i, success) ==
    /\ lock = Other
    /\ success \/ recent_errors[i] < MaxErrors
    /\ recent_errors' = [recent_errors EXCEPT ![i] =
                            IF success THEN 0 ELSE IF @ < U32Max THEN @ + 1 ELSE @]
    /\ lock' = Free
    /\ UNCHANGED <<consecutive_failures, consecutive_successes, pc, results, up, handle, streak>>

\* A backend goes down or comes up.
Flip(i) ==
    /\ pc = "select"
    /\ up' = [up EXCEPT ![i] = ~@]
    /\ UNCHANGED <<recent_errors, consecutive_failures, consecutive_successes, lock, pc, results,
                   handle, streak>>

LoopStep == ProbesDone \/ LockMetrics \/ WriteResults \/ TickBranch \/ ShutdownBranch

Stopped == pc = "done" /\ handle \in {"returned", "gave_up", "dropped"} /\ lock = Free /\ UNCHANGED vars

Next ==
    \/ LoopStep
    \/ ShutdownStart \/ ShutdownReturn \/ ShutdownTimeout \/ DropHandle
    \/ OtherLock
    \/ \E i \in Row, success \in BOOLEAN : RecordDialResult(i, success)
    \/ \E i \in Index : Flip(i)
    \/ Stopped

Spec == Init /\ [][Next]_vars

\* The runtime polls the loop, the mutex is FIFO, whoever holds it lets go,
\* and a random select! does not ignore a ready branch for ever.
Fairness ==
    /\ WF_vars(LoopStep) /\ SF_vars(LockMetrics) /\ SF_vars(ShutdownBranch)
    /\ WF_vars(ShutdownReturn)
    /\ WF_vars(\E i \in Row, success \in BOOLEAN : RecordDialResult(i, success))

FairSpec == Spec /\ Fairness

-----------------------------------------------------------------------------
(* Properties.                                                             *)

\* Every variable keeps its type.
TypeOK ==
    /\ recent_errors \in [Row -> 0..U32Max]
    /\ consecutive_failures \in [Index -> 0..MaxErrors]
    /\ consecutive_successes \in [Index -> 0..MaxErrors]
    /\ lock \in {Free, Checker, Other}
    /\ pc \in {"select", "probing", "waiting", "writing", "done"}
    /\ results \in [Index -> BOOLEAN] /\ up \in [Index -> BOOLEAN]
    /\ handle \in {"held", "stopping", "returned", "gave_up", "dropped"}
    /\ lock = Checker <=> pc = "writing"

AllOf(s, n, result) == Len(s) >= n /\ \A k \in 1..n : s[k] = result

\* The checker turns a backend unhealthy only on the unhealthy_threshold-th
\* consecutive failed probe.
UnhealthyNeedsFailures ==
    [][\A i \in Index \cap Row :
         WriteResults /\ IsHealthy(recent_errors[i]) /\ ~IsHealthy(recent_errors'[i])
         => AllOf(streak'[i], unhealthy_threshold, FALSE)]_vars

\* A successful probe turns an unhealthy backend healthy only when it is the
\* healthy_threshold-th in a row.
RecoveryNeedsSuccesses ==
    [][\A i \in Index \cap Row :
         WriteResults /\ results[i] /\ ~IsHealthy(recent_errors[i]) /\ IsHealthy(recent_errors'[i])
         => AllOf(streak'[i], healthy_threshold, TRUE)]_vars

\* Any probe that turns an unhealthy backend healthy is the last of
\* healthy_threshold consecutive successes.
HealthyNeedsSuccesses ==
    [][\A i \in Index \cap Row :
         WriteResults /\ ~IsHealthy(recent_errors[i]) /\ IsHealthy(recent_errors'[i])
         => AllOf(streak'[i], healthy_threshold, TRUE)]_vars

\* Once shutdown has returned within its five seconds the checker writes no
\* metrics any more, although a round may have been under way when it was called.
ShutdownIsClean == [][handle = "returned" => UNCHANGED Probed \/ lock = Other]_vars

\* A backend that stays down is eventually seen unhealthy and stays so, once
\* other tasks record no results any more.
DeadBackendDetected ==
    \A i \in Index \cap Row :
        <>[](~up[i] /\ lock # Other) /\ [](handle = "held") => <>[](~IsHealthy(recent_errors[i]))

\* After shutdown or drop the loop ends, though ticks keep arriving, other
\* tasks hold the metrics lock and shutdown may have given up waiting.
LoopEnds == handle # "held" ~> pc = "done"
===============================================================================
