-------------------------------- MODULE Retry --------------------------------
(***************************************************************************)
(* dial_with_retry (src/src/services/balancer.rs) with the retry policies  *)
(* of src/src/utils/retry.rs: one dial on the backend that was picked, its *)
(* attempts, the timeout of each attempt and the sleeps between them.  The *)
(* backend may be a TlsBackend (src/src/configs/tls.rs): its dial is the   *)
(* dial of the backend it wraps followed by the handshake.                 *)
(* Time is a clock in units; timers fire when they are due (tokio), the    *)
(* backend answers whenever it likes, or never.                            *)
(***************************************************************************)
EXTENDS Integers, Options

CONSTANTS
    Policies,     \* retry policies the dial may use (records, see Policy)
    Timeouts,     \* effective_timeout values, None included
    FloatMax,     \* bound: raw delays above are f64 infinity
    I32Max,       \* i32::MAX, the largest exponent of powi
    MaxWait       \* bound: how long an attempt without a timeout waits

\* fixed: delay; exponential: delay, multiplier, max_delay, jitter.  custom
\* is a user policy that keeps asking for a retry and states its limits
\* through max_attempts() and total_timeout() only.
\* The multiplier is a whole number here; with_multiplier takes any f64.  Between
\* 0 and 1 it makes the delays shrink, below 0 it makes from_secs_f64 panic.
Policy == [kind: {"no_retry", "fixed", "exponential", "custom"}, delay: Nat, multiplier: Nat,
           max_delay: Nat, jitter: BOOLEAN, max_attempts: Option(Nat),
           total_timeout: Option(Nat), transient_only: BOOLEAN]

ASSUME PolicyAssumption == Policies \subseteq Option(Policy)
ASSUME TimeoutAssumption == Timeouts \subseteq Option(Nat)
ASSUME RetryBoundAssumption == {FloatMax, I32Max, MaxWait} \subseteq Nat

VARIABLES
    policy, timeout,  \* effective_policy, effective_timeout
    tls,              \* the backend is a TlsBackend
    pc,               \* where the dial is
    attempt,          \* u32, attempts started
    clock,            \* since start
    began,            \* when the current attempt began (history)
    due,              \* when the current timer fires, or None
    error,            \* the last error
    planned           \* the delay the last sleep was given (history)

rvars == <<policy, timeout, tls, pc, attempt, clock, began, due, error, planned>>

\* Inside Backend::dial.
Attempting == {"attempt", "handshake"}

\* Error::Io, Error::Backend with and without a timeout in its text, others.
Errors == {"io", "backend_timeout", "backend", "other"}

\* is_transient_error
Transient(e) == e \in {"io", "backend_timeout"}

-----------------------------------------------------------------------------
(* should_retry: the set of delays it may return, empty for None.          *)

Smaller(a, b) == IF a < b THEN a ELSE b

\* The exponent falls back to 0 when attempt does not fit i32.
Exponent(n) == IF n <= I32Max THEN n ELSE 0

\* f64::powi
Power(base, n) ==
    LET f[k \in 0..n] == IF k = 0 THEN 1 ELSE base * f[k - 1]
    IN  f[n]

\* Random jitter takes the delay down to between half of it and all of it.
UncappedDelays(p, n) ==
    LET raw == p.delay * Power(p.multiplier, Exponent(n))
    IN  IF p.jitter THEN ((raw + 1) \div 2)..raw ELSE {raw}
ExponentialDelays(p, n) ==
    LET raw == p.delay * Power(p.multiplier, Exponent(n))
        d == Smaller(raw, p.max_delay)
    IN  IF raw > FloatMax THEN {p.max_delay}
        ELSE IF p.jitter THEN ((d + 1) \div 2)..d ELSE {d}

MaxReachedLate(p, n) == p.max_attempts # None /\ n > p.max_attempts
MaxReached(p, n) == p.max_attempts # None /\ n >= p.max_attempts

ShouldRetry(p, n, e) ==
    IF \/ p.transient_only /\ ~Transient(e)
       \/ p.kind = "no_retry"
       \/ p.kind # "custom" /\ MaxReached(p, n)
    THEN {}
    ELSE IF p.kind = "exponential" THEN ExponentialDelays(p, n) ELSE {p.delay}

-----------------------------------------------------------------------------

DeadlineRemaining == IF timeout = None THEN None ELSE timeout - clock
Deadline == IF timeout = None THEN None ELSE clock + timeout

RetryInit ==
    /\ policy = None /\ timeout = None /\ tls \in BOOLEAN
    /\ pc = "idle" /\ attempt = 0
    /\ clock = 0 /\ began = 0
    /\ due = None /\ error = None /\ planned = None

\* dial_with_retry begins its first attempt with these effective options.
FirstAttempt(effective_timeout, effective_policy) ==
    /\ pc = "idle"
    /\ timeout' = effective_timeout /\ policy' = effective_policy
    /\ pc' = "attempt" /\ attempt' = 1
    /\ due' = effective_timeout
    /\ UNCHANGED <<tls, clock, began, error, planned>>

Succeed ==
    /\ pc' = "ok" /\ due' = None
    /\ UNCHANGED <<policy, timeout, tls, attempt, clock, began, error, planned>>

\* TlsBackend::dial goes on to connect_tls under the timer of the attempt.
HandshakeRestartsTimer ==
    /\ pc' = "handshake" /\ due' = Deadline
    /\ UNCHANGED <<policy, timeout, tls, attempt, clock, began, error, planned>>
Handshake ==
    /\ pc' = "handshake"
    /\ UNCHANGED <<policy, timeout, tls, attempt, clock, began, due, error, planned>>

BackendAnswers ==
    /\ pc = "attempt"
    /\ IF tls THEN Handshake ELSE Succeed

HandshakeDone == pc = "handshake" /\ Succeed

BudgetUnchecked == TRUE
WithinBudget == policy.total_timeout = None \/ clock < policy.total_timeout

\* The attempt failed with e: ask the policy, then sleep or give up.
AttemptFailed(e) ==
    LET delays == IF policy # None /\ WithinBudget THEN ShouldRetry(policy, attempt, e) ELSE {}
    IN  /\ error' = e
        /\ \/ delays = {} /\ pc' = "failed" /\ due' = None /\ UNCHANGED planned
           \/ \E d \in delays : pc' = "sleep" /\ due' = clock + d /\ planned' = d
        /\ UNCHANGED <<policy, timeout, tls, attempt, clock, began>>

BackendFails == pc = "attempt" /\ \E e \in Errors : AttemptFailed(e)

\* connect_tls turns every failure, I/O errors included, into Error::Backend.
HandshakeFails == pc = "handshake" /\ \E e \in {"backend_timeout", "backend"} : AttemptFailed(e)

\* tokio::time::timeout: Error::backend("dial timeout").
TimesOut ==
    /\ pc \in Attempting
    /\ due # None /\ clock = due
    /\ AttemptFailed("backend_timeout")

WakeWithoutTimeout ==
    /\ pc = "sleep" /\ clock = due
    /\ pc' = "attempt" /\ attempt' = attempt + 1 /\ began' = clock
    /\ due' = None
    /\ UNCHANGED <<policy, timeout, tls, clock, error, planned>>

\* The sleep is over: the next attempt, on the same backend.
Wake ==
    /\ pc = "sleep" /\ clock = due
    /\ pc' = "attempt" /\ attempt' = attempt + 1 /\ began' = clock
    /\ due' = Deadline
    /\ UNCHANGED <<policy, timeout, tls, clock, error, planned>>

Tick ==
    /\ pc \in Attempting \cup {"sleep"}
    /\ IF due = None THEN clock < MaxWait ELSE clock < due
    /\ clock' = clock + 1
    /\ UNCHANGED <<policy, timeout, tls, pc, attempt, began, due, error, planned>>

Timers == TimesOut \/ Wake \/ Tick

DialStep == BackendAnswers \/ BackendFails \/ HandshakeDone \/ HandshakeFails \/ Timers

-----------------------------------------------------------------------------
(* Properties.                                                             *)

\* The variables of a dial keep their types.
DialTypeOK ==
    /\ policy \in Option(Policies) /\ timeout \in Option(Timeouts) /\ tls \in BOOLEAN
    /\ pc \in Attempting \cup {"idle", "sleep", "ok", "failed", "cancelled"}
    /\ {attempt, clock, began} \subseteq Nat
    /\ {due, planned} \subseteq Option(Nat)
    /\ error \in Option(Errors)

\* The limit of max_attempts(), which counts the initial attempt, is kept.
AttemptsBounded ==
    policy # None /\ policy.max_attempts # None /\ policy.max_attempts > 0
        => attempt <= policy.max_attempts

\* ExponentialBackoff never sleeps longer than max_delay, also where the
\* exponential overflows, and sleeps at least half as long as the delay before
\* it unless max_delay cuts it off: jitter cannot undo the backoff.
BackoffBounded ==
    [][pc' = "sleep" /\ pc \in Attempting /\ policy.kind = "exponential"
       => /\ planned' <= policy.max_delay
          /\ planned # None /\ attempt <= I32Max => 2 * planned' >= planned]_rvars

\* An attempt that starts after total_timeout was planned before it: the
\* budget is overrun by less than the last sleep, never by a whole attempt.
BudgetOverrun ==
    [][attempt > 0 /\ attempt' # attempt /\ policy.total_timeout # None
       => clock < policy.total_timeout + planned]_rvars
==============================================================================
