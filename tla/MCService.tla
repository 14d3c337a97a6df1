------------------------------- MODULE MCService -------------------------------
(* Small instances of Service for TLC. *)
EXTENDS Service

CONSTANTS b1, b2

NoRetry == [kind |-> "no_retry", delay |-> 0, multiplier |-> 1, max_delay |-> 0,
            jitter |-> FALSE, max_attempts |-> None, total_timeout |-> None,
            transient_only |-> FALSE]

Fixed(d, max) == [NoRetry EXCEPT !.kind = "fixed", !.delay = d, !.max_attempts = max]

Exponential(cap, max, jitter) ==
    [NoRetry EXCEPT !.kind = "exponential", !.delay = 1, !.multiplier = 2, !.max_delay = cap,
                    !.max_attempts = max, !.jitter = jitter]

Custom(max, budget) ==
    [NoRetry EXCEPT !.kind = "custom", !.delay = 3, !.max_attempts = max,
                    !.total_timeout = budget]

OnTransient(p) == [p EXCEPT !.transient_only = TRUE]

BuiltIn == {None, NoRetry, Fixed(0, 3), Fixed(2, 3), OnTransient(Fixed(1, 4)),
            Exponential(5, 5, FALSE), Exponential(6, 5, TRUE),
            OnTransient(Exponential(3, 4, TRUE))}

\* The built-in policies, and custom ones that the budget alone stops.
Sound == BuiltIn \cup {Custom(None, 4), Custom(None, 7)}

SomeTimeouts == {None, 1, 2}

MCBackend == {b1, b2}

Lists == {None, <<>>, <<b1>>, <<b1, b2>>}

\* Every combination of the builder's fields that no constructor rules out.
Fields ==
    {[New(bs) EXCEPT !.strategy = s, !.factories = fs, !.initial_metrics = n] :
        bs \in Lists, fs \in Lists \cup {<<b2>>}, n \in {None, 0, 1, 2}, s \in BOOLEAN}

\* The wanted options come with well-formed requests of either kind.
Configured ==
    {NewWithMetrics(<<b1>>, 1, t, p) : t \in SomeTimeouts, p \in Sound}
      \cup {[FromFactories(<<b2>>) EXCEPT !.dial_timeout = 2, !.retry_policy = p] :
                 p \in {None, Fixed(2, 3)}}

MCRequests ==
    {r \in Fields : r.backends = None \/ r.factories = None
                    \/ Range(r.backends) \cap Range(r.factories) = {}} \cup Configured

\* One override at a time, and both.
MCLbRequests ==
    {[dial_timeout |-> t, retry_policy |-> p] : t \in {None, 1}, p \in {None, Fixed(0, 3)}}
===============================================================================
