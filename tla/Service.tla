-------------------------------- MODULE Service --------------------------------
(***************************************************************************)
(* A balancer in use, from its construction to its shutdown: Construction  *)
(* makes it, the Tower service of src/src/tower.rs (Arc<LoadBalancer>)     *)
(* takes a request for it, and the call runs dial_with_retry (Retry) with  *)
(* the options of the request or else of the builder.  A call in flight    *)
(* holds a clone of the Arc, so whoever administers the balancer through   *)
(* Arc::get_mut or Arc::try_unwrap waits for it.  The pick, the metrics    *)
(* and concurrent calls are in Balancer.                                   *)
(***************************************************************************)
EXTENDS Construction, Retry, FiniteSets

CONSTANT LbRequests   \* [dial_timeout, retry_policy] overrides of one call

Balancers == LoadBalancer(Option(Timeouts), Option(Policies))

ASSUME ServiceAssumption ==
    /\ Requests \subseteq Request(Option(Timeouts), Option(Policies))
    /\ LbRequests \subseteq [dial_timeout: Option(Timeouts), retry_policy: Option(Policies)]
    /\ None \notin Building \cup Balancers \cup LbRequests

VARIABLES
    call,     \* where the call is: none, ready, called, polled or refused
    request   \* the LbRequest it was made with

vars == <<build, balancer, fate, policy, timeout, tls, pc, attempt, clock, began, due, error,
          planned, call, request>>

Init ==
    /\ ConstructionInit
    /\ RetryInit
    /\ call = "none" /\ request = None

InFlight == call = "called" \/ (call = "polled" /\ pc \in Attempting \cup {"sleep"})

-----------------------------------------------------------------------------
(* Service<LbRequest>.                                                     *)

PollReady ==
    /\ balancer # None /\ balancer.backends # <<>>
    /\ call = "none"
    /\ call' = "ready"
    /\ UNCHANGED <<cvars, rvars, request>>

\* The future is made, with its clone of the Arc, and nothing else happens.
Call(r) ==
    /\ balancer # None
    /\ call = "ready"
    /\ call' = "called" /\ request' = r
    /\ UNCHANGED <<cvars, rvars>>

Override(override, default) == IF override # None THEN override ELSE default

EffectiveTimeout == Override(request.dial_timeout, balancer.dial_timeout)
EffectivePolicy == Override(request.retry_policy, balancer.retry_policy)

\* The first poll of dial_with_options, up to the first attempt.
Poll ==
    /\ call = "called" /\ balancer.backends # <<>>
    /\ FirstAttempt(EffectiveTimeout, EffectivePolicy)
    /\ call' = "polled"
    /\ UNCHANGED <<cvars, request>>

\* An address without host or port, or a pool emptied since poll_ready.
PollRefused ==
    /\ call = "called"
    /\ call' = "refused"
    /\ UNCHANGED <<cvars, rvars, request>>

Dial == DialStep /\ UNCHANGED <<cvars, call, request>>

DropCall ==
    /\ InFlight
    /\ call' = "polled" /\ pc' = "cancelled" /\ due' = None
    /\ UNCHANGED <<cvars, policy, timeout, tls, attempt, clock, began, error, planned, request>>

-----------------------------------------------------------------------------
(* The owner of the Arc; the awaits of these two are in Balancer.          *)

RemoveBackend(i) ==
    /\ balancer # None /\ ~InFlight
    /\ i \in 1..Len(balancer.backends)
    /\ balancer' = [balancer EXCEPT !.backends = RemoveAt(@, i), !.rows = @ - 1]
    /\ Become({balancer.backends[i]}, "down")
    /\ UNCHANGED <<build, rvars, call, request>>

Shutdown ==
    /\ balancer # None /\ ~InFlight
    /\ balancer' = None
    /\ Become(Range(balancer.backends), "down")
    /\ UNCHANGED <<build, rvars, call, request>>

-----------------------------------------------------------------------------

\* Bound: one call in a behaviour, and nothing is built after it.
Build == call = "none" /\ Construct /\ UNCHANGED <<rvars, call, request>>

\* Nothing is in progress.
Quiet == build = None /\ ~InFlight /\ UNCHANGED vars

Next ==
    \/ Build
    \/ PollReady \/ \E r \in LbRequests : Call(r)
    \/ Poll \/ PollRefused \/ Dial \/ DropCall
    \/ \E i \in 1..Cardinality(Backend) : RemoveBackend(i)
    \/ Shutdown
    \/ Quiet

Spec == Init /\ [][Next]_vars

\* The executor polls a spawned call, time passes and due timers fire; neither
\* factories nor backends owe an answer.
FairSpec ==
    /\ Spec
    /\ WF_vars(Poll \/ PollRefused)
    /\ WF_vars(Tick /\ UNCHANGED <<cvars, call, request>>)
    /\ WF_vars(TimesOut /\ UNCHANGED <<cvars, call, request>>)
    /\ WF_vars(Wake /\ UNCHANGED <<cvars, call, request>>)

-----------------------------------------------------------------------------
(* Properties.                                                             *)

\* Every variable keeps its type.
TypeOK ==
    /\ DialTypeOK
    /\ fate \in [Backend -> {"fresh", "owned", "down", "dropped"}]
    /\ build \in Option(Building) /\ balancer \in Option(Balancers)
    /\ call \in {"none", "ready", "called", "polled", "refused"}
    /\ request \in Option(LbRequests)

\* No attempt outlives the dial timeout of its request, or else of the builder:
\* the one timer of dial_with_retry runs from the start of the attempt and
\* covers the wrapped backend's dial and the TLS handshake together.
AttemptTimed ==
    call = "polled" /\ pc \in Attempting =>
        \/ request.dial_timeout = None /\ balancer.dial_timeout = None
        \/ /\ request.dial_timeout # None => clock <= began + request.dial_timeout
           /\ request.dial_timeout = None => clock <= began + balancer.dial_timeout

\* With a dial timeout, and a policy that limits the attempts or the time, a
\* call returns although the backend, or the peer of its TLS handshake, never
\* answers; so its clone of the Arc is released and shutdown becomes possible.
CallReturns ==
    /\ call = "called" /\ EffectiveTimeout # None
    /\ EffectivePolicy = None \/ EffectivePolicy.max_attempts # None
                              \/ EffectivePolicy.total_timeout # None
    ~> ~InFlight
================================================================================
