----------------------------- MODULE Construction -----------------------------
(***************************************************************************)
(* How a LoadBalancer comes to be (src/src/services/balancer.rs): new,     *)
(* new_with_metrics, from_factories and LoadBalancerBuilder::build.  Each  *)
(* takes over the backends it is given, awaits one factory after another,  *)
(* and either returns a balancer or an error.  A build future may be       *)
(* dropped at any await.                                                   *)
(***************************************************************************)
EXTENDS Vectors, Functions, Options

CONSTANTS
    Backend,   \* Box<dyn Backend> values, given or made by factories
    Requests   \* what callers ask for (records, see Request)

\* The fields of LoadBalancerBuilder.  factories lists the backend each factory
\* would create; of initial_metrics only the length matters here.
Request(timeouts, policies) ==
    [strategy: BOOLEAN, backends: Option(Seq(Backend)), factories: Option(Seq(Backend)),
     initial_metrics: Option(Nat), dial_timeout: timeouts, retry_policy: policies]

Given(s) == IF s = None THEN <<>> ELSE s

\* No Box is listed twice.
ASSUME RequestAssumption ==
    \A r \in Requests : IsInjective(Given(r.backends)) /\ IsInjective(Given(r.factories))

\* A construction in progress: the request and the backends in hand.
Building == [req: Requests, made: Seq(Backend)]

\* The LoadBalancer that comes out of it.
LoadBalancer(timeouts, policies) ==
    [backends: Seq(Backend), rows: Nat, dial_timeout: timeouts, retry_policy: policies]

VARIABLES
    build,    \* the construction in progress, or None
    balancer, \* the balancer, or None before construction and after shutdown
    fate      \* what became of each backend (history)

cvars == <<build, balancer, fate>>

-----------------------------------------------------------------------------
(* The constructors that are not the builder, as requests to it.           *)

New(backends) ==
    [strategy |-> TRUE, backends |-> backends, factories |-> None, initial_metrics |-> None,
     dial_timeout |-> None, retry_policy |-> None]

NewWithMetrics(backends, n, timeout, policy) ==
    [New(backends) EXCEPT !.initial_metrics = n, !.dial_timeout = timeout, !.retry_policy = policy]

FromFactories(factories) == [New(None) EXCEPT !.factories = factories]

-----------------------------------------------------------------------------

ConstructionInit ==
    /\ build = None /\ balancer = None
    /\ fate = [b \in Backend |-> "fresh"]

Become(S, f) == fate' = [b \in Backend |-> IF b \in S THEN f ELSE fate[b]]

\* The call is made: the backends in the request now belong to the library.
Submit(req) ==
    /\ build = None /\ balancer = None
    /\ \A b \in Range(Given(req.backends)) \cup Range(Given(req.factories)) : fate[b] = "fresh"
    /\ build' = [req |-> req, made |-> Given(req.backends)]
    /\ Become(Range(Given(req.backends)), "owned")
    /\ UNCHANGED balancer

EitherSource(req) == req.backends # None \/ req.factories # None
OneSource(req) == (req.backends = None) # (req.factories = None)

LengthAgrees(req, n) == req.initial_metrics \in {None, n}

\* The errors found before any factory runs.
Refused(req) ==
    \/ ~req.strategy
    \/ ~OneSource(req)
    \/ Given(req.backends) \o Given(req.factories) = <<>>
    \/ req.backends # None /\ ~LengthAgrees(req, Len(req.backends))

\* An error or a dropped future: the backends in hand go with it, and none of
\* them is shut down.
Fail ==
    /\ Become(Range(build.made), "dropped")
    /\ build' = None
    /\ UNCHANGED balancer

Refuse == build # None /\ Refused(build.req) /\ Fail

Pending == build # None /\ ~Refused(build.req)
           /\ Len(build.made) < Len(Given(build.req.factories))

\* The next factory answers.
Create ==
    /\ Pending
    /\ LET b == build.req.factories[Len(build.made) + 1]
       IN  /\ build' = [build EXCEPT !.made = Append(@, b)]
           /\ Become({b}, "owned")
    /\ UNCHANGED balancer

\* The factory fails, or the caller drops the future while it awaits it.
CreateFails == Pending /\ Fail

Ready == build # None /\ ~Refused(build.req)
         /\ Len(build.made) >= Len(Given(build.req.factories))

\* initial_metrics is compared with the factories only once all have run.
RefuseLate == Ready /\ ~LengthAgrees(build.req, Len(build.made)) /\ Fail

Finish ==
    /\ Ready /\ LengthAgrees(build.req, Len(build.made))
    /\ balancer' = [backends |-> build.made,
                    rows |-> IF build.req.initial_metrics = None THEN Len(build.made)
                             ELSE build.req.initial_metrics,
                    dial_timeout |-> build.req.dial_timeout,
                    retry_policy |-> build.req.retry_policy]
    /\ build' = None
    /\ UNCHANGED fate

Construct ==
    \/ \E req \in Requests : Submit(req)
    \/ Refuse \/ Create \/ CreateFails \/ RefuseLate \/ Finish

-----------------------------------------------------------------------------
(* Properties.                                                             *)

\* build returns a balancer only for a request with a strategy and exactly one
\* of backends and factories; it then has at least one backend, all of those
\* asked for in their order, and one metrics row for each, whichever of the
\* constructors was used and whatever initial_metrics was given.
BuildSound ==
    [][balancer = None /\ balancer' # None
       => /\ build.req.strategy
          /\ {balancer'.backends} = {build.req.backends, build.req.factories} \ {None}
          /\ balancer'.backends # <<>> /\ balancer'.rows = Len(balancer'.backends)]_cvars
===============================================================================
