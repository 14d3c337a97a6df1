----------------------------- MODULE ServiceProofs -----------------------------
(* Construction and timed calls, for any requests, policies and timeouts. *)
EXTENDS Service, SharedFacts

-----------------------------------------------------------------------------
(* Construction.                                                           *)

Fates == {"fresh", "owned", "down", "dropped"}

\* A construction and a balancer exclude each other.  What the construction has
\* in hand is the given backends, or the first so many of those the factories
\* make, without repetitions; a balancer has one row per backend.
ConstructionInv ==
    /\ build \in Option(Building) /\ balancer \in Option(Balancers)
    /\ fate \in [Backend -> Fates]
    /\ build = None \/ balancer = None
    /\ build # None =>
           /\ IsInjective(build.made)
           /\ OneSource(build.req) /\ build.req.backends # None => build.made = build.req.backends
           /\ OneSource(build.req) /\ build.req.backends = None =>
                  /\ Len(build.made) <= Len(build.req.factories)
                  /\ \A k \in 1..Len(build.made) : build.made[k] = build.req.factories[k]
    /\ balancer # None =>
           IsInjective(balancer.backends) /\ balancer.rows = Len(balancer.backends)

\* The fields of a request and what they say about the lists in it.
LEMMA RequestFields ==
    ASSUME NEW r \in Requests
    PROVE  /\ r.backends \in Option(Seq(Backend)) /\ r.factories \in Option(Seq(Backend))
           /\ Given(r.backends) \in Seq(Backend) /\ Given(r.factories) \in Seq(Backend)
           /\ r.initial_metrics \in Option(Nat)
           /\ r.dial_timeout \in Option(Timeouts) /\ r.retry_policy \in Option(Policies)
           /\ IsInjective(Given(r.backends)) /\ IsInjective(Given(r.factories))
  <1>1. r \in Request(Option(Timeouts), Option(Policies))
    BY ServiceAssumption
  <1>2. /\ r.backends \in Option(Seq(Backend)) /\ r.factories \in Option(Seq(Backend))
        /\ r.initial_metrics \in Option(Nat)
        /\ r.dial_timeout \in Option(Timeouts) /\ r.retry_policy \in Option(Policies)
    BY <1>1 DEF Request
  <1>3. Given(r.backends) \in Seq(Backend) /\ Given(r.factories) \in Seq(Backend)
    BY <1>2 DEF Given, Option
  <1> QED
    BY <1>2, <1>3, RequestAssumption

\* Elements of a list of backends are backends.
LEMMA RangeOfBackends ==
    ASSUME NEW s \in Seq(Backend)
    PROVE  Range(s) \subseteq Backend
  BY LenProperties, ElementOfSeq DEF Range

\* Putting a backend at the end of a list that does not have it.
LEMMA AppendFresh ==
    ASSUME NEW s \in Seq(Backend), NEW b \in Backend, IsInjective(s), b \notin Range(s)
    PROVE  IsInjective(Append(s, b)) /\ Append(s, b) \in Seq(Backend)
  <1>1. Len(s) \in Nat /\ DOMAIN s = 1..Len(s)
    BY LenProperties
  <1>2. /\ Append(s, b) \in Seq(Backend) /\ Len(Append(s, b)) = Len(s) + 1
        /\ \A i \in 1..Len(s) : Append(s, b)[i] = s[i]
        /\ Append(s, b)[Len(s) + 1] = b
    BY AppendProperties
  <1>3. DOMAIN Append(s, b) = 1..(Len(s) + 1)
    BY <1>2, LenProperties
  <1>4. \A i \in 1..Len(s) : s[i] # b
    BY <1>1 DEF Range
  <1>5. \A i, j \in 1..Len(s) : s[i] = s[j] => i = j
    BY <1>1 DEF IsInjective
  <1>6. \A i, j \in 1..(Len(s) + 1) : Append(s, b)[i] = Append(s, b)[j] => i = j
    BY <1>1, <1>2, <1>4, <1>5
  <1> QED
    BY <1>2, <1>3, <1>6 DEF IsInjective

\* Before anything is built.
LEMMA ConstructionStart == Init => ConstructionInv
  <1> SUFFICES ASSUME Init PROVE ConstructionInv
    OBVIOUS
  <1>1. build = None /\ balancer = None /\ fate = [b \in Backend |-> "fresh"]
    BY DEF Init, ConstructionInit
  <1> QED
    BY <1>1 DEF ConstructionInv, Option, Fates

\* Every step keeps a construction in line with its request.
LEMMA ConstructionStep == ConstructionInv /\ [Next]_vars => ConstructionInv'
  <1> SUFFICES ASSUME ConstructionInv, [Next]_vars PROVE ConstructionInv'
    OBVIOUS
  <1>n. None \notin Building /\ None \notin Balancers
    BY ServiceAssumption
  <1>b. build # None => /\ build \in Building /\ build.req \in Requests
                        /\ build.made \in Seq(Backend) /\ balancer = None
    BY DEF ConstructionInv, Option, Building
  <1>f. ASSUME NEW S \in SUBSET Backend, NEW f \in Fates, Become(S, f)
        PROVE  fate' \in [Backend -> Fates]
    BY <1>f DEF Become, ConstructionInv
  <1>1. ASSUME NEW r \in Requests, Submit(r)
        PROVE  ConstructionInv'
    <2> DEFINE g == Given(r.backends)
    <2>1. g \in Seq(Backend) /\ IsInjective(g) /\ Range(g) \subseteq Backend
      BY RequestFields, RangeOfBackends
    <2>2. /\ build = None /\ balancer = None /\ balancer' = None
          /\ build' = [req |-> r, made |-> g] /\ Become(Range(g), "owned")
      BY <1>1 DEF Submit
    <2>3. build' \in Building /\ build' # None /\ build'.req = r /\ build'.made = g
      BY <1>n, <2>1, <2>2 DEF Building
    <2>4. fate' \in [Backend -> Fates]
      BY <1>f, <2>1, <2>2 DEF Fates
    <2>5. OneSource(r) /\ r.backends # None => g = r.backends
      BY DEF Given
    <2>6. ASSUME OneSource(r), r.backends = None
          PROVE  Len(g) <= Len(r.factories) /\ \A k \in 1..Len(g) : g[k] = r.factories[k]
      <3>1. g = <<>> /\ r.factories \in Seq(Backend)
        BY <2>6, RequestFields DEF Given, OneSource, Option
      <3> QED
        BY <3>1, LenProperties
    <2> QED
      BY <2>1, <2>2, <2>3, <2>4, <2>5, <2>6 DEF ConstructionInv, Option
  <1>2. ASSUME build # None, Fail
        PROVE  ConstructionInv'
    <2>1. /\ build' = None /\ balancer' = None /\ Range(build.made) \subseteq Backend
          /\ Become(Range(build.made), "dropped")
      BY <1>2, <1>b, RangeOfBackends DEF Fail
    <2>2. fate' \in [Backend -> Fates]
      BY <1>f, <2>1 DEF Fates
    <2> QED
      BY <2>1, <2>2 DEF ConstructionInv, Option
  <1>3. CASE Create
    <2> DEFINE n == Len(build.made)
               fs == build.req.factories
               b0 == fs[n + 1]
    <2>1. build # None /\ ~Refused(build.req) /\ n < Len(Given(fs)) /\ balancer' = balancer
      BY <1>3 DEF Create, Pending
    <2>2. build \in Building /\ build.made \in Seq(Backend) /\ build.req \in Requests /\ balancer = None
          /\ n \in Nat
      BY <1>b, <2>1, LenProperties
    <2>3. OneSource(build.req) /\ fs # None /\ build.req.backends = None
      <3>1. OneSource(build.req)
        BY <2>1 DEF Refused
      <3>2. fs # None
        BY <2>1, <2>2 DEF Given
      <3> QED
        BY <3>1, <3>2 DEF OneSource
    <2>4. fs \in Seq(Backend) /\ IsInjective(fs) /\ Len(fs) \in Nat /\ n < Len(fs)
      BY <2>1, <2>2, <2>3, RequestFields, LenProperties DEF Given, Option
    <2>5. b0 \in Backend /\ n + 1 \in 1..Len(fs)
      BY <2>2, <2>4, ElementOfSeq
    <2>6. \A k \in 1..n : build.made[k] = fs[k]
      BY <2>1, <2>3 DEF ConstructionInv
    <2>7. b0 \notin Range(build.made)
      <3>1. DOMAIN fs = 1..Len(fs) /\ DOMAIN build.made = 1..n
        BY <2>2, <2>4, LenProperties
      <3>2. \A k \in 1..n : fs[k] # b0
        BY <2>2, <2>4, <2>5, <3>1, SMTT(30) DEF IsInjective
      <3> QED
        BY <2>6, <3>1, <3>2 DEF Range
    <2>8. /\ build' = [build EXCEPT !.made = Append(@, b0)] /\ Become({b0}, "owned")
      BY <1>3 DEF Create
    <2>9. IsInjective(build.made)
      BY <2>1 DEF ConstructionInv
    <2>10. Append(build.made, b0) \in Seq(Backend) /\ IsInjective(Append(build.made, b0))
      BY <2>2, <2>5, <2>7, <2>9, AppendFresh
    <2>11. /\ build' \in Building /\ build' # None /\ build'.req = build.req
           /\ build'.made = Append(build.made, b0)
      BY <1>n, <2>2, <2>8, <2>10, Zenon DEF Building
    <2>12. /\ Len(build'.made) = n + 1
           /\ \A k \in 1..(n + 1) : build'.made[k] = fs[k]
      <3>1. /\ Len(build'.made) = n + 1
            /\ \A k \in 1..n : build'.made[k] = build.made[k]
            /\ build'.made[n + 1] = b0
        BY <2>2, <2>5, <2>11, AppendProperties
      <3> QED
        BY <2>2, <2>6, <3>1
    <2>13. fate' \in [Backend -> Fates]
      BY <1>f, <2>5, <2>8 DEF Fates
    <2>14. Len(build'.made) <= Len(build'.req.factories)
      BY <2>2, <2>4, <2>11, <2>12
    <2> QED
      BY <2>1, <2>2, <2>3, <2>10, <2>11, <2>12, <2>13, <2>14 DEF ConstructionInv, Option
  <1>4. CASE Finish
    <2>1. build # None /\ LengthAgrees(build.req, Len(build.made)) /\ build' = None /\ fate' = fate
      BY <1>4 DEF Finish, Ready
    <2>2. build.made \in Seq(Backend) /\ build.req \in Requests /\ Len(build.made) \in Nat
      BY <1>b, <2>1, LenProperties
    <2>3. balancer' = [backends |-> build.made, rows |-> Len(build.made),
                       dial_timeout |-> build.req.dial_timeout,
                       retry_policy |-> build.req.retry_policy]
      BY <1>4, <2>1 DEF Finish, LengthAgrees
    <2>4. /\ balancer' \in Balancers /\ balancer' # None
          /\ balancer'.backends = build.made /\ balancer'.rows = Len(build.made)
      BY <1>n, <2>2, <2>3, RequestFields DEF Balancers, LoadBalancer
    <2>5. IsInjective(build.made)
      BY <2>1 DEF ConstructionInv
    <2> QED
      BY <2>1, <2>4, <2>5 DEF ConstructionInv, Option
  <1>o. balancer # None => /\ balancer \in Balancers /\ build = None
                           /\ balancer.backends \in Seq(Backend)
                           /\ Range(balancer.backends) \subseteq Backend
    BY RangeOfBackends DEF ConstructionInv, Option, Balancers, LoadBalancer
  <1>5. ASSUME NEW i, RemoveBackend(i)
        PROVE  ConstructionInv'
    <2> DEFINE s == balancer.backends
    <2>1. /\ balancer # None /\ i \in 1..Len(s) /\ build' = build
          /\ balancer' = [balancer EXCEPT !.backends = RemoveAt(@, i), !.rows = @ - 1]
          /\ Become({s[i]}, "down")
      BY <1>5 DEF RemoveBackend
    <2>2. s \in Seq(Backend) /\ IsInjective(s) /\ balancer.rows = Len(s) /\ Len(s) \in Nat
      BY <1>o, <2>1, LenProperties DEF ConstructionInv
    <2>3. /\ RemoveAt(s, i) \in Seq(Backend) /\ Len(RemoveAt(s, i)) = Len(s) - 1
          /\ IsInjective(RemoveAt(s, i))
      BY <2>1, <2>2, RemoveAtProperties, RemoveInjective
    <2>4. /\ balancer' \in Balancers /\ balancer' # None
          /\ balancer'.backends = RemoveAt(s, i) /\ balancer'.rows = Len(s) - 1
      <3> DEFINE r == RemoveAt(s, i)
                 n == Len(s) - 1
      <3>1. n \in Nat /\ r \in Seq(Backend) /\ balancer \in Balancers
        BY <1>o, <2>1, <2>2, <2>3
      <3>2. balancer' = [balancer EXCEPT !.backends = r, !.rows = n]
        BY <2>1, <2>2
      <3> HIDE DEF r, n
      <3>3. balancer' \in Balancers /\ balancer'.backends = r /\ balancer'.rows = n
        BY <3>1, <3>2, Zenon DEF Balancers, LoadBalancer
      <3> QED
        BY <1>n, <3>3 DEF r, n
    <2>5. s[i] \in Backend
      BY <2>1, <2>2, ElementOfSeq
    <2>6. fate' \in [Backend -> Fates]
      BY <1>f, <2>1, <2>5 DEF Fates
    <2> QED
      BY <1>o, <2>1, <2>3, <2>4, <2>6 DEF ConstructionInv, Option
  <1>6. CASE Shutdown
    <2>1. /\ balancer # None /\ balancer' = None /\ build' = build
          /\ Become(Range(balancer.backends), "down")
      BY <1>6 DEF Shutdown
    <2>2. fate' \in [Backend -> Fates]
      BY <1>f, <1>o, <2>1 DEF Fates
    <2> QED
      BY <1>o, <2>1, <2>2 DEF ConstructionInv, Option
  <1>7. CASE UNCHANGED cvars
    BY <1>7 DEF cvars, ConstructionInv
  <1>8. CASE Build
    BY <1>1, <1>2, <1>3, <1>4, <1>8
    DEF Build, Construct, Refuse, CreateFails, RefuseLate, Pending, Ready
  <1>9. CASE PollReady \/ (\E r \in LbRequests : Call(r)) \/ Poll \/ PollRefused \/ Dial \/ DropCall
    BY <1>7, <1>9 DEF PollReady, Call, Poll, PollRefused, Dial, DropCall
  <1>10. CASE UNCHANGED vars
    BY <1>7, <1>10 DEF vars, cvars
  <1> QED
    BY <1>5, <1>6, <1>8, <1>9, <1>10 DEF Next, Quiet

\* A balancer comes out of a complete request only, with the backends asked for in
\* their order and one metrics row for each.
THEOREM BuildIsSound == Spec => BuildSound
  <1> DEFINE Sound == balancer = None /\ balancer' # None
                 => /\ build.req.strategy
                    /\ {balancer'.backends} = {build.req.backends, build.req.factories} \ {None}
                    /\ balancer'.backends # <<>> /\ balancer'.rows = Len(balancer'.backends)
  <1>1. ConstructionInv /\ [Next]_vars => Sound
    <2> SUFFICES ASSUME ConstructionInv, [Next]_vars, balancer = None, balancer' # None
                 PROVE  Sound
      BY Zenon
    <2>1. Finish
      BY DEF Next, Build, Construct, Submit, Refuse, Fail, Create, CreateFails, RefuseLate,
             PollReady, Call, Poll, PollRefused, Dial, DropCall, RemoveBackend, Shutdown, Quiet,
             vars, cvars
    <2> DEFINE r == build.req
               made == build.made
    <2>2. /\ build # None /\ ~Refused(r) /\ LengthAgrees(r, Len(made))
          /\ Len(made) >= Len(Given(r.factories))
      BY <2>1 DEF Finish, Ready
    <2>3. build \in Building /\ r \in Requests /\ made \in Seq(Backend) /\ Len(made) \in Nat
      BY <2>2, LenProperties DEF ConstructionInv, Option, Building
    <2>4. r.strategy /\ OneSource(r) /\ Given(r.backends) \o Given(r.factories) # <<>>
      BY <2>2 DEF Refused
    <2>5. balancer'.backends = made /\ balancer'.rows = Len(made)
      BY <2>1, <2>2 DEF Finish, LengthAgrees
    <2>6. CASE r.backends # None
      <3>1. made = r.backends /\ r.factories = None
        BY <2>2, <2>4, <2>6 DEF ConstructionInv, OneSource
      <3>2. made # <<>>
        BY <2>4, <3>1, <2>6 DEF Given
      <3> QED
        BY <2>4, <2>5, <2>6, <3>1, <3>2
    <2>7. CASE r.backends = None
      <3>1. r.factories # None /\ r.factories \in Seq(Backend) /\ Len(r.factories) \in Nat
        BY <2>3, <2>4, <2>7, RequestFields, LenProperties DEF OneSource, Option
      <3>2. Len(made) = Len(r.factories) /\ \A k \in 1..Len(made) : made[k] = r.factories[k]
        BY <2>2, <2>3, <2>4, <2>7, <3>1 DEF ConstructionInv, Given
      <3>3. made = r.factories
        BY <2>3, <3>1, <3>2, SeqEqual
      <3>4. made # <<>>
        BY <2>4, <2>7, <3>1, <3>3 DEF Given
      <3> QED
        BY <2>4, <2>5, <2>7, <3>1, <3>3, <3>4
    <2> QED
      BY <2>6, <2>7, Zenon
  <1>2. Spec => [][Sound]_vars
    BY <1>1, ConstructionStart, ConstructionStep, PTL DEF Spec
  <1>3. [Sound]_vars => [Sound]_cvars
    BY DEF vars, cvars
  <1> QED
    BY <1>2, <1>3, PTL DEF BuildSound

-----------------------------------------------------------------------------
(* Timed calls.                                                            *)

Flying == Attempting \cup {"sleep"}

\* A call has its request and, while it is in flight, its balancer; the dial has
\* the options of that call, and its timer was set when the attempt began.
CallInv ==
    /\ call \in {"none", "ready", "called", "polled", "refused"}
    /\ call \in {"called", "polled"} => request \in LbRequests
    /\ call = "polled" <=> pc # "idle"
    /\ call # "none" => build = None
    /\ InFlight => balancer # None
    /\ clock \in Nat /\ began \in Nat
    /\ pc = "idle" => clock = 0 /\ began = 0
    /\ pc \in Flying => timeout = EffectiveTimeout /\ policy = EffectivePolicy
    /\ pc \in Attempting /\ timeout # None => due = began + timeout /\ clock <= due

\* The options of a call in flight have their types.
LEMMA EffectiveTypes ==
    ASSUME request \in LbRequests, balancer \in Balancers
    PROVE  EffectiveTimeout \in Option(Nat) /\ EffectivePolicy \in Option(Policies)
  <1>1. request.dial_timeout \in Option(Timeouts) /\ request.retry_policy \in Option(Policies)
    BY ServiceAssumption
  <1>2. balancer.dial_timeout \in Option(Timeouts) /\ balancer.retry_policy \in Option(Policies)
    BY DEF Balancers, LoadBalancer
  <1>3. Option(Timeouts) \subseteq Option(Nat)
    BY TimeoutAssumption, Zenon DEF Option
  <1> QED
    BY <1>1, <1>2, <1>3 DEF EffectiveTimeout, EffectivePolicy, Override

\* Before any call there is nothing to time.
LEMMA CallStart == Init => CallInv
  BY DEF Init, RetryInit, CallInv, InFlight, Flying, Attempting

\* Every step of a call, and every step around it, preserves this.
LEMMA CallStep == ConstructionInv /\ CallInv /\ [Next]_vars => CallInv'
  <1> SUFFICES ASSUME ConstructionInv, CallInv, [Next]_vars PROVE CallInv'
    OBVIOUS
  <1>n. None \notin Int /\ None \notin LbRequests
    BY NoneAssumption, ServiceAssumption
  <1>t. pc \in Flying => /\ call = "polled" /\ InFlight /\ timeout \in Option(Nat)
                         /\ request \in LbRequests /\ balancer \in Balancers
    <2> SUFFICES ASSUME pc \in Flying
                 PROVE  /\ call = "polled" /\ InFlight /\ timeout \in Option(Nat)
                        /\ request \in LbRequests /\ balancer \in Balancers
      OBVIOUS
    <2>1. call = "polled" /\ InFlight /\ request \in LbRequests
      BY DEF CallInv, Flying, Attempting, InFlight
    <2>2. balancer \in Balancers
      BY <2>1 DEF CallInv, ConstructionInv, Option
    <2> QED
      BY <2>1, <2>2, EffectiveTypes DEF CallInv
  <1>1. CASE Build
    <2>1. UNCHANGED <<rvars, call, request>> /\ call = "none" /\ pc = "idle"
      BY <1>1 DEF Build, CallInv
    <2> QED
      BY <2>1 DEF CallInv, rvars, InFlight, Flying, Attempting
  <1>2. CASE PollReady
    <2>1. UNCHANGED <<cvars, rvars, request>> /\ call = "none" /\ call' = "ready" /\ balancer # None
      BY <1>2 DEF PollReady
    <2> QED
      BY <2>1 DEF CallInv, ConstructionInv, cvars, rvars, InFlight, Flying, Attempting
  <1>3. ASSUME NEW r \in LbRequests, Call(r)
        PROVE  CallInv'
    <2>1. UNCHANGED <<cvars, rvars>> /\ call = "ready" /\ call' = "called" /\ balancer # None /\ request' = r
      BY <1>3 DEF Call
    <2> QED
      BY <2>1 DEF CallInv, cvars, rvars, InFlight, Flying, Attempting
  <1>4. CASE Poll
    <2>1. /\ call = "called" /\ call' = "polled" /\ pc = "idle" /\ pc' = "attempt"
          /\ timeout' = EffectiveTimeout /\ policy' = EffectivePolicy /\ due' = EffectiveTimeout
          /\ UNCHANGED <<clock, began, build, balancer, request>>
      BY <1>4 DEF Poll, FirstAttempt, cvars
    <2>2. balancer # None /\ clock = 0 /\ began = 0 /\ request \in LbRequests
      BY <2>1 DEF CallInv, InFlight
    <2>3. EffectiveTimeout \in Option(Nat)
      BY <2>2, EffectiveTypes DEF ConstructionInv, Option
    <2>4. timeout' # None => due' = began' + timeout' /\ clock' <= due'
      BY <2>1, <2>2, <2>3 DEF Option
    <2>5. timeout' = EffectiveTimeout' /\ policy' = EffectivePolicy'
      BY <2>1 DEF EffectiveTimeout, EffectivePolicy
    <2>6. build = None
      BY <2>1 DEF CallInv
    <2> QED
      BY <2>1, <2>2, <2>4, <2>5, <2>6 DEF CallInv, InFlight, Flying, Attempting
  <1>5. CASE PollRefused
    <2>1. UNCHANGED <<cvars, rvars, request>> /\ call = "called" /\ call' = "refused"
      BY <1>5 DEF PollRefused
    <2> QED
      BY <2>1 DEF CallInv, cvars, rvars, InFlight, Flying, Attempting
  <1>6. CASE DropCall
    <2>1. /\ InFlight /\ call' = "polled" /\ pc' = "cancelled"
          /\ UNCHANGED <<build, balancer, clock, began, request>>
      BY <1>6 DEF DropCall, cvars
    <2>2. request \in LbRequests /\ build = None
      BY <2>1 DEF CallInv, InFlight
    <2> QED
      BY <2>1, <2>2 DEF CallInv, InFlight, Flying, Attempting
  <1>7. ASSUME ~InFlight, UNCHANGED <<build, rvars, call, request>>
        PROVE  CallInv'
    <2>1. pc \notin Flying /\ call # "called"
      BY <1>7, <1>t DEF InFlight
    <2> QED
      BY <1>7, <2>1 DEF CallInv, rvars, InFlight, Flying, Attempting
  <1>8. CASE (\E i \in 1..Cardinality(Backend) : RemoveBackend(i)) \/ Shutdown
    BY <1>7, <1>8, Zenon DEF RemoveBackend, Shutdown
  <1>9. CASE Dial
    <2>1. DialStep /\ UNCHANGED <<build, balancer, fate, call, request>>
      BY <1>9 DEF Dial, cvars
    <2>2. pc \in Flying
      BY <2>1 DEF DialStep, BackendAnswers, BackendFails, HandshakeDone, HandshakeFails, Timers,
                  TimesOut, Wake, Tick, Flying, Attempting
    <2>3. /\ call = "polled" /\ request \in LbRequests /\ balancer # None /\ build = None
          /\ clock \in Nat /\ began \in Nat /\ timeout \in Option(Nat)
      BY <1>t, <2>2 DEF CallInv
    <2>4. UNCHANGED <<EffectiveTimeout, EffectivePolicy>>
      BY <2>1 DEF EffectiveTimeout, EffectivePolicy
    <2>5. UNCHANGED <<timeout, policy>>
      BY <2>1 DEF DialStep, BackendAnswers, Handshake, Succeed, BackendFails, AttemptFailed,
                  HandshakeDone, HandshakeFails, Timers, TimesOut, Wake, Tick
    <2>6. timeout = EffectiveTimeout /\ policy = EffectivePolicy
      BY <2>2 DEF CallInv
    <2>7. SUFFICES /\ pc' # "idle" /\ clock' \in Nat /\ began' \in Nat
                   /\ pc' \in Attempting /\ timeout' # None =>
                          due' = began' + timeout' /\ clock' <= due'
      BY <2>1, <2>3, <2>4, <2>5, <2>6 DEF CallInv, InFlight
    <2>8. ASSUME pc' \in {"ok", "failed", "sleep"}, UNCHANGED <<clock, began>>
          PROVE  /\ pc' # "idle" /\ clock' \in Nat /\ began' \in Nat
                 /\ pc' \in Attempting /\ timeout' # None =>
                        due' = began' + timeout' /\ clock' <= due'
      BY <2>3, <2>8 DEF Attempting
    <2>9. CASE Succeed
      BY <2>8, <2>9 DEF Succeed
    <2>10. ASSUME NEW e, AttemptFailed(e)
           PROVE  pc' \in {"ok", "failed", "sleep"} /\ UNCHANGED <<clock, began>>
      BY <2>10 DEF AttemptFailed
    <2>11. CASE BackendFails \/ HandshakeFails \/ TimesOut
      BY <2>8, <2>10, <2>11 DEF BackendFails, HandshakeFails, TimesOut
    <2>12. CASE pc = "attempt" /\ Handshake
      BY <2>3, <2>12 DEF Handshake, CallInv, Attempting
    <2>13. CASE Wake
      <3>1. pc' = "attempt" /\ began' = clock /\ clock' = clock /\ due' = Deadline /\ timeout' = timeout
        BY <2>13 DEF Wake
      <3>2. timeout # None => due' = clock + timeout /\ timeout \in Nat
        BY <2>3, <3>1 DEF Deadline, Option
      <3> QED
        BY <2>3, <3>1, <3>2
    <2>14. CASE Tick
      <3>1. /\ UNCHANGED <<pc, began, due, timeout>> /\ clock' = clock + 1
            /\ IF due = None THEN clock < MaxWait ELSE clock < due
        BY <2>14 DEF Tick
      <3>2. pc # "idle"
        BY <2>2 DEF Flying, Attempting
      <3>3. ASSUME pc \in Attempting, timeout # None
            PROVE  due = began + timeout /\ clock + 1 <= due
        <4>1. due = began + timeout /\ timeout \in Nat /\ due \in Nat
          BY <2>3, <3>3 DEF CallInv, Option
        <4>2. clock < due
          BY <1>n, <3>1, <4>1
        <4> QED
          BY <2>3, <4>1, <4>2
      <3> QED
        BY <2>3, <3>1, <3>2, <3>3
    <2> QED
      BY <2>1, <2>9, <2>11, <2>12, <2>13, <2>14
      DEF DialStep, BackendAnswers, HandshakeDone, Timers
  <1>10. CASE UNCHANGED vars
    BY <1>10 DEF vars, CallInv, InFlight, EffectiveTimeout, EffectivePolicy, Override
  <1> QED
    BY <1>1, <1>2, <1>3, <1>4, <1>5, <1>6, <1>8, <1>9, <1>10 DEF Next, Quiet

\* The invariant of construction and call together.
LEMMA ServiceInvariant == Spec => [](ConstructionInv /\ CallInv)
  BY ConstructionStart, ConstructionStep, CallStart, CallStep, PTL DEF Spec

\* No attempt, TLS handshake included, outlives the timeout of its request, or
\* else of the builder, whatever the policy, the backend and the owner do.
THEOREM AttemptsAreTimed == Spec => []AttemptTimed
  <1>1. ConstructionInv /\ CallInv => AttemptTimed
    <2> SUFFICES ASSUME ConstructionInv, CallInv, call = "polled", pc \in Attempting
                 PROVE  \/ request.dial_timeout = None /\ balancer.dial_timeout = None
                        \/ /\ request.dial_timeout # None => clock <= began + request.dial_timeout
                           /\ request.dial_timeout = None => clock <= began + balancer.dial_timeout
      BY DEF AttemptTimed
    <2>1. timeout = EffectiveTimeout /\ (timeout # None => clock <= began + timeout)
      BY DEF CallInv, Flying
    <2> QED
      BY <2>1 DEF EffectiveTimeout, Override
  <1> QED
    BY <1>1, ServiceInvariant, PTL

\* attempt counts the attempts started, and a sleep is only begun below the limit.
LimitInv ==
    /\ attempt \in Nat
    /\ pc = "idle" => attempt = 0
    /\ policy \in Option(Policies)
    /\ policy # None /\ policy.max_attempts # None /\ policy.max_attempts > 0 =>
           /\ attempt <= policy.max_attempts
           /\ pc = "sleep" => attempt < policy.max_attempts

\* A built-in policy that asks for a retry has not reached its limit.
LEMMA RetryBelowLimit ==
    ASSUME NEW p \in Policy, p.kind # "custom", NEW n \in Nat, NEW e, ShouldRetry(p, n, e) # {},
           p.max_attempts # None
    PROVE  n < p.max_attempts
  <1>1. p.max_attempts \in Nat
    BY DEF Policy, Option
  <1>2. ~MaxReached(p, n)
    BY DEF ShouldRetry
  <1> QED
    BY <1>1, <1>2 DEF MaxReached

\* Every step keeps the attempts within the limit, when no custom policy states one.
LEMMA LimitStep ==
    ASSUME \A p \in Policies : p # None /\ p.kind = "custom" => p.max_attempts = None
    PROVE  ConstructionInv /\ CallInv /\ LimitInv /\ [Next]_vars => LimitInv'
  <1> SUFFICES ASSUME ConstructionInv, CallInv, LimitInv, [Next]_vars PROVE LimitInv'
    OBVIOUS
  <1>t. \A p \in Option(Policies) : p # None => p \in Policy /\ p.max_attempts \in Option(Nat)
    BY PolicyAssumption DEF Option, Policy
  <1>1. CASE UNCHANGED <<policy, attempt, pc>>
    BY <1>1 DEF LimitInv
  <1>2. CASE UNCHANGED <<policy, attempt>> /\ pc' \notin {"idle", "sleep"}
    BY <1>2 DEF LimitInv
  <1>3. CASE Poll
    <2>1. call = "called" /\ pc' = "attempt" /\ attempt' = 1 /\ policy' = EffectivePolicy
      BY <1>3 DEF Poll, FirstAttempt
    <2>2. policy' \in Option(Policies)
      BY <2>1, EffectiveTypes DEF CallInv, InFlight, ConstructionInv, Option
    <2>3. policy' # None => policy'.max_attempts \in Option(Nat)
      BY <1>t, <2>2
    <2> QED
      BY <2>1, <2>2, <2>3 DEF LimitInv, Option
  <1>4. ASSUME NEW e, AttemptFailed(e)
        PROVE  LimitInv'
    <2>1. UNCHANGED <<policy, attempt>>
      BY <1>4 DEF AttemptFailed
    <2>2. CASE pc' = "failed"
      BY <1>2, <2>1, <2>2
    <2>3. CASE pc' = "sleep" /\ policy # None /\ ShouldRetry(policy, attempt, e) # {}
      <3>1. policy \in Policies /\ policy \in Policy /\ attempt \in Nat
        BY <1>t, <2>3 DEF LimitInv, Option
      <3>2. policy.max_attempts # None => attempt < policy.max_attempts
        BY <2>3, <3>1, RetryBelowLimit
      <3> QED
        BY <2>1, <2>3, <3>2 DEF LimitInv
    <2> QED
      BY <1>4, <2>2, <2>3 DEF AttemptFailed
  <1>5. CASE Wake
    <2>1. pc = "sleep" /\ pc' = "attempt" /\ attempt' = attempt + 1 /\ policy' = policy
      BY <1>5 DEF Wake
    <2>2. policy # None => policy.max_attempts \in Option(Nat)
      BY <1>t DEF LimitInv
    <2> QED
      BY <2>1, <2>2 DEF LimitInv, Option
  <1>6. CASE Dial
    BY <1>1, <1>2, <1>4, <1>5, <1>6, Zenon
    DEF Dial, DialStep, BackendAnswers, Handshake, Succeed, BackendFails, HandshakeDone,
        HandshakeFails, Timers, TimesOut, Tick
  <1>7. CASE DropCall
    BY <1>2, <1>7 DEF DropCall
  <1> QED
    BY <1>1, <1>3, <1>6, <1>7, Zenon
    DEF Next, Build, PollReady, Call, PollRefused, RemoveBackend, Shutdown, Quiet, vars, rvars

\* The limit of max_attempts() is kept by every built-in policy, although
\* dial_with_retry itself never looks at it; a custom policy that states a limit
\* has to enforce it in should_retry, hence the assumption.
THEOREM AttemptsAreBounded ==
    ASSUME \A p \in Policies : p # None /\ p.kind = "custom" => p.max_attempts = None
    PROVE  Spec => []AttemptsBounded
  <1>1. Init => LimitInv
    BY DEF Init, RetryInit, LimitInv, Option
  <1>2. ConstructionInv /\ CallInv /\ LimitInv /\ [Next]_vars => LimitInv'
    BY LimitStep
  <1>3. Spec => []LimitInv
    BY <1>1, <1>2, ServiceInvariant, PTL DEF Spec
  <1>4. LimitInv => AttemptsBounded
    BY DEF LimitInv, AttemptsBounded
  <1> QED
    BY <1>3, <1>4, PTL

-----------------------------------------------------------------------------
(* Delays.                                                                 *)

\* g is the function that the recursion of Power describes.
IsPowersOf(g, b, n) == g = [k \in 0..n |-> IF k = 0 THEN 1 ELSE b * g[k - 1]]

\* The same, number by number.
PowersRecursion(g, b, n) ==
    /\ DOMAIN g = 0..n /\ g = [k \in 0..n |-> g[k]] /\ g[0] = 1
    /\ \A k \in 1..n : g[k] = b * g[k - 1]

\* The recursion says what each power is.
LEMMA PowersFollow ==
    ASSUME NEW b \in Nat, NEW n \in Nat, NEW g, IsPowersOf(g, b, n)
    PROVE  PowersRecursion(g, b, n)
  <1> DEFINE step(k) == IF k = 0 THEN 1 ELSE b * g[k - 1]
  <1>1. g = [k \in 0..n |-> step(k)]
    BY DEF IsPowersOf
  <1>2. DOMAIN g = 0..n /\ g = [k \in 0..n |-> g[k]] /\ \A k \in 0..n : g[k] = step(k)
    <2> HIDE DEF step
    <2> QED
      BY <1>1
  <1>3. g[0] = 1
    <2>1. g[0] = step(0)
      <3> HIDE DEF step
      <3> QED
        BY <1>2
    <2> QED
      BY <2>1
  <1>4. ASSUME NEW k \in 1..n PROVE g[k] = b * g[k - 1]
    <2>1. k \in 0..n /\ k # 0
      OBVIOUS
    <2> QED
      BY <1>2, <2>1, Zenon
  <1> QED
    BY <1>2, <1>3, <1>4, Zenon DEF PowersRecursion

\* The recursion of Power has a solution, in Nat, and it has one more step.
LEMMA PowersExist ==
    ASSUME NEW b \in Nat, NEW n \in Nat
    PROVE  \E g : IsPowersOf(g, b, n) /\ \A k \in 0..n : g[k] \in Nat
  <1> DEFINE Q == {m \in Nat : \E g : IsPowersOf(g, b, m) /\ \A k \in 0..m : g[k] \in Nat}
  <1>1. 0 \in Q
    <2> DEFINE g == [k \in 0..0 |-> 1]
    <2>1. IsPowersOf(g, b, 0) /\ \A k \in 0..0 : g[k] \in Nat
      <3>1. \A k \in 0..0 : k = 0
        OBVIOUS
      <3> QED
        BY <3>1 DEF IsPowersOf
    <2> QED
      BY <2>1
  <1>2. ASSUME NEW m \in Q PROVE m + 1 \in Q
    <2>1. PICK g : IsPowersOf(g, b, m) /\ \A k \in 0..m : g[k] \in Nat
      OBVIOUS
    <2>2. m \in Nat
      OBVIOUS
    <2> HIDE DEF Q
    <2>3. PowersRecursion(g, b, m)
      BY <2>1, <2>2, PowersFollow
    <2> DEFINE last == b * g[m]
               h == [k \in 0..(m + 1) |-> IF k <= m THEN g[k] ELSE last]
               step(f, k) == IF k = 0 THEN 1 ELSE b * f[k - 1]
    <2>4. last \in Nat
      <3>1. g[m] \in Nat
        BY <2>1, <2>2
      <3> QED
        BY <3>1
    <2> HIDE DEF last
    <2>5. (\A k \in 0..m : h[k] = g[k]) /\ h[m + 1] = last
      BY <2>2
    <2>6. DOMAIN h = 0..(m + 1) /\ h = [k \in 0..(m + 1) |-> h[k]]
      OBVIOUS
    <2> HIDE DEF h
    <2>7. ASSUME NEW k \in 0..(m + 1) PROVE h[k] = step(h, k)
      <3>1. CASE k = 0
        BY <2>2, <2>3, <2>5, <3>1 DEF PowersRecursion
      <3>2. CASE k \in 1..m
        <4>1. k \in 0..m /\ k - 1 \in 0..m /\ k # 0
          BY <2>2, <3>2
        <4>2. h[k] = g[k] /\ h[k - 1] = g[k - 1]
          BY <2>5, <4>1
        <4>3. g[k] = b * g[k - 1]
          BY <2>3, <3>2, Zenon DEF PowersRecursion
        <4> QED
          BY <4>1, <4>2, <4>3
      <3>3. CASE k = m + 1
        <4>1. k # 0 /\ k - 1 = m /\ h[m] = g[m]
          BY <2>2, <2>5, <3>3
        <4> QED
          BY <2>5, <3>3, <4>1 DEF last
      <3> QED
        BY <2>2, <3>1, <3>2, <3>3
    <2>8. h = [k \in 0..(m + 1) |-> step(h, k)]
      BY <2>6, <2>7, Zenon
    <2>9. IsPowersOf(h, b, m + 1)
      BY <2>8, Zenon DEF IsPowersOf
    <2>10. \A k \in 0..(m + 1) : h[k] \in Nat
      BY <2>1, <2>2, <2>4, <2>5
    <2> QED
      BY <2>2, <2>9, <2>10 DEF Q
  <1>3. Q \in SUBSET Nat
    OBVIOUS
  <1> HIDE DEF Q
  <1>4. Q = Nat
    BY <1>1, <1>2, <1>3, NatSetInduction
  <1>5. n \in Q
    BY <1>4
  <1> QED
    BY <1>5, Zenon DEF Q

\* Solutions agree as far as they go.
LEMMA PowersAgree ==
    ASSUME NEW b \in Nat, NEW m \in Nat, NEW n \in Nat, m <= n, NEW g, NEW h,
           IsPowersOf(g, b, m), IsPowersOf(h, b, n)
    PROVE  \A k \in 0..m : g[k] = h[k]
  <1>1. PowersRecursion(g, b, m)
    BY PowersFollow
  <1>2. PowersRecursion(h, b, n)
    BY PowersFollow
  <1> DEFINE Q == {k \in Nat : k <= m => g[k] = h[k]}
  <1>3. 0 \in Q
    BY <1>1, <1>2 DEF PowersRecursion
  <1>4. ASSUME NEW k \in Q PROVE k + 1 \in Q
    <2>1. SUFFICES ASSUME k + 1 <= m PROVE g[k + 1] = h[k + 1]
      OBVIOUS
    <2>2. k \in Nat /\ k + 1 \in 1..m /\ k + 1 \in 1..n /\ (k + 1) - 1 = k /\ g[k] = h[k]
      BY <2>1
    <2>3. g[k + 1] = b * g[(k + 1) - 1] /\ h[k + 1] = b * h[(k + 1) - 1]
      BY <1>1, <1>2, <2>2, Zenon DEF PowersRecursion
    <2> QED
      BY <2>2, <2>3
  <1>5. Q \in SUBSET Nat
    OBVIOUS
  <1> HIDE DEF Q
  <1>6. Q = Nat
    BY <1>3, <1>4, <1>5, NatSetInduction
  <1> QED
    BY <1>6 DEF Q

\* powi multiplies once per step of its exponent.
LEMMA PowerGrows ==
    ASSUME NEW b \in Nat, NEW n \in Nat
    PROVE  Power(b, n) \in Nat /\ Power(b, n + 1) = b * Power(b, n)
  <1> DEFINE f(m) == CHOOSE g : IsPowersOf(g, b, m)
  <1>1. ASSUME NEW m \in Nat PROVE IsPowersOf(f(m), b, m) /\ Power(b, m) = f(m)[m]
    <2>1. \E g : IsPowersOf(g, b, m)
      BY PowersExist
    <2>2. IsPowersOf(f(m), b, m)
      BY <2>1
    <2>3. Power(b, m) = f(m)[m]
      BY DEF Power, IsPowersOf
    <2> QED
      BY <2>2, <2>3
  <1> DEFINE g == f(n)
             h == f(n + 1)
  <1>2. IsPowersOf(g, b, n) /\ Power(b, n) = g[n]
    BY <1>1
  <1>3. n + 1 \in Nat /\ IsPowersOf(h, b, n + 1) /\ Power(b, n + 1) = h[n + 1]
    BY <1>1
  <1> HIDE DEF f, g, h
  <1>4. g[n] = h[n]
    BY <1>2, <1>3, PowersAgree
  <1>5. PowersRecursion(h, b, n + 1)
    BY <1>3, PowersFollow
  <1>6. h[n + 1] = b * h[n]
    <2>1. n + 1 \in 1..(n + 1) /\ (n + 1) - 1 = n
      OBVIOUS
    <2> QED
      BY <1>5, <2>1, Zenon DEF PowersRecursion
  <1>7. g[n] \in Nat
    <2>1. PICK k : IsPowersOf(k, b, n) /\ \A i \in 0..n : k[i] \in Nat
      BY PowersExist
    <2>2. k[n] = g[n] /\ k[n] \in Nat
      BY <1>2, <2>1, PowersAgree
    <2> QED
      BY <2>2
  <1> QED
    BY <1>2, <1>3, <1>4, <1>6, <1>7

\* What should_retry of ExponentialBackoff may answer.
LEMMA DelayFacts ==
    ASSUME NEW p \in Policy, NEW n \in Nat, NEW d \in ExponentialDelays(p, n)
    PROVE  LET raw == p.delay * Power(p.multiplier, Exponent(n))
           IN  /\ raw \in Nat /\ d \in Nat /\ d <= p.max_delay
               /\ raw > FloatMax => d = p.max_delay
               /\ ~(raw > FloatMax) => d <= raw /\ 2 * d >= Smaller(raw, p.max_delay)
  <1> DEFINE raw == p.delay * Power(p.multiplier, Exponent(n))
             c == Smaller(raw, p.max_delay)
  <1>1. p.delay \in Nat /\ p.multiplier \in Nat /\ p.max_delay \in Nat /\ p.jitter \in BOOLEAN
    BY DEF Policy
  <1>2. Exponent(n) \in Nat /\ FloatMax \in Nat
    BY RetryBoundAssumption DEF Exponent
  <1>3. Power(p.multiplier, Exponent(n)) \in Nat
    BY <1>1, <1>2, PowerGrows, Zenon
  <1>4. raw \in Nat
    BY <1>1, <1>3
  <1>5. d \in IF raw > FloatMax THEN {p.max_delay}
             ELSE IF p.jitter THEN ((c + 1) \div 2)..c ELSE {c}
    BY DEF ExponentialDelays
  <1> HIDE DEF raw
  <1>6. c \in Nat /\ c <= raw /\ c <= p.max_delay
    BY <1>1, <1>4 DEF Smaller
  <1> HIDE DEF c
  <1>7. (c + 1) \div 2 \in Nat /\ 2 * ((c + 1) \div 2) >= c
    BY <1>6
  <1>8. CASE raw > FloatMax
    BY <1>1, <1>4, <1>5, <1>8 DEF raw
  <1>9. CASE ~(raw > FloatMax)
    <2>1. d \in Nat /\ d <= c /\ 2 * d >= c
      <3>1. CASE p.jitter
        BY <1>5, <1>6, <1>7, <1>9, <3>1
      <3>2. CASE ~p.jitter
        BY <1>5, <1>6, <1>9, <3>2
      <3> QED
        BY <3>1, <3>2
    <2>2. d <= raw /\ d <= p.max_delay
      BY <1>1, <1>4, <1>6, <2>1
    <2> QED
      BY <1>4, <1>9, <2>1, <2>2 DEF raw, c
  <1> QED
    BY <1>8, <1>9

\* Of two successive delays the second is at least half of the first.
LEMMA DelaysGrow ==
    ASSUME NEW p \in Policy, NEW n \in Nat, n > 0, n + 1 <= I32Max,
           NEW d \in ExponentialDelays(p, n), NEW e \in ExponentialDelays(p, n + 1)
    PROVE  2 * e >= d
  <1> DEFINE r1 == p.delay * Power(p.multiplier, Exponent(n))
             r2 == p.delay * Power(p.multiplier, Exponent(n + 1))
  <1>1. p.delay \in Nat /\ p.multiplier \in Nat /\ p.max_delay \in Nat
    BY DEF Policy
  <1>2. I32Max \in Nat /\ FloatMax \in Nat
    BY RetryBoundAssumption
  <1>3. Exponent(n) = n /\ Exponent(n + 1) = n + 1
    BY <1>2 DEF Exponent
  <1>4. /\ r1 \in Nat /\ d \in Nat /\ d <= p.max_delay
        /\ r1 > FloatMax => d = p.max_delay
        /\ ~(r1 > FloatMax) => d <= r1
    BY DelayFacts
  <1>5. /\ r2 \in Nat /\ e \in Nat /\ e <= p.max_delay
        /\ r2 > FloatMax => e = p.max_delay
        /\ ~(r2 > FloatMax) => 2 * e >= Smaller(r2, p.max_delay)
    <2>1. n + 1 \in Nat
      OBVIOUS
    <2> QED
      BY <2>1, DelayFacts
  <1>6. r1 <= r2 \/ r1 = 0
    <2> DEFINE a == Power(p.multiplier, n)
               b == Power(p.multiplier, n + 1)
    <2>1. a \in Nat /\ b = p.multiplier * a
      BY <1>1, PowerGrows, Zenon
    <2>2. CASE p.multiplier = 0
      <3> DEFINE k == n - 1
      <3>1. k \in Nat /\ k + 1 = n
        OBVIOUS
      <3> HIDE DEF k
      <3>2. Power(p.multiplier, k) \in Nat /\ Power(p.multiplier, k + 1) = p.multiplier * Power(p.multiplier, k)
        BY <1>1, <3>1, PowerGrows, Zenon
      <3>3. a = 0
        BY <2>2, <3>1, <3>2
      <3> QED
        BY <1>1, <1>3, <3>3
    <2>3. CASE p.multiplier > 0
      <3> HIDE DEF a, b
      <3>1. p.multiplier * a >= a
        BY <1>1, <2>1, <2>3
      <3>2. b \in Nat /\ b >= a
        BY <1>1, <2>1, <3>1
      <3>3. p.delay * a <= p.delay * b
        BY <1>1, <2>1, <3>2
      <3> QED
        BY <1>3, <3>3 DEF a, b
    <2> QED
      BY <1>1, <2>2, <2>3
  <1> HIDE DEF r1, r2
  <1>7. CASE r2 > FloatMax
    BY <1>1, <1>4, <1>5, <1>7
  <1>8. CASE ~(r2 > FloatMax)
    <2>1. ~(r1 > FloatMax)
      BY <1>2, <1>4, <1>5, <1>6, <1>8
    <2> QED
      BY <1>1, <1>4, <1>5, <1>6, <1>8, <2>1 DEF Smaller
  <1> QED
    BY <1>7, <1>8

-----------------------------------------------------------------------------
(* The sleeps of a call.                                                   *)

\* The attempt after which the last sleep was planned.
PlannedAfter == IF pc = "sleep" THEN attempt ELSE attempt - 1

\* A sleep was planned by the policy after the attempt that just failed, and
\* while the budget was not used up.
PlanInv ==
    /\ DialTypeOK /\ request \in Option(LbRequests)
    /\ pc = "idle" => attempt = 0 /\ planned = None
    /\ pc \in Flying => attempt > 0
    /\ pc \in Flying /\ planned # None =>
           /\ policy # None
           /\ policy.kind = "exponential" =>
                  PlannedAfter > 0 /\ planned \in ExponentialDelays(policy, PlannedAfter)
    /\ pc = "sleep" =>
           /\ policy # None /\ planned # None /\ due # None /\ planned <= due
           /\ policy.total_timeout # None => due - planned < policy.total_timeout

\* A delay is a number; that of ExponentialBackoff is one of its delays.
LEMMA RetryDelay ==
    ASSUME NEW p \in Policy, NEW n \in Nat, NEW e, NEW d \in ShouldRetry(p, n, e)
    PROVE  d \in Nat /\ (p.kind = "exponential" => d \in ExponentialDelays(p, n))
  <1>1. p.delay \in Nat
    BY DEF Policy
  <1>2. d \in IF p.kind = "exponential" THEN ExponentialDelays(p, n) ELSE {p.delay}
    BY DEF ShouldRetry
  <1>3. CASE p.kind = "exponential"
    <2>1. d \in ExponentialDelays(p, n)
      BY <1>2, <1>3
    <2>2. d \in Nat
      BY <2>1, DelayFacts
    <2> QED
      BY <2>1, <2>2
  <1>4. CASE p.kind # "exponential"
    BY <1>1, <1>2, <1>4
  <1> QED
    BY <1>3, <1>4

\* The attempt fails: the policy plans a sleep, or the call is over.
LEMMA FailedKeepsPlan ==
    ASSUME PlanInv, pc \in Attempting, NEW e \in Errors, AttemptFailed(e),
           request' = request
    PROVE  PlanInv'
  <1>1. /\ policy \in Option(Policies) /\ timeout \in Option(Timeouts) /\ tls \in BOOLEAN
        /\ attempt \in Nat /\ clock \in Nat /\ began \in Nat /\ attempt > 0
        /\ due \in Option(Nat) /\ planned \in Option(Nat)
    BY DEF PlanInv, DialTypeOK, Flying
  <1>2. UNCHANGED <<policy, timeout, tls, attempt, clock, began>> /\ error' = e
    BY DEF AttemptFailed
  <1>3. policy # None => policy \in Policy
    BY <1>1, PolicyAssumption DEF Option
  <1>4. None \notin Nat
    BY NoneAssumption
  <1>5. CASE pc' = "failed" /\ due' = None /\ UNCHANGED planned
    <2>1. DialTypeOK'
      BY <1>1, <1>2, <1>5 DEF DialTypeOK, Option
    <2> QED
      BY <1>2, <1>5, <2>1, Zenon DEF PlanInv, Flying, Attempting
  <1>6. ASSUME policy # None, WithinBudget, NEW d \in ShouldRetry(policy, attempt, e),
               pc' = "sleep", due' = clock + d, planned' = d
        PROVE  PlanInv'
    <2>1. d \in Nat /\ (policy.kind = "exponential" => d \in ExponentialDelays(policy, attempt))
      BY <1>1, <1>3, <1>6, RetryDelay
    <2>2. DialTypeOK'
      <3>1. due' \in Nat /\ planned' \in Nat
        BY <1>1, <1>6, <2>1
      <3> QED
        BY <1>1, <1>2, <1>6, <3>1 DEF DialTypeOK, Option
    <2>3. /\ planned' # None /\ due' # None /\ planned' <= due'
          /\ policy.total_timeout # None => due' - planned' < policy.total_timeout
      <3>1. policy.total_timeout \in Option(Nat)
        BY <1>3, <1>6 DEF Policy
      <3>2. due' - planned' = clock
        BY <1>1, <1>6, <2>1
      <3>3. policy.total_timeout # None => clock < policy.total_timeout
        BY <1>6 DEF WithinBudget
      <3> QED
        BY <1>1, <1>4, <1>6, <2>1, <3>2, <3>3
    <2>4. PlannedAfter' = attempt
      BY <1>2, <1>6 DEF PlannedAfter
    <2> QED
      BY <1>1, <1>2, <1>6, <2>1, <2>2, <2>3, <2>4, Zenon DEF PlanInv, Flying, Attempting
  <1> QED
    BY <1>5, <1>6 DEF AttemptFailed

\* Every step of the call, and every step around it, preserves this.
LEMMA PlanStep == ConstructionInv /\ CallInv /\ PlanInv /\ [Next]_vars => PlanInv'
  <1> SUFFICES ASSUME ConstructionInv, CallInv, PlanInv, [Next]_vars PROVE PlanInv'
    OBVIOUS
  <1>0. /\ policy \in Option(Policies) /\ timeout \in Option(Timeouts) /\ tls \in BOOLEAN
        /\ attempt \in Nat /\ clock \in Nat /\ began \in Nat
        /\ due \in Option(Nat) /\ planned \in Option(Nat) /\ error \in Option(Errors)
        /\ pc \in Attempting \cup {"idle", "sleep", "ok", "failed", "cancelled"}
    BY DEF PlanInv, DialTypeOK
  <1>1. ASSUME UNCHANGED rvars, request' \in Option(LbRequests) PROVE PlanInv'
    BY <1>1 DEF PlanInv, rvars, DialTypeOK, PlannedAfter
  <1>2. CASE Poll
    <2>1. /\ call = "called" /\ pc = "idle" /\ pc' = "attempt" /\ attempt' = 1
          /\ timeout' = EffectiveTimeout /\ policy' = EffectivePolicy /\ due' = EffectiveTimeout
          /\ UNCHANGED <<tls, clock, began, error, planned, request>>
      BY <1>2, Zenon DEF Poll, FirstAttempt
    <2>2. request \in LbRequests /\ balancer \in Balancers
      BY <2>1 DEF CallInv, InFlight, ConstructionInv, Option
    <2>3. EffectiveTimeout \in Option(Nat) /\ EffectivePolicy \in Option(Policies)
      BY <2>2, EffectiveTypes
    <2>4. EffectiveTimeout \in Option(Timeouts)
      <3>1. request.dial_timeout \in Option(Timeouts)
        BY <2>2, ServiceAssumption
      <3>2. balancer.dial_timeout \in Option(Timeouts)
        BY <2>2 DEF Balancers, LoadBalancer
      <3> QED
        BY <3>1, <3>2 DEF EffectiveTimeout, Override
    <2>5. DialTypeOK'
      BY <1>0, <2>1, <2>3, <2>4 DEF DialTypeOK, Attempting
    <2>6. planned' = None
      BY <2>1 DEF PlanInv
    <2> QED
      BY <2>1, <2>2, <2>5, <2>6 DEF PlanInv, Flying, Attempting, Option
  <1>3. CASE DropCall
    <2>1. /\ pc' = "cancelled" /\ due' = None
          /\ UNCHANGED <<policy, timeout, tls, attempt, clock, began, error, planned, request>>
      BY <1>3 DEF DropCall
    <2>2. DialTypeOK'
      BY <1>0, <2>1 DEF DialTypeOK, Option
    <2> QED
      BY <2>1, <2>2 DEF PlanInv, Flying, Attempting
  <1>4. CASE Dial
    <2>0. request' = request /\ DialStep
      BY <1>4 DEF Dial
    <2>1. CASE pc \in Attempting /\ Succeed
      <3>1. /\ pc' = "ok" /\ due' = None
            /\ UNCHANGED <<policy, timeout, tls, attempt, clock, began, error, planned>>
        BY <2>1 DEF Succeed
      <3>2. DialTypeOK'
        BY <1>0, <3>1 DEF DialTypeOK, Option
      <3> QED
        BY <2>0, <3>1, <3>2 DEF PlanInv, Flying, Attempting
    <2>2. CASE pc = "attempt" /\ Handshake
      <3>1. /\ pc' = "handshake"
            /\ UNCHANGED <<policy, timeout, tls, attempt, clock, began, due, error, planned>>
        BY <2>2 DEF Handshake
      <3>2. DialTypeOK'
        BY <1>0, <3>1 DEF DialTypeOK, Attempting
      <3>3. PlannedAfter' = PlannedAfter
        BY <2>2, <3>1 DEF PlannedAfter
      <3> QED
        BY <2>0, <2>2, <3>1, <3>2, <3>3 DEF PlanInv, Flying, Attempting
    <2>3. CASE BackendFails \/ HandshakeFails \/ TimesOut
      <3>1. pc \in Attempting /\ \E e \in Errors : AttemptFailed(e)
        BY <2>3 DEF BackendFails, HandshakeFails, TimesOut, Attempting, Errors
      <3> QED
        BY <2>0, <3>1, FailedKeepsPlan
    <2>4. CASE Wake
      <3>1. /\ pc = "sleep" /\ pc' = "attempt" /\ attempt' = attempt + 1 /\ began' = clock
            /\ due' = Deadline
            /\ UNCHANGED <<policy, timeout, tls, clock, error, planned>>
        BY <2>4 DEF Wake
      <3>2. due' \in Option(Nat)
        <4>1. timeout # None => timeout \in Nat
          BY <1>0, TimeoutAssumption DEF Option
        <4> QED
          BY <1>0, <3>1, <4>1 DEF Deadline, Option
      <3>3. DialTypeOK'
        BY <1>0, <3>1, <3>2 DEF DialTypeOK, Attempting
      <3>4. PlannedAfter' = attempt /\ PlannedAfter = attempt /\ attempt > 0
        BY <1>0, <3>1 DEF PlannedAfter, PlanInv, Flying
      <3> QED
        BY <1>0, <2>0, <3>1, <3>3, <3>4 DEF PlanInv, Flying, Attempting
    <2>5. CASE Tick
      <3>1. /\ clock' = clock + 1
            /\ UNCHANGED <<policy, timeout, tls, pc, attempt, began, due, error, planned>>
        BY <2>5 DEF Tick
      <3>2. DialTypeOK'
        BY <1>0, <3>1 DEF DialTypeOK
      <3>3. PlannedAfter' = PlannedAfter
        BY <3>1 DEF PlannedAfter
      <3> QED
        BY <2>0, <3>1, <3>2, <3>3, Zenon DEF PlanInv
    <2> QED
      BY <2>0, <2>1, <2>2, <2>3, <2>4, <2>5
      DEF DialStep, BackendAnswers, HandshakeDone, Timers, Attempting
  <1>5. ASSUME NEW r \in LbRequests, Call(r) PROVE PlanInv'
    BY <1>1, <1>5 DEF Call, Option
  <1>6. request \in Option(LbRequests)
    BY DEF PlanInv
  <1>7. CASE \/ Build \/ PollReady \/ PollRefused \/ Shutdown \/ Quiet
             \/ \E i \in 1..Cardinality(Backend) : RemoveBackend(i)
    BY <1>1, <1>6, <1>7, Zenon
    DEF Build, PollReady, PollRefused, RemoveBackend, Shutdown, Quiet, vars, rvars
  <1>8. CASE UNCHANGED vars
    BY <1>1, <1>6, <1>8 DEF vars, rvars
  <1> QED
    BY <1>2, <1>3, <1>4, <1>5, <1>7, <1>8 DEF Next

\* Before the call nothing is planned.
LEMMA PlanStart == Init => PlanInv
  <1> SUFFICES ASSUME Init PROVE PlanInv
    OBVIOUS
  <1>1. DialTypeOK
    BY DEF Init, RetryInit, DialTypeOK, Option
  <1> QED
    BY <1>1 DEF Init, RetryInit, PlanInv, Flying, Attempting, Option

\* The invariant of a call and its sleeps.
LEMMA PlanInvariant == Spec => [](ConstructionInv /\ CallInv /\ PlanInv)
  BY PlanStart, PlanStep, ServiceInvariant, PTL DEF Spec

\* Every variable keeps its type, through construction, call and shutdown.
THEOREM ServiceTypeCorrect == Spec => []TypeOK
  <1>1. ConstructionInv /\ CallInv /\ PlanInv => TypeOK
    BY Zenon DEF ConstructionInv, CallInv, PlanInv, TypeOK, Fates
  <1> QED
    BY <1>1, PlanInvariant, PTL

\* For every exponential policy: no sleep is longer than max_delay, also where
\* the power overflows, and none is shorter than half of the sleep before it.
THEOREM BackoffIsBounded == Spec => BackoffBounded
  <1> DEFINE Bounded ==
        pc' = "sleep" /\ pc \in Attempting /\ policy.kind = "exponential"
          => /\ planned' <= policy.max_delay
             /\ planned # None /\ attempt <= I32Max => 2 * planned' >= planned
  <1>1. ConstructionInv /\ CallInv /\ PlanInv /\ PlanInv' /\ [Next]_vars => [Bounded]_rvars
    <2> SUFFICES ASSUME ConstructionInv, CallInv, PlanInv, PlanInv', [Next]_vars,
                        pc' = "sleep", pc \in Attempting, policy.kind = "exponential"
                 PROVE  /\ planned' <= policy.max_delay
                        /\ planned # None /\ attempt <= I32Max => 2 * planned' >= planned
      OBVIOUS
    <2>1. \E e \in Errors : AttemptFailed(e)
      BY Zenon DEF Next, Build, PollReady, Call, Poll, FirstAttempt, PollRefused, DropCall, Dial,
             RemoveBackend, Shutdown, Quiet, vars, rvars, DialStep, BackendAnswers, Handshake,
             Succeed, BackendFails, HandshakeDone, HandshakeFails, Timers, TimesOut, Wake, Tick,
             Attempting, Errors
    <2>2. UNCHANGED <<policy, attempt>>
      BY <2>1, Zenon DEF AttemptFailed
    <2>3. /\ policy \in Option(Policies) /\ attempt \in Nat /\ attempt > 0 /\ policy # None
          /\ planned' # None /\ planned' \in ExponentialDelays(policy, attempt)
      <3>1. policy' # None /\ planned' # None /\ PlannedAfter' = attempt'
        BY Zenon DEF PlanInv, PlannedAfter
      <3>2. planned' \in ExponentialDelays(policy', attempt')
        BY <2>2, <3>1, Zenon DEF PlanInv, Flying
      <3> QED
        BY <2>2, <3>1, <3>2, Zenon DEF PlanInv, DialTypeOK, Flying
    <2>4. policy \in Policy
      BY <2>3, PolicyAssumption DEF Option
    <2>5. planned' <= policy.max_delay
      BY <2>3, <2>4, DelayFacts
    <2>6. ASSUME planned # None, attempt <= I32Max PROVE 2 * planned' >= planned
      <3>1. PlannedAfter = attempt - 1 /\ PlannedAfter > 0
            /\ planned \in ExponentialDelays(policy, PlannedAfter)
        BY <2>6, Zenon DEF PlanInv, PlannedAfter, Flying, Attempting
      <3> DEFINE n == attempt - 1
      <3>2. n \in Nat /\ n > 0 /\ n + 1 = attempt
        BY <2>3, <3>1
      <3> HIDE DEF n
      <3>3. planned \in ExponentialDelays(policy, n)
        BY <3>1 DEF n
      <3> QED
        BY <2>3, <2>4, <2>6, <3>2, <3>3, DelaysGrow
    <2> QED
      BY <2>5, <2>6
  <1> QED
    BY <1>1, PlanInvariant, PTL DEF Spec, BackoffBounded

\* The budget of total_timeout is overrun by less than the last sleep: an
\* attempt that starts late was planned in time.
THEOREM BudgetIsKept == Spec => BudgetOverrun
  <1> DEFINE InTime == attempt > 0 /\ attempt' # attempt /\ policy.total_timeout # None
                         => clock < policy.total_timeout + planned
  <1>1. ConstructionInv /\ CallInv /\ PlanInv /\ [Next]_vars => [InTime]_rvars
    <2> SUFFICES ASSUME ConstructionInv, CallInv, PlanInv, [Next]_vars,
                        attempt > 0, attempt' # attempt, policy.total_timeout # None
                 PROVE  clock < policy.total_timeout + planned
      OBVIOUS
    <2>1. pc # "idle"
      BY DEF PlanInv
    <2>2. Wake
      BY <2>1, Zenon
      DEF Next, Build, PollReady, Call, Poll, FirstAttempt, PollRefused, DropCall, Dial,
          RemoveBackend, Shutdown, Quiet, vars, rvars, DialStep, BackendAnswers, Handshake,
          Succeed, BackendFails, HandshakeDone, HandshakeFails, AttemptFailed, Timers, TimesOut, Tick
    <2>3. pc = "sleep" /\ clock = due
      BY <2>2 DEF Wake
    <2>4. /\ policy # None /\ planned # None /\ due # None
          /\ due - planned < policy.total_timeout
      BY <2>3 DEF PlanInv
    <2>5. due \in Nat /\ planned \in Nat /\ policy.total_timeout \in Nat
      <3>1. due \in Option(Nat) /\ planned \in Option(Nat) /\ policy \in Option(Policies)
        BY DEF PlanInv, DialTypeOK
      <3>2. policy \in Policy
        BY <2>4, <3>1, PolicyAssumption DEF Option
      <3> QED
        BY <2>4, <3>1, <3>2 DEF Option, Policy
    <2> QED
      BY <2>3, <2>4, <2>5
  <1> QED
    BY <1>1, PlanInvariant, PTL DEF Spec, BudgetOverrun
================================================================================
