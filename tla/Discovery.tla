------------------------------ MODULE Discovery ------------------------------
(***************************************************************************)
(* Discover (src/src/utils/discovery.rs): background loops that poll a     *)
(* ServiceDiscovery source and reconcile the LoadBalancer, which they      *)
(* share with its users behind one async Mutex.  The pool is the pair      *)
(* (id, backend) of each slot of the balancer; Balancer is the detail.     *)
(* The balancer's own operations are single steps here: their caller holds *)
(* the Mutex and no loop is dropped in the middle of a round.              *)
(***************************************************************************)
EXTENDS Sources, FiniteSetsExt

CONSTANTS
    Source,         \* the sources a Discover may be built on
    Registries,     \* what each kind of source may find in its registry
    Loop,           \* loops that may be started, one per call of start
    Broken,         \* addresses for which factory.create always fails
    FactoryFails,   \* factory.create may fail for other addresses too
    UserPool,       \* backends the user put in the pool before the first start
    UserAddr,       \* addresses of the backends users add
    Free, User,
    MaxPool,        \* bound: pool size
    MaxChanges      \* bound: changes of the registry

ASSUME DiscoveryAssumption ==
    /\ {None, Free, User} \cap Loop = {}
    /\ FactoryFails \in BOOLEAN /\ {MaxPool, MaxChanges} \subseteq Nat
    /\ UserPool \in Seq([id: {None}, addr: UserAddr])

\* Registries hold lists of records, and the id of a descriptor is a String.
ASSUME RegistryAssumption ==
    \A s \in Source : /\ s.kind \in {"static", "dns", "consul", "etcd"}
                      /\ \A r \in Registries[s.kind] :
                            /\ r \in Seq(Range(r))
                            /\ Answer(s, r) # None => \A d \in Range(Answer(s, r)) : d.id # None

VARIABLES
    source,     \* the ServiceDiscovery of this Discover
    registry,   \* the records it would find now
    changes,    \* bound counter of the registry
    pool,       \* the balancer
    lb,         \* who holds Mutex<LoadBalancer>
    loops,      \* every loop: pc and the locals of its round
    signal,     \* the loop's oneshot fired, or its sender was dropped
    sender      \* the loop whose sender is in shutdown_tx, or None

vars == <<source, registry, changes, pool, lb, loops, signal, sender>>

IdsOf(s) == {s[i].id : i \in 1..Len(s)}

Found == Answer(source, registry)

\* Every descriptor the source may return.
Answers == {Answer(source, r) : r \in Registries[source.kind]} \ {None}
Descriptor == UNION {Range(a) : a \in Answers}
Slot == Descriptor \cup [id: {None}, addr: UserAddr]
Id == {d.id : d \in Descriptor}

NoRound == [pc |-> "off", found |-> <<>>, next |-> 1, current |-> <<>>, gone |-> <<>>]

LoopState == [pc: {"off", "select", "discover", "wait", "remove", "add", "done"},
              found: Seq(Descriptor), next: Nat, current: Seq(Option(Id)), gone: Seq(Id)]

Goto(l, pc) == loops' = [loops EXCEPT ![l].pc = pc]

-----------------------------------------------------------------------------

Init ==
    /\ source \in Source
    /\ registry \in Registries[source.kind] /\ changes = 0
    /\ pool = UserPool
    /\ lb = Free
    /\ loops = [l \in Loop |-> NoRound]
    /\ signal = [l \in Loop |-> FALSE]
    /\ sender = None

\* start, once on_start succeeded (when it fails nothing has changed): a second
\* call replaces shutdown_tx, and dropping the old sender wakes the old loop.
StartKeepsOld(l) ==
    /\ loops[l].pc = "off"
    /\ Goto(l, "select")
    /\ sender' = l
    /\ UNCHANGED <<source, registry, changes, pool, lb, signal>>
Start(l) ==
    /\ loops[l].pc = "off"
    /\ Goto(l, "select")
    /\ signal' = [k \in Loop |-> signal[k] \/ k = sender]
    /\ sender' = l
    /\ UNCHANGED <<source, registry, changes, pool, lb>>

\* stop: takes the sender and sends; it does not wait for the loop.
Stop ==
    /\ sender # None
    /\ signal' = [signal EXCEPT ![sender] = TRUE]
    /\ sender' = None
    /\ UNCHANGED <<source, registry, changes, pool, lb, loops>>

-----------------------------------------------------------------------------
(* run_loop and reconcile.                                                 *)

TickBranch(l) ==
    /\ loops[l].pc = "select"
    /\ Goto(l, "discover")
    /\ UNCHANGED <<source, registry, changes, pool, lb, signal, sender>>

ShutdownBranch(l) ==
    /\ loops[l].pc = "select" /\ signal[l]
    /\ Goto(l, "done")
    /\ UNCHANGED <<source, registry, changes, pool, lb, signal, sender>>

DiscoverOk(l) ==
    /\ loops[l].pc = "discover" /\ Found # None
    /\ loops' = [loops EXCEPT ![l] = [@ EXCEPT !.pc = "wait", !.found = Found]]
    /\ UNCHANGED <<source, registry, changes, pool, lb, signal, sender>>

\* The records do not convert, or the registry does not answer: a warning.
DiscoverErr(l) ==
    /\ loops[l].pc = "discover" /\ source.kind # "static"
    /\ Goto(l, "select")
    /\ UNCHANGED <<source, registry, changes, pool, lb, signal, sender>>

BackendIds == [i \in 1..Len(pool) |-> pool[i].id]

\* The ids to remove, one per slot; slots without an id are not looked at.
GoneWithManual(found) == Filter(BackendIds, IdsOf(pool) \ IdsOf(found))
GoneNever(found) == Filter(<<>>, IdsOf(found))
Gone(found) == Filter(BackendIds, IdsOf(pool) \ (IdsOf(found) \cup {None}))

\* lb.lock(), then backend_ids: the pool is compared once, at this moment.
LockForDiffOnly(l) ==
    /\ loops[l].pc = "wait" /\ lb = Free
    /\ loops' = [loops EXCEPT ![l] = [@ EXCEPT !.pc = "remove", !.current = BackendIds,
                                               !.gone = Gone(loops[l].found)]]
    /\ UNCHANGED <<source, registry, changes, pool, lb, signal, sender>>
LockBalancer(l) ==
    /\ loops[l].pc = "wait" /\ lb = Free
    /\ lb' = l
    /\ loops' = [loops EXCEPT ![l] = [@ EXCEPT !.pc = "remove", !.current = BackendIds,
                                               !.gone = Gone(loops[l].found)]]
    /\ UNCHANGED <<source, registry, changes, pool, signal, sender>>

\* remove_backend_by_id: the first slot with this id, if there still is one.
Without(id) ==
    LET slots == {i \in 1..Len(pool) : pool[i].id = id}
    IN  IF slots = {} THEN pool ELSE RemoveAt(pool, Min(slots))

RemoveOne(l) ==
    /\ loops[l].pc = "remove" /\ loops[l].gone # <<>>
    /\ pool' = Without(Head(loops[l].gone))
    /\ loops' = [loops EXCEPT ![l].gone = Tail(@)]
    /\ UNCHANGED <<source, registry, changes, lb, signal, sender>>

RemoveDone(l) ==
    /\ loops[l].pc = "remove" /\ loops[l].gone = <<>>
    /\ Goto(l, "add")
    /\ UNCHANGED <<source, registry, changes, pool, lb, signal, sender>>

\* The descriptor the second loop of reconcile is at.
AtDescriptor(l) == loops[l].pc = "add" /\ loops[l].next <= Len(loops[l].found)

Current(l) == loops[l].found[loops[l].next]

Exists(l) == Current(l).id \in Range(loops[l].current)

EndRoundKeepsLock(l) ==
    /\ loops' = [loops EXCEPT ![l] = [NoRound EXCEPT !.pc = "select"]]
    /\ lb' = lb
EndRound(l) ==
    /\ loops' = [loops EXCEPT ![l] = [NoRound EXCEPT !.pc = "select"]]
    /\ lb' = Free

SkipExisting(l) ==
    /\ AtDescriptor(l) /\ Exists(l)
    /\ loops' = [loops EXCEPT ![l].next = @ + 1]
    /\ UNCHANGED <<source, registry, changes, pool, lb, signal, sender>>

\* The factory makes a backend for a descriptor that is not in the pool.
AddOne(l) ==
    /\ AtDescriptor(l) /\ ~Exists(l)
    /\ Current(l).addr \notin Broken
    /\ pool' = Append(pool, Current(l))
    /\ loops' = [loops EXCEPT ![l].next = @ + 1]
    /\ UNCHANGED <<source, registry, changes, lb, signal, sender>>

\* The factory fails: reconcile returns the error and the round is over.
AddFails(l) ==
    /\ AtDescriptor(l)
    /\ ~Exists(l) /\ (FactoryFails \/ Current(l).addr \in Broken)
    /\ EndRound(l)
    /\ UNCHANGED <<source, registry, changes, pool, signal, sender>>

AddDone(l) ==
    /\ loops[l].pc = "add" /\ ~AtDescriptor(l)
    /\ EndRound(l)
    /\ UNCHANGED <<source, registry, changes, pool, signal, sender>>

-----------------------------------------------------------------------------
(* Users of load_balancer_arc and dial, which hold the Mutex for the whole *)
(* dial, and the source.                                                   *)

UserLock ==
    /\ lb = Free
    /\ lb' = User
    /\ UNCHANGED <<source, registry, changes, pool, loops, signal, sender>>

\* A dial, or add_backend, or remove_backend of any slot.
UserUnlock ==
    /\ lb = User
    /\ lb' = Free
    /\ \/ pool' = pool
       \/ Len(pool) < MaxPool /\ \E a \in UserAddr : pool' = Append(pool, [id |-> None, addr |-> a])
       \/ \E i \in 1..Len(pool) : pool' = RemoveAt(pool, i)
    /\ UNCHANGED <<source, registry, changes, loops, signal, sender>>

\* Instances register, deregister or move, any number between two polls; the
\* list of a StaticDiscovery is fixed.
RegistryChanges ==
    /\ changes < MaxChanges /\ source.kind # "static"
    /\ changes' = changes + 1
    /\ registry' \in Registries[source.kind] \ {registry}
    /\ UNCHANGED <<source, pool, lb, loops, signal, sender>>

Round(l) == \/ DiscoverOk(l) \/ DiscoverErr(l) \/ LockBalancer(l) \/ RemoveOne(l)
            \/ RemoveDone(l) \/ SkipExisting(l) \/ AddOne(l) \/ AddFails(l) \/ AddDone(l)

Next ==
    \/ \E l \in Loop : \/ Start(l) \/ TickBranch(l) \/ ShutdownBranch(l) \/ Round(l)
    \/ Stop \/ UserLock \/ UserUnlock \/ RegistryChanges

Spec == Init /\ [][Next]_vars

\* The timer ticks, a lookup ends and one that can succeed does so now and then,
\* the Mutex is FIFO and its holders let go, the factory does not fail for ever,
\* select! is random.
Fairness ==
    /\ \A l \in Loop :
        /\ WF_vars(TickBranch(l)) /\ SF_vars(ShutdownBranch(l))
        /\ SF_vars(DiscoverOk(l)) /\ SF_vars(LockBalancer(l)) /\ SF_vars(AddOne(l))
        /\ WF_vars(Round(l))
    /\ WF_vars(UserUnlock)

FairSpec == Spec /\ Fairness

-----------------------------------------------------------------------------
(* Properties.                                                             *)

\* Every variable keeps its type, and a loop holds the balancer exactly while
\* it reconciles.
TypeOK ==
    /\ source \in Source /\ registry \in Registries[source.kind]
    /\ pool \in Seq(Slot)
    /\ loops \in [Loop -> LoopState]
    /\ signal \in [Loop -> BOOLEAN] /\ sender \in Loop \cup {None}
    /\ \A l \in Loop : lb = l <=> loops[l].pc \in {"remove", "add"}

Copies(s, id) == Filter(s, {x \in Range(s) : x.id = id})

\* An answer may name one id several times (Consul ids are unique per node, and
\* entries without one share the empty id), and reconcile then adds each.  But
\* however rounds of two loops and users interleave, an id never has more slots
\* than one answer gives it: rounds do not add up.
CopiesBounded ==
    \A id \in Id : \E a \in Answers : Len(Copies(pool, id)) <= Len(Copies(a, id))

Manual == Copies(pool, None)

\* No round removes or duplicates a backend that was added without an id.
ManualKept == [][(\E l \in Loop : lb = l) => Manual' = Manual]_vars

ManagedIds == IdsOf(pool) \ {None}

\* A round that ends without a factory error leaves the slots the answer calls
\* for, although it compared the pool once and removes and adds in many awaits:
\* an id the pool did not have gets the answer's backends, at its addresses and
\* in its order; one it had keeps its slots, however many; no other id is left.
RoundIsExact ==
    [][\A l \in Loop : AddDone(l) => \A id \in Id :
        LET before == Filter(loops[l].current, {id})
            answer == Copies(loops[l].found, id)
            after  == Copies(pool', id)
        IN  IF before = <<>> THEN after = answer
            ELSE Len(after) = IF answer = <<>> THEN 0 ELSE Len(before)]_vars

\* Discovery is on: the loop that stop would stop is running.
Running == sender # None /\ ~signal[sender]

\* Once the registry stops changing at records that convert, and users leave the
\* pool alone, a running loop drops what is no longer registered, also when every
\* round ends in a factory error.  It serves everything that is registered, though
\* the factory fails now and then, if there is no address at which it always
\* fails; such an address would keep back the descriptors after it as well.
Converges ==
    <>[](Found # None /\ Running /\ lb # User)
        => <>[](/\ Found # None
                /\ ManagedIds \subseteq IdsOf(Found)
                /\ {d.addr : d \in Range(Found)} \cap Broken = {} => ManagedIds = IdsOf(Found))

\* After stop, and after a second start, the loop that is no longer in
\* shutdown_tx ends: two loops never poll side by side for ever.
StoppedLoopEnds == \A l \in Loop : loops[l].pc # "off" /\ sender # l ~> loops[l].pc = "done"
==============================================================================
