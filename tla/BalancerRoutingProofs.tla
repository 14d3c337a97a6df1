------------------------ MODULE BalancerRoutingProofs -------------------------
(* Where dials go: the balancer implements Pool, and RoundRobin, Sticky and  *)
(* Failover keep their promises among callers that race.                     *)
EXTENDS BalancerProofs

-----------------------------------------------------------------------------
(* Steps of callers.                                                       *)

\* What a caller uses changes only in its own steps, and no step of a caller
\* moves a backend.
LEMMA CallerFrame ==
    ASSUME TypeOK, Structure, NEW t \in Task, TaskStep(t) \/ TaskCall(t)
    PROVE  /\ Whereabouts' = Whereabouts
           /\ \A pcs : UsedBy(pcs)' = [UsedBy(pcs) EXCEPT ![t] =
                           IF PcOf(t)' \in pcs THEN tasks'[t].be ELSE NoBackend]
  <1>1. /\ UNCHANGED <<backends, admin, fate>>
        /\ \A u \in Task \ {t} : tasks'[u] = tasks[u]
    BY TaskFrame
  <1>2. Whereabouts' = Whereabouts
    BY <1>1 DEF Whereabouts
  <1>3. ASSUME NEW pcs
        PROVE  UsedBy(pcs)' = [UsedBy(pcs) EXCEPT ![t] =
                   IF PcOf(t)' \in pcs THEN tasks'[t].be ELSE NoBackend]
    <2>1. UsedBy(pcs)' = [u \in Task |-> IF tasks'[u].pc \in pcs THEN tasks'[u].be ELSE NoBackend]
      BY DEF UsedBy, PcOf
    <2>2. UsedBy(pcs) = [u \in Task |-> IF tasks[u].pc \in pcs THEN tasks[u].be ELSE NoBackend]
      BY DEF UsedBy, PcOf
    <2> QED
      BY <1>1, <2>1, <2>2 DEF PcOf
  <1> QED
    BY <1>2, <1>3

\* A step of a caller is a step of Pool: a pick begins a dial on a serving
\* backend, the two reports end it, and a dropped guard closes the connection.
LEMMA CallerRefines ==
    ASSUME TypeOK, Structure, DialInv, NEW t \in Task, TaskStep(t) \/ TaskCall(t)
    PROVE  [P!Next]_(P!vars)
  <1> DEFINE D == UsedBy(Dialing)
             C == UsedBy({"open", "dropping"})
             after(pcs) == IF PcOf(t)' \in pcs THEN tasks'[t].be ELSE NoBackend
  <1>1. /\ Whereabouts' = Whereabouts
        /\ D' = [D EXCEPT ![t] = after(Dialing)]
        /\ C' = [C EXCEPT ![t] = after({"open", "dropping"})]
    BY CallerFrame
  <1>2. /\ D[t] = IF PcOf(t) \in Dialing THEN tasks[t].be ELSE NoBackend
        /\ C[t] = IF PcOf(t) \in {"open", "dropping"} THEN tasks[t].be ELSE NoBackend
        /\ D = [u \in Task |-> D[u]] /\ C = [u \in Task |-> C[u]]
    BY DEF UsedBy
  <1>3. tasks \in [Task -> TaskState] /\ DOMAIN tasks[t] = {"pc", "idx", "gen", "be"}
    BY DEF TypeOK, TaskState
  <1> HIDE DEF D, C
  <1>s. ASSUME after(Dialing) = D[t], after({"open", "dropping"}) = C[t] PROVE [P!Next]_(P!vars)
    BY <1>1, <1>2, <1>s, ZenonT(30) DEF P!vars, D, C
  <1>c. ASSUME after(Dialing) = NoBackend, after({"open", "dropping"}) = D[t], C[t] = NoBackend
        PROVE  [P!Next]_(P!vars)
    <2>1. CASE D[t] = NoBackend
      BY <1>s, <1>c, <2>1
    <2>2. CASE D[t] # NoBackend
      BY <1>1, <1>c, <2>2, Zenon DEF P!Next, P!Connect, D, C
    <2> QED
      BY <2>1, <2>2
  <1>g. ASSUME after(Dialing) = NoBackend, after({"open", "dropping"}) = C[t]
        PROVE  [P!Next]_(P!vars)
    <2>1. CASE D[t] = NoBackend
      BY <1>s, <1>g, <2>1
    <2>2. CASE D[t] # NoBackend
      <3>1. C' = C
        BY <1>1, <1>2, <1>g
      <3> QED
        BY <1>1, <1>g, <2>2, <3>1, Zenon DEF P!Next, P!GiveUp, D, C
    <2> QED
      BY <2>1, <2>2
  <1>d. ASSUME after(Dialing) = D[t], after({"open", "dropping"}) = NoBackend
        PROVE  [P!Next]_(P!vars)
    <2>1. CASE C[t] = NoBackend
      BY <1>s, <1>d, <2>1
    <2>2. CASE C[t] # NoBackend
      <3>1. D' = D
        BY <1>1, <1>2, <1>d, Zenon
      <3> QED
        BY <1>1, <1>d, <2>2, <3>1 DEF P!Next, P!Close, D, C
    <2> QED
      BY <2>1, <2>2
  <1>4. CASE DialStart(t)
    <2>1. tasks[t].be = NoBackend /\ tasks'[t].be = NoBackend
      BY <1>3, <1>4 DEF DialStart, Goto, DialInv, PcOf
    <2> QED
      BY <1>2, <1>s, <2>1
  <1>5. CASE Pick(t)
    <2>1. tasks[t].be = NoBackend /\ PcOf(t) \notin {"open", "dropping"} /\ Len(metrics) > 0
      BY <1>5, LenProperties DEF Pick, DialInv, Structure, TypeOK, Dialing
    <2>2. PICK i \in Indices(metrics) : PickAt(t, i)
      BY <1>5, <2>1, PickInRange DEF Pick, TypeOK
    <2>3. D[t] = NoBackend /\ C[t] = NoBackend
      BY <1>2, <2>1
    <2>4. CASE i < Len(backends)
      <3>1. tasks'[t].be = backends[i + 1] /\ PcOf(t)' = "dialing"
        BY <1>3, <2>2, <2>4 DEF PickAt, PcOf
      <3>2. i + 1 \in 1..Len(backends) /\ DOMAIN backends = 1..Len(backends)
            /\ backends[i + 1] \in Backend
        BY <2>4, LenProperties, ElementOfSeq DEF Indices, TypeOK
      <3>3. Whereabouts[backends[i + 1]] = "serving"
        BY <3>2 DEF Whereabouts, Range
      <3>4. after(Dialing) = backends[i + 1] /\ after({"open", "dropping"}) = NoBackend
        BY <3>1 DEF Dialing
      <3>5. C' = C
        BY <1>1, <1>2, <2>3, <3>4
      <3>6. P!DialOn(t, backends[i + 1])
        BY <1>1, <2>3, <3>3, <3>4, <3>5, Zenon DEF P!DialOn, D, C
      <3> QED
        BY <3>2, <3>6 DEF P!Next
    <2>5. CASE ~(i < Len(backends))
      <3>1. PcOf(t)' = "panicked"
        BY <1>3, <2>2, <2>5 DEF PickAt, PcOf, IdleTask
      <3> QED
        BY <1>s, <2>3, <3>1 DEF Dialing
    <2> QED
      BY <2>4, <2>5
  <1>6. CASE PickAcquire(t) \/ DialReturns(t) \/ RecordAcquire(t) \/ RecordSuccess(t)
             \/ RecordError(t)
    <2>1. tasks'[t].be = tasks[t].be /\ PcOf(t) \in Dialing /\ PcOf(t)' \in Dialing
      BY <1>3, <1>6 DEF PickAcquire, DialReturns, RecordAcquire, RecordSuccess, RecordError,
                        Goto, PcOf, Dialing
    <2>2. PcOf(t) \notin {"open", "dropping"} /\ PcOf(t)' \notin {"open", "dropping"}
      BY <2>1 DEF Dialing
    <2> QED
      BY <1>2, <1>s, <2>1, <2>2
  <1>7. CASE ReportOk(t)
    <2>1. tasks'[t].be = tasks[t].be /\ PcOf(t) = "ok_report" /\ PcOf(t)' = "open"
      BY <1>3, <1>7 DEF ReportOk, Goto, PcOf
    <2> QED
      BY <1>2, <1>c, <2>1 DEF Dialing
  <1>8. CASE ReportErr(t) \/ CancelDial(t)
    <2>1. PcOf(t) \in Dialing /\ tasks'[t] = IdleTask
      BY <1>3, <1>8 DEF ReportErr, CancelDial, PcOf, Dialing
    <2> QED
      BY <1>2, <1>g, <2>1 DEF Dialing, PcOf, IdleTask
  <1>9. CASE GuardDrop(t) \/ GuardDropTry(t)
    <2>1. PcOf(t) \in {"open", "dropping"} /\ tasks'[t] = IdleTask
      BY <1>3, <1>9 DEF GuardDrop, GuardDropTry, TryDecrement, PcOf
    <2> QED
      BY <1>2, <1>d, <2>1 DEF Dialing, PcOf, IdleTask
  <1>10. CASE GuardDropCheck(t)
    <2>1. PcOf(t) = "open"
      BY <1>10 DEF GuardDropCheck
    <2>2. CASE GenerationCurrent(t)
      <3>1. tasks'[t].be = tasks[t].be /\ PcOf(t)' = "dropping"
        BY <1>3, <1>10, <2>2 DEF GuardDropCheck, PcOf
      <3> QED
        BY <1>2, <1>s, <2>1, <3>1 DEF Dialing
    <2>3. CASE ~GenerationCurrent(t)
      <3>1. tasks'[t] = IdleTask
        BY <1>3, <1>10, <2>3 DEF GuardDropCheck
      <3> QED
        BY <1>2, <1>d, <2>1, <3>1 DEF Dialing, PcOf, IdleTask
    <2> QED
      BY <2>2, <2>3
  <1> QED
    BY <1>4, <1>5, <1>6, <1>7, <1>8, <1>9, <1>10 DEF TaskStep, TaskCall
-----------------------------------------------------------------------------
(* Steps of admin operations.                                              *)

\* Whereabouts, for the places and fates given as arguments.
Placed(pool, in, out, f) ==
    [b \in Backend |->
        IF b \in Range(pool) THEN "serving"
        ELSE IF b \in Range(in) THEN "entering"
        ELSE IF b \in Range(out) THEN "leaving"
        ELSE f[b]]

\* A step of an admin operation is a step of Pool or moves no backend.
LEMMA AdminRefines ==
    ASSUME TypeOK, Structure, HandsOK, BackendLifecycle, AdminStep \/ AdminCall
    PROVE  [P!Next]_(P!vars)
  <1> DEFINE W == Whereabouts
             D == UsedBy(Dialing)
             C == UsedBy({"open", "dropping"})
  <1>o. OneOwner(backends, admin.leaving, admin.incoming, fate)
    BY DEF BackendLifecycle, OneOwner
  <1>m. /\ backends \in Seq(Backend) /\ fate \in [Backend -> Fate] /\ Len(backends) \in Nat
        /\ admin.incoming \in Seq(Backend) /\ admin.leaving \in Seq(Backend)
        /\ DOMAIN admin = {"op", "at", "index", "id", "incoming", "leaving", "kind"}
    BY LenProperties DEF TypeOK, AdminState
  <1>w. /\ W = Placed(backends, admin.incoming, admin.leaving, fate)
        /\ W' = Placed(backends', admin'.incoming, admin'.leaving, fate')
    BY DEF Whereabouts, Placed
  <1>u. /\ D' = D /\ C' = C
        /\ \A t \in Task : D[t] = NoBackend
    BY AdminFrame DEF UsedBy, PcOf
  <1>f. \A b \in Backend : fate[b] \notin {"entering", "serving", "leaving"}
    BY <1>m DEF Fate
  <1>v. P!NoDials
    BY <1>u DEF P!NoDials
  <1>p. /\ P!At("serving") = {b \in Backend : b \in Range(backends)}
        /\ P!At("entering") = {b \in Backend : b \in Range(admin.incoming)}
        /\ P!At("leaving") = {b \in Backend : b \in Range(admin.leaving)}
    BY <1>o, <1>f, <1>w DEF P!At, Placed, OneOwner
  <1>e. Range(<<>>) = {} /\ IdleAdmin.leaving = <<>> /\ IdleAdmin.incoming = <<>>
    BY EmptySequence DEF IdleAdmin
  <1>n. LbExclusive => /\ admin.leaving = <<>> /\ admin.incoming = <<>>
                       /\ P!At("entering") = {} /\ P!At("leaving") = {}
    BY <1>e, <1>p DEF LbExclusive, HandsOK
  <1>s. ASSUME UNCHANGED <<backends, fate>>, admin'.leaving = admin.leaving,
               admin'.incoming = admin.incoming
        PROVE  [P!Next]_(P!vars)
    BY <1>s, <1>u, <1>w DEF P!vars
  <1>i. ASSUME admin.leaving = <<>>, admin'.leaving = <<>>, admin'.incoming = <<>>, fate' = fate,
               Range(backends') = Range(backends) \cup Range(admin.incoming)
        PROVE  [P!Next]_(P!vars)
    <2>1. P!At("leaving") = {}
      BY <1>e, <1>i, <1>p
    <2>2. W' = [b \in Backend |-> IF b \in P!At("entering") THEN "serving" ELSE W[b]]
      BY <1>e, <1>i, <1>p, <1>w DEF Placed
    <2>3. P!Install
      BY <1>u, <1>v, <2>1, <2>2 DEF P!Install, P!Move
    <2> QED
      BY <2>3 DEF P!Next
  <1>4. CASE AdminAcquire
    BY <1>m, <1>s, <1>4 DEF AdminAcquire
  <1>5. CASE AddCommit
    <2>1. /\ admin.leaving = <<>> /\ Len(admin.incoming) = 1 /\ admin' = IdleAdmin
          /\ backends' = backends \o admin.incoming /\ fate' = fate
      BY <1>5 DEF AddCommit, HandsOK, Structure
    <2>2. Range(backends') = Range(backends) \cup Range(admin.incoming)
      BY <1>m, <1>o, <2>1, ConcatSingle DEF OneOwner
    <2> QED
      BY <1>e, <1>i, <2>1, <2>2
  <1>6. CASE RemoveCommit
    <2>1. admin.index < Len(metrics)
      BY <1>6, LenProperties DEF RemoveCommit, Structure, RemovePending, TypeOK, AdminState
    <2> QED
      BY <1>m, <1>s, <1>6, <2>1 DEF RemoveCommit
  <1>7. CASE BackendShutdown
    <2> DEFINE h == Head(admin.leaving)
    <2>1. /\ admin'.leaving = Tail(admin.leaving) /\ admin'.incoming = admin.incoming
          /\ admin.leaving # <<>> /\ backends' = backends
          /\ fate' = [fate EXCEPT ![h] = "down"]
      BY <1>m, <1>7 DEF BackendShutdown
    <2>2. h \in Range(admin.leaving) /\ Range(admin'.leaving) = Range(admin.leaving) \ {h}
      BY <1>m, <1>o, <2>1, TailInjective DEF OneOwner
    <2> HIDE DEF h
    <2>3. /\ h \in Backend /\ h \notin Range(backends) /\ h \notin Range(admin.incoming)
      BY <1>o, <2>2 DEF OneOwner
    <2>4. W[h] = "leaving"
      BY <1>w, <2>2, <2>3 DEF Placed
    <2>5. W' = [b \in Backend |-> IF b \in {h} THEN "down" ELSE W[b]]
      BY <1>m, <1>w, <2>1, <2>2, <2>3 DEF Placed
    <2>6. P!ShutDown(h)
      BY <1>u, <1>v, <2>4, <2>5 DEF P!ShutDown, P!Move
    <2> QED
      BY <2>3, <2>6 DEF P!Next
  <1>8. CASE RemoveEnd \/ ReplaceStrategy \/ DrainCommit
    <2>1. /\ admin.leaving = <<>> /\ admin.incoming = <<>> /\ admin' = IdleAdmin
          /\ UNCHANGED <<backends, fate>>
      BY <1>8 DEF RemoveEnd, ReplaceStrategy, DrainCommit, HandsOK
    <2> QED
      BY <1>e, <1>s, <2>1
  <1>9. CASE ReplaceIds
    BY <1>m, <1>s, <1>9 DEF ReplaceIds
  <1>10. CASE ReplaceCommit
    <2>1. /\ backends = <<>> /\ admin.leaving = <<>> /\ backends' = admin.incoming /\ fate' = fate
      BY <1>10 DEF ReplaceCommit, HandsOK, Structure, PoolEmptied
    <2>2. admin'.leaving = <<>> /\ admin'.incoming = <<>>
      BY <1>m, <1>e, <1>10, <2>1 DEF ReplaceCommit
    <2> QED
      BY <1>e, <1>i, <2>1, <2>2
  <1>13. CASE ShutdownEnd
    <2>1. /\ admin.leaving = <<>> /\ admin.incoming = <<>> /\ UNCHANGED <<backends, fate>>
      BY <1>13 DEF ShutdownEnd, HandsOK
    <2>2. admin'.leaving = <<>> /\ admin'.incoming = <<>>
      BY <1>13 DEF ShutdownEnd, Begin, IdleAdmin
    <2> QED
      BY <1>s, <2>1, <2>2
  <1>14. ASSUME NEW b \in Backend, NEW id, AddStart(b, id) PROVE [P!Next]_(P!vars)
    <2>1. admin'.leaving = <<>> /\ admin'.incoming = <<b>> /\ Range(<<b>>) = {b}
      BY <1>14, SingleSequence DEF AddStart, Begin, IdleAdmin
    <2>2. /\ LbExclusive /\ backends' = backends
          /\ fate[b] = "fresh" /\ fate' = [fate EXCEPT ![b] = "owned"]
      BY <1>14 DEF AddStart
    <2>3. b \notin Range(backends)
      BY <1>o, <2>2 DEF OneOwner
    <2>4. {b} \in SUBSET P!At("fresh")
      BY <1>e, <1>n, <1>w, <2>2, <2>3 DEF P!At, Placed
    <2>5. W' = [c \in Backend |-> IF c \in {b} THEN "entering" ELSE W[c]]
      BY <1>e, <1>m, <1>n, <1>w, <2>1, <2>2, <2>3 DEF Placed
    <2>6. P!TakeIn({b})
      BY <1>n, <1>u, <1>v, <2>2, <2>5 DEF P!TakeIn, P!Move
    <2> QED
      BY <2>4, <2>6 DEF P!Next
  <1>15. ASSUME NEW i \in Nat, RemoveBackend(i) PROVE [P!Next]_(P!vars)
    <2> DEFINE b == backends[i + 1]
    <2>1. admin'.leaving = <<b>> /\ admin'.incoming = <<>> /\ Range(<<b>>) = {b}
      BY <1>15, SingleSequence DEF RemoveBackend, Begin, IdleAdmin
    <2>2. /\ LbExclusive /\ i + 1 \in 1..Len(backends)
          /\ backends' = RemoveAt(backends, i + 1) /\ fate' = fate
      BY <1>m, <1>15 DEF RemoveBackend
    <2>3. Range(backends') = Range(backends) \ {b} /\ b \in Range(backends)
      BY <1>m, <1>o, <2>2, RemoveInjective DEF OneOwner
    <2> HIDE DEF b
    <2>4. b \in Backend /\ {b} \in SUBSET P!At("serving")
      BY <1>o, <1>p, <2>3 DEF OneOwner
    <2>5. W' = [c \in Backend |-> IF c \in {b} THEN "leaving" ELSE W[c]]
      BY <1>e, <1>n, <1>w, <2>1, <2>2, <2>3 DEF Placed
    <2>6. P!TakeOut({b})
      BY <1>n, <1>u, <1>v, <2>2, <2>5 DEF P!TakeOut, P!Move
    <2> QED
      BY <2>4, <2>6 DEF P!Next
  <1>16. ASSUME NEW new \in Seq(Backend), NEW k, ReplaceStart(new, k) PROVE [P!Next]_(P!vars)
    <2>1. admin'.leaving = backends /\ admin'.incoming = new
      BY <1>16 DEF ReplaceStart, Begin, IdleAdmin
    <2>2. /\ LbExclusive /\ backends' = <<>> /\ \A b \in Range(new) : fate[b] = "fresh"
          /\ fate' = [b \in Backend |-> IF b \in Range(new) THEN "owned" ELSE fate[b]]
      BY <1>16 DEF ReplaceStart
    <2>3. Range(new) \subseteq Backend
      <3>1. DOMAIN new = 1..Len(new) /\ \A i \in 1..Len(new) : new[i] \in Backend
        BY LenProperties, ElementOfSeq
      <3> QED
        BY <3>1 DEF Range
    <2>4. Range(new) \cap Range(backends) = {}
      BY <1>o, <2>2 DEF OneOwner
    <2>5. Range(new) \in SUBSET P!At("fresh")
      BY <1>e, <1>n, <1>w, <2>2, <2>3, <2>4 DEF P!At, Placed
    <2>6. W' = [b \in Backend |-> IF b \in Range(new) THEN "entering"
                                  ELSE IF W[b] = "serving" THEN "leaving" ELSE W[b]]
      BY <1>e, <1>f, <1>n, <1>w, <2>1, <2>2, <2>4 DEF Placed
    <2>7. P!Exchange(Range(new))
      BY <1>n, <1>u, <1>v, <2>2, <2>6 DEF P!Exchange
    <2> QED
      BY <2>5, <2>7 DEF P!Next
  <1>17. ASSUME NEW i, DrainStart(i) \/ UndrainStart(i) PROVE [P!Next]_(P!vars)
    <2>1. admin'.leaving = <<>> /\ admin'.incoming = <<>>
      BY <1>17, Zenon DEF DrainStart, UndrainStart, Begin, IdleAdmin
    <2>2. UNCHANGED <<backends, fate>> /\ LbExclusive
      BY <1>17 DEF DrainStart, UndrainStart
    <2> QED
      BY <1>n, <1>s, <2>1, <2>2
  <1>18. ASSUME NEW k, SetStrategy(k) PROVE [P!Next]_(P!vars)
    BY <1>s, <1>18 DEF SetStrategy
  <1>19. CASE ShutdownStart
    <2>1. admin'.leaving = backends /\ admin'.incoming = <<>>
      BY <1>19 DEF ShutdownStart, Begin, IdleAdmin
    <2>2. LbExclusive /\ backends' = <<>> /\ fate' = fate
      BY <1>19 DEF ShutdownStart
    <2>3. Range(backends) \in SUBSET P!At("serving")
      BY <1>o, <1>p DEF OneOwner
    <2>4. W' = [b \in Backend |-> IF b \in Range(backends) THEN "leaving" ELSE W[b]]
      BY <1>e, <1>n, <1>w, <2>1, <2>2 DEF Placed
    <2>5. P!TakeOut(Range(backends))
      BY <1>n, <1>u, <1>v, <2>2, <2>4 DEF P!TakeOut, P!Move
    <2> QED
      BY <2>3, <2>5 DEF P!Next
  <1>20. CASE CancelAdmin
    <2>1. admin'.leaving = <<>> /\ admin'.incoming = <<>>
      BY <1>20 DEF CancelAdmin, Begin, IdleAdmin
    <2> DEFINE held == Range(admin.leaving) \cup Range(admin.incoming)
    <2>2. /\ backends' = backends
          /\ fate' = [b \in Backend |-> IF b \in held THEN "dropped" ELSE fate[b]]
      BY <1>20 DEF CancelAdmin
    <2>3. W' = [b \in Backend |-> IF b \in P!At("entering") \cup P!At("leaving")
                                  THEN "dropped" ELSE W[b]]
      BY <1>e, <1>o, <1>p, <1>w, <2>1, <2>2 DEF Placed, OneOwner
    <2>4. P!Abandon
      BY <1>u, <1>v, <2>3 DEF P!Abandon, P!Move
    <2> QED
      BY <2>4 DEF P!Next
  <1>21. ASSUME AdminCall PROVE [P!Next]_(P!vars)
    <2>1. Len(ids) \in Nat
      BY LenProperties DEF TypeOK
    <2>2. \A i \in 1..Len(backends) : RemoveBackend(i - 1) => [P!Next]_(P!vars)
      BY <1>m, <1>15
    <2>3. \A i \in 1..Len(ids) : RemoveBackend(i - 1) => [P!Next]_(P!vars)
      BY <1>15, <2>1
    <2>4. \A b \in Backend : RemoveBackendByPtr(b) \/ RemoveBackendById(IdOf[b])
                             => [P!Next]_(P!vars)
      BY <2>2, <2>3 DEF RemoveBackendByPtr, RemoveBackendById
    <2>5. \A n \in 1..MaxPool : \A new \in [1..n -> Backend] : new \in Seq(Backend)
      BY BoundAssumption
    <2>6. \A i \in 0..(MaxPool - 1) : i \in Nat
      BY BoundAssumption
    <2> QED
      BY <1>21, <1>14, <1>15, <1>16, <1>17, <1>18, <1>19, <1>20, <2>4, <2>5, <2>6 DEF AdminCall
  <1> QED
    BY <1>4, <1>5, <1>6, <1>7, <1>8, <1>9, <1>10, <1>13, <1>21 DEF AdminStep

-----------------------------------------------------------------------------

\* LoadBalancer keeps every promise of Pool, for any number of callers and
\* backends, on one thread or several, whatever dial and admin futures are
\* dropped: dials and admin operations exclude each other, a dial stays on a
\* serving backend from pick to return, and add_backend, remove_backend,
\* replace_backends and shutdown take each backend through its life once.
THEOREM BalancerImplementsPool == Spec => ImplementsPool
  <1> DEFINE Inv == TypeOK /\ Structure /\ DialInv /\ HandsOK /\ BackendLifecycle
  <1>1. Init => P!Init
    <2> SUFFICES ASSUME Init PROVE P!Init
      OBVIOUS
    <2>1. admin.incoming = <<>> /\ admin.leaving = <<>> /\ Range(<<>>) = {}
      BY EmptySequence DEF Init, IdleAdmin
    <2>2. Whereabouts \in [Backend -> {"fresh", "serving"}]
      BY <2>1 DEF Init, Whereabouts
    <2>3. \A pcs : "idle" \notin pcs => UsedBy(pcs) = [t \in Task |-> NoBackend]
      BY DEF Init, UsedBy, PcOf, IdleTask
    <2> QED
      BY <2>2, <2>3 DEF P!Init, Dialing
  <1>2. Inv /\ [Next]_vars => [P!Next]_(P!vars)
    <2> SUFFICES ASSUME Inv, [Next]_vars PROVE [P!Next]_(P!vars)
      OBVIOUS
    <2>1. CASE \E t \in Task : TaskStep(t) \/ TaskCall(t)
      BY <2>1, CallerRefines
    <2>2. CASE AdminStep \/ AdminCall
      BY <2>2, AdminRefines
    <2>3. CASE ReadAcquire \/ ReadRelease \/ Quiet \/ UNCHANGED vars
      BY <2>3 DEF ReadAcquire, ReadRelease, Quiet, vars, P!vars, Whereabouts, UsedBy, PcOf
    <2> QED
      BY <2>1, <2>2, <2>3 DEF Next
  <1>3. Spec => []Inv
    BY TypeCorrect, DialInvariant, OwnerInvariant, PTL
  <1> QED
    BY <1>1, <1>2, <1>3, PTL DEF Spec, ImplementsPool, P!Spec

-----------------------------------------------------------------------------
(* What a caller and its strategy remember.                                *)

\* A caller becomes counted by its pick only, and keeps its backend until it is no
\* longer counted.
LEMMA CountedBefore ==
    ASSUME TypeOK, NEW t \in Task, TaskStep(t) \/ TaskCall(t), ~Pick(t), PcOf(t)' \in Counted
    PROVE  PcOf(t) \in Counted /\ tasks'[t].be = tasks[t].be
  <1>1. tasks \in [Task -> TaskState] /\ DOMAIN tasks[t] = {"pc", "idx", "gen", "be"}
    BY DEF TypeOK, TaskState
  <1>2. ~(ReportErr(t) \/ CancelDial(t) \/ GuardDropTry(t) \/ GuardDrop(t))
    <2>1. ~ReportErr(t) /\ ~CancelDial(t)
      BY <1>1 DEF ReportErr, CancelDial, PcOf, IdleTask, Counted
    <2>2. ~GuardDropTry(t)
      BY <1>1 DEF GuardDropTry, TryDecrement, PcOf, IdleTask, Counted
    <2>3. ~GuardDrop(t)
      BY <1>1 DEF GuardDrop, TryDecrement, PcOf, IdleTask, Counted
    <2> QED
      BY <2>1, <2>2, <2>3
  <1>3. CASE DialStart(t) \/ PickAcquire(t) \/ DialReturns(t) \/ RecordAcquire(t)
             \/ RecordSuccess(t) \/ RecordError(t) \/ ReportOk(t)
    BY <1>1, <1>3 DEF DialStart, PickAcquire, DialReturns, RecordAcquire, RecordSuccess,
                      RecordError, ReportOk, Goto, PcOf, Counted
  <1>4. CASE GuardDropCheck(t)
    BY <1>1, <1>4 DEF GuardDropCheck, PcOf, Counted, IdleTask
  <1> QED
    BY <1>2, <1>3, <1>4, Zenon DEF TaskStep, TaskCall

\* Neither a pick nor a reported error changes the kind of a strategy.
LEMMA KindKept ==
    ASSUME NEW s \in Strategy, NEW m \in Seq(TunnelMetrics), NEW i \in Nat
    PROVE  AfterPick(s, m, i).kind = s.kind /\ ReportError(s, i).kind = s.kind
  <1>1. DOMAIN s = {"kind", "next", "primary", "len", "pinned", "rtts", "picks"} /\ s.kind \in Kind
    BY DEF Strategy
  <1>2. Rebuilt(s, m).kind = s.kind
    BY <1>1 DEF Rebuilt
  <1>3. Rebuilt(s, m) \in Strategy
    BY RebuiltType
  <1>4. [Rebuilt(s, m) EXCEPT !.picks[i + 1] = @ + 1].kind = s.kind
    BY <1>2, <1>3 DEF Strategy
  <1>5. ReportError(s, i).kind = s.kind
    BY <1>1 DEF ReportError
  <1>6. AfterPick(s, m, i) \in {s, [s EXCEPT !.next = i + 1], [s EXCEPT !.len = Len(m)],
                               [s EXCEPT !.pinned = i], [Rebuilt(s, m) EXCEPT !.picks[i + 1] = @ + 1]}
    <2>1. CASE s.kind = "round_robin"
      BY <2>1 DEF AfterPick, Advance
    <2>2. CASE s.kind = "failover"
      BY <2>2 DEF AfterPick
    <2>3. CASE s.kind = "weighted_round_robin"
      BY <2>3 DEF AfterPick
    <2>4. CASE s.kind = "sticky"
      BY <2>4 DEF AfterPick, Pin
    <2>5. CASE s.kind \notin {"round_robin", "failover", "weighted_round_robin", "sticky"}
      BY <2>5 DEF AfterPick
    <2> QED
      BY <2>1, <2>2, <2>3, <2>4, <2>5
  <1> QED
    BY <1>1, <1>4, <1>5, <1>6, Zenon

\* What % returns up to the divisor.
LEMMA ModSmall ==
    ASSUME NEW n \in Nat, n > 0
    PROVE  n % n = 0 /\ \A a \in 0..(n - 1) : a % n = a
  BY SMT

-----------------------------------------------------------------------------
(* RoundRobin.                                                             *)

\* No admin call changes the pool or the strategy.
PoolUntouched == /\ admin'.op \notin {"add", "remove", "replace"}
                 /\ \A k \in NewKinds : ~SetStrategy(k)

\* In a round, the rows before the cursor have been dialed once more than the rest.
RoundOf(c) == \A i \in 1..Len(metrics) :
                 metrics[i].total_dials = IF i <= strategy.next THEN c + 1 ELSE c

EvenInv ==
    /\ admin.op \notin {"add", "remove", "replace"}
    /\ strategy.kind = "round_robin" =>
          strategy.next <= Len(metrics) /\ \E c \in Nat : RoundOf(c)

\* Only a pick counts a dial.
LEMMA DialsKept ==
    ASSUME NEW m \in TunnelMetrics,
           NEW n \in {m, Succeeded(m), Failed(m), Dropped(m), Drained(m), Undrained(m)}
    PROVE  n.total_dials = m.total_dials
  BY RowFields, Zenon

\* A pick advances the cursor by one row, or starts the next round; no other step
\* moves the cursor or counts a dial.
LEMMA EvenStep ==
    TypeOK /\ Structure /\ EvenInv /\ [Next]_vars /\ [PoolUntouched]_vars => EvenInv'
  <1> SUFFICES ASSUME TypeOK, Structure, EvenInv, [Next]_vars, [PoolUntouched]_vars PROVE EvenInv'
    OBVIOUS
  <1>1. /\ metrics \in Seq(TunnelMetrics) /\ Len(metrics) \in Nat /\ strategy \in Strategy
        /\ strategy.next \in Nat
        /\ DOMAIN strategy = {"kind", "next", "primary", "len", "pinned", "rtts", "picks"}
    BY LenProperties, Zenon DEF TypeOK, Strategy
  <1>2. \A j \in 1..Len(metrics) : metrics[j] \in TunnelMetrics /\ metrics[j].total_dials \in Nat
    BY <1>1, ElementOfSeq, RowFields, Zenon
  <1>3. admin'.op \notin {"add", "remove", "replace"}
    BY DEF PoolUntouched, EvenInv, vars
  <1>s. ASSUME Len(metrics') = Len(metrics), strategy' = strategy,
               \A j \in 1..Len(metrics) : metrics'[j].total_dials = metrics[j].total_dials
        PROVE  EvenInv'
    BY <1>3, <1>s, Zenon DEF EvenInv, RoundOf
  <1>4. ASSUME NEW t \in Task, Pick(t) PROVE EvenInv'
    <2>1. Len(metrics') = Len(metrics) /\ admin' = admin
      BY <1>4, TaskFrame DEF TaskStep
    <2>2. PICK i \in Indices(metrics) :
             /\ PicksAt(t, i) /\ i + 1 \in 1..Len(metrics) /\ Len(metrics) > 0
             /\ \A j \in 1..Len(metrics) :
                    metrics'[j] = IF j = i + 1 THEN Picked(metrics[j]) ELSE metrics[j]
      BY <1>4, PickRows
    <2>3. i \in Nat /\ strategy' = AfterPick(strategy, metrics, i)
      BY <2>2, <1>1 DEF PicksAt, PickAt, Indices
    <2>4. strategy'.kind = strategy.kind
      BY <1>1, <2>3, KindKept
    <2>5. SUFFICES ASSUME strategy.kind = "round_robin"
                   PROVE  strategy'.next <= Len(metrics') /\ (\E c \in Nat : RoundOf(c))'
      BY <1>3, <2>4 DEF EvenInv
    <2>6. i = strategy.next % Len(metrics) /\ strategy'.next = i + 1
      BY <1>1, <2>2, <2>3, <2>5 DEF PicksAt, PickIndex, AfterPick, Advance
    <2>7. PICK c \in Nat : RoundOf(c)
      BY <2>5 DEF EvenInv
    <2>8. \A j \in 1..Len(metrics) :
              metrics'[j].total_dials = IF j = i + 1 THEN metrics[j].total_dials + 1
                                        ELSE metrics[j].total_dials
      <3> TAKE j \in 1..Len(metrics)
      <3>1. Picked(metrics[j]).total_dials = metrics[j].total_dials + 1
        BY <1>2, RowFields
      <3> QED
        BY <2>2, <3>1
    <2>9. strategy.next <= Len(metrics)
      BY <2>5 DEF EvenInv
    <2>10. CASE strategy.next < Len(metrics)
      <3>1. i = strategy.next
        <4>1. Len(metrics) \in Nat \ {0} /\ strategy.next \in Nat
          BY <1>1, <2>2
        <4>2. strategy.next % Len(metrics) = strategy.next
          BY <2>10, <4>1, ModSmall
        <4> QED
          BY <2>6, <4>2
      <3>2. RoundOf(c)'
        <4> SUFFICES ASSUME NEW j \in 1..Len(metrics)
                     PROVE  metrics'[j].total_dials = IF j <= strategy'.next THEN c + 1 ELSE c
          BY <2>1 DEF RoundOf
        <4>1. metrics[j].total_dials = IF j <= i THEN c + 1 ELSE c
          BY <2>7, <3>1 DEF RoundOf
        <4>2. strategy'.next = i + 1 /\ i \in Nat /\ j \in Nat
          BY <1>1, <2>3, <2>6
        <4> QED
          BY <2>8, <4>1, <4>2
      <3>3. strategy'.next <= Len(metrics')
        BY <1>1, <2>1, <2>6, <2>10, <3>1
      <3> QED
        BY <3>2, <3>3
    <2>11. CASE strategy.next = Len(metrics)
      <3>1. i = 0
        BY <1>1, <2>2, <2>6, <2>11, ModSmall
      <3> DEFINE d == c + 1
      <3>2. d \in Nat /\ \A j \in 1..Len(metrics) : metrics[j].total_dials = d
        BY <1>1, <2>7, <2>11 DEF RoundOf
      <3> HIDE DEF d
      <3>3. RoundOf(d)'
        BY <1>1, <2>1, <2>6, <2>8, <3>1, <3>2 DEF RoundOf
      <3> QED
        <4>1. strategy'.next <= Len(metrics')
          BY <1>1, <2>1, <2>2, <2>6, <3>1
        <4> QED
          BY <3>2, <3>3, <4>1
    <2> QED
      BY <1>1, <2>9, <2>10, <2>11
  <1>5. ASSUME NEW t \in Task, TaskStep(t) \/ TaskCall(t), ~Pick(t) PROVE EvenInv'
    <2>1. Len(metrics') = Len(metrics)
      BY <1>5, TaskFrame
    <2>2. \A j \in 1..Len(metrics) :
              metrics'[j] \in {metrics[j], Succeeded(metrics[j]), Failed(metrics[j]), Dropped(metrics[j])}
      BY <1>5, OtherRows, Zenon
    <2>3. \A j \in 1..Len(metrics) : metrics'[j].total_dials = metrics[j].total_dials
      BY <1>2, <2>2, DialsKept, Zenon
    <2>4. strategy' = strategy \/ strategy' = ReportError(strategy, tasks[t].idx)
      BY <1>5, OtherRows
    <2>5. CASE strategy.kind = "round_robin"
      <3>1. strategy' = strategy
        BY <2>4, <2>5 DEF ReportError
      <3> QED
        BY <1>s, <2>1, <2>3, <3>1
    <2>6. CASE strategy.kind # "round_robin"
      <3>1. tasks[t].idx \in Nat
        BY DEF TypeOK, TaskState
      <3>2. strategy'.kind # "round_robin"
        BY <1>1, <2>4, <2>6, <3>1, KindKept
      <3> QED
        BY <1>3, <3>2 DEF EvenInv
    <2> QED
      BY <2>5, <2>6
  <1>6. ASSUME AdminStep \/ AdminCall PROVE EvenInv'
    <2>1. CASE UNCHANGED vars
      BY <1>s, <2>1 DEF vars
    <2>2. CASE ~UNCHANGED vars
      <3>1. PoolUntouched
        BY <2>2
      <3>2. ~ReplaceStrategy /\ ~AddCommit /\ ~RemoveCommit /\ ~ReplaceCommit
        BY DEF ReplaceStrategy, AddCommit, RemoveCommit, ReplaceCommit, EvenInv
      <3>3. strategy' = strategy
        BY <1>6, <3>1, <3>2, AdminStrategy DEF PoolUntouched
      <3>4. /\ Len(metrics') = Len(metrics)
            /\ \A j \in 1..Len(metrics) :
                   metrics'[j] \in {metrics[j], Drained(metrics[j]), Undrained(metrics[j])}
        BY <1>6, <3>2, AdminRows
      <3>5. \A j \in 1..Len(metrics) : metrics'[j].total_dials = metrics[j].total_dials
        BY <1>2, <3>4, DialsKept, Zenon
      <3> QED
        BY <1>s, <3>3, <3>4, <3>5
    <2> QED
      BY <2>1, <2>2
  <1>7. ASSUME ReadAcquire \/ ReadRelease \/ Quiet \/ UNCHANGED vars PROVE EvenInv'
    BY <1>7, <1>s DEF ReadAcquire, ReadRelease, Quiet, vars
  <1> QED
    BY <1>4, <1>5, <1>6, <1>7 DEF Next

\* While no admin call changes the pool or the strategy, RoundRobin's dial counts
\* differ by at most one: for any number of callers and backends, whatever fails, is
\* cancelled or drained, and on any number of threads.
THEOREM RoundRobinStaysEven == Spec /\ [][PoolUntouched]_vars => []RoundRobinEven
  <1>1. Init => EvenInv
    <2> SUFFICES ASSUME Init PROVE EvenInv
      OBVIOUS
    <2>1. PICK r \in [1..Len(InitBackends) -> InitRtts] :
            metrics = [i \in 1..Len(InitBackends) |-> [DefaultMetrics EXCEPT !.rtt = r[i]]]
      BY DEF Init
    <2>2. Len(InitBackends) \in Nat
      BY InitAssumption, LenProperties
    <2>3. /\ Len(metrics) = Len(InitBackends)
          /\ \A i \in 1..Len(InitBackends) : metrics[i].total_dials = 0
      BY <2>1, <2>2 DEF DefaultMetrics
    <2>4. strategy.next = 0 /\ admin.op = "none"
      BY DEF Init, NewStrategy, IdleAdmin
    <2>5. RoundOf(0)
      BY <2>2, <2>3, <2>4 DEF RoundOf
    <2> QED
      BY <2>2, <2>3, <2>4, <2>5 DEF EvenInv
  <1>2. TypeOK /\ EvenInv => RoundRobinEven
    <2> SUFFICES ASSUME TypeOK, EvenInv, strategy.kind = "round_robin",
                        NEW i \in 1..Len(metrics), NEW j \in 1..Len(metrics)
                 PROVE  metrics[i].total_dials <= metrics[j].total_dials + 1
      BY DEF RoundRobinEven
    <2>1. PICK c \in Nat : RoundOf(c)
      BY DEF EvenInv
    <2> QED
      BY <2>1 DEF RoundOf
  <1> QED
    BY <1>1, <1>2, TypeCorrect, EvenStep, PTL DEF Spec

-----------------------------------------------------------------------------
(* Sticky.                                                                 *)

\* No admin call takes a backend out or changes the strategy; some may add.
PoolOnlyGrows == /\ admin'.op \notin {"remove", "replace"}
                 /\ \A k \in NewKinds : ~SetStrategy(k)

\* shutdown(self) has taken the pool.
Gone == admin.op \in {"shutdown", "closed"}

\* Whoever is counted is on the pinned backend, which never moves.
PinnedInv ==
    /\ admin.op \notin {"remove", "replace"}
    /\ ~Gone => Len(metrics) = Len(backends)
    /\ strategy.kind = "sticky" =>
          /\ strategy.pinned # Unpinned => strategy.pinned < Len(metrics)
          /\ \A t \in Task : PcOf(t) \in Counted =>
                 /\ strategy.pinned # Unpinned
                 /\ ~Gone => tasks[t].be = backends[strategy.pinned + 1]

\* The pool changes when an addition ends, or when it is taken away.
LEMMA AdminPool ==
    ASSUME TypeOK, Structure, AdminStep \/ AdminCall, admin.op \notin {"remove", "replace"},
           admin'.op \notin {"remove", "replace"}
    PROVE  /\ backends' = backends \/ AddCommit \/ Gone'
           /\ Gone => Gone'
  <1>1. DOMAIN admin = {"op", "at", "index", "id", "incoming", "leaving", "kind"}
    BY DEF TypeOK, AdminState
  <1>2. CASE AdminStep
    <2>1. ~(RemoveCommit \/ RemoveEnd \/ ReplaceIds \/ ReplaceCommit \/ ReplaceStrategy)
      BY DEF RemoveCommit, RemoveEnd, ReplaceIds, ReplaceCommit, ReplaceStrategy
    <2>2. CASE AddCommit
      BY <2>2 DEF AddCommit, Gone
    <2>3. CASE AdminAcquire \/ BackendShutdown
      BY <1>1, <2>3 DEF AdminAcquire, BackendShutdown, Gone
    <2>4. CASE DrainCommit
      BY <2>4 DEF DrainCommit, Gone
    <2>5. CASE ShutdownEnd
      <3>1. admin'.op = "closed"
        BY <2>5 DEF ShutdownEnd, Begin, IdleAdmin
      <3> QED
        BY <3>1 DEF Gone
    <2> QED
      BY <1>2, <2>1, <2>2, <2>3, <2>4, <2>5 DEF AdminStep
  <1>3. ASSUME NEW i, RemoveBackend(i) PROVE FALSE
    BY <1>3 DEF RemoveBackend, Begin, IdleAdmin
  <1>4. ASSUME NEW new, NEW k, ReplaceStart(new, k) PROVE FALSE
    BY <1>4 DEF ReplaceStart, Begin, IdleAdmin
  <1>5. CASE ShutdownStart
    <2>1. admin'.op = "shutdown"
      BY <1>5 DEF ShutdownStart, Begin, IdleAdmin
    <2> QED
      BY <2>1 DEF Gone
  <1>6. CASE CancelAdmin
    <2>1. backends' = backends
      BY <1>6 DEF CancelAdmin
    <2>2. CASE admin.op = "shutdown"
      <3>1. admin'.op = "closed"
        BY <1>6, <2>2 DEF CancelAdmin, Begin, IdleAdmin
      <3> QED
        BY <3>1 DEF Gone
    <2>3. CASE admin.op # "shutdown"
      <3>1. admin.op # "closed"
        BY <1>6 DEF CancelAdmin, Structure, PhaseOK
      <3> QED
        BY <2>1, <2>3, <3>1 DEF Gone
    <2> QED
      BY <2>2, <2>3
  <1>7. ASSUME \/ \E b, id : AddStart(b, id)
               \/ \E i : DrainStart(i) \/ UndrainStart(i)
               \/ \E k \in NewKinds : SetStrategy(k)
        PROVE  backends' = backends /\ ~Gone
    BY <1>7, Zenon DEF AddStart, DrainStart, UndrainStart, SetStrategy, LbExclusive, Gone
  <1> QED
    BY <1>2, <1>3, <1>4, <1>5, <1>6, <1>7, Zenon DEF AdminCall, RemoveBackendByPtr, RemoveBackendById

\* The first pick pins its index; every later pick returns it, and an addition
\* appends behind it.
LEMMA PinnedStep ==
    TypeOK /\ Structure /\ PinnedInv /\ [Next]_vars /\ [PoolOnlyGrows]_vars => PinnedInv'
  <1> SUFFICES ASSUME TypeOK, Structure, PinnedInv, [Next]_vars, [PoolOnlyGrows]_vars
               PROVE  PinnedInv'
    OBVIOUS
  <1>1. /\ metrics \in Seq(TunnelMetrics) /\ Len(metrics) \in Nat /\ strategy \in Strategy
        /\ strategy.pinned \in Nat \cup {Unpinned} /\ Len(backends) \in Nat
        /\ backends \in Seq(Backend) /\ tasks \in [Task -> TaskState]
        /\ DOMAIN strategy = {"kind", "next", "primary", "len", "pinned", "rtts", "picks"}
    BY LenProperties DEF TypeOK, Strategy
  <1>2. admin'.op \notin {"remove", "replace"}
    BY DEF PoolOnlyGrows, PinnedInv, vars
  <1>3. ASSUME NEW t \in Task, Pick(t) PROVE PinnedInv'
    <2>1. /\ Len(metrics') = Len(metrics) /\ UNCHANGED <<admin, backends>>
          /\ \A u \in Task \ {t} : tasks'[u] = tasks[u]
      BY <1>3, TaskFrame, Zenon DEF TaskStep
    <2>2. PICK i \in Indices(metrics) :
             /\ PicksAt(t, i) /\ i + 1 \in 1..Len(metrics) /\ Len(metrics) > 0
             /\ \A j \in 1..Len(metrics) :
                    metrics'[j] = IF j = i + 1 THEN Picked(metrics[j]) ELSE metrics[j]
      BY <1>3, PickRows
    <2>3. i \in Nat /\ i < Len(metrics) /\ strategy' = AfterPick(strategy, metrics, i)
      BY <2>2, <1>1 DEF PicksAt, PickAt, Indices
    <2>4. strategy'.kind = strategy.kind
      BY <1>1, <2>3, KindKept, Zenon
    <2>5. ~Gone /\ Len(metrics) = Len(backends)
      <3>1. PcOf(t) \in Dialing
        BY <1>3 DEF Pick, Dialing
      <3> QED
        BY <3>1 DEF Structure, Gone, PinnedInv
    <2>6. SUFFICES ASSUME strategy.kind = "sticky"
                   PROVE  /\ strategy'.pinned = i
                          /\ \A u \in Task : PcOf(u)' \in Counted => tasks'[u].be = backends[i + 1]
      <3>1. i # Unpinned
        BY <2>3 DEF Unpinned
      <3> QED
        BY <1>2, <2>1, <2>3, <2>4, <2>5, <2>6, <3>1, Zenon DEF PinnedInv, Gone
    <2>7. strategy'.pinned = i /\ (strategy.pinned # Unpinned => strategy.pinned = i)
      <3>1. strategy' = Pin(strategy, i)
        BY <2>3, <2>6 DEF AfterPick
      <3>2. i \in StickyPick(strategy, metrics)
        BY <2>2, <2>6 DEF PicksAt, PickIndex
      <3>3. strategy.pinned # Unpinned => strategy.pinned < Len(metrics)
        BY <2>6 DEF PinnedInv
      <3> QED
        BY <1>1, <3>1, <3>2, <3>3 DEF Pin, StickyPick
    <2>8. tasks'[t].be = backends[i + 1]
      BY <1>1, <2>2, <2>3, <2>5 DEF PicksAt, PickAt
    <2>9. ASSUME NEW u \in Task \ {t}, PcOf(u)' \in Counted PROVE tasks'[u].be = backends[i + 1]
      BY <2>1, <2>5, <2>6, <2>7, <2>9 DEF PinnedInv, PcOf
    <2> QED
      BY <2>7, <2>8, <2>9
  <1>4. ASSUME NEW t \in Task, TaskStep(t) \/ TaskCall(t), ~Pick(t) PROVE PinnedInv'
    <2>1. /\ Len(metrics') = Len(metrics) /\ UNCHANGED <<admin, backends>>
          /\ \A u \in Task \ {t} : tasks'[u] = tasks[u]
      BY <1>4, TaskFrame
    <2>2. strategy' = strategy \/ strategy' = ReportError(strategy, tasks[t].idx)
      BY <1>4, OtherRows
    <2>3. CASE strategy.kind = "sticky"
      <3>1. strategy' = strategy
        BY <2>2, <2>3 DEF ReportError
      <3>2. PcOf(t)' \in Counted => PcOf(t) \in Counted /\ tasks'[t].be = tasks[t].be
        BY <1>4, CountedBefore, Zenon
      <3>3. \A u \in Task : PcOf(u)' \in Counted => PcOf(u) \in Counted /\ tasks'[u].be = tasks[u].be
        BY <2>1, <3>2 DEF PcOf
      <3> QED
        BY <1>2, <2>1, <3>1, <3>3 DEF PinnedInv, Gone
    <2>4. CASE strategy.kind # "sticky"
      <3>1. tasks[t].idx \in Nat
        BY DEF TypeOK, TaskState
      <3>2. strategy'.kind # "sticky"
        BY <1>1, <2>2, <2>4, <3>1, KindKept
      <3> QED
        BY <1>2, <2>1, <3>2 DEF PinnedInv, Gone
    <2> QED
      BY <2>3, <2>4
  <1>s. ASSUME UNCHANGED <<tasks, strategy, metrics, backends, admin>> PROVE PinnedInv'
    BY <1>s DEF PinnedInv, Gone, PcOf
  <1>5. ASSUME AdminStep \/ AdminCall PROVE PinnedInv'
    <2>1. CASE UNCHANGED vars
      BY <1>s, <2>1 DEF vars
    <2>2. CASE ~UNCHANGED vars
      <3>1. PoolOnlyGrows /\ UNCHANGED tasks
        BY <1>5, <2>2, AdminFrame
      <3>2. ~ReplaceStrategy /\ ~RemoveCommit /\ ~ReplaceCommit
        BY DEF ReplaceStrategy, RemoveCommit, ReplaceCommit, PinnedInv
      <3>3. strategy' = strategy
        BY <1>5, <3>1, <3>2, AdminStrategy DEF PoolOnlyGrows
      <3>4. (backends' = backends \/ AddCommit \/ Gone') /\ (Gone => Gone')
        BY <1>2, <1>5, AdminPool DEF PinnedInv
      <3>5. CASE AddCommit
        <4>1. /\ ~Gone /\ admin.incoming \in Seq(Backend) /\ Len(admin.incoming) = 1
              /\ backends' = backends \o admin.incoming /\ metrics' = Append(metrics, DefaultMetrics)
          BY <3>5 DEF AddCommit, Gone, Structure, TypeOK, AdminState
        <4>2. /\ Len(backends \o admin.incoming) = Len(backends) + Len(admin.incoming)
              /\ \A k \in 1..(Len(backends) + Len(admin.incoming)) :
                   (backends \o admin.incoming)[k] = IF k <= Len(backends) THEN backends[k]
                                                     ELSE admin.incoming[k - Len(backends)]
          BY <1>1, <4>1, ConcatProperties, Zenon
        <4>3. Len(metrics') = Len(metrics) + 1
          <5>1. DefaultMetrics \in TunnelMetrics
            BY U32MaxAssumption DEF DefaultMetrics, TunnelMetrics, Rtt
          <5> QED
            BY <1>1, <4>1, <5>1, AppendProperties
        <4>4. Len(backends') = Len(backends) + 1 /\ \A k \in 1..Len(backends) : backends'[k] = backends[k]
          BY <1>1, <4>1, <4>2, SMTT(30)
        <4>5. Len(metrics) = Len(backends)
          BY <4>1 DEF PinnedInv
        <4>6. SUFFICES ASSUME strategy.kind = "sticky"
                       PROVE  /\ strategy.pinned # Unpinned => strategy.pinned < Len(metrics')
                              /\ \A t \in Task : PcOf(t)' \in Counted =>
                                     /\ strategy.pinned # Unpinned
                                     /\ tasks[t].be = backends'[strategy.pinned + 1]
          BY <1>2, <3>1, <3>3, <4>3, <4>4, <4>5 DEF PinnedInv
        <4>7. strategy.pinned # Unpinned =>
                 strategy.pinned < Len(metrics) /\ strategy.pinned + 1 \in 1..Len(backends)
          BY <1>1, <4>5, <4>6 DEF PinnedInv
        <4>8. \A t \in Task : PcOf(t)' \in Counted =>
                  strategy.pinned # Unpinned /\ tasks[t].be = backends[strategy.pinned + 1]
          BY <3>1, <4>1, <4>6 DEF PinnedInv, PcOf
        <4> QED
          BY <1>1, <4>3, <4>4, <4>7, <4>8
      <3>6. CASE ~AddCommit
        <4>1. Len(metrics') = Len(metrics)
          BY <1>5, <3>2, <3>6, AdminRows
        <4>2. CASE Gone'
          BY <1>2, <3>1, <3>3, <4>1, <4>2 DEF PinnedInv, PcOf
        <4>3. CASE ~Gone'
          BY <1>2, <3>1, <3>3, <3>4, <3>6, <4>1, <4>3 DEF PinnedInv, PcOf
        <4> QED
          BY <4>2, <4>3
      <3> QED
        BY <3>5, <3>6
    <2> QED
      BY <2>1, <2>2
  <1>6. ASSUME ReadAcquire \/ ReadRelease \/ Quiet \/ UNCHANGED vars PROVE PinnedInv'
    BY <1>6, <1>s DEF ReadAcquire, ReadRelease, Quiet, vars
  <1> QED
    BY <1>3, <1>4, <1>5, <1>6 DEF Next

\* While backends are added but none is removed, and the strategy is not swapped,
\* Sticky keeps all connections on one backend: for any number of callers racing for
\* the first pick, with dials cancelled and admin futures dropped at any await.
THEOREM StickyStaysOnOne == Spec /\ [][PoolOnlyGrows]_vars => []StickyOneBackend
  <1>1. Init => PinnedInv
    <2> SUFFICES ASSUME Init PROVE PinnedInv
      OBVIOUS
    <2>1. Len(metrics) = Len(backends) /\ admin.op = "none"
      BY InitAssumption, LenProperties DEF Init, IdleAdmin
    <2>2. strategy.pinned = Unpinned /\ \A t \in Task : PcOf(t) \notin Counted
      BY DEF Init, NewStrategy, IdleTask, PcOf, Counted
    <2> QED
      BY <2>1, <2>2 DEF PinnedInv
  <1>2. TypeOK /\ Structure /\ BackendLifecycle /\ PinnedInv => StickyOneBackend
    <2> SUFFICES ASSUME TypeOK, Structure, BackendLifecycle, PinnedInv, strategy.kind = "sticky",
                        NEW i \in 1..Len(backends), NEW j \in 1..Len(backends),
                        Live(backends[i]) # {}, Live(backends[j]) # {}
                 PROVE  i = j
      BY Zenon DEF StickyOneBackend
    <2>1. backends \in Seq(Backend) /\ Len(backends) \in Nat /\ backends # <<>> /\ ~Gone
      <3>1. backends \in Seq(Backend) /\ Len(backends) \in Nat /\ backends # <<>>
        BY LenProperties DEF TypeOK
      <3> QED
        BY <3>1 DEF Structure, PoolEmptied, Gone
    <2> DEFINE p == strategy.pinned + 1
    <2>2. ASSUME NEW k \in 1..Len(backends), Live(backends[k]) # {} PROVE backends[k] = backends[p]
      BY <2>1, <2>2 DEF PinnedInv, Live, PcOf
    <2>3. \E t \in Task : PcOf(t) \in Counted
      BY Zenon DEF Live
    <2>4. p \in 1..Len(backends)
      BY <2>1, <2>3 DEF PinnedInv, TypeOK, Strategy
    <2>5. IsInjective(backends) /\ DOMAIN backends = 1..Len(backends)
      BY <2>1, LenProperties, Zenon DEF BackendLifecycle
    <2>6. ASSUME NEW k \in 1..Len(backends), backends[k] = backends[p] PROVE k = p
      BY <2>4, <2>5, <2>6 DEF IsInjective
    <2> QED
      BY <2>2, <2>6, Zenon
  <1> QED
    BY <1>1, <1>2, TypeCorrect, LifecycleSafe, PinnedStep, PTL DEF Spec

-----------------------------------------------------------------------------
(* Failover.                                                               *)

\* No admin call makes the metrics shorter.
NeverShrinks == Len(metrics') >= Len(metrics)

\* The primary is an index of the pool, and a dial that may report an error has
\* told the strategy how long the pool is.
FailoverInv ==
    /\ Len(metrics) > 0
    /\ strategy.kind = "failover" =>
          /\ strategy.primary < Len(metrics)
          /\ \A t \in Task : PcOf(t) \in Dialing \ {"metrics_wait", "strategy_wait"} =>
                 strategy.len = Len(metrics)

\* An error on the primary makes the next index the primary; others change nothing.
LEMMA ErrorRotates ==
    ASSUME NEW s \in Strategy, s.kind = "failover", NEW n \in Nat, n > 0, s.len = n, s.primary < n,
           NEW idx \in Nat
    PROVE  LET r == ReportError(s, idx)
           IN  /\ r.len = n /\ r.primary \in 0..(n - 1)
               /\ r.primary = IF idx = s.primary THEN (idx + 1) % n ELSE s.primary
  <1>1. /\ DOMAIN s = {"kind", "next", "primary", "len", "pinned", "rtts", "picks"}
        /\ s.primary \in Nat /\ s \in Strategy
    BY DEF Strategy
  <1>2. CASE idx = s.primary
    <2>1. ReportError(s, idx) = [s EXCEPT !.primary = (idx + 1) % n]
      BY <1>2 DEF ReportError
    <2>2. ReportError(s, idx).len = n /\ ReportError(s, idx).primary = (idx + 1) % n
      BY <1>1, <2>1
    <2>3. CASE idx + 1 < n
      BY <1>1, <1>2, <2>2, <2>3, ModSmall
    <2>4. CASE idx + 1 = n
      BY <1>1, <1>2, <2>2, <2>4, ModSmall
    <2> QED
      BY <1>1, <1>2, <2>3, <2>4
  <1>3. CASE idx # s.primary
    BY <1>1, <1>3 DEF ReportError
  <1> QED
    BY <1>2, <1>3

\* A caller is past its pick only by its pick.
LEMMA DialingBefore ==
    ASSUME TypeOK, NEW t \in Task, TaskStep(t) \/ TaskCall(t), ~Pick(t),
           PcOf(t)' \in Dialing \ {"metrics_wait", "strategy_wait"}
    PROVE  PcOf(t) \in Dialing \ {"metrics_wait", "strategy_wait"}
  <1>1. tasks \in [Task -> TaskState] /\ DOMAIN tasks[t] = {"pc", "idx", "gen", "be"}
    BY Zenon DEF TypeOK, TaskState
  <1>2. ~(ReportErr(t) \/ CancelDial(t) \/ GuardDropTry(t) \/ GuardDrop(t))
    <2>1. PcOf(t)' # "idle"
      BY DEF Dialing
    <2>2. tasks' # [tasks EXCEPT ![t] = IdleTask]
      BY <1>1, <2>1 DEF PcOf, IdleTask
    <2>3. ~ReportErr(t) /\ ~CancelDial(t)
      BY <2>2, Zenon DEF ReportErr, CancelDial
    <2>4. ~GuardDropTry(t) /\ ~GuardDrop(t)
      BY <2>2, Zenon DEF GuardDropTry, GuardDrop, TryDecrement
    <2> QED
      BY <2>3, <2>4
  <1>3. CASE DialStart(t) \/ PickAcquire(t) \/ DialReturns(t) \/ RecordAcquire(t)
             \/ RecordSuccess(t) \/ RecordError(t) \/ ReportOk(t)
    BY <1>1, <1>3 DEF DialStart, PickAcquire, DialReturns, RecordAcquire, RecordSuccess,
                      RecordError, ReportOk, Goto, PcOf, Dialing
  <1>4. ~GuardDropCheck(t)
    BY <1>1 DEF GuardDropCheck, PcOf, Dialing, IdleTask
  <1> QED
    BY <1>2, <1>3, <1>4 DEF TaskStep, TaskCall

\* A pick tells the strategy the length of the pool, which no step changes while
\* a dial is in progress; a reported error keeps the primary below it.
LEMMA FailoverStep ==
    TypeOK /\ Structure /\ FailoverInv /\ [Next]_vars /\ [NeverShrinks]_vars => FailoverInv'
  <1> SUFFICES ASSUME TypeOK, Structure, FailoverInv, [Next]_vars, [NeverShrinks]_vars
               PROVE  FailoverInv'
    OBVIOUS
  <1> DEFINE Past == Dialing \ {"metrics_wait", "strategy_wait"}
  <1>1. /\ metrics \in Seq(TunnelMetrics) /\ Len(metrics) \in Nat /\ Len(metrics) > 0
        /\ strategy \in Strategy /\ strategy.primary \in Nat
        /\ DOMAIN strategy = {"kind", "next", "primary", "len", "pinned", "rtts", "picks"}
    BY LenProperties DEF TypeOK, Strategy, FailoverInv
  <1>2. ASSUME NEW t \in Task, Pick(t) PROVE FailoverInv'
    <2>1. Len(metrics') = Len(metrics)
      BY <1>2, TaskFrame, Zenon DEF TaskStep
    <2>2. PICK i \in Indices(metrics) : PicksAt(t, i)
      BY <1>2, PickRows
    <2>3. i \in Nat /\ strategy' = AfterPick(strategy, metrics, i)
      BY <1>1, <2>2 DEF PicksAt, PickAt, Indices
    <2>4. strategy'.kind = strategy.kind
      BY <1>1, <2>3, KindKept
    <2>5. strategy.kind = "failover" => strategy' = [strategy EXCEPT !.len = Len(metrics)]
      BY <2>3 DEF AfterPick
    <2>6. strategy.kind = "failover" =>
              strategy'.len = Len(metrics) /\ strategy'.primary = strategy.primary
      BY <1>1, <2>5
    <2> QED
      BY <1>1, <2>1, <2>4, <2>6 DEF FailoverInv
  <1>3. ASSUME NEW t \in Task, TaskStep(t) \/ TaskCall(t), ~Pick(t) PROVE FailoverInv'
    <2>1. Len(metrics') = Len(metrics) /\ \A u \in Task \ {t} : tasks'[u] = tasks[u]
      BY <1>3, TaskFrame
    <2>2. tasks[t].idx \in Nat
      BY DEF TypeOK, TaskState
    <2>3. \/ strategy' = strategy
          \/ ReportErr(t) /\ strategy' = ReportError(strategy, tasks[t].idx)
      BY <1>3, OtherRows, Zenon
    <2>4. \A u \in Task : PcOf(u)' \in Past => PcOf(u) \in Past
      BY <1>3, <2>1, DialingBefore, Zenon DEF PcOf
    <2>5. CASE strategy' = strategy
      BY <1>1, <2>1, <2>4, <2>5, Zenon DEF FailoverInv
    <2>6. CASE ReportErr(t) /\ strategy' = ReportError(strategy, tasks[t].idx)
      <3>1. strategy'.kind = strategy.kind
        BY <1>1, <2>2, <2>6, KindKept
      <3>2. strategy.kind = "failover" => strategy.len = Len(metrics) /\ strategy.primary < Len(metrics)
        <4>1. PcOf(t) \in Past
          BY <2>6 DEF ReportErr, Dialing
        <4> QED
          BY <4>1 DEF FailoverInv
      <3>3. strategy.kind = "failover" =>
                strategy'.len = Len(metrics) /\ strategy'.primary \in 0..(Len(metrics) - 1)
        BY <1>1, <2>2, <2>6, <3>2, ErrorRotates, SMTT(30)
      <3> QED
        BY <1>1, <2>1, <3>1, <3>3 DEF FailoverInv
    <2> QED
      BY <2>3, <2>5, <2>6
  <1>s. ASSUME UNCHANGED <<tasks, strategy, metrics>> PROVE FailoverInv'
    BY <1>s DEF FailoverInv, PcOf
  <1>4. ASSUME AdminStep \/ AdminCall PROVE FailoverInv'
    <2>1. CASE UNCHANGED vars
      BY <1>s, <2>1 DEF vars
    <2>2. CASE ~UNCHANGED vars
      <3>1. Len(metrics') \in Nat /\ Len(metrics') >= Len(metrics)
        <4>1. metrics' \in Seq(TunnelMetrics)
          BY TypeStep DEF TypeOK
        <4> QED
          BY <2>2, <4>1, LenProperties DEF NeverShrinks
      <3>2. \A t \in Task : PcOf(t)' \notin Dialing
        BY <1>4, AdminFrame
      <3>3. strategy' = strategy \/ \E k : strategy' = NewStrategy(k)
        BY <1>4, AdminStrategy DEF SetStrategy, ReplaceStrategy
      <3>4. strategy' = strategy \/ strategy'.primary = 0
        BY <3>3 DEF NewStrategy
      <3>5. strategy'.kind = "failover" => strategy'.primary < Len(metrics')
        BY <1>1, <3>1, <3>4 DEF FailoverInv
      <3> QED
        BY <1>1, <3>1, <3>2, <3>5 DEF FailoverInv
    <2> QED
      BY <2>1, <2>2
  <1>5. ASSUME ReadAcquire \/ ReadRelease \/ Quiet \/ UNCHANGED vars PROVE FailoverInv'
    BY <1>5, <1>s DEF ReadAcquire, ReadRelease, Quiet, vars
  <1> QED
    BY <1>2, <1>3, <1>4, <1>5 DEF Next

\* Only the step that reports its error ends a caller that failed.
LEMMA ReportEnds ==
    ASSUME ~CancelDials, TypeOK, Structure, [Next]_vars, NEW t \in Task,
           PcOf(t) = "err_report", PcOf(t)' = "idle"
    PROVE  ReportErr(t)
  <1>1. ASSUME NEW u \in Task, TaskStep(u) \/ TaskCall(u) PROVE u = t
    BY <1>1, TaskFrame DEF PcOf
  <1>2. ~(AdminStep \/ AdminCall)
    BY AdminFrame DEF PcOf
  <1>3. ~(ReadAcquire \/ ReadRelease \/ Quiet \/ UNCHANGED vars)
    BY DEF ReadAcquire, ReadRelease, Quiet, vars, PcOf
  <1>4. TaskStep(t) \/ TaskCall(t)
    BY <1>1, <1>2, <1>3 DEF Next
  <1> QED
    BY <1>4 DEF TaskStep, TaskCall, PickAcquire, Pick, DialReturns, RecordAcquire, RecordSuccess,
                RecordError, ReportOk, GuardDropTry, DialStart, CancelDial, GuardDrop, GuardDropCheck

\* As long as the pool never shrinks and no dial future is dropped, a dial that
\* failed on the backend Failover routes to sends the next one to the backend after
\* it, and one that failed elsewhere changes nothing: however many dials fail at
\* once and in whatever order they report, they rotate once.
THEOREM FailoverMovesOn ==
    ASSUME ~CancelDials
    PROVE  Spec /\ [][NeverShrinks]_vars => FailoverRotates
  <1>1. Init => FailoverInv
    <2> SUFFICES ASSUME Init PROVE FailoverInv
      OBVIOUS
    <2>1. Len(metrics) = Len(InitBackends) /\ Len(InitBackends) \in Nat /\ Len(InitBackends) > 0
      BY InitAssumption, LenProperties DEF Init
    <2>2. strategy.primary = 0 /\ \A t \in Task : PcOf(t) \notin Dialing
      BY DEF Init, NewStrategy, IdleTask, PcOf, Dialing
    <2> QED
      BY <2>1, <2>2 DEF FailoverInv
  <1> DEFINE Rotates ==
          \A t \in Task :
             PcOf(t) = "err_report" /\ PcOf(t)' = "idle" /\ strategy.kind = "failover" =>
                 FailoverTarget' = IF tasks[t].idx = FailoverTarget
                                   THEN (tasks[t].idx + 1) % Len(metrics) ELSE FailoverTarget
  <1>2. TypeOK /\ Structure /\ FailoverInv /\ [Next]_vars => [Rotates]_vars
    <2> SUFFICES ASSUME TypeOK, Structure, FailoverInv, [Next]_vars, NEW t \in Task,
                        PcOf(t) = "err_report", PcOf(t)' = "idle", strategy.kind = "failover"
                 PROVE  FailoverTarget' = IF tasks[t].idx = FailoverTarget
                                          THEN (tasks[t].idx + 1) % Len(metrics)
                                          ELSE FailoverTarget
      BY Zenon
    <2>1. /\ Len(metrics) \in Nat /\ strategy \in Strategy /\ strategy.primary \in Nat
          /\ tasks[t].idx \in Nat
      BY LenProperties DEF TypeOK, Strategy, TaskState
    <2>2. strategy' = ReportError(strategy, tasks[t].idx) /\ metrics' = metrics
      BY ReportEnds DEF ReportErr
    <2>3. strategy.len = Len(metrics) /\ strategy.primary < Len(metrics) /\ Len(metrics) > 0
      BY DEF FailoverInv, Dialing
    <2>4. FailoverTarget = strategy.primary
      BY <2>1, <2>3, ModSmall DEF FailoverTarget
    <2>5. /\ strategy'.primary \in 0..(Len(metrics) - 1)
          /\ strategy'.primary = IF tasks[t].idx = strategy.primary
                                 THEN (tasks[t].idx + 1) % Len(metrics) ELSE strategy.primary
      BY <2>1, <2>2, <2>3, ErrorRotates, SMTT(30)
    <2>6. FailoverTarget' = strategy'.primary
      BY <2>1, <2>2, <2>5, ModSmall, SMTT(30) DEF FailoverTarget
    <2> QED
      BY <2>4, <2>5, <2>6
  <1>3. Spec /\ [][NeverShrinks]_vars => []FailoverInv
    BY <1>1, TypeCorrect, FailoverStep, PTL DEF Spec
  <1> QED
    BY <1>2, <1>3, TypeCorrect, PTL DEF Spec, FailoverRotates
===============================================================================
