---------------------------- MODULE BalancerProofs ----------------------------
(* The safety invariants of Balancer: types, the pool, the owners of backends; *)
(* and what its steps do to the metrics, for the proofs built on this one.     *)
EXTENDS Balancer, SharedFacts, FiniteSetTheorems

\* Every change the balancer makes to a metrics row keeps its type.
LEMMA RowTypes ==
    ASSUME NEW m \in TunnelMetrics
    PROVE  {Picked(m), Succeeded(m), Failed(m), Dropped(m), Drained(m), Undrained(m)}
               \subseteq TunnelMetrics
  <1>1. /\ m.active_connections \in Nat /\ m.recent_errors \in 0..U32Max
        /\ m.total_dials \in Nat /\ m.total_errors \in Nat
    BY DEF TunnelMetrics
  <1>2. SatSub(m.active_connections) \in Nat
    BY <1>1 DEF SatSub
  <1>3. (IF m.recent_errors < U32Max THEN m.recent_errors + 1 ELSE m.recent_errors) \in 0..U32Max
    BY <1>1, U32MaxAssumption
  <1>4. U32Max \in 0..U32Max /\ 0 \in 0..U32Max
    BY U32MaxAssumption
  <1>5. Picked(m) \in TunnelMetrics
    <2>1. m.active_connections + 1 \in Nat /\ m.total_dials + 1 \in Nat
      BY <1>1
    <2> QED
      BY <2>1, Zenon DEF Picked, TunnelMetrics
  <1>6. Succeeded(m) \in TunnelMetrics
    BY <1>4 DEF Succeeded, TunnelMetrics
  <1>7. Failed(m) \in TunnelMetrics
    <2>1. m.total_errors + 1 \in Nat
      BY <1>1
    <2> DEFINE e == IF m.recent_errors < U32Max THEN m.recent_errors + 1 ELSE m.recent_errors
               a == SatSub(m.active_connections)
    <2>2. Failed(m) = [m EXCEPT !.active_connections = a, !.recent_errors = e,
                                !.total_errors = m.total_errors + 1]
      BY DEF Failed
    <2>3. a \in Nat /\ e \in 0..U32Max
      BY <1>2, <1>3
    <2> HIDE DEF a, e
    <2> QED
      BY <2>1, <2>2, <2>3, Zenon DEF TunnelMetrics
  <1>8. Dropped(m) \in TunnelMetrics
    BY <1>2 DEF Dropped, TunnelMetrics
  <1>9. Drained(m) \in TunnelMetrics /\ Undrained(m) \in TunnelMetrics
    BY <1>1, <1>4 DEF Drained, Undrained, TunnelMetrics
  <1> QED
    BY <1>5, <1>6, <1>7, <1>8, <1>9

\* metrics.get_mut(idx) never changes the length or the other rows.
LEMMA UpdateTypes ==
    ASSUME metrics \in Seq(TunnelMetrics), NEW idx \in Nat,
           NEW new \in {Update(idx, Succeeded), Update(idx, Failed), Update(idx, Dropped),
                        Update(idx, Drained), Update(idx, Undrained)}
    PROVE  new \in Seq(TunnelMetrics) /\ Len(new) = Len(metrics)
  <1>1. CASE idx < Len(metrics)
    <2>1. idx + 1 \in 1..Len(metrics) /\ metrics[idx + 1] \in TunnelMetrics
      BY <1>1, LenProperties, ElementOfSeq
    <2>2. \E row \in TunnelMetrics : new = [metrics EXCEPT ![idx + 1] = row]
      BY <1>1, <2>1, RowTypes DEF Update
    <2> QED
      BY <2>1, <2>2, ExceptSeq
  <1>2. CASE ~(idx < Len(metrics))
    BY <1>2 DEF Update
  <1> QED
    BY <1>1, <1>2
-----------------------------------------------------------------------------
(* Type correctness, in every mode.                                        *)

\* The awaits each admin operation passes through.
PhaseOK ==
    \/ admin.op \in {"none", "closed", "panicked"} /\ admin.at = "none"
    \/ admin.op \in {"add", "drain", "undrain"} /\ admin.at \in {"wait", "locked"}
    \/ admin.op = "remove" /\ admin.at \in {"wait", "locked", "down"}
    \/ admin.op = "replace" /\ admin.at \in {"down", "wait", "locked", "strategy"}
    \/ admin.op = "shutdown" /\ admin.at = "down"

\* replace_backends and shutdown take every backend out at once.
PoolEmptied == \/ admin.op = "replace" /\ admin.at # "strategy"
               \/ admin.op \in {"shutdown", "closed"}

\* What borrowing guarantees: a dial sees a pool that is not empty and has a
\* metrics row for every backend.  Len(metrics) may exceed Len(backends) once
\* an admin future has been dropped halfway.
Structure ==
    /\ PhaseOK
    /\ admin.op # "panicked"
    /\ admin.op # "none" => \A t \in Task : PcOf(t) \notin Dialing
    /\ \A t \in Task : PcOf(t) \in Dialing => backends # <<>>
    /\ PoolEmptied => backends = <<>>
    /\ Len(backends) + (IF RemovePending THEN 1 ELSE 0) <= Len(metrics)
    /\ RemovePending => admin.index <= Len(backends)
    /\ Len(backends) <= Len(ids)
    /\ admin.op = "add" => Len(admin.incoming) = 1
    /\ admin.op = "replace" /\ admin.at \in {"wait", "locked"} => Len(ids) = Len(admin.incoming)
    /\ admin.op = "replace" /\ admin.at = "strategy" => admin.kind # NoKind

\* Changing one field of the admin record.
LEMMA AdminFields ==
    ASSUME NEW a \in AdminState
    PROVE  /\ \A at \in AdminAt : [a EXCEPT !.at = at] \in AdminState
           /\ \A i \in Nat : [a EXCEPT !.index = i] \in AdminState
           /\ \A id \in Ids : [a EXCEPT !.id = id] \in AdminState
           /\ \A s \in Seq(Backend) : /\ [a EXCEPT !.incoming = s] \in AdminState
                                     /\ [a EXCEPT !.leaving = s] \in AdminState
           /\ \A k \in Kind \cup {NoKind} : [a EXCEPT !.kind = k] \in AdminState
  BY Zenon DEF AdminState

\* LoadBalancer::new builds vectors of the right types.
LEMMA InitType == Init => TypeOK
  <1> SUFFICES ASSUME Init PROVE TypeOK
    OBVIOUS
  <1>1. Len(InitBackends) \in Nat /\ InitBackends \in Seq(Backend)
    BY InitAssumption, LenProperties
  <1>2. ids \in Seq(Ids)
    BY <1>1 DEF Init, Ids
  <1>3. metrics \in Seq(TunnelMetrics)
    <2>1. PICK r \in [1..Len(InitBackends) -> InitRtts] :
            metrics = [i \in 1..Len(InitBackends) |-> [DefaultMetrics EXCEPT !.rtt = r[i]]]
      BY DEF Init
    <2>2. \A i \in 1..Len(InitBackends) : [DefaultMetrics EXCEPT !.rtt = r[i]] \in TunnelMetrics
      BY InitAssumption, U32MaxAssumption DEF DefaultMetrics, TunnelMetrics
    <2> QED
      BY <1>1, <2>1, <2>2
  <1>4. strategy \in Strategy
    BY InitAssumption, NewStrategyType DEF Init
  <1>5. tasks \in [Task -> TaskState]
    BY DEF Init, IdleTask, TaskState, TaskPc
  <1>6. admin \in AdminState
    BY DEF Init, IdleAdmin, AdminState, AdminOp, AdminAt, Ids
  <1>7. fate \in [Backend -> Fate]
    BY DEF Init, Fate
  <1> QED
    BY <1>1, <1>2, <1>3, <1>4, <1>5, <1>6, <1>7 DEF Init, TypeOK

\* Every await-to-await step of a dial, a guard, an admin operation or a reader
\* keeps the types.
LEMMA TypeStep == TypeOK /\ Structure /\ [Next]_vars => TypeOK'
  <1> SUFFICES ASSUME TypeOK, Structure, [Next]_vars PROVE TypeOK'
    OBVIOUS
  <1>l. Len(backends) \in Nat /\ Len(metrics) \in Nat /\ Len(ids) \in Nat
    BY LenProperties DEF TypeOK
  <1>i. IdleTask \in TaskState /\ IdleAdmin \in AdminState
    BY DEF IdleTask, TaskState, TaskPc, IdleAdmin, AdminState, AdminOp, AdminAt, Ids
  <1>t. ASSUME NEW t \in Task, TaskStep(t) \/ TaskCall(t) PROVE TypeOK'
    <2>1. tasks[t] \in TaskState /\ tasks[t].idx \in Nat
      BY DEF TypeOK, TaskState
    <2>2. ASSUME NEW pc \in TaskPc, Goto(t, pc) PROVE tasks' \in [Task -> TaskState]
      BY <2>2, Zenon DEF Goto, TypeOK, TaskState
    <2>3. CASE DialStart(t)
      BY <2>2, <2>3 DEF DialStart, TypeOK, TaskPc, Dialing
    <2>4. CASE PickAcquire(t)
      BY <2>2, <2>4 DEF PickAcquire, TypeOK, TaskPc, Dialing
    <2>5. CASE Pick(t)
      <3>1. Len(metrics) > 0
        BY <1>l, <2>5 DEF Pick, Structure, TypeOK, Dialing
      <3>2. PICK i \in Indices(metrics) : PickAt(t, i)
        BY <2>5, <3>1, PickInRange DEF Pick, TypeOK
      <3>3. i \in 0..(Len(metrics) - 1)
        BY DEF Indices
      <3>4. strategy' \in Strategy
        BY <3>2, <3>3, <1>l, AfterPickType DEF PickAt, TypeOK
      <3>5. metrics' \in Seq(TunnelMetrics)
        <4>1. i + 1 \in 1..Len(metrics)
          BY <1>l, <3>3
        <4>2. Picked(metrics[i + 1]) \in TunnelMetrics
          BY <4>1, ElementOfSeq, RowTypes DEF PickAt, TypeOK
        <4> QED
          BY <3>2, <4>1, <4>2, ExceptSeq DEF PickAt, TypeOK
      <3>6. tasks' \in [Task -> TaskState]
        <4>1. CASE i < Len(backends)
          <5>1. backends[i + 1] \in Backend
            BY <1>l, <3>3, <4>1, ElementOfSeq DEF PickAt, TypeOK
          <5> QED
            BY <1>l, <3>2, <3>3, <4>1, <5>1 DEF PickAt, TypeOK, TaskState, TaskPc, Dialing
        <4>2. CASE ~(i < Len(backends))
          BY <3>2, <4>2 DEF PickAt, TypeOK, IdleTask, TaskState, TaskPc
        <4> QED
          BY <4>1, <4>2
      <3> QED
        BY <3>2, <3>4, <3>5, <3>6 DEF PickAt, TypeOK
    <2>6. CASE DialReturns(t)
      BY <2>2, <2>6 DEF DialReturns, TypeOK, TaskPc, Dialing
    <2>7. CASE RecordAcquire(t)
      BY <2>2, <2>7 DEF RecordAcquire, TypeOK, TaskPc, Dialing
    <2>8. CASE RecordSuccess(t)
      BY <2>1, <2>2, <2>8, UpdateTypes DEF RecordSuccess, TypeOK, TaskPc, Dialing
    <2>9. CASE RecordError(t)
      BY <2>1, <2>2, <2>9, UpdateTypes DEF RecordError, TypeOK, TaskPc, Dialing
    <2>10. CASE ReportOk(t)
      BY <2>2, <2>10 DEF ReportOk, ReportSuccess, TypeOK, TaskPc, Dialing
    <2>11. CASE ReportErr(t)
      BY <1>i, <2>1, <2>11, ReportErrorType DEF ReportErr, TypeOK
    <2>12. ASSUME TryDecrement(t) PROVE metrics' \in Seq(TunnelMetrics) /\ tasks' \in [Task -> TaskState]
      BY <1>i, <2>1, <2>12, UpdateTypes DEF TryDecrement, TypeOK
    <2>13. CASE GuardDropTry(t)
      BY <2>12, <2>13 DEF GuardDropTry, TypeOK
    <2>14. CASE CancelDial(t)
      BY <1>i, <2>14 DEF CancelDial, TypeOK
    <2>15. CASE GuardDrop(t)
      BY <1>i, <2>12, <2>15 DEF GuardDrop, TypeOK
    <2>16. CASE GuardDropCheck(t)
      BY <1>i, <2>16, Zenon DEF GuardDropCheck, TypeOK, TaskState, TaskPc
    <2> QED
      BY <1>t, <2>3, <2>4, <2>5, <2>6, <2>7, <2>8, <2>9, <2>10, <2>11, <2>13, <2>14, <2>15, <2>16
         DEF TaskStep, TaskCall
  <1>a. ASSUME AdminStep \/ AdminCall PROVE TypeOK'
    <2>1. admin \in AdminState /\ admin.index \in Nat /\ admin.id \in Ids
          /\ admin.incoming \in Seq(Backend) /\ admin.leaving \in Seq(Backend)
          /\ admin.kind \in Kind \cup {NoKind} /\ Len(admin.incoming) \in Nat
      BY LenProperties DEF TypeOK, AdminState
    <2>2. \A op \in AdminOp, at \in AdminAt : Begin(op, at) \in AdminState
      BY <1>i, Zenon DEF Begin, AdminState
    <2>3. DefaultMetrics \in TunnelMetrics /\ NoId \in Ids
      BY U32MaxAssumption DEF DefaultMetrics, TunnelMetrics, Rtt, Ids
    <2>4. CASE AdminAcquire
      BY <2>1, <2>4, Zenon DEF AdminAcquire, TypeOK, AdminState, AdminAt
    <2>5. CASE AddCommit
      <3>1. backends \o admin.incoming \in Seq(Backend)
        BY <2>1, ConcatProperties DEF TypeOK
      <3>2. Append(ids, admin.id) \in Seq(Ids) /\ Append(metrics, DefaultMetrics) \in Seq(TunnelMetrics)
        BY <2>1, <2>3, AppendProperties DEF TypeOK
      <3> QED
        BY <1>i, <2>5, <3>1, <3>2 DEF AddCommit, TypeOK
    <2>6. CASE RemoveCommit
      <3>1. admin.index < Len(metrics) => RemoveAt(metrics, admin.index + 1) \in Seq(TunnelMetrics)
        BY <1>l, <2>1, RemoveAtProperties DEF TypeOK
      <3>2. admin' \in AdminState
        BY <2>1, <2>2, <2>6, AdminFields, Zenon DEF RemoveCommit, AdminAt, AdminOp
      <3> QED
        BY <2>6, <3>1, <3>2 DEF RemoveCommit, TypeOK
    <2>7. CASE BackendShutdown
      <3>1. Tail(admin.leaving) \in Seq(Backend)
        BY <2>1, <2>7, HeadTailProperties DEF BackendShutdown
      <3>2. admin' \in AdminState
        BY <2>1, <2>7, <3>1, Zenon DEF BackendShutdown, AdminState
      <3>3. fate' \in [Backend -> Fate]
        BY <2>7, Zenon DEF BackendShutdown, TypeOK, Fate
      <3> QED
        BY <2>7, <3>2, <3>3 DEF BackendShutdown, TypeOK
    <2>8. CASE RemoveEnd
      BY <1>i, <2>8 DEF RemoveEnd, TypeOK
    <2>9. CASE ReplaceIds
      <3>1. [i \in 1..Len(admin.incoming) |-> NoId] \in Seq(Ids)
        BY <2>1, <2>3
      <3> QED
        BY <2>1, <2>9, <3>1, Zenon DEF ReplaceIds, TypeOK, AdminState, AdminAt
    <2>10. CASE ReplaceCommit
      <3>1. [i \in 1..Len(admin.incoming) |-> DefaultMetrics] \in Seq(TunnelMetrics)
        BY <2>1, <2>3
      <3>2. admin' \in AdminState
        <4>1. <<>> \in Seq(Backend) /\ "strategy" \in AdminAt
          BY DEF AdminAt
        <4>2. [admin EXCEPT !.at = "strategy", !.incoming = <<>>] \in AdminState
          BY <2>1, <4>1, AdminFields, Zenon
        <4> QED
          BY <1>i, <2>10, <4>2 DEF ReplaceCommit
      <3> QED
        BY <2>1, <2>10, <3>1, <3>2 DEF ReplaceCommit, TypeOK
    <2>11. CASE ReplaceStrategy
      <3>1. admin.kind \in Kind
        BY <2>1, <2>11 DEF ReplaceStrategy, Structure
      <3> QED
        BY <1>i, <2>11, <3>1, NewStrategyType DEF ReplaceStrategy, TypeOK
    <2>12. CASE DrainCommit
      <3>1. metrics' \in Seq(TunnelMetrics)
        BY <2>1, <2>12, UpdateTypes DEF DrainCommit, TypeOK
      <3> QED
        BY <1>i, <2>12, <3>1 DEF DrainCommit, TypeOK
    <2>13. CASE ShutdownEnd
      BY <2>2, <2>13 DEF ShutdownEnd, TypeOK, AdminOp, AdminAt
    <2>14. ASSUME NEW b \in Backend, NEW id \in Ids, AddStart(b, id) PROVE TypeOK'
      <3>1. admin' \in AdminState
        <4>1. <<b>> \in Seq(Backend)
          OBVIOUS
        <4> QED
          BY <2>2, <2>14, <4>1, AdminFields, Zenon DEF AddStart, AdminOp, AdminAt
      <3> QED
        BY <2>14, <3>1 DEF AddStart, TypeOK, Fate
    <2>15. ASSUME NEW i \in Nat, RemoveBackend(i) PROVE TypeOK'
      <3>1. i + 1 \in 1..Len(backends)
        BY <1>l, <2>15 DEF RemoveBackend
      <3>2. backends' \in Seq(Backend)
        BY <2>15, <3>1, RemoveAtProperties DEF RemoveBackend, TypeOK
      <3>3. ids' \in Seq(Ids)
        BY <1>l, <2>15, <3>1, RemoveAtProperties DEF RemoveBackend, TypeOK, Structure
      <3>4. admin' \in AdminState
        <4>1. <<backends[i + 1]>> \in Seq(Backend)
          BY <3>1, ElementOfSeq DEF TypeOK
        <4> QED
          BY <2>2, <2>15, <4>1, AdminFields, Zenon DEF RemoveBackend, AdminOp, AdminAt
      <3> QED
        BY <2>15, <3>2, <3>3, <3>4 DEF RemoveBackend, TypeOK
    <2>16. ASSUME NEW new \in Seq(Backend), NEW k \in Kind \cup {NoKind}, ReplaceStart(new, k)
           PROVE  TypeOK'
      <3>1. admin' \in AdminState
        BY <2>2, <2>16, AdminFields, Zenon DEF ReplaceStart, TypeOK, AdminOp, AdminAt
      <3> QED
        BY <2>16, <3>1 DEF ReplaceStart, TypeOK, Fate
    <2>17. ASSUME NEW i \in Nat, DrainStart(i) \/ UndrainStart(i) PROVE TypeOK'
      <3>1. admin' \in AdminState
        <4>1. Begin("drain", "wait") \in AdminState /\ Begin("undrain", "wait") \in AdminState
          BY <2>2 DEF AdminOp, AdminAt
        <4>2. admin' \in {[Begin("drain", "wait") EXCEPT !.index = i],
                          [Begin("undrain", "wait") EXCEPT !.index = i]}
          BY <2>17 DEF DrainStart, UndrainStart
        <4> QED
          BY <4>1, <4>2, AdminFields
      <3> QED
        BY <2>17, <3>1 DEF DrainStart, UndrainStart, TypeOK
    <2>18. ASSUME NEW k \in NewKinds, SetStrategy(k) PROVE TypeOK'
      BY <2>18, InitAssumption, NewStrategyType DEF SetStrategy, TypeOK
    <2>19. CASE ShutdownStart
      <3>1. admin' \in AdminState
        BY <2>2, <2>19, AdminFields, Zenon DEF ShutdownStart, AdminOp, AdminAt, TypeOK
      <3> QED
        BY <2>19, <3>1 DEF ShutdownStart, TypeOK
    <2>20. CASE CancelAdmin
      BY <1>i, <2>2, <2>20 DEF CancelAdmin, TypeOK, AdminOp, AdminAt, Fate
    <2>21. ASSUME AdminCall PROVE TypeOK'
      <3>1. \A b \in Backend : RemoveBackendByPtr(b) \/ RemoveBackendById(IdOf[b]) => TypeOK'
        <4>1. \A i \in 1..Len(backends) : RemoveBackend(i - 1) => TypeOK'
          BY <1>l, <2>15
        <4>2. \A i \in 1..Len(ids) : RemoveBackend(i - 1) => TypeOK'
          BY <1>l, <2>15
        <4> QED
          BY <4>1, <4>2 DEF RemoveBackendByPtr, RemoveBackendById
      <3>2. \A n \in 1..MaxPool : \A new \in [1..n -> Backend] : new \in Seq(Backend)
        BY BoundAssumption
      <3>3. \A i \in 0..(MaxPool - 1) : i \in Nat
        BY BoundAssumption
      <3>4. NewKinds \subseteq Kind
        BY InitAssumption
      <3> QED
        BY <2>21, <2>14, <2>15, <2>16, <2>17, <2>18, <2>19, <2>20, <3>1, <3>2, <3>3, <3>4 DEF AdminCall
    <2> QED
      BY <1>a, <2>4, <2>5, <2>6, <2>7, <2>8, <2>9, <2>10, <2>11, <2>12, <2>13, <2>21 DEF AdminStep
  <1>r. ASSUME ReadAcquire \/ ReadRelease \/ Quiet \/ UNCHANGED vars PROVE TypeOK'
    BY <1>r DEF ReadAcquire, ReadRelease, Quiet, vars, TypeOK
  <1> QED
    BY <1>t, <1>a, <1>r DEF Next

\* A new balancer has one row and one id per backend and nobody inside it.
LEMMA InitStructure == Init => Structure
  <1> SUFFICES ASSUME Init PROVE Structure
    OBVIOUS
  <1>1. Len(backends) \in Nat /\ Len(metrics) = Len(backends) /\ Len(ids) = Len(backends)
    BY InitAssumption, LenProperties DEF Init
  <1> QED
    BY <1>1 DEF Init, Structure, PhaseOK, IdleAdmin, IdleTask, PoolEmptied, RemovePending, PcOf, Dialing

\* The steps of a dial and of a guard move their own task only, and change
\* neither the pool nor the number of metrics rows.
LEMMA TaskFrame ==
    ASSUME TypeOK, Structure, NEW t \in Task, TaskStep(t) \/ TaskCall(t)
    PROVE  /\ UNCHANGED <<backends, ids, generation, admin, fate>>
           /\ metrics' \in Seq(TunnelMetrics) /\ Len(metrics') = Len(metrics)
           /\ \A u \in Task \ {t} : tasks'[u] = tasks[u]
           /\ PcOf(t)' \in Dialing => PcOf(t) \in Dialing \/ DialStart(t)
  <1>1. tasks[t] \in TaskState /\ tasks[t].idx \in Nat /\ tasks \in [Task -> TaskState]
    BY DEF TypeOK, TaskState
  <1>2. metrics \in Seq(TunnelMetrics) /\ Len(metrics) \in Nat
    BY LenProperties DEF TypeOK
  <1>3. CASE DialStart(t)
    BY <1>1, <1>2, <1>3 DEF DialStart, Goto, PcOf
  <1>4. CASE PickAcquire(t)
    BY <1>1, <1>2, <1>4 DEF PickAcquire, Goto, PcOf, Dialing
  <1>5. CASE Pick(t)
    <2>1. Len(metrics) > 0
      BY <1>2, <1>5, LenProperties DEF Pick, Structure, TypeOK, Dialing
    <2>2. PICK i \in Indices(metrics) : PickAt(t, i)
      BY <1>5, <2>1, PickInRange DEF Pick, TypeOK
    <2>3. i + 1 \in 1..Len(metrics) /\ Picked(metrics[i + 1]) \in TunnelMetrics
      BY <1>2, ElementOfSeq, RowTypes DEF Indices
    <2>4. metrics' \in Seq(TunnelMetrics) /\ Len(metrics') = Len(metrics)
      BY <1>2, <2>2, <2>3, ExceptSeq DEF PickAt
    <2> QED
      BY <1>1, <1>5, <2>2, <2>4 DEF Pick, PickAt, PcOf, Dialing
  <1>6. CASE DialReturns(t)
    BY <1>1, <1>2, <1>6 DEF DialReturns, Goto, PcOf, Dialing
  <1>7. CASE RecordAcquire(t)
    BY <1>1, <1>2, <1>7 DEF RecordAcquire, Goto, PcOf, Dialing
  <1>8. CASE RecordSuccess(t) \/ RecordError(t)
    BY <1>1, <1>2, <1>8, UpdateTypes DEF RecordSuccess, RecordError, Goto, PcOf, Dialing
  <1>9. CASE ReportOk(t) \/ ReportErr(t)
    BY <1>1, <1>2, <1>9 DEF ReportOk, ReportErr, Goto, PcOf, Dialing, IdleTask
  <1>10. ASSUME TryDecrement(t)
         PROVE  /\ metrics' \in Seq(TunnelMetrics) /\ Len(metrics') = Len(metrics)
                /\ tasks' = [tasks EXCEPT ![t] = IdleTask]
    BY <1>1, <1>2, <1>10, UpdateTypes DEF TryDecrement
  <1>11. CASE GuardDropTry(t)
    BY <1>1, <1>10, <1>11 DEF GuardDropTry, PcOf, Dialing, IdleTask
  <1>12. CASE GuardDrop(t)
    BY <1>1, <1>2, <1>10, <1>12 DEF GuardDrop, PcOf, Dialing, IdleTask
  <1>13. CASE GuardDropCheck(t)
    BY <1>1, <1>2, <1>13 DEF GuardDropCheck, PcOf, Dialing, IdleTask
  <1>14. CASE CancelDial(t)
    BY <1>1, <1>2, <1>14 DEF CancelDial, PcOf, Dialing, IdleTask
  <1> QED
    BY <1>3, <1>4, <1>5, <1>6, <1>7, <1>8, <1>9, <1>11, <1>12, <1>13, <1>14, Zenon DEF TaskStep, TaskCall

\* &mut self: an admin operation moves no caller and finds none in a dial.
LEMMA AdminFrame ==
    ASSUME TypeOK, Structure, AdminStep \/ AdminCall
    PROVE  /\ UNCHANGED tasks
           /\ \A t \in Task : PcOf(t) \notin Dialing /\ PcOf(t)' \notin Dialing
  <1>1. UNCHANGED tasks
    BY Zenon DEF AdminStep, AdminCall, AdminAcquire, AddCommit, RemoveCommit, BackendShutdown,
           RemoveEnd, ReplaceIds, ReplaceCommit, ReplaceStrategy, DrainCommit, ShutdownEnd, AddStart,
           RemoveBackend, RemoveBackendByPtr, RemoveBackendById, ReplaceStart, DrainStart,
           UndrainStart, SetStrategy, ShutdownStart, CancelAdmin
  <1>2. admin.op # "none" \/ LbExclusive
    BY Zenon DEF AdminStep, AdminCall, AdminAcquire, AddCommit, RemoveCommit, BackendShutdown,
           RemoveEnd, ReplaceIds, ReplaceCommit, ReplaceStrategy, DrainCommit, ShutdownEnd, AddStart,
           RemoveBackend, RemoveBackendByPtr, RemoveBackendById, ReplaceStart, DrainStart,
           UndrainStart, SetStrategy, ShutdownStart, CancelAdmin, Structure, PhaseOK
  <1> QED
    BY <1>1, <1>2 DEF LbExclusive, Structure, PcOf

\* Every step keeps what the borrow rules and the order of the awaits guarantee.
LEMMA StructureStep == TypeOK /\ Structure /\ [Next]_vars => Structure'
  <1> SUFFICES ASSUME TypeOK, Structure, [Next]_vars PROVE Structure'
    OBVIOUS
  <1>l. Len(backends) \in Nat /\ Len(metrics) \in Nat /\ Len(ids) \in Nat
    BY LenProperties DEF TypeOK
  <1>m. /\ admin.index \in Nat /\ admin.incoming \in Seq(Backend) /\ admin.leaving \in Seq(Backend)
        /\ Len(admin.incoming) \in Nat
    BY LenProperties DEF TypeOK, AdminState
  <1>n. DOMAIN admin = {"op", "at", "index", "id", "incoming", "leaving", "kind"}
    BY DEF TypeOK, AdminState
  <1>t. ASSUME NEW t \in Task, TaskStep(t) \/ TaskCall(t) PROVE Structure'
    <2>1. /\ UNCHANGED <<backends, ids, generation, admin, fate>>
          /\ metrics' \in Seq(TunnelMetrics) /\ Len(metrics') = Len(metrics)
          /\ \A u \in Task \ {t} : tasks'[u] = tasks[u]
          /\ PcOf(t)' \in Dialing => PcOf(t) \in Dialing \/ DialStart(t)
      BY <1>t, TaskFrame
    <2>2. DialStart(t) => backends # <<>> /\ admin.op = "none"
      BY DEF DialStart
    <2> QED
      BY <2>1, <2>2 DEF Structure, PhaseOK, PoolEmptied, RemovePending, PcOf
  <1>a. ASSUME AdminStep \/ AdminCall PROVE Structure'
    <2>2. \A t \in Task : PcOf(t) \notin Dialing /\ PcOf(t)' \notin Dialing
      BY <1>a, AdminFrame
    <2>4. CASE AdminAcquire
      BY <1>n, <2>2, <2>4 DEF AdminAcquire, Structure, PhaseOK, PoolEmptied, RemovePending
    <2>5. CASE AddCommit
      <3>1. Len(backends') = Len(backends) + 1
        <4>1. /\ backends \in Seq(Backend) /\ admin.incoming \in Seq(Backend)
              /\ Len(admin.incoming) = 1 /\ backends' = backends \o admin.incoming
          BY <1>m, <2>5 DEF AddCommit, TypeOK, Structure
        <4>2. Len(backends \o admin.incoming) = Len(backends) + Len(admin.incoming)
          BY <4>1, ConcatProperties, Zenon
        <4> QED
          BY <4>1, <4>2
      <3>2. Len(ids') = Len(ids) + 1 /\ Len(metrics') = Len(metrics) + 1
        BY <1>l, <2>5, AppendProperties DEF AddCommit, TypeOK
      <3>3. Len(backends) <= Len(metrics) /\ Len(backends) <= Len(ids)
        BY <1>l, <2>5 DEF AddCommit, Structure, RemovePending
      <3> QED
        BY <1>l, <2>2, <2>5, <3>1, <3>2, <3>3 DEF AddCommit, Structure, PhaseOK, PoolEmptied, RemovePending, IdleAdmin
    <2>6. CASE RemoveCommit
      <3>1. admin.index < Len(metrics) /\ admin.index + 1 \in 1..Len(metrics)
        BY <1>l, <1>m, <2>6 DEF RemoveCommit, Structure, RemovePending
      <3>2. Len(metrics') = Len(metrics) - 1 /\ admin' = [admin EXCEPT !.at = "down"]
        BY <2>6, <3>1, RemoveAtProperties DEF RemoveCommit, TypeOK
      <3> QED
        BY <1>l, <1>n, <2>2, <2>6, <3>2 DEF RemoveCommit, Structure, PhaseOK, PoolEmptied, RemovePending
    <2>7. CASE BackendShutdown
      BY <1>l, <1>n, <2>2, <2>7 DEF BackendShutdown, Structure, PhaseOK, PoolEmptied, RemovePending
    <2>8. CASE RemoveEnd
      BY <1>l, <2>2, <2>8 DEF RemoveEnd, IdleAdmin, Structure, PhaseOK, PoolEmptied, RemovePending
    <2>9. CASE ReplaceIds
      <3>1. Len(ids') = Len(admin.incoming) /\ backends = <<>>
        BY <1>m, <2>9 DEF ReplaceIds, Structure, PoolEmptied
      <3> QED
        BY <1>l, <1>m, <1>n, <2>2, <2>9, <3>1 DEF ReplaceIds, Structure, PhaseOK, PoolEmptied, RemovePending
    <2>10. CASE ReplaceCommit
      <3>1. Len(metrics') = Len(admin.incoming) /\ Len(ids) = Len(admin.incoming)
        BY <1>m, <2>10 DEF ReplaceCommit, Structure
      <3>2. \/ admin' = IdleAdmin
            \/ admin.kind # NoKind /\ admin'.op = "replace" /\ admin'.at = "strategy"
               /\ admin'.kind = admin.kind
        BY <1>n, <2>10 DEF ReplaceCommit
      <3> QED
        BY <1>l, <1>m, <2>2, <2>10, <3>1, <3>2 DEF ReplaceCommit, IdleAdmin, Structure, PhaseOK, PoolEmptied, RemovePending
    <2>11. CASE ReplaceStrategy
      BY <1>l, <2>2, <2>11 DEF ReplaceStrategy, IdleAdmin, Structure, PhaseOK, PoolEmptied, RemovePending
    <2>12. CASE DrainCommit
      <3>1. Len(metrics') = Len(metrics)
        BY <1>m, <2>12, UpdateTypes DEF DrainCommit, TypeOK
      <3> QED
        BY <1>l, <2>2, <2>12, <3>1 DEF DrainCommit, IdleAdmin, Structure, PhaseOK, PoolEmptied, RemovePending
    <2>13. CASE ShutdownEnd
      BY <1>l, <2>2, <2>13 DEF ShutdownEnd, Begin, IdleAdmin, Structure, PhaseOK, PoolEmptied, RemovePending
    <2>14. ASSUME NEW b \in Backend, NEW id \in Ids, AddStart(b, id) PROVE Structure'
      <3>1. admin'.op = "add" /\ admin'.at = "wait" /\ Len(admin'.incoming) = 1
        BY <2>14 DEF AddStart, Begin, IdleAdmin
      <3> QED
        BY <1>l, <2>2, <2>14, <3>1 DEF AddStart, LbExclusive, Structure, PhaseOK, PoolEmptied, RemovePending
    <2>15. ASSUME NEW i \in Nat, RemoveBackend(i) PROVE Structure'
      <3>1. admin'.op = "remove" /\ admin'.at = "wait" /\ admin'.index = i
        BY <2>15 DEF RemoveBackend, Begin, IdleAdmin
      <3>2. i + 1 \in 1..Len(backends) /\ i + 1 \in 1..Len(ids)
        BY <1>l, <2>15 DEF RemoveBackend, Structure
      <3>3. Len(backends') = Len(backends) - 1 /\ Len(ids') = Len(ids) - 1
        BY <2>15, <3>2, RemoveAtProperties DEF RemoveBackend, TypeOK
      <3> QED
        BY <1>l, <2>2, <2>15, <3>1, <3>2, <3>3 DEF RemoveBackend, LbExclusive, Structure, PhaseOK, PoolEmptied, RemovePending
    <2>16. ASSUME NEW new \in Seq(Backend), NEW k \in Kind \cup {NoKind}, ReplaceStart(new, k)
           PROVE  Structure'
      <3>1. admin'.op = "replace" /\ admin'.at = "down"
        BY <2>16 DEF ReplaceStart, Begin, IdleAdmin
      <3> QED
        BY <1>l, <2>2, <2>16, <3>1 DEF ReplaceStart, LbExclusive, Structure, PhaseOK, PoolEmptied, RemovePending
    <2>17. ASSUME NEW i \in Nat, DrainStart(i) \/ UndrainStart(i) PROVE Structure'
      <3>1. admin'.op \in {"drain", "undrain"} /\ admin'.at = "wait"
        BY <2>17, Zenon DEF DrainStart, UndrainStart, Begin, IdleAdmin
      <3> QED
        BY <1>l, <2>2, <2>17, <3>1 DEF DrainStart, UndrainStart, LbExclusive, Structure, PhaseOK, PoolEmptied, RemovePending
    <2>18. ASSUME NEW k \in NewKinds, SetStrategy(k) PROVE Structure'
      BY <1>l, <2>2, <2>18 DEF SetStrategy, LbExclusive, Structure, PhaseOK, PoolEmptied, RemovePending
    <2>19. CASE ShutdownStart
      <3>1. admin'.op = "shutdown" /\ admin'.at = "down"
        BY <2>19 DEF ShutdownStart, Begin, IdleAdmin
      <3> QED
        BY <1>l, <2>2, <2>19, <3>1 DEF ShutdownStart, LbExclusive, Structure, PhaseOK, PoolEmptied, RemovePending
    <2>20. CASE CancelAdmin
      <3>1. CASE admin.op = "shutdown"
        BY <1>l, <2>2, <2>20, <3>1 DEF CancelAdmin, Begin, IdleAdmin, Structure, PhaseOK, PoolEmptied, RemovePending
      <3>2. CASE admin.op # "shutdown"
        BY <1>l, <2>2, <2>20, <3>2, SMTT(30) DEF CancelAdmin, IdleAdmin, Structure, PhaseOK, PoolEmptied, RemovePending
      <3> QED
        BY <3>1, <3>2
    <2>21. ASSUME AdminCall PROVE Structure'
      <3>1. \A b \in Backend : RemoveBackendByPtr(b) \/ RemoveBackendById(IdOf[b]) => Structure'
        <4>1. \A i \in 1..Len(backends) : RemoveBackend(i - 1) => Structure'
          BY <1>l, <2>15
        <4>2. \A i \in 1..Len(ids) : RemoveBackend(i - 1) => Structure'
          BY <1>l, <2>15
        <4> QED
          BY <4>1, <4>2 DEF RemoveBackendByPtr, RemoveBackendById
      <3>2. \A n \in 1..MaxPool : \A new \in [1..n -> Backend] : new \in Seq(Backend)
        BY BoundAssumption
      <3>3. \A i \in 0..(MaxPool - 1) : i \in Nat
        BY BoundAssumption
      <3>4. NewKinds \subseteq Kind
        BY InitAssumption
      <3> QED
        BY <2>21, <2>14, <2>15, <2>16, <2>17, <2>18, <2>19, <2>20, <3>1, <3>2, <3>3, <3>4 DEF AdminCall
    <2> QED
      BY <1>a, <2>4, <2>5, <2>6, <2>7, <2>8, <2>9, <2>10, <2>11, <2>12, <2>13, <2>21 DEF AdminStep
  <1>r. ASSUME ReadAcquire \/ ReadRelease \/ Quiet \/ UNCHANGED vars PROVE Structure'
    BY <1>r DEF ReadAcquire, ReadRelease, Quiet, vars, Structure, PhaseOK, PoolEmptied, RemovePending, PcOf
  <1> QED
    BY <1>t, <1>a, <1>r DEF Next

\* Every variable of the balancer keeps its type, and no admin operation ever
\* indexes past the end of a vector, in every mode: on one thread or several,
\* with dial and admin futures dropped at any await.
THEOREM TypeCorrect == Spec => [](TypeOK /\ Structure)
  <1>1. Init => TypeOK /\ Structure
    BY InitType, InitStructure
  <1>2. TypeOK /\ Structure /\ [Next]_vars => (TypeOK /\ Structure)'
    BY TypeStep, StructureStep
  <1> QED
    BY <1>1, <1>2, PTL DEF Spec


-----------------------------------------------------------------------------
(* Every dial uses a backend of the pool, in every mode.                   *)

\* A caller has a backend from its pick on, and while it borrows the balancer
\* the pool still holds that backend at the index that was picked.
DialInv ==
    \A t \in Task :
        /\ PcOf(t) \in {"idle", "metrics_wait", "strategy_wait"} => tasks[t].be = NoBackend
        /\ PcOf(t) \in Dialing /\ tasks[t].be # NoBackend =>
               tasks[t].idx < Len(backends) /\ backends[tasks[t].idx + 1] = tasks[t].be

\* No step moves a backend away from under the index a dial has picked.
LEMMA DialStep == TypeOK /\ Structure /\ DialInv /\ [Next]_vars => DialInv'
  <1> SUFFICES ASSUME TypeOK, Structure, DialInv, [Next]_vars PROVE DialInv'
    OBVIOUS
  <1>t. ASSUME NEW t \in Task, TaskStep(t) \/ TaskCall(t) PROVE DialInv'
    <2>1. backends' = backends /\ \A u \in Task \ {t} : tasks'[u] = tasks[u]
      BY <1>t, TaskFrame
    <2>2. tasks \in [Task -> TaskState] /\ DOMAIN tasks[t] = {"pc", "idx", "gen", "be"}
      BY DEF TypeOK, TaskState
    <2> DEFINE Good(s) ==
                 /\ s.pc \in {"idle", "metrics_wait", "strategy_wait"} => s.be = NoBackend
                 /\ s.pc \in Dialing /\ s.be # NoBackend =>
                        s.idx < Len(backends) /\ backends[s.idx + 1] = s.be
    <2>3. Good(tasks[t])
      BY DEF DialInv, PcOf
    <2>4. Good(IdleTask)
      BY DEF IdleTask, Dialing
    <2>5. \A pc : (pc \in {"metrics_wait", "strategy_wait"} => tasks[t].be = NoBackend)
                  /\ pc # "idle" /\ (pc \in Dialing => PcOf(t) \in Dialing \/ tasks[t].be = NoBackend)
                  => Good([tasks[t] EXCEPT !.pc = pc])
      BY <2>2, <2>3 DEF PcOf
    <2>6. Good(tasks'[t])
      <3>1. CASE DialStart(t)
        BY <2>2, <2>3, <2>5, <3>1 DEF DialStart, Goto, PcOf
      <3>2. CASE PickAcquire(t)
        BY <2>2, <2>3, <2>5, <3>2 DEF PickAcquire, Goto, PcOf, Dialing
      <3>3. CASE Pick(t)
        <4>1. PICK i \in Nat : PickAt(t, i)
          <5>1. Len(metrics) > 0
            BY <3>3, LenProperties DEF Pick, Structure, TypeOK, Dialing
          <5> QED
            BY <3>3, <5>1, PickInRange DEF Pick, TypeOK, Indices
        <4>2. tasks'[t] = IF i < Len(backends)
                          THEN [pc |-> "dialing", idx |-> i, gen |-> generation,
                                be |-> backends[i + 1]]
                          ELSE [IdleTask EXCEPT !.pc = "panicked"]
          BY <2>2, <4>1 DEF PickAt
        <4> QED
          BY <4>2 DEF IdleTask, Dialing
      <3>4. CASE DialReturns(t)
        BY <2>2, <2>5, <3>4 DEF DialReturns, Goto, PcOf, Dialing
      <3>5. CASE RecordAcquire(t)
        BY <2>2, <2>5, <3>5 DEF RecordAcquire, Goto, PcOf, Dialing
      <3>6. CASE RecordSuccess(t) \/ RecordError(t)
        BY <2>2, <2>5, <3>6 DEF RecordSuccess, RecordError, Goto, PcOf, Dialing
      <3>7. CASE ReportOk(t)
        BY <2>2, <2>5, <3>7 DEF ReportOk, Goto, PcOf, Dialing
      <3>8. CASE ReportErr(t) \/ CancelDial(t) \/ GuardDrop(t) \/ GuardDropTry(t)
        BY <2>2, <2>4, <3>8, Zenon DEF ReportErr, CancelDial, GuardDrop, GuardDropTry, TryDecrement
      <3>9. CASE GuardDropCheck(t)
        BY <2>2, <2>4, <2>5, <3>9 DEF GuardDropCheck, PcOf, Dialing
      <3> QED
        BY <1>t, <3>1, <3>2, <3>3, <3>4, <3>5, <3>6, <3>7, <3>8, <3>9, Zenon DEF TaskStep, TaskCall
    <2> QED
      BY <2>1, <2>6 DEF DialInv, PcOf
  <1>a. ASSUME AdminStep \/ AdminCall PROVE DialInv'
    BY <1>a, AdminFrame, Zenon DEF DialInv, PcOf
  <1>r. ASSUME ReadAcquire \/ ReadRelease \/ Quiet \/ UNCHANGED vars PROVE DialInv'
    BY <1>r DEF ReadAcquire, ReadRelease, Quiet, vars, DialInv, PcOf
  <1> QED
    BY <1>t, <1>a, <1>r DEF Next

\* The invariant of dials holds in every state.
LEMMA DialInvariant == Spec => []DialInv
  <1>1. Init => DialInv
    BY DEF Init, DialInv, IdleTask, PcOf, Dialing
  <1> QED
    BY <1>1, TypeCorrect, DialStep, PTL DEF Spec

\* A dial in progress uses a backend that is in the pool, at the index it
\* picked, for any number of callers and whatever futures are dropped: the
\* borrow of dial_with_options outlasts every attempt of dial_with_retry.
THEOREM DialsUseThePool == Spec => []DialsLiveBackend
  <1>1. TypeOK /\ DialInv => DialsLiveBackend
    <2> SUFFICES ASSUME TypeOK, DialInv, NEW t \in Task, PcOf(t) \in Dialing,
                        tasks[t].be # NoBackend
                 PROVE  \E i \in 1..Len(backends) :
                            backends[i] = tasks[t].be /\ i = tasks[t].idx + 1
      BY DEF DialsLiveBackend
    <2>1. tasks[t].idx \in Nat /\ Len(backends) \in Nat
      BY LenProperties DEF TypeOK, TaskState
    <2> QED
      BY <2>1 DEF DialInv
  <1> QED
    BY <1>1, TypeCorrect, DialInvariant, PTL

-----------------------------------------------------------------------------
(* The three vectors stay aligned when admin futures run to completion.    *)

\* Outside the two steps of a replacement the vectors have the same length, but
\* for the metrics row a removal has yet to take, and every id belongs to its
\* backend; an addition carries the id of its backend, and a replacement
\* awaiting the metrics lock has already cleared the ids.
AlignedInv ==
    /\ \A t \in Task : PcOf(t) # "panicked"
    /\ ~PoolEmptied =>
          /\ Len(ids) = Len(backends)
          /\ Len(metrics) = Len(backends) + (IF RemovePending THEN 1 ELSE 0)
          /\ \A i \in 1..Len(backends) : ids[i] \in {NoId, IdOf[backends[i]]}
    /\ admin.op = "add" => admin.id \in {NoId, IdOf[admin.incoming[1]]}
    /\ admin.op = "replace" /\ admin.at \in {"wait", "locked"} =>
          \A i \in 1..Len(ids) : ids[i] = NoId

\* An admin operation that runs to its end moves pool, ids and metrics together.
LEMMA AlignedStep ==
    ASSUME ~CancelAdmins
    PROVE  TypeOK /\ Structure /\ AlignedInv /\ [Next]_vars => AlignedInv'
  <1> SUFFICES ASSUME TypeOK, Structure, AlignedInv, [Next]_vars PROVE AlignedInv'
    OBVIOUS
  <1>l. Len(backends) \in Nat /\ Len(metrics) \in Nat /\ Len(ids) \in Nat
    BY LenProperties DEF TypeOK
  <1>m. /\ admin.index \in Nat /\ admin.incoming \in Seq(Backend) /\ Len(admin.incoming) \in Nat
        /\ DOMAIN admin = {"op", "at", "index", "id", "incoming", "leaving", "kind"}
    BY LenProperties DEF TypeOK, AdminState
  <1>t. ASSUME NEW t \in Task, TaskStep(t) \/ TaskCall(t) PROVE AlignedInv'
    <2>1. /\ UNCHANGED <<backends, ids, admin>> /\ Len(metrics') = Len(metrics)
          /\ \A u \in Task \ {t} : tasks'[u] = tasks[u]
      BY <1>t, TaskFrame
    <2>2. tasks \in [Task -> TaskState] /\ DOMAIN tasks[t] = {"pc", "idx", "gen", "be"}
      BY DEF TypeOK, TaskState
    <2>3. PcOf(t)' # "panicked"
      <3>1. CASE Pick(t)
        <4>1. admin.op = "none" /\ Len(metrics) = Len(backends) /\ Len(metrics) > 0
          BY <1>l, <3>1, LenProperties
             DEF Pick, Structure, TypeOK, Dialing, AlignedInv, PoolEmptied, RemovePending
        <4>2. PICK i \in Indices(metrics) : PickAt(t, i)
          BY <3>1, <4>1, PickInRange DEF Pick, TypeOK
        <4>3. i < Len(backends)
          BY <1>l, <4>1 DEF Indices
        <4> QED
          BY <2>2, <4>2, <4>3 DEF PickAt, PcOf
      <3>2. CASE DialStart(t) \/ PickAcquire(t) \/ DialReturns(t) \/ RecordAcquire(t)
                 \/ RecordSuccess(t) \/ RecordError(t) \/ ReportOk(t)
        BY <2>2, <3>2 DEF DialStart, PickAcquire, DialReturns, RecordAcquire, RecordSuccess,
                          RecordError, ReportOk, Goto, PcOf
      <3>3. CASE ReportErr(t) \/ CancelDial(t) \/ GuardDrop(t) \/ GuardDropTry(t)
                 \/ GuardDropCheck(t)
        BY <2>2, <3>3 DEF ReportErr, CancelDial, GuardDrop, GuardDropTry, TryDecrement,
                          GuardDropCheck, IdleTask, PcOf
      <3> QED
        BY <1>t, <3>1, <3>2, <3>3 DEF TaskStep, TaskCall
    <2> QED
      BY <2>1, <2>3 DEF AlignedInv, PoolEmptied, RemovePending, PcOf
  <1>a. ASSUME AdminStep \/ AdminCall PROVE AlignedInv'
    <2>1. \A t \in Task : PcOf(t)' # "panicked"
      BY <1>a, AdminFrame DEF AlignedInv, PcOf
    <2>4. CASE AdminAcquire
      BY <1>m, <2>1, <2>4 DEF AdminAcquire, AlignedInv, PoolEmptied, RemovePending
    <2>5. CASE AddCommit
      <3>1. /\ Len(ids) = Len(backends) /\ Len(metrics) = Len(backends)
            /\ \A i \in 1..Len(backends) : ids[i] \in {NoId, IdOf[backends[i]]}
            /\ admin.id \in {NoId, IdOf[admin.incoming[1]]} /\ Len(admin.incoming) = 1
            /\ backends \in Seq(Backend) /\ ids \in Seq(Ids) /\ metrics \in Seq(TunnelMetrics)
        <4>1. admin.op = "add" /\ admin.at = "locked"
          BY <2>5 DEF AddCommit
        <4>2. ~PoolEmptied /\ ~RemovePending
          BY <4>1 DEF PoolEmptied, RemovePending
        <4>3. /\ Len(ids) = Len(backends) /\ Len(metrics) = Len(backends)
              /\ \A i \in 1..Len(backends) : ids[i] \in {NoId, IdOf[backends[i]]}
              /\ admin.id \in {NoId, IdOf[admin.incoming[1]]}
          BY <4>1, <4>2 DEF AlignedInv
        <4>4. Len(admin.incoming) = 1
          BY <4>1 DEF Structure
        <4>5. backends \in Seq(Backend) /\ ids \in Seq(Ids) /\ metrics \in Seq(TunnelMetrics)
          BY DEF TypeOK
        <4> QED
          BY <4>3, <4>4, <4>5
      <3>2. /\ Len(backends \o admin.incoming) = Len(backends) + Len(admin.incoming)
            /\ \A i \in 1..(Len(backends) + Len(admin.incoming)) :
                 (backends \o admin.incoming)[i] = IF i <= Len(backends) THEN backends[i]
                                                   ELSE admin.incoming[i - Len(backends)]
        <4>1. backends \in Seq(Backend) /\ admin.incoming \in Seq(Backend)
          BY <1>m, <3>1
        <4> QED
          BY <4>1, ConcatProperties, Zenon
      <3>3. /\ Len(backends') = Len(backends) + 1
            /\ \A i \in 1..Len(backends) : backends'[i] = backends[i]
            /\ backends'[Len(backends) + 1] = admin.incoming[1]
        <4>1. backends' = backends \o admin.incoming
          BY <2>5 DEF AddCommit
        <4> QED
          BY <1>l, <3>1, <3>2, <4>1
      <3>4. /\ Len(ids') = Len(ids) + 1 /\ Len(metrics') = Len(metrics) + 1
            /\ \A i \in 1..Len(ids) : ids'[i] = ids[i]
            /\ ids'[Len(ids) + 1] = admin.id
        BY <1>l, <2>5, <3>1, AppendProperties DEF AddCommit
      <3>5. \A i \in 1..Len(backends') : ids'[i] \in {NoId, IdOf[backends'[i]]}
        BY <1>l, <3>1, <3>3, <3>4
      <3>6. Len(ids') = Len(backends') /\ Len(metrics') = Len(backends')
        BY <3>1, <3>3, <3>4
      <3>7. admin'.op = "none"
        BY <2>5 DEF AddCommit, IdleAdmin
      <3>8. Len(metrics') = Len(backends') + 0
        BY <1>l, <3>1, <3>4, <3>6
      <3> QED
        BY <2>1, <3>5, <3>6, <3>7, <3>8 DEF AlignedInv, RemovePending
    <2>6. CASE RemoveCommit
      <3>1. admin.index < Len(metrics) /\ admin.index + 1 \in 1..Len(metrics)
        BY <1>l, <1>m, <2>6 DEF RemoveCommit, Structure, RemovePending
      <3>2. Len(metrics') = Len(metrics) - 1 /\ admin' = [admin EXCEPT !.at = "down"]
        BY <2>6, <3>1, RemoveAtProperties DEF RemoveCommit, TypeOK
      <3> QED
        BY <1>l, <1>m, <2>1, <2>6, <3>2 DEF RemoveCommit, AlignedInv, PoolEmptied, RemovePending
    <2>7. CASE BackendShutdown
      BY <1>m, <2>1, <2>7 DEF BackendShutdown, AlignedInv, PoolEmptied, RemovePending
    <2>8. CASE RemoveEnd
      BY <1>m, <2>1, <2>8 DEF RemoveEnd, IdleAdmin, AlignedInv, PoolEmptied, RemovePending
    <2>9. CASE ReplaceIds
      <3>1. Len(ids') = Len(admin.incoming) /\ \A i \in 1..Len(ids') : ids'[i] = NoId
        BY <1>m, <2>9 DEF ReplaceIds
      <3>2. admin'.op = "replace" /\ admin'.at = "wait"
        BY <1>m, <2>9 DEF ReplaceIds
      <3> QED
        BY <2>1, <3>1, <3>2 DEF AlignedInv, PoolEmptied
    <2>10. CASE ReplaceCommit
      <3>1. /\ Len(metrics') = Len(admin.incoming) /\ Len(ids) = Len(admin.incoming)
            /\ backends' = admin.incoming /\ ids' = ids /\ \A i \in 1..Len(ids) : ids[i] = NoId
        BY <1>m, <2>10 DEF ReplaceCommit, Structure, AlignedInv
      <3>2. admin'.op = "none" \/ (admin'.op = "replace" /\ admin'.at = "strategy")
        BY <1>m, <2>10 DEF ReplaceCommit, IdleAdmin
      <3> QED
        BY <1>m, <2>1, <3>1, <3>2 DEF AlignedInv, PoolEmptied, RemovePending
    <2>11. CASE ReplaceStrategy
      BY <1>l, <2>1, <2>11, Zenon DEF ReplaceStrategy, IdleAdmin, AlignedInv, PoolEmptied, RemovePending
    <2>12. CASE DrainCommit
      <3>1. Len(metrics') = Len(metrics)
        BY <1>m, <2>12, UpdateTypes DEF DrainCommit, TypeOK
      <3> QED
        BY <1>l, <2>1, <2>12, <3>1, Zenon DEF DrainCommit, IdleAdmin, AlignedInv, PoolEmptied, RemovePending
    <2>13. CASE ShutdownEnd
      BY <2>1, <2>13 DEF ShutdownEnd, Begin, IdleAdmin, AlignedInv, PoolEmptied
    <2>14. ASSUME NEW b \in Backend, NEW id \in {NoId, IdOf[b]}, AddStart(b, id) PROVE AlignedInv'
      <3>1. /\ admin'.op = "add" /\ admin'.at = "wait" /\ admin'.incoming[1] = b
            /\ admin'.id = id
        BY <2>14 DEF AddStart, Begin, IdleAdmin
      <3> QED
        BY <1>l, <2>1, <2>14, <3>1 DEF AddStart, LbExclusive, AlignedInv, PoolEmptied, RemovePending
    <2>15. ASSUME NEW i \in Nat, RemoveBackend(i) PROVE AlignedInv'
      <3>1. admin'.op = "remove" /\ admin'.at = "wait" /\ admin'.index = i
        BY <2>15 DEF RemoveBackend, Begin, IdleAdmin
      <3>2. /\ Len(ids) = Len(backends) /\ Len(metrics) = Len(backends)
            /\ \A j \in 1..Len(backends) : ids[j] \in {NoId, IdOf[backends[j]]}
            /\ i + 1 \in 1..Len(backends) /\ i + 1 \in 1..Len(ids)
        BY <1>l, <2>15 DEF RemoveBackend, LbExclusive, AlignedInv, PoolEmptied, RemovePending
      <3>3. /\ Len(backends') = Len(backends) - 1 /\ Len(ids') = Len(ids) - 1
            /\ \A j \in 1..(Len(backends) - 1) :
                 backends'[j] = IF j < i + 1 THEN backends[j] ELSE backends[j + 1]
            /\ \A j \in 1..(Len(ids) - 1) : ids'[j] = IF j < i + 1 THEN ids[j] ELSE ids[j + 1]
        <4>1. /\ backends \in Seq(Backend) /\ backends' = RemoveAt(backends, i + 1)
              /\ ids \in Seq(Ids) /\ ids' = RemoveAt(ids, i + 1)
          BY <2>15 DEF RemoveBackend, TypeOK
        <4>2. /\ Len(backends') = Len(backends) - 1
              /\ \A j \in 1..(Len(backends) - 1) :
                   backends'[j] = IF j < i + 1 THEN backends[j] ELSE backends[j + 1]
          BY <3>2, <4>1, RemoveAtProperties, Zenon
        <4>3. /\ Len(ids') = Len(ids) - 1
              /\ \A j \in 1..(Len(ids) - 1) :
                   ids'[j] = IF j < i + 1 THEN ids[j] ELSE ids[j + 1]
          BY <3>2, <4>1, RemoveAtProperties, Zenon
        <4> QED
          BY <4>2, <4>3
      <3>4. \A j \in 1..Len(backends') : ids'[j] \in {NoId, IdOf[backends'[j]]}
        BY <1>l, <3>2, <3>3
      <3> QED
        BY <1>l, <2>1, <2>15, <3>1, <3>2, <3>3, <3>4
           DEF RemoveBackend, AlignedInv, PoolEmptied, RemovePending
    <2>16. ASSUME NEW new, NEW k, ReplaceStart(new, k) PROVE AlignedInv'
      <3>1. admin'.op = "replace" /\ admin'.at = "down"
        BY <2>16 DEF ReplaceStart, Begin, IdleAdmin
      <3> QED
        BY <2>1, <3>1 DEF AlignedInv, PoolEmptied
    <2>17. ASSUME NEW i \in Nat, DrainStart(i) \/ UndrainStart(i) PROVE AlignedInv'
      <3>1. admin'.op \in {"drain", "undrain"} /\ admin'.at = "wait"
        BY <2>17, Zenon DEF DrainStart, UndrainStart, Begin, IdleAdmin
      <3> QED
        BY <1>l, <2>1, <2>17, <3>1
           DEF DrainStart, UndrainStart, LbExclusive, AlignedInv, PoolEmptied, RemovePending
    <2>18. ASSUME NEW k \in NewKinds, SetStrategy(k) PROVE AlignedInv'
      BY <2>1, <2>18 DEF SetStrategy, AlignedInv, PoolEmptied, RemovePending
    <2>19. CASE ShutdownStart
      <3>1. admin'.op = "shutdown"
        BY <2>19 DEF ShutdownStart, Begin, IdleAdmin
      <3> QED
        BY <2>1, <3>1, Zenon DEF AlignedInv, PoolEmptied
    <2>21. ASSUME AdminCall PROVE AlignedInv'
      <3>1. \A b \in Backend : RemoveBackendByPtr(b) \/ RemoveBackendById(IdOf[b]) => AlignedInv'
        <4>1. \A i \in 1..Len(backends) : RemoveBackend(i - 1) => AlignedInv'
          BY <1>l, <2>15
        <4>2. \A i \in 1..Len(ids) : RemoveBackend(i - 1) => AlignedInv'
          BY <1>l, <2>15
        <4> QED
          BY <4>1, <4>2 DEF RemoveBackendByPtr, RemoveBackendById
      <3>2. \A i \in 0..(MaxPool - 1) : i \in Nat
        BY BoundAssumption
      <3>3. ~CancelAdmin
        BY DEF CancelAdmin
      <3> QED
        BY <2>21, <2>14, <2>15, <2>16, <2>17, <2>18, <2>19, <3>1, <3>2, <3>3 DEF AdminCall
    <2> QED
      BY <1>a, <2>4, <2>5, <2>6, <2>7, <2>8, <2>9, <2>10, <2>11, <2>12, <2>13, <2>21 DEF AdminStep
  <1>r. ASSUME ReadAcquire \/ ReadRelease \/ Quiet \/ UNCHANGED vars PROVE AlignedInv'
    BY <1>r, Zenon DEF ReadAcquire, ReadRelease, Quiet, vars, AlignedInv, PoolEmptied, RemovePending, PcOf
  <1> QED
    BY <1>t, <1>a, <1>r DEF Next

\* The invariant of the vectors holds in every state.
LEMMA AlignedInvariant ==
    ASSUME ~CancelAdmins
    PROVE  Spec => []AlignedInv
  <1>1. Init => AlignedInv
    BY InitAssumption, LenProperties
       DEF Init, AlignedInv, IdleTask, IdleAdmin, PcOf, PoolEmptied, RemovePending
  <1>2. TypeOK /\ Structure /\ AlignedInv /\ [Next]_vars => AlignedInv'
    BY AlignedStep
  <1> QED
    BY <1>1, <1>2, TypeCorrect, PTL DEF Spec

\* As long as no caller drops an admin future, backends, ids and metrics agree
\* whenever a dial may start, although every admin operation awaits the metrics
\* lock halfway: for any number of callers and backends, with guards on several
\* threads and dials cancelled.
THEOREM VectorsStayAligned ==
    ASSUME ~CancelAdmins
    PROVE  Spec => []PoolAligned
  <1>1. Structure /\ AlignedInv => PoolAligned
    BY DEF Structure, AlignedInv, PoolAligned, PoolEmptied, RemovePending
  <1>2. Spec => []AlignedInv
    BY AlignedInvariant
  <1> QED
    BY <1>1, <1>2, TypeCorrect, PTL

\* Under the same hypothesis neither self.backends[idx] in a dial nor Vec::remove
\* in remove_backend is ever past the end.
THEOREM NothingPanics ==
    ASSUME ~CancelAdmins
    PROVE  Spec => []NoPanic
  <1>1. Structure /\ AlignedInv => NoPanic
    BY DEF Structure, AlignedInv, NoPanic
  <1>2. Spec => []AlignedInv
    BY AlignedInvariant
  <1> QED
    BY <1>1, <1>2, TypeCorrect, PTL

-----------------------------------------------------------------------------
(* Every backend has one owner, in every mode.                             *)

\* A Vec emptied by mem::take or drain holds nothing.
LEMMA EmptySequence == IsInjective(<<>>) /\ Range(<<>>) = {} /\ <<>> \in Seq(Backend)
  BY DEF IsInjective, Range

\* The one backend that add_backend or remove_backend holds.
LEMMA SingleSequence ==
    ASSUME NEW b
    PROVE  IsInjective(<<b>>) /\ Range(<<b>>) = {b}
  BY DEF IsInjective, Range

\* What an admin operation has in its hands at each of its awaits.
HandsOK ==
    /\ admin.op \notin {"remove", "replace", "shutdown"} => admin.leaving = <<>>
    /\ admin.op \notin {"add", "replace"} => admin.incoming = <<>>
    /\ admin.op = "replace" /\ admin.at # "down" => admin.leaving = <<>>
    /\ admin.op = "replace" /\ admin.at = "strategy" => admin.incoming = <<>>

\* BackendLifecycle, for the places and fates given as arguments.
OneOwner(pool, out, in, f) ==
    /\ IsInjective(pool) /\ IsInjective(out) /\ IsInjective(in)
    /\ Range(pool) \cap Range(out) = {} /\ Range(pool) \cap Range(in) = {}
    /\ Range(out) \cap Range(in) = {}
    /\ {b \in Backend : f[b] = "owned"} = Range(pool) \cup Range(out) \cup Range(in)

\* A backend on its way out that is shut down has no owner any more; the others keep theirs.
LEMMA OneLeaves ==
    ASSUME NEW pool, NEW out, NEW in, NEW f, OneOwner(pool, out, in, f),
           NEW rest, NEW h, NEW g, IsInjective(rest),
           h \in Range(out), Range(rest) = Range(out) \ {h},
           {b \in Backend : g[b] = "owned"} = {b \in Backend : f[b] = "owned"} \ {h}
    PROVE  OneOwner(pool, rest, in, g)
  BY DEF OneOwner

\* Every step hands a backend from one owner to the next, shuts it down or drops it.
LEMMA LifecycleStep ==
    TypeOK /\ Structure /\ HandsOK /\ BackendLifecycle /\ [Next]_vars
        => (HandsOK /\ BackendLifecycle)'
  <1> SUFFICES ASSUME TypeOK, Structure, HandsOK, BackendLifecycle, [Next]_vars
               PROVE  HandsOK' /\ BackendLifecycle'
    OBVIOUS
  <1>o. OneOwner(backends, admin.leaving, admin.incoming, fate)
    BY DEF BackendLifecycle, OneOwner
  <1>p. OneOwner(backends', admin'.leaving, admin'.incoming, fate') => BackendLifecycle'
    BY Zenon DEF BackendLifecycle, OneOwner
  <1>m. /\ backends \in Seq(Backend) /\ fate \in [Backend -> Fate] /\ Len(backends) \in Nat
        /\ admin.incoming \in Seq(Backend) /\ admin.leaving \in Seq(Backend)
        /\ DOMAIN admin = {"op", "at", "index", "id", "incoming", "leaving", "kind"}
    BY LenProperties, Zenon DEF TypeOK, AdminState
  <1>t. ASSUME NEW t \in Task, TaskStep(t) \/ TaskCall(t) PROVE HandsOK' /\ BackendLifecycle'
    BY <1>o, <1>p, <1>t, TaskFrame, Zenon DEF HandsOK
  <1>a. ASSUME AdminStep \/ AdminCall PROVE HandsOK' /\ BackendLifecycle'
    <2>e. OneOwner(backends, <<>>, <<>>, fate) <=>
              IsInjective(backends) /\ {b \in Backend : fate[b] = "owned"} = Range(backends)
      BY EmptySequence DEF OneOwner
    <2>i. /\ IdleAdmin.op = "none" /\ IdleAdmin.leaving = <<>> /\ IdleAdmin.incoming = <<>>
      BY DEF IdleAdmin
    <2>n. LbExclusive => admin.op = "none" /\ admin.leaving = <<>> /\ admin.incoming = <<>>
      BY DEF LbExclusive, HandsOK
    <2>4. CASE AdminAcquire \/ RemoveCommit
      <3>1. /\ UNCHANGED <<backends, fate>> /\ admin'.leaving = admin.leaving
            /\ admin'.incoming = admin.incoming /\ admin'.op = admin.op
            /\ admin.op = "replace" => admin.at = "wait" /\ admin'.at = "locked"
        <4>1. CASE AdminAcquire
          BY <1>m, <4>1 DEF AdminAcquire
        <4>2. CASE RemoveCommit
          <5>1. admin.index < Len(metrics)
            BY <4>2, LenProperties DEF RemoveCommit, Structure, RemovePending, TypeOK, AdminState
          <5> QED
            BY <1>m, <4>2, <5>1 DEF RemoveCommit
        <4> QED
          BY <2>4, <4>1, <4>2
      <3> QED
        BY <1>o, <1>p, <3>1, Zenon DEF HandsOK
    <2>5. CASE AddCommit
      <3>1. /\ admin.leaving = <<>> /\ Len(admin.incoming) = 1 /\ admin' = IdleAdmin
            /\ backends' = backends \o admin.incoming /\ fate' = fate
        BY <2>5, Zenon DEF AddCommit, HandsOK, Structure
      <3>2. /\ IsInjective(backends') /\ Range(backends') = Range(backends) \cup Range(admin.incoming)
        <4>1. IsInjective(backends) /\ Range(backends) \cap Range(admin.incoming) = {}
          BY <1>o DEF OneOwner
        <4>2. backends \in Seq(Backend) /\ admin.incoming \in Seq(Backend)
          BY <1>m
        <4>3. /\ IsInjective(backends \o admin.incoming)
              /\ Range(backends \o admin.incoming) = Range(backends) \cup Range(admin.incoming)
          BY <3>1, <4>1, <4>2, ConcatSingle
        <4> QED
          BY <3>1, <4>3
      <3>3. {b \in Backend : fate[b] = "owned"} = Range(backends')
        BY <1>o, <3>1, <3>2, EmptySequence DEF OneOwner
      <3> QED
        BY <1>p, <2>i, <3>1, <3>2, <3>3, EmptySequence, Zenon DEF OneOwner, HandsOK
    <2>7. CASE BackendShutdown
      <3> DEFINE h == Head(admin.leaving)
      <3>1. /\ admin'.leaving = Tail(admin.leaving) /\ admin'.incoming = admin.incoming
            /\ admin'.op = admin.op /\ admin'.at = admin.at /\ admin.at = "down"
            /\ admin.leaving # <<>> /\ backends' = backends
            /\ fate' = [fate EXCEPT ![h] = "down"]
        BY <1>m, <2>7 DEF BackendShutdown
      <3>2. /\ IsInjective(admin'.leaving) /\ h \in Range(admin.leaving)
            /\ Range(admin'.leaving) = Range(admin.leaving) \ {h}
        BY <1>m, <1>o, <3>1, TailInjective DEF OneOwner
      <3> HIDE DEF h
      <3>3. h \in Backend
        BY <1>o, <3>2 DEF OneOwner
      <3>4. {b \in Backend : fate'[b] = "owned"} = {b \in Backend : fate[b] = "owned"} \ {h}
        BY <1>m, <3>1, <3>3
      <3>5. OneOwner(backends', admin'.leaving, admin'.incoming, fate')
        <4>1. OneOwner(backends, admin'.leaving, admin.incoming, fate')
          BY <1>o, <3>2, <3>4, OneLeaves, Zenon
        <4> QED
          BY <3>1, <4>1, Zenon
      <3> QED
        BY <1>p, <3>1, <3>5, Zenon DEF HandsOK
    <2>8. CASE RemoveEnd \/ ReplaceStrategy \/ DrainCommit
      <3>1. /\ admin.leaving = <<>> /\ admin.incoming = <<>> /\ admin' = IdleAdmin
            /\ UNCHANGED <<backends, fate>>
        BY <2>8, Zenon DEF RemoveEnd, ReplaceStrategy, DrainCommit, HandsOK
      <3> QED
        BY <1>o, <1>p, <2>i, <3>1 DEF HandsOK
    <2>9. CASE ReplaceIds
      <3>1. /\ UNCHANGED <<backends, fate>> /\ admin'.leaving = <<>> /\ admin.leaving = <<>>
            /\ admin'.incoming = admin.incoming /\ admin'.op = "replace" /\ admin'.at = "wait"
        BY <1>m, <2>9 DEF ReplaceIds
      <3> QED
        BY <1>o, <1>p, <3>1, Zenon DEF HandsOK
    <2>10. CASE ReplaceCommit
      <3>1. /\ backends = <<>> /\ admin.leaving = <<>> /\ backends' = admin.incoming
            /\ fate' = fate
        BY <2>10 DEF ReplaceCommit, HandsOK, Structure, PoolEmptied
      <3>2. /\ admin'.leaving = <<>> /\ admin'.incoming = <<>>
            /\ admin'.op \in {"none", "replace"}
        BY <1>m, <2>i, <2>10, <3>1 DEF ReplaceCommit
      <3>3. OneOwner(admin.incoming, <<>>, <<>>, fate)
        BY <1>o, <3>1, EmptySequence DEF OneOwner
      <3> QED
        BY <1>p, <3>1, <3>2, <3>3, Zenon DEF HandsOK
    <2>13. CASE ShutdownEnd
      <3>1. /\ admin.leaving = <<>> /\ admin.incoming = <<>> /\ UNCHANGED <<backends, fate>>
        BY <2>13 DEF ShutdownEnd, HandsOK
      <3>2. admin'.op = "closed" /\ admin'.leaving = <<>> /\ admin'.incoming = <<>>
        BY <2>13 DEF ShutdownEnd, Begin, IdleAdmin
      <3> QED
        BY <1>o, <1>p, <3>1, <3>2 DEF HandsOK
    <2>14. ASSUME NEW b \in Backend, NEW id, AddStart(b, id) PROVE HandsOK' /\ BackendLifecycle'
      <3>1. admin'.op = "add" /\ admin'.leaving = <<>> /\ admin'.incoming = <<b>>
        BY <2>14 DEF AddStart, Begin, IdleAdmin
      <3>2. /\ admin.leaving = <<>> /\ admin.incoming = <<>> /\ backends' = backends
            /\ fate[b] = "fresh" /\ fate' = [fate EXCEPT ![b] = "owned"]
        BY <2>n, <2>14 DEF AddStart
      <3>3. {c \in Backend : fate'[c] = "owned"} = {c \in Backend : fate[c] = "owned"} \cup {b}
        BY <1>m, <3>2
      <3>4. b \notin Range(backends)
        BY <1>o, <3>2 DEF OneOwner
      <3>5. OneOwner(backends, <<>>, <<b>>, fate')
        BY <1>o, <3>2, <3>3, <3>4, EmptySequence, SingleSequence, Zenon DEF OneOwner
      <3> QED
        BY <1>p, <3>1, <3>2, <3>5 DEF HandsOK
    <2>15. ASSUME NEW i \in Nat, RemoveBackend(i) PROVE HandsOK' /\ BackendLifecycle'
      <3>1. /\ admin'.op = "remove" /\ admin'.leaving = <<backends[i + 1]>>
            /\ admin'.incoming = <<>>
        BY <2>15 DEF RemoveBackend, Begin, IdleAdmin
      <3>2. /\ admin.leaving = <<>> /\ admin.incoming = <<>> /\ i + 1 \in 1..Len(backends)
            /\ backends' = RemoveAt(backends, i + 1) /\ fate' = fate
        BY <1>m, <2>n, <2>15 DEF RemoveBackend
      <3>3. /\ IsInjective(backends') /\ Range(backends') = Range(backends) \ {backends[i + 1]}
            /\ backends[i + 1] \in Range(backends)
        BY <1>m, <1>o, <3>2, RemoveInjective, Zenon DEF OneOwner
      <3>4. /\ IsInjective(<<backends[i + 1]>>)
            /\ Range(<<backends[i + 1]>>) = {backends[i + 1]}
        BY SingleSequence
      <3>5. OneOwner(backends', <<backends[i + 1]>>, <<>>, fate)
        BY <1>o, <3>2, <3>3, <3>4, EmptySequence, Zenon DEF OneOwner
      <3> QED
        BY <1>p, <3>1, <3>2, <3>5, Zenon DEF HandsOK
    <2>16. ASSUME NEW new \in Seq(Backend), NEW k, ReplaceStart(new, k)
           PROVE  HandsOK' /\ BackendLifecycle'
      <3>1. /\ admin'.op = "replace" /\ admin'.at = "down" /\ admin'.leaving = backends
            /\ admin'.incoming = new
        BY <2>16 DEF ReplaceStart, Begin, IdleAdmin
      <3>2. /\ admin.leaving = <<>> /\ admin.incoming = <<>> /\ backends' = <<>>
            /\ IsInjective(new) /\ \A b \in Range(new) : fate[b] = "fresh"
            /\ fate' = [b \in Backend |-> IF b \in Range(new) THEN "owned" ELSE fate[b]]
        BY <2>n, <2>16 DEF ReplaceStart
      <3>3. Range(new) \subseteq Backend
        <4>1. DOMAIN new = 1..Len(new) /\ \A i \in 1..Len(new) : new[i] \in Backend
          BY LenProperties, ElementOfSeq
        <4> QED
          BY <4>1 DEF Range
      <3>4. {b \in Backend : fate'[b] = "owned"} = {b \in Backend : fate[b] = "owned"} \cup Range(new)
        BY <3>2, <3>3
      <3>5. Range(new) \cap Range(backends) = {}
        BY <1>o, <3>2, Zenon DEF OneOwner
      <3>6. OneOwner(<<>>, backends, new, fate')
        BY <1>o, <3>2, <3>4, <3>5, EmptySequence, Zenon DEF OneOwner
      <3> QED
        BY <1>p, <3>1, <3>2, <3>6, Zenon DEF HandsOK
    <2>17. ASSUME NEW i, DrainStart(i) \/ UndrainStart(i) PROVE HandsOK' /\ BackendLifecycle'
      <3>1. /\ admin'.op \in {"drain", "undrain"} /\ admin'.leaving = <<>>
            /\ admin'.incoming = <<>>
        BY <2>17, Zenon DEF DrainStart, UndrainStart, Begin, IdleAdmin
      <3>2. UNCHANGED <<backends, fate>> /\ admin.leaving = <<>> /\ admin.incoming = <<>>
        BY <2>n, <2>17 DEF DrainStart, UndrainStart
      <3> QED
        BY <1>o, <1>p, <3>1, <3>2, Zenon DEF HandsOK
    <2>18. ASSUME NEW k, SetStrategy(k) PROVE HandsOK' /\ BackendLifecycle'
      BY <1>o, <1>p, <2>18, Zenon DEF SetStrategy, HandsOK
    <2>19. CASE ShutdownStart
      <3>1. admin'.op = "shutdown" /\ admin'.leaving = backends /\ admin'.incoming = <<>>
        BY <2>19 DEF ShutdownStart, Begin, IdleAdmin
      <3>2. /\ admin.leaving = <<>> /\ admin.incoming = <<>> /\ backends' = <<>> /\ fate' = fate
        BY <2>n, <2>19 DEF ShutdownStart
      <3>3. OneOwner(<<>>, backends, <<>>, fate)
        BY <1>o, <3>2, EmptySequence, Zenon DEF OneOwner
      <3> QED
        BY <1>p, <3>1, <3>2, <3>3 DEF HandsOK
    <2>20. CASE CancelAdmin
      <3>1. /\ admin'.op \in {"none", "closed"} /\ admin'.leaving = <<>> /\ admin'.incoming = <<>>
        BY <2>20 DEF CancelAdmin, Begin, IdleAdmin
      <3> DEFINE held == Range(admin.leaving) \cup Range(admin.incoming)
      <3>2. /\ backends' = backends
            /\ fate' = [b \in Backend |-> IF b \in held THEN "dropped" ELSE fate[b]]
        BY <2>20 DEF CancelAdmin
      <3> HIDE DEF held
      <3>3. {b \in Backend : fate'[b] = "owned"} = {b \in Backend : fate[b] = "owned"} \ held
        BY <3>2
      <3>4. {b \in Backend : fate'[b] = "owned"} = Range(backends)
        BY <1>o, <3>3 DEF OneOwner, held
      <3>5. OneOwner(backends, <<>>, <<>>, fate')
        BY <1>o, <3>4, EmptySequence, Zenon DEF OneOwner
      <3> QED
        BY <1>p, <3>1, <3>2, <3>5, Zenon DEF HandsOK
    <2>21. ASSUME AdminCall PROVE HandsOK' /\ BackendLifecycle'
      <3>1. \A b \in Backend : RemoveBackendByPtr(b) \/ RemoveBackendById(IdOf[b])
                               => HandsOK' /\ BackendLifecycle'
        <4>1. Len(backends) \in Nat /\ Len(ids) \in Nat
          BY <1>m, LenProperties DEF TypeOK
        <4>2. \A i \in 1..Len(backends) : RemoveBackend(i - 1) => HandsOK' /\ BackendLifecycle'
          BY <2>15, <4>1
        <4>3. \A i \in 1..Len(ids) : RemoveBackend(i - 1) => HandsOK' /\ BackendLifecycle'
          BY <2>15, <4>1
        <4> QED
          BY <4>2, <4>3 DEF RemoveBackendByPtr, RemoveBackendById
      <3>2. \A n \in 1..MaxPool : \A new \in [1..n -> Backend] : new \in Seq(Backend)
        BY BoundAssumption
      <3>3. \A i \in 0..(MaxPool - 1) : i \in Nat
        BY BoundAssumption
      <3> QED
        BY <2>21, <2>14, <2>15, <2>16, <2>17, <2>18, <2>19, <2>20, <3>1, <3>2, <3>3 DEF AdminCall
    <2> QED
      BY <1>a, <2>4, <2>5, <2>7, <2>8, <2>9, <2>10, <2>13, <2>21 DEF AdminStep
  <1>r. ASSUME ReadAcquire \/ ReadRelease \/ Quiet \/ UNCHANGED vars
        PROVE  HandsOK' /\ BackendLifecycle'
    BY <1>o, <1>p, <1>r, Zenon DEF ReadAcquire, ReadRelease, Quiet, vars, HandsOK
  <1> QED
    BY <1>t, <1>a, <1>r DEF Next

\* The invariant of ownership holds in every state.
LEMMA OwnerInvariant == Spec => [](HandsOK /\ BackendLifecycle)
  <1>1. Init => HandsOK /\ BackendLifecycle
    <2> SUFFICES ASSUME Init PROVE HandsOK /\ BackendLifecycle
      OBVIOUS
    <2>1. admin.leaving = <<>> /\ admin.incoming = <<>> /\ admin.op = "none"
      BY DEF Init, IdleAdmin
    <2>2. Range(InitBackends) \subseteq Backend /\ IsInjective(InitBackends)
      <3>1. /\ DOMAIN InitBackends = 1..Len(InitBackends)
            /\ \A i \in 1..Len(InitBackends) : InitBackends[i] \in Backend
        BY InitAssumption, LenProperties, ElementOfSeq
      <3> QED
        BY <3>1, InitAssumption DEF Range
    <2>3. {b \in Backend : fate[b] = "owned"} = Range(backends)
      BY <2>2 DEF Init
    <2> QED
      BY <2>1, <2>2, <2>3, EmptySequence DEF Init, HandsOK, BackendLifecycle
  <1>2. TypeOK /\ Structure /\ HandsOK /\ BackendLifecycle /\ [Next]_vars
            => (HandsOK /\ BackendLifecycle)'
    BY LifecycleStep
  <1> QED
    BY <1>1, <1>2, TypeCorrect, PTL DEF Spec

\* At every moment each backend the balancer owns is in exactly one place, the
\* pool or the hands of one admin operation, and none is shut down twice: for
\* any number of callers and backends, and also when a caller drops
\* remove_backend, replace_backends or shutdown at one of its awaits.
THEOREM LifecycleSafe == Spec => []BackendLifecycle
  BY OwnerInvariant, PTL


-----------------------------------------------------------------------------
(* Counting.                                                               *)

\* Sets of callers are finite, and one caller more or less counts as one.
LEMMA CallerCounts ==
    ASSUME NEW S \in SUBSET Task
    PROVE  /\ Cardinality(S) \in Nat
           /\ \A R \in SUBSET S : Cardinality(R) <= Cardinality(S)
           /\ \A t \in S : Cardinality(S \ {t}) = Cardinality(S) - 1 /\ Cardinality(S) > 0
           /\ \A t \in Task : Cardinality(S \cup {t}) <= Cardinality(S) + 1
  <1>1. IsFiniteSet(S)
    BY TaskAssumption, FS_Subset
  <1>2. Cardinality(S) \in Nat
    BY <1>1, FS_CardinalityType
  <1>3. \A R \in SUBSET S : Cardinality(R) <= Cardinality(S)
    BY <1>1, FS_Subset
  <1>4. ASSUME NEW t \in S PROVE Cardinality(S \ {t}) = Cardinality(S) - 1 /\ Cardinality(S) > 0
    <2>1. IsFiniteSet(S \ {t}) /\ Cardinality(S \ {t}) = Cardinality(S) - 1
      BY <1>1, FS_RemoveElement
    <2>2. Cardinality(S \ {t}) \in Nat
      BY <2>1, FS_CardinalityType
    <2> QED
      BY <1>2, <2>1, <2>2
  <1>5. ASSUME NEW t \in Task PROVE Cardinality(S \cup {t}) <= Cardinality(S) + 1
    <2>1. Cardinality(S \cup {t}) = IF t \in S THEN Cardinality(S) ELSE Cardinality(S) + 1
      BY <1>1, FS_AddElement
    <2> QED
      BY <1>2, <2>1
  <1> QED
    BY <1>2, <1>3, <1>4, <1>5

\* What each change of a row does to its fields.
LEMMA RowFields ==
    ASSUME NEW m \in TunnelMetrics
    PROVE  /\ m.active_connections \in Nat /\ m.total_errors \in Nat /\ m.total_dials \in Nat
           /\ m.recent_errors \in 0..U32Max /\ m.rtt \in Rtt
           /\ LET n == Picked(m)
              IN  /\ n.active_connections = m.active_connections + 1
                  /\ n.total_dials = m.total_dials + 1
                  /\ n.total_errors = m.total_errors /\ n.recent_errors = m.recent_errors
                  /\ n.rtt = m.rtt
           /\ \A n \in {Succeeded(m), Drained(m), Undrained(m)} :
                  /\ n.active_connections = m.active_connections
                  /\ n.total_dials = m.total_dials /\ n.total_errors = m.total_errors
                  /\ n.recent_errors \in {0, U32Max, m.recent_errors} /\ n.rtt = m.rtt
           /\ LET n == Dropped(m)
              IN  /\ n.active_connections = SatSub(m.active_connections)
                  /\ n.total_dials = m.total_dials /\ n.total_errors = m.total_errors
                  /\ n.recent_errors = m.recent_errors /\ n.rtt = m.rtt
           /\ LET n == Failed(m)
              IN  /\ n.active_connections = SatSub(m.active_connections)
                  /\ n.total_dials = m.total_dials /\ n.total_errors = m.total_errors + 1
                  /\ n.recent_errors \in {m.recent_errors + 1, U32Max} /\ n.rtt = m.rtt
  <1>1. /\ m.active_connections \in Nat /\ m.total_errors \in Nat /\ m.total_dials \in Nat
        /\ m.recent_errors \in 0..U32Max /\ m.rtt \in Rtt
        /\ DOMAIN m = {"rtt", "active_connections", "recent_errors", "total_dials", "total_errors"}
    BY DEF TunnelMetrics
  <1>2. LET n == Picked(m)
        IN  /\ n.active_connections = m.active_connections + 1
            /\ n.total_dials = m.total_dials + 1
            /\ n.total_errors = m.total_errors /\ n.recent_errors = m.recent_errors
            /\ n.rtt = m.rtt
    BY <1>1 DEF Picked
  <1>3. \A n \in {Succeeded(m), Drained(m), Undrained(m)} :
            /\ n.active_connections = m.active_connections
            /\ n.total_dials = m.total_dials /\ n.total_errors = m.total_errors
            /\ n.recent_errors \in {0, U32Max, m.recent_errors} /\ n.rtt = m.rtt
    BY <1>1 DEF Succeeded, Drained, Undrained
  <1>4. LET n == Dropped(m)
        IN  /\ n.active_connections = SatSub(m.active_connections)
            /\ n.total_dials = m.total_dials /\ n.total_errors = m.total_errors
            /\ n.recent_errors = m.recent_errors /\ n.rtt = m.rtt
    BY <1>1 DEF Dropped
  <1>5. LET n == Failed(m)
        IN  /\ n.active_connections = SatSub(m.active_connections)
            /\ n.total_dials = m.total_dials /\ n.total_errors = m.total_errors + 1
            /\ n.recent_errors \in {m.recent_errors + 1, U32Max} /\ n.rtt = m.rtt
    BY <1>1, U32MaxAssumption DEF Failed
  <1> QED
    BY <1>1, <1>2, <1>3, <1>4, <1>5, Zenon

\* The metrics with another row at idx, if there is a row at idx.
WithRow(idx, row) == IF idx < Len(metrics) THEN [metrics EXCEPT ![idx + 1] = row] ELSE metrics

\* metrics.get_mut(idx) changes the row at idx, if there is one, and no other.
LEMMA UpdateRows ==
    ASSUME metrics \in Seq(TunnelMetrics), NEW idx \in Nat, NEW row
    PROVE  /\ Len(WithRow(idx, row)) = Len(metrics)
           /\ \A j \in 1..Len(metrics) :
                  WithRow(idx, row)[j] = IF j = idx + 1 THEN row ELSE metrics[j]
  <1>1. metrics \in [1..Len(metrics) -> TunnelMetrics] /\ Len(metrics) \in Nat
    BY LenProperties
  <1>2. CASE idx < Len(metrics)
    <2>1. WithRow(idx, row) = [j \in 1..Len(metrics) |-> IF j = idx + 1 THEN row ELSE metrics[j]]
      BY <1>1, <1>2, Zenon DEF WithRow
    <2> QED
      BY <1>1, <2>1
  <1>3. CASE ~(idx < Len(metrics))
    <2>1. WithRow(idx, row) = metrics
      BY <1>3, Zenon DEF WithRow
    <2> QED
      BY <1>1, <1>3, <2>1
  <1> QED
    BY <1>2, <1>3

-----------------------------------------------------------------------------
(* What the steps do to the metrics and to the strategy.                   *)

\* The caller's step is the pick of index i.
PicksAt(t, i) == /\ PcOf(t) = "strategy_wait" /\ i \in Indices(metrics)
                 /\ \E addr \in Addr : i \in PickIndex(strategy, addr, metrics)
                 /\ PickAt(t, i)

\* A pick counts one row and changes no other.
LEMMA PickRows ==
    ASSUME TypeOK, Structure, NEW t \in Task, Pick(t)
    PROVE  \E i \in Indices(metrics) :
              /\ PicksAt(t, i) /\ i + 1 \in 1..Len(metrics) /\ Len(metrics) > 0
              /\ \A j \in 1..Len(metrics) :
                     metrics'[j] = IF j = i + 1 THEN Picked(metrics[j]) ELSE metrics[j]
  <1>1. metrics \in Seq(TunnelMetrics) /\ Len(metrics) \in Nat /\ Len(metrics) > 0
    BY LenProperties DEF Pick, Structure, TypeOK, Dialing
  <1>a. PICK addr \in Addr : \E i \in PickIndex(strategy, addr, metrics) : PickAt(t, i)
    BY DEF Pick
  <1>2. PICK i \in PickIndex(strategy, addr, metrics) : PickAt(t, i)
    BY <1>a
  <1>3. i \in Indices(metrics)
    BY <1>1, PickInRange DEF TypeOK
  <1>4. i \in Nat /\ i + 1 \in 1..Len(metrics) /\ i < Len(metrics)
    BY <1>1, <1>3 DEF Indices
  <1>5. metrics' = WithRow(i, Picked(metrics[i + 1]))
    BY <1>2, <1>4 DEF PickAt, WithRow
  <1>6. \A j \in 1..Len(metrics) :
            metrics'[j] = IF j = i + 1 THEN Picked(metrics[j]) ELSE metrics[j]
    BY <1>1, <1>4, <1>5, UpdateRows, Zenon
  <1>7. PicksAt(t, i)
    BY <1>2, <1>3 DEF PicksAt, Pick
  <1> QED
    BY <1>1, <1>3, <1>4, <1>6, <1>7, Zenon

\* The other steps of a caller count no dial, count an error only for a dial that
\* failed, and tell the strategy of an error only.
LEMMA OtherRows ==
    ASSUME TypeOK, Structure, NEW t \in Task, TaskStep(t) \/ TaskCall(t), ~Pick(t)
    PROVE  /\ \A j \in 1..Len(metrics) :
                  /\ metrics'[j] \in {metrics[j], Succeeded(metrics[j]), Failed(metrics[j]),
                                      Dropped(metrics[j])}
                  /\ \/ metrics'[j] \in {metrics[j], Succeeded(metrics[j]), Dropped(metrics[j])}
                     \/ RecordError(t) /\ j = tasks[t].idx + 1
           /\ \/ strategy' = strategy
              \/ ReportErr(t) /\ strategy' = ReportError(strategy, tasks[t].idx)
  <1>1. metrics \in Seq(TunnelMetrics) /\ tasks[t].idx \in Nat
    BY DEF TypeOK, TaskState
  <1> DEFINE idx == tasks[t].idx
  <1>2. CASE DialStart(t) \/ PickAcquire(t) \/ DialReturns(t) \/ RecordAcquire(t) \/ CancelDial(t)
             \/ GuardDropCheck(t)
    <2>1. metrics' = metrics /\ strategy' = strategy
      BY <1>2 DEF DialStart, PickAcquire, DialReturns, RecordAcquire, CancelDial, GuardDropCheck
    <2> QED
      BY <2>1, Zenon
  <1>3. CASE ReportOk(t) \/ ReportErr(t)
    BY <1>3 DEF ReportOk, ReportSuccess, ReportErr
  <1>4. CASE RecordSuccess(t)
    <2>1. /\ strategy' = strategy
          /\ metrics' = WithRow(idx, Succeeded(metrics[idx + 1]))
      BY <1>4, Zenon DEF RecordSuccess, Update, WithRow
    <2>2. \A j \in 1..Len(metrics) :
              metrics'[j] = IF j = idx + 1 THEN Succeeded(metrics[idx + 1]) ELSE metrics[j]
      BY <1>1, <2>1, UpdateRows, Zenon
    <2> QED
      BY <2>1, <2>2, Zenon
  <1>5. CASE RecordError(t)
    <2>1. /\ strategy' = strategy
          /\ metrics' = WithRow(idx, Failed(metrics[idx + 1]))
      BY <1>5, Zenon DEF RecordError, Update, WithRow
    <2>2. \A j \in 1..Len(metrics) :
              metrics'[j] = IF j = idx + 1 THEN Failed(metrics[idx + 1]) ELSE metrics[j]
      BY <1>1, <2>1, UpdateRows, Zenon
    <2> QED
      BY <1>5, <2>1, <2>2, Zenon
  <1>6. CASE GuardDropTry(t) \/ GuardDrop(t)
    <2>1. /\ strategy' = strategy
          /\ \/ metrics' = metrics
             \/ metrics' = WithRow(idx, Dropped(metrics[idx + 1]))
      BY <1>6 DEF GuardDropTry, GuardDrop, TryDecrement, Update, WithRow
    <2>2. CASE metrics' = metrics
      BY <2>1, <2>2, Zenon
    <2>3. CASE metrics' # metrics
      <3>1. \A j \in 1..Len(metrics) :
                metrics'[j] = IF j = idx + 1 THEN Dropped(metrics[idx + 1]) ELSE metrics[j]
        <4>1. metrics' = WithRow(idx, Dropped(metrics[idx + 1]))
          BY <2>1, <2>3, Zenon
        <4> QED
          BY <1>1, <4>1, UpdateRows, Zenon
      <3> QED
        BY <2>1, <3>1, Zenon
    <2> QED
      BY <2>2, <2>3, Zenon
  <1> QED
    BY <1>2, <1>3, <1>4, <1>5, <1>6, Zenon DEF TaskStep, TaskCall

\* Only SetStrategy and the end of a replacement install a strategy; the admin
\* operations leave the one there is alone.
LEMMA AdminStrategy ==
    ASSUME AdminStep \/ AdminCall
    PROVE  strategy' = strategy \/ (\E k \in NewKinds : SetStrategy(k)) \/ ReplaceStrategy
  BY Zenon DEF AdminStep, AdminCall, AdminAcquire, AddCommit, RemoveCommit, BackendShutdown,
         RemoveEnd, ReplaceIds, ReplaceCommit, DrainCommit, ShutdownEnd, AddStart,
         RemoveBackend, RemoveBackendByPtr, RemoveBackendById, ReplaceStart, DrainStart,
         UndrainStart, ShutdownStart, CancelAdmin

\* Metrics rows come and go at the end of an addition, removal or replacement; a
\* drain marks one or clears its mark; no other admin step touches them.
LEMMA AdminRows ==
    ASSUME TypeOK, Structure, AdminStep \/ AdminCall
    PROVE  /\ \A j \in 1..Len(metrics') :
                 \/ metrics'[j] = DefaultMetrics
                 \/ \E i \in 1..Len(metrics) :
                       metrics'[j] \in {metrics[i], Drained(metrics[i]), Undrained(metrics[i])}
           /\ ~(AddCommit \/ RemoveCommit \/ ReplaceCommit) =>
                 /\ Len(metrics') = Len(metrics)
                 /\ \A j \in 1..Len(metrics) :
                       metrics'[j] \in {metrics[j], Drained(metrics[j]), Undrained(metrics[j])}
  <1>1. /\ metrics \in Seq(TunnelMetrics) /\ Len(metrics) \in Nat /\ admin.index \in Nat
        /\ admin.incoming \in Seq(Backend) /\ Len(admin.incoming) \in Nat
    BY LenProperties DEF TypeOK, AdminState
  <1>2. CASE AddCommit
    <2>1. metrics' = Append(metrics, DefaultMetrics) /\ DefaultMetrics \in TunnelMetrics
      BY <1>2, U32MaxAssumption DEF AddCommit, DefaultMetrics, TunnelMetrics, Rtt
    <2>2. /\ Len(metrics') = Len(metrics) + 1
          /\ \A j \in 1..Len(metrics) : metrics'[j] = metrics[j]
          /\ metrics'[Len(metrics) + 1] = DefaultMetrics
      BY <1>1, <2>1, AppendProperties
    <2>3. \A j \in 1..Len(metrics') : j \in 1..Len(metrics) \/ j = Len(metrics) + 1
      BY <1>1, <2>2
    <2> QED
      BY <1>2, <2>2, <2>3, Zenon
  <1>3. CASE RemoveCommit
    <2>1. admin.index + 1 \in 1..Len(metrics) /\ admin.index < Len(metrics)
      BY <1>1, <1>3, LenProperties DEF RemoveCommit, Structure, RemovePending, TypeOK
    <2>2. metrics' = RemoveAt(metrics, admin.index + 1)
      BY <1>3, <2>1 DEF RemoveCommit
    <2>3. /\ Len(metrics') = Len(metrics) - 1
          /\ \A j \in 1..(Len(metrics) - 1) :
                 metrics'[j] = IF j < admin.index + 1 THEN metrics[j] ELSE metrics[j + 1]
      BY <1>1, <2>1, <2>2, RemoveAtProperties
    <2>4. \A j \in 1..(Len(metrics) - 1) : j \in 1..Len(metrics) /\ j + 1 \in 1..Len(metrics)
      BY <1>1
    <2> QED
      BY <1>3, <2>3, <2>4, Zenon
  <1>4. CASE ReplaceCommit
    <2>1. metrics' = [i \in 1..Len(admin.incoming) |-> DefaultMetrics]
      BY <1>4 DEF ReplaceCommit
    <2>2. Len(metrics') = Len(admin.incoming)
      BY <1>1, <2>1
    <2> QED
      BY <1>4, <2>1, <2>2
  <1>5. CASE DrainCommit
    <2> DEFINE m == metrics[admin.index + 1]
    <2>1. PICK row \in {Drained(m), Undrained(m)} : metrics' = WithRow(admin.index, row)
      BY <1>5 DEF DrainCommit, Update, WithRow
    <2>2. /\ Len(metrics') = Len(metrics)
          /\ \A j \in 1..Len(metrics) :
                 metrics'[j] = IF j = admin.index + 1 THEN row ELSE metrics[j]
      BY <1>1, <2>1, UpdateRows, Zenon
    <2> QED
      BY <2>1, <2>2
  <1>6. CASE metrics' = metrics
    BY <1>6
  <1> QED
    BY <1>2, <1>3, <1>4, <1>5, <1>6, Zenon
    DEF AdminStep, AdminCall, AdminAcquire, BackendShutdown, RemoveEnd, ReplaceIds,
        ReplaceStrategy, ShutdownEnd, AddStart, RemoveBackend, RemoveBackendByPtr,
        RemoveBackendById, ReplaceStart, DrainStart, UndrainStart, SetStrategy,
        ShutdownStart, CancelAdmin
===============================================================================
