------------------------- MODULE BalancerCountProofs --------------------------
(* The counters of Balancer: active_connections is never too low when guards *)
(* are dropped on one thread and admin futures run to completion; and no     *)
(* count outweighs the marker of a drain.                                    *)
EXTENDS BalancerProofs

\* What each change of a row does to its count of connections.
LEMMA RowCounts ==
    ASSUME NEW m \in TunnelMetrics
    PROVE  /\ m.active_connections \in Nat
           /\ Picked(m).active_connections = m.active_connections + 1
           /\ \A n \in {Succeeded(m), Drained(m), Undrained(m)} :
                  n.active_connections = m.active_connections
           /\ Dropped(m).active_connections >= m.active_connections - 1
           /\ Failed(m).active_connections >= m.active_connections - 1
  <1>1. /\ m.active_connections \in Nat
        /\ Dropped(m).active_connections = SatSub(m.active_connections)
        /\ Failed(m).active_connections = SatSub(m.active_connections)
        /\ Picked(m).active_connections = m.active_connections + 1
        /\ \A n \in {Succeeded(m), Drained(m), Undrained(m)} :
               n.active_connections = m.active_connections
    BY RowFields
  <1> QED
    BY <1>1 DEF SatSub

-----------------------------------------------------------------------------
(* Where the counted callers are.                                          *)

\* A counted caller's backend was owned before it was dialed.  As long as the
\* generation is the caller's, its index still denotes that backend; a removal
\* or replacement in progress has left every counted caller a generation behind.
Known(s) ==
    /\ s.be \in Backend /\ fate[s.be] # "fresh" /\ s.be \notin Range(admin.incoming)
    /\ s.gen <= generation
    /\ admin.op \in {"remove", "replace"} => s.gen < generation
    /\ s.gen = generation /\ admin.op \notin {"shutdown", "closed"} =>
           s.idx < Len(backends) /\ backends[s.idx + 1] = s.be

KnownInv == \A t \in Task : PcOf(t) # "dropping" /\ (PcOf(t) \in Counted => Known(tasks[t]))

\* What the other theorems about Balancer establish.
Background == TypeOK /\ Structure /\ DialInv /\ AlignedInv /\ HandsOK /\ BackendLifecycle

\* A pick counts its caller on a backend of the pool; every other step of a caller
\* leaves it where it was counted, or no longer counts it.
LEMMA KnownTask ==
    ASSUME ~MultiThread, Background, KnownInv, NEW t \in Task, TaskStep(t) \/ TaskCall(t)
    PROVE  KnownInv'
  <1>1. /\ UNCHANGED <<backends, generation, admin, fate>>
        /\ \A u \in Task \ {t} : tasks'[u] = tasks[u]
    BY TaskFrame DEF Background
  <1>2. /\ tasks \in [Task -> TaskState] /\ DOMAIN tasks[t] = {"pc", "idx", "gen", "be"}
        /\ generation \in Nat /\ tasks[t].idx \in Nat /\ tasks[t].gen \in Nat
    BY DEF Background, TypeOK, TaskState
  <1> DEFINE Good(s) == s.pc # "dropping" /\ (s.pc \in Counted => Known(s))
  <1>3. Good(tasks[t])
    BY DEF KnownInv, PcOf
  <1>4. ASSUME NEW pc, pc # "dropping", pc \in Counted => PcOf(t) \in Counted,
               tasks' = [tasks EXCEPT ![t].pc = pc]
        PROVE  Good(tasks'[t])
    BY <1>2, <1>3, <1>4 DEF Known, PcOf
  <1>5. ASSUME tasks' = [tasks EXCEPT ![t] = IdleTask] PROVE Good(tasks'[t])
    BY <1>2, <1>5 DEF IdleTask, Counted
  <1>6. Good(tasks'[t])
    <2>1. CASE Pick(t)
      <3>1. admin.op = "none" /\ admin.incoming = <<>> /\ Len(metrics) > 0 /\ Len(metrics) = Len(backends)
        BY <2>1, LenProperties
        DEF Pick, Background, Structure, Dialing, HandsOK, TypeOK, AlignedInv, PoolEmptied, RemovePending
      <3>2. PICK i \in Indices(metrics) : PickAt(t, i)
        BY <2>1, <3>1, PickInRange DEF Pick, Background, TypeOK
      <3>3. i \in Nat /\ i < Len(backends) /\ i + 1 \in 1..Len(backends)
        BY <3>1, LenProperties DEF Indices, Background, TypeOK
      <3>4. tasks'[t] = [pc |-> "dialing", idx |-> i, gen |-> generation, be |-> backends[i + 1]]
        BY <1>2, <3>2, <3>3 DEF PickAt
      <3>5. backends[i + 1] \in Range(backends)
        BY <3>3, LenProperties DEF Range, Background, TypeOK
      <3>6. backends[i + 1] \in Backend /\ fate[backends[i + 1]] = "owned"
        BY <3>5 DEF Background, BackendLifecycle
      <3>7. Range(admin.incoming) = {}
        BY <3>1, EmptySequence
      <3> QED
        BY <1>2, <3>1, <3>3, <3>4, <3>6, <3>7 DEF Known
    <2>2. CASE DialStart(t) \/ PickAcquire(t) \/ DialReturns(t) \/ RecordAcquire(t)
               \/ RecordSuccess(t) \/ RecordError(t) \/ ReportOk(t)
      BY <1>4, <2>2, Zenon DEF DialStart, PickAcquire, DialReturns, RecordAcquire, RecordSuccess,
                        RecordError, ReportOk, Goto, PcOf, Counted
    <2>3. CASE ReportErr(t) \/ CancelDial(t) \/ GuardDrop(t)
      BY <1>5, <2>3 DEF ReportErr, CancelDial, GuardDrop, TryDecrement
    <2>4. ~GuardDropCheck(t) /\ ~GuardDropTry(t)
      BY DEF GuardDropCheck, GuardDropTry, KnownInv
    <2> QED
      BY <2>1, <2>2, <2>3, <2>4 DEF TaskStep, TaskCall
  <1>7. ASSUME NEW u \in Task PROVE Good(tasks'[u])
    BY <1>1, <1>6 DEF KnownInv, PcOf
  <1> QED
    BY <1>1, <1>7 DEF KnownInv, PcOf, Known

\* A removal or replacement advances the generation before it moves anything, an
\* addition appends, and what is added has never been dialed.
LEMMA KnownAdmin ==
    ASSUME ~CancelAdmins, Background, KnownInv, AdminStep \/ AdminCall
    PROVE  KnownInv'
  <1>1. /\ UNCHANGED tasks /\ \A t \in Task : PcOf(t) \notin Dialing
        /\ tasks \in [Task -> TaskState] /\ generation \in Nat
    BY AdminFrame DEF Background, TypeOK
  <1>2. \A t \in Task : tasks[t].idx \in Nat /\ tasks[t].gen \in Nat
    BY <1>1 DEF TaskState
  <1>m. /\ backends \in Seq(Backend) /\ Len(backends) \in Nat /\ fate \in [Backend -> Fate]
        /\ admin.incoming \in Seq(Backend) /\ Len(ids) \in Nat
        /\ DOMAIN admin = {"op", "at", "index", "id", "incoming", "leaving", "kind"}
    BY LenProperties DEF Background, TypeOK, AdminState
  <1>i. /\ IdleAdmin.op = "none" /\ IdleAdmin.incoming = <<>> /\ Range(<<>>) = {}
    BY EmptySequence DEF IdleAdmin
  <1>s. SUFFICES ASSUME NEW t \in Task, PcOf(t) \in Counted, Known(tasks[t])
                 PROVE  Known(tasks[t])'
    BY <1>1 DEF KnownInv, PcOf
  <1> DEFINE s == tasks[t]
             Loose == /\ s.be \in Backend /\ fate'[s.be] # "fresh"
                      /\ s.be \notin Range(admin'.incoming)
  <1>3. ASSUME Loose, generation' \in Nat, s.gen < generation' PROVE Known(tasks[t])'
    BY <1>1, <1>2, <1>3 DEF Known
  <1>4. ASSUME Loose, UNCHANGED <<backends, generation>>,
               admin'.op \in {"remove", "replace"} => admin.op \in {"remove", "replace"},
               admin.op \in {"shutdown", "closed"} => admin'.op \in {"shutdown", "closed"}
        PROVE  Known(tasks[t])'
    BY <1>1, <1>2, <1>4, <1>s DEF Known
  <1>5. CASE AdminAcquire \/ RemoveCommit \/ ReplaceIds
    <2>1. /\ UNCHANGED <<backends, generation, fate>>
          /\ admin'.incoming = admin.incoming /\ admin'.op = admin.op
      <3>1. CASE AdminAcquire
        BY <1>m, <3>1 DEF AdminAcquire
      <3>2. CASE RemoveCommit
        <4>1. admin.index < Len(metrics)
          BY <3>2, LenProperties
          DEF RemoveCommit, Background, Structure, RemovePending, TypeOK, AdminState
        <4> QED
          BY <1>m, <3>2, <4>1 DEF RemoveCommit
      <3>3. CASE ReplaceIds
        BY <1>m, <3>3 DEF ReplaceIds
      <3> QED
        BY <1>5, <3>1, <3>2, <3>3
    <2> QED
      BY <1>4, <1>s, <2>1 DEF Known
  <1>6. CASE BackendShutdown
    <2>1. /\ UNCHANGED <<backends, generation>> /\ fate' = [fate EXCEPT ![Head(admin.leaving)] = "down"]
          /\ admin'.incoming = admin.incoming /\ admin'.op = admin.op
      BY <1>m, <1>6 DEF BackendShutdown
    <2>2. s.be \in Backend /\ fate[s.be] # "fresh" /\ s.be \notin Range(admin.incoming)
      BY <1>s DEF Known
    <2> QED
      BY <1>m, <1>4, <2>1, <2>2
  <1>7. CASE RemoveEnd \/ ReplaceStrategy \/ DrainCommit
    <2>1. /\ UNCHANGED <<backends, generation, fate>> /\ admin' = IdleAdmin
          /\ admin.op \notin {"shutdown", "closed"}
      BY <1>7 DEF RemoveEnd, ReplaceStrategy, DrainCommit
    <2> QED
      BY <1>4, <1>i, <1>s, <2>1 DEF Known
  <1>8. CASE AddCommit
    <2>1. /\ UNCHANGED <<generation, fate>> /\ admin' = IdleAdmin /\ admin.op = "add"
          /\ backends' = backends \o admin.incoming /\ Len(admin.incoming) = 1
      BY <1>8 DEF AddCommit, Background, Structure
    <2>2. /\ Len(backends') = Len(backends) + 1
          /\ \A k \in 1..Len(backends) : backends'[k] = backends[k]
      <3>1. /\ Len(backends \o admin.incoming) = Len(backends) + Len(admin.incoming)
            /\ \A k \in 1..(Len(backends) + Len(admin.incoming)) :
                 (backends \o admin.incoming)[k] = IF k <= Len(backends) THEN backends[k]
                                                   ELSE admin.incoming[k - Len(backends)]
        BY <1>m, ConcatProperties, Zenon
      <3> QED
        BY <1>m, <2>1, <3>1
    <2> QED
      BY <1>1, <1>2, <1>i, <1>m, <1>s, <2>1, <2>2 DEF Known
  <1>9. CASE ReplaceCommit
    <2>1. /\ admin.op = "replace" /\ UNCHANGED <<generation, fate>> /\ admin'.incoming = <<>>
      BY <1>i, <1>m, <1>9 DEF ReplaceCommit
    <2> QED
      BY <1>1, <1>3, <1>i, <1>s, <2>1 DEF Known
  <1>10. CASE ShutdownEnd
    <2>1. /\ UNCHANGED <<backends, generation, fate>> /\ admin'.incoming = <<>>
          /\ admin'.op = "closed"
      BY <1>10 DEF ShutdownEnd, Begin, IdleAdmin
    <2> QED
      BY <1>4, <1>i, <1>s, <2>1 DEF Known
  <1>11. ASSUME NEW b \in Backend, NEW id, AddStart(b, id) PROVE Known(tasks[t])'
    <2>1. /\ UNCHANGED <<backends, generation>> /\ fate' = [fate EXCEPT ![b] = "owned"]
          /\ fate[b] = "fresh" /\ admin'.incoming = <<b>> /\ admin'.op = "add"
          /\ admin.op = "none"
      BY <1>11 DEF AddStart, Begin, IdleAdmin, LbExclusive
    <2>2. Range(<<b>>) = {b}
      BY SingleSequence
    <2>3. s.be \in Backend /\ fate[s.be] # "fresh"
      BY <1>s DEF Known
    <2> QED
      BY <1>m, <1>4, <2>1, <2>2, <2>3
  <1>12. ASSUME NEW i \in Nat, RemoveBackend(i) PROVE Known(tasks[t])'
    <2>1. generation' = generation + 1 /\ fate' = fate /\ admin'.incoming = <<>>
      BY <1>12 DEF RemoveBackend, Begin, IdleAdmin
    <2> QED
      BY <1>1, <1>2, <1>3, <1>i, <1>s, <2>1 DEF Known
  <1>13. ASSUME NEW new, NEW k, ReplaceStart(new, k) PROVE Known(tasks[t])'
    <2>1. /\ generation' = generation + 1 /\ admin'.incoming = new
          /\ \A b \in Range(new) : fate[b] = "fresh"
          /\ fate' = [b \in Backend |-> IF b \in Range(new) THEN "owned" ELSE fate[b]]
      BY <1>13 DEF ReplaceStart, Begin, IdleAdmin
    <2> QED
      BY <1>1, <1>2, <1>3, <1>s, <2>1 DEF Known
  <1>14. ASSUME NEW i, DrainStart(i) \/ UndrainStart(i) PROVE Known(tasks[t])'
    <2>1. /\ UNCHANGED <<backends, generation, fate>> /\ admin.op = "none"
          /\ admin'.op \in {"drain", "undrain"} /\ admin'.incoming = <<>>
      BY <1>14, Zenon DEF DrainStart, UndrainStart, Begin, IdleAdmin, LbExclusive
    <2> QED
      BY <1>4, <1>i, <1>s, <2>1 DEF Known
  <1>15. ASSUME NEW k, SetStrategy(k) PROVE Known(tasks[t])'
    BY <1>4, <1>15, <1>s DEF SetStrategy, Known
  <1>16. CASE ShutdownStart
    <2>1. /\ UNCHANGED <<generation, fate>> /\ admin'.op = "shutdown" /\ admin'.incoming = <<>>
      BY <1>16 DEF ShutdownStart, Begin, IdleAdmin
    <2> QED
      BY <1>1, <1>i, <1>s, <2>1 DEF Known
  <1>17. ASSUME AdminCall PROVE Known(tasks[t])'
    <2>1. \A b \in Backend : RemoveBackendByPtr(b) \/ RemoveBackendById(IdOf[b]) => Known(tasks[t])'
      <3>1. \A i \in 1..Len(backends) : RemoveBackend(i - 1) => Known(tasks[t])'
        BY <1>m, <1>12
      <3>2. \A i \in 1..Len(ids) : RemoveBackend(i - 1) => Known(tasks[t])'
        BY <1>m, <1>12
      <3> QED
        BY <3>1, <3>2 DEF RemoveBackendByPtr, RemoveBackendById
    <2>2. \A i \in 0..(MaxPool - 1) : i \in Nat
      BY BoundAssumption
    <2>3. ~CancelAdmin
      BY DEF CancelAdmin
    <2> QED
      BY <1>11, <1>12, <1>13, <1>14, <1>15, <1>16, <1>17, <2>1, <2>2, <2>3 DEF AdminCall
  <1> QED
    BY <1>5, <1>6, <1>7, <1>8, <1>9, <1>10, <1>17 DEF AdminStep

-----------------------------------------------------------------------------
(* The counts.                                                             *)

\* Every backend of the pool has a metrics row, one further on when a removal
\* before it is pending.
LEMMA RowInRange ==
    ASSUME TypeOK, Structure
    PROVE  /\ \A i \in 1..Len(backends) : Row(i) \in 1..Len(metrics)
           /\ ~RemovePending => \A i \in 1..Len(backends) : Row(i) = i
  <1>1. Len(backends) \in Nat /\ Len(metrics) \in Nat /\ admin.index \in Nat
    BY LenProperties DEF TypeOK, AdminState
  <1> QED
    BY <1>1 DEF Structure, Row

\* The callers counted on b when the callers are as in ts.
LiveAmong(ts, b) == {t \in Task : ts[t].pc \in Counted /\ ts[t].be = b}

\* The callers live on a backend change by the caller that takes the step only.
LEMMA LiveFrame ==
    ASSUME NEW t \in Task, \A u \in Task \ {t} : tasks'[u] = tasks[u], NEW b
    PROVE  /\ Live(b) \in SUBSET Task /\ LiveAmong(tasks', b) \in SUBSET Task
           /\ LiveAmong(tasks', b) \ {t} = Live(b) \ {t}
           /\ t \in Live(b) <=> PcOf(t) \in Counted /\ tasks[t].be = b
           /\ t \in LiveAmong(tasks', b) <=> PcOf(t)' \in Counted /\ tasks'[t].be = b
  BY DEF Live, LiveAmong, PcOf

\* A pick adds its caller to the row it has counted it in; a failed dial and a
\* guard of the current generation subtract from the row of their own backend.
LEMMA CountTask ==
    ASSUME ~MultiThread, Background, KnownInv, NeverUndercounted,
           NEW t \in Task, TaskStep(t) \/ TaskCall(t)
    PROVE  NeverUndercounted'
  <1>1. /\ UNCHANGED <<backends, generation, admin>> /\ Len(metrics') = Len(metrics)
        /\ \A u \in Task \ {t} : tasks'[u] = tasks[u]
    BY TaskFrame DEF Background
  <1>2. /\ tasks \in [Task -> TaskState] /\ DOMAIN tasks[t] = {"pc", "idx", "gen", "be"}
        /\ tasks[t].idx \in Nat /\ metrics \in Seq(TunnelMetrics) /\ Len(metrics) \in Nat
        /\ Len(backends) \in Nat
    BY LenProperties DEF Background, TypeOK, TaskState
  <1>3. \A j \in 1..Len(metrics) : metrics[j] \in TunnelMetrics
    BY <1>2, ElementOfSeq
  <1>4. /\ \A i \in 1..Len(backends) : Row(i) \in 1..Len(metrics) /\ Row(i)' = Row(i)
        /\ ~RemovePending => \A i \in 1..Len(backends) : Row(i) = i
    BY <1>1, RowInRange DEF Background, Row, RemovePending
  <1>5. \A b : /\ Live(b) \in SUBSET Task /\ LiveAmong(tasks', b) \in SUBSET Task
               /\ LiveAmong(tasks', b) \ {t} = Live(b) \ {t}
               /\ t \in Live(b) <=> PcOf(t) \in Counted /\ tasks[t].be = b
               /\ t \in LiveAmong(tasks', b) <=> PcOf(t)' \in Counted /\ tasks'[t].be = b
    BY <1>1, LiveFrame
  <1>6. \A i \in 1..Len(backends) :
            Cardinality(Live(backends[i])) <= metrics[Row(i)].active_connections
    BY DEF NeverUndercounted
  <1>u. ASSUME \A i \in 1..Len(backends) :
                   Cardinality(LiveAmong(tasks', backends[i])) <= metrics'[Row(i)].active_connections
        PROVE  NeverUndercounted'
    BY <1>1, <1>4, <1>u DEF NeverUndercounted, Live, LiveAmong, PcOf
  <1>7. ASSUME NEW b, t \in LiveAmong(tasks', b) => t \in Live(b)
        PROVE  /\ Cardinality(LiveAmong(tasks', b)) \in Nat /\ Cardinality(Live(b)) \in Nat
               /\ Cardinality(LiveAmong(tasks', b)) <= Cardinality(Live(b))
    <2>1. LiveAmong(tasks', b) \in SUBSET Live(b)
      BY <1>5, <1>7
    <2> QED
      BY <1>5, <2>1, CallerCounts
  <1>q. ASSUME \A b : t \in LiveAmong(tasks', b) => t \in Live(b),
               \A j \in 1..Len(metrics) :
                   metrics'[j].active_connections = metrics[j].active_connections
        PROVE  NeverUndercounted'
    <2>1. ASSUME NEW i \in 1..Len(backends)
          PROVE  Cardinality(LiveAmong(tasks', backends[i])) <= metrics'[Row(i)].active_connections
      <3>1. /\ Cardinality(LiveAmong(tasks', backends[i])) <= Cardinality(Live(backends[i]))
            /\ Cardinality(LiveAmong(tasks', backends[i])) \in Nat /\ Cardinality(Live(backends[i])) \in Nat
        BY <1>7, <1>q
      <3>2. metrics[Row(i)].active_connections \in Nat
        BY <1>3, <1>4, RowCounts
      <3> QED
        BY <1>4, <1>6, <1>q, <3>1, <3>2
    <2> QED
      BY <1>q, <1>u, <2>1
  <1>d. ASSUME NEW row, metrics' = WithRow(tasks[t].idx, row),
               PcOf(t) \in Counted, PcOf(t)' \notin Counted,
               tasks[t].idx < Len(metrics) =>
                   /\ row.active_connections \in Nat
                   /\ row.active_connections >= metrics[tasks[t].idx + 1].active_connections - 1,
               \A i \in 1..Len(backends) : Row(i) = tasks[t].idx + 1 => backends[i] = tasks[t].be
        PROVE  NeverUndercounted'
    <2>1. \A j \in 1..Len(metrics) :
              metrics'[j] = IF j = tasks[t].idx + 1 THEN row ELSE metrics[j]
      BY <1>2, <1>d, UpdateRows
    <2>3. ASSUME NEW i \in 1..Len(backends)
          PROVE  Cardinality(LiveAmong(tasks', backends[i])) <= metrics'[Row(i)].active_connections
      <3> DEFINE now == Cardinality(LiveAmong(tasks', backends[i]))
                 before == Cardinality(Live(backends[i]))
      <3>1. now <= before /\ now \in Nat /\ before \in Nat
        BY <1>5, <1>7, <1>d, Zenon
      <3>2. metrics[Row(i)].active_connections \in Nat /\ Row(i) \in 1..Len(metrics)
        BY <1>3, <1>4, RowCounts
      <3>3. before <= metrics[Row(i)].active_connections
        BY <1>6
      <3>4. CASE Row(i) = tasks[t].idx + 1
        <4>1. t \in Live(backends[i]) /\ LiveAmong(tasks', backends[i]) = Live(backends[i]) \ {t}
          BY <1>5, <1>d, <3>4
        <4>2. now = before - 1
          BY <1>5, <4>1, CallerCounts
        <4>3. metrics'[Row(i)] = row /\ tasks[t].idx < Len(metrics)
          BY <1>2, <2>1, <3>2, <3>4
        <4> HIDE DEF now, before
        <4>4. metrics'[Row(i)].active_connections >= metrics[Row(i)].active_connections - 1
          BY <1>d, <3>4, <4>3
        <4>5. metrics'[Row(i)].active_connections \in Nat
          BY <1>d, <4>3
        <4>6. now <= metrics'[Row(i)].active_connections
          BY <3>1, <3>2, <3>3, <4>2, <4>4, <4>5
        <4> QED
          BY <4>6 DEF now
      <3>5. CASE Row(i) # tasks[t].idx + 1
        <4> HIDE DEF now, before
        <4>1. now <= metrics'[Row(i)].active_connections
          BY <2>1, <3>1, <3>2, <3>3, <3>5
        <4> QED
          BY <4>1 DEF now
      <3> QED
        BY <3>4, <3>5
    <2> QED
      BY <1>u, <2>3
  <1>8. CASE DialStart(t) \/ PickAcquire(t) \/ DialReturns(t) \/ RecordAcquire(t)
             \/ ReportOk(t) \/ ReportErr(t) \/ CancelDial(t)
    <2>1. metrics' = metrics
      BY <1>8 DEF DialStart, PickAcquire, DialReturns, RecordAcquire, ReportOk, ReportErr, CancelDial
    <2>2. PcOf(t)' \in Counted => PcOf(t) \in Counted /\ tasks'[t].be = tasks[t].be
      BY <1>2, <1>8 DEF DialStart, PickAcquire, DialReturns, RecordAcquire, ReportOk, ReportErr,
                        CancelDial, Goto, PcOf, Counted, IdleTask
    <2> QED
      BY <1>3, <1>5, <1>q, <2>1, <2>2
  <1>9. CASE RecordSuccess(t)
    <2>1. /\ metrics' = WithRow(tasks[t].idx, Succeeded(metrics[tasks[t].idx + 1]))
          /\ PcOf(t) \in Counted /\ tasks'[t].be = tasks[t].be
      BY <1>2, <1>9 DEF RecordSuccess, Update, WithRow, Goto, PcOf, Counted
    <2>2. \A j \in 1..Len(metrics) :
              metrics'[j] = IF j = tasks[t].idx + 1 THEN Succeeded(metrics[j]) ELSE metrics[j]
      BY <1>2, <2>1, UpdateRows, SMTT(30)
    <2>3. \A j \in 1..Len(metrics) :
              metrics'[j].active_connections = metrics[j].active_connections
      BY <1>3, <2>2, RowCounts
    <2> QED
      BY <1>5, <1>q, <2>1, <2>3, Zenon
  <1>10. CASE Pick(t)
    <2>1. /\ ~RemovePending /\ Len(metrics) > 0 /\ Len(metrics) = Len(backends)
      <3>1. PcOf(t) \in Dialing
        BY <1>10 DEF Pick, Dialing
      <3>2. admin.op = "none" /\ backends # <<>>
        BY <3>1, Zenon DEF Background, Structure
      <3>3. ~RemovePending /\ ~PoolEmptied
        BY <3>2 DEF RemovePending, PoolEmptied
      <3>4. Len(metrics) = Len(backends)
        BY <1>2, <3>3 DEF Background, AlignedInv
      <3>5. Len(backends) > 0
        BY <3>2, EmptySeq DEF Background, TypeOK
      <3> QED
        BY <3>3, <3>4, <3>5
    <2>2. PICK k \in Indices(metrics) : PickAt(t, k)
      BY <1>10, <2>1, PickInRange DEF Pick, Background, TypeOK
    <2>3. k \in Nat /\ k < Len(metrics) /\ k + 1 \in 1..Len(metrics)
      BY <1>2 DEF Indices
    <2>4. /\ tasks'[t] = [pc |-> "dialing", idx |-> k, gen |-> generation, be |-> backends[k + 1]]
          /\ metrics' = WithRow(k, Picked(metrics[k + 1]))
      BY <1>2, <2>1, <2>2, <2>3 DEF PickAt, WithRow
    <2>5. \A j \in 1..Len(metrics) :
              metrics'[j] = IF j = k + 1 THEN Picked(metrics[j]) ELSE metrics[j]
      BY <1>2, <2>3, <2>4, UpdateRows
    <2>7. ASSUME NEW i \in 1..Len(backends)
          PROVE  Cardinality(LiveAmong(tasks', backends[i])) <= metrics'[Row(i)].active_connections
      <3>1. Row(i) = i /\ i \in 1..Len(metrics) /\ metrics[i].active_connections \in Nat
        BY <1>3, <1>4, <2>1, RowCounts, Zenon
      <3>2. /\ Cardinality(Live(backends[i])) <= metrics[i].active_connections
            /\ Cardinality(Live(backends[i])) \in Nat
        BY <1>5, <1>6, <3>1, CallerCounts, Zenon
      <3>3. CASE i = k + 1
        <4>1. LiveAmong(tasks', backends[i]) \in SUBSET (Live(backends[i]) \cup {t})
          BY <1>5
        <4>2. /\ Cardinality(LiveAmong(tasks', backends[i])) <= Cardinality(Live(backends[i]) \cup {t})
              /\ Cardinality(Live(backends[i]) \cup {t}) <= Cardinality(Live(backends[i])) + 1
              /\ Cardinality(LiveAmong(tasks', backends[i])) \in Nat
              /\ Cardinality(Live(backends[i]) \cup {t}) \in Nat
          <5>1. Live(backends[i]) \cup {t} \in SUBSET Task
            BY <1>5
          <5> QED
            BY <1>5, <4>1, <5>1, CallerCounts, Zenon
        <4>3. metrics'[i].active_connections = metrics[i].active_connections + 1
          BY <1>3, <2>5, <3>1, <3>3, RowCounts, Zenon
        <4> QED
          BY <3>1, <3>2, <4>2, <4>3, SMTT(30)
      <3>4. CASE i # k + 1
        <4>1. backends[i] # backends[k + 1]
          <5>1. DOMAIN backends = 1..Len(backends) /\ IsInjective(backends)
            BY LenProperties, Zenon DEF Background, BackendLifecycle, TypeOK
          <5>2. i \in DOMAIN backends /\ k + 1 \in DOMAIN backends
            BY <2>1, <2>3, <5>1
          <5> QED
            BY <3>4, <5>1, <5>2 DEF IsInjective
        <4>2. t \notin LiveAmong(tasks', backends[i])
          <5>1. tasks'[t].be = backends[k + 1]
            BY <2>4
          <5>2. t \in LiveAmong(tasks', backends[i]) => tasks'[t].be = backends[i]
            BY DEF LiveAmong
          <5> QED
            BY <4>1, <5>1, <5>2
        <4>3. Cardinality(LiveAmong(tasks', backends[i])) <= Cardinality(Live(backends[i]))
              /\ Cardinality(LiveAmong(tasks', backends[i])) \in Nat
          BY <1>7, <4>2
        <4> QED
          BY <2>5, <3>1, <3>2, <3>4, <4>3, SMTT(30)
      <3> QED
        BY <3>3, <3>4
    <2> QED
      BY <1>u, <2>7
  <1>11. CASE RecordError(t)
    <2> DEFINE m == metrics[tasks[t].idx + 1]
    <2>1. /\ metrics' = WithRow(tasks[t].idx, Failed(m))
          /\ PcOf(t) = "err_locked" /\ PcOf(t)' = "err_report"
      BY <1>2, <1>11 DEF RecordError, Update, WithRow, Goto, PcOf
    <2>2. PcOf(t) \in Counted /\ PcOf(t)' \notin Counted /\ PcOf(t) \in Dialing
      BY <2>1 DEF Counted, Dialing
    <2>3. ~RemovePending /\ tasks[t].be # NoBackend
      BY <2>2, BackendAssumption, Zenon DEF Background, Structure, RemovePending, KnownInv, Known
    <2>4. tasks[t].idx < Len(backends) /\ backends[tasks[t].idx + 1] = tasks[t].be
      BY <2>2, <2>3 DEF Background, DialInv
    <2>5. \A i \in 1..Len(backends) : Row(i) = tasks[t].idx + 1 => backends[i] = tasks[t].be
      BY <1>4, <2>3, <2>4
    <2>6. /\ tasks[t].idx + 1 \in 1..Len(backends) /\ Row(tasks[t].idx + 1) = tasks[t].idx + 1
          /\ tasks[t].idx + 1 \in 1..Len(metrics)
      BY <1>2, <1>4, <2>3, <2>4
    <2>7. m \in TunnelMetrics
      BY <1>3, <2>6
    <2>9. /\ Failed(m).active_connections \in Nat
          /\ Failed(m).active_connections >= m.active_connections - 1
      <3>1. Failed(m) \in TunnelMetrics
        BY <2>7, RowTypes
      <3> QED
        BY <2>7, <3>1, RowCounts
    <2> QED
      BY <1>d, <2>1, <2>2, <2>5, <2>9, Zenon
  <1>12. CASE GuardDrop(t)
    <2> DEFINE m == metrics[tasks[t].idx + 1]
    <2>1. PcOf(t) = "open" /\ PcOf(t)' = "idle"
      BY <1>2, <1>12 DEF GuardDrop, TryDecrement, IdleTask, PcOf
    <2>2. PcOf(t) \in Counted /\ PcOf(t)' \notin Counted
      BY <2>1 DEF Counted
    <2>3. CASE metrics' = metrics
      BY <1>3, <1>5, <1>q, <2>2, <2>3
    <2>4. CASE metrics' # metrics
      <3>1. /\ metrics' = WithRow(tasks[t].idx, Dropped(m))
            /\ tasks[t].gen = generation
        BY <1>12, <2>4 DEF GuardDrop, TryDecrement, Update, WithRow, GenerationCurrent
      <3>2. Known(tasks[t]) /\ generation \in Nat
        BY <2>2 DEF KnownInv, Background, TypeOK
      <3>3. \A i \in 1..Len(backends) : Row(i) = tasks[t].idx + 1 => backends[i] = tasks[t].be
        <4>1. CASE admin.op \in {"shutdown", "closed"}
          BY <4>1 DEF Background, Structure, PoolEmptied
        <4>2. CASE admin.op \notin {"shutdown", "closed"}
          <5>1. ~RemovePending
            BY <3>1, <3>2 DEF Known, RemovePending
          <5>2. backends[tasks[t].idx + 1] = tasks[t].be
            BY <3>1, <3>2, <4>2 DEF Known
          <5> QED
            BY <1>4, <5>1, <5>2
        <4> QED
          BY <4>1, <4>2
      <3>4. tasks[t].idx < Len(metrics) =>
                /\ Dropped(m).active_connections \in Nat
                /\ Dropped(m).active_connections >= m.active_connections - 1
        <4>1. SUFFICES ASSUME tasks[t].idx < Len(metrics)
                       PROVE  /\ Dropped(m).active_connections \in Nat
                              /\ Dropped(m).active_connections >= m.active_connections - 1
          BY Zenon
        <4>2. m \in TunnelMetrics
          BY <1>2, <1>3, <4>1
        <4>3. Dropped(m) \in TunnelMetrics
          BY <4>2, RowTypes
        <4> QED
          BY <4>2, <4>3, RowCounts, Zenon
      <3> QED
        BY <1>d, <2>2, <3>1, <3>3, <3>4, Zenon
    <2> QED
      BY <2>3, <2>4
  <1>13. ~GuardDropCheck(t) /\ ~GuardDropTry(t)
    BY DEF GuardDropCheck, GuardDropTry, KnownInv
  <1> QED
    BY <1>8, <1>9, <1>10, <1>11, <1>12, <1>13 DEF TaskStep, TaskCall

\* An admin operation changes no caller: rows move with their backends, and what
\* is added has no callers.
LEMMA CountAdmin ==
    ASSUME ~CancelAdmins, Background, KnownInv, NeverUndercounted,
           AdminStep \/ AdminCall
    PROVE  NeverUndercounted'
  <1>1. UNCHANGED tasks /\ \A b : LiveAmong(tasks, b) \in SUBSET Task
    BY AdminFrame DEF Background, LiveAmong
  <1>2. /\ backends \in Seq(Backend) /\ metrics \in Seq(TunnelMetrics)
        /\ Len(backends) \in Nat /\ Len(metrics) \in Nat /\ Len(ids) \in Nat
        /\ admin.index \in Nat /\ admin.incoming \in Seq(Backend) /\ Len(admin.incoming) \in Nat
        /\ DOMAIN admin = {"op", "at", "index", "id", "incoming", "leaving", "kind"}
    BY LenProperties DEF Background, TypeOK, AdminState
  <1>3. \A j \in 1..Len(metrics) : metrics[j] \in TunnelMetrics
    BY <1>2, ElementOfSeq
  <1>4. \A i \in 1..Len(backends) : Row(i) \in 1..Len(metrics)
    BY RowInRange DEF Background
  <1>5. \A i \in 1..Len(backends) :
            Cardinality(LiveAmong(tasks, backends[i])) <= metrics[Row(i)].active_connections
    BY DEF NeverUndercounted, Live, LiveAmong, PcOf
  <1>6. DefaultMetrics.active_connections = 0
    BY DEF DefaultMetrics
  <1>7. \A k \in 1..Len(admin.incoming) : Cardinality(LiveAmong(tasks, admin.incoming[k])) = 0
    <2> SUFFICES ASSUME NEW k \in 1..Len(admin.incoming)
                 PROVE  Cardinality(LiveAmong(tasks, admin.incoming[k])) = 0
      OBVIOUS
    <2>1. admin.incoming[k] \in Range(admin.incoming)
      BY <1>2, LenProperties DEF Range
    <2>2. LiveAmong(tasks, admin.incoming[k]) = {}
      BY <2>1 DEF LiveAmong, KnownInv, Known, PcOf
    <2> QED
      BY <2>2, FS_EmptySet
  <1>u. ASSUME \A i \in 1..Len(backends') :
                   Cardinality(LiveAmong(tasks, backends'[i])) <= metrics'[Row(i)'].active_connections
        PROVE  NeverUndercounted'
    BY <1>1, <1>u, Zenon DEF NeverUndercounted, Live, LiveAmong, PcOf
  <1>s. ASSUME UNCHANGED <<backends, metrics>>, RemovePending' <=> RemovePending,
               RemovePending => admin'.index = admin.index
        PROVE  NeverUndercounted'
    <2>1. \A i \in 1..Len(backends) : Row(i)' = Row(i)
      BY <1>s DEF Row
    <2> QED
      BY <1>3, <1>5, <1>s, <1>u, <2>1
  <1>e. ASSUME backends' = <<>>, metrics' = metrics PROVE NeverUndercounted'
    BY <1>3, <1>e, <1>u
  <1>8. CASE AdminAcquire \/ BackendShutdown \/ RemoveEnd \/ ReplaceIds \/ ReplaceStrategy
             \/ ShutdownEnd
    <2>1. UNCHANGED <<backends, metrics>>
      BY <1>8 DEF AdminAcquire, BackendShutdown, RemoveEnd, ReplaceIds, ReplaceStrategy, ShutdownEnd
    <2>2. (RemovePending' <=> RemovePending) /\ (RemovePending => admin'.index = admin.index)
      <3>1. CASE AdminAcquire
        BY <1>2, <3>1 DEF AdminAcquire, RemovePending
      <3>2. CASE BackendShutdown
        BY <1>2, <3>2 DEF BackendShutdown, RemovePending
      <3>3. CASE ReplaceIds
        BY <1>2, <3>3 DEF ReplaceIds, RemovePending
      <3>4. CASE RemoveEnd \/ ReplaceStrategy \/ ShutdownEnd
        <4>1. ~RemovePending
          BY <3>4 DEF RemoveEnd, ReplaceStrategy, ShutdownEnd, RemovePending
        <4>2. admin'.op \in {"none", "closed"}
          <5>1. CASE ShutdownEnd
            BY <5>1 DEF ShutdownEnd, Begin, IdleAdmin
          <5>2. CASE RemoveEnd \/ ReplaceStrategy
            BY <5>2 DEF RemoveEnd, ReplaceStrategy, IdleAdmin
          <5> QED
            BY <3>4, <5>1, <5>2
        <4> QED
          BY <4>1, <4>2 DEF RemovePending
      <3> QED
        BY <1>8, <3>1, <3>2, <3>3, <3>4
    <2> QED
      BY <1>s, <2>1, <2>2
  <1>9. CASE DrainCommit
    <2> DEFINE m == metrics[admin.index + 1]
    <2>1. /\ UNCHANGED backends /\ ~RemovePending /\ ~RemovePending'
          /\ \E row \in {Drained(m), Undrained(m)} : metrics' = WithRow(admin.index, row)
      BY <1>9 DEF DrainCommit, Update, WithRow, RemovePending, IdleAdmin
    <2>2. PICK row \in {Drained(m), Undrained(m)} : metrics' = WithRow(admin.index, row)
      BY <2>1, Zenon
    <2>3. /\ Len(metrics') = Len(metrics)
          /\ \A j \in 1..Len(metrics) :
                 metrics'[j] = IF j = admin.index + 1 THEN row ELSE metrics[j]
      BY <1>2, <2>2, UpdateRows
    <2>4. \A j \in 1..Len(metrics) :
              metrics'[j].active_connections = metrics[j].active_connections
      BY <1>3, <2>2, <2>3, RowCounts
    <2>5. \A i \in 1..Len(backends) : Row(i)' = Row(i)
      BY <2>1 DEF Row
    <2> QED
      BY <1>4, <1>5, <1>u, <2>1, <2>3, <2>4, <2>5, Zenon
  <1>10. CASE AddCommit
    <2>1. /\ backends' = backends \o admin.incoming /\ metrics' = Append(metrics, DefaultMetrics)
          /\ Len(admin.incoming) = 1 /\ ~RemovePending /\ ~RemovePending'
          /\ Len(metrics) = Len(backends)
      <3>1. /\ admin.op = "add" /\ admin.at = "locked" /\ admin' = IdleAdmin
            /\ backends' = backends \o admin.incoming /\ metrics' = Append(metrics, DefaultMetrics)
        BY <1>10 DEF AddCommit
      <3>2. ~RemovePending /\ ~RemovePending' /\ ~PoolEmptied
        BY <3>1 DEF RemovePending, PoolEmptied, IdleAdmin
      <3>3. Len(metrics) = Len(backends)
        BY <3>1, <3>2 DEF Background, AlignedInv
      <3>4. Len(admin.incoming) = 1
        BY <3>1 DEF Background, Structure
      <3> QED
        BY <3>1, <3>2, <3>3, <3>4
    <2>2. /\ Len(backends') = Len(backends) + 1
          /\ \A k \in 1..Len(backends) : backends'[k] = backends[k]
          /\ backends'[Len(backends) + 1] = admin.incoming[1]
      <3>1. /\ Len(backends \o admin.incoming) = Len(backends) + Len(admin.incoming)
            /\ \A k \in 1..(Len(backends) + Len(admin.incoming)) :
                 (backends \o admin.incoming)[k] = IF k <= Len(backends) THEN backends[k]
                                                   ELSE admin.incoming[k - Len(backends)]
        BY <1>2, ConcatProperties, Zenon
      <3> QED
        BY <1>2, <2>1, <3>1
    <2>3. /\ Len(metrics') = Len(metrics) + 1
          /\ \A j \in 1..Len(metrics) : metrics'[j] = metrics[j]
          /\ metrics'[Len(metrics) + 1] = DefaultMetrics
      <3>1. DefaultMetrics \in TunnelMetrics
        BY U32MaxAssumption DEF DefaultMetrics, TunnelMetrics, Rtt
      <3> QED
        BY <1>2, <2>1, <3>1, AppendProperties
    <2>4. /\ \A i \in 1..Len(backends) : Row(i) = i
          /\ \A i \in 1..Len(backends') : Row(i)' = i
      BY <2>1 DEF Row
    <2>6. ASSUME NEW i \in 1..Len(backends')
          PROVE  Cardinality(LiveAmong(tasks, backends'[i])) <= metrics'[Row(i)'].active_connections
      <3>1. CASE i \in 1..Len(backends)
        BY <1>5, <2>1, <2>2, <2>3, <2>4, <3>1
      <3>2. CASE i = Len(backends) + 1
        BY <1>2, <1>6, <1>7, <2>1, <2>2, <2>3, <2>4, <3>2
      <3> QED
        BY <1>2, <2>2, <3>1, <3>2
    <2> QED
      BY <1>u, <2>6
  <1>11. CASE RemoveCommit
    <2>1. /\ RemovePending /\ Len(metrics) = Len(backends) + 1 /\ admin.index <= Len(backends)
          /\ admin.index + 1 \in 1..Len(metrics)
      BY <1>2, <1>11 DEF RemoveCommit, Background, Structure, AlignedInv, PoolEmptied, RemovePending
    <2>2. /\ metrics' = RemoveAt(metrics, admin.index + 1) /\ UNCHANGED backends /\ ~RemovePending'
      BY <1>2, <1>11, <2>1 DEF RemoveCommit, RemovePending
    <2>3. /\ Len(metrics') = Len(metrics) - 1
          /\ \A j \in 1..(Len(metrics) - 1) :
                 metrics'[j] = IF j < admin.index + 1 THEN metrics[j] ELSE metrics[j + 1]
      BY <1>2, <2>1, <2>2, RemoveAtProperties, Zenon
    <2>4. \A i \in 1..Len(backends) :
              Row(i)' = i /\ Row(i) = IF i > admin.index THEN i + 1 ELSE i
      BY <2>1, <2>2 DEF Row
    <2>5. \A i \in 1..Len(backends) : metrics'[Row(i)'] = metrics[Row(i)]
      BY <1>2, <2>1, <2>3, <2>4
    <2> QED
      BY <1>5, <1>u, <2>2, <2>5
  <1>12. CASE ReplaceCommit
    <2>1. /\ backends' = admin.incoming /\ ~RemovePending'
          /\ metrics' = [i \in 1..Len(admin.incoming) |-> DefaultMetrics]
      BY <1>2, <1>12 DEF ReplaceCommit, RemovePending, IdleAdmin
    <2>2. Len(metrics') = Len(admin.incoming) /\ \A i \in 1..Len(admin.incoming) : Row(i)' = i
      BY <1>2, <2>1 DEF Row
    <2> QED
      BY <1>6, <1>7, <1>u, <2>1, <2>2
  <1>13. ASSUME NEW i \in Nat, RemoveBackend(i) PROVE NeverUndercounted'
    <2>1. /\ backends' = RemoveAt(backends, i + 1) /\ i + 1 \in 1..Len(backends)
          /\ metrics' = metrics /\ ~RemovePending /\ RemovePending' /\ admin'.index = i
      BY <1>2, <1>13 DEF RemoveBackend, RemovePending, LbExclusive, Begin, IdleAdmin
    <2>2. /\ Len(backends') = Len(backends) - 1
          /\ \A j \in 1..(Len(backends) - 1) :
                 backends'[j] = IF j < i + 1 THEN backends[j] ELSE backends[j + 1]
      BY <1>2, <2>1, RemoveAtProperties, Zenon
    <2>3. /\ \A j \in 1..Len(backends) : Row(j) = j
          /\ \A j \in 1..Len(backends') : Row(j)' = IF j > i THEN j + 1 ELSE j
      BY <2>1 DEF Row
    <2>4. ASSUME NEW j \in 1..Len(backends')
          PROVE  Cardinality(LiveAmong(tasks, backends'[j])) <= metrics'[Row(j)'].active_connections
      <3> DEFINE k == IF j > i THEN j + 1 ELSE j
      <3>1. k \in 1..Len(backends) /\ backends'[j] = backends[k] /\ Row(j)' = k /\ Row(k) = k
        BY <1>2, <2>2, <2>3
      <3> HIDE DEF k
      <3> QED
        BY <1>5, <2>1, <3>1
    <2> QED
      BY <1>3, <1>u, <2>1, <2>4
  <1>14. ASSUME NEW new, NEW k, ReplaceStart(new, k) PROVE NeverUndercounted'
    BY <1>14, <1>e DEF ReplaceStart
  <1>15. CASE ShutdownStart
    BY <1>15, <1>e DEF ShutdownStart
  <1>16. ASSUME NEW b, NEW id, AddStart(b, id) PROVE NeverUndercounted'
    BY <1>16, <1>s DEF AddStart, RemovePending, LbExclusive, Begin, IdleAdmin
  <1>17. ASSUME NEW i, DrainStart(i) \/ UndrainStart(i) PROVE NeverUndercounted'
    BY <1>17, <1>s, Zenon DEF DrainStart, UndrainStart, RemovePending, LbExclusive, Begin, IdleAdmin
  <1>18. ASSUME NEW k, SetStrategy(k) PROVE NeverUndercounted'
    BY <1>18, <1>s DEF SetStrategy, RemovePending
  <1>19. ASSUME AdminCall PROVE NeverUndercounted'
    <2>1. \A b \in Backend : RemoveBackendByPtr(b) \/ RemoveBackendById(IdOf[b])
                             => NeverUndercounted'
      <3>1. \A i \in 1..Len(backends) : RemoveBackend(i - 1) => NeverUndercounted'
        BY <1>2, <1>13
      <3>2. \A i \in 1..Len(ids) : RemoveBackend(i - 1) => NeverUndercounted'
        BY <1>2, <1>13
      <3> QED
        BY <3>1, <3>2, Zenon DEF RemoveBackendByPtr, RemoveBackendById
    <2>2. \A i \in 0..(MaxPool - 1) : i \in Nat
      BY BoundAssumption
    <2>3. ~CancelAdmin
      BY DEF CancelAdmin
    <2> QED
      BY <1>13, <1>14, <1>15, <1>16, <1>17, <1>18, <1>19, <2>1, <2>2, <2>3 DEF AdminCall
  <1> QED
    BY <1>8, <1>9, <1>10, <1>11, <1>12, <1>19 DEF AdminStep

\* The invariant of the counts.
CountInv == KnownInv /\ NeverUndercounted

\* A new balancer has no callers and counts none.
LEMMA CountStart == Init => CountInv
  <1> SUFFICES ASSUME Init PROVE CountInv
    OBVIOUS
  <1>1. \A t \in Task : PcOf(t) = "idle"
    BY DEF Init, IdleTask, PcOf
  <1>2. \A b : Cardinality(Live(b)) = 0
    <2>1. \A b : Live(b) = {}
      BY <1>1 DEF Live, Counted
    <2> QED
      BY <2>1, FS_EmptySet
  <1>3. Len(InitBackends) \in Nat
    BY InitAssumption, LenProperties
  <1>4. PICK r \in [1..Len(InitBackends) -> InitRtts] :
            metrics = [i \in 1..Len(InitBackends) |-> [DefaultMetrics EXCEPT !.rtt = r[i]]]
    BY DEF Init
  <1>5. /\ Len(metrics) = Len(InitBackends)
        /\ \A i \in 1..Len(InitBackends) :
               metrics[i].active_connections = 0
    BY <1>3, <1>4 DEF DefaultMetrics
  <1>6. \A i \in 1..Len(backends) : Row(i) = i
    BY DEF Init, IdleAdmin, Row, RemovePending
  <1>7. NeverUndercounted
    BY <1>2, <1>5, <1>6 DEF NeverUndercounted, Init
  <1>9. KnownInv
    BY <1>1 DEF KnownInv, Counted
  <1> QED
    BY <1>7, <1>9 DEF CountInv

\* Every step keeps the counts.
LEMMA CountStep ==
    ASSUME ~MultiThread, ~CancelAdmins
    PROVE  Background /\ CountInv /\ [Next]_vars => CountInv'
  <1> SUFFICES ASSUME Background, CountInv, [Next]_vars PROVE CountInv'
    OBVIOUS
  <1>1. ASSUME NEW t \in Task, TaskStep(t) \/ TaskCall(t) PROVE CountInv'
    BY <1>1, KnownTask, CountTask DEF CountInv
  <1>2. ASSUME AdminStep \/ AdminCall PROVE CountInv'
    BY <1>2, KnownAdmin, CountAdmin DEF CountInv
  <1>3. ASSUME ReadAcquire \/ ReadRelease \/ Quiet \/ UNCHANGED vars PROVE CountInv'
    <2>1. UNCHANGED <<backends, metrics, generation, tasks, admin, fate>>
      BY <1>3 DEF ReadAcquire, ReadRelease, Quiet, vars
    <2> QED
      BY <2>1, Zenon DEF CountInv, KnownInv, Known, NeverUndercounted, Live, Row,
                  RemovePending, PcOf
  <1> QED
    BY <1>1, <1>2, <1>3 DEF Next

\* When guards are dropped on one thread and admin futures run to completion,
\* active_connections never falls below the dials in progress and connections open
\* on its backend; for any number of callers and backends and with dials cancelled
\* at any await.
THEOREM CountsStaySafe ==
    ASSUME ~MultiThread, ~CancelAdmins
    PROVE  Spec => []NeverUndercounted
  <1>1. Spec => []Background
    <2>1. Spec => []AlignedInv
      BY AlignedInvariant
    <2> QED
      BY <2>1, TypeCorrect, DialInvariant, OwnerInvariant, PTL DEF Background
  <1>2. Background /\ CountInv /\ [Next]_vars => CountInv'
    BY CountStep
  <1>3. CountInv => NeverUndercounted
    BY DEF CountInv
  <1> QED
    BY <1>1, <1>2, <1>3, CountStart, PTL DEF Spec

-----------------------------------------------------------------------------
(* The ledger: what the counters of a row have to do with each other, and  *)
(* hence how much a row that is not drained can weigh.                     *)

\* A dial that is counted and whose failure may still be recorded.
MayFail(i) == {t \in Task : PcOf(t) \in {"dialing", "err_wait", "err_locked"} /\ tasks[t].idx + 1 = i}

Waiting == {t \in Task : PcOf(t) \in {"metrics_wait", "strategy_wait"}}

RowOK(m) ==
    /\ m.rtt \in InitRtts \cup {NoRtt}
    /\ m.recent_errors = U32Max \/ m.recent_errors <= m.total_errors
    /\ m.active_connections + m.total_errors <= m.total_dials
    /\ m.total_dials <= MaxDials

\* Every row is in order, has room for the failures still to come, and stays
\* within the bound when the waiting callers pick it.
LedgerInv ==
    \A i \in 1..Len(metrics) :
        /\ RowOK(metrics[i])
        /\ metrics[i].total_errors + Cardinality(MayFail(i)) <= metrics[i].total_dials
        /\ metrics[i].total_dials + Cardinality(Waiting) <= MaxDials

\* What each change of a row does to its order.
LEMMA RowStays ==
    ASSUME NEW m \in TunnelMetrics, RowOK(m)
    PROVE  /\ m.total_dials < MaxDials => RowOK(Picked(m))
           /\ Picked(m).total_dials = m.total_dials + 1 /\ Picked(m).total_errors = m.total_errors
           /\ \A n \in {Succeeded(m), Drained(m), Undrained(m), Dropped(m)} :
                  RowOK(n) /\ n.total_dials = m.total_dials /\ n.total_errors = m.total_errors
           /\ m.total_errors < m.total_dials => RowOK(Failed(m))
           /\ Failed(m).total_dials = m.total_dials /\ Failed(m).total_errors = m.total_errors + 1
  <1>1. MaxDials \in Nat
    BY BoundAssumption
  <1>2. /\ m.active_connections \in Nat /\ m.total_errors \in Nat /\ m.total_dials \in Nat
        /\ m.recent_errors \in 0..U32Max /\ m.rtt \in Rtt /\ U32Max \in Nat
    BY RowFields, U32MaxAssumption, Zenon
  <1>3. /\ m.total_dials < MaxDials => RowOK(Picked(m))
        /\ Picked(m).total_dials = m.total_dials + 1 /\ Picked(m).total_errors = m.total_errors
    <2>1. LET n == Picked(m)
          IN  /\ n.active_connections = m.active_connections + 1
              /\ n.total_dials = m.total_dials + 1
              /\ n.total_errors = m.total_errors /\ n.recent_errors = m.recent_errors
              /\ n.rtt = m.rtt
      BY RowFields, Zenon
    <2> QED
      BY <1>1, <1>2, <2>1, SMTT(30) DEF RowOK
  <1>4. ASSUME NEW n \in {Succeeded(m), Drained(m), Undrained(m)}
        PROVE  RowOK(n) /\ n.total_dials = m.total_dials /\ n.total_errors = m.total_errors
    <2>1. /\ n.active_connections = m.active_connections
          /\ n.total_dials = m.total_dials /\ n.total_errors = m.total_errors
          /\ n.recent_errors \in {0, U32Max, m.recent_errors} /\ n.rtt = m.rtt
      BY RowFields, Zenon
    <2> QED
      BY <1>1, <1>2, <2>1 DEF RowOK
  <1>5. RowOK(Dropped(m)) /\ Dropped(m).total_dials = m.total_dials
        /\ Dropped(m).total_errors = m.total_errors
    <2>1. LET n == Dropped(m)
          IN  /\ n.active_connections = SatSub(m.active_connections)
              /\ n.total_dials = m.total_dials /\ n.total_errors = m.total_errors
              /\ n.recent_errors = m.recent_errors /\ n.rtt = m.rtt
      BY RowFields, Zenon
    <2> QED
      BY <1>1, <1>2, <2>1 DEF RowOK, SatSub
  <1>6. /\ m.total_errors < m.total_dials => RowOK(Failed(m))
        /\ Failed(m).total_dials = m.total_dials /\ Failed(m).total_errors = m.total_errors + 1
    <2>1. LET n == Failed(m)
          IN  /\ n.active_connections = SatSub(m.active_connections)
              /\ n.total_dials = m.total_dials /\ n.total_errors = m.total_errors + 1
              /\ n.recent_errors \in {m.recent_errors + 1, U32Max} /\ n.rtt = m.rtt
      BY RowFields, Zenon
    <2>2. Failed(m).recent_errors <= U32Max
      <3>1. Failed(m) \in TunnelMetrics
        BY RowTypes
      <3> QED
        BY <3>1, U32MaxAssumption DEF TunnelMetrics
    <2>3. m.recent_errors = U32Max => Failed(m).recent_errors = U32Max
      BY <1>2, <2>1, <2>2, SMTT(30)
    <2> QED
      BY <1>1, <1>2, <2>1, <2>3, SMTT(30) DEF RowOK, SatSub
  <1> QED
    BY <1>3, <1>4, <1>5, <1>6

\* The step that records a failure takes the caller out of those that may fail.
LEMMA RecordErrorEnds ==
    ASSUME TypeOK, NEW t \in Task, RecordError(t), NEW i
    PROVE  t \notin MayFail(i)' /\ t \in MayFail(tasks[t].idx + 1)
  <1>1. tasks \in [Task -> TaskState] /\ DOMAIN tasks[t] = {"pc", "idx", "gen", "be"}
    BY DEF TypeOK, TaskState
  <1>2. PcOf(t)' = "err_report" /\ PcOf(t) = "err_locked"
    BY <1>1 DEF RecordError, Goto, PcOf
  <1>3. t \notin MayFail(i)'
    BY <1>2 DEF MayFail
  <1> QED
    BY <1>2, <1>3 DEF MayFail

\* A caller that may fail on a row was counted there by its pick and has not moved.
LEMMA MayFailBefore ==
    ASSUME TypeOK, Structure, NEW t \in Task, TaskStep(t) \/ TaskCall(t), NEW i
    PROVE  /\ ~Pick(t) => MayFail(i)' \subseteq MayFail(i)
           /\ Pick(t) => MayFail(i)' \subseteq MayFail(i) \cup {t}
           /\ ~DialStart(t) => Waiting' \subseteq Waiting
           /\ Waiting' \subseteq Waiting \cup {t}
           /\ Pick(t) => t \in Waiting /\ t \notin Waiting'
  <1>1. tasks \in [Task -> TaskState] /\ DOMAIN tasks[t] = {"pc", "idx", "gen", "be"}
    BY DEF TypeOK, TaskState
  <1>2. \A u \in Task \ {t} : tasks'[u] = tasks[u]
    BY TaskFrame, Zenon
  <1> DEFINE F == {"dialing", "err_wait", "err_locked"}
             W == {"metrics_wait", "strategy_wait"}
  <1>3. ASSUME ~Pick(t), PcOf(t)' \in F PROVE PcOf(t) \in F /\ tasks'[t].idx = tasks[t].idx
    <2>1. ~(ReportErr(t) \/ CancelDial(t) \/ GuardDropTry(t) \/ GuardDrop(t) \/ GuardDropCheck(t))
      BY <1>1, <1>3 DEF ReportErr, CancelDial, GuardDropTry, GuardDrop, GuardDropCheck, TryDecrement,
                        PcOf, IdleTask
    <2>2. CASE DialStart(t) \/ PickAcquire(t) \/ DialReturns(t) \/ RecordAcquire(t)
               \/ RecordSuccess(t) \/ RecordError(t) \/ ReportOk(t)
      BY <1>1, <1>3, <2>2 DEF DialStart, PickAcquire, DialReturns, RecordAcquire, RecordSuccess,
                              RecordError, ReportOk, Goto, PcOf
    <2> QED
      BY <1>3, <2>1, <2>2, Zenon DEF TaskStep, TaskCall
  <1>4. ASSUME PcOf(t)' \in W PROVE ~Pick(t) /\ (DialStart(t) \/ PcOf(t) \in W)
    <2>1. ~(ReportErr(t) \/ CancelDial(t) \/ GuardDropTry(t) \/ GuardDrop(t) \/ GuardDropCheck(t))
      BY <1>1, <1>4 DEF ReportErr, CancelDial, GuardDropTry, GuardDrop, GuardDropCheck, TryDecrement,
                        PcOf, IdleTask
    <2>2. ~(DialReturns(t) \/ RecordAcquire(t) \/ RecordSuccess(t) \/ RecordError(t) \/ ReportOk(t))
      BY <1>1, <1>4 DEF DialReturns, RecordAcquire, RecordSuccess, RecordError, ReportOk, Goto, PcOf
    <2>3. ~Pick(t)
      BY <1>1, <1>4 DEF Pick, PickAt, PcOf, IdleTask
    <2>4. DialStart(t) \/ PickAcquire(t)
      BY <2>1, <2>2, <2>3 DEF TaskStep, TaskCall
    <2> QED
      BY <2>3, <2>4 DEF PickAcquire
  <1>6. ASSUME Pick(t) PROVE PcOf(t) \in W
    BY <1>6 DEF Pick
  <1>7. MayFail(i)' = {u \in Task : PcOf(u)' \in F /\ tasks'[u].idx + 1 = i}
    BY DEF MayFail, PcOf
  <1>8. Waiting' = {u \in Task : PcOf(u)' \in W}
    BY DEF Waiting, PcOf
  <1>9. \A u \in Task \ {t} : PcOf(u)' = PcOf(u) /\ tasks'[u].idx = tasks[u].idx
    BY <1>2 DEF PcOf
  <1>10. ~Pick(t) => MayFail(i)' \subseteq MayFail(i)
    BY <1>3, <1>7, <1>9 DEF MayFail
  <1>11. MayFail(i)' \subseteq MayFail(i) \cup {t}
    BY <1>7, <1>9 DEF MayFail
  <1>13. /\ ~DialStart(t) => Waiting' \subseteq Waiting
         /\ Waiting' \subseteq Waiting \cup {t}
         /\ Pick(t) => t \in Waiting /\ t \notin Waiting'
    BY <1>4, <1>6, <1>8, <1>9 DEF Waiting
  <1> QED
    BY <1>10, <1>11, <1>13, Zenon

\* A pick takes a waiting caller to a row with room for it; a failure is recorded
\* where a caller that may fail leaves room; the admin steps find no caller in a dial.
LEMMA LedgerStep == TypeOK /\ Structure /\ LedgerInv /\ [Next]_vars => LedgerInv'
  <1> SUFFICES ASSUME TypeOK, Structure, LedgerInv, [Next]_vars PROVE LedgerInv'
    OBVIOUS
  <1>1. metrics \in Seq(TunnelMetrics) /\ Len(metrics) \in Nat /\ MaxDials \in Nat
    BY LenProperties, BoundAssumption DEF TypeOK
  <1>2. \A j \in 1..Len(metrics) :
            /\ metrics[j] \in TunnelMetrics
            /\ metrics[j].total_dials \in Nat /\ metrics[j].total_errors \in Nat
    BY <1>1, ElementOfSeq, RowFields, Zenon
  <1>3. /\ Waiting \in SUBSET Task /\ \A j : MayFail(j) \in SUBSET Task
        /\ Waiting' \in SUBSET Task /\ \A j : MayFail(j)' \in SUBSET Task
    BY Zenon DEF Waiting, MayFail
  <1>4. /\ Cardinality(Waiting) \in Nat /\ Cardinality(Waiting') \in Nat
        /\ \A j : Cardinality(MayFail(j)) \in Nat /\ Cardinality(MayFail(j)') \in Nat
    BY <1>3, CallerCounts
  <1>5. ASSUME NEW t \in Task, Pick(t) PROVE LedgerInv'
    <2>1. Len(metrics') = Len(metrics)
      BY <1>5, TaskFrame, Zenon DEF TaskStep
    <2>2. PICK i \in Indices(metrics) :
             /\ PicksAt(t, i) /\ i + 1 \in 1..Len(metrics) /\ Len(metrics) > 0
             /\ \A j \in 1..Len(metrics) :
                    metrics'[j] = IF j = i + 1 THEN Picked(metrics[j]) ELSE metrics[j]
      BY <1>5, PickRows, Zenon
    <2>3. Cardinality(Waiting') + 1 <= Cardinality(Waiting)
      <3>1. t \in Waiting /\ Waiting' \in SUBSET (Waiting \ {t})
        BY <1>5, MayFailBefore, Zenon DEF TaskStep, DialStart, Pick
      <3>2. Cardinality(Waiting \ {t}) = Cardinality(Waiting) - 1
        BY <1>3, <3>1, CallerCounts
      <3>3. Cardinality(Waiting') <= Cardinality(Waiting \ {t})
        BY <1>3, <3>1, CallerCounts
      <3> QED
        BY <1>4, <3>2, <3>3
    <2>4. \A j \in 1..Len(metrics) : t \in MayFail(j)' => j = i + 1
      BY <2>2 DEF PicksAt, PickAt, MayFail, PcOf, IdleTask, TypeOK, Indices
    <2>g. \A j \in 1..Len(metrics) : MayFail(j)' \subseteq MayFail(j) \cup {t}
      BY <1>5, MayFailBefore, Zenon DEF TaskStep
    <2>5. \A j \in 1..Len(metrics) : Cardinality(MayFail(j)') <= Cardinality(MayFail(j)) + 1
      <3> SUFFICES ASSUME NEW j \in 1..Len(metrics)
                   PROVE  Cardinality(MayFail(j)') <= Cardinality(MayFail(j)) + 1
        OBVIOUS
      <3>1. MayFail(j)' \in SUBSET (MayFail(j) \cup {t}) /\ MayFail(j) \cup {t} \in SUBSET Task
        BY <1>3, <2>g
      <3>2. /\ Cardinality(MayFail(j)') <= Cardinality(MayFail(j) \cup {t})
            /\ Cardinality(MayFail(j) \cup {t}) <= Cardinality(MayFail(j)) + 1
            /\ Cardinality(MayFail(j) \cup {t}) \in Nat
        BY <1>3, <3>1, CallerCounts
      <3> QED
        BY <1>4, <3>2
    <2>6. \A j \in 1..Len(metrics) : j # i + 1 => Cardinality(MayFail(j)') <= Cardinality(MayFail(j))
      <3> SUFFICES ASSUME NEW j \in 1..Len(metrics), j # i + 1
                   PROVE  Cardinality(MayFail(j)') <= Cardinality(MayFail(j))
        OBVIOUS
      <3>1. MayFail(j)' \in SUBSET MayFail(j)
        BY <2>4, <2>g
      <3> QED
        BY <1>3, <3>1, CallerCounts
    <2> SUFFICES ASSUME NEW j \in 1..Len(metrics)
                 PROVE  /\ RowOK(metrics'[j])
                        /\ metrics'[j].total_errors + Cardinality(MayFail(j)') <= metrics'[j].total_dials
                        /\ metrics'[j].total_dials + Cardinality(Waiting') <= MaxDials
      BY <2>1, Zenon DEF LedgerInv, RowOK
    <2>7. /\ RowOK(metrics[j]) /\ metrics[j].total_dials + Cardinality(Waiting) <= MaxDials
          /\ metrics[j].total_errors + Cardinality(MayFail(j)) <= metrics[j].total_dials
      BY Zenon DEF LedgerInv
    <2>n. /\ metrics[j].total_dials \in Nat /\ metrics[j].total_errors \in Nat
          /\ Cardinality(MayFail(j)) \in Nat /\ Cardinality(MayFail(j)') \in Nat
          /\ Cardinality(Waiting) \in Nat /\ Cardinality(Waiting') \in Nat /\ MaxDials \in Nat
      BY <1>1, <1>2, <1>4
    <2>8. CASE j = i + 1
      <3>1. metrics'[j] = Picked(metrics[j]) /\ metrics[j].total_dials < MaxDials
        BY <2>n, <2>2, <2>3, <2>7, <2>8
      <3>2. RowOK(metrics'[j])
        BY <1>2, <2>7, <3>1, RowStays, Zenon
      <3>3. /\ metrics'[j].total_dials = metrics[j].total_dials + 1
            /\ metrics'[j].total_errors = metrics[j].total_errors
        BY <1>2, <2>7, <3>1, RowStays, Zenon
      <3>4. Cardinality(MayFail(j)') <= Cardinality(MayFail(j)) + 1
        BY <2>5
      <3>5. metrics'[j].total_dials + Cardinality(Waiting') <= MaxDials
        BY <2>n, <2>3, <2>7, <3>3, SMTT(30)
      <3>6. metrics'[j].total_errors + Cardinality(MayFail(j)') <= metrics'[j].total_dials
        BY <2>n, <2>7, <3>3, <3>4, SMTT(30)
      <3> QED
        BY <3>2, <3>5, <3>6
    <2>9. CASE j # i + 1
      <3>1. metrics'[j] = metrics[j] /\ Cardinality(MayFail(j)') <= Cardinality(MayFail(j))
        BY <2>2, <2>6, <2>9
      <3>2. metrics'[j].total_dials + Cardinality(Waiting') <= MaxDials
        BY <2>n, <2>3, <2>7, <3>1
      <3>3. metrics'[j].total_errors + Cardinality(MayFail(j)') <= metrics'[j].total_dials
        BY <2>n, <2>7, <3>1, SMTT(30)
      <3> QED
        BY <2>7, <3>1, <3>2, <3>3, Zenon
    <2> QED
      BY <2>8, <2>9
  <1>6. ASSUME NEW t \in Task, TaskStep(t) \/ TaskCall(t), ~Pick(t) PROVE LedgerInv'
    <2>1. Len(metrics') = Len(metrics)
      BY <1>6, TaskFrame, Zenon
    <2> SUFFICES ASSUME NEW j \in 1..Len(metrics)
                 PROVE  /\ RowOK(metrics'[j])
                        /\ metrics'[j].total_errors + Cardinality(MayFail(j)') <= metrics'[j].total_dials
                        /\ metrics'[j].total_dials + Cardinality(Waiting') <= MaxDials
      BY <2>1, Zenon DEF LedgerInv, RowOK
    <2>2. /\ RowOK(metrics[j]) /\ metrics[j].total_dials + Cardinality(Waiting) <= MaxDials
          /\ metrics[j].total_errors + Cardinality(MayFail(j)) <= metrics[j].total_dials
      BY Zenon DEF LedgerInv
    <2>n. /\ metrics[j].total_dials \in Nat /\ metrics[j].total_errors \in Nat
          /\ Cardinality(MayFail(j)) \in Nat /\ Cardinality(MayFail(j)') \in Nat
          /\ Cardinality(Waiting) \in Nat /\ Cardinality(Waiting') \in Nat /\ MaxDials \in Nat
      BY <1>1, <1>2, <1>4
    <2>3. metrics[j].total_dials + Cardinality(Waiting') <= MaxDials
      <3>1. CASE DialStart(t)
        <4>1. metrics[j].total_dials + Cardinality(Waiting) < MaxDials
          BY <3>1, Zenon DEF DialStart, WithinDialBudget, Waiting
        <4>2. Waiting' \in SUBSET (Waiting \cup {t}) /\ Waiting \cup {t} \in SUBSET Task
          BY <1>3, <1>6, MayFailBefore, Zenon
        <4>3. /\ Cardinality(Waiting') <= Cardinality(Waiting \cup {t})
              /\ Cardinality(Waiting \cup {t}) <= Cardinality(Waiting) + 1
              /\ Cardinality(Waiting \cup {t}) \in Nat
          BY <1>3, <4>2, CallerCounts
        <4> QED
          BY <2>n, <4>1, <4>3
      <3>2. CASE ~DialStart(t)
        <4>1. Waiting' \in SUBSET Waiting
          BY <1>6, <3>2, MayFailBefore, Zenon
        <4>2. Cardinality(Waiting') <= Cardinality(Waiting)
          BY <1>3, <4>1, CallerCounts
        <4> QED
          BY <2>n, <2>2, <4>2
      <3> QED
        BY <3>1, <3>2
    <2>4. MayFail(j)' \in SUBSET MayFail(j)
      BY <1>6, MayFailBefore
    <2>5. Cardinality(MayFail(j)') <= Cardinality(MayFail(j))
      BY <1>3, <2>4, CallerCounts
    <2>6. CASE metrics'[j] \in {metrics[j], Succeeded(metrics[j]), Dropped(metrics[j])}
      <3>1. /\ RowOK(metrics'[j]) /\ metrics'[j].total_dials = metrics[j].total_dials
            /\ metrics'[j].total_errors = metrics[j].total_errors
        BY <1>2, <2>2, <2>6, RowStays, Zenon
      <3> QED
        BY <2>n, <2>2, <2>3, <2>5, <3>1, SMTT(30)
    <2>7. CASE metrics'[j] = Failed(metrics[j]) /\ RecordError(t) /\ j = tasks[t].idx + 1
      <3>1. t \in MayFail(j) /\ MayFail(j)' \in SUBSET (MayFail(j) \ {t})
        <4>1. t \notin MayFail(j)' /\ t \in MayFail(tasks[t].idx + 1)
          BY <2>7, RecordErrorEnds
        <4> QED
          BY <2>4, <2>7, <4>1
      <3>2. Cardinality(MayFail(j) \ {t}) = Cardinality(MayFail(j)) - 1 /\ Cardinality(MayFail(j)) > 0
        BY <1>3, <3>1, CallerCounts
      <3>3. Cardinality(MayFail(j)') <= Cardinality(MayFail(j) \ {t})
        BY <1>3, <3>1, CallerCounts
      <3>4. metrics[j].total_errors < metrics[j].total_dials
        BY <2>n, <2>2, <3>2
      <3>5. RowOK(metrics'[j])
        BY <1>2, <2>2, <2>7, <3>4, RowStays, Zenon
      <3>6. /\ metrics'[j].total_dials = metrics[j].total_dials
            /\ metrics'[j].total_errors = metrics[j].total_errors + 1
        BY <1>2, <2>2, <2>7, RowStays, Zenon
      <3>7. metrics'[j].total_errors + Cardinality(MayFail(j)') <= metrics'[j].total_dials
        <4>1. Cardinality(MayFail(j)') <= Cardinality(MayFail(j)) - 1
          BY <3>2, <3>3
        <4> QED
          BY <2>n, <2>2, <3>6, <4>1, SMTT(30)
      <3> QED
        BY <2>3, <3>5, <3>6, <3>7, Zenon
    <2> QED
      BY <1>6, <2>6, <2>7, OtherRows, Zenon
  <1>7. ASSUME AdminStep \/ AdminCall PROVE LedgerInv'
    <2>1. \A t \in Task : PcOf(t)' \notin Dialing
      BY <1>7, AdminFrame
    <2>2. Waiting' = {} /\ \A j : MayFail(j)' = {}
      BY <2>1 DEF Waiting, MayFail, Dialing, PcOf
    <2>3. Cardinality(Waiting') = 0 /\ \A j : Cardinality(MayFail(j)') = 0
      BY <2>2, FS_EmptySet
    <2> SUFFICES \A j \in 1..Len(metrics') : RowOK(metrics'[j]) /\ metrics'[j] \in TunnelMetrics
      <3>1. ASSUME NEW j \in 1..Len(metrics'), RowOK(metrics'[j]), metrics'[j] \in TunnelMetrics
            PROVE  /\ metrics'[j].total_errors + 0 <= metrics'[j].total_dials
                   /\ metrics'[j].total_dials + 0 <= MaxDials
        <4>1. /\ metrics'[j].total_dials \in Nat /\ metrics'[j].total_errors \in Nat
              /\ metrics'[j].active_connections \in Nat
          BY <3>1, RowFields, Zenon
        <4> QED
          BY <1>1, <3>1, <4>1, SMTT(30) DEF RowOK
      <3> QED
        BY <2>3, <3>1, Zenon DEF LedgerInv, RowOK
    <2> TAKE j \in 1..Len(metrics')
    <2>4. metrics'[j] \in TunnelMetrics
      <3>1. metrics' \in Seq(TunnelMetrics)
        BY TypeStep DEF TypeOK
      <3> QED
        BY <3>1, ElementOfSeq
    <2>5. RowOK(DefaultMetrics)
      BY <1>1 DEF RowOK, DefaultMetrics
    <2>6. ASSUME NEW i \in 1..Len(metrics)
          PROVE  \A n \in {metrics[i], Drained(metrics[i]), Undrained(metrics[i])} : RowOK(n)
      BY <1>2, RowStays, Zenon DEF LedgerInv
    <2>7. \/ metrics'[j] = DefaultMetrics
          \/ \E i \in 1..Len(metrics) :
                 metrics'[j] \in {metrics[i], Drained(metrics[i]), Undrained(metrics[i])}
      BY <1>7, AdminRows, Zenon
    <2> QED
      BY <2>4, <2>5, <2>6, <2>7
  <1>8. ASSUME ReadAcquire \/ ReadRelease \/ Quiet \/ UNCHANGED vars PROVE LedgerInv'
    BY <1>8, Zenon DEF ReadAcquire, ReadRelease, Quiet, vars, LedgerInv, RowOK, MayFail, Waiting, PcOf
  <1> QED
    BY <1>5, <1>6, <1>7, <1>8 DEF Next

\* The ledger of every row is in order in every state.
LEMMA LedgerInvariant == Spec => []LedgerInv
  <1>1. Init => LedgerInv
    <2> SUFFICES ASSUME Init PROVE LedgerInv
      OBVIOUS
    <2>1. Waiting = {} /\ \A j : MayFail(j) = {}
      BY DEF Init, IdleTask, Waiting, MayFail, PcOf
    <2>2. Cardinality(Waiting) = 0 /\ \A j : Cardinality(MayFail(j)) = 0
      BY <2>1, FS_EmptySet
    <2>3. PICK r \in [1..Len(InitBackends) -> InitRtts] :
              metrics = [i \in 1..Len(InitBackends) |-> [DefaultMetrics EXCEPT !.rtt = r[i]]]
      BY DEF Init
    <2>4. Len(InitBackends) \in Nat
      BY InitAssumption, LenProperties
    <2>5. Len(metrics) = Len(InitBackends)
      BY <2>3, <2>4
    <2>6. ASSUME NEW i \in 1..Len(metrics)
          PROVE  /\ RowOK(metrics[i]) /\ metrics[i].total_errors = 0 /\ metrics[i].total_dials = 0
      BY <2>3, <2>5, BoundAssumption DEF RowOK, DefaultMetrics
    <2> QED
      BY <2>2, <2>6, BoundAssumption DEF LedgerInv
  <1> QED
    BY <1>1, LedgerStep, TypeCorrect, PTL DEF Spec

-----------------------------------------------------------------------------
(* HealthWeighted.                                                         *)

\* A score is at least what its errors weigh.
LEMMA ScoreAtLeast ==
    ASSUME NEW base \in Nat, NEW errors \in Nat, NEW active \in Nat
    PROVE  /\ base + 500 * errors + 10 * active \in Nat
           /\ base + 500 * errors + 10 * active >= 500 * errors
  OBVIOUS

\* A score is at most what all the dials of its row weigh as errors.
LEMMA ScoreAtMost ==
    ASSUME NEW base \in Nat, NEW errors \in Nat, NEW active \in Nat, NEW total \in Nat,
           NEW dials \in Nat, NEW most \in Nat,
           errors <= total, active + total <= dials, dials <= most
    PROVE  /\ base + 500 * errors + 10 * active \in Nat
           /\ base + 500 * errors + 10 * active <= base + 500 * most
  OBVIOUS

\* The marker of drain_backend outweighs a row without it, as long as what its RTT
\* and its dials can weigh is below the marker.
LEMMA MarkerOutweighs ==
    ASSUME \A r \in InitRtts \cup {1000} : r + 500 * MaxDials < 500 * U32Max,
           NEW m \in TunnelMetrics, RowOK(m), m.recent_errors # U32Max,
           NEW n \in TunnelMetrics, n.recent_errors = U32Max
    PROVE  Score(m) \in Nat /\ Score(n) \in Nat /\ Score(m) < Score(n)
  <1> DEFINE Base(k) == IF k.rtt = NoRtt THEN 1000 ELSE k.rtt
             base == Base(m)
             errors == m.recent_errors
             active == m.active_connections
             total == m.total_errors
             dials == m.total_dials
             other == Base(n)
             open == n.active_connections
  <1>1. U32Max \in Nat /\ MaxDials \in Nat
    BY U32MaxAssumption, BoundAssumption
  <1>2. m.rtt \in Rtt /\ errors \in Nat /\ active \in Nat /\ total \in Nat /\ dials \in Nat
    BY <1>1 DEF TunnelMetrics
  <1>3. n.rtt \in Rtt /\ open \in Nat
    BY DEF TunnelMetrics
  <1>4. /\ m.rtt \in InitRtts \cup {NoRtt} /\ errors <= total /\ active + total <= dials
        /\ dials <= MaxDials
    BY DEF RowOK
  <1>5. base \in Nat /\ other \in Nat
    BY <1>2, <1>3 DEF Rtt, NoRtt
  <1>6. base \in InitRtts \cup {1000}
    BY <1>4
  <1>7. Score(m) = base + 500 * errors + 10 * active
    BY DEF Score
  <1>8. Score(n) = other + 500 * U32Max + 10 * open
    BY DEF Score
  <1> HIDE DEF base, errors, active, total, dials, other, open
  <1>9. base + 500 * MaxDials < 500 * U32Max
    BY <1>6
  <1>10. /\ base + 500 * errors + 10 * active \in Nat
         /\ base + 500 * errors + 10 * active <= base + 500 * MaxDials
    BY <1>1, <1>2, <1>4, <1>5, ScoreAtMost
  <1>11. /\ other + 500 * U32Max + 10 * open \in Nat
         /\ other + 500 * U32Max + 10 * open >= 500 * U32Max
    BY <1>1, <1>3, <1>5, ScoreAtLeast
  <1> DEFINE low == base + 500 * errors + 10 * active
             high == other + 500 * U32Max + 10 * open
             most == base + 500 * MaxDials
             marker == 500 * U32Max
  <1>12. low \in Nat /\ high \in Nat /\ most \in Nat /\ marker \in Nat
    BY <1>1, <1>5, <1>10, <1>11
  <1>13. low <= most /\ most < marker /\ high >= marker
    BY <1>9, <1>10, <1>11
  <1>14. Score(m) = low /\ Score(n) = high
    BY <1>7, <1>8
  <1> HIDE DEF low, high, most, marker
  <1>15. low < high
    BY <1>12, <1>13
  <1> QED
    BY <1>12, <1>14, <1>15

\* Only a pick takes a caller from the strategy's lock to its backend.
LEMMA DialingByPick ==
    ASSUME TypeOK, Structure, [Next]_vars, NEW t \in Task,
           PcOf(t) = "strategy_wait", PcOf(t)' = "dialing"
    PROVE  Pick(t)
  <1>1. ASSUME NEW u \in Task, TaskStep(u) \/ TaskCall(u) PROVE u = t
    BY <1>1, TaskFrame DEF PcOf
  <1>2. ~(AdminStep \/ AdminCall)
    BY AdminFrame DEF PcOf
  <1>3. ~(ReadAcquire \/ ReadRelease \/ Quiet \/ UNCHANGED vars)
    BY DEF ReadAcquire, ReadRelease, Quiet, vars, PcOf
  <1>4. \E u \in Task : TaskStep(u) \/ TaskCall(u)
    BY <1>2, <1>3 DEF Next
  <1>5. TaskStep(t) \/ TaskCall(t)
    BY <1>1, <1>4
  <1>6. ~CancelDial(t)
    BY DEF CancelDial, PcOf, IdleTask, TypeOK
  <1>7. ~(PickAcquire(t) \/ DialReturns(t) \/ RecordAcquire(t) \/ RecordSuccess(t))
    BY DEF PickAcquire, DialReturns, RecordAcquire, RecordSuccess
  <1>8. ~(RecordError(t) \/ ReportOk(t) \/ ReportErr(t) \/ GuardDropTry(t))
    BY DEF RecordError, ReportOk, ReportErr, GuardDropTry
  <1>9. ~(DialStart(t) \/ GuardDrop(t) \/ GuardDropCheck(t))
    BY DEF DialStart, GuardDrop, GuardDropCheck
  <1> QED
    BY <1>5, <1>6, <1>7, <1>8, <1>9 DEF TaskStep, TaskCall

\* As long as the dials of one backend stay so few that its error count cannot reach
\* the drain marker, and no probed RTT does, HealthWeighted picks a drained backend
\* only when all are drained: for any pool, any number of callers, in every mode.
THEOREM DrainsAreRespected ==
    ASSUME \A r \in InitRtts \cup {1000} : r + 500 * MaxDials < 500 * U32Max
    PROVE  Spec => DrainRespected
  <1> DEFINE Respected ==
          \A t \in Task : \A i \in 1..Len(metrics) :
             /\ strategy.kind = "health_weighted"
             /\ PcOf(t) = "strategy_wait" /\ PcOf(t)' = "dialing" /\ tasks'[t].idx + 1 = i
             /\ metrics[i].recent_errors = U32Max
             => \A j \in 1..Len(metrics) : metrics[j].recent_errors = U32Max
  <1>1. TypeOK /\ Structure /\ LedgerInv /\ [Next]_vars => [Respected]_vars
    <2> SUFFICES ASSUME TypeOK, Structure, LedgerInv, [Next]_vars
                 PROVE  Respected
      OBVIOUS
    <2> SUFFICES ASSUME NEW t \in Task, NEW i \in 1..Len(metrics),
                        strategy.kind = "health_weighted",
                        PcOf(t) = "strategy_wait", PcOf(t)' = "dialing", tasks'[t].idx + 1 = i,
                        metrics[i].recent_errors = U32Max,
                        NEW j \in 1..Len(metrics), metrics[j].recent_errors # U32Max
                 PROVE  FALSE
      OBVIOUS
    <2>1. Pick(t)
      BY DialingByPick
    <2>2. PICK p \in Indices(metrics) :
             /\ PicksAt(t, p) /\ p + 1 \in 1..Len(metrics) /\ Len(metrics) > 0
             /\ \A k \in 1..Len(metrics) :
                    metrics'[k] = IF k = p + 1 THEN Picked(metrics[k]) ELSE metrics[k]
      BY <2>1, PickRows, SMTT(30)
    <2>3. Len(metrics) \in Nat /\ metrics \in Seq(TunnelMetrics)
      BY LenProperties DEF TypeOK
    <2>4. p \in Nat /\ p + 1 = i
      BY <2>2 DEF PicksAt, PickAt, PcOf, IdleTask, TypeOK, Indices
    <2>5. metrics[i] \in TunnelMetrics /\ metrics[j] \in TunnelMetrics
      BY <2>3, ElementOfSeq
    <2>6. RowOK(metrics[j])
      BY DEF LedgerInv
    <2> DEFINE low == Score(metrics[j])
               high == Score(metrics[i])
    <2>7. low \in Nat /\ high \in Nat /\ low < high
      BY <2>5, <2>6, MarkerOutweighs, SMTT(30)
    <2>8. p \in HealthWeightedPick(metrics)
      BY <2>2 DEF PicksAt, PickIndex
    <2>9. PICK q \in 0..(Len(metrics) - 1) : q + 1 = j
      BY <2>3
    <2>10. /\ q < p => Score(metrics[p + 1]) < Score(metrics[q + 1])
           /\ q > p => ~(Score(metrics[q + 1]) < Score(metrics[p + 1]))
      BY <2>8 DEF HealthWeightedPick, FirstBest
    <2>11. (q < p => high < low) /\ (q > p => ~(low < high))
      BY <2>4, <2>9, <2>10, SMTT(30)
    <2>12. q \in Nat /\ q # p
      BY <2>3, <2>4, <2>9
    <2> HIDE DEF low, high
    <2>13. q < p \/ q > p
      BY <2>4, <2>12
    <2>14. ~(high < low)
      BY <2>7
    <2> QED
      BY <2>7, <2>11, <2>13, <2>14, Zenon
  <1> QED
    BY <1>1, LedgerInvariant, TypeCorrect, PTL DEF Spec, DrainRespected
===============================================================================
