----------------------------- MODULE SharedFacts ------------------------------
(***************************************************************************)
(* Facts the proofs of several components use: vectors without repetitions *)
(* and what taking out and putting in does; induction over numbers and     *)
(* sequences, stated with sets so that the provers can use it; and what    *)
(* the strategies return, for any strategy and any view.                   *)
(***************************************************************************)
EXTENDS Strategies, Vectors, Functions, FiniteSets, TLAPS, SequenceTheorems, WellFoundedInduction

\* Vec::remove(i - 1): one shorter, later entries move one place down.
LEMMA RemoveAtProperties ==
    ASSUME NEW S, NEW s \in Seq(S), NEW i \in 1..Len(s)
    PROVE  /\ RemoveAt(s, i) \in Seq(S)
           /\ Len(RemoveAt(s, i)) = Len(s) - 1
           /\ \A j \in 1..(Len(s) - 1) :
                RemoveAt(s, i)[j] = IF j < i THEN s[j] ELSE s[j + 1]
  <1>1. Len(s) \in Nat /\ \A j \in 1..Len(s) : s[j] \in S
    BY LenProperties, ElementOfSeq
  <1>2. RemoveAt(s, i) \in [1..(Len(s) - 1) -> S]
    BY <1>1 DEF RemoveAt
  <1>3. Len(s) - 1 \in Nat
    BY <1>1
  <1>4. RemoveAt(s, i) \in Seq(S) /\ Len(RemoveAt(s, i)) = Len(s) - 1
    BY <1>2, <1>3
  <1> QED
    BY <1>4 DEF RemoveAt

\* Taking one element out of a sequence without repetitions.
LEMMA RemoveInjective ==
    ASSUME NEW S, NEW s \in Seq(S), IsInjective(s), NEW i \in 1..Len(s)
    PROVE  /\ IsInjective(RemoveAt(s, i))
           /\ Range(RemoveAt(s, i)) = Range(s) \ {s[i]}
           /\ s[i] \in Range(s)
  <1> DEFINE r == RemoveAt(s, i)
  <1>1. Len(s) \in Nat /\ DOMAIN s = 1..Len(s)
    BY LenProperties
  <1>2. /\ r \in Seq(S) /\ Len(r) = Len(s) - 1
        /\ \A j \in 1..(Len(s) - 1) : r[j] = IF j < i THEN s[j] ELSE s[j + 1]
    BY RemoveAtProperties
  <1>3. DOMAIN r = 1..(Len(s) - 1)
    BY <1>2, LenProperties
  <1> HIDE DEF r
  <1>4. \A a, b \in 1..Len(s) : s[a] = s[b] => a = b
    BY <1>1 DEF IsInjective
  <1>5. \A a, b \in 1..(Len(s) - 1) : r[a] = r[b] => a = b
    BY <1>1, <1>2, <1>4
  <1>6. \A j \in 1..(Len(s) - 1) : r[j] \in Range(s) /\ r[j] # s[i]
    <2> SUFFICES ASSUME NEW j \in 1..(Len(s) - 1) PROVE r[j] \in Range(s) /\ r[j] # s[i]
      OBVIOUS
    <2>1. PICK k \in 1..Len(s) : r[j] = s[k] /\ k # i
      BY <1>1, <1>2
    <2> QED
      BY <1>1, <1>4, <2>1 DEF Range
  <1>7. \A k \in 1..Len(s) : k # i => \E j \in 1..(Len(s) - 1) : r[j] = s[k]
    <2> SUFFICES ASSUME NEW k \in 1..Len(s), k # i PROVE \E j \in 1..(Len(s) - 1) : r[j] = s[k]
      OBVIOUS
    <2>1. CASE k < i
      BY <1>1, <1>2, <2>1
    <2>2. CASE k > i
      <3>1. k - 1 \in 1..(Len(s) - 1) /\ ~(k - 1 < i) /\ (k - 1) + 1 = k
        BY <1>1, <2>2
      <3> QED
        BY <1>2, <3>1, Zenon
    <2> QED
      BY <1>1, <2>1, <2>2
  <1>8. Range(r) = Range(s) \ {s[i]}
    <2>1. \A j \in DOMAIN r : r[j] \in Range(s) /\ r[j] # s[i]
      BY <1>3, <1>6
    <2>2. \A k \in DOMAIN s : s[k] # s[i] => \E j \in DOMAIN r : r[j] = s[k]
      BY <1>1, <1>3, <1>7, Zenon
    <2>3. \A x \in Range(r) : x \in Range(s) /\ x # s[i]
      BY <2>1 DEF Range
    <2>4. \A x \in Range(s) : x # s[i] => x \in Range(r)
      BY <2>2 DEF Range
    <2> QED
      BY <2>3, <2>4
  <1>9. IsInjective(r)
    BY <1>3, <1>5 DEF IsInjective
  <1> QED
    BY <1>1, <1>8, <1>9, Zenon DEF r, Range

\* Taking the first element off.
LEMMA TailInjective ==
    ASSUME NEW S, NEW s \in Seq(S), IsInjective(s), s # <<>>
    PROVE  /\ IsInjective(Tail(s)) /\ Range(Tail(s)) = Range(s) \ {Head(s)}
           /\ Head(s) \in Range(s)
  <1>1. Len(s) \in Nat /\ DOMAIN s = 1..Len(s) /\ Len(s) > 0 /\ Head(s) = s[1]
    BY LenProperties, EmptySeq
  <1>2. Tail(s) \in Seq(S) /\ Len(Tail(s)) = Len(s) - 1
        /\ \A j \in 1..(Len(s) - 1) : Tail(s)[j] = s[j + 1]
    BY <1>1, HeadTailProperties
  <1>3. DOMAIN Tail(s) = 1..(Len(s) - 1)
    BY <1>2, LenProperties
  <1> DEFINE r == Tail(s)
  <1> HIDE DEF r
  <1>4. \A a, b \in 1..Len(s) : s[a] = s[b] => a = b
    BY <1>1 DEF IsInjective
  <1>5. \A a, b \in 1..(Len(s) - 1) : r[a] = r[b] => a = b
    BY <1>1, <1>2, <1>4 DEF r
  <1>6. \A j \in 1..(Len(s) - 1) : r[j] \in Range(s) /\ r[j] # s[1]
    <2> SUFFICES ASSUME NEW j \in 1..(Len(s) - 1) PROVE r[j] \in Range(s) /\ r[j] # s[1]
      OBVIOUS
    <2>1. r[j] = s[j + 1] /\ j + 1 \in 1..Len(s) /\ j + 1 # 1 /\ 1 \in 1..Len(s)
      BY <1>1, <1>2 DEF r
    <2> QED
      BY <1>1, <1>4, <2>1 DEF Range
  <1>7. \A k \in 1..Len(s) : k # 1 => \E j \in 1..(Len(s) - 1) : r[j] = s[k]
    <2> SUFFICES ASSUME NEW k \in 1..Len(s), k # 1 PROVE \E j \in 1..(Len(s) - 1) : r[j] = s[k]
      OBVIOUS
    <2>1. k - 1 \in 1..(Len(s) - 1) /\ (k - 1) + 1 = k
      BY <1>1
    <2> QED
      BY <1>2, <2>1 DEF r
  <1>8. Range(r) = Range(s) \ {s[1]}
    <2>1. \A j \in DOMAIN r : r[j] \in Range(s) /\ r[j] # s[1]
      BY <1>3, <1>6 DEF r
    <2>2. \A k \in DOMAIN s : s[k] # s[1] => \E j \in DOMAIN r : r[j] = s[k]
      BY <1>1, <1>3, <1>7, Zenon DEF r
    <2>3. \A x \in Range(r) : x \in Range(s) /\ x # s[1]
      BY <2>1 DEF Range
    <2>4. \A x \in Range(s) : x # s[1] => x \in Range(r)
      BY <2>2 DEF Range
    <2> QED
      BY <2>3, <2>4
  <1>9. IsInjective(r)
    BY <1>3, <1>5 DEF IsInjective, r
  <1> QED
    BY <1>1, <1>8, <1>9 DEF r, Range

\* Putting one new element at the end.
LEMMA ConcatSingle ==
    ASSUME NEW S, NEW s \in Seq(S), NEW r \in Seq(S), Len(r) = 1, IsInjective(s),
           Range(s) \cap Range(r) = {}
    PROVE  IsInjective(s \o r) /\ Range(s \o r) = Range(s) \cup Range(r)
  <1>1. Len(s) \in Nat /\ DOMAIN s = 1..Len(s) /\ DOMAIN r = 1..1
    BY LenProperties
  <1> DEFINE c == s \o r
  <1>2. /\ c \in Seq(S) /\ Len(c) = Len(s) + Len(r)
        /\ \A i \in 1..(Len(s) + Len(r)) : c[i] = IF i <= Len(s) THEN s[i] ELSE r[i - Len(s)]
    BY ConcatProperties, Zenon
  <1>3. DOMAIN c = 1..(Len(s) + 1)
    BY <1>2, LenProperties
  <1> HIDE DEF c
  <1>4. /\ \A i \in 1..Len(s) : c[i] = s[i]
        /\ c[Len(s) + 1] = r[1]
    BY <1>1, <1>2
  <1>5. Range(r) = {r[1]} /\ \A i \in 1..Len(s) : s[i] # r[1]
    <2>1. Range(r) = {r[1]}
      BY <1>1 DEF Range
    <2> QED
      BY <1>1, <2>1 DEF Range
  <1>6. \A a, b \in 1..(Len(s) + 1) : c[a] = c[b] => a = b
    BY <1>1, <1>4, <1>5 DEF IsInjective
  <1>7. Range(c) = Range(s) \cup {r[1]}
    BY <1>1, <1>3, <1>4 DEF Range
  <1> QED
    BY <1>3, <1>5, <1>6, <1>7 DEF c, IsInjective

\* Every nonempty set of natural numbers has a least element.
LEMMA LeastNatural ==
    ASSUME NEW T \in SUBSET Nat, T # {}
    PROVE  \E n \in T : \A m \in T : n <= m
  <1> DEFINE R == {p \in Nat \X Nat : p[1] < p[2]}
  <1>1. IsWellFoundedOn(R, Nat)
    BY NatLessThanWellFounded, Zenon DEF OpToRel
  <1>2. PICK n \in T : \A m \in T : ~(<<m, n>> \in R)
    <2> HIDE DEF R
    <2> QED
      BY <1>1, WFMin, Zenon
  <1>3. ASSUME NEW m \in T PROVE n <= m
    <2>1. ~(<<m, n>> \in R)
      BY <1>2
    <2> QED
      BY <2>1
  <1> QED
    BY <1>3

\* Induction: a set with 0 that is closed under successor is Nat.
LEMMA NatSetInduction ==
    ASSUME NEW Q \in SUBSET Nat, 0 \in Q, \A n \in Q : n + 1 \in Q
    PROVE  Q = Nat
  <1>1. SUFFICES ASSUME Nat \ Q # {} PROVE FALSE
    BY Zenon
  <1>2. PICK n \in Nat \ Q : \A m \in Nat \ Q : n <= m
    BY <1>1, LeastNatural, Zenon
  <1>3. n # 0 /\ n - 1 \in Nat /\ ~(n <= n - 1) /\ (n - 1) + 1 = n
    BY <1>2
  <1> QED
    BY <1>2, <1>3

\* A sequence is its front with its last element appended.
LEMMA FrontAndLast ==
    ASSUME NEW S, NEW t \in Seq(S), NEW n \in Nat, Len(t) = n + 1
    PROVE  t[n + 1] \in S /\ t = Append(SubSeq(t, 1, n), t[n + 1])
  <1> DEFINE u == SubSeq(t, 1, n)
             x == t[n + 1]
             a == Append(u, x)
  <1>1. u \in Seq(S) /\ Len(u) = n /\ \A i \in 1..n : u[i] = t[i]
    BY SubSeqProperties
  <1>2. x \in S
    BY ElementOfSeq
  <1> HIDE DEF u, x
  <1>3. /\ a \in Seq(S) /\ Len(a) = Len(u) + 1
        /\ \A i \in 1..Len(u) : a[i] = u[i]
        /\ a[Len(u) + 1] = x
    BY <1>1, <1>2, AppendProperties
  <1> HIDE DEF a
  <1>4. \A i \in 1..(n + 1) : t[i] = a[i]
    BY <1>1, <1>3 DEF x
  <1>5. t = a
    BY <1>1, <1>3, <1>4, SeqEqual
  <1> QED
    BY <1>2, <1>5 DEF a, u, x

\* Induction over sequences: a set with the empty one that is closed under
\* Append has them all.
LEMMA SeqSetInduction ==
    ASSUME NEW S, NEW Q \in SUBSET Seq(S), <<>> \in Q,
           \A t \in Q : \A x \in S : Append(t, x) \in Q
    PROVE  Q = Seq(S)
  <1> DEFINE N == {n \in Nat : \A t \in Seq(S) : Len(t) = n => t \in Q}
  <1>1. 0 \in N
    BY EmptySeq
  <1>2. ASSUME NEW n \in N PROVE n + 1 \in N
    <2>1. SUFFICES ASSUME NEW t \in Seq(S), Len(t) = n + 1 PROVE t \in Q
      OBVIOUS
    <2>2. n \in Nat /\ SubSeq(t, 1, n) \in Seq(S) /\ Len(SubSeq(t, 1, n)) = n
      BY <2>1, SubSeqProperties
    <2>3. t[n + 1] \in S /\ t = Append(SubSeq(t, 1, n), t[n + 1])
      BY <2>1, <2>2, FrontAndLast, Zenon
    <2>4. SubSeq(t, 1, n) \in Q
      BY <2>2, Zenon
    <2> QED
      BY <2>3, <2>4, Zenon
  <1>3. N = Nat
    <2> HIDE DEF N
    <2>1. N \in SUBSET Nat
      BY DEF N
    <2> QED
      BY <1>1, <1>2, <2>1, NatSetInduction
  <1> QED
    BY <1>3, LenProperties, Zenon

-----------------------------------------------------------------------------
(* What pick and report_error return.                                      *)

\* What % returns for a non-zero divisor.
LEMMA ModRange ==
    ASSUME NEW a \in Nat, NEW n \in Nat, n > 0
    PROVE  a % n \in 0..(n - 1)
  BY SMT

\* Whatever strategy is installed, pick returns an index of the view.
LEMMA PickInRange ==
    ASSUME NEW s \in Strategy, NEW addr \in Addr, NEW m \in Seq(TunnelMetrics), Len(m) > 0,
           NEW i \in PickIndex(s, addr, m)
    PROVE  i \in Indices(m)
  <1>1. Len(m) \in Nat
    BY LenProperties
  <1>2. s.kind \in Kind /\ s.next \in Nat /\ s.primary \in Nat /\ s.pinned \in Nat \cup {Unpinned}
    BY DEF Strategy
  <1>3. addr \in Nat
    BY AddrAssumption
  <1>4. \A a \in Nat : a % Len(m) \in Indices(m)
    BY <1>1, ModRange DEF Indices
  <1>5. CASE s.kind \in {"round_robin", "hash_by_addr", "failover"}
    BY <1>2, <1>3, <1>4, <1>5 DEF PickIndex
  <1>6. CASE s.kind = "random"
    BY <1>6 DEF PickIndex
  <1>7. CASE s.kind = "lowest_rtt"
    BY <1>7 DEF PickIndex, LowestRttPick, FirstBest, Indices
  <1>8. CASE s.kind = "least_connections"
    BY <1>8 DEF PickIndex, LeastConnectionsPick, FirstBest, Indices
  <1>9. CASE s.kind = "weighted_round_robin"
    BY <1>9 DEF PickIndex, WeightedRoundRobinPick, FirstBest, Indices
  <1>10. CASE s.kind = "health_weighted"
    BY <1>10 DEF PickIndex, HealthWeightedPick, FirstBest, Indices
  <1>11. CASE s.kind = "sticky"
    BY <1>1, <1>2, <1>11 DEF PickIndex, StickyPick, LowestRttPick, FirstBest, Indices
  <1> QED
    BY <1>2, <1>5, <1>6, <1>7, <1>8, <1>9, <1>10, <1>11 DEF Kind

\* A rebuild leaves a WeightedRoundRobin of the same type.
LEMMA RebuiltType ==
    ASSUME NEW s \in Strategy, NEW m \in Seq(TunnelMetrics)
    PROVE  Rebuilt(s, m) \in Strategy
  <1>1. Rtts(m) \in Seq(Rtt)
    <2>1. \A k \in 1..Len(m) : m[k].rtt \in Rtt
      <3> TAKE k \in 1..Len(m)
      <3>1. m[k] \in TunnelMetrics
        BY ElementOfSeq
      <3> QED
        BY <3>1 DEF TunnelMetrics
    <2> QED
      BY <2>1, LenProperties, IsASeq DEF Rtts
  <1>2. [k \in 1..Len(m) |-> 0] \in Seq(Nat)
    OBVIOUS
  <1> QED
    BY <1>1, <1>2, Zenon DEF Rebuilt, Strategy

(* Counting one pick up keeps the counters a vector of naturals, whether or
   not the index is one of its own (AfterPick, the weighted round robin). *)
LEMMA CountUp ==
    ASSUME NEW p \in Seq(Nat), NEW k \in Nat
    PROVE  [p EXCEPT ![k] = @ + 1] \in Seq(Nat)
  <1>1. CASE k \in 1..Len(p)
    <2>1. p[k] \in Nat
      BY <1>1, ElementOfSeq
    <2>2. p[k] + 1 \in Nat
      BY <2>1
    <2> QED
      BY <1>1, <2>2, ExceptSeq
  <1>2. CASE k \notin 1..Len(p)
    <2>1. DOMAIN p = 1..Len(p)
      BY LenProperties
    <2>2. p = [x \in DOMAIN p |-> p[x]]
      OBVIOUS
    <2>3. [p EXCEPT ![k] = @ + 1] = p
      BY <1>2, <2>1, <2>2
    <2> QED
      BY <2>3, Zenon
  <1> QED
    BY <1>1, <1>2

\* pick leaves a strategy of the same type.
LEMMA AfterPickType ==
    ASSUME NEW s \in Strategy, NEW m \in Seq(TunnelMetrics), NEW i \in Nat
    PROVE  AfterPick(s, m, i) \in Strategy
  <1>1. Rebuilt(s, m) \in Strategy
    BY RebuiltType
  <1>2. CASE s.kind = "round_robin"
    <2>1. AfterPick(s, m, i) = [s EXCEPT !.next = i + 1]
      BY <1>2 DEF AfterPick, Advance
    <2>2. i + 1 \in Nat
      OBVIOUS
    <2> QED
      BY <2>1, <2>2, Zenon DEF Strategy
  <1>3. CASE s.kind = "failover"
    <2>1. AfterPick(s, m, i) = [s EXCEPT !.len = Len(m)]
      BY <1>3 DEF AfterPick
    <2> QED
      BY <2>1, LenProperties DEF Strategy
  <1>4. CASE s.kind = "weighted_round_robin"
    <2> DEFINE r == Rebuilt(s, m)
    <2>1. AfterPick(s, m, i) = [r EXCEPT !.picks[i + 1] = @ + 1]
      BY <1>4 DEF AfterPick
    <2>2. [r.picks EXCEPT ![i + 1] = @ + 1] \in Seq(Nat)
      <3>1. r.picks \in Seq(Nat)
        BY <1>1 DEF Strategy
      <3>2. i + 1 \in Nat
        OBVIOUS
      <3> QED
        BY <3>1, <3>2, CountUp, Zenon
    <2> QED
      BY <1>1, <2>1, <2>2, Zenon DEF Strategy
  <1>5. CASE s.kind = "sticky"
    <2>1. AfterPick(s, m, i) \in {s, [s EXCEPT !.pinned = i]}
      BY <1>5 DEF AfterPick, Pin
    <2> QED
      BY <2>1, Zenon DEF Strategy
  <1>6. CASE s.kind \notin {"round_robin", "failover", "weighted_round_robin", "sticky"}
    <2>1. AfterPick(s, m, i) = s
      BY <1>6 DEF AfterPick
    <2> QED
      BY <2>1
  <1> QED
    BY <1>2, <1>3, <1>4, <1>5, <1>6

\* report_error leaves a strategy of the same type.
LEMMA ReportErrorType ==
    ASSUME NEW s \in Strategy, NEW i \in Nat
    PROVE  ReportError(s, i) \in Strategy
  <1> DEFINE len == IF s.len > 0 THEN s.len ELSE i + 1
  <1>1. len \in Nat /\ len > 0
    BY DEF Strategy
  <1>2. (i + 1) % len \in Nat
    BY <1>1, ModRange
  <1> QED
    BY <1>2, Zenon DEF ReportError, Strategy

\* A strategy as its constructor leaves it is a strategy of that kind.
LEMMA NewStrategyType ==
    ASSUME NEW k \in Kind
    PROVE  NewStrategy(k) \in Strategy
  BY DEF NewStrategy, Strategy, Unpinned

-----------------------------------------------------------------------------
(* WeightedRoundRobin.                                                     *)

\* Weights are natural numbers.
LEMMA WeightType ==
    ASSUME NEW r \in Rtt
    PROVE  Weight(r) \in Nat
  <1>1. ASSUME NEW d \in 1..1000
        PROVE  1000 \div d \in Nat
    BY <1>1, SMT
  <1> QED
    BY <1>1 DEF Weight, Rtt, NoRtt

\* There is one count per weight, and no backend is more than one pick ahead of
\* its share.
Proportional(s) ==
    /\ Len(s.picks) = Len(s.rtts)
    /\ \A i, j \in 1..Len(s.picks) : s.picks[i] > 0 =>
           (s.picks[i] - 1) * Weight(s.rtts[j]) <= s.picks[j] * Weight(s.rtts[i])

\* A backend that is not ahead may be picked once more: p and q are the picks of
\* two backends, v and w their weights.
LEMMA OneMore ==
    ASSUME NEW p \in Nat, NEW q \in Nat, NEW v \in Nat, NEW w \in Nat
    PROVE  /\ p * w <= q * v => (p + 1 - 1) * w <= q * v
           /\ p > 0 /\ (p - 1) * w <= q * v => (p - 1) * w <= (q + 1) * v
  <1>1. (q + 1) * v = q * v + v /\ q * v \in Nat
    BY SMT
  <1>2. (p - 1) * w \in Int
    BY SMT
  <1> QED
    BY <1>1, <1>2

\* A rebuild clears the counts unless the RTTs are the ones they were made for.
LEMMA RebuiltProportional ==
    ASSUME NEW s \in Strategy, Proportional(s), NEW m \in Seq(TunnelMetrics)
    PROVE  Proportional(Rebuilt(s, m)) /\ Len(Rebuilt(s, m).picks) = Len(m)
  <1>1. Len(m) \in Nat /\ Len(Rtts(m)) = Len(m)
    BY LenProperties DEF Rtts
  <1>2. CASE Rtts(m) = s.rtts
    BY <1>1, <1>2 DEF Rebuilt, Proportional
  <1>3. CASE Rtts(m) # s.rtts
    <2> DEFINE zeros == [i \in 1..Len(m) |-> 0]
    <2>1. Rebuilt(s, m).rtts = Rtts(m) /\ Rebuilt(s, m).picks = zeros
      BY <1>3 DEF Rebuilt, Strategy
    <2>2. Len(zeros) = Len(m) /\ \A i \in 1..Len(m) : zeros[i] = 0
      BY <1>1
    <2> QED
      BY <1>1, <2>1, <2>2 DEF Proportional
  <1> QED
    BY <1>2, <1>3

\* WeightedRoundRobin picks a backend that is not ahead of any other, so counting
\* the pick keeps the counts proportional.
LEMMA PickProportional ==
    ASSUME NEW s \in Strategy, Proportional(s), NEW m \in Seq(TunnelMetrics),
           s.kind = "weighted_round_robin", NEW i \in WeightedRoundRobinPick(s, m)
    PROVE  Proportional(AfterPick(s, m, i))
  <1> DEFINE r == Rebuilt(s, m)
             n == Len(m)
             p == r.picks
             w == [k \in 1..n |-> Weight(r.rtts[k])]
             q == [p EXCEPT ![i + 1] = @ + 1]
  <1>1. r \in Strategy /\ Proportional(r) /\ Len(p) = n /\ Len(r.rtts) = n
    BY RebuiltType, RebuiltProportional DEF Proportional
  <1>2. n \in Nat /\ p \in [1..n -> Nat] /\ r.rtts \in [1..n -> Rtt]
    BY <1>1, LenProperties, ElementOfSeq DEF Strategy
  <1>3. w \in [1..n -> Nat]
    BY <1>2, WeightType
  <1>4. i \in 0..(n - 1) /\ i + 1 \in 1..n
    BY <1>2 DEF WeightedRoundRobinPick, FirstBest
  <1>5. \A k \in 1..n : p[i + 1] * w[k] <= p[k] * w[i + 1]
    <2> SUFFICES ASSUME NEW k \in 1..n PROVE p[i + 1] * w[k] <= p[k] * w[i + 1]
      OBVIOUS
    <2>1. /\ k - 1 < i => FewerPicksPerWeight(r, i, k - 1)
          /\ k - 1 > i => ~FewerPicksPerWeight(r, k - 1, i)
      BY <1>2 DEF WeightedRoundRobinPick, FirstBest
    <2>2. (k - 1) + 1 = k
      BY <1>2
    <2>3. /\ k - 1 < i => p[i + 1] * w[k] < p[k] * w[i + 1]
          /\ k - 1 > i => ~(p[k] * w[i + 1] < p[i + 1] * w[k])
      BY <1>4, <2>1, <2>2 DEF FewerPicksPerWeight
    <2>4. p[i + 1] * w[k] \in Int /\ p[k] * w[i + 1] \in Int
      BY <1>2, <1>3, <1>4
    <2> QED
      BY <1>2, <1>4, <2>3, <2>4
  <1>6. AfterPick(s, m, i) = [r EXCEPT !.picks = q]
    BY <1>1 DEF AfterPick, Strategy
  <1>7. q \in [1..n -> Nat] /\ Len(q) = n /\ q[i + 1] = p[i + 1] + 1
        /\ \A k \in 1..n : k # i + 1 => q[k] = p[k]
    BY <1>2, <1>4
  <1>8. ASSUME NEW k \in 1..n, NEW l \in 1..n, q[k] > 0
        PROVE  (q[k] - 1) * w[l] <= q[l] * w[k]
    <2>1. p[k] > 0 => (p[k] - 1) * w[l] <= p[l] * w[k]
      BY <1>1 DEF Proportional
    <2>2. p[k] \in Nat /\ p[l] \in Nat /\ w[k] \in Nat /\ w[l] \in Nat
      BY <1>2, <1>3
    <2>3. CASE k = i + 1 /\ l = i + 1
      BY <1>7, <2>2, <2>3
    <2>4. CASE k = i + 1 /\ l # i + 1
      BY <1>5, <1>7, <2>2, <2>4, OneMore
    <2>5. CASE k # i + 1 /\ l = i + 1
      BY <1>7, <1>8, <2>1, <2>2, <2>5, OneMore, Zenon
    <2>6. CASE k # i + 1 /\ l # i + 1
      BY <1>7, <1>8, <2>1, <2>6
    <2> QED
      BY <2>3, <2>4, <2>5, <2>6
  <1>9. AfterPick(s, m, i).picks = q /\ AfterPick(s, m, i).rtts = r.rtts
    BY <1>1, <1>6 DEF Strategy
  <1> QED
    BY <1>1, <1>7, <1>8, <1>9 DEF Proportional
===============================================================================
