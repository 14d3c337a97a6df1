--------------------------- MODULE DiscoveryProofs ---------------------------
(***************************************************************************)
(* Proofs about Discovery: what the filters of reconcile keep, and that    *)
(* rounds of many awaits are exact, for any sources, registries, number of *)
(* loops and interleaving with users of the balancer.                      *)
(***************************************************************************)
EXTENDS Discovery, SharedFacts

\* Appending to the second of two sequences appends to both together.
LEMMA AppendAfterConcat ==
    ASSUME NEW T, NEW s \in Seq(T), NEW u \in Seq(T), NEW x \in T
    PROVE  s \o Append(u, x) = Append(s \o u, x)
  <1>1. Append(u, x) = u \o <<x>>
    BY AppendIsConcat
  <1>2. s \o u \in Seq(T) /\ <<x>> \in Seq(T)
    BY ConcatProperties
  <1>3. Append(s \o u, x) = (s \o u) \o <<x>>
    BY <1>2, AppendIsConcat
  <1>4. (s \o u) \o <<x>> = s \o (u \o <<x>>)
    BY <1>2, ConcatAssociative
  <1> QED
    BY <1>1, <1>3, <1>4

-----------------------------------------------------------------------------
(* Iterator::filter.                                                       *)

\* g is the function that the recursion of Filter describes.
IsFilterOf(g, s, S) ==
    g = [n \in 0..Len(s) |->
            IF n = 0 THEN <<>> ELSE IF s[n] \in S THEN Append(g[n - 1], s[n]) ELSE g[n - 1]]

\* The same, number by number.
FollowsRecursion(g, s, S) ==
    /\ DOMAIN g = 0..Len(s) /\ g = [n \in 0..Len(s) |-> g[n]] /\ g[0] = <<>>
    /\ \A n \in 1..Len(s) : g[n] = IF s[n] \in S THEN Append(g[n - 1], s[n]) ELSE g[n - 1]

\* The recursion says what Filter does with each element.
LEMMA FilterRecursion ==
    ASSUME NEW T, NEW S, NEW s \in Seq(T), NEW g, IsFilterOf(g, s, S)
    PROVE  FollowsRecursion(g, s, S)
  <1> DEFINE step(n) == IF n = 0 THEN <<>>
                        ELSE IF s[n] \in S THEN Append(g[n - 1], s[n]) ELSE g[n - 1]
  <1>1. Len(s) \in Nat
    BY LenProperties
  <1>2. g = [n \in 0..Len(s) |-> step(n)]
    BY Zenon DEF IsFilterOf
  <1>3. \A n \in 0..Len(s) : g[n] = step(n)
    <2> HIDE DEF step
    <2> QED
      BY <1>2
  <1>4. DOMAIN g = 0..Len(s) /\ g = [n \in 0..Len(s) |-> g[n]]
    <2> HIDE DEF step
    <2> QED
      BY <1>2
  <1>5. g[0] = <<>>
    BY <1>1, <1>3
  <1>6. ASSUME NEW n \in 1..Len(s)
        PROVE  g[n] = IF s[n] \in S THEN Append(g[n - 1], s[n]) ELSE g[n - 1]
    <2>1. n \in 0..Len(s) /\ n # 0
      BY <1>1
    <2> QED
      BY <1>3, <2>1
  <1> QED
    BY <1>4, <1>5, <1>6 DEF FollowsRecursion

\* Filtering one element more is one step more of the recursion.
LEMMA FilterExtends ==
    ASSUME NEW T, NEW s \in Seq(T), NEW x \in T, NEW S, NEW g, IsFilterOf(g, s, S),
           \A n \in 0..Len(s) : g[n] \in Seq(T)
    PROVE  \E h : /\ IsFilterOf(h, Append(s, x), S)
                  /\ \A n \in 0..Len(Append(s, x)) : h[n] \in Seq(T)
                  /\ h[Len(Append(s, x))]
                        = IF x \in S THEN Append(g[Len(s)], x) ELSE g[Len(s)]
  <1> DEFINE a == Append(s, x)
             k == Len(s)
             last == IF x \in S THEN Append(g[k], x) ELSE g[k]
             h == [n \in 0..Len(a) |-> IF n <= k THEN g[n] ELSE last]
             step(f, n) == IF n = 0 THEN <<>>
                           ELSE IF a[n] \in S THEN Append(f[n - 1], a[n]) ELSE f[n - 1]
  <1>1. k \in Nat
    BY LenProperties
  <1>2. a \in Seq(T) /\ Len(a) = k + 1 /\ (\A i \in 1..k : a[i] = s[i]) /\ a[k + 1] = x
    BY AppendProperties
  <1>3. last \in Seq(T)
    <2>1. g[k] \in Seq(T)
      BY <1>1
    <2> QED
      BY <2>1, AppendProperties
  <1>4. g[0] = <<>> /\ \A n \in 1..k :
            g[n] = IF s[n] \in S THEN Append(g[n - 1], s[n]) ELSE g[n - 1]
    BY FilterRecursion DEF FollowsRecursion
  <1> HIDE DEF a, k, last
  <1>5. /\ \A n \in 0..k : h[n] = g[n]
        /\ h[k + 1] = last
    BY <1>1, <1>2
  <1> HIDE DEF h
  <1>6. ASSUME NEW n \in 0..(k + 1) PROVE h[n] = step(h, n)
    <2>1. CASE n = 0
      BY <1>1, <1>4, <1>5, <2>1
    <2>2. CASE n \in 1..k
      <3>1. n \in 0..k /\ n - 1 \in 0..k /\ n # 0
        BY <1>1, <2>2
      <3>2. h[n] = g[n] /\ h[n - 1] = g[n - 1] /\ a[n] = s[n]
        BY <1>2, <1>5, <2>2, <3>1
      <3> QED
        BY <1>4, <2>2, <3>1, <3>2
    <2>3. CASE n = k + 1
      <3>1. n # 0 /\ n - 1 = k /\ h[n - 1] = g[k] /\ h[n] = last /\ a[n] = x
        BY <1>1, <1>2, <1>5, <2>3
      <3> QED
        BY <3>1 DEF last
    <2> QED
      BY <1>1, <2>1, <2>2, <2>3
  <1>7. DOMAIN h = 0..Len(a) /\ h = [n \in 0..Len(a) |-> h[n]]
    BY DEF h
  <1>8. h = [n \in 0..Len(a) |-> step(h, n)]
    BY <1>2, <1>6, <1>7, Zenon
  <1>9. IsFilterOf(h, a, S)
    BY <1>8, Zenon DEF IsFilterOf
  <1>10. \A n \in 0..Len(a) : h[n] \in Seq(T)
    BY <1>1, <1>2, <1>3, <1>5 DEF k
  <1> QED
    BY <1>2, <1>5, <1>9, <1>10 DEF a, k, last

\* The recursion of Filter has a solution.
LEMMA FilterExists ==
    ASSUME NEW T, NEW S, NEW s \in Seq(T)
    PROVE  \E g : IsFilterOf(g, s, S) /\ \A n \in 0..Len(s) : g[n] \in Seq(T)
  <1> DEFINE Q == {t \in Seq(T) : \E g : IsFilterOf(g, t, S) /\ \A n \in 0..Len(t) : g[n] \in Seq(T)}
  <1>1. <<>> \in Q
    <2> DEFINE g == [n \in 0..0 |-> <<>>]
    <2>1. <<>> \in Seq(T) /\ Len(<<>>) = 0
      BY EmptySeq
    <2>2. IsFilterOf(g, <<>>, S)
      <3>1. \A n \in 0..0 : n = 0
        OBVIOUS
      <3> QED
        BY <2>1, <3>1 DEF IsFilterOf
    <2>3. \A n \in 0..Len(<<>>) : g[n] \in Seq(T)
      BY <2>1
    <2> QED
      BY <2>1, <2>2, <2>3
  <1>2. ASSUME NEW t \in Q, NEW x \in T PROVE Append(t, x) \in Q
    <2>1. PICK g : IsFilterOf(g, t, S) /\ \A n \in 0..Len(t) : g[n] \in Seq(T)
      OBVIOUS
    <2>2. t \in Seq(T) /\ Append(t, x) \in Seq(T)
      BY AppendProperties
    <2>3. \E h : IsFilterOf(h, Append(t, x), S)
                 /\ \A n \in 0..Len(Append(t, x)) : h[n] \in Seq(T)
      BY <2>1, <2>2, FilterExtends
    <2> QED
      BY <2>2, <2>3
  <1>3. Q \in SUBSET Seq(T)
    OBVIOUS
  <1> HIDE DEF Q
  <1>4. Q = Seq(T)
    BY <1>1, <1>2, <1>3, SeqSetInduction, Zenon
  <1> QED
    BY <1>4 DEF Q

\* It has only one.
LEMMA FilterUnique ==
    ASSUME NEW T, NEW S, NEW s \in Seq(T), NEW g, NEW h,
           IsFilterOf(g, s, S), IsFilterOf(h, s, S)
    PROVE  g = h
  <1>1. Len(s) \in Nat
    BY LenProperties
  <1>2. FollowsRecursion(g, s, S)
    BY FilterRecursion
  <1>3. FollowsRecursion(h, s, S)
    BY FilterRecursion
  <1> DEFINE Q == {n \in Nat : n <= Len(s) => g[n] = h[n]}
  <1>5. 0 \in Q
    BY <1>2, <1>3 DEF FollowsRecursion
  <1>6. ASSUME NEW n \in Q PROVE n + 1 \in Q
    <2>1. SUFFICES ASSUME n + 1 <= Len(s) PROVE g[n + 1] = h[n + 1]
      OBVIOUS
    <2>2. n \in Nat /\ n + 1 \in 1..Len(s) /\ (n + 1) - 1 = n /\ g[n] = h[n]
      BY <1>1, <2>1
    <2>3. g[n + 1] = IF s[n + 1] \in S THEN Append(g[n], s[n + 1]) ELSE g[n]
      BY <1>2, <2>2 DEF FollowsRecursion
    <2>4. h[n + 1] = IF s[n + 1] \in S THEN Append(h[n], s[n + 1]) ELSE h[n]
      BY <1>3, <2>2 DEF FollowsRecursion
    <2> QED
      BY <2>2, <2>3, <2>4
  <1>7. Q \in SUBSET Nat
    OBVIOUS
  <1> HIDE DEF Q
  <1>8. Q = Nat
    BY <1>5, <1>6, <1>7, NatSetInduction
  <1>9. \A n \in 0..Len(s) : g[n] = h[n]
    BY <1>1, <1>8 DEF Q
  <1> QED
    BY <1>2, <1>3, <1>9 DEF FollowsRecursion

\* Filter as the recursion over its argument, and its type.
LEMMA FilterValue ==
    ASSUME NEW T, NEW S, NEW s \in Seq(T), NEW g, IsFilterOf(g, s, S)
    PROVE  Filter(s, S) = g[Len(s)]
  <1> DEFINE f == CHOOSE f : IsFilterOf(f, s, S)
  <1>1. IsFilterOf(f, s, S)
    OBVIOUS
  <1>2. f = g
    <2> HIDE DEF f
    <2> QED
      BY <1>1, FilterUnique
  <1>3. Filter(s, S) = f[Len(s)]
    BY DEF Filter, IsFilterOf
  <1> QED
    BY <1>2, <1>3, Zenon

\* Filtering a sequence element by element, from its front.
LEMMA FilterAppend ==
    ASSUME NEW T, NEW S, NEW s \in Seq(T), NEW x \in T
    PROVE  /\ Filter(<<>>, S) = <<>>
           /\ Filter(s, S) \in Seq(T)
           /\ Filter(Append(s, x), S)
                = IF x \in S THEN Append(Filter(s, S), x) ELSE Filter(s, S)
  <1>1. PICK g : IsFilterOf(g, s, S) /\ \A n \in 0..Len(s) : g[n] \in Seq(T)
    BY FilterExists, Zenon
  <1>2. Filter(s, S) = g[Len(s)]
    BY <1>1, FilterValue
  <1>3. Filter(s, S) \in Seq(T)
    <2>1. Len(s) \in 0..Len(s)
      BY LenProperties
    <2> QED
      BY <1>1, <1>2, <2>1
  <1>4. PICK h : /\ IsFilterOf(h, Append(s, x), S)
                 /\ h[Len(Append(s, x))]
                        = IF x \in S THEN Append(g[Len(s)], x) ELSE g[Len(s)]
    BY <1>1, FilterExtends
  <1>5. Append(s, x) \in Seq(T)
    BY AppendProperties
  <1>6. Filter(Append(s, x), S) = h[Len(Append(s, x))]
    BY <1>4, <1>5, FilterValue, Zenon
  <1>7. Filter(<<>>, S) = <<>>
    <2>1. <<>> \in Seq(T) /\ Len(<<>>) = 0
      BY EmptySeq
    <2>2. PICK e : IsFilterOf(e, <<>>, S)
      BY <2>1, FilterExists, Zenon
    <2>3. e[0] = <<>>
      BY <2>1, <2>2 DEF IsFilterOf
    <2>4. Filter(<<>>, S) = e[Len(<<>>)]
      BY <2>1, <2>2, FilterValue, Zenon
    <2> QED
      BY <2>1, <2>3, <2>4
  <1> QED
    BY <1>2, <1>3, <1>4, <1>6, <1>7

\* An empty list has nothing to keep.
LEMMA FilterNothing ==
    ASSUME NEW S PROVE Filter(<<>>, S) = <<>>
  <1>1. <<>> \in Seq({0}) /\ 0 \in {0}
    BY EmptySeq
  <1> QED
    BY <1>1, FilterAppend, Zenon

\* What is kept is in S, and was there before.
LEMMA FilterKeeps ==
    ASSUME NEW T, NEW S, NEW s \in Seq(T)
    PROVE  Filter(s, S) \in Seq(T) /\ Filter(s, S) \in Seq(T \cap S)
  <1> DEFINE Q == {u \in Seq(T) : Filter(u, S) \in Seq(T) /\ Filter(u, S) \in Seq(T \cap S)}
  <1>1. <<>> \in Q
    BY FilterNothing, EmptySeq, Zenon
  <1>2. ASSUME NEW u \in Q, NEW x \in T PROVE Append(u, x) \in Q
    <2>1. u \in Seq(T) /\ Filter(u, S) \in Seq(T) /\ Filter(u, S) \in Seq(T \cap S)
      OBVIOUS
    <2>2. Append(u, x) \in Seq(T)
      BY <2>1, AppendProperties
    <2>3. Filter(Append(u, x), S) = IF x \in S THEN Append(Filter(u, S), x) ELSE Filter(u, S)
      BY <2>1, FilterAppend
    <2>4. x \in S => Append(Filter(u, S), x) \in Seq(T) /\ Append(Filter(u, S), x) \in Seq(T \cap S)
      BY <2>1, AppendProperties
    <2> QED
      BY <2>1, <2>2, <2>3, <2>4, Zenon
  <1> HIDE DEF Q
  <1>3. Q \in SUBSET Seq(T)
    BY DEF Q
  <1>4. Q = Seq(T)
    BY <1>1, <1>2, <1>3, SeqSetInduction, Zenon
  <1> QED
    BY <1>4 DEF Q

\* Only the elements decide: two sets that agree on them keep the same.
LEMMA FilterAgrees ==
    ASSUME NEW T, NEW S, NEW R, NEW s \in Seq(T),
           \A i \in 1..Len(s) : s[i] \in S <=> s[i] \in R
    PROVE  Filter(s, S) = Filter(s, R)
  <1> DEFINE Agree(u) == \A i \in 1..Len(u) : u[i] \in S <=> u[i] \in R
             Q == {u \in Seq(T) : Agree(u) => Filter(u, S) = Filter(u, R)}
  <1>1. <<>> \in Q
    BY FilterNothing, EmptySeq
  <1>2. ASSUME NEW u \in Q, NEW x \in T PROVE Append(u, x) \in Q
    <2>1. u \in Seq(T) /\ Len(u) \in Nat /\ Append(u, x) \in Seq(T)
      BY AppendProperties, LenProperties
    <2>2. SUFFICES ASSUME Agree(Append(u, x))
                   PROVE  Filter(Append(u, x), S) = Filter(Append(u, x), R)
      BY <2>1, Zenon
    <2>3. /\ Len(Append(u, x)) = Len(u) + 1 /\ Append(u, x)[Len(u) + 1] = x
          /\ \A i \in 1..Len(u) : Append(u, x)[i] = u[i]
      BY <2>1, AppendProperties
    <2>4. (x \in S <=> x \in R) /\ Agree(u)
      BY <2>1, <2>2, <2>3
    <2>5. Filter(u, S) = Filter(u, R)
      BY <2>4
    <2> HIDE DEF Q, Agree
    <2>6. Filter(Append(u, x), S) = IF x \in S THEN Append(Filter(u, S), x) ELSE Filter(u, S)
      BY <2>1, FilterAppend
    <2>7. Filter(Append(u, x), R) = IF x \in R THEN Append(Filter(u, R), x) ELSE Filter(u, R)
      BY <2>1, FilterAppend
    <2> QED
      BY <2>4, <2>5, <2>6, <2>7
  <1> HIDE DEF Q
  <1>3. Q \in SUBSET Seq(T)
    BY DEF Q
  <1>4. Q = Seq(T)
    BY <1>1, <1>2, <1>3, SeqSetInduction, Zenon
  <1> QED
    BY <1>4 DEF Q

\* Filtering twice keeps what passes both filters.
LEMMA FilterTwice ==
    ASSUME NEW T, NEW S, NEW R, NEW s \in Seq(T)
    PROVE  Filter(Filter(s, S), R) = Filter(s, S \cap R)
  <1> DEFINE Q == {u \in Seq(T) : Filter(Filter(u, S), R) = Filter(u, S \cap R)}
  <1>1. <<>> \in Q
    BY FilterNothing, EmptySeq
  <1>2. ASSUME NEW u \in Q, NEW x \in T PROVE Append(u, x) \in Q
    <2>1. u \in Seq(T) /\ Filter(Filter(u, S), R) = Filter(u, S \cap R)
      OBVIOUS
    <2>2. Append(u, x) \in Seq(T)
      BY <2>1, AppendProperties
    <2>3. Filter(u, S) \in Seq(T)
      BY <2>1, FilterKeeps, Zenon
    <2> HIDE DEF Q
    <2>4. Filter(Append(u, x), S) = IF x \in S THEN Append(Filter(u, S), x) ELSE Filter(u, S)
      BY <2>1, FilterAppend
    <2>5. Filter(Append(u, x), S \cap R)
            = IF x \in S \cap R THEN Append(Filter(u, S \cap R), x) ELSE Filter(u, S \cap R)
      BY <2>1, FilterAppend
    <2>6. Filter(Append(Filter(u, S), x), R)
            = IF x \in R THEN Append(Filter(Filter(u, S), R), x) ELSE Filter(Filter(u, S), R)
      BY <2>3, FilterAppend
    <2>7. Filter(Filter(Append(u, x), S), R) = Filter(Append(u, x), S \cap R)
      <3>1. CASE x \in S /\ x \in R
        BY <2>1, <2>4, <2>5, <2>6, <3>1, Zenon
      <3>2. CASE x \in S /\ x \notin R
        BY <2>1, <2>4, <2>5, <2>6, <3>2
      <3>3. CASE x \notin S
        BY <2>1, <2>4, <2>5, <3>3
      <3> QED
        BY <3>1, <3>2, <3>3
    <2> QED
      BY <2>2, <2>7 DEF Q
  <1> HIDE DEF Q
  <1>3. Q \in SUBSET Seq(T)
    BY DEF Q
  <1>4. Q = Seq(T)
    BY <1>1, <1>2, <1>3, SeqSetInduction, Zenon
  <1> QED
    BY <1>4, Zenon DEF Q

\* Nothing is kept exactly when no element is in the set.
LEMMA FilterEmptyIff ==
    ASSUME NEW T, NEW S, NEW s \in Seq(T)
    PROVE  Filter(s, S) = <<>> <=> \A i \in 1..Len(s) : s[i] \notin S
  <1> DEFINE Clean(u) == \A i \in 1..Len(u) : u[i] \notin S
             Q == {u \in Seq(T) : Filter(u, S) = <<>> <=> Clean(u)}
  <1>1. <<>> \in Q
    BY FilterNothing, EmptySeq
  <1>2. ASSUME NEW u \in Q, NEW x \in T PROVE Append(u, x) \in Q
    <2>1. u \in Seq(T) /\ Len(u) \in Nat /\ Append(u, x) \in Seq(T)
      BY AppendProperties, LenProperties
    <2>2. /\ Len(Append(u, x)) = Len(u) + 1 /\ Append(u, x)[Len(u) + 1] = x
          /\ \A i \in 1..Len(u) : Append(u, x)[i] = u[i]
      BY <2>1, AppendProperties
    <2>3. Clean(Append(u, x)) <=> Clean(u) /\ x \notin S
      BY <2>1, <2>2
    <2>4. Filter(u, S) = <<>> <=> Clean(u)
      OBVIOUS
    <2> HIDE DEF Q, Clean
    <2>5. Filter(Append(u, x), S) = IF x \in S THEN Append(Filter(u, S), x) ELSE Filter(u, S)
      BY <2>1, FilterAppend
    <2>6. Append(Filter(u, S), x) # <<>>
      BY <2>1, FilterKeeps, AppendProperties
    <2>7. Filter(Append(u, x), S) = <<>> <=> Clean(Append(u, x))
      BY <2>3, <2>4, <2>5, <2>6
    <2> QED
      BY <2>1, <2>7 DEF Q
  <1> HIDE DEF Q
  <1>3. Q \in SUBSET Seq(T)
    BY DEF Q
  <1>4. Q = Seq(T)
    BY <1>1, <1>2, <1>3, SeqSetInduction, Zenon
  <1> QED
    BY <1>4 DEF Q

\* Filtering a concatenation.
LEMMA FilterConcat ==
    ASSUME NEW T, NEW S, NEW s \in Seq(T), NEW r \in Seq(T)
    PROVE  Filter(s \o r, S) = Filter(s, S) \o Filter(r, S)
  <1> DEFINE Q == {u \in Seq(T) : Filter(s \o u, S) = Filter(s, S) \o Filter(u, S)}
  <1>0. Filter(s, S) \in Seq(T)
    BY FilterKeeps, Zenon
  <1>1. <<>> \in Q
    BY <1>0, FilterNothing, EmptySeq, ConcatEmptySeq
  <1>2. ASSUME NEW u \in Q, NEW x \in T PROVE Append(u, x) \in Q
    <2>1. u \in Seq(T) /\ Filter(s \o u, S) = Filter(s, S) \o Filter(u, S)
      OBVIOUS
    <2>2. Append(u, x) \in Seq(T) /\ s \o u \in Seq(T) /\ Filter(u, S) \in Seq(T)
      <3>1. s \o u \in Seq(T)
        BY <2>1, ConcatProperties, Zenon
      <3> QED
        BY <2>1, <3>1, AppendProperties, FilterKeeps, Zenon
    <2> HIDE DEF Q
    <2>3. s \o Append(u, x) = Append(s \o u, x)
      BY <2>1, AppendAfterConcat
    <2>4. Filter(Append(s \o u, x), S)
            = IF x \in S THEN Append(Filter(s \o u, S), x) ELSE Filter(s \o u, S)
      <3> DEFINE su == s \o u
      <3> HIDE DEF su
      <3>1. Filter(Append(su, x), S) = IF x \in S THEN Append(Filter(su, S), x) ELSE Filter(su, S)
        <4>1. su \in Seq(T)
          BY <2>2 DEF su
        <4> QED
          BY <4>1, FilterAppend
      <3> QED
        BY <3>1 DEF su
    <2>5. Filter(Append(u, x), S) = IF x \in S THEN Append(Filter(u, S), x) ELSE Filter(u, S)
      BY <2>1, FilterAppend
    <2>6. Filter(s, S) \o Append(Filter(u, S), x) = Append(Filter(s, S) \o Filter(u, S), x)
      BY <1>0, <2>2, AppendAfterConcat
    <2>7. Filter(s \o Append(u, x), S) = Filter(s, S) \o Filter(Append(u, x), S)
      BY <2>1, <2>3, <2>4, <2>5, <2>6, Zenon
    <2> QED
      BY <2>2, <2>7 DEF Q
  <1> HIDE DEF Q
  <1>3. Q \in SUBSET Seq(T)
    BY DEF Q
  <1>4. Q = Seq(T)
    BY <1>1, <1>2, <1>3, SeqSetInduction, Zenon
  <1> QED
    BY <1>4 DEF Q

\* A sequence around one of its elements.
LEMMA SplitAt ==
    ASSUME NEW T, NEW s \in Seq(T), NEW i \in 1..Len(s)
    PROVE  /\ s[i] \in T /\ SubSeq(s, 1, i - 1) \in Seq(T) /\ SubSeq(s, i + 1, Len(s)) \in Seq(T)
           /\ s = Append(SubSeq(s, 1, i - 1), s[i]) \o SubSeq(s, i + 1, Len(s))
  <1> DEFINE a == SubSeq(s, 1, i - 1)
             x == s[i]
             b == SubSeq(s, i + 1, Len(s))
             c == Append(a, x)
  <1>1. a \in Seq(T) /\ Len(a) = i - 1 /\ \A j \in 1..(i - 1) : a[j] = s[j]
    BY SubSeqProperties
  <1>2. b \in Seq(T) /\ Len(b) = Len(s) - i /\ \A j \in 1..(Len(s) - i) : b[j] = s[i + j]
    BY SubSeqProperties
  <1>3. x \in T /\ Len(s) \in Nat
    BY ElementOfSeq, LenProperties
  <1> HIDE DEF a, b, x
  <1>4. c \in Seq(T) /\ Len(c) = Len(a) + 1 /\ (\A j \in 1..Len(a) : c[j] = a[j]) /\ c[Len(a) + 1] = x
    BY <1>1, <1>3, AppendProperties
  <1> HIDE DEF c
  <1>5. /\ c \o b \in Seq(T) /\ Len(c \o b) = Len(c) + Len(b)
        /\ \A j \in 1..(Len(c) + Len(b)) : (c \o b)[j] = IF j <= Len(c) THEN c[j] ELSE b[j - Len(c)]
    BY <1>2, <1>4, ConcatProperties, Zenon
  <1>6. Len(c) = i /\ Len(c) + Len(b) = Len(s)
    BY <1>1, <1>2, <1>3, <1>4
  <1>7. ASSUME NEW j \in 1..Len(s) PROVE s[j] = (c \o b)[j]
    <2>1. CASE j < i
      BY <1>1, <1>3, <1>4, <1>5, <1>6, <2>1
    <2>2. CASE j = i
      BY <1>1, <1>3, <1>4, <1>5, <1>6, <2>2 DEF x
    <2>3. CASE j > i
      <3>1. j - i \in 1..(Len(s) - i) /\ i + (j - i) = j
        BY <1>3, <2>3
      <3>2. (c \o b)[j] = b[j - i]
        BY <1>3, <1>5, <1>6, <2>3
      <3> QED
        BY <1>2, <3>1, <3>2
    <2>4. j < i \/ j = i \/ j > i
      BY <1>3
    <2> QED
      BY <2>1, <2>2, <2>3, <2>4, Zenon
  <1>8. s = c \o b
    <2>1. Len(s) = Len(c \o b)
      BY <1>5, <1>6
    <2> DEFINE d == c \o b
    <2> HIDE DEF d
    <2>2. d \in Seq(T) /\ Len(s) = Len(d) /\ \A j \in 1..Len(s) : s[j] = d[j]
      BY <1>5, <1>7, <2>1 DEF d
    <2>3. s = d
      BY <2>2, SeqEqual
    <2> QED
      BY <2>3 DEF d
  <1> QED
    BY <1>1, <1>2, <1>3, <1>8, Zenon DEF a, b, c, x

\* Vec::remove leaves what is before the element followed by what is behind it.
LEMMA RemoveAtJoins ==
    ASSUME NEW T, NEW s \in Seq(T), NEW i \in 1..Len(s)
    PROVE  RemoveAt(s, i) = SubSeq(s, 1, i - 1) \o SubSeq(s, i + 1, Len(s))
  <1> DEFINE a == SubSeq(s, 1, i - 1)
             b == SubSeq(s, i + 1, Len(s))
             c == a \o b
             r == RemoveAt(s, i)
  <1>1. a \in Seq(T) /\ Len(a) = i - 1 /\ \A j \in 1..(i - 1) : a[j] = s[j]
    BY SubSeqProperties
  <1>2. b \in Seq(T) /\ Len(b) = Len(s) - i /\ \A j \in 1..(Len(s) - i) : b[j] = s[i + j]
    BY SubSeqProperties
  <1>3. Len(s) \in Nat /\ i \in Nat
    BY LenProperties
  <1>4. /\ r \in Seq(T) /\ Len(r) = Len(s) - 1
        /\ \A j \in 1..(Len(s) - 1) : r[j] = IF j < i THEN s[j] ELSE s[j + 1]
    BY RemoveAtProperties
  <1> HIDE DEF a, b, r
  <1>5. /\ c \in Seq(T) /\ Len(c) = Len(a) + Len(b)
        /\ \A j \in 1..(Len(a) + Len(b)) : c[j] = IF j <= Len(a) THEN a[j] ELSE b[j - Len(a)]
    BY <1>1, <1>2, ConcatProperties, Zenon
  <1> HIDE DEF c
  <1>6. Len(c) = Len(s) - 1 /\ Len(a) + Len(b) = Len(s) - 1
    BY <1>1, <1>2, <1>3, <1>5
  <1>7. ASSUME NEW j \in 1..(Len(s) - 1) PROVE r[j] = c[j]
    <2>1. CASE j < i
      <3>1. j <= Len(a) /\ j \in 1..(i - 1)
        BY <1>1, <1>3, <2>1
      <3> QED
        BY <1>1, <1>4, <1>5, <1>6, <2>1, <3>1
    <2>2. CASE ~(j < i)
      <3> DEFINE k == j - Len(a)
      <3>1. ~(j <= Len(a)) /\ k \in 1..(Len(s) - i) /\ i + k = j + 1
        BY <1>1, <1>3, <2>2
      <3> HIDE DEF k
      <3>2. c[j] = b[k]
        BY <1>5, <1>6, <3>1 DEF k
      <3>3. b[k] = s[j + 1]
        BY <1>2, <3>1
      <3> QED
        BY <1>4, <2>2, <3>2, <3>3
    <2> QED
      BY <2>1, <2>2
  <1>8. r = c
    BY <1>4, <1>5, <1>6, <1>7, SeqEqual
  <1> QED
    BY <1>8 DEF a, b, c, r

\* Vec::remove of an element that is kept, or that is not.
LEMMA FilterRemoveAt ==
    ASSUME NEW T, NEW S, NEW s \in Seq(T), NEW i \in 1..Len(s)
    PROVE  /\ s[i] \notin S => Filter(RemoveAt(s, i), S) = Filter(s, S)
           /\ s[i] \in S => Len(Filter(RemoveAt(s, i), S)) = Len(Filter(s, S)) - 1
  <1> DEFINE a == SubSeq(s, 1, i - 1)
             x == s[i]
             b == SubSeq(s, i + 1, Len(s))
  <1>1. x \in T /\ a \in Seq(T) /\ b \in Seq(T) /\ s = Append(a, x) \o b
    BY SplitAt, Zenon
  <1>2. RemoveAt(s, i) = a \o b
    BY RemoveAtJoins
  <1> HIDE DEF a, b, x
  <1>3. Append(a, x) \in Seq(T)
    BY <1>1, AppendProperties
  <1>4. Filter(s, S) = Filter(Append(a, x), S) \o Filter(b, S)
    BY <1>1, <1>3, FilterConcat, Zenon
  <1>5. Filter(RemoveAt(s, i), S) = Filter(a, S) \o Filter(b, S)
    BY <1>1, <1>2, FilterConcat
  <1>6. Filter(Append(a, x), S) = IF x \in S THEN Append(Filter(a, S), x) ELSE Filter(a, S)
    BY <1>1, FilterAppend
  <1>7. CASE x \notin S
    BY <1>4, <1>5, <1>6, <1>7 DEF x
  <1>8. CASE x \in S
    <2> DEFINE fa == Filter(a, S)
               fb == Filter(b, S)
               fx == Append(fa, x)
    <2>1. fa \in Seq(T) /\ fb \in Seq(T)
      BY <1>1, FilterKeeps, Zenon
    <2> HIDE DEF fa, fb
    <2>2. fx \in Seq(T) /\ Len(fx) = Len(fa) + 1
      BY <1>1, <2>1, AppendProperties
    <2> HIDE DEF fx
    <2>3. Len(fx \o fb) = Len(fx) + Len(fb) /\ Len(fa \o fb) = Len(fa) + Len(fb)
      BY <2>1, <2>2, ConcatProperties, Zenon
    <2>4. Len(fa) \in Nat /\ Len(fb) \in Nat
      BY <2>1, LenProperties
    <2>5. Len(fa \o fb) = Len(fx \o fb) - 1
      BY <2>2, <2>3, <2>4
    <2>6. Filter(s, S) = fx \o fb /\ Filter(RemoveAt(s, i), S) = fa \o fb
      BY <1>4, <1>5, <1>6, <1>8 DEF fa, fb, fx
    <2> QED
      BY <1>8, <2>5, <2>6 DEF x
  <1> QED
    BY <1>7, <1>8

\* The ids of a list of slots or descriptors.
IdList(s) == [i \in 1..Len(s) |-> s[i].id]

\* The ids grow with the list.
LEMMA IdListAppend ==
    ASSUME NEW T, NEW U, \A x \in T : x.id \in U, NEW s \in Seq(T), NEW x \in T
    PROVE  /\ IdList(s) \in Seq(U) /\ Len(IdList(s)) = Len(s)
           /\ IdList(Append(s, x)) = Append(IdList(s), x.id)
  <1> DEFINE l == IdList(s)
             a == Append(s, x)
             al == IdList(a)
             la == Append(l, x.id)
  <1>1. Len(s) \in Nat /\ \A i \in 1..Len(s) : s[i] \in T
    BY ElementOfSeq, LenProperties
  <1>2. l \in Seq(U) /\ Len(l) = Len(s) /\ \A i \in 1..Len(s) : l[i] = s[i].id
    BY <1>1 DEF IdList
  <1>3. /\ a \in Seq(T) /\ Len(a) = Len(s) + 1
        /\ (\A i \in 1..Len(s) : a[i] = s[i]) /\ a[Len(s) + 1] = x
    BY AppendProperties
  <1> HIDE DEF l, a
  <1>4. \A i \in 1..Len(a) : a[i] \in T
    BY <1>3, ElementOfSeq
  <1>5. al \in Seq(U) /\ Len(al) = Len(a) /\ \A i \in 1..Len(a) : al[i] = a[i].id
    BY <1>1, <1>3, <1>4 DEF IdList
  <1> HIDE DEF al
  <1>6. x.id \in U
    OBVIOUS
  <1>7. /\ la \in Seq(U) /\ Len(la) = Len(l) + 1
        /\ (\A i \in 1..Len(l) : la[i] = l[i]) /\ la[Len(l) + 1] = x.id
    <2> DEFINE y == x.id
    <2> HIDE DEF y
    <2>1. y \in U
      BY <1>6 DEF y
    <2>2. /\ Append(l, y) \in Seq(U) /\ Len(Append(l, y)) = Len(l) + 1
          /\ (\A i \in 1..Len(l) : Append(l, y)[i] = l[i]) /\ Append(l, y)[Len(l) + 1] = y
      BY <1>2, <2>1, AppendProperties
    <2> QED
      BY <2>2 DEF y
  <1> HIDE DEF la
  <1>8. ASSUME NEW i \in 1..Len(al) PROVE al[i] = la[i]
    <2>1. CASE i \in 1..Len(s)
      BY <1>1, <1>2, <1>3, <1>5, <1>7, <2>1, Zenon
    <2>2. CASE i = Len(s) + 1
      BY <1>1, <1>2, <1>3, <1>5, <1>7, <2>2
    <2> QED
      BY <1>1, <1>3, <1>5, <2>1, <2>2
  <1>9. al = la
    <2>1. Len(al) = Len(la)
      BY <1>2, <1>3, <1>5, <1>7
    <2> QED
      BY <1>5, <1>7, <1>8, <2>1, SeqEqual
  <1> QED
    BY <1>2, <1>9 DEF a, al, l, la

\* Taking the first element off.
LEMMA FilterTail ==
    ASSUME NEW T, NEW S, NEW s \in Seq(T), s # <<>>
    PROVE  /\ Head(s) \in T /\ Tail(s) \in Seq(T)
           /\ Head(s) \notin S => Filter(Tail(s), S) = Filter(s, S)
           /\ Head(s) \in S => Len(Filter(Tail(s), S)) = Len(Filter(s, S)) - 1
  <1>1. Len(s) \in Nat /\ 1 \in 1..Len(s) /\ Head(s) = s[1]
    BY LenProperties, EmptySeq
  <1> DEFINE r == RemoveAt(s, 1)
             u == Tail(s)
  <1>2. /\ r \in Seq(T) /\ Len(r) = Len(s) - 1
        /\ \A j \in 1..(Len(s) - 1) : r[j] = IF j < 1 THEN s[j] ELSE s[j + 1]
    BY <1>1, RemoveAtProperties
  <1>3. u \in Seq(T) /\ Len(u) = Len(s) - 1 /\ \A j \in 1..(Len(s) - 1) : u[j] = s[j + 1]
    BY <1>1, HeadTailProperties
  <1> HIDE DEF r, u
  <1>4. \A j \in 1..Len(r) : r[j] = u[j]
    BY <1>1, <1>2, <1>3
  <1>5. r = u
    BY <1>2, <1>3, <1>4, SeqEqual
  <1>6. Head(s) \in T
    BY <1>1, ElementOfSeq
  <1>7. /\ s[1] \notin S => Filter(r, S) = Filter(s, S)
        /\ s[1] \in S => Len(Filter(r, S)) = Len(Filter(s, S)) - 1
    BY <1>1, FilterRemoveAt DEF r
  <1> QED
    BY <1>1, <1>3, <1>5, <1>6, <1>7 DEF u

\* A prefix keeps what the shorter prefix keeps and its last element, and never
\* more than the whole list.
LEMMA FilterPrefix ==
    ASSUME NEW T, NEW S, NEW s \in Seq(T), NEW n \in 1..Len(s)
    PROVE  /\ s[n] \in T /\ SubSeq(s, 1, n - 1) \in Seq(T) /\ SubSeq(s, 1, n) \in Seq(T)
           /\ Filter(SubSeq(s, 1, n), S)
                = IF s[n] \in S THEN Append(Filter(SubSeq(s, 1, n - 1), S), s[n])
                  ELSE Filter(SubSeq(s, 1, n - 1), S)
           /\ Len(Filter(SubSeq(s, 1, n), S)) <= Len(Filter(s, S))
  <1> DEFINE a == SubSeq(s, 1, n - 1)
             x == s[n]
             b == SubSeq(s, n + 1, Len(s))
             c == SubSeq(s, 1, n)
  <1>1. x \in T /\ a \in Seq(T) /\ b \in Seq(T) /\ s = Append(a, x) \o b
    BY SplitAt, Zenon
  <1>2. c = Append(a, x)
    <2>1. Len(s) \in Nat /\ n \in Nat /\ n - 1 \in Nat /\ (n - 1) + 1 = n
      BY LenProperties
    <2>2. c \in Seq(T) /\ Len(c) = n /\ \A i \in 1..n : c[i] = s[i]
      BY <2>1, SubSeqProperties
    <2>3. a \in Seq(T) /\ Len(a) = n - 1 /\ \A i \in 1..(n - 1) : a[i] = s[i]
      BY <2>1, SubSeqProperties
    <2> HIDE DEF a, b, c
    <2> DEFINE d == Append(a, s[n])
    <2>4. /\ d \in Seq(T) /\ Len(d) = Len(a) + 1
          /\ (\A i \in 1..Len(a) : d[i] = a[i]) /\ d[Len(a) + 1] = s[n]
      BY <1>1, <2>3, AppendProperties
    <2> HIDE DEF d
    <2>5. ASSUME NEW i \in 1..Len(c) PROVE c[i] = d[i]
      <3>1. CASE i = n
        BY <2>1, <2>2, <2>3, <2>4, <3>1
      <3>2. CASE i # n
        <4>1. i \in 1..(n - 1)
          BY <2>1, <2>2, <3>2
        <4> QED
          BY <2>1, <2>2, <2>3, <2>4, <4>1
      <3> QED
        BY <3>1, <3>2
    <2>6. c = d
      BY <2>1, <2>2, <2>3, <2>4, <2>5, SeqEqual
    <2> QED
      BY <2>6 DEF d
  <1> HIDE DEF a, b, c, x
  <1>3. Filter(c, S) = IF x \in S THEN Append(Filter(a, S), x) ELSE Filter(a, S)
    BY <1>1, <1>2, FilterAppend
  <1>4. c \in Seq(T)
    BY <1>1, <1>2, AppendProperties
  <1>5. Filter(s, S) = Filter(c, S) \o Filter(b, S)
    <2>1. s = c \o b
      BY <1>1, <1>2
    <2> QED
      BY <1>1, <1>4, <2>1, FilterConcat
  <1>6. Len(Filter(c, S)) <= Len(Filter(s, S))
    <2> DEFINE fc == Filter(c, S)
               fb == Filter(b, S)
    <2>1. fc \in Seq(T) /\ fb \in Seq(T)
      BY <1>1, <1>4, FilterKeeps, Zenon
    <2> HIDE DEF fc, fb
    <2>2. Len(fc \o fb) = Len(fc) + Len(fb)
      BY <2>1, ConcatProperties, Zenon
    <2>3. Len(fc) \in Nat /\ Len(fb) \in Nat
      BY <2>1, LenProperties
    <2>4. Len(fc) <= Len(fc \o fb)
      BY <2>2, <2>3
    <2> QED
      BY <1>5, <2>4 DEF fc, fb
  <1> QED
    BY <1>1, <1>3, <1>4, <1>6 DEF a, c, x

\* The slots of an id, as the elements of a fixed set.
LEMMA CopiesAreFiltered ==
    ASSUME NEW T, NEW s \in Seq(T), NEW id
    PROVE  Copies(s, id) = Filter(s, {x \in T : x.id = id})
  <1>1. DOMAIN s = 1..Len(s) /\ \A i \in 1..Len(s) : s[i] \in T
    BY ElementOfSeq, LenProperties
  <1>2. \A i \in 1..Len(s) : s[i] \in {x \in Range(s) : x.id = id} <=> s[i] \in {x \in T : x.id = id}
    BY <1>1 DEF Range
  <1> QED
    BY <1>2, FilterAgrees DEF Copies

-----------------------------------------------------------------------------
(* What a source answers.                                                  *)

\* A list written by its elements is a sequence of them.
LEMMA ListIsSequence ==
    ASSUME NEW f, NEW n \in Nat, DOMAIN f = 1..n, f = [i \in 1..n |-> f[i]]
    PROVE  f \in Seq(Range(f))
  <1>1. \A i \in 1..n : f[i] \in Range(f)
    BY DEF Range
  <1>2. f \in [1..n -> Range(f)]
    BY <1>1
  <1> QED
    BY <1>2

\* Whatever the kind of source, discover returns a list or an error.
LEMMA AnswerIsSequence ==
    ASSUME NEW s \in Source, NEW r \in Registries[s.kind], Answer(s, r) # None
    PROVE  Answer(s, r) \in Seq(Range(Answer(s, r)))
  <1>1. r \in Seq(Range(r)) /\ Len(r) \in Nat
    BY RegistryAssumption, LenProperties
  <1>2. CASE s.kind = "static"
    BY <1>1, <1>2 DEF Answer
  <1>3. CASE s.kind = "dns"
    <2> DEFINE a == DnsDiscover(r)
    <2>1. Answer(s, r) = a
      BY <1>3 DEF Answer
    <2>2. DOMAIN a = 1..Len(r) /\ a = [i \in 1..Len(r) |-> a[i]]
      BY DEF DnsDiscover, Map
    <2> HIDE DEF a
    <2>3. a \in Seq(Range(a))
      BY <1>1, <2>2, ListIsSequence, Zenon
    <2> QED
      BY <2>1, <2>3
  <1>4. CASE s.kind = "consul"
    <2> DEFINE k == {e \in Range(r) : TagMatches(s.tag_filter, e) /\ Addressed(e)}
               u == Filter(r, k)
               a == ConsulDiscover(s.tag_filter, r)
    <2>1. Answer(s, r) = a
      BY <1>4 DEF Answer
    <2>2. Len(u) \in Nat
      <3> HIDE DEF k
      <3> QED
        BY <1>1, FilterKeeps, LenProperties
    <2>3. DOMAIN a = 1..Len(u) /\ a = [i \in 1..Len(u) |-> a[i]]
      <3> HIDE DEF u
      <3>1. a = [i \in 1..Len(u) |->
                    [id |-> IF u[i].service_id = None THEN "" ELSE u[i].service_id,
                     addr |-> <<u[i].address, u[i].port>>]]
        BY DEF ConsulDiscover, Map, u
      <3> QED
        BY <3>1, Zenon
    <2> HIDE DEF a, u
    <2>4. a \in Seq(Range(a))
      BY <2>2, <2>3, ListIsSequence, Zenon
    <2> QED
      BY <2>1, <2>4
  <1>5. CASE s.kind = "etcd"
    <2> DEFINE k == {kv \in Range(r) : kv.socket_addr # None}
               u == Filter(r, k)
               a == [i \in 1..Len(u) |-> [id |-> u[i].key, addr |-> u[i].socket_addr]]
    <2>1. Answer(s, r) = EtcdDiscover(r)
      BY <1>5 DEF Answer
    <2>2. Len(u) \in Nat
      <3> HIDE DEF k
      <3> QED
        BY <1>1, FilterKeeps, LenProperties
    <2>3. EtcdDiscover(r) = IF \E i \in 1..Len(r) : ~r[i].utf8 THEN None ELSE a
      BY DEF EtcdDiscover, Map
    <2>4. DOMAIN a = 1..Len(u) /\ a = [i \in 1..Len(u) |-> a[i]]
      <3> HIDE DEF u
      <3> QED
        OBVIOUS
    <2> HIDE DEF a, u
    <2>5. a \in Seq(Range(a))
      BY <2>2, <2>4, ListIsSequence, Zenon
    <2>6. Answer(s, r) = a
      BY <2>1, <2>3
    <2> QED
      BY <2>5, <2>6
  <1> QED
    BY <1>2, <1>3, <1>4, <1>5, RegistryAssumption

\* Answers, descriptors, ids and slots of the source in use.
LEMMA AnswerFacts ==
    ASSUME source \in Source
    PROVE  /\ \A a \in Answers : a \in Seq(Descriptor) /\ a \in Seq(Slot)
           /\ \A d \in Descriptor : d.id \in Id /\ d \in Slot
           /\ \A x \in Slot : x.id \in Option(Id)
           /\ None \notin Id
           /\ \A id \in Id : \E a \in Answers : TRUE
  <1>1. ASSUME NEW a \in Answers
        PROVE  a \in Seq(Descriptor) /\ a \in Seq(Slot) /\ \A d \in Range(a) : d.id # None
    <2>1. PICK r \in Registries[source.kind] : a = Answer(source, r) /\ a # None
      BY DEF Answers
    <2>2. a \in Seq(Range(a))
      BY <2>1, AnswerIsSequence
    <2>3. Range(a) \subseteq Descriptor /\ Range(a) \subseteq Slot
      BY DEF Descriptor, Slot
    <2>4. Len(a) \in Nat /\ a \in [1..Len(a) -> Range(a)]
      BY <2>2, LenProperties
    <2>5. a \in [1..Len(a) -> Descriptor] /\ a \in [1..Len(a) -> Slot]
      BY <2>3, <2>4
    <2>6. a \in Seq(Descriptor) /\ a \in Seq(Slot)
      BY <2>4, <2>5
    <2>7. \A d \in Range(a) : d.id # None
      BY <2>1, RegistryAssumption
    <2> QED
      BY <2>6, <2>7
  <1>2. \A d \in Descriptor : d.id # None /\ d.id \in Id /\ d \in Slot
    BY <1>1, Zenon DEF Descriptor, Id, Slot
  <1>3. None \notin Id
    BY <1>2 DEF Id
  <1>4. \A x \in Slot : x.id \in Option(Id)
    <2>1. \A x \in [id: {None}, addr: UserAddr] : x.id = None
      OBVIOUS
    <2> QED
      BY <1>2, <2>1 DEF Slot, Option
  <1>5. \A id \in Id : \E a \in Answers : TRUE
    BY DEF Id, Descriptor
  <1> QED
    BY <1>1, <1>2, <1>3, <1>4, <1>5

-----------------------------------------------------------------------------
(* The inductive invariant: what the slots of an id are in the middle of a *)
(* round that compared the pool with the answer once.                      *)

HavingId(T, id) == {x \in T : x.id = id}

\* The slots of list s with this id.
Of(s, id) == Filter(s, HavingId(Slot, id))

\* While removing: an id of the answer has the slots it had; of any other id as
\* many are left as still have to be removed.
Removing(found, current, gone, p, id) ==
    /\ Len(Of(p, id)) = IF id \in IdsOf(found) THEN Len(Filter(current, {id}))
                        ELSE Len(Filter(gone, {id}))
    /\ Filter(current, {id}) = <<>> => Of(p, id) = <<>>

\* While adding: an id that was not there has the slots of the descriptors the
\* loop has passed; one that was there keeps its slots if the answer has it.
Adding(found, next, current, p, id) ==
    IF Filter(current, {id}) = <<>> THEN Of(p, id) = Of(SubSeq(found, 1, next - 1), id)
    ELSE Len(Of(p, id)) = IF id \in IdsOf(found) THEN Len(Filter(current, {id})) ELSE 0

RoundOK(r, p) ==
    /\ r.pc \in {"wait", "remove", "add"} => r.found \in Answers
    /\ r.pc # "add" => r.next = 1
    /\ r.pc = "remove" => /\ r.gone \in Seq(Id \ IdsOf(r.found))
                          /\ \A id \in Id : Removing(r.found, r.current, r.gone, p, id)
    /\ r.pc = "add" => /\ r.next \in 1..(Len(r.found) + 1)
                       /\ \A id \in Id : Adding(r.found, r.next, r.current, p, id)

RoundInv == \A l \in Loop : RoundOK(loops[l], pool)

\* No id has more slots than some answer gives it.
BoundInv == \A id \in Id : \E a \in Answers : Len(Of(pool, id)) <= Len(Of(a, id))

DiscoveryInv == TypeOK /\ RoundInv /\ BoundInv

\* The slots of an id are a list, and there are none exactly when the id does
\* not occur.
LEMMA OfFacts ==
    ASSUME NEW s \in Seq(Slot), NEW id
    PROVE  /\ Of(s, id) \in Seq(Slot) /\ Len(Of(s, id)) \in Nat
           /\ Of(s, id) = <<>> <=> id \notin IdsOf(s)
           /\ Of(s, id) = <<>> <=> Len(Of(s, id)) = 0
           /\ Copies(s, id) = Of(s, id)
  <1> DEFINE S == {x \in Slot : x.id = id}
  <1>1. \A i \in 1..Len(s) : s[i] \in Slot
    BY ElementOfSeq
  <1>2. \A i \in 1..Len(s) : s[i] \in S <=> s[i].id = id
    BY <1>1
  <1>3. Copies(s, id) = Of(s, id)
    BY CopiesAreFiltered DEF Of, HavingId
  <1> HIDE DEF S
  <1>4. Of(s, id) = Filter(s, S)
    BY DEF Of, HavingId, S
  <1>5. Of(s, id) \in Seq(Slot)
    BY <1>4, FilterKeeps, Zenon
  <1>6. Of(s, id) = <<>> <=> \A i \in 1..Len(s) : s[i] \notin S
    BY <1>4, FilterEmptyIff
  <1>7. Of(s, id) = <<>> <=> id \notin IdsOf(s)
    BY <1>2, <1>6 DEF IdsOf
  <1>8. Len(Of(s, id)) \in Nat /\ (Of(s, id) = <<>> <=> Len(Of(s, id)) = 0)
    BY <1>5, LenProperties, EmptySeq
  <1> QED
    BY <1>3, <1>5, <1>7, <1>8

\* The same for a list of ids.
LEMMA IdFacts ==
    ASSUME NEW U, NEW c \in Seq(U), NEW id
    PROVE  /\ Len(Filter(c, {id})) \in Nat
           /\ Filter(c, {id}) = <<>> <=> id \notin Range(c)
           /\ Filter(c, {id}) = <<>> <=> Len(Filter(c, {id})) = 0
  <1>1. Filter(c, {id}) \in Seq(U) /\ DOMAIN c = 1..Len(c)
    BY FilterKeeps, LenProperties, Zenon
  <1>2. Filter(c, {id}) = <<>> <=> \A i \in 1..Len(c) : c[i] \notin {id}
    BY FilterEmptyIff
  <1>3. Filter(c, {id}) = <<>> <=> id \notin Range(c)
    BY <1>1, <1>2 DEF Range
  <1> QED
    BY <1>1, <1>3, LenProperties, EmptySeq

\* Vec::remove of one slot takes one from its own id and nothing from another.
LEMMA OfRemoveAt ==
    ASSUME NEW p \in Seq(Slot), NEW i \in 1..Len(p), NEW id
    PROVE  /\ RemoveAt(p, i) \in Seq(Slot)
           /\ p[i].id # id => Of(RemoveAt(p, i), id) = Of(p, id)
           /\ p[i].id = id => Len(Of(RemoveAt(p, i), id)) = Len(Of(p, id)) - 1
           /\ Len(Of(RemoveAt(p, i), id)) <= Len(Of(p, id))
  <1> DEFINE S == {x \in Slot : x.id = id}
  <1>1. p[i] \in Slot /\ RemoveAt(p, i) \in Seq(Slot)
    BY ElementOfSeq, RemoveAtProperties
  <1>2. p[i] \in S <=> p[i].id = id
    BY <1>1
  <1> HIDE DEF S
  <1>3. Of(p, id) = Filter(p, S) /\ Of(RemoveAt(p, i), id) = Filter(RemoveAt(p, i), S)
    BY DEF Of, HavingId, S
  <1>4. /\ p[i] \notin S => Filter(RemoveAt(p, i), S) = Filter(p, S)
        /\ p[i] \in S => Len(Filter(RemoveAt(p, i), S)) = Len(Filter(p, S)) - 1
    BY FilterRemoveAt
  <1>5. Len(Of(p, id)) \in Nat
    BY OfFacts
  <1>6. /\ p[i].id # id => Of(RemoveAt(p, i), id) = Of(p, id)
        /\ p[i].id = id => Len(Of(RemoveAt(p, i), id)) = Len(Of(p, id)) - 1
    BY <1>2, <1>3, <1>4
  <1>7. Len(Of(RemoveAt(p, i), id)) <= Len(Of(p, id))
    <2>1. CASE p[i].id = id
      BY <1>5, <1>6, <2>1
    <2>2. CASE p[i].id # id
      BY <1>5, <1>6, <2>2
    <2> QED
      BY <2>1, <2>2
  <1> QED
    BY <1>1, <1>6, <1>7

\* Vec::push of one slot adds it to its own id and to no other.
LEMMA OfAppend ==
    ASSUME NEW p \in Seq(Slot), NEW x \in Slot, NEW id
    PROVE  /\ Append(p, x) \in Seq(Slot)
           /\ Of(Append(p, x), id) = IF x.id = id THEN Append(Of(p, id), x) ELSE Of(p, id)
  <1> DEFINE S == {y \in Slot : y.id = id}
  <1>1. x \in S <=> x.id = id
    OBVIOUS
  <1> HIDE DEF S
  <1>2. Of(p, id) = Filter(p, S) /\ Of(Append(p, x), id) = Filter(Append(p, x), S)
    BY DEF Of, HavingId, S
  <1>3. Filter(Append(p, x), S) = IF x \in S THEN Append(Filter(p, S), x) ELSE Filter(p, S)
    BY FilterAppend
  <1> QED
    BY <1>1, <1>2, <1>3, AppendProperties

\* An id has as many slots as it appears among the ids.
LEMMA FilterIds ==
    ASSUME source \in Source, NEW s \in Seq(Slot), NEW id
    PROVE  IdList(s) \in Seq(Option(Id)) /\ Len(Filter(IdList(s), {id})) = Len(Of(s, id))
  <1> DEFINE U == Option(Id)
             Q == {u \in Seq(Slot) : IdList(u) \in Seq(U)
                                     /\ Len(Filter(IdList(u), {id})) = Len(Of(u, id))}
  <1>0. \A x \in Slot : x.id \in U
    BY AnswerFacts
  <1> HIDE DEF U
  <1>1. <<>> \in Q
    <2>1. IdList(<<>>) = <<>> /\ <<>> \in Seq(Slot) /\ <<>> \in Seq(U)
      <3>1. Len(<<>>) = 0
        BY EmptySeq
      <3>2. IdList(<<>>) \in Seq(U) /\ Len(IdList(<<>>)) = 0
        BY <3>1 DEF IdList
      <3> QED
        BY <3>2, EmptySeq
    <2> QED
      BY <2>1, FilterNothing, Zenon DEF Of, HavingId
  <1>2. ASSUME NEW u \in Q, NEW x \in Slot PROVE Append(u, x) \in Q
    <2>1. u \in Seq(Slot) /\ Len(Filter(IdList(u), {id})) = Len(Of(u, id))
      OBVIOUS
    <2> HIDE DEF Q
    <2>2. Append(u, x) \in Seq(Slot) /\ x.id \in U
      BY <1>0, <2>1, AppendProperties
    <2>3. IdList(u) \in Seq(U) /\ IdList(Append(u, x)) = Append(IdList(u), x.id)
      BY <1>0, <2>1, IdListAppend, Zenon
    <2> DEFINE y == x.id
               l == IdList(u)
               fl == Filter(l, {id})
               fu == Of(u, id)
    <2> HIDE DEF y, l
    <2>4. y \in U /\ l \in Seq(U) /\ IdList(Append(u, x)) = Append(l, y)
      BY <2>2, <2>3 DEF y, l
    <2>5. Filter(Append(l, y), {id}) = IF y \in {id} THEN Append(fl, y) ELSE fl
      BY <2>4, FilterAppend
    <2>6. Of(Append(u, x), id) = IF y = id THEN Append(fu, x) ELSE fu
      BY <2>1, OfAppend DEF y
    <2>7. fl \in Seq(U) /\ fu \in Seq(Slot)
      BY <2>1, <2>4, FilterKeeps, OfFacts, Zenon
    <2>8. Len(fl) = Len(fu)
      BY <2>1 DEF l
    <2> HIDE DEF fl, fu
    <2>9. Len(Append(fl, y)) = Len(fl) + 1 /\ Len(Append(fu, x)) = Len(fu) + 1
      BY <2>4, <2>7, AppendProperties
    <2>10. Len(Filter(Append(l, y), {id})) = Len(Of(Append(u, x), id))
      BY <2>5, <2>6, <2>8, <2>9
    <2>11. Append(l, y) \in Seq(U)
      BY <2>4, AppendProperties
    <2> QED
      BY <2>2, <2>4, <2>10, <2>11, Zenon DEF Q
  <1> HIDE DEF Q
  <1>3. Q \in SUBSET Seq(Slot)
    BY DEF Q
  <1>4. Q = Seq(Slot)
    BY <1>1, <1>2, <1>3, SeqSetInduction, Zenon
  <1> QED
    BY <1>4, Zenon DEF Q, U

\* lb.lock() and backend_ids: the comparison of pool and answer.
LEMMA StartRound ==
    ASSUME source \in Source, pool \in Seq(Slot), NEW f \in Answers
    PROVE  /\ BackendIds \in Seq(Option(Id)) /\ Gone(f) \in Seq(Id \ IdsOf(f))
           /\ \A id \in Id : Removing(f, BackendIds, Gone(f), pool, id)
  <1> DEFINE ids == IdList(pool)
             K == IdsOf(pool) \ (IdsOf(f) \cup {None})
             gone == Filter(ids, K)
  <1>1. \A x \in Slot : x.id \in Option(Id)
    BY AnswerFacts
  <1>2. None \notin Id
    BY AnswerFacts
  <1>3. BackendIds = ids /\ Gone(f) = gone
    BY DEF BackendIds, IdList, Gone
  <1>4. ids \in Seq(Option(Id)) /\ \A id \in Id : Len(Filter(ids, {id})) = Len(Of(pool, id))
    BY FilterIds, Zenon
  <1>5. Len(ids) = Len(pool) /\ \A i \in 1..Len(ids) : ids[i] \in IdsOf(pool)
    BY LenProperties DEF IdList, IdsOf
  <1> HIDE DEF ids, K
  <1>6. gone \in Seq(Option(Id) \cap K)
    BY <1>4, FilterKeeps, Zenon
  <1>7. Option(Id) \cap K \subseteq Id \ IdsOf(f)
    BY DEF K, Option
  <1> HIDE DEF gone
  <1>8. gone \in Seq(Id \ IdsOf(f))
    <2>1. Len(gone) \in Nat /\ gone \in [1..Len(gone) -> Option(Id) \cap K]
      BY <1>6, LenProperties
    <2> QED
      BY <1>7, <2>1
  <1>9. ASSUME NEW id \in Id PROVE Removing(f, ids, gone, pool, id)
    <2>1. Len(Filter(ids, {id})) = Len(Of(pool, id))
      BY <1>4
    <2>2. Filter(ids, {id}) = <<>> => Of(pool, id) = <<>>
      <3>1. Filter(ids, {id}) = <<>> <=> Len(Filter(ids, {id})) = 0
        BY <1>4, IdFacts
      <3>2. Of(pool, id) = <<>> <=> Len(Of(pool, id)) = 0
        BY OfFacts
      <3> QED
        BY <2>1, <3>1, <3>2
    <2>3. ASSUME id \notin IdsOf(f) PROVE Filter(gone, {id}) = Filter(ids, {id})
      <3>1. Filter(gone, {id}) = Filter(ids, K \cap {id})
        BY <1>4, FilterTwice DEF gone
      <3>2. \A i \in 1..Len(ids) : ids[i] \in K \cap {id} <=> ids[i] \in {id}
        BY <1>2, <1>5, <2>3 DEF K
      <3>3. Filter(ids, K \cap {id}) = Filter(ids, {id})
        BY <1>4, <3>2, FilterAgrees
      <3> QED
        BY <3>1, <3>3
    <2> QED
      BY <2>1, <2>2, <2>3 DEF Removing
  <1> QED
    BY <1>3, <1>4, <1>8, <1>9

\* remove_backend_by_id takes one slot of its id.
LEMMA WithoutFacts ==
    ASSUME pool \in Seq(Slot), NEW g, NEW id
    PROVE  /\ Without(g) \in Seq(Slot)
           /\ id # g => Of(Without(g), id) = Of(pool, id)
           /\ g \in IdsOf(pool) => Len(Of(Without(g), g)) = Len(Of(pool, g)) - 1
           /\ Len(Of(Without(g), id)) <= Len(Of(pool, id))
  <1> DEFINE slots == {i \in 1..Len(pool) : pool[i].id = g}
  <1>1. CASE slots = {}
    <2>1. Without(g) = pool
      BY <1>1 DEF Without
    <2>2. g \notin IdsOf(pool)
      BY <1>1 DEF IdsOf
    <2>3. Len(Of(pool, id)) \in Nat
      BY OfFacts
    <2> QED
      BY <2>1, <2>2, <2>3
  <1>2. CASE slots # {}
    <2>1. slots \in SUBSET Nat
      BY LenProperties
    <2>2. Without(g) = RemoveAt(pool, Min(slots))
      BY <1>2 DEF Without
    <2> HIDE DEF slots
    <2>3. \E n \in slots : \A m \in slots : n <= m
      BY <1>2, <2>1, LeastNatural
    <2>4. Min(slots) \in slots
      BY <2>3 DEF Min
    <2> DEFINE k == Min(slots)
    <2> HIDE DEF k
    <2>5. k \in 1..Len(pool) /\ pool[k].id = g /\ Without(g) = RemoveAt(pool, k)
      BY <2>2, <2>4 DEF k, slots
    <2> QED
      BY <2>5, OfRemoveAt, Zenon
  <1> QED
    BY <1>1, <1>2

\* One step of the removing loop of reconcile.
LEMMA RemoveStep ==
    ASSUME source \in Source, pool \in Seq(Slot), NEW f, NEW c,
           NEW g \in Seq(Id \ IdsOf(f)), g # <<>>,
           \A id \in Id : Removing(f, c, g, pool, id)
    PROVE  /\ Without(Head(g)) \in Seq(Slot) /\ Tail(g) \in Seq(Id \ IdsOf(f))
           /\ Of(Without(Head(g)), None) = Of(pool, None)
           /\ \A id \in Id : /\ Removing(f, c, Tail(g), Without(Head(g)), id)
                            /\ Len(Of(Without(Head(g)), id)) <= Len(Of(pool, id))
  <1> DEFINE h == Head(g)
             q == Without(h)
  <1>1. h \in Id /\ h \notin IdsOf(f) /\ Tail(g) \in Seq(Id \ IdsOf(f))
    BY FilterTail
  <1>2. q \in Seq(Slot)
    BY WithoutFacts, Zenon
  <1>3. h # None
    BY <1>1, AnswerFacts
  <1>4. Of(q, None) = Of(pool, None)
    BY <1>3, WithoutFacts
  <1>5. ASSUME NEW id \in Id
        PROVE  Removing(f, c, Tail(g), q, id) /\ Len(Of(q, id)) <= Len(Of(pool, id))
    <2>1. Len(Of(q, id)) <= Len(Of(pool, id))
      BY WithoutFacts
    <2>2. Len(Of(pool, id)) \in Nat /\ (Of(pool, id) = <<>> <=> Len(Of(pool, id)) = 0)
      BY OfFacts
    <2>3. Len(Of(q, id)) \in Nat /\ (Of(q, id) = <<>> <=> Len(Of(q, id)) = 0)
      BY <1>2, OfFacts
    <2>4. Filter(c, {id}) = <<>> => Of(q, id) = <<>>
      <3>1. Filter(c, {id}) = <<>> => Of(pool, id) = <<>>
        BY DEF Removing
      <3> QED
        BY <2>1, <2>2, <2>3, <3>1
    <2>5. CASE id # h
      <3>1. Of(q, id) = Of(pool, id)
        BY <2>5, WithoutFacts
      <3>2. Filter(Tail(g), {id}) = Filter(g, {id})
        BY <2>5, FilterTail
      <3>3. Len(Of(pool, id)) = IF id \in IdsOf(f) THEN Len(Filter(c, {id}))
                                ELSE Len(Filter(g, {id}))
        BY Zenon DEF Removing
      <3> QED
        BY <2>1, <2>4, <3>1, <3>2, <3>3 DEF Removing
    <2>6. CASE id = h
      <3>1. Len(Of(pool, id)) = Len(Filter(g, {id}))
        BY <1>1, <2>6, Zenon DEF Removing
      <3>2. Len(Filter(Tail(g), {id})) = Len(Filter(g, {id})) - 1
        BY <2>6, FilterTail
      <3>3. Len(Filter(Tail(g), {id})) \in Nat
        BY <1>1, IdFacts
      <3>4. id \in IdsOf(pool)
        <4>1. Len(Of(pool, id)) # 0
          BY <2>2, <3>1, <3>2, <3>3
        <4> QED
          BY <2>2, <4>1, OfFacts
      <3>5. Len(Of(q, id)) = Len(Of(pool, id)) - 1
        BY <2>6, <3>4, WithoutFacts
      <3> QED
        BY <1>1, <2>1, <2>4, <2>6, <3>1, <3>2, <3>5 DEF Removing
    <2> QED
      BY <2>5, <2>6
  <1> QED
    BY <1>1, <1>2, <1>4, <1>5

\* The removing loop is through.
LEMMA RemoveEnds ==
    ASSUME NEW f \in Seq(Slot), NEW c, NEW p \in Seq(Slot), NEW id, Removing(f, c, <<>>, p, id)
    PROVE  Adding(f, 1, c, p, id)
  <1>1. Filter(<<>>, {id}) = <<>> /\ Len(<<>>) = 0
    BY FilterNothing, EmptySeq
  <1>2. SubSeq(f, 1, 1 - 1) = <<>>
    BY SubSeqEmpty
  <1>3. Of(<<>>, id) = <<>>
    BY FilterNothing DEF Of, HavingId
  <1>4. Adding(f, 1, c, p, id)
          <=> IF Filter(c, {id}) = <<>> THEN Of(p, id) = <<>>
              ELSE Len(Of(p, id)) = IF id \in IdsOf(f) THEN Len(Filter(c, {id})) ELSE 0
    <2>1. Of(SubSeq(f, 1, 1 - 1), id) = <<>>
      BY <1>2, <1>3, Zenon
    <2> QED
      BY <2>1, Zenon DEF Adding
  <1> QED
    BY <1>1, <1>4 DEF Removing

\* The adding loop passes a descriptor: one whose id was there is skipped, any
\* other is appended to the pool.
LEMMA AddStep ==
    ASSUME NEW f \in Seq(Slot), NEW n \in 1..Len(f), NEW U, NEW c \in Seq(U),
           NEW p \in Seq(Slot), NEW q, NEW id, Adding(f, n, c, p, id),
           q = IF f[n].id \in Range(c) THEN p ELSE Append(p, f[n])
    PROVE  Adding(f, n + 1, c, q, id)
  <1> DEFINE x == f[n]
             a == SubSeq(f, 1, n - 1)
             b == SubSeq(f, 1, n)
             S == {y \in Slot : y.id = id}
  <1>1. x \in Slot
    BY ElementOfSeq
  <1>2. x \in S <=> x.id = id
    BY <1>1
  <1>3. n \in Nat /\ (n + 1) - 1 = n
    OBVIOUS
  <1>4. Filter(b, S) = IF x \in S THEN Append(Filter(a, S), x) ELSE Filter(a, S)
    <2> HIDE DEF S
    <2> QED
      BY FilterPrefix, ZenonT(30)
  <1>5. Of(b, id) = IF x.id = id THEN Append(Of(a, id), x) ELSE Of(a, id)
    BY <1>2, <1>4 DEF Of, HavingId
  <1>6. Filter(c, {id}) = <<>> <=> id \notin Range(c)
    BY IdFacts
  <1>7. Of(Append(p, x), id) = IF x.id = id THEN Append(Of(p, id), x) ELSE Of(p, id)
    BY <1>1, OfAppend, Zenon
  <1>8. Of(q, id) = IF x.id = id /\ id \notin Range(c) THEN Append(Of(p, id), x) ELSE Of(p, id)
    BY <1>7
  <1> HIDE DEF a, b, x
  <1>9. CASE Filter(c, {id}) = <<>>
    <2>1. Of(p, id) = Of(a, id)
      BY <1>9 DEF Adding, a
    <2>2. Of(q, id) = Of(b, id)
      BY <1>5, <1>6, <1>8, <1>9, <2>1
    <2> QED
      BY <1>3, <1>9, <2>2 DEF Adding, b
  <1>10. CASE Filter(c, {id}) # <<>>
    <2>1. Of(q, id) = Of(p, id)
      BY <1>6, <1>8, <1>10
    <2> QED
      BY <1>10, <2>1 DEF Adding
  <1> QED
    BY <1>9, <1>10

\* A descriptor that is appended belongs to an id whose slots are the first ones
\* of the answer: there are never more than in the whole answer.
LEMMA AddBound ==
    ASSUME NEW f \in Seq(Slot), NEW n \in 1..Len(f), NEW U, NEW c \in Seq(U),
           NEW p \in Seq(Slot), NEW id, Adding(f, n, c, p, id), f[n].id \notin Range(c)
    PROVE  Of(Append(p, f[n]), id) = Of(p, id) \/ Len(Of(Append(p, f[n]), id)) <= Len(Of(f, id))
  <1>1. f[n] \in Slot
    BY ElementOfSeq
  <1>2. CASE f[n].id # id
    BY <1>1, <1>2, OfAppend
  <1>3. CASE f[n].id = id
    <2> DEFINE q == Append(p, f[n])
    <2>1. Adding(f, n + 1, c, q, id)
      BY AddStep, Zenon
    <2>2. Filter(c, {id}) = <<>> /\ (n + 1) - 1 = n
      BY <1>3, IdFacts
    <2>3. Of(q, id) = Of(SubSeq(f, 1, n), id)
      BY <2>1, <2>2 DEF Adding
    <2>4. Len(Of(SubSeq(f, 1, n), id)) <= Len(Of(f, id))
      <3> DEFINE S == {y \in Slot : y.id = id}
      <3> HIDE DEF S
      <3>1. Len(Filter(SubSeq(f, 1, n), S)) <= Len(Filter(f, S))
        BY FilterPrefix
      <3> QED
        BY <3>1 DEF Of, HavingId, S
    <2> QED
      BY <2>3, <2>4
  <1> QED
    BY <1>2, <1>3

-----------------------------------------------------------------------------
(* Every step preserves the invariant.                                     *)

Reconciling == {"remove", "add"}

\* The source never changes, so nor does what it may answer.
LEMMA SameSource ==
    ASSUME source' = source
    PROVE  /\ Answers' = Answers /\ Descriptor' = Descriptor /\ Slot' = Slot /\ Id' = Id
           /\ LoopState' = LoopState
  <1>1. Answers' = Answers
    BY DEF Answers
  <1>2. Descriptor' = Descriptor
    BY <1>1 DEF Descriptor
  <1>3. Slot' = Slot /\ Id' = Id
    BY <1>2 DEF Slot, Id
  <1> QED
    BY <1>1, <1>2, <1>3 DEF LoopState

\* The whole system keeps the invariant when one loop moves to r, and only the
\* loop that has the balancer touches the pool.
LEMMA LoopMoves ==
    ASSUME DiscoveryInv, NEW l \in Loop, NEW r \in LoopState,
           source' = source, registry' = registry,
           loops' = [loops EXCEPT ![l] = r],
           pool' \in Seq(Slot), pool' = pool \/ lb = l,
           \/ lb' = lb /\ (r.pc \in Reconciling <=> loops[l].pc \in Reconciling)
           \/ lb = Free /\ lb' = l /\ r.pc \in Reconciling
           \/ lb = l /\ lb' = Free /\ r.pc \notin Reconciling,
           signal' \in [Loop -> BOOLEAN], sender' \in Loop \cup {None},
           RoundOK(r, pool'),
           \A id \in Id : \/ Len(Of(pool', id)) <= Len(Of(pool, id))
                         \/ \E a \in Answers : Len(Of(pool', id)) <= Len(Of(a, id))
    PROVE  DiscoveryInv'
  <1>1. /\ Answers' = Answers /\ Descriptor' = Descriptor /\ Slot' = Slot /\ Id' = Id
        /\ LoopState' = LoopState
    BY SameSource
  <1>2. /\ source \in Source /\ registry \in Registries[source.kind] /\ pool \in Seq(Slot)
        /\ loops \in [Loop -> LoopState]
        /\ \A m \in Loop : lb = m <=> loops[m].pc \in Reconciling
    BY DEF DiscoveryInv, TypeOK, Reconciling
  <1>3. loops'[l] = r /\ \A m \in Loop : m # l => loops'[m] = loops[m]
    BY <1>2
  <1>4. Free \notin Loop
    BY DiscoveryAssumption
  <1>5. \A m \in Loop : lb' = m <=> loops'[m].pc \in Reconciling
    <2>1. SUFFICES ASSUME NEW m \in Loop PROVE lb' = m <=> loops'[m].pc \in Reconciling
      OBVIOUS
    <2>2. CASE lb' = lb /\ (r.pc \in Reconciling <=> loops[l].pc \in Reconciling)
      BY <1>2, <1>3, <2>2
    <2>3. CASE lb = Free /\ lb' = l /\ r.pc \in Reconciling
      BY <1>2, <1>3, <1>4, <2>3
    <2>4. CASE lb = l /\ lb' = Free /\ r.pc \notin Reconciling
      BY <1>2, <1>3, <1>4, <2>4
    <2> QED
      BY <2>2, <2>3, <2>4
  <1>6. loops' \in [Loop -> LoopState]
    BY <1>2
  <1>7. TypeOK'
    BY <1>1, <1>2, <1>5, <1>6 DEF TypeOK, Reconciling
  <1>8. \A m \in Loop : RoundOK(loops'[m], pool')
    <2>1. SUFFICES ASSUME NEW m \in Loop, m # l PROVE RoundOK(loops[m], pool')
      BY <1>3
    <2>2. RoundOK(loops[m], pool)
      BY DEF DiscoveryInv, RoundInv
    <2>3. CASE pool' = pool
      BY <2>2, <2>3
    <2>4. CASE lb = l
      <3>1. loops[m].pc # "remove" /\ loops[m].pc # "add"
        BY <1>2, <2>1, <2>4 DEF Reconciling
      <3> QED
        BY <2>2, <3>1, Zenon DEF RoundOK
    <2> QED
      BY <2>3, <2>4
  <1>9. RoundInv'
    BY <1>1, <1>8, ZenonT(30) DEF RoundInv, RoundOK, Removing, Adding, Of
  <1>10. \A id \in Id : \E a \in Answers : Len(Of(pool', id)) <= Len(Of(a, id))
    <2>1. SUFFICES ASSUME NEW id \in Id, Len(Of(pool', id)) <= Len(Of(pool, id))
                   PROVE  \E a \in Answers : Len(Of(pool', id)) <= Len(Of(a, id))
      OBVIOUS
    <2>2. PICK a \in Answers : Len(Of(pool, id)) <= Len(Of(a, id))
      BY DEF DiscoveryInv, BoundInv
    <2>3. Len(Of(pool, id)) \in Nat /\ Len(Of(pool', id)) \in Nat /\ Len(Of(a, id)) \in Nat
      BY <1>2, AnswerFacts, OfFacts, Zenon
    <2> QED
      BY <2>1, <2>2, <2>3
  <1>11. BoundInv'
    BY <1>1, <1>10 DEF BoundInv, Of
  <1> QED
    BY <1>7, <1>9, <1>11 DEF DiscoveryInv

\* A step of a user, of the source or of stop: no loop moves, and the pool
\* changes only while no loop has the balancer.
LEMMA OthersMove ==
    ASSUME DiscoveryInv, source' = source, registry' \in Registries[source.kind],
           loops' = loops, pool' \in Seq(Slot), pool' = pool \/ lb \notin Loop,
           lb' = lb \/ (lb \notin Loop /\ lb' \notin Loop),
           signal' \in [Loop -> BOOLEAN], sender' \in Loop \cup {None},
           \A id \in Id : Len(Of(pool', id)) <= Len(Of(pool, id))
    PROVE  DiscoveryInv'
  <1>1. /\ Answers' = Answers /\ Descriptor' = Descriptor /\ Slot' = Slot /\ Id' = Id
        /\ LoopState' = LoopState
    BY SameSource
  <1>2. /\ source \in Source /\ pool \in Seq(Slot) /\ loops \in [Loop -> LoopState]
        /\ \A m \in Loop : lb = m <=> loops[m].pc \in Reconciling
    BY DEF DiscoveryInv, TypeOK, Reconciling
  <1>3. \A m \in Loop : lb' = m <=> loops'[m].pc \in Reconciling
    BY <1>2
  <1>4. TypeOK'
    BY <1>1, <1>2, <1>3 DEF TypeOK, Reconciling
  <1>5. \A m \in Loop : RoundOK(loops'[m], pool')
    <2>1. SUFFICES ASSUME NEW m \in Loop PROVE RoundOK(loops[m], pool')
      OBVIOUS
    <2>2. RoundOK(loops[m], pool)
      BY DEF DiscoveryInv, RoundInv
    <2>3. CASE pool' = pool
      BY <2>2, <2>3
    <2>4. CASE lb \notin Loop
      <3>1. loops[m].pc # "remove" /\ loops[m].pc # "add"
        BY <1>2, <2>1, <2>4 DEF Reconciling
      <3> QED
        BY <2>2, <3>1, Zenon DEF RoundOK
    <2> QED
      BY <2>3, <2>4
  <1>6. RoundInv'
    BY <1>1, <1>5, Zenon DEF RoundInv, RoundOK, Removing, Adding, Of
  <1>7. ASSUME NEW id \in Id PROVE \E a \in Answers : Len(Of(pool', id)) <= Len(Of(a, id))
    <2>1. PICK a \in Answers : Len(Of(pool, id)) <= Len(Of(a, id))
      BY DEF DiscoveryInv, BoundInv
    <2>2. Len(Of(pool, id)) \in Nat /\ Len(Of(pool', id)) \in Nat /\ Len(Of(a, id)) \in Nat
      BY <1>2, AnswerFacts, OfFacts, Zenon
    <2>3. Len(Of(pool', id)) <= Len(Of(a, id))
      BY <2>1, <2>2
    <2> QED
      BY <2>3
  <1>8. BoundInv'
    BY <1>1, <1>7 DEF BoundInv, Of
  <1> QED
    BY <1>4, <1>6, <1>8 DEF DiscoveryInv

\* Before the first start the pool holds only what the user put there.
LEMMA DiscoveryStart == Init => DiscoveryInv
  <1> SUFFICES ASSUME Init PROVE DiscoveryInv
    OBVIOUS
  <1> USE DEF Init
  <1>1. pool \in Seq([id: {None}, addr: UserAddr])
    BY DiscoveryAssumption
  <1>2. pool \in Seq(Slot)
    <2>1. Len(pool) \in Nat /\ pool \in [1..Len(pool) -> [id: {None}, addr: UserAddr]]
      BY <1>1, LenProperties, Zenon
    <2> HIDE DEF Init
    <2>2. [id: {None}, addr: UserAddr] \subseteq Slot
      BY DEF Slot
    <2>3. pool \in [1..Len(pool) -> Slot]
      BY <2>1, <2>2
    <2> QED
      BY <2>1, <2>3
  <1>3. NoRound \in LoopState
    BY EmptySeq DEF NoRound, LoopState
  <1>4. TypeOK
    <2>1. \A l \in Loop : loops[l] = NoRound /\ lb # l
      BY DiscoveryAssumption
    <2>2. \A l \in Loop : lb = l <=> loops[l].pc \in {"remove", "add"}
      BY <2>1 DEF NoRound
    <2>3. loops \in [Loop -> LoopState] /\ signal \in [Loop -> BOOLEAN]
      BY <1>3
    <2> QED
      BY <1>2, <2>2, <2>3 DEF TypeOK
  <1>5. RoundInv
    BY DEF RoundInv, RoundOK, NoRound
  <1>6. BoundInv
    <2>1. SUFFICES ASSUME NEW id \in Id
                   PROVE  \E a \in Answers : Len(Of(pool, id)) <= Len(Of(a, id))
      BY DEF BoundInv
    <2>2. PICK a \in Answers : TRUE
      BY AnswerFacts
    <2>3. \A i \in 1..Len(pool) : pool[i].id = None
      <3>1. \A i \in 1..Len(pool) : pool[i] \in [id: {None}, addr: UserAddr]
        BY <1>1, ElementOfSeq, Zenon
      <3> QED
        BY <3>1
    <2>4. id \notin IdsOf(pool)
      BY <2>3, AnswerFacts DEF IdsOf
    <2>5. Len(Of(pool, id)) = 0
      BY <1>2, <2>4, OfFacts
    <2>6. Len(Of(a, id)) \in Nat
      BY AnswerFacts, OfFacts
    <2>7. Len(Of(pool, id)) <= Len(Of(a, id))
      BY <2>5, <2>6
    <2> QED
      BY <2>7
  <1> QED
    BY <1>4, <1>5, <1>6 DEF DiscoveryInv

\* What the invariant says of one loop.
LEMMA AtLoop ==
    ASSUME DiscoveryInv, NEW l \in Loop
    PROVE  /\ source \in Source /\ registry \in Registries[source.kind] /\ pool \in Seq(Slot)
           /\ loops \in [Loop -> LoopState] /\ signal \in [Loop -> BOOLEAN]
           /\ sender \in Loop \cup {None}
           /\ lb = l <=> loops[l].pc \in Reconciling
           /\ loops[l] \in LoopState /\ RoundOK(loops[l], pool)
           /\ \A id \in Id : Len(Of(pool, id)) <= Len(Of(pool, id))
  <1>1. /\ source \in Source /\ registry \in Registries[source.kind] /\ pool \in Seq(Slot)
        /\ loops \in [Loop -> LoopState] /\ signal \in [Loop -> BOOLEAN]
        /\ sender \in Loop \cup {None} /\ (lb = l <=> loops[l].pc \in Reconciling)
    BY DEF DiscoveryInv, TypeOK, Reconciling
  <1>2. loops[l] \in LoopState
    BY <1>1
  <1>3. RoundOK(loops[l], pool)
    BY DEF DiscoveryInv, RoundInv
  <1>4. \A id \in Id : Len(Of(pool, id)) \in Nat
    BY <1>1, OfFacts
  <1> QED
    BY <1>1, <1>2, <1>3, <1>4

\* Outside a round a loop only changes its place.
LEMMA GotoKeeps ==
    ASSUME DiscoveryInv, NEW l \in Loop, NEW pc \in {"select", "discover", "done"},
           loops[l].pc \in {"off", "select", "discover"}, Goto(l, pc),
           source' = source, registry' = registry, pool' = pool, lb' = lb,
           signal' \in [Loop -> BOOLEAN], sender' \in Loop \cup {None}
    PROVE  DiscoveryInv'
  <1> DEFINE r == [loops[l] EXCEPT !.pc = pc]
  <1>1. /\ pool \in Seq(Slot) /\ loops \in [Loop -> LoopState]
        /\ loops[l] \in LoopState /\ RoundOK(loops[l], pool)
        /\ \A id \in Id : Len(Of(pool, id)) <= Len(Of(pool, id))
    BY AtLoop, Zenon
  <1>2. loops' = [loops EXCEPT ![l] = r]
    BY DEF Goto
  <1>3. r \in LoopState /\ r.pc = pc /\ r.next = loops[l].next
    BY <1>1, Zenon DEF LoopState
  <1> HIDE DEF r
  <1>4. r.next = 1
    BY <1>1, <1>3 DEF RoundOK
  <1>5. RoundOK(r, pool')
    BY <1>3, <1>4 DEF RoundOK
  <1>6. r.pc \in Reconciling <=> loops[l].pc \in Reconciling
    BY <1>3 DEF Reconciling
  <1> QED
    BY <1>1, <1>2, <1>3, <1>5, <1>6, LoopMoves, Zenon

\* A loop at its interval, and the end of its round.
LEMMA OutsideRound ==
    ASSUME DiscoveryInv, NEW l \in Loop,
           Start(l) \/ TickBranch(l) \/ ShutdownBranch(l) \/ DiscoverErr(l)
    PROVE  DiscoveryInv'
  <1>1. signal \in [Loop -> BOOLEAN] /\ sender \in Loop \cup {None}
    BY AtLoop, Zenon
  <1>2. CASE Start(l)
    <2>1. signal' \in [Loop -> BOOLEAN] /\ sender' \in Loop \cup {None}
      <3>1. \A k \in Loop : (signal[k] \/ k = sender) \in BOOLEAN
        OBVIOUS
      <3> QED
        BY <1>2, <3>1 DEF Start
    <2> QED
      BY <1>2, <2>1, GotoKeeps DEF Start
  <1>3. CASE TickBranch(l)
    BY <1>1, <1>3, GotoKeeps DEF TickBranch
  <1>4. CASE ShutdownBranch(l)
    BY <1>1, <1>4, GotoKeeps DEF ShutdownBranch
  <1>5. CASE DiscoverErr(l)
    BY <1>1, <1>5, GotoKeeps DEF DiscoverErr
  <1> QED
    BY <1>2, <1>3, <1>4, <1>5

\* discover answers.
LEMMA DiscoverKeeps ==
    ASSUME DiscoveryInv, NEW l \in Loop, DiscoverOk(l)
    PROVE  DiscoveryInv'
  <1> DEFINE r == [loops[l] EXCEPT !.pc = "wait", !.found = Found]
  <1>1. /\ source \in Source /\ registry \in Registries[source.kind] /\ pool \in Seq(Slot)
        /\ loops \in [Loop -> LoopState] /\ signal \in [Loop -> BOOLEAN]
        /\ sender \in Loop \cup {None}
        /\ loops[l] \in LoopState /\ RoundOK(loops[l], pool)
        /\ \A id \in Id : Len(Of(pool, id)) <= Len(Of(pool, id))
    BY AtLoop, Zenon
  <1>2. Found \in Answers
    BY <1>1 DEF DiscoverOk, Found, Answers
  <1>3. Found \in Seq(Descriptor)
    BY <1>1, <1>2, AnswerFacts
  <1>4. /\ loops' = [loops EXCEPT ![l] = r] /\ loops[l].pc = "discover"
        /\ UNCHANGED <<source, registry, changes, pool, lb, signal, sender>>
    BY DEF DiscoverOk
  <1>5. r \in LoopState /\ r.pc = "wait" /\ r.found = Found /\ r.next = loops[l].next
    BY <1>1, <1>3, Zenon DEF LoopState
  <1> HIDE DEF r
  <1>6. r.next = 1
    BY <1>1, <1>4, <1>5, Zenon DEF RoundOK
  <1>7. RoundOK(r, pool')
    BY <1>2, <1>5, <1>6, Zenon DEF RoundOK
  <1>8. r.pc \in Reconciling <=> loops[l].pc \in Reconciling
    BY <1>4, <1>5 DEF Reconciling
  <1> QED
    BY <1>1, <1>4, <1>5, <1>7, <1>8, LoopMoves, Zenon

\* The loop gets the balancer and compares.
LEMMA LockKeeps ==
    ASSUME DiscoveryInv, NEW l \in Loop, LockBalancer(l)
    PROVE  DiscoveryInv'
  <1> DEFINE f == loops[l].found
             r == [loops[l] EXCEPT !.pc = "remove", !.current = BackendIds, !.gone = Gone(f)]
  <1>1. /\ source \in Source /\ registry \in Registries[source.kind] /\ pool \in Seq(Slot)
        /\ loops \in [Loop -> LoopState] /\ signal \in [Loop -> BOOLEAN]
        /\ sender \in Loop \cup {None}
        /\ loops[l] \in LoopState /\ RoundOK(loops[l], pool)
        /\ \A id \in Id : Len(Of(pool, id)) <= Len(Of(pool, id))
    BY AtLoop, Zenon
  <1>2. /\ loops' = [loops EXCEPT ![l] = r] /\ loops[l].pc = "wait" /\ lb = Free /\ lb' = l
        /\ UNCHANGED <<source, registry, changes, pool, signal, sender>>
    BY DEF LockBalancer
  <1>3. f \in Answers /\ loops[l].next = 1
    BY <1>1, <1>2 DEF RoundOK
  <1>4. /\ BackendIds \in Seq(Option(Id)) /\ Gone(f) \in Seq(Id \ IdsOf(f))
        /\ \A id \in Id : Removing(f, BackendIds, Gone(f), pool, id)
    BY <1>1, <1>3, StartRound, Zenon
  <1>5. Gone(f) \in Seq(Id)
    <2>1. Len(Gone(f)) \in Nat /\ Gone(f) \in [1..Len(Gone(f)) -> Id \ IdsOf(f)]
      BY <1>4, LenProperties
    <2> QED
      BY <2>1
  <1>6. /\ r \in LoopState /\ r.pc = "remove" /\ r.found = f /\ r.next = 1
        /\ r.current = BackendIds /\ r.gone = Gone(f)
    BY <1>1, <1>3, <1>4, <1>5, Zenon DEF LoopState
  <1> HIDE DEF f, r
  <1>7. RoundOK(r, pool')
    BY <1>2, <1>3, <1>4, <1>6 DEF RoundOK
  <1>8. r.pc \in Reconciling
    BY <1>6 DEF Reconciling
  <1> QED
    BY <1>1, <1>2, <1>6, <1>7, <1>8, LoopMoves, Zenon

\* Backends without an id are the same when their slots are.
LEMMA SameManual ==
    ASSUME pool \in Seq(Slot), pool' \in Seq(Slot), Of(pool', None) = Of(pool, None)
    PROVE  Manual' = Manual
  <1>1. Copies(pool, None) = Of(pool, None) /\ Copies(pool', None) = Of(pool', None)
    BY OfFacts
  <1> QED
    BY <1>1 DEF Manual

\* One slot of a vanished id goes.
LEMMA RemoveKeeps ==
    ASSUME DiscoveryInv, NEW l \in Loop, RemoveOne(l)
    PROVE  DiscoveryInv' /\ Manual' = Manual
  <1> DEFINE f == loops[l].found
             c == loops[l].current
             g == loops[l].gone
             q == Without(Head(g))
             r == [loops[l] EXCEPT !.gone = Tail(g)]
  <1>1. /\ source \in Source /\ registry \in Registries[source.kind] /\ pool \in Seq(Slot)
        /\ loops \in [Loop -> LoopState] /\ signal \in [Loop -> BOOLEAN]
        /\ sender \in Loop \cup {None} /\ (lb = l <=> loops[l].pc \in Reconciling)
        /\ loops[l] \in LoopState /\ RoundOK(loops[l], pool)
        /\ \A id \in Id : Len(Of(pool, id)) <= Len(Of(pool, id))
    BY AtLoop, Zenon
  <1>2. /\ loops' = [loops EXCEPT ![l] = r] /\ loops[l].pc = "remove" /\ g # <<>>
        /\ pool' = q /\ UNCHANGED <<source, registry, changes, lb, signal, sender>>
    BY DEF RemoveOne
  <1>3. /\ f \in Answers /\ loops[l].next = 1 /\ g \in Seq(Id \ IdsOf(f))
        /\ \A id \in Id : Removing(f, c, g, pool, id)
    BY <1>1, <1>2 DEF RoundOK
  <1> HIDE DEF f, c, g
  <1>4. /\ q \in Seq(Slot) /\ Tail(g) \in Seq(Id \ IdsOf(f)) /\ Of(q, None) = Of(pool, None)
        /\ \A id \in Id : Removing(f, c, Tail(g), q, id) /\ Len(Of(q, id)) <= Len(Of(pool, id))
    BY <1>1, <1>2, <1>3, RemoveStep, Zenon
  <1>5. Tail(g) \in Seq(Id)
    <2> DEFINE u == Tail(g)
    <2> HIDE DEF u
    <2>1. Len(u) \in Nat /\ u \in [1..Len(u) -> Id \ IdsOf(f)]
      BY <1>4, LenProperties, Zenon DEF u
    <2>2. u \in Seq(Id)
      BY <2>1
    <2> QED
      BY <2>2 DEF u
  <1>6. /\ r \in LoopState /\ r.pc = "remove" /\ r.found = f /\ r.next = 1
        /\ r.current = c /\ r.gone = Tail(g)
    BY <1>1, <1>2, <1>3, <1>5, Zenon DEF LoopState, f, c
  <1> HIDE DEF q, r
  <1>7. RoundOK(r, pool')
    BY <1>2, <1>3, <1>4, <1>6, Zenon DEF RoundOK
  <1>8. lb = l /\ r.pc \in Reconciling /\ loops[l].pc \in Reconciling
    BY <1>1, <1>2, <1>6 DEF Reconciling
  <1>9. \A id \in Id : Len(Of(pool', id)) <= Len(Of(pool, id))
    BY <1>2, <1>4
  <1>10. DiscoveryInv'
    BY <1>1, <1>2, <1>4, <1>6, <1>7, <1>8, <1>9, LoopMoves, Zenon
  <1> QED
    BY <1>1, <1>2, <1>4, <1>10, SameManual, Zenon

\* Nothing is left to remove.
LEMMA RemoveDoneKeeps ==
    ASSUME DiscoveryInv, NEW l \in Loop, RemoveDone(l)
    PROVE  DiscoveryInv'
  <1> DEFINE f == loops[l].found
             c == loops[l].current
             r == [loops[l] EXCEPT !.pc = "add"]
  <1>1. /\ source \in Source /\ registry \in Registries[source.kind] /\ pool \in Seq(Slot)
        /\ loops \in [Loop -> LoopState] /\ signal \in [Loop -> BOOLEAN]
        /\ sender \in Loop \cup {None} /\ (lb = l <=> loops[l].pc \in Reconciling)
        /\ loops[l] \in LoopState /\ RoundOK(loops[l], pool)
        /\ \A id \in Id : Len(Of(pool, id)) <= Len(Of(pool, id))
    BY AtLoop, Zenon
  <1>2. /\ loops' = [loops EXCEPT ![l] = r] /\ loops[l].pc = "remove" /\ loops[l].gone = <<>>
        /\ UNCHANGED <<source, registry, changes, pool, lb, signal, sender>>
    BY DEF RemoveDone, Goto
  <1>3. /\ f \in Answers /\ loops[l].next = 1
        /\ \A id \in Id : Removing(f, c, <<>>, pool, id)
    BY <1>1, <1>2 DEF RoundOK
  <1>4. f \in Seq(Slot) /\ Len(f) \in Nat
    BY <1>1, <1>3, AnswerFacts, LenProperties, Zenon
  <1>5. r \in LoopState /\ r.pc = "add" /\ r.found = f /\ r.next = 1 /\ r.current = c
    BY <1>1, <1>3, Zenon DEF LoopState
  <1> HIDE DEF f, c, r
  <1>6. \A id \in Id : Adding(f, 1, c, pool, id)
    BY <1>1, <1>3, <1>4, RemoveEnds, Zenon
  <1>7. RoundOK(r, pool')
    BY <1>2, <1>3, <1>4, <1>5, <1>6, SMTT(30) DEF RoundOK
  <1>8. lb = l /\ r.pc \in Reconciling /\ loops[l].pc \in Reconciling
    BY <1>1, <1>2, <1>5 DEF Reconciling
  <1> QED
    BY <1>1, <1>2, <1>5, <1>7, <1>8, LoopMoves, Zenon

\* The adding loop skips a descriptor or appends it.
LEMMA AddKeeps ==
    ASSUME DiscoveryInv, NEW l \in Loop, SkipExisting(l) \/ AddOne(l)
    PROVE  DiscoveryInv' /\ Manual' = Manual
  <1> DEFINE f == loops[l].found
             n == loops[l].next
             c == loops[l].current
             r == [loops[l] EXCEPT !.next = n + 1]
  <1>1. /\ source \in Source /\ registry \in Registries[source.kind] /\ pool \in Seq(Slot)
        /\ loops \in [Loop -> LoopState] /\ signal \in [Loop -> BOOLEAN]
        /\ sender \in Loop \cup {None} /\ (lb = l <=> loops[l].pc \in Reconciling)
        /\ loops[l] \in LoopState /\ RoundOK(loops[l], pool)
        /\ \A id \in Id : Len(Of(pool, id)) <= Len(Of(pool, id))
    BY AtLoop, Zenon
  <1>2. /\ loops' = [loops EXCEPT ![l] = r] /\ loops[l].pc = "add" /\ n <= Len(f)
        /\ pool' = IF f[n].id \in Range(c) THEN pool ELSE Append(pool, f[n])
        /\ UNCHANGED <<source, registry, changes, lb, signal, sender>>
    BY DEF SkipExisting, AddOne, AtDescriptor, Exists, Current
  <1>3. /\ f \in Answers /\ n \in 1..(Len(f) + 1)
        /\ \A id \in Id : Adding(f, n, c, pool, id)
    BY <1>1, <1>2 DEF RoundOK
  <1>4. f \in Seq(Slot) /\ f \in Seq(Descriptor) /\ Len(f) \in Nat /\ c \in Seq(Option(Id))
    BY <1>1, <1>3, AnswerFacts, LenProperties, Zenon DEF LoopState
  <1>5. n \in 1..Len(f) /\ n + 1 \in 1..(Len(f) + 1) /\ n + 1 \in Nat
    BY <1>2, <1>3, <1>4
  <1>6. r \in LoopState /\ r.pc = "add" /\ r.found = f /\ r.next = n + 1 /\ r.current = c
    <2> DEFINE k == n + 1
    <2> HIDE DEF k
    <2>1. k \in Nat /\ r = [loops[l] EXCEPT !.next = k]
      BY <1>5 DEF k
    <2>2. r \in LoopState /\ r.pc = "add" /\ r.found = f /\ r.next = k /\ r.current = c
      BY <1>1, <1>2, <2>1, Zenon DEF LoopState
    <2> QED
      BY <2>2 DEF k
  <1> HIDE DEF f, n, c, r
  <1>7. f[n] \in Slot /\ f[n] \in Descriptor
    BY <1>4, <1>5, ElementOfSeq
  <1>8. f[n].id # None
    BY <1>1, <1>7, AnswerFacts, Zenon
  <1>9. pool' \in Seq(Slot) /\ Of(pool', None) = Of(pool, None)
    BY <1>1, <1>2, <1>7, <1>8, OfAppend, Zenon
  <1>10. \A id \in Id : Adding(f, n + 1, c, pool', id)
    BY <1>1, <1>2, <1>3, <1>4, <1>5, AddStep, Zenon
  <1>11. RoundOK(r, pool')
    BY <1>3, <1>5, <1>6, <1>10 DEF RoundOK
  <1>12. ASSUME NEW id \in Id
         PROVE  \/ Len(Of(pool', id)) <= Len(Of(pool, id))
                \/ \E a \in Answers : Len(Of(pool', id)) <= Len(Of(a, id))
    <2>1. CASE f[n].id \in Range(c)
      BY <1>1, <1>2, <2>1, Zenon
    <2>2. CASE f[n].id \notin Range(c)
      <3>1. pool' = Append(pool, f[n])
        BY <1>2, <2>2
      <3>2. Of(pool', id) = Of(pool, id) \/ Len(Of(pool', id)) <= Len(Of(f, id))
        BY <1>1, <1>3, <1>4, <1>5, <2>2, <3>1, AddBound, Zenon
      <3> QED
        BY <1>1, <1>3, <3>2, Zenon
    <2> QED
      BY <2>1, <2>2
  <1>13. lb = l /\ r.pc \in Reconciling /\ loops[l].pc \in Reconciling
    BY <1>1, <1>2, <1>6, Zenon DEF Reconciling
  <1>14. DiscoveryInv'
    BY <1>1, <1>2, <1>6, <1>9, <1>11, <1>12, <1>13, LoopMoves, Zenon
  <1> QED
    BY <1>1, <1>9, <1>14, SameManual, Zenon

\* The round is over, through or with a factory error.
LEMMA EndKeeps ==
    ASSUME DiscoveryInv, NEW l \in Loop, AddFails(l) \/ AddDone(l)
    PROVE  DiscoveryInv'
  <1> DEFINE r == [NoRound EXCEPT !.pc = "select"]
  <1>1. /\ source \in Source /\ registry \in Registries[source.kind] /\ pool \in Seq(Slot)
        /\ loops \in [Loop -> LoopState] /\ signal \in [Loop -> BOOLEAN]
        /\ sender \in Loop \cup {None} /\ (lb = l <=> loops[l].pc \in Reconciling)
        /\ loops[l] \in LoopState /\ RoundOK(loops[l], pool)
        /\ \A id \in Id : Len(Of(pool, id)) <= Len(Of(pool, id))
    BY AtLoop, Zenon
  <1>2. /\ loops' = [loops EXCEPT ![l] = r] /\ loops[l].pc = "add" /\ lb' = Free
        /\ UNCHANGED <<source, registry, changes, pool, signal, sender>>
    BY DEF AddFails, AddDone, AtDescriptor, EndRound
  <1>3. r \in LoopState /\ r.pc = "select" /\ r.next = 1
    BY EmptySeq, Zenon DEF NoRound, LoopState
  <1> HIDE DEF r
  <1>4. RoundOK(r, pool')
    BY <1>3 DEF RoundOK
  <1>5. lb = l /\ r.pc \notin Reconciling
    BY <1>1, <1>2, <1>3, Zenon DEF Reconciling
  <1> QED
    BY <1>1, <1>2, <1>3, <1>4, <1>5, LoopMoves, Zenon

\* Users, stop and the source.
LEMMA OthersKeep ==
    ASSUME DiscoveryInv, Stop \/ UserLock \/ UserUnlock \/ RegistryChanges
    PROVE  DiscoveryInv'
  <1>1. /\ source \in Source /\ registry \in Registries[source.kind] /\ pool \in Seq(Slot)
        /\ signal \in [Loop -> BOOLEAN] /\ sender \in Loop \cup {None}
    BY DEF DiscoveryInv, TypeOK
  <1>2. \A id \in Id : Len(Of(pool, id)) <= Len(Of(pool, id))
    <2>1. \A id \in Id : Len(Of(pool, id)) \in Nat
      BY <1>1, OfFacts
    <2> QED
      BY <2>1
  <1>3. Free \notin Loop /\ User \notin Loop /\ None \notin Loop
    BY DiscoveryAssumption
  <1>4. CASE Stop
    <2>1. signal' \in [Loop -> BOOLEAN]
      BY <1>1, <1>4 DEF Stop
    <2>2. /\ source' = source /\ registry' = registry /\ loops' = loops /\ pool' = pool /\ lb' = lb
          /\ sender' \in Loop \cup {None}
      BY <1>4 DEF Stop
    <2> QED
      BY <1>1, <1>2, <2>1, <2>2, OthersMove
  <1>5. CASE UserLock
    <2>1. /\ UNCHANGED <<source, registry, changes, pool, loops, signal, sender>>
          /\ lb = Free /\ lb' = User
      BY <1>5 DEF UserLock
    <2> QED
      BY <1>1, <1>2, <1>3, <2>1, OthersMove
  <1>6. CASE UserUnlock
    <2>1. /\ UNCHANGED <<source, registry, changes, loops, signal, sender>>
          /\ lb = User /\ lb' = Free
      BY <1>6 DEF UserUnlock
    <2>2. pool' \in Seq(Slot) /\ \A id \in Id : Len(Of(pool', id)) <= Len(Of(pool, id))
      <3>1. CASE pool' = pool
        BY <1>1, <1>2, <3>1
      <3>2. ASSUME NEW a \in UserAddr, pool' = Append(pool, [id |-> None, addr |-> a])
            PROVE  pool' \in Seq(Slot) /\ \A id \in Id : Len(Of(pool', id)) <= Len(Of(pool, id))
        <4> DEFINE x == [id |-> None, addr |-> a]
        <4>1. x \in Slot /\ x.id = None
          BY DEF Slot
        <4> HIDE DEF x
        <4>2. \A id \in Id : id # None
          BY <1>1, AnswerFacts, Zenon
        <4>3. pool' = Append(pool, x)
          BY <3>2 DEF x
        <4>4. pool' \in Seq(Slot)
          BY <1>1, <4>1, <4>3, AppendProperties
        <4>5. \A id \in Id : Of(pool', id) = Of(pool, id)
          BY <1>1, <4>1, <4>2, <4>3, OfAppend
        <4> QED
          BY <1>2, <4>4, <4>5
      <3>3. ASSUME NEW i \in 1..Len(pool), pool' = RemoveAt(pool, i)
            PROVE  pool' \in Seq(Slot) /\ \A id \in Id : Len(Of(pool', id)) <= Len(Of(pool, id))
        BY <1>1, <3>3, OfRemoveAt
      <3> QED
        BY <1>6, <3>1, <3>2, <3>3, Zenon DEF UserUnlock
    <2> QED
      BY <1>1, <1>3, <2>1, <2>2, OthersMove
  <1>7. CASE RegistryChanges
    <2>1. /\ UNCHANGED <<source, pool, lb, loops, signal, sender>>
          /\ registry' \in Registries[source.kind]
      BY <1>7 DEF RegistryChanges
    <2> QED
      BY <1>1, <1>2, <2>1, OthersMove
  <1> QED
    BY <1>4, <1>5, <1>6, <1>7

\* Every step keeps the invariant, and only a user touches the backends without
\* an id.
LEMMA DiscoveryStep ==
    ASSUME DiscoveryInv, [Next]_vars
    PROVE  DiscoveryInv' /\ (lb \in Loop => Manual' = Manual)
  <1>1. CASE UNCHANGED vars
    <2>1. source' = source /\ pool' = pool /\ loops' = loops /\ registry' = registry
          /\ lb' = lb /\ signal' = signal /\ sender' = sender
      BY <1>1 DEF vars
    <2>2. registry \in Registries[source.kind] /\ pool \in Seq(Slot)
          /\ signal \in [Loop -> BOOLEAN] /\ sender \in Loop \cup {None}
      BY DEF DiscoveryInv, TypeOK
    <2>3. \A id \in Id : Len(Of(pool, id)) \in Nat
      BY <2>2, OfFacts
    <2>4. \A id \in Id : Len(Of(pool', id)) <= Len(Of(pool, id))
      BY <2>1, <2>3
    <2> QED
      BY <2>1, <2>2, <2>4, OthersMove, Zenon DEF Manual
  <1>2. ASSUME NEW l \in Loop, Start(l) \/ TickBranch(l) \/ ShutdownBranch(l) \/ DiscoverErr(l)
        PROVE  DiscoveryInv' /\ Manual' = Manual
    <2>1. pool' = pool
      BY <1>2, Zenon DEF Start, TickBranch, ShutdownBranch, DiscoverErr
    <2> QED
      BY <1>2, <2>1, OutsideRound DEF Manual
  <1>3. ASSUME NEW l \in Loop, DiscoverOk(l) PROVE DiscoveryInv' /\ Manual' = Manual
    BY <1>3, DiscoverKeeps, Zenon DEF DiscoverOk, Manual
  <1>4. ASSUME NEW l \in Loop, LockBalancer(l) PROVE DiscoveryInv' /\ Manual' = Manual
    BY <1>4, LockKeeps, Zenon DEF LockBalancer, Manual
  <1>5. ASSUME NEW l \in Loop, RemoveOne(l) PROVE DiscoveryInv' /\ Manual' = Manual
    BY <1>5, RemoveKeeps
  <1>6. ASSUME NEW l \in Loop, RemoveDone(l) PROVE DiscoveryInv' /\ Manual' = Manual
    BY <1>6, RemoveDoneKeeps, Zenon DEF RemoveDone, Manual
  <1>7. ASSUME NEW l \in Loop, SkipExisting(l) \/ AddOne(l) PROVE DiscoveryInv' /\ Manual' = Manual
    BY <1>7, AddKeeps
  <1>8. ASSUME NEW l \in Loop, AddFails(l) \/ AddDone(l) PROVE DiscoveryInv' /\ Manual' = Manual
    <2>1. pool' = pool
      BY <1>8 DEF AddFails, AddDone
    <2> QED
      BY <1>8, <2>1, EndKeeps DEF Manual
  <1>9. CASE Stop \/ UserLock \/ UserUnlock \/ RegistryChanges
    <2>1. lb \in Loop => pool' = pool
      BY <1>9, DiscoveryAssumption, Zenon DEF Stop, UserLock, UserUnlock, RegistryChanges
    <2> QED
      BY <1>9, <2>1, OthersKeep DEF Manual
  <1> QED
    BY <1>1, <1>2, <1>3, <1>4, <1>5, <1>6, <1>7, <1>8, <1>9 DEF Next, Round

-----------------------------------------------------------------------------
(* The results.                                                            *)

\* The inductive invariant holds in every reachable state of Discover.
LEMMA DiscoveryInvariant == Spec => []DiscoveryInv
  <1>1. DiscoveryInv /\ [Next]_vars => DiscoveryInv'
    BY DiscoveryStep
  <1> QED
    BY <1>1, DiscoveryStart, PTL DEF Spec

\* Every variable keeps its type, and a loop has the balancer exactly while it
\* reconciles.
THEOREM DiscoveryTypeCorrect == Spec => []TypeOK
  <1>1. DiscoveryInv => TypeOK
    BY DEF DiscoveryInv
  <1> QED
    BY <1>1, DiscoveryInvariant, PTL

\* For any sources, loops and users: an id never has more slots in the pool than
\* one answer of the source gives it, so rounds do not add up.
THEOREM CopiesStayBounded == Spec => []CopiesBounded
  <1>1. DiscoveryInv => CopiesBounded
    <2>1. SUFFICES ASSUME DiscoveryInv, NEW id \in Id
                   PROVE  \E a \in Answers : Len(Copies(pool, id)) <= Len(Copies(a, id))
      BY DEF CopiesBounded
    <2>2. source \in Source /\ pool \in Seq(Slot)
      BY <2>1 DEF DiscoveryInv, TypeOK
    <2>3. PICK a \in Answers : Len(Of(pool, id)) <= Len(Of(a, id))
      BY <2>1 DEF DiscoveryInv, BoundInv
    <2>4. a \in Seq(Slot)
      BY <2>2, AnswerFacts
    <2>5. Copies(pool, id) = Of(pool, id) /\ Copies(a, id) = Of(a, id)
      BY <2>2, <2>4, OfFacts
    <2> QED
      BY <2>3, <2>5
  <1> QED
    BY <1>1, DiscoveryInvariant, PTL

\* No step of a round removes, duplicates or moves a backend that was added
\* without an id.
THEOREM ManualBackendsKept == Spec => ManualKept
  <1>1. DiscoveryInv /\ [Next]_vars => [(\E l \in Loop : lb = l) => Manual' = Manual]_vars
    BY DiscoveryStep
  <1> QED
    BY <1>1, DiscoveryInvariant, PTL DEF Spec, ManualKept

\* A round that ends without a factory error leaves the slots its answer calls
\* for, although it compared the pool once and went through many awaits.
THEOREM RoundsAreExact == Spec => RoundIsExact
  <1> DEFINE ExactAt(l) ==
        AddDone(l) => \A id \in Id :
            LET before == Filter(loops[l].current, {id})
                answer == Copies(loops[l].found, id)
                after  == Copies(pool', id)
            IN  IF before = <<>> THEN after = answer
                ELSE Len(after) = IF answer = <<>> THEN 0 ELSE Len(before)
  <1>1. ASSUME DiscoveryInv, NEW l \in Loop PROVE ExactAt(l)
    <2> DEFINE f == loops[l].found
               n == loops[l].next
               c == loops[l].current
    <2>1. SUFFICES ASSUME AddDone(l), NEW id \in Id
                   PROVE  IF Filter(c, {id}) = <<>> THEN Copies(pool', id) = Copies(f, id)
                          ELSE Len(Copies(pool', id))
                                = IF Copies(f, id) = <<>> THEN 0 ELSE Len(Filter(c, {id}))
      OBVIOUS
    <2>2. source \in Source /\ pool \in Seq(Slot) /\ RoundOK(loops[l], pool)
      BY <1>1, AtLoop
    <2>3. loops[l].pc = "add" /\ ~(n <= Len(f)) /\ pool' = pool
      BY <2>1 DEF AddDone, AtDescriptor
    <2>4. f \in Answers /\ n \in 1..(Len(f) + 1) /\ Adding(f, n, c, pool, id)
      BY <2>2, <2>3, Zenon DEF RoundOK
    <2> HIDE DEF f, n, c
    <2>5. f \in Seq(Slot) /\ Len(f) \in Nat
      BY <2>2, <2>4, AnswerFacts, LenProperties
    <2>6. n - 1 = Len(f)
      BY <2>3, <2>4, <2>5
    <2>7. SubSeq(f, 1, n - 1) = f
      BY <2>5, <2>6, SubSeqFull
    <2>8. /\ Copies(pool, id) = Of(pool, id) /\ Copies(f, id) = Of(f, id)
          /\ Of(f, id) = <<>> <=> id \notin IdsOf(f)
      BY <2>2, <2>5, OfFacts
    <2>9. IF Filter(c, {id}) = <<>> THEN Of(pool, id) = Of(f, id)
          ELSE Len(Of(pool, id)) = IF id \in IdsOf(f) THEN Len(Filter(c, {id})) ELSE 0
      BY <2>4, <2>7, Zenon DEF Adding
    <2> QED
      BY <2>3, <2>8, <2>9, Zenon
  <1>2. DiscoveryInv /\ [Next]_vars => [\A l \in Loop : ExactAt(l)]_vars
    BY <1>1, Zenon
  <1> QED
    BY <1>2, DiscoveryInvariant, PTL DEF Spec, RoundIsExact
==============================================================================
