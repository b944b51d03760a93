------------------------ MODULE SubsequenceTheorems ------------------------
(***************************************************************************)
(* Facts about Subsequence, for every sequence and every set of positions. *)
(***************************************************************************)
EXTENDS Subsequences, Sequences, FiniteSetTheorems, TLAPS

\* The rank of a position p in a set I of positions.
Rank(I, p) == Cardinality({q \in I : q <= p})

\* Ranks number the positions of a set in their order.
LEMMA RanksNumber ==
  ASSUME NEW n \in Nat, NEW I \in SUBSET (1 .. n)
  PROVE  /\ Cardinality(I) \in Nat
         /\ \A p \in I : Rank(I, p) \in 1 .. Cardinality(I)
         /\ \A p, q \in I : p < q => Rank(I, p) < Rank(I, q)
         /\ \A m \in 1 .. Cardinality(I) : \E p \in I : Rank(I, p) = m
<1> DEFINE Below(p) == {q \in I : q <= p}
<1>1. IsFiniteSet(I) /\ Cardinality(I) \in Nat
  <2>1. IsFiniteSet(1 .. n)
    BY FS_Interval
  <2>2. IsFiniteSet(I)
    BY <2>1, FS_Subset
  <2> QED
    BY <2>2, FS_CardinalityType
<1>2. \A p \in I : /\ IsFiniteSet(Below(p))
                   /\ Cardinality(Below(p)) \in Nat
                   /\ Cardinality(Below(p)) <= Cardinality(I)
  <2> TAKE p \in I
  <2>1. Below(p) \in SUBSET I
    OBVIOUS
  <2> QED
    BY <1>1, <2>1, FS_Subset, FS_CardinalityType
<1>3. \A p, q \in I : p < q => Rank(I, p) < Rank(I, q)
  <2> SUFFICES ASSUME NEW p \in I, NEW q \in I, p < q
               PROVE  Rank(I, p) < Rank(I, q)
    OBVIOUS
  <2>1. Below(p) \in SUBSET Below(q)
    <3>1. \A x \in I : x <= p => x <= q
      OBVIOUS
    <3> QED
      BY <3>1
  <2>2. q \in Below(q) /\ q \notin Below(p)
    OBVIOUS
  <2>3. /\ Cardinality(Below(p)) <= Cardinality(Below(q))
        /\ Cardinality(Below(q)) = Cardinality(Below(p)) => Below(q) = Below(p)
    BY <1>2, <2>1, FS_Subset
  <2> QED
    BY <1>2, <2>2, <2>3 DEF Rank
<1>4. \A p \in I : Rank(I, p) \in 1 .. Cardinality(I)
  <2> TAKE p \in I
  <2>1. p \in Below(p)
    OBVIOUS
  <2>2. Cardinality(Below(p)) # 0
    BY <1>2, <2>1, FS_EmptySet
  <2> QED
    BY <1>1, <1>2, <2>2 DEF Rank
<1>5. \A m \in 1 .. Cardinality(I) : \E p \in I : Rank(I, p) = m
  <2> DEFINE r == [p \in I |-> Rank(I, p)]
             T == 1 .. Cardinality(I)
  <2>1. r \in [I -> T]
    BY <1>4
  <2>2. \A p, q \in I : r[p] = r[q] => p = q
    <3> SUFFICES ASSUME NEW p \in I, NEW q \in I, p # q
                 PROVE  r[p] # r[q]
      OBVIOUS
    <3>1. p < q \/ q < p
      OBVIOUS
    <3>2. Rank(I, p) \in Nat /\ Rank(I, q) \in Nat
      BY <1>2 DEF Rank
    <3> QED
      BY <1>3, <3>1, <3>2
  <2>3. r \in Injection(I, T)
    BY <2>1, <2>2 DEF Injection, IsInjective
  <2>4. IsFiniteSet(T) /\ Cardinality(T) = Cardinality(I)
    BY <1>1, FS_Interval
  <2>5. r \in Surjection(I, T)
    BY <2>3, <2>4, FS_Injection
  <2> QED
    BY <2>5 DEF Surjection
<1> QED
  BY <1>1, <1>3, <1>4, <1>5

\* A set of positions has a first one.
LEMMA FirstPosition ==
  ASSUME NEW n \in Nat, NEW I \in SUBSET (1 .. n), I # {}
  PROVE  \E p \in I : \A q \in I : p <= q
<1>1. /\ Cardinality(I) \in Nat
      /\ \A p \in I : Rank(I, p) \in 1 .. Cardinality(I)
      /\ \A p, q \in I : p < q => Rank(I, p) < Rank(I, q)
      /\ \A m \in 1 .. Cardinality(I) : \E p \in I : Rank(I, p) = m
  BY RanksNumber
<1>2. 1 \in 1 .. Cardinality(I)
  <2>1. PICK x \in I : TRUE
    OBVIOUS
  <2>2. Rank(I, x) \in 1 .. Cardinality(I)
    BY <1>1
  <2> QED
    BY <1>1, <2>2
<1>3. PICK p \in I : Rank(I, p) = 1
  BY <1>1, <1>2
<1>4. ASSUME NEW q \in I
      PROVE  p <= q
  <2>1. ~(q < p)
    BY <1>1, <1>3
  <2> QED
    BY <2>1
<1> QED
  BY <1>4

\* A subsequence has the elements at the positions chosen, in their order: f is
\* where each of its elements comes from.
LEMMA SubsequenceIs ==
  ASSUME NEW S, NEW s \in Seq(S), NEW I \in SUBSET DOMAIN s
  PROVE  /\ Cardinality(I) \in Nat
         /\ \E f \in [1 .. Cardinality(I) -> I] :
              /\ Subsequence(s, I) = [n \in 1 .. Cardinality(I) |-> s[f[n]]]
              /\ \A p \in I : \E n \in 1 .. Cardinality(I) : f[n] = p
              /\ \A a, b \in 1 .. Cardinality(I) : a < b => f[a] < f[b]
<1> DEFINE N == 1 .. Cardinality(I)
           f == [n \in N |-> CHOOSE p \in I : Rank(I, p) = n]
<1>1. Len(s) \in Nat /\ DOMAIN s = 1 .. Len(s) /\ I \in SUBSET (1 .. Len(s))
  OBVIOUS
<1>2. /\ Cardinality(I) \in Nat
      /\ \A p \in I : Rank(I, p) \in N
      /\ \A p, q \in I : p < q => Rank(I, p) < Rank(I, q)
      /\ \A m \in N : \E p \in I : Rank(I, p) = m
  BY <1>1, RanksNumber
<1>3. \A n \in N : f[n] \in I /\ Rank(I, f[n]) = n
  BY <1>2
<1>4. f \in [N -> I]
  BY <1>3
<1>5. Subsequence(s, I) = [n \in N |-> s[f[n]]]
  BY DEF Subsequence, Rank
<1>6. \A p, q \in I : Rank(I, p) = Rank(I, q) => p = q
  <2> SUFFICES ASSUME NEW p \in I, NEW q \in I, p # q
               PROVE  Rank(I, p) # Rank(I, q)
    OBVIOUS
  <2>1. p < q \/ q < p
    BY <1>1
  <2>2. Rank(I, p) \in Nat /\ Rank(I, q) \in Nat
    BY <1>2
  <2> QED
    BY <1>2, <2>1, <2>2
<1>7. \A p \in I : f[Rank(I, p)] = p
  BY <1>2, <1>3, <1>6
<1>8. \A a, b \in N : a < b => f[a] < f[b]
  <2> SUFFICES ASSUME NEW a \in N, NEW b \in N, a < b
               PROVE  f[a] < f[b]
    OBVIOUS
  <2>1. f[a] \in Nat /\ f[b] \in Nat
    BY <1>1, <1>3
  <2>2. ~(f[b] < f[a])
    BY <1>2, <1>3
  <2>3. f[a] # f[b]
    BY <1>3
  <2> QED
    BY <2>1, <2>2, <2>3
<1> QED
  BY <1>2, <1>4, <1>5, <1>7, <1>8

\* Its type and its elements.
LEMMA SubsequenceRange ==
  ASSUME NEW S, NEW s \in Seq(S), NEW I \in SUBSET DOMAIN s
  PROVE  /\ Subsequence(s, I) \in Seq(S)
         /\ {Subsequence(s, I)[n] : n \in DOMAIN Subsequence(s, I)} = {s[p] : p \in I}
<1>1. PICK f \in [1 .. Cardinality(I) -> I] :
        /\ Subsequence(s, I) = [n \in 1 .. Cardinality(I) |-> s[f[n]]]
        /\ \A p \in I : \E n \in 1 .. Cardinality(I) : f[n] = p
  BY SubsequenceIs
<1>2. Cardinality(I) \in Nat
  BY SubsequenceIs
<1>3. \A n \in 1 .. Cardinality(I) : s[f[n]] \in S
  OBVIOUS
<1>4. Subsequence(s, I) \in Seq(S)
  BY <1>1, <1>2, <1>3
<1> QED
  BY <1>1, <1>4

\* Where the last position is chosen the last element is the same.
LEMMA SubsequenceEnds ==
  ASSUME NEW S, NEW s \in Seq(S), NEW I \in SUBSET DOMAIN s, Len(s) \in I
  PROVE  LET t == Subsequence(s, I) IN t # <<>> /\ t[Len(t)] = s[Len(s)]
<1> DEFINE m == Cardinality(I)
           t == Subsequence(s, I)
<1>1. /\ m \in Nat
      /\ \E f \in [1 .. m -> I] :
           /\ t = [n \in 1 .. m |-> s[f[n]]]
           /\ \A p \in I : \E n \in 1 .. m : f[n] = p
           /\ \A a, b \in 1 .. m : a < b => f[a] < f[b]
  BY SubsequenceIs
<1> HIDE DEF m, t
<1>2. PICK f \in [1 .. m -> I] :
        /\ t = [n \in 1 .. m |-> s[f[n]]]
        /\ \A p \in I : \E n \in 1 .. m : f[n] = p
        /\ \A a, b \in 1 .. m : a < b => f[a] < f[b]
  BY <1>1
<1>3. PICK n \in 1 .. m : f[n] = Len(s)
  BY <1>2
<1>4. m \in 1 .. m /\ f[m] \in 1 .. Len(s)
  BY <1>1, <1>3
<1>5. ~(n < m)
  BY <1>2, <1>3, <1>4
<1>6. n = m
  BY <1>1, <1>5
<1>7. Len(t) = m /\ t[m] = s[f[m]]
  BY <1>1, <1>2, <1>4
<1>8. t # <<>> /\ t[Len(t)] = s[Len(s)]
  BY <1>3, <1>4, <1>6, <1>7
<1> QED
  BY <1>8 DEF t

\* s has everything once, y aside.
OnceBut(s, y) == \A p, q \in DOMAIN s : s[p] = s[q] /\ s[p] # y => p = q

\* What a sequence has once its subsequences have once.
LEMMA SubsequenceDistinct ==
  ASSUME NEW S, NEW s \in Seq(S), NEW I \in SUBSET DOMAIN s, NEW y, OnceBut(s, y)
  PROVE  OnceBut(Subsequence(s, I), y)
<1> DEFINE m == Cardinality(I)
           t == Subsequence(s, I)
<1>1. /\ m \in Nat
      /\ \E f \in [1 .. m -> I] :
           /\ t = [n \in 1 .. m |-> s[f[n]]]
           /\ \A p \in I : \E n \in 1 .. m : f[n] = p
           /\ \A a, b \in 1 .. m : a < b => f[a] < f[b]
  BY SubsequenceIs
<1> HIDE DEF m, t
<1>2. PICK f \in [1 .. m -> I] :
        /\ t = [n \in 1 .. m |-> s[f[n]]]
        /\ \A a, b \in 1 .. m : a < b => f[a] < f[b]
  BY <1>1
<1>3. ASSUME NEW a \in DOMAIN t, NEW b \in DOMAIN t, t[a] = t[b], t[a] # y
      PROVE  a = b
  <2>1. a \in 1 .. m /\ b \in 1 .. m /\ s[f[a]] = s[f[b]] /\ s[f[a]] # y
    BY <1>2, <1>3
  <2>2. f[a] \in DOMAIN s /\ f[b] \in DOMAIN s
    BY <1>2, <2>1
  <2>3. f[a] = f[b]
    BY <2>1, <2>2 DEF OnceBut
  <2>4. a < b \/ b < a \/ a = b
    BY <1>1, <2>1
  <2>5. ~(f[a] < f[b]) /\ ~(f[b] < f[a])
    BY <2>2, <2>3
  <2> QED
    BY <1>2, <2>1, <2>4, <2>5
<1> QED
  BY <1>3 DEF OnceBut, t

\* Where every position is chosen it is the sequence itself.
LEMMA WholeSubsequence ==
  ASSUME NEW S, NEW s \in Seq(S)
  PROVE  Subsequence(s, DOMAIN s) = s
<1> DEFINE I == DOMAIN s
<1>1. Len(s) \in Nat /\ I = 1 .. Len(s)
  OBVIOUS
<1>2. Cardinality(I) = Len(s)
  BY <1>1, FS_Interval
<1>3. \A p \in I : Rank(I, p) = p
  <2> TAKE p \in I
  <2>1. p \in Nat /\ p >= 1 /\ p <= Len(s)
    BY <1>1
  <2>2. {q \in I : q <= p} = 1 .. p
    BY <1>1, <2>1
  <2>3. Cardinality(1 .. p) = p
    BY <2>1, FS_Interval
  <2> QED
    BY <2>2, <2>3 DEF Rank
<1>4. \A n \in I : (CHOOSE p \in I : Rank(I, p) = n) = n
  BY <1>3
<1>5. Subsequence(s, I) = [n \in 1 .. Len(s) |-> s[CHOOSE p \in I : Rank(I, p) = n]]
  BY <1>2 DEF Subsequence, Rank
<1>6. Subsequence(s, I) = [n \in 1 .. Len(s) |-> s[n]]
  BY <1>1, <1>4, <1>5
<1> QED
  BY <1>6

=============================================================================
