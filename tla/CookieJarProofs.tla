--------------------------- MODULE CookieJarProofs ---------------------------
(***************************************************************************)
(* Theorems about CookieJar, for every value of its constants.             *)
(***************************************************************************)
EXTENDS CookieJar, SubsequenceTheorems, TLAPS

-----------------------------------------------------------------------------
(***************************************************************************)
(* Sequences.                                                              *)
(***************************************************************************)
\* The type and the elements of a subsequence.
LEMMA SubsequenceElements ==
  ASSUME NEW S, NEW s \in Seq(S), NEW I \in SUBSET DOMAIN s
  PROVE  /\ Subsequence(s, I) \in Seq(S)
         /\ ToSet(Subsequence(s, I)) = {s[p] : p \in I}
BY SubsequenceRange DEF ToSet

\* Reversing keeps type and elements.
LEMMA ReverseElements ==
  ASSUME NEW S, NEW s \in Seq(S)
  PROVE  Reverse(s) \in Seq(S) /\ ToSet(Reverse(s)) = ToSet(s)
<1>1. Len(s) \in Nat /\ DOMAIN s = 1 .. Len(s)
  OBVIOUS
<1>2. \A n \in 1 .. Len(s) : (Len(s) - n) + 1 \in 1 .. Len(s)
  BY <1>1
<1>3. Reverse(s) \in Seq(S) /\ DOMAIN Reverse(s) = 1 .. Len(s)
  BY <1>1, <1>2 DEF Reverse
<1>4. ASSUME NEW n \in 1 .. Len(s)
      PROVE  s[n] = Reverse(s)[(Len(s) - n) + 1]
  BY <1>1, <1>2 DEF Reverse
<1>5. \A n \in 1 .. Len(s) : Reverse(s)[n] = s[(Len(s) - n) + 1]
  BY DEF Reverse
<1> QED
  BY <1>1, <1>2, <1>3, <1>4, <1>5 DEF ToSet

\* Concatenating joins the elements.
LEMMA ConcatElements ==
  ASSUME NEW S, NEW s \in Seq(S), NEW t \in Seq(S)
  PROVE  s \o t \in Seq(S) /\ ToSet(s \o t) = ToSet(s) \cup ToSet(t)
<1>1. /\ s \o t \in Seq(S) /\ Len(s \o t) = Len(s) + Len(t)
      /\ Len(s) \in Nat /\ Len(t) \in Nat
      /\ DOMAIN s = 1 .. Len(s) /\ DOMAIN t = 1 .. Len(t)
      /\ DOMAIN (s \o t) = 1 .. Len(s) + Len(t)
  OBVIOUS
<1>2. \A n \in 1 .. Len(s) + Len(t) :
        (s \o t)[n] = IF n <= Len(s) THEN s[n] ELSE t[n - Len(s)]
  OBVIOUS
<1>3. ASSUME NEW n \in 1 .. Len(t)
      PROVE  t[n] = (s \o t)[n + Len(s)] /\ n + Len(s) \in 1 .. Len(s) + Len(t)
  BY <1>1, <1>2
<1>4. ASSUME NEW n \in 1 .. Len(s)
      PROVE  s[n] = (s \o t)[n] /\ n \in 1 .. Len(s) + Len(t)
  BY <1>1, <1>2
<1>5. ASSUME NEW n \in 1 .. Len(s) + Len(t)
      PROVE  (s \o t)[n] \in ToSet(s) \cup ToSet(t)
  BY <1>1, <1>2 DEF ToSet
<1>6. ToSet(s \o t) \subseteq ToSet(s) \cup ToSet(t)
  BY <1>1, <1>5 DEF ToSet
<1>7. ToSet(s) \subseteq ToSet(s \o t)
  BY <1>1, <1>4 DEF ToSet
<1>8. ToSet(t) \subseteq ToSet(s \o t)
  BY <1>1, <1>3 DEF ToSet
<1> QED
  BY <1>1, <1>6, <1>7, <1>8

-----------------------------------------------------------------------------
(***************************************************************************)
(* The helpers of SetCookies.                                              *)
(***************************************************************************)
OneOfAName(S) == \A c, d \in S : c.name = d.name => c = d

\* Unique keeps one cookie of a name, the last.
LEMMA UniqueElements ==
  ASSUME NEW s \in Seq(Cookie)
  PROVE  /\ Unique(s) \in Seq(Cookie)
         /\ ToSet(Unique(s)) =
              {s[p] : p \in {j \in DOMAIN s : \A k \in j + 1 .. Len(s) : s[k].name # s[j].name}}
         /\ OneOfAName(ToSet(Unique(s)))
<1> DEFINE LastNamed == {j \in DOMAIN s : \A k \in j + 1 .. Len(s) : s[k].name # s[j].name}
<1>1. /\ Subsequence(s, LastNamed) \in Seq(Cookie)
      /\ ToSet(Subsequence(s, LastNamed)) = {s[p] : p \in LastNamed}
  <2>1. LastNamed \in SUBSET DOMAIN s
    OBVIOUS
  <2> HIDE DEF LastNamed
  <2> QED
    BY <2>1, SubsequenceElements
<1>2. Unique(s) \in Seq(Cookie) /\ ToSet(Unique(s)) = {s[p] : p \in LastNamed}
  <2>1. Unique(s) = Reverse(Subsequence(s, LastNamed))
    BY DEF Unique
  <2> HIDE DEF LastNamed
  <2> QED
    BY <1>1, <2>1, ReverseElements
<1>3. \A p, q \in LastNamed : s[p].name = s[q].name => p = q
  <2> SUFFICES ASSUME NEW p \in LastNamed, NEW q \in LastNamed, p < q
               PROVE  s[p].name # s[q].name
    OBVIOUS
  <2>1. q \in p + 1 .. Len(s)
    OBVIOUS
  <2> QED
    BY <2>1
<1>4. OneOfAName({s[p] : p \in LastNamed})
  BY <1>3 DEF OneOfAName
<1> QED
  BY <1>2, <1>4

\* NotNamedIn keeps the cookies whose name is free.
LEMMA NotNamedInElements ==
  ASSUME NEW s \in Seq(Cookie), NEW t \in Seq(Cookie)
  PROVE  /\ NotNamedIn(s, t) \in Seq(Cookie)
         /\ ToSet(NotNamedIn(s, t)) = {c \in ToSet(s) : \A d \in ToSet(t) : d.name # c.name}
<1> DEFINE Free == {j \in DOMAIN s : ~HasName(t, s[j].name)}
<1>1. Free \in SUBSET DOMAIN s
  OBVIOUS
<1>2. NotNamedIn(s, t) = Subsequence(s, Free)
  BY DEF NotNamedIn
<1>3. {s[p] : p \in Free} = {c \in ToSet(s) : \A d \in ToSet(t) : d.name # c.name}
  BY DEF HasName, ToSet
<1> HIDE DEF Free
<1>4. /\ Subsequence(s, Free) \in Seq(Cookie)
      /\ ToSet(Subsequence(s, Free)) = {s[p] : p \in Free}
  BY <1>1, SubsequenceElements
<1> QED
  BY <1>2, <1>3, <1>4

\* NonEmpty keeps types.
LEMMA NonEmptyType ==
  ASSUME NEW s \in Seq(Cookie)
  PROVE  NonEmpty(s) \in Seq(Cookie)
<1> DEFINE I == {j \in DOMAIN s : s[j].value # Empty}
<1>1. I \in SUBSET DOMAIN s
  OBVIOUS
<1>2. NonEmpty(s) = IF config.allowEmpty THEN s ELSE Subsequence(s, I)
  BY DEF NonEmpty
<1> HIDE DEF I
<1>3. Subsequence(s, I) \in Seq(Cookie)
  BY <1>1, SubsequenceElements
<1> QED
  BY <1>2, <1>3

\* What SetCookies keeps of the cookies it is given: of each name the last one
\* that is not refused for being empty.
LEMMA NewCookies ==
  ASSUME NEW s \in Seq(Cookie)
  PROVE  /\ Unique(NonEmpty(s)) \in Seq(Cookie)
         /\ ToSet(Unique(NonEmpty(s))) = Store!LastOf(s)
         /\ OneOfAName(Store!LastOf(s))
<1> DEFINE t == NonEmpty(s)
           LastNamed(u) == {j \in DOMAIN u : \A k \in j + 1 .. Len(u) : u[k].name # u[j].name}
           I == {j \in DOMAIN s : s[j].value # Empty}
<1>1. /\ Unique(t) \in Seq(Cookie)
      /\ ToSet(Unique(t)) = {t[p] : p \in LastNamed(t)}
      /\ OneOfAName(ToSet(Unique(t)))
  BY NonEmptyType, UniqueElements
<1>2. CASE config.allowEmpty
  <2>1. t = s /\ \A j : Store!Accepted(s, j)
    BY <1>2 DEF NonEmpty, Store!Accepted
  <2>2. Len(s) \in Nat /\ DOMAIN s = 1 .. Len(s)
    OBVIOUS
  <2>3. LastNamed(s) = {j \in DOMAIN s :
                     \A k \in DOMAIN s : ~(k > j /\ s[k].name = s[j].name)}
    BY <2>2
  <2>4. {s[p] : p \in LastNamed(s)} = Store!LastOf(s)
    BY <2>1, <2>3 DEF Store!LastOf
  <2> QED
    BY <1>1, <2>1, <2>4
<1>3. CASE ~config.allowEmpty
  <2>1. t = Subsequence(s, I) /\ I \in SUBSET DOMAIN s
    BY <1>3 DEF NonEmpty
  <2>2. \A j \in DOMAIN s : Store!Accepted(s, j) <=> j \in I
    BY <1>3 DEF Store!Accepted
  <2>3. Cardinality(I) \in Nat
    <3> HIDE DEF I
    <3> QED
      BY <2>1, SubsequenceIs
  <2> DEFINE N == 1 .. Cardinality(I)
  <2>4. PICK f \in [N -> I] :
          /\ Subsequence(s, I) = [n \in N |-> s[f[n]]]
          /\ \A p \in I : \E n \in N : f[n] = p
          /\ \A a, b \in N : a < b => f[a] < f[b]
    <3> HIDE DEF I
    <3> QED
      BY <2>1, SubsequenceIs
  <2>5. DOMAIN t = N /\ Len(t) = Cardinality(I) /\ \A n \in N : t[n] = s[f[n]]
    <3> HIDE DEF I, t
    <3> QED
      BY <2>1, <2>3, <2>4
  <2>6. \A n \in N : f[n] \in Nat
    OBVIOUS
  <2>7. \A a, b \in N : a < b <=> f[a] < f[b]
    <3> HIDE DEF I
    <3> QED
      BY <2>3, <2>4, <2>6
  <2>8. \A n \in N : n \in LastNamed(t) <=> \A k \in N : k > n => s[f[k]].name # s[f[n]].name
    <3> HIDE DEF I, t
    <3> QED
      BY <2>3, <2>5
  <2>9. \A n \in N : n \in LastNamed(t) <=>
          \A q \in I : q > f[n] => s[q].name # s[f[n]].name
    <3> HIDE DEF I, t, LastNamed
    <3> QED
      BY <2>4, <2>6, <2>7, <2>8
  <2>10. Store!LastOf(s) =
           {s[p] : p \in {j \in I : \A q \in I : q > j => s[q].name # s[j].name}}
    BY <2>2 DEF Store!LastOf
  <2>11. \A n \in LastNamed(t) : n \in N
    BY <2>5
  <2>12. {t[n] : n \in LastNamed(t)} = Store!LastOf(s)
    <3> HIDE DEF I, t, LastNamed
    <3>1. \A n \in LastNamed(t) : t[n] \in Store!LastOf(s)
      BY <2>4, <2>5, <2>9, <2>10, <2>11
    <3>2. ASSUME NEW j \in I, \A q \in I : q > j => s[q].name # s[j].name
          PROVE  \E n \in LastNamed(t) : t[n] = s[j]
      BY <2>4, <2>5, <2>9, <3>2
    <3> QED
      BY <2>10, <3>1, <3>2
  <2> QED
    BY <1>1, <2>12
<1> QED
  BY <1>2, <1>3

\* What SetCookies stores.
LEMMA MergeElements ==
  ASSUME NEW e \in Seq(Cookie), NEW n \in Seq(Cookie)
  PROVE  /\ Merge(e, n) \in Seq(Cookie)
         /\ config.skipExisting =>
              /\ ToSet(Merge(e, n)) =
                   ToSet(e) \cup {c \in ToSet(n) : \A d \in ToSet(e) : d.name # c.name}
              /\ Len(e) <= Len(Merge(e, n))
              /\ \A p \in 1 .. Len(e) : Merge(e, n)[p] = e[p]
         /\ ~config.skipExisting =>
              ToSet(Merge(e, n)) =
                {c \in ToSet(e) : \A d \in ToSet(n) : d.name # c.name} \cup ToSet(n)
<1>1. CASE config.skipExisting
  <2> DEFINE a == NotNamedIn(n, e)
  <2>1. a \in Seq(Cookie) /\ ToSet(a) = {c \in ToSet(n) : \A d \in ToSet(e) : d.name # c.name}
    BY NotNamedInElements
  <2>2. Merge(e, n) = e \o a
    BY <1>1 DEF Merge
  <2> HIDE DEF a
  <2>3. e \o a \in Seq(Cookie) /\ ToSet(e \o a) = ToSet(e) \cup ToSet(a)
    BY <2>1, ConcatElements
  <2>4. Len(e) <= Len(e \o a) /\ \A p \in 1 .. Len(e) : (e \o a)[p] = e[p]
    BY <2>1
  <2> QED
    BY <1>1, <2>1, <2>2, <2>3, <2>4
<1>2. CASE ~config.skipExisting
  <2> DEFINE a == NotNamedIn(e, n)
  <2>1. a \in Seq(Cookie) /\ ToSet(a) = {c \in ToSet(e) : \A d \in ToSet(n) : d.name # c.name}
    BY NotNamedInElements
  <2>2. Merge(e, n) = a \o n
    BY <1>2 DEF Merge
  <2> HIDE DEF a
  <2>3. a \o n \in Seq(Cookie) /\ ToSet(a \o n) = ToSet(a) \cup ToSet(n)
    BY <2>1, ConcatElements
  <2> QED
    BY <1>2, <2>1, <2>2, <2>3
<1> QED
  BY <1>1, <1>2

-----------------------------------------------------------------------------
(***************************************************************************)
(* The invariants.                                                         *)
(***************************************************************************)
Filtering(g) == pc[g] \in {"filter", "keep"}

\* The stored slices are whole arrays, one array for each.
StoredWhole ==
  /\ \A k \in HostKey :
       /\ cookies[k].arr \in 0 .. Len(heap)
       /\ cookies[k].arr = 0 => cookies[k].len = 0
       /\ cookies[k].arr # 0 => cookies[k].len = Len(heap[cookies[k].arr])
  /\ \A k, l \in HostKey : cookies[k].arr # 0 /\ cookies[k].arr = cookies[l].arr => k = l

\* The slices returned lie within their arrays.
FilteredWithin ==
  \A g \in Goroutine :
    /\ filtered[g].arr \in 0 .. Len(heap)
    /\ filtered[g].arr = 0 => filtered[g].len = 0
    /\ filtered[g].arr # 0 => filtered[g].len <= Len(heap[filtered[g].arr])

\* A reader reads the slice that is stored, as SetCookies waits for it.
ReadsStored ==
  \A g \in Goroutine :
    /\ pc[g] = "idle" => i[g] = 0 /\ w[g] = 0
    /\ pc[g] # "idle" => key[g] \in HostKey /\ slice[g] = cookies[key[g]]
    /\ pc[g] = "keep" => w[g] < i[g] /\ cookie[g] \in Cookie /\ ~cookie[g].deleted

TypeInv == TypeOK /\ StoredWhole /\ FilteredWithin /\ ReadsStored

\* What has been returned, and what a filter has kept, is alive.
KeptAlive ==
  \A g \in Goroutine :
    /\ \A p \in 1 .. filtered[g].len : ~heap[filtered[g].arr][p].deleted
    /\ Filtering(g) => \A p \in 1 .. w[g] : ~heap[slice[g].arr][p].deleted

KnownOnce ==
  \A k \in HostKey : \A c, d \in Known(k) : c.name = d.name => c = d

\* The element p of the array g reads.
At(g, p) == heap[slice[g].arr][p]

\* What a filter keeps of the elements it has read.
Kept(g) == {At(g, p) : p \in 1 .. w[g]} \cup (IF pc[g] = "keep" THEN {cookie[g]} ELSE {})

\* A filter has kept every alive element it has read.
FilterInv ==
  \A g \in Goroutine : Filtering(g) =>
    /\ \A p \in 1 .. i[g] : At(g, p).deleted \/ At(g, p) \in Kept(g)
    /\ pc[g] = "keep" => cookie[g] = At(g, i[g])

\* A scan has found nothing in the elements it has read.
ScanInv ==
  \A g \in Goroutine : pc[g] = "scan" =>
    /\ found[g] = NoCookie
    /\ \A p \in 1 .. i[g] : At(g, p).name = sought[g] => At(g, p).deleted

\* While a goroutine filters the cookies of a host key no other one reads them.
FiltersAlone ==
  \A g, h \in Goroutine : Filtering(g) /\ pc[h] # "idle" /\ key[h] = key[g] => h = g

-----------------------------------------------------------------------------
(***************************************************************************)
(* Type correctness.                                                       *)
(***************************************************************************)
\* The elements of a slice that lies within its array.
LEMMA SliceElements ==
  ASSUME TypeOK, NEW s \in Slice, s.arr \in 0 .. Len(heap), s.arr = 0 => s.len = 0,
         s.arr # 0 => s.len <= Len(heap[s.arr])
  PROVE  /\ Contents(s) \in Seq(Cookie) /\ Len(Contents(s)) = s.len
         /\ \A p \in 1 .. s.len : Contents(s)[p] = heap[s.arr][p] /\ heap[s.arr][p] \in Cookie
         /\ ToSet(Contents(s)) = {heap[s.arr][p] : p \in 1 .. s.len}
<1>1. s.len \in Nat
  BY DEF Slice
<1>2. CASE s.arr = 0
  <2>1. Contents(s) = <<>> /\ s.len = 0
    BY <1>2 DEF Contents
  <2> QED
    BY <2>1 DEF ToSet
<1>3. CASE s.arr # 0
  <2>1. /\ Contents(s) = SubSeq(heap[s.arr], 1, s.len) /\ s.arr \in 1 .. Len(heap)
        /\ heap[s.arr] \in Seq(Cookie) /\ s.len <= Len(heap[s.arr])
    <3>1. s.arr \in 1 .. Len(heap) /\ heap \in Seq(Seq(Cookie))
      BY <1>3 DEF TypeOK
    <3>2. heap[s.arr] \in Seq(Cookie)
      BY <3>1
    <3> QED
      BY <1>3, <3>1, <3>2 DEF Contents
  <2>2. \A p \in 1 .. s.len : heap[s.arr][p] \in Cookie
    BY <1>1, <2>1
  <2>3. /\ Contents(s) \in Seq(Cookie) /\ Len(Contents(s)) = s.len
        /\ \A p \in 1 .. s.len : Contents(s)[p] = heap[s.arr][p]
    BY <1>1, <2>1, <2>2
  <2>4. DOMAIN Contents(s) = 1 .. s.len
    BY <2>3
  <2> QED
    BY <2>2, <2>3, <2>4 DEF ToSet
<1> QED
  BY <1>2, <1>3

\* What a host key stores is a whole array, of type.
LEMMA StoredElements ==
  ASSUME TypeInv, NEW k \in HostKey
  PROVE  /\ Contents(cookies[k]) \in Seq(Cookie)
         /\ Len(Contents(cookies[k])) = cookies[k].len
         /\ \A p \in 1 .. cookies[k].len :
              /\ Contents(cookies[k])[p] = heap[cookies[k].arr][p]
              /\ heap[cookies[k].arr][p] \in Cookie
         /\ ToSet(Contents(cookies[k])) = {heap[cookies[k].arr][p] : p \in 1 .. cookies[k].len}
<1>1. TypeOK /\ cookies[k] \in Slice
  BY DEF TypeInv, TypeOK
<1>2. /\ cookies[k].arr \in 0 .. Len(heap)
      /\ cookies[k].arr = 0 => cookies[k].len = 0
      /\ cookies[k].arr # 0 => cookies[k].len <= Len(heap[cookies[k].arr])
  <2>1. cookies[k].arr # 0 => heap[cookies[k].arr] \in Seq(Cookie)
    BY <1>1 DEF TypeInv, StoredWhole, TypeOK
  <2> QED
    BY <2>1 DEF TypeInv, StoredWhole
<1> QED
  BY <1>1, <1>2, SliceElements

\* What SetCookies merges, of type and no shorter than what it extends.
LEMMA MergedType ==
  ASSUME TypeInv, NEW k \in HostKey, NEW given \in Given
  PROVE  LET merged == Merge(Contents(cookies[k]), Unique(NonEmpty(given)))
         IN  /\ merged \in Seq(Cookie)
             /\ config.skipExisting =>
                  /\ cookies[k].len <= Len(merged)
                  /\ \A p \in 1 .. cookies[k].len : merged[p] = heap[cookies[k].arr][p]
<1> DEFINE e == Contents(cookies[k])
           n == Unique(NonEmpty(given))
<1>1. given \in Seq(Cookie)
  BY CookieJarAssumption
<1>2. n \in Seq(Cookie)
  BY <1>1, NewCookies
<1>3. /\ e \in Seq(Cookie) /\ Len(e) = cookies[k].len
      /\ \A p \in 1 .. cookies[k].len : e[p] = heap[cookies[k].arr][p]
  BY StoredElements
<1> HIDE DEF e, n
<1>4. /\ Merge(e, n) \in Seq(Cookie)
      /\ config.skipExisting =>
           Len(e) <= Len(Merge(e, n)) /\ \A p \in 1 .. Len(e) : Merge(e, n)[p] = e[p]
  BY <1>2, <1>3, MergeElements
<1> QED
  BY <1>3, <1>4 DEF e, n

LEMMA InitType == Init => TypeInv
<1> SUFFICES ASSUME Init PROVE TypeInv
  OBVIOUS
<1> USE CookieJarAssumption DEF Init
<1>1. TypeOK
  BY DEF TypeOK, Slice, Nil
<1>2. StoredWhole
  BY DEF StoredWhole, Nil
<1>3. FilteredWithin
  BY DEF FilteredWithin, Nil
<1>4. ReadsStored
  BY DEF ReadsStored
<1> QED
  BY <1>1, <1>2, <1>3, <1>4 DEF TypeInv

LEMMA SetCookiesType ==
  ASSUME TypeInv, NEW h \in Host, NEW given \in Given, SetCookies(h, given)
  PROVE  TypeInv'
<1> DEFINE k == BuildCookieHostKey(h)
           merged == Merge(Contents(cookies[k]), Unique(NonEmpty(given)))
<1>1. k \in HostKey
  BY DEF HostKey
<1>2. /\ merged \in Seq(Cookie)
      /\ config.skipExisting => cookies[k].len <= Len(merged)
  BY <1>1, MergedType
<1>3. /\ asked' = [key |-> k, given |-> given]
      /\ UNCHANGED <<config, readers, pc, key, slice, i, w, cookie, sought, filtered, found>>
      /\ \A g \in Goroutine : pc[g] = "idle"
  BY DEF SetCookies, TypeInv, TypeOK, call, reading
<1>4. \/ UNCHANGED <<heap, cookies>>
      \/ StoreNew(k, merged)
      \/ config.skipExisting /\ StoreInPlace(k, merged)
  BY DEF SetCookies
<1> HIDE DEF k, merged
<1>5. CASE UNCHANGED <<heap, cookies>>
  <2> USE <1>1, <1>3, <1>5
  <2>1. TypeOK'
    BY DEF TypeInv, TypeOK
  <2>2. StoredWhole' /\ FilteredWithin' /\ ReadsStored'
    BY DEF TypeInv, StoredWhole, FilteredWithin, ReadsStored
  <2> QED
    BY <2>1, <2>2 DEF TypeInv
<1>6. CASE StoreNew(k, merged)
  <2>1. /\ heap' = Append(heap, merged) /\ Len(heap) < MaxArray
        /\ cookies' = [cookies EXCEPT ![k] = [arr |-> Len(heap) + 1, len |-> Len(merged)]]
        /\ heap \in Seq(Seq(Cookie)) /\ Len(heap) \in Nat /\ Len(merged) \in Nat
    BY <1>2, <1>6 DEF StoreNew, TypeInv, TypeOK
  <2>2. /\ heap' \in Seq(Seq(Cookie)) /\ Len(heap') = Len(heap) + 1
        /\ \A a \in 1 .. Len(heap) : heap'[a] = heap[a]
        /\ heap'[Len(heap) + 1] = merged
    BY <1>2, <2>1
  <2>3. /\ cookies'[k] = [arr |-> Len(heap) + 1, len |-> Len(merged)]
        /\ \A l \in HostKey : l # k => cookies'[l] = cookies[l]
    BY <1>1, <2>1 DEF TypeInv, TypeOK
  <2>4. TypeOK'
    <3>1. cookies' \in [HostKey -> Slice]
      BY <1>1, <2>1, CookieJarAssumption DEF TypeInv, TypeOK, Slice
    <3> QED
      BY <1>1, <1>3, <2>1, <2>2, <3>1, CookieJarAssumption DEF TypeInv, TypeOK
  <2>5. StoredWhole'
    BY <1>1, <2>1, <2>2, <2>3 DEF TypeInv, StoredWhole
  <2>6. FilteredWithin'
    BY <1>3, <2>1, <2>2 DEF TypeInv, FilteredWithin
  <2>7. ReadsStored'
    BY <1>3 DEF TypeInv, ReadsStored
  <2> QED
    BY <2>4, <2>5, <2>6, <2>7 DEF TypeInv
<1>7. CASE config.skipExisting /\ StoreInPlace(k, merged)
  <2>1. /\ heap' = [heap EXCEPT ![cookies[k].arr] = merged] /\ cookies[k].arr # 0
        /\ cookies' = [cookies EXCEPT ![k].len = Len(merged)]
        /\ heap \in Seq(Seq(Cookie)) /\ Len(heap) \in Nat /\ Len(merged) \in Nat
        /\ cookies[k].arr \in 1 .. Len(heap) /\ cookies[k] \in Slice
    BY <1>1, <1>2, <1>7 DEF StoreInPlace, TypeInv, TypeOK, StoredWhole
  <2>2. /\ heap' \in Seq(Seq(Cookie)) /\ Len(heap') = Len(heap)
        /\ \A a \in 1 .. Len(heap) : a # cookies[k].arr => heap'[a] = heap[a]
        /\ heap'[cookies[k].arr] = merged
    BY <1>2, <2>1
  <2>3. /\ cookies'[k].arr = cookies[k].arr /\ cookies'[k].len = Len(merged)
        /\ cookies'[k] \in Slice
        /\ \A l \in HostKey : l # k => cookies'[l] = cookies[l]
    BY <1>1, <2>1 DEF TypeInv, TypeOK, Slice
  <2>4. TypeOK'
    <3>1. cookies' \in [HostKey -> Slice]
      BY <1>1, <2>1, <2>3 DEF TypeInv, TypeOK
    <3> QED
      BY <1>1, <1>3, <2>2, <3>1 DEF TypeInv, TypeOK
  <2>5. StoredWhole'
    BY <1>1, <2>1, <2>2, <2>3 DEF TypeInv, StoredWhole
  <2>6. FilteredWithin'
    <3>1. cookies[k].len = Len(heap[cookies[k].arr]) /\ cookies[k].len <= Len(merged)
      BY <1>1, <1>2, <1>7, <2>1 DEF TypeInv, StoredWhole
    <3>2. \A g \in Goroutine : filtered[g].len \in Nat
      BY DEF TypeInv, TypeOK, Slice
    <3>3. cookies[k].len \in Nat
      BY <2>1 DEF Slice
    <3> QED
      BY <1>3, <2>1, <2>2, <3>1, <3>2, <3>3 DEF TypeInv, FilteredWithin
  <2>7. ReadsStored'
    BY <1>3 DEF TypeInv, ReadsStored
  <2> QED
    BY <2>4, <2>5, <2>6, <2>7 DEF TypeInv
<1> QED
  BY <1>4, <1>5, <1>6, <1>7

\* What a reader is about to read is a cookie.
LEMMA ElementType ==
  ASSUME TypeInv, NEW g \in Goroutine, pc[g] # "idle", i[g] < slice[g].len
  PROVE  /\ key[g] \in HostKey /\ slice[g] = cookies[key[g]]
         /\ i[g] + 1 \in 1 .. slice[g].len
         /\ Element(g) = At(g, i[g] + 1) /\ Element(g) \in Cookie
<1>1. key[g] \in HostKey /\ slice[g] = cookies[key[g]]
  BY DEF TypeInv, ReadsStored
<1>2. i[g] \in Nat /\ slice[g].len \in Nat
  BY DEF TypeInv, TypeOK, Slice
<1>3. i[g] + 1 \in 1 .. slice[g].len
  BY <1>2
<1> QED
  BY <1>1, <1>3, StoredElements DEF Element, At

\* The steps of readers keep types.
LEMMA ReaderType ==
  ASSUME TypeInv, NEW g \in Goroutine,
         \/ \E h \in Host : Cookies(g, h)
         \/ \E h \in Host, n \in Name : CookieOfName(g, h, n)
         \/ FilterRead(g) \/ FilterKeep(g) \/ FilterReturn(g)
         \/ ScanHit(g) \/ ScanMiss(g) \/ ScanReturn(g)
  PROVE  TypeInv'
<1>1. ASSUME NEW h \in Host, NEW l \in {"filter", "scan"}, NEW n \in Name \cup {NoName},
             RLock(g, h, l, n)
      PROVE  TypeInv'
  <2>1. BuildCookieHostKey(h) \in HostKey
    BY DEF HostKey
  <2>2. cookies[BuildCookieHostKey(h)] \in Slice /\ Nil \in Slice
    BY <2>1, CookieJarAssumption DEF TypeInv, TypeOK, Slice, Nil
  <2>3. pc[g] = "idle" /\ i[g] = 0 /\ w[g] = 0
    BY <1>1 DEF RLock, TypeInv, ReadsStored
  <2>4. TypeOK'
    <3>1. slice'[g].len \in Nat
      BY <1>1, <2>2 DEF RLock, TypeInv, TypeOK, Slice
    <3>2. readers' = {x \in Goroutine : pc'[x] # "idle"}
      BY <1>1 DEF RLock, TypeInv, TypeOK
    <3>3. \A x \in Goroutine : w'[x] <= i'[x] /\ i'[x] <= slice'[x].len
      BY <1>1, <2>3, <3>1 DEF RLock, TypeInv, TypeOK
    <3> QED
      BY <1>1, <2>1, <2>2, <3>2, <3>3 DEF RLock, TypeInv, TypeOK
  <2>5. StoredWhole'
    BY <1>1 DEF RLock, TypeInv, StoredWhole
  <2>6. FilteredWithin'
    BY <1>1 DEF RLock, TypeInv, TypeOK, FilteredWithin, Nil
  <2>7. ReadsStored'
    BY <1>1, <2>1, <2>3 DEF RLock, TypeInv, TypeOK, ReadsStored
  <2> QED
    BY <2>4, <2>5, <2>6, <2>7 DEF TypeInv
<1>2. CASE FilterRead(g)
  <2>1. /\ i[g] + 1 \in 1 .. slice[g].len /\ Element(g) \in Cookie
        /\ pc[g] = "filter" /\ w[g] \in Nat /\ i[g] \in Nat /\ w[g] <= i[g]
        /\ slice[g].len \in Nat
    BY <1>2, ElementType DEF FilterRead, TypeInv, TypeOK, Slice
  <2>2. TypeOK'
    <3>1. readers' = {x \in Goroutine : pc'[x] # "idle"}
      BY <1>2 DEF FilterRead, TypeInv, TypeOK
    <3>2. \A x \in Goroutine : w'[x] <= i'[x] /\ i'[x] <= slice'[x].len
      BY <1>2, <2>1 DEF FilterRead, TypeInv, TypeOK
    <3>3. /\ i' \in [Goroutine -> Nat] /\ cookie' \in [Goroutine -> Cookie \cup {NoCookie}]
          /\ pc' \in [Goroutine -> {"idle", "filter", "keep", "scan"}]
      BY <1>2, <2>1 DEF FilterRead, TypeInv, TypeOK
    <3> QED
      BY <1>2, <3>1, <3>2, <3>3 DEF FilterRead, TypeInv, TypeOK
  <2>3. StoredWhole' /\ FilteredWithin'
    BY <1>2 DEF FilterRead, TypeInv, StoredWhole, FilteredWithin
  <2>4. ReadsStored'
    BY <1>2, <2>1 DEF FilterRead, TypeInv, TypeOK, ReadsStored
  <2> QED
    BY <2>2, <2>3, <2>4 DEF TypeInv
<1>3. CASE FilterKeep(g)
  <2> DEFINE a == slice[g].arr
  <2>1. /\ pc[g] = "keep" /\ key[g] \in HostKey /\ slice[g] = cookies[key[g]]
        /\ w[g] < i[g] /\ cookie[g] \in Cookie
    BY <1>3 DEF FilterKeep, TypeInv, ReadsStored
  <2>2. /\ w[g] \in Nat /\ i[g] \in Nat /\ i[g] <= slice[g].len /\ slice[g].len \in Nat
        /\ heap \in Seq(Seq(Cookie))
    BY DEF TypeInv, TypeOK, Slice
  <2>3. a \in 1 .. Len(heap) /\ slice[g].len = Len(heap[a]) /\ heap[a] \in Seq(Cookie)
    BY <2>1, <2>2 DEF TypeInv, StoredWhole
  <2>4. w[g] + 1 \in 1 .. Len(heap[a])
    BY <2>1, <2>2, <2>3
  <2>5. heap' = [heap EXCEPT ![a] = [heap[a] EXCEPT ![w[g] + 1] = cookie[g]]]
    BY <1>3 DEF FilterKeep
  <2> HIDE DEF a
  <2>6. /\ [heap[a] EXCEPT ![w[g] + 1] = cookie[g]] \in Seq(Cookie)
        /\ Len([heap[a] EXCEPT ![w[g] + 1] = cookie[g]]) = Len(heap[a])
    BY <2>1, <2>3, <2>4
  <2>7. /\ heap' \in Seq(Seq(Cookie)) /\ Len(heap') = Len(heap)
        /\ \A b \in 1 .. Len(heap) : Len(heap'[b]) = Len(heap[b])
    BY <2>2, <2>3, <2>5, <2>6
  <2>8. TypeOK'
    <3>1. readers' = {x \in Goroutine : pc'[x] # "idle"}
      BY <1>3 DEF FilterKeep, TypeInv, TypeOK
    <3>2. \A x \in Goroutine : w'[x] <= i'[x] /\ i'[x] <= slice'[x].len
      BY <1>3, <2>1, <2>2 DEF FilterKeep, TypeInv, TypeOK
    <3>3. w' \in [Goroutine -> Nat]
      BY <1>3, <2>2 DEF FilterKeep, TypeInv, TypeOK
    <3>4. pc' \in [Goroutine -> {"idle", "filter", "keep", "scan"}]
      BY <1>3 DEF FilterKeep, TypeInv, TypeOK
    <3> QED
      BY <1>3, <2>7, <3>1, <3>2, <3>3, <3>4 DEF FilterKeep, TypeInv, TypeOK
  <2>9. StoredWhole'
    BY <1>3, <2>7 DEF FilterKeep, TypeInv, StoredWhole
  <2>10. FilteredWithin'
    BY <1>3, <2>7 DEF FilterKeep, TypeInv, FilteredWithin
  <2>11. ReadsStored'
    BY <1>3 DEF FilterKeep, TypeInv, TypeOK, ReadsStored
  <2> QED
    BY <2>8, <2>9, <2>10, <2>11 DEF TypeInv
<1>4. ASSUME RUnlock(g),
             \/ UNCHANGED filtered
             \/ filtered' = [filtered EXCEPT ![g] = [arr |-> slice[g].arr, len |-> w[g]]],
             found' \in [Goroutine -> Cookie \cup {NoCookie}], pc[g] # "idle"
      PROVE  TypeInv'
  <2>1. /\ key[g] \in HostKey /\ slice[g] = cookies[key[g]] /\ slice[g] \in Slice
        /\ w[g] \in Nat /\ i[g] \in Nat /\ w[g] <= i[g] /\ i[g] <= slice[g].len
    BY <1>4 DEF TypeInv, TypeOK, ReadsStored
  <2>2. TypeOK'
    <3>1. readers' = {x \in Goroutine : pc'[x] # "idle"}
      BY <1>4 DEF RUnlock, TypeInv, TypeOK
    <3>2. \A x \in Goroutine : w'[x] <= i'[x] /\ i'[x] <= slice'[x].len
      BY <1>4 DEF RUnlock, TypeInv, TypeOK, Nil
    <3>3. filtered' \in [Goroutine -> Slice]
      <4>1. [arr |-> slice[g].arr, len |-> w[g]] \in Slice
        BY <2>1 DEF Slice
      <4>2. filtered \in [Goroutine -> Slice]
        BY DEF TypeInv, TypeOK
      <4> QED
        BY <1>4, <4>1, <4>2
    <3>4. /\ i' \in [Goroutine -> Nat] /\ w' \in [Goroutine -> Nat]
          /\ slice' \in [Goroutine -> Slice]
      BY <1>4, CookieJarAssumption DEF RUnlock, TypeInv, TypeOK, Slice, Nil
    <3>5. /\ pc' \in [Goroutine -> {"idle", "filter", "keep", "scan"}]
          /\ key' \in [Goroutine -> HostKey \cup {NoKey}]
          /\ cookie' \in [Goroutine -> Cookie \cup {NoCookie}]
          /\ sought' \in [Goroutine -> Name \cup {NoName}]
      BY <1>4 DEF RUnlock, TypeInv, TypeOK
    <3> QED
      BY <1>4, <3>1, <3>2, <3>3, <3>4, <3>5 DEF RUnlock, TypeInv, TypeOK
  <2>3. StoredWhole'
    BY <1>4 DEF RUnlock, TypeInv, StoredWhole
  <2>4. FilteredWithin'
    <3>1. /\ slice[g].arr \in 0 .. Len(heap)
          /\ slice[g].arr = 0 => w[g] = 0
          /\ slice[g].arr # 0 => w[g] <= Len(heap[slice[g].arr])
      BY <2>1 DEF TypeInv, StoredWhole, Slice
    <3>2. \A x \in Goroutine :
            \/ filtered'[x] = filtered[x]
            \/ filtered'[x] = [arr |-> slice[g].arr, len |-> w[g]]
      BY <1>4 DEF TypeInv, TypeOK
    <3>3. heap' = heap
      BY <1>4 DEF RUnlock
    <3>4. FilteredWithin
      BY DEF TypeInv
    <3> QED
      BY <3>1, <3>2, <3>3, <3>4 DEF FilteredWithin
  <2>5. ReadsStored'
    BY <1>4 DEF RUnlock, TypeInv, TypeOK, ReadsStored
  <2> QED
    BY <2>2, <2>3, <2>4, <2>5 DEF TypeInv
<1>5. CASE ScanMiss(g)
  <2>1. pc[g] = "scan" /\ i[g] \in Nat /\ slice[g].len \in Nat /\ i[g] < slice[g].len
    BY <1>5 DEF ScanMiss, TypeInv, TypeOK, Slice
  <2>2. TypeOK'
    <3>1. \A x \in Goroutine : w'[x] <= i'[x] /\ i'[x] <= slice'[x].len
      BY <1>5, <2>1 DEF ScanMiss, TypeInv, TypeOK
    <3>2. i' \in [Goroutine -> Nat]
      BY <1>5, <2>1 DEF ScanMiss, TypeInv, TypeOK
    <3> QED
      BY <1>5, <3>1, <3>2 DEF ScanMiss, TypeInv, TypeOK
  <2>3. StoredWhole' /\ FilteredWithin'
    BY <1>5 DEF ScanMiss, TypeInv, StoredWhole, FilteredWithin
  <2>4. ReadsStored'
    BY <1>5, <2>1 DEF ScanMiss, TypeInv, TypeOK, ReadsStored
  <2> QED
    BY <2>2, <2>3, <2>4 DEF TypeInv
<1>6. CASE \E h \in Host : Cookies(g, h)
  BY <1>1, <1>6 DEF Cookies
<1>7. CASE \E h \in Host, n \in Name : CookieOfName(g, h, n)
  BY <1>1, <1>7 DEF CookieOfName
<1>8. CASE FilterReturn(g)
  BY <1>4, <1>8 DEF FilterReturn, TypeInv, TypeOK
<1>9. CASE ScanHit(g)
  <2>1. Element(g) \in Cookie
    BY <1>9, ElementType DEF ScanHit
  <2> QED
    BY <1>4, <1>9, <2>1 DEF ScanHit, TypeInv, TypeOK
<1>10. CASE ScanReturn(g)
  BY <1>4, <1>10 DEF ScanReturn, TypeInv, TypeOK
<1> QED
  BY <1>2, <1>3, <1>5, <1>6, <1>7, <1>8, <1>9, <1>10

LEMMA TypeStep == TypeInv /\ [Next]_vars => TypeInv'
<1> SUFFICES ASSUME TypeInv, [Next]_vars PROVE TypeInv'
  OBVIOUS
<1>1. CASE \E h \in Host, given \in Given : SetCookies(h, given)
  BY <1>1, SetCookiesType
<1>2. CASE UNCHANGED vars
  <2> USE <1>2 DEF vars, call, reading, TypeInv
  <2>1. TypeOK'
    BY DEF TypeOK
  <2>2. StoredWhole' /\ FilteredWithin' /\ ReadsStored'
    BY DEF StoredWhole, FilteredWithin, ReadsStored
  <2> QED
    BY <2>1, <2>2
<1> QED
  BY <1>1, <1>2, ReaderType DEF Next

\* Every variable has its type: the lock is held by the readers, and no reader
\* or filter counts beyond the slice it reads.
THEOREM TypeCorrect == Spec => []TypeOK
<1>1. TypeInv => TypeOK
  BY DEF TypeInv
<1> QED
  BY InitType, TypeStep, <1>1, PTL DEF Spec

-----------------------------------------------------------------------------
(***************************************************************************)
(* What the steps change of the arrays.                                    *)
(***************************************************************************)
\* The elements of a host key, before a step or after it.
Stored(k) == {heap[cookies[k].arr][p] : p \in 1 .. cookies[k].len}

LEMMA StoredIs ==
  TypeInv => \A k \in HostKey : ToSet(Contents(cookies[k])) = Stored(k)
BY StoredElements DEF Stored

LEMMA StoredIsNext ==
  TypeInv' => \A k \in HostKey : ToSet(Contents(cookies[k]))' = Stored(k)'
<1>1. TypeInv' => (\A k \in HostKey : ToSet(Contents(cookies[k])) = Stored(k))'
  BY StoredIs, PTL
<1> QED
  BY <1>1

\* The alive cookies of a host key are among them.
LEMMA AliveIs == TypeInv => \A k \in HostKey : AliveAt(k) = {c \in Stored(k) : ~c.deleted}
BY StoredIs DEF AliveAt

LEMMA AliveIsNext ==
  TypeInv' => \A k \in HostKey : AliveAt(k)' = {c \in Stored(k)' : ~c.deleted}
<1>1. TypeInv' => (\A k \in HostKey : AliveAt(k) = {c \in Stored(k) : ~c.deleted})'
  BY AliveIs, PTL
<1> QED
  BY <1>1

\* SetCookies, which no one reads beside, stores the last cookie given of a name
\* next to what other names hold, and what Cookies has returned stays as it is.
LEMMA SetCookiesStores ==
  ASSUME TypeInv, NEW h \in Host, NEW given \in Given, SetCookies(h, given)
  PROVE  LET k == BuildCookieHostKey(h)
             new == Store!LastOf(given)
         IN  /\ k \in HostKey
             /\ \A g \in Goroutine : pc[g] = "idle" /\ pc'[g] = "idle"
             /\ OneOfAName(new)
             /\ config.skipExisting =>
                  Stored(k)' = Stored(k) \cup
                    {c \in new : \A d \in Stored(k) : d.name # c.name}
             /\ ~config.skipExisting =>
                  Stored(k)' = {c \in Stored(k) : \A d \in new : d.name # c.name} \cup new
             /\ \A l \in HostKey : l # k => Stored(l)' = Stored(l)
             /\ \A g \in Goroutine : \A p \in 1 .. filtered[g].len :
                  heap'[filtered[g].arr][p] = heap[filtered[g].arr][p]
<1> DEFINE k == BuildCookieHostKey(h)
           new == Store!LastOf(given)
           e == Contents(cookies[k])
           merged == Merge(e, Unique(NonEmpty(given)))
<1>1. k \in HostKey
  BY DEF HostKey
<1>2. \A g \in Goroutine : pc[g] = "idle" /\ pc'[g] = "idle"
  BY DEF SetCookies, TypeInv, TypeOK, call
<1>3. /\ Unique(NonEmpty(given)) \in Seq(Cookie)
      /\ ToSet(Unique(NonEmpty(given))) = new
      /\ OneOfAName(new)
  BY NewCookies, CookieJarAssumption
<1>4. e \in Seq(Cookie) /\ ToSet(e) = Stored(k) /\ Len(e) = cookies[k].len
  BY <1>1, StoredElements DEF Stored
<1>5. /\ merged \in Seq(Cookie)
      /\ config.skipExisting =>
           /\ ToSet(merged) = Stored(k) \cup {c \in new : \A d \in Stored(k) : d.name # c.name}
           /\ cookies[k].len <= Len(merged)
           /\ \A p \in 1 .. cookies[k].len : merged[p] = heap[cookies[k].arr][p]
      /\ ~config.skipExisting =>
           ToSet(merged) = {c \in Stored(k) : \A d \in new : d.name # c.name} \cup new
  <2> HIDE DEF new, e, k
  <2>1. /\ merged \in Seq(Cookie)
        /\ config.skipExisting =>
             ToSet(merged) = Stored(k) \cup {c \in new : \A d \in Stored(k) : d.name # c.name}
        /\ ~config.skipExisting =>
             ToSet(merged) = {c \in Stored(k) : \A d \in new : d.name # c.name} \cup new
    BY <1>3, <1>4, MergeElements
  <2>2. config.skipExisting =>
          /\ cookies[k].len <= Len(merged)
          /\ \A p \in 1 .. cookies[k].len : merged[p] = heap[cookies[k].arr][p]
    BY <1>1, MergedType DEF e
  <2> QED
    BY <2>1, <2>2
<1>6. /\ \/ config.skipExisting /\ merged = e /\ UNCHANGED <<heap, cookies>>
         \/ StoreNew(k, merged)
         \/ config.skipExisting /\ StoreInPlace(k, merged)
      /\ UNCHANGED filtered
  BY DEF SetCookies, call
<1> HIDE DEF k, merged, e, new
<1>7. Len(merged) \in Nat /\ DOMAIN merged = 1 .. Len(merged)
  BY <1>5
<1>8. /\ heap \in Seq(Seq(Cookie)) /\ Len(heap) \in Nat
      /\ cookies \in [HostKey -> Slice] /\ filtered \in [Goroutine -> Slice]
  BY DEF TypeInv, TypeOK
<1>9. \A l \in HostKey : cookies[l].arr \in 0 .. Len(heap) /\ cookies[l].len \in Nat
  BY <1>8 DEF TypeInv, StoredWhole, Slice
<1>10. \A g \in Goroutine :
         /\ filtered[g].arr \in 0 .. Len(heap) /\ filtered[g].len \in Nat
         /\ filtered[g].arr = 0 => filtered[g].len = 0
  BY <1>8 DEF TypeInv, FilteredWithin, Slice
<1>11. CASE config.skipExisting /\ merged = e /\ UNCHANGED <<heap, cookies>>
  <2>1. Stored(k)' = ToSet(merged) /\ \A l \in HostKey : Stored(l)' = Stored(l)
    BY <1>4, <1>11 DEF Stored
  <2> QED
    BY <1>1, <1>2, <1>3, <1>5, <1>11, <2>1 DEF k, new
<1>12. CASE StoreNew(k, merged)
  <2>1. /\ heap' = Append(heap, merged)
        /\ cookies' = [cookies EXCEPT ![k] = [arr |-> Len(heap) + 1, len |-> Len(merged)]]
    BY <1>12 DEF StoreNew
  <2>2. /\ heap'[Len(heap) + 1] = merged
        /\ \A a \in 1 .. Len(heap) : heap'[a] = heap[a]
    BY <1>5, <1>8, <2>1
  <2>3. /\ cookies'[k].arr = Len(heap) + 1 /\ cookies'[k].len = Len(merged)
        /\ \A l \in HostKey : l # k => cookies'[l] = cookies[l]
    BY <1>1, <1>8, <2>1
  <2>4. Stored(k)' = ToSet(merged)
    BY <1>7, <2>2, <2>3 DEF Stored, ToSet
  <2>5. ASSUME NEW l \in HostKey, l # k
        PROVE  Stored(l)' = Stored(l)
    <3>1. CASE cookies[l].arr = 0
      <4>1. cookies[l].len = 0 /\ cookies'[l] = cookies[l]
        BY <2>3, <2>5, <3>1 DEF TypeInv, StoredWhole
      <4> QED
        BY <4>1 DEF Stored
    <3>2. CASE cookies[l].arr # 0
      BY <1>9, <2>2, <2>3, <2>5, <3>2 DEF Stored
    <3> QED
      BY <3>1, <3>2
  <2>6. ASSUME NEW g \in Goroutine, NEW p \in 1 .. filtered[g].len
        PROVE  heap'[filtered[g].arr][p] = heap[filtered[g].arr][p]
    BY <1>8, <1>10, <2>2
  <2> QED
    BY <1>1, <1>2, <1>3, <1>5, <2>4, <2>5, <2>6 DEF k, new
<1>13. CASE config.skipExisting /\ StoreInPlace(k, merged)
  <2>1. /\ heap' = [heap EXCEPT ![cookies[k].arr] = merged]
        /\ cookies' = [cookies EXCEPT ![k].len = Len(merged)]
        /\ cookies[k].arr \in 1 .. Len(heap)
        /\ cookies[k].len = Len(heap[cookies[k].arr])
    BY <1>1, <1>8, <1>9, <1>13 DEF StoreInPlace, TypeInv, StoredWhole
  <2>2. /\ heap'[cookies[k].arr] = merged
        /\ \A a \in 1 .. Len(heap) : a # cookies[k].arr => heap'[a] = heap[a]
    BY <1>8, <2>1
  <2>3. /\ cookies'[k].arr = cookies[k].arr /\ cookies'[k].len = Len(merged)
        /\ \A l \in HostKey : l # k => cookies'[l] = cookies[l]
    BY <1>1, <1>8, <2>1 DEF Slice
  <2>4. Stored(k)' = ToSet(merged)
    BY <1>7, <2>2, <2>3 DEF Stored, ToSet
  <2>5. ASSUME NEW l \in HostKey, l # k
        PROVE  Stored(l)' = Stored(l)
    <3>1. CASE cookies[l].arr = 0
      <4>1. cookies[l].len = 0 /\ cookies'[l] = cookies[l]
        BY <2>3, <2>5, <3>1 DEF TypeInv, StoredWhole
      <4> QED
        BY <4>1 DEF Stored
    <3>2. CASE cookies[l].arr # 0
      <4>1. cookies[l].arr # cookies[k].arr
        BY <1>1, <2>5, <3>2 DEF TypeInv, StoredWhole
      <4> QED
        BY <1>9, <2>2, <2>3, <2>5, <3>2, <4>1 DEF Stored
    <3> QED
      BY <3>1, <3>2
  <2>6. ASSUME NEW g \in Goroutine, NEW p \in 1 .. filtered[g].len
        PROVE  heap'[filtered[g].arr][p] = heap[filtered[g].arr][p]
    <3>1. filtered[g].arr \in 1 .. Len(heap)
      BY <1>8, <1>10
    <3>2. CASE filtered[g].arr = cookies[k].arr
      <4>1. p \in 1 .. cookies[k].len
        <5>1. filtered[g].len <= cookies[k].len
          BY <2>1, <3>1, <3>2 DEF TypeInv, FilteredWithin
        <5>2. filtered[g].len \in Nat /\ cookies[k].len \in Nat
          BY <1>1, <1>9, <1>10
        <5> QED
          BY <5>1, <5>2
      <4> QED
        BY <1>5, <1>13, <2>2, <3>2, <4>1
    <3>3. CASE filtered[g].arr # cookies[k].arr
      BY <2>2, <3>1, <3>3
    <3> QED
      BY <3>2, <3>3
  <2> QED
    BY <1>1, <1>2, <1>3, <1>5, <2>4, <2>5, <2>6 DEF k, new
<1> QED
  BY <1>6, <1>11, <1>12, <1>13

\* A filter writes one alive cookie into the array it reads, before where it is.
LEMMA FilterKeepWrites ==
  ASSUME TypeInv, NEW g \in Goroutine, FilterKeep(g)
  PROVE  /\ key[g] \in HostKey /\ slice[g] = cookies[key[g]]
         /\ slice[g].arr \in 1 .. Len(heap)
         /\ w[g] \in Nat /\ i[g] \in Nat /\ slice[g].len \in Nat
         /\ w[g] < i[g] /\ i[g] <= slice[g].len /\ slice[g].len = Len(heap[slice[g].arr])
         /\ cookie[g] \in Cookie /\ ~cookie[g].deleted
         /\ \A a \in 1 .. Len(heap) : a # slice[g].arr => heap'[a] = heap[a]
         /\ \A p \in 1 .. slice[g].len :
              heap'[slice[g].arr][p] = IF p = w[g] + 1 THEN cookie[g] ELSE At(g, p)
         /\ \A l \in HostKey : l # key[g] => Stored(l)' = Stored(l)
<1> DEFINE a == slice[g].arr
<1>1. /\ pc[g] = "keep" /\ key[g] \in HostKey /\ slice[g] = cookies[key[g]]
      /\ w[g] < i[g] /\ cookie[g] \in Cookie /\ ~cookie[g].deleted
  BY DEF FilterKeep, TypeInv, ReadsStored
<1>2. /\ w[g] \in Nat /\ i[g] \in Nat /\ i[g] <= slice[g].len /\ slice[g].len \in Nat
      /\ heap \in Seq(Seq(Cookie)) /\ Len(heap) \in Nat
  BY DEF TypeInv, TypeOK, Slice
<1>3. a \in 1 .. Len(heap) /\ slice[g].len = Len(heap[a]) /\ heap[a] \in Seq(Cookie)
  BY <1>1, <1>2 DEF TypeInv, StoredWhole
<1>4. heap' = [heap EXCEPT ![a] = [heap[a] EXCEPT ![w[g] + 1] = cookie[g]]] /\ cookies' = cookies
  BY DEF FilterKeep
<1>5. /\ \A b \in 1 .. Len(heap) : b # a => heap'[b] = heap[b]
      /\ \A p \in 1 .. Len(heap[a]) :
           heap'[a][p] = IF p = w[g] + 1 THEN cookie[g] ELSE heap[a][p]
  BY <1>2, <1>3, <1>4
<1>6. ASSUME NEW l \in HostKey, l # key[g]
      PROVE  Stored(l)' = Stored(l)
  <2>1. /\ cookies[l].arr \in 0 .. Len(heap)
        /\ cookies[l].arr = 0 => cookies[l].len = 0
        /\ cookies[l].arr # a
    BY <1>1, <1>3, <1>6 DEF TypeInv, StoredWhole
  <2>2. CASE cookies[l].arr = 0
    BY <1>4, <2>1, <2>2 DEF Stored
  <2>3. CASE cookies[l].arr # 0
    <3>1. heap'[cookies[l].arr] = heap[cookies[l].arr]
      BY <1>2, <1>5, <2>1, <2>3
    <3> QED
      BY <1>4, <3>1 DEF Stored
  <2> QED
    BY <2>2, <2>3
<1> QED
  BY <1>1, <1>2, <1>3, <1>5, <1>6 DEF At

-----------------------------------------------------------------------------
(***************************************************************************)
(* What Cookies returns never shows a deleted cookie.                      *)
(***************************************************************************)
LEMMA KeptAliveStep ==
  ASSUME TypeInv, KeptAlive, [Next]_vars
  PROVE  KeptAlive'
<1>1. \A x \in Goroutine :
        /\ filtered[x].arr \in 0 .. Len(heap) /\ filtered[x].len \in Nat
        /\ filtered[x].arr = 0 => filtered[x].len = 0
        /\ filtered[x].arr # 0 => filtered[x].len <= Len(heap[filtered[x].arr])
        /\ w[x] \in Nat /\ i[x] \in Nat /\ slice[x].len \in Nat
        /\ w[x] <= i[x] /\ i[x] <= slice[x].len
  BY DEF TypeInv, TypeOK, FilteredWithin, Slice
<1>2. CASE \E h \in Host, given \in Given : SetCookies(h, given)
  <2>1. PICK h \in Host, given \in Given : SetCookies(h, given)
    BY <1>2
  <2>2. /\ \A g \in Goroutine : pc'[g] = "idle"
        /\ \A g \in Goroutine : \A p \in 1 .. filtered[g].len :
             heap'[filtered[g].arr][p] = heap[filtered[g].arr][p]
        /\ UNCHANGED filtered
    BY <2>1, SetCookiesStores DEF SetCookies, call
  <2> QED
    BY <2>2 DEF KeptAlive, Filtering
<1>3. ASSUME NEW g \in Goroutine, NEW h \in Host, NEW l, NEW n, RLock(g, h, l, n)
      PROVE  KeptAlive'
  <2>1. w'[g] = 0 /\ filtered'[g].len = 0
    BY <1>3 DEF RLock, TypeInv, TypeOK, ReadsStored, Nil
  <2>2. ASSUME NEW x \in Goroutine, x # g
        PROVE  /\ filtered'[x] = filtered[x] /\ w'[x] = w[x] /\ slice'[x] = slice[x]
               /\ Filtering(x)' => Filtering(x)
    BY <1>3, <2>2 DEF RLock, TypeInv, TypeOK, Filtering
  <2>3. heap' = heap
    BY <1>3 DEF RLock
  <2> QED
    BY <2>1, <2>2, <2>3 DEF KeptAlive
<1>4. ASSUME NEW g \in Goroutine, FilterRead(g)
      PROVE  KeptAlive'
  BY <1>4 DEF FilterRead, KeptAlive, Filtering, TypeInv, TypeOK
<1>5. ASSUME NEW g \in Goroutine, FilterKeep(g)
      PROVE  KeptAlive'
  <2>1. /\ slice[g].arr \in 1 .. Len(heap) /\ slice[g].len = Len(heap[slice[g].arr])
        /\ ~cookie[g].deleted
        /\ \A a \in 1 .. Len(heap) : a # slice[g].arr => heap'[a] = heap[a]
        /\ \A p \in 1 .. slice[g].len :
             heap'[slice[g].arr][p] = IF p = w[g] + 1 THEN cookie[g] ELSE At(g, p)
    BY <1>5, FilterKeepWrites
  <2>2. ASSUME NEW a \in 1 .. Len(heap), NEW p \in 1 .. Len(heap[a]), ~heap[a][p].deleted
        PROVE  ~heap'[a][p].deleted
    BY <2>1, <2>2 DEF At
  <2>3. ASSUME NEW x \in Goroutine, NEW p \in 1 .. filtered'[x].len
        PROVE  ~heap'[filtered'[x].arr][p].deleted
    <3>1. filtered'[x] = filtered[x] /\ p \in 1 .. filtered[x].len
      BY <1>5, <2>3 DEF FilterKeep
    <3>2. filtered[x].arr \in 1 .. Len(heap) /\ filtered[x].len <= Len(heap[filtered[x].arr])
      BY <1>1, <3>1
    <3>3. heap \in Seq(Seq(Cookie))
      BY DEF TypeInv, TypeOK
    <3>4. Len(heap[filtered[x].arr]) \in Nat
      BY <3>2, <3>3
    <3>5. p \in 1 .. Len(heap[filtered[x].arr])
      BY <1>1, <3>1, <3>2, <3>4
    <3> QED
      BY <2>2, <3>1, <3>2, <3>5 DEF KeptAlive
  <2>4. ASSUME NEW x \in Goroutine, Filtering(x)', NEW p \in 1 .. w'[x]
        PROVE  ~heap'[slice'[x].arr][p].deleted
    <3>1. slice'[x] = slice[x] /\ Filtering(x)
      BY <1>5, <2>4 DEF FilterKeep, Filtering, TypeInv, TypeOK
    <3>2. x = g => w'[x] = w[x] + 1
      BY <1>5 DEF FilterKeep, TypeInv, TypeOK
    <3>3. x # g => w'[x] = w[x]
      BY <1>5 DEF FilterKeep, TypeInv, TypeOK
    <3>4. CASE p \in 1 .. w[x]
      <4>1. key[x] \in HostKey /\ slice[x] = cookies[key[x]]
        BY <3>1 DEF TypeInv, ReadsStored, Filtering
      <4>2. slice[x].arr # 0
        BY <1>1, <3>4, <4>1 DEF TypeInv, StoredWhole
      <4>3. slice[x].arr \in 1 .. Len(heap) /\ slice[x].len = Len(heap[slice[x].arr])
        BY <4>1, <4>2 DEF TypeInv, StoredWhole
      <4>4. p \in 1 .. Len(heap[slice[x].arr])
        BY <1>1, <3>4, <4>3
      <4>5. ~heap[slice[x].arr][p].deleted
        BY <3>1, <3>4 DEF KeptAlive
      <4> QED
        BY <2>2, <3>1, <4>3, <4>4, <4>5
    <3>5. CASE p \notin 1 .. w[x]
      <4>1. x = g /\ p = w[g] + 1
        BY <1>1, <2>4, <3>2, <3>3, <3>5
      <4>2. p \in 1 .. slice[g].len
        BY <1>1, <1>5, <4>1, FilterKeepWrites
      <4> QED
        BY <2>1, <3>1, <4>1, <4>2
    <3> QED
      BY <3>4, <3>5
  <2> QED
    BY <2>3, <2>4 DEF KeptAlive
<1>6. ASSUME NEW g \in Goroutine, FilterReturn(g)
      PROVE  KeptAlive'
  <2>1. /\ filtered'[g] = [arr |-> slice[g].arr, len |-> w[g]]
        /\ \A x \in Goroutine : x # g => filtered'[x] = filtered[x]
        /\ Filtering(g) /\ ~Filtering(g)'
        /\ \A x \in Goroutine : x # g =>
             w'[x] = w[x] /\ slice'[x] = slice[x] /\ (Filtering(x)' => Filtering(x))
        /\ heap' = heap
    BY <1>6 DEF FilterReturn, RUnlock, TypeInv, TypeOK, Filtering
  <2> QED
    BY <2>1 DEF KeptAlive
<1>7. ASSUME NEW g \in Goroutine, ScanHit(g) \/ ScanReturn(g)
      PROVE  KeptAlive'
  <2>1. /\ filtered' = filtered /\ heap' = heap /\ ~Filtering(g)'
        /\ \A x \in Goroutine : x # g =>
             w'[x] = w[x] /\ slice'[x] = slice[x] /\ (Filtering(x)' => Filtering(x))
    BY <1>7 DEF ScanHit, ScanReturn, RUnlock, TypeInv, TypeOK, Filtering
  <2> QED
    BY <2>1 DEF KeptAlive
<1>8. ASSUME NEW g \in Goroutine, ScanMiss(g)
      PROVE  KeptAlive'
  BY <1>8 DEF ScanMiss, KeptAlive, Filtering
<1>9. CASE UNCHANGED vars
  BY <1>9 DEF vars, call, reading, KeptAlive, Filtering
<1> QED
  BY <1>2, <1>3, <1>4, <1>5, <1>6, <1>7, <1>8, <1>9 DEF Next, Cookies, CookieOfName

\* No slice Cookies returned ever shows a deleted cookie (MaxAge below 0, jar.go
\* 226-245), though any number of filters and scans share its array: every write
\* is of a cookie that is not.  Cookies past their Expires are shown.
THEOREM NothingDeletedIsShown == Spec => []DeletedNeverShown
<1>1. Init => KeptAlive
  BY DEF Init, KeptAlive, Nil, Filtering
<1>2. TypeInv /\ KeptAlive => DeletedNeverShown
  <2> SUFFICES ASSUME TypeInv, KeptAlive, NEW g \in Goroutine
               PROVE  \A c \in ToSet(Contents(filtered[g])) : ~c.deleted
    BY DEF DeletedNeverShown
  <2>1. TypeOK /\ filtered[g] \in Slice
    BY DEF TypeInv, TypeOK
  <2>2. ToSet(Contents(filtered[g])) =
          {heap[filtered[g].arr][p] : p \in 1 .. filtered[g].len}
    BY <2>1, SliceElements DEF TypeInv, FilteredWithin
  <2> QED
    BY <2>2 DEF KeptAlive
<1>3. TypeInv /\ KeptAlive /\ [Next]_vars => KeptAlive'
  BY KeptAliveStep
<1> QED
  BY <1>1, <1>2, <1>3, InitType, TypeStep, PTL DEF Spec

-----------------------------------------------------------------------------
(***************************************************************************)
(* One alive cookie of a name.                                             *)
(***************************************************************************)
\* What readers do to the alive cookies of the host keys, those they are about to
\* write included: nothing, or one is overwritten and lost.
LEMMA KnownStep ==
  ASSUME TypeInv, [Next]_vars, ~ \E h \in Host, given \in Given : SetCookies(h, given)
  PROVE  \/ \A k \in HostKey : Known(k)' = Known(k)
         \/ \E k \in HostKey : \E c \in Known(k) :
              /\ Known(k)' = Known(k) \ {c}
              /\ \A l \in HostKey : l # k => Known(l)' = Known(l)
<1>1. TypeInv'
  BY TypeStep
<1>2. \A k \in HostKey : /\ AliveAt(k) = {c \in Stored(k) : ~c.deleted}
                         /\ AliveAt(k)' = {c \in Stored(k)' : ~c.deleted}
  BY <1>1, AliveIs, AliveIsNext
<1> DEFINE Same == \A k \in HostKey : Known(k)' = Known(k)
           Lost == \E k \in HostKey : \E c \in Known(k) :
                     /\ Known(k)' = Known(k) \ {c}
                     /\ \A l \in HostKey : l # k => Known(l)' = Known(l)
<1>3. ASSUME UNCHANGED <<heap, cookies>>,
             \A g \in Goroutine : pc'[g] = "keep" <=> pc[g] = "keep",
             \A g \in Goroutine : pc[g] = "keep" => key'[g] = key[g] /\ cookie'[g] = cookie[g]
      PROVE  Same
  <2>1. \A k \in HostKey : Stored(k)' = Stored(k)
    BY <1>3 DEF Stored
  <2>2. \A k \in HostKey : AliveAt(k)' = AliveAt(k)
    BY <1>2, <2>1
  <2> QED
    BY <1>3, <2>2 DEF Known
<1> HIDE DEF Same
<1>4. ASSUME NEW g \in Goroutine,
             \/ \E h \in Host : Cookies(g, h)
             \/ \E h \in Host, n \in Name : CookieOfName(g, h, n)
      PROVE  Same
  BY <1>3, <1>4 DEF Cookies, CookieOfName, RLock, TypeInv, TypeOK
<1>5. ASSUME NEW g \in Goroutine, FilterRead(g)
      PROVE  Same
  <2>1. /\ key[g] \in HostKey /\ slice[g] = cookies[key[g]]
        /\ i[g] + 1 \in 1 .. slice[g].len /\ Element(g) = At(g, i[g] + 1)
    BY <1>5, ElementType DEF FilterRead
  <2>2. /\ UNCHANGED <<heap, cookies, key>> /\ pc[g] = "filter"
        /\ \A x \in Goroutine : x # g => pc'[x] = pc[x] /\ cookie'[x] = cookie[x]
        /\ pc'[g] = IF Element(g).deleted THEN "filter" ELSE "keep"
        /\ cookie'[g] = Element(g)
    BY <1>5 DEF FilterRead, TypeInv, TypeOK
  <2>3. CASE Element(g).deleted
    BY <1>3, <2>2, <2>3
  <2>4. CASE ~Element(g).deleted
    <3>1. Element(g) \in AliveAt(key[g])
      BY <1>2, <2>1, <2>4 DEF Stored, At
    <3>2. \A k \in HostKey : AliveAt(k)' = AliveAt(k)
      <4>1. \A k \in HostKey : Stored(k)' = Stored(k)
        BY <2>2 DEF Stored
      <4> QED
        BY <1>2, <4>1
    <3> QED
      BY <2>2, <2>4, <3>1, <3>2 DEF Known, Same
  <2> QED
    BY <2>3, <2>4
<1>6. ASSUME NEW g \in Goroutine, FilterKeep(g)
      PROVE  Same \/ Lost
  <2>1. /\ key[g] \in HostKey /\ slice[g] = cookies[key[g]]
        /\ w[g] \in Nat /\ i[g] \in Nat /\ slice[g].len \in Nat
        /\ w[g] < i[g] /\ i[g] <= slice[g].len /\ ~cookie[g].deleted
        /\ \A p \in 1 .. slice[g].len :
             heap'[slice[g].arr][p] = IF p = w[g] + 1 THEN cookie[g] ELSE At(g, p)
        /\ \A l \in HostKey : l # key[g] => Stored(l)' = Stored(l)
    BY <1>6, FilterKeepWrites
  <2>2. /\ pc[g] = "keep" /\ pc'[g] # "keep" /\ UNCHANGED <<cookies, key, cookie>>
        /\ \A x \in Goroutine : x # g => pc'[x] = pc[x]
    BY <1>6 DEF FilterKeep, TypeInv, TypeOK
  <2> DEFINE d == At(g, w[g] + 1)
  <2>3. w[g] + 1 \in 1 .. slice[g].len
    BY <2>1
  <2>4. \A k \in HostKey : k = key[g] =>
          /\ Stored(k)' \subseteq Stored(k) \cup {cookie[g]}
          /\ Stored(k) \subseteq Stored(k)' \cup {d}
          /\ cookie[g] \in Stored(k)'
    <3>1. \A k \in HostKey : k = key[g] =>
            /\ Stored(k) = {At(g, p) : p \in 1 .. slice[g].len}
            /\ Stored(k)' = {heap'[slice[g].arr][p] : p \in 1 .. slice[g].len}
      BY <2>1, <2>2 DEF Stored, At
    <3> QED
      BY <2>1, <2>3, <3>1
  <2> HIDE DEF d
  <2>5. \A l \in HostKey : l # key[g] => Known(l)' = Known(l)
    <3>1. \A l \in HostKey : l # key[g] => AliveAt(l)' = AliveAt(l)
      BY <1>2, <2>1
    <3> QED
      BY <2>2, <3>1 DEF Known
  <2>6. \A k \in HostKey : k = key[g] =>
          /\ AliveAt(k)' \subseteq AliveAt(k) \cup {cookie[g]}
          /\ AliveAt(k) \subseteq AliveAt(k)' \cup {d}
          /\ cookie[g] \in AliveAt(k)'
    BY <1>2, <2>1, <2>4
  <2>7. \A k \in HostKey : k = key[g] =>
          Known(k)' \subseteq Known(k) /\ Known(k) \subseteq Known(k)' \cup {d}
    BY <2>2, <2>6 DEF Known
  <2>8. CASE \A k \in HostKey : k = key[g] => d \in Known(k)' \/ d \notin Known(k)
    <3>1. \A k \in HostKey : Known(k)' = Known(k)
      BY <2>5, <2>7, <2>8
    <3> QED
      BY <3>1 DEF Same
  <2>9. CASE \E k \in HostKey : k = key[g] /\ d \notin Known(k)' /\ d \in Known(k)
    <3>1. PICK k \in HostKey : k = key[g] /\ d \notin Known(k)' /\ d \in Known(k)
      BY <2>9
    <3>2. Known(k)' = Known(k) \ {d}
      BY <2>7, <3>1
    <3> QED
      BY <2>5, <3>1, <3>2
  <2> QED
    BY <2>8, <2>9
<1>7. ASSUME NEW g \in Goroutine, FilterReturn(g) \/ ScanHit(g) \/ ScanReturn(g)
      PROVE  Same
  <2>1. RUnlock(g) /\ pc[g] # "keep"
    BY <1>7 DEF FilterReturn, ScanHit, ScanReturn
  <2> QED
    BY <1>3, <2>1 DEF RUnlock, TypeInv, TypeOK
<1>8. ASSUME NEW g \in Goroutine, ScanMiss(g)
      PROVE  Same
  BY <1>3, <1>8 DEF ScanMiss
<1>9. ASSUME UNCHANGED vars
      PROVE  Same
  <2>1. UNCHANGED <<heap, cookies, pc, key, cookie>>
    BY <1>9 DEF vars, call, reading
  <2> QED
    BY <1>3, <2>1
<1>10. Same \/ Lost
  <2> HIDE DEF Lost
  <2> QED
    BY <1>4, <1>5, <1>6, <1>7, <1>8, <1>9 DEF Next
<1> QED
  BY <1>10 DEF Same

LEMMA KnownOnceStep ==
  ASSUME TypeInv, KnownOnce, [Next]_vars
  PROVE  KnownOnce'
<1>1. TypeInv'
  BY TypeStep
<1>2. \A k \in HostKey : /\ AliveAt(k) = {c \in Stored(k) : ~c.deleted}
                         /\ AliveAt(k)' = {c \in Stored(k)' : ~c.deleted}
  BY <1>1, AliveIs, AliveIsNext
<1>3. CASE \E h \in Host, given \in Given : SetCookies(h, given)
  <2>1. PICK h \in Host, given \in Given : SetCookies(h, given)
    BY <1>3
  <2> DEFINE k == BuildCookieHostKey(h)
             new == Store!LastOf(given)
  <2>2. /\ k \in HostKey
        /\ \A g \in Goroutine : pc[g] = "idle" /\ pc'[g] = "idle"
        /\ OneOfAName(new)
        /\ config.skipExisting =>
             Stored(k)' = Stored(k) \cup {c \in new : \A d \in Stored(k) : d.name # c.name}
        /\ ~config.skipExisting =>
             Stored(k)' = {c \in Stored(k) : \A d \in new : d.name # c.name} \cup new
        /\ \A l \in HostKey : l # k => Stored(l)' = Stored(l)
    BY <2>1, SetCookiesStores
  <2> HIDE DEF k, new
  <2>3. \A l \in HostKey : Known(l)' = AliveAt(l)' /\ AliveAt(l) \subseteq Known(l)
    BY <2>2 DEF Known
  <2>4. \A l \in HostKey : \A c, d \in {x \in Stored(l) : ~x.deleted} : c.name = d.name => c = d
    BY <1>2, <2>3 DEF KnownOnce
  <2>5. \A c, d \in {x \in Stored(k)' : ~x.deleted} : c.name = d.name => c = d
    <3>1. CASE config.skipExisting
      BY <2>2, <2>4, <3>1 DEF OneOfAName
    <3>2. CASE ~config.skipExisting
      BY <2>2, <2>4, <3>2 DEF OneOfAName
    <3> QED
      BY <3>1, <3>2
  <2>6. \A l \in HostKey : \A c, d \in Known(l)' : c.name = d.name => c = d
    BY <1>2, <2>2, <2>3, <2>4, <2>5
  <2> QED
    BY <2>6 DEF KnownOnce
<1>4. CASE ~ \E h \in Host, given \in Given : SetCookies(h, given)
  <2>1. \A k \in HostKey : Known(k)' \subseteq Known(k)
    BY <1>4, KnownStep
  <2> QED
    BY <2>1 DEF KnownOnce
<1> QED
  BY <1>3, <1>4

\* However many goroutines filter the arrays, a host key has one alive cookie of
\* a name: what filters hold and are yet to write counts as stored.
LEMMA KnownOnceInvariant == Spec => []KnownOnce
<1>1. Init => KnownOnce
  BY DEF Init, KnownOnce, Known, AliveAt, Contents, Nil, ToSet
<1>2. TypeInv /\ KnownOnce /\ [Next]_vars => KnownOnce'
  BY KnownOnceStep
<1> QED
  BY <1>1, <1>2, InitType, TypeStep, PTL DEF Spec

\* A host key stores at most one alive cookie of a name.
THEOREM NamesAreUnique == Spec => []OneCookiePerName
<1>1. KnownOnce => OneCookiePerName
  BY DEF KnownOnce, Known, OneCookiePerName
<1> QED
  BY <1>1, KnownOnceInvariant, PTL

-----------------------------------------------------------------------------
(***************************************************************************)
(* What Cookies and Cookie return, where no one else reads the cookies of a *)
(* host key while they are filtered.                                       *)
(***************************************************************************)
\* A filter changes nothing that a reader of another array looks at.
LEMMA OtherArrays ==
  ASSUME TypeInv, FiltersAlone, NEW g \in Goroutine, FilterKeep(g),
         NEW x \in Goroutine, x # g, pc[x] # "idle", NEW p \in 1 .. slice[x].len
  PROVE  At(x, p)' = At(x, p)
<1>1. /\ key[g] \in HostKey /\ slice[g] = cookies[key[g]] /\ slice[g].arr \in 1 .. Len(heap)
      /\ \A a \in 1 .. Len(heap) : a # slice[g].arr => heap'[a] = heap[a]
  BY FilterKeepWrites
<1>2. key[x] \in HostKey /\ slice[x] = cookies[key[x]] /\ key[x] # key[g]
  BY DEF TypeInv, ReadsStored, FiltersAlone, FilterKeep, Filtering
<1>3. slice[x].len \in Nat
  BY DEF TypeInv, TypeOK, Slice
<1>4. slice[x].arr \in 1 .. Len(heap) /\ slice[x].arr # slice[g].arr
  BY <1>1, <1>2, <1>3 DEF TypeInv, StoredWhole
<1>5. slice'[x] = slice[x]
  BY DEF FilterKeep
<1> QED
  BY <1>1, <1>4, <1>5 DEF At

LEMMA FilterInvStep ==
  ASSUME TypeInv, FilterInv, FiltersAlone, [Next]_vars
  PROVE  FilterInv'
<1> DEFINE Same(x) ==
      /\ pc'[x] = pc[x] /\ i'[x] = i[x] /\ w'[x] = w[x] /\ cookie'[x] = cookie[x]
      /\ slice'[x] = slice[x]
           Inv(x) == Filtering(x) =>
      /\ \A p \in 1 .. i[x] : At(x, p).deleted \/ At(x, p) \in Kept(x)
      /\ pc[x] = "keep" => cookie[x] = At(x, i[x])
<1>1. \A x \in Goroutine :
        /\ w[x] \in Nat /\ i[x] \in Nat /\ slice[x].len \in Nat
        /\ w[x] <= i[x] /\ i[x] <= slice[x].len
        /\ pc[x] = "keep" => w[x] < i[x]
  BY DEF TypeInv, TypeOK, ReadsStored, Slice
<1>2. \A x \in Goroutine : Inv(x)
  BY DEF FilterInv
<1>3. SUFFICES \A x \in Goroutine : Inv(x)'
  BY DEF FilterInv
<1>4. ASSUME NEW x \in Goroutine, Same(x), \A p \in 1 .. slice[x].len : At(x, p)' = At(x, p)
      PROVE  Inv(x)'
  <2>1. ASSUME Filtering(x)'
        PROVE  /\ \A p \in 1 .. i[x] : At(x, p)' = At(x, p)
               /\ Kept(x)' = Kept(x)
    BY <1>1, <1>4 DEF Kept
  <2>2. Filtering(x)' => Filtering(x)
    BY <1>4 DEF Filtering
  <2>3. pc[x] = "keep" => i[x] \in 1 .. i[x]
    BY <1>1
  <2>4. \A p \in Nat : At(x, p)' = heap'[slice[x].arr][p]
    BY <1>4 DEF At
  <2>5. pc[x] = "keep" => At(x, i[x])' = heap'[slice[x].arr][i[x]]
    BY <1>1, <1>4 DEF At
  <2>6. Filtering(x)' => \A p \in 1 .. i'[x] : At(x, p).deleted' \/ At(x, p)' \in Kept(x)'
    BY <1>2, <1>4, <2>1, <2>2
  <2>7. pc'[x] = "keep" => cookie'[x] = At(x, i[x])'
    BY <1>1, <1>2, <1>4, <2>1, <2>2, <2>3, <2>4, <2>5 DEF Filtering
  <2> QED
    BY <2>6, <2>7
<1>5. CASE \E h \in Host, given \in Given : SetCookies(h, given)
  <2>1. \A g \in Goroutine : pc'[g] = "idle"
    BY <1>5, SetCookiesStores
  <2> QED
    BY <2>1 DEF Filtering
<1>6. ASSUME NEW g \in Goroutine, heap' = heap, Inv(g)', \A x \in Goroutine : x # g => Same(x)
      PROVE  \A x \in Goroutine : Inv(x)'
  BY <1>4, <1>6 DEF At
<1>7. ASSUME NEW g \in Goroutine, NEW h \in Host, NEW l \in {"filter", "scan"}, NEW n,
             RLock(g, h, l, n)
      PROVE  \A x \in Goroutine : Inv(x)'
  <2>1. i'[g] = 0 /\ pc'[g] # "keep"
    BY <1>7 DEF RLock, TypeInv, TypeOK, ReadsStored
  <2>2. Inv(g)'
    BY <2>1
  <2>3. heap' = heap /\ \A x \in Goroutine : x # g => Same(x)
    BY <1>7 DEF RLock, TypeInv, TypeOK
  <2> QED
    BY <1>6, <2>2, <2>3
<1>8. ASSUME NEW g \in Goroutine, FilterRead(g)
      PROVE  \A x \in Goroutine : Inv(x)'
  <2>1. /\ pc[g] = "filter" /\ Element(g) = At(g, i[g] + 1)
        /\ i'[g] = i[g] + 1 /\ cookie'[g] = At(g, i[g] + 1)
        /\ pc'[g] = IF At(g, i[g] + 1).deleted THEN "filter" ELSE "keep"
        /\ UNCHANGED <<heap, slice, w>>
    BY <1>8, ElementType DEF FilterRead, TypeInv, TypeOK
  <2>2. \A p : At(g, p)' = At(g, p)
    BY <2>1 DEF At
  <2>3. Kept(g) \subseteq Kept(g)' /\ (pc'[g] = "keep" => cookie'[g] \in Kept(g)')
    BY <2>1, <2>2 DEF Kept
  <2>4. ASSUME NEW p \in 1 .. i'[g]
        PROVE  At(g, p).deleted \/ At(g, p) \in Kept(g)'
    <3>1. CASE p \in 1 .. i[g]
      BY <1>2, <2>1, <2>3, <3>1 DEF Filtering
    <3>2. CASE p \notin 1 .. i[g]
      <4>1. p = i[g] + 1
        BY <1>1, <2>1, <3>2
      <4> QED
        BY <2>1, <2>3, <4>1
    <3> QED
      BY <3>1, <3>2
  <2>5. Inv(g)'
    BY <2>1, <2>2, <2>4
  <2>6. heap' = heap /\ \A x \in Goroutine : x # g => Same(x)
    BY <1>8 DEF FilterRead, TypeInv, TypeOK
  <2> QED
    BY <1>6, <2>5, <2>6
<1>9. ASSUME NEW g \in Goroutine, FilterKeep(g)
      PROVE  \A x \in Goroutine : Inv(x)'
  <2>1. /\ pc[g] = "keep" /\ pc'[g] = "filter" /\ w'[g] = w[g] + 1
        /\ UNCHANGED <<slice, i, cookie>>
    BY <1>9 DEF FilterKeep, TypeInv, TypeOK
  <2>2. \A p \in 1 .. slice[g].len :
          At(g, p)' = IF p = w[g] + 1 THEN cookie[g] ELSE At(g, p)
    BY <1>9, <2>1, FilterKeepWrites DEF At
  <2>3. cookie[g] \in Kept(g)' /\ \A q \in 1 .. w[g] : At(g, q) \in Kept(g)'
    <3>1. w[g] + 1 \in 1 .. slice[g].len /\ w[g] + 1 \in 1 .. w'[g]
      BY <1>1, <2>1
    <3>2. heap'[slice'[g].arr][w[g] + 1] = cookie[g]
      BY <1>9, <2>1, <3>1, FilterKeepWrites
    <3>3. ASSUME NEW q \in 1 .. w[g]
          PROVE  At(g, q)' = At(g, q) /\ q \in 1 .. w'[g]
      BY <1>1, <2>1, <2>2
    <3>4. \A q \in 1 .. w'[g] : heap'[slice'[g].arr][q] \in Kept(g)'
      BY DEF Kept, At
    <3> QED
      BY <3>1, <3>2, <3>3, <3>4 DEF At
  <2>4. ASSUME NEW p \in 1 .. i[g]
        PROVE  At(g, p)'.deleted \/ At(g, p)' \in Kept(g)'
    <3>1. CASE p = w[g] + 1
      BY <1>1, <2>2, <2>3, <3>1
    <3>2. CASE p # w[g] + 1
      <4>1. At(g, p)' = At(g, p)
        BY <1>1, <2>2, <3>2
      <4>2. At(g, p).deleted \/ At(g, p) \in Kept(g)
        BY <1>2, <2>1 DEF Filtering
      <4>3. Kept(g) \subseteq Kept(g)'
        BY <2>3 DEF Kept
      <4> QED
        BY <4>1, <4>2, <4>3
    <3> QED
      BY <3>1, <3>2
  <2>5. Inv(g)'
    BY <2>1, <2>4
  <2>6. ASSUME NEW x \in Goroutine, x # g
        PROVE  Inv(x)'
    <3>1. Same(x)
      BY <1>9, <2>6 DEF FilterKeep, TypeInv, TypeOK
    <3>2. CASE pc[x] = "idle"
      BY <3>1, <3>2 DEF Filtering
    <3>3. CASE pc[x] # "idle"
      BY <1>4, <1>9, <2>6, <3>1, <3>3, OtherArrays
    <3> QED
      BY <3>2, <3>3
  <2> QED
    BY <2>5, <2>6
<1>10. ASSUME NEW g \in Goroutine, FilterReturn(g) \/ ScanHit(g) \/ ScanReturn(g)
       PROVE  \A x \in Goroutine : Inv(x)'
  <2>1. RUnlock(g)
    BY <1>10 DEF FilterReturn, ScanHit, ScanReturn
  <2>2. heap' = heap /\ pc'[g] = "idle" /\ \A x \in Goroutine : x # g => Same(x)
    BY <2>1 DEF RUnlock, TypeInv, TypeOK
  <2>3. Inv(g)'
    BY <2>2 DEF Filtering
  <2> QED
    BY <1>6, <2>2, <2>3
<1>11. ASSUME NEW g \in Goroutine, ScanMiss(g)
       PROVE  \A x \in Goroutine : Inv(x)'
  <2>1. heap' = heap /\ pc'[g] = "scan" /\ \A x \in Goroutine : x # g => Same(x)
    BY <1>11 DEF ScanMiss, TypeInv, TypeOK
  <2>2. Inv(g)'
    BY <2>1 DEF Filtering
  <2> QED
    BY <1>6, <2>1, <2>2
<1>12. CASE UNCHANGED vars
  <2>1. heap' = heap /\ \A x \in Goroutine : Same(x)
    BY <1>12 DEF vars, call, reading
  <2> QED
    BY <1>4, <2>1 DEF At
<1> QED
  BY <1>5, <1>7, <1>8, <1>9, <1>10, <1>11, <1>12 DEF Next, Cookies, CookieOfName

LEMMA ScanInvStep ==
  ASSUME TypeInv, ScanInv, FiltersAlone, [Next]_vars
  PROVE  ScanInv'
<1> DEFINE Same(x) ==
      /\ pc'[x] = pc[x] /\ i'[x] = i[x] /\ slice'[x] = slice[x]
      /\ sought'[x] = sought[x] /\ found'[x] = found[x]
           Inv(x) == pc[x] = "scan" =>
      /\ found[x] = NoCookie
      /\ \A p \in 1 .. i[x] : At(x, p).name = sought[x] => At(x, p).deleted
<1>1. \A x \in Goroutine :
        i[x] \in Nat /\ slice[x].len \in Nat /\ i[x] <= slice[x].len
  BY DEF TypeInv, TypeOK, Slice
<1>2. \A x \in Goroutine : Inv(x)
  BY DEF ScanInv
<1>3. SUFFICES \A x \in Goroutine : Inv(x)'
  BY DEF ScanInv
<1>4. ASSUME NEW x \in Goroutine, Same(x), \A p \in 1 .. slice[x].len : At(x, p)' = At(x, p)
      PROVE  Inv(x)'
  <2>1. \A p \in 1 .. i[x] : At(x, p)' = At(x, p)
    BY <1>1, <1>4
  <2> QED
    BY <1>2, <1>4, <2>1
<1>5. ASSUME NEW g \in Goroutine, heap' = heap, Inv(g)', \A x \in Goroutine : x # g => Same(x)
      PROVE  \A x \in Goroutine : Inv(x)'
  BY <1>4, <1>5 DEF At
<1>6. CASE \E h \in Host, given \in Given : SetCookies(h, given)
  <2>1. \A g \in Goroutine : pc'[g] = "idle"
    BY <1>6, SetCookiesStores
  <2> QED
    BY <2>1
<1>7. ASSUME NEW g \in Goroutine, NEW h \in Host, NEW l, NEW n, RLock(g, h, l, n)
      PROVE  \A x \in Goroutine : Inv(x)'
  <2>1. i'[g] = 0 /\ found'[g] = NoCookie
    BY <1>7 DEF RLock, TypeInv, TypeOK, ReadsStored
  <2>2. heap' = heap /\ \A x \in Goroutine : x # g => Same(x)
    BY <1>7 DEF RLock, TypeInv, TypeOK
  <2>3. Inv(g)'
    BY <2>1
  <2> QED
    BY <1>5, <2>2, <2>3
<1>8. ASSUME NEW g \in Goroutine, FilterRead(g)
      PROVE  \A x \in Goroutine : Inv(x)'
  <2>1. pc'[g] # "scan" /\ heap' = heap /\ \A x \in Goroutine : x # g => Same(x)
    BY <1>8 DEF FilterRead, TypeInv, TypeOK
  <2>2. Inv(g)'
    BY <2>1
  <2> QED
    BY <1>5, <2>1, <2>2
<1>9. ASSUME NEW g \in Goroutine, FilterKeep(g)
      PROVE  \A x \in Goroutine : Inv(x)'
  <2>1. pc'[g] # "scan" /\ \A x \in Goroutine : x # g => Same(x)
    BY <1>9 DEF FilterKeep, TypeInv, TypeOK
  <2>2. Inv(g)'
    BY <2>1
  <2>3. ASSUME NEW x \in Goroutine, x # g
        PROVE  Inv(x)'
    <3>1. CASE pc[x] = "idle"
      BY <2>1, <2>3, <3>1
    <3>2. CASE pc[x] # "idle"
      BY <1>4, <1>9, <2>1, <2>3, <3>2, OtherArrays
    <3> QED
      BY <3>1, <3>2
  <2> QED
    BY <2>2, <2>3
<1>10. ASSUME NEW g \in Goroutine, FilterReturn(g) \/ ScanHit(g) \/ ScanReturn(g)
       PROVE  \A x \in Goroutine : Inv(x)'
  <2>1. /\ heap' = heap /\ pc'[g] = "idle"
        /\ \A x \in Goroutine : x # g => Same(x)
    BY <1>10 DEF FilterReturn, ScanHit, ScanReturn, RUnlock, TypeInv, TypeOK
  <2>2. Inv(g)'
    BY <2>1
  <2> QED
    BY <1>5, <2>1, <2>2
<1>11. ASSUME NEW g \in Goroutine, ScanMiss(g)
       PROVE  \A x \in Goroutine : Inv(x)'
  <2>1. /\ Element(g) = At(g, i[g] + 1) /\ i'[g] = i[g] + 1
        /\ At(g, i[g] + 1).name = sought[g] => At(g, i[g] + 1).deleted
        /\ UNCHANGED <<heap, slice, sought, found, pc>>
    BY <1>11, ElementType DEF ScanMiss, Matches, TypeInv, TypeOK
  <2>2. \A p : At(g, p)' = At(g, p)
    BY <2>1 DEF At
  <2>3. pc[g] = "scan" /\ Inv(g)
    BY <1>2, <1>11 DEF ScanMiss
  <2>4. ASSUME NEW p \in 1 .. i'[g]
        PROVE  At(g, p).name = sought[g] => At(g, p).deleted
    <3>1. p \in 1 .. i[g] \/ p = i[g] + 1
      BY <1>1, <2>1
    <3> QED
      BY <2>1, <2>3, <3>1
  <2>5. Inv(g)'
    BY <2>1, <2>2, <2>3, <2>4
  <2>6. \A x \in Goroutine : x # g => Same(x)
    BY <1>11 DEF ScanMiss, TypeInv, TypeOK
  <2> QED
    BY <1>5, <2>1, <2>5, <2>6
<1>12. CASE UNCHANGED vars
  <2>1. heap' = heap /\ \A x \in Goroutine : Same(x)
    BY <1>12 DEF vars, call, reading
  <2> QED
    BY <1>4, <2>1 DEF At
<1> QED
  BY <1>6, <1>7, <1>8, <1>9, <1>10, <1>11, <1>12 DEF Next, Cookies, CookieOfName

\* What the slices that Cookies returned show, before a step or after it.
Shown(g) == {heap[filtered[g].arr][p] : p \in 1 .. filtered[g].len}

LEMMA ShownIs ==
  TypeInv => \A g \in Goroutine : ToSet(Contents(filtered[g])) = Shown(g)
<1> SUFFICES ASSUME TypeInv, NEW g \in Goroutine
             PROVE  ToSet(Contents(filtered[g])) = Shown(g)
  OBVIOUS
<1>1. TypeOK /\ filtered[g] \in Slice
  BY DEF TypeInv, TypeOK
<1> QED
  BY <1>1, SliceElements DEF TypeInv, FilteredWithin, Shown

LEMMA ShownIsNext ==
  TypeInv' => \A g \in Goroutine : ToSet(Contents(filtered[g])') = Shown(g)'
<1>1. TypeInv' => (\A g \in Goroutine : ToSet(Contents(filtered[g])) = Shown(g))'
  BY ShownIs, PTL
<1> QED
  BY <1>1 DEF ToSet

\* A filter that returns has kept every alive cookie of its host key.
LEMMA FilterReturnsAlive ==
  ASSUME TypeInv, FilterInv, NEW g \in Goroutine, FilterReturn(g)
  PROVE  AliveAt(key[g]) \subseteq ToSet(Contents(filtered[g])')
<1>1. TypeInv'
  BY TypeStep DEF Next
<1>2. /\ pc[g] = "filter" /\ i[g] = slice[g].len /\ heap' = heap
      /\ filtered'[g] = [arr |-> slice[g].arr, len |-> w[g]]
      /\ key[g] \in HostKey /\ slice[g] = cookies[key[g]]
  BY DEF FilterReturn, RUnlock, TypeInv, TypeOK, ReadsStored
<1>3. Shown(g)' = {At(g, p) : p \in 1 .. w[g]}
  BY <1>2 DEF Shown, At
<1>4. ASSUME NEW c \in AliveAt(key[g])
      PROVE  c \in Shown(g)'
  <2>1. c \in Stored(key[g]) /\ ~c.deleted
    BY <1>2, <1>4, AliveIs
  <2>2. PICK p \in 1 .. i[g] : c = At(g, p)
    BY <1>2, <2>1 DEF Stored, At
  <2>3. At(g, p) \in Kept(g)
    BY <1>2, <2>1, <2>2 DEF FilterInv, Filtering
  <2> QED
    BY <1>2, <1>3, <2>2, <2>3 DEF Kept
<1> QED
  BY <1>1, <1>4, ShownIsNext

\* A step that ends a call of Cookies or Cookie is its return.
LEMMA CallsEnd ==
  ASSUME TypeInv, [Next]_vars, NEW g \in Goroutine, pc[g] # "idle", pc'[g] = "idle"
  PROVE  \/ pc[g] = "filter" /\ FilterReturn(g)
         \/ pc[g] = "scan" /\ (ScanHit(g) \/ ScanReturn(g))
<1>1. ASSUME NEW x \in Goroutine,
             \/ \E h \in Host : Cookies(x, h)
             \/ \E h \in Host, n \in Name : CookieOfName(x, h, n)
             \/ FilterRead(x) \/ FilterKeep(x) \/ ScanMiss(x)
      PROVE  FALSE
  BY <1>1 DEF Cookies, CookieOfName, RLock, FilterRead, FilterKeep, ScanMiss, TypeInv, TypeOK
<1>2. ASSUME NEW x \in Goroutine, FilterReturn(x) \/ ScanHit(x) \/ ScanReturn(x), x # g
      PROVE  FALSE
  BY <1>2 DEF FilterReturn, ScanHit, ScanReturn, RUnlock, TypeInv, TypeOK
<1>3. ASSUME NEW h \in Host, NEW given \in Given, SetCookies(h, given)
      PROVE  FALSE
  BY <1>3 DEF SetCookies, call
<1>4. CASE UNCHANGED vars
  BY <1>4 DEF vars, call
<1>5. FilterReturn(g) => pc[g] = "filter"
  BY DEF FilterReturn
<1>6. ScanHit(g) \/ ScanReturn(g) => pc[g] = "scan"
  BY DEF ScanHit, ScanReturn
<1> QED
  BY <1>1, <1>2, <1>3, <1>4, <1>5, <1>6 DEF Next

\* Where no one reads the cookies of a host key beside a filter of them, every
\* alive cookie is in the slice Cookies returns.
THEOREM AliveAreReturned == Spec /\ []FiltersAlone => AliveReturned
<1>1. Init => FilterInv
  BY DEF Init, FilterInv, Filtering
<1>2. TypeInv /\ FilterInv /\ FiltersAlone /\ [Next]_vars => FilterInv'
  BY FilterInvStep
<1>3. TypeInv /\ FilterInv /\ [Next]_vars =>
        [\A g \in Goroutine : pc[g] = "filter" /\ pc'[g] = "idle" =>
           AliveAt(key[g]) \subseteq ToSet(Contents(filtered[g])')]_vars
  <2> SUFFICES ASSUME TypeInv, FilterInv, [Next]_vars, NEW g \in Goroutine,
                      pc[g] = "filter", pc'[g] = "idle"
               PROVE  AliveAt(key[g]) \subseteq ToSet(Contents(filtered[g])')
    OBVIOUS
  <2>1. FilterReturn(g)
    BY CallsEnd
  <2> QED
    BY <2>1, FilterReturnsAlive
<1> QED
  BY <1>1, <1>2, <1>3, InitType, TypeStep, PTL DEF Spec, AliveReturned

\* There too Cookie returns the alive cookie of the name, or nil.
THEOREM ScansFind == Spec /\ []FiltersAlone => ScanFinds
<1>1. Init => ScanInv
  BY DEF Init, ScanInv
<1>2. TypeInv /\ ScanInv /\ FiltersAlone /\ [Next]_vars => ScanInv'
  BY ScanInvStep
<1>3. TypeInv /\ ScanInv /\ OneCookiePerName /\ [Next]_vars =>
        [\A g \in Goroutine : pc[g] = "scan" /\ pc'[g] = "idle" =>
           {c \in AliveAt(key[g]) : c.name = sought[g]} = {found'[g]} \ {NoCookie}]_vars
  <2> SUFFICES ASSUME TypeInv, ScanInv, OneCookiePerName, [Next]_vars, NEW g \in Goroutine,
                      pc[g] = "scan", pc'[g] = "idle"
               PROVE  {c \in AliveAt(key[g]) : c.name = sought[g]} = {found'[g]} \ {NoCookie}
    OBVIOUS
  <2>1. ScanHit(g) \/ ScanReturn(g)
    BY CallsEnd
  <2>2. key[g] \in HostKey /\ slice[g] = cookies[key[g]]
    BY DEF TypeInv, ReadsStored
  <2>3. AliveAt(key[g]) = {c \in Stored(key[g]) : ~c.deleted}
    BY <2>2, AliveIs
  <2>4. CASE ScanHit(g)
    <3>1. /\ Element(g) = At(g, i[g] + 1) /\ i[g] + 1 \in 1 .. slice[g].len
          /\ Element(g) \in Cookie
      BY <2>4, ElementType DEF ScanHit
    <3>2. /\ found'[g] = Element(g) /\ Element(g).name = sought[g] /\ ~Element(g).deleted
      BY <2>4 DEF ScanHit, Matches, TypeInv, TypeOK
    <3>3. Element(g) \in AliveAt(key[g])
      BY <2>2, <2>3, <3>1, <3>2 DEF Stored, At
    <3>4. {c \in AliveAt(key[g]) : c.name = sought[g]} = {Element(g)}
      BY <2>2, <3>2, <3>3 DEF OneCookiePerName
    <3> QED
      BY <3>1, <3>2, <3>4, CookieJarAssumption
  <2>5. CASE ScanReturn(g)
    <3>1. i[g] = slice[g].len /\ found'[g] = NoCookie
      BY <2>5 DEF ScanReturn, ScanInv
    <3>2. \A c \in Stored(key[g]) : c.name = sought[g] => c.deleted
      BY <2>2, <3>1 DEF Stored, ScanInv, At
    <3> QED
      BY <2>3, <3>1, <3>2
  <2> QED
    BY <2>1, <2>4, <2>5
<1> QED
  BY <1>1, <1>2, <1>3, InitType, TypeStep, NamesAreUnique, PTL DEF Spec, ScanFinds

-----------------------------------------------------------------------------
(***************************************************************************)
(* The jar implements CookieStore, where no one else reads the cookies of a *)
(* host key while they are filtered.                                       *)
(***************************************************************************)
store == [k \in HostKey |-> AliveAt(k)]

known == [k \in HostKey |-> Known(k)]

\* SetCookies is SetCookies of the store.
LEMMA StoreSets ==
  ASSUME TypeInv, NEW h \in Host, NEW given \in Given, SetCookies(h, given)
  PROVE  Store!Next
<1> DEFINE k == BuildCookieHostKey(h)
           new == Store!LastOf(given)
<1>1. /\ k \in HostKey
      /\ config.skipExisting =>
           Stored(k)' = Stored(k) \cup {c \in new : \A d \in Stored(k) : d.name # c.name}
      /\ ~config.skipExisting =>
           Stored(k)' = {c \in Stored(k) : \A d \in new : d.name # c.name} \cup new
      /\ \A l \in HostKey : l # k => Stored(l)' = Stored(l)
  BY SetCookiesStores
<1>2. asked' = [key |-> k, given |-> given] /\ UNCHANGED config
  BY DEF SetCookies
<1> HIDE DEF k, new
<1>3. TypeInv'
  BY SetCookiesType
<1>4. \A l \in HostKey : /\ AliveAt(l) = {c \in Stored(l) : ~c.deleted}
                         /\ AliveAt(l)' = {c \in Stored(l)' : ~c.deleted}
  BY <1>3, AliveIs, AliveIsNext
<1>5. \A l \in HostKey : store[l] = AliveAt(l) /\ store'[l] = AliveAt(l)'
  BY DEF store
<1>6. \A l \in HostKey : l # k => store'[l] = store[l]
  BY <1>1, <1>4, <1>5
<1>7. \A v : store'[k] = v => store' = [store EXCEPT ![k] = v]
  <2> SUFFICES ASSUME NEW v, store'[k] = v PROVE store' = [store EXCEPT ![k] = v]
    OBVIOUS
  <2>1. store' = [l \in HostKey |-> store'[l]]
    BY DEF store
  <2>2. [store EXCEPT ![k] = v] = [l \in HostKey |-> IF l = k THEN v ELSE store[l]]
    BY DEF store
  <2>3. \A l \in HostKey : store'[l] = IF l = k THEN v ELSE store[l]
    BY <1>6
  <2> QED
    BY <2>1, <2>2, <2>3
<1>8. CASE ~config.skipExisting
  <2>1. store'[k] = {c \in store[k] : c.name \notin Store!Names(new)} \cup Store!Alive(new)
    BY <1>1, <1>4, <1>5, <1>8 DEF Store!Names, Store!Alive
  <2>2. Store!Replace(k, given)
    BY <1>7, <1>8, <2>1 DEF Store!Replace, store, new
  <2> QED
    BY <1>1, <1>2, <2>2 DEF Store!Next, Store!SetCookies
<1>9. CASE config.skipExisting
  <2> DEFINE added == {c \in new : ~c.deleted /\ \A d \in Stored(k) : d.name # c.name}
  <2>1. store'[k] = store[k] \cup added
    BY <1>1, <1>4, <1>5, <1>9
  <2>2. added \in SUBSET {c \in Store!Alive(new) : c.name \notin Store!Names(store[k])}
    BY <1>1, <1>4, <1>5 DEF Store!Names, Store!Alive
  <2> HIDE DEF added
  <2>3. store' = [store EXCEPT ![k] = store[k] \cup added]
    BY <1>7, <2>1
  <2>4. Store!Add(k, given)
    BY <1>9, <2>2, <2>3 DEF Store!Add, store, new
  <2> QED
    BY <1>1, <1>2, <2>4 DEF Store!Next, Store!SetCookies
<1> QED
  BY <1>8, <1>9

\* Compacting the array of a host key leaves its alive cookies: the one that is
\* overwritten has been kept, and the one that is written is there.
LEMMA FilterKeepsStore ==
  ASSUME TypeInv, FilterInv, NEW g \in Goroutine, FilterKeep(g)
  PROVE  \A k \in HostKey : AliveAt(k)' = AliveAt(k)
<1>1. /\ key[g] \in HostKey /\ slice[g] = cookies[key[g]]
      /\ w[g] \in Nat /\ i[g] \in Nat /\ slice[g].len \in Nat
      /\ w[g] < i[g] /\ i[g] <= slice[g].len /\ ~cookie[g].deleted
      /\ \A p \in 1 .. slice[g].len :
           heap'[slice[g].arr][p] = IF p = w[g] + 1 THEN cookie[g] ELSE At(g, p)
      /\ \A l \in HostKey : l # key[g] => Stored(l)' = Stored(l)
  BY FilterKeepWrites
<1>2. TypeInv'
  BY TypeStep DEF Next
<1>3. \A l \in HostKey : /\ AliveAt(l) = {c \in Stored(l) : ~c.deleted}
                         /\ AliveAt(l)' = {c \in Stored(l)' : ~c.deleted}
  BY <1>2, AliveIs, AliveIsNext
<1>4. pc[g] = "keep" /\ UNCHANGED <<cookies, slice>>
  BY DEF FilterKeep
<1>5. /\ cookie[g] = At(g, i[g])
      /\ \A p \in 1 .. i[g] : At(g, p).deleted \/ At(g, p) \in Kept(g)
  BY <1>4 DEF FilterInv, Filtering
<1> DEFINE k == key[g]
           n == slice[g].len
<1>6. \A l \in HostKey : l = k =>
        /\ Stored(l) = {At(g, p) : p \in 1 .. n}
        /\ Stored(l)' = {heap'[slice[g].arr][p] : p \in 1 .. n}
  BY <1>1, <1>4 DEF Stored, At
<1>7. \A p \in 1 .. n : heap'[slice[g].arr][p] \in {At(g, q) : q \in 1 .. n}
  <2>1. i[g] \in 1 .. n
    BY <1>1
  <2> QED
    BY <1>1, <1>5, <2>1
<1>8. ASSUME NEW p \in 1 .. n, ~At(g, p).deleted
      PROVE  At(g, p) \in {heap'[slice[g].arr][q] : q \in 1 .. n}
  <2>1. CASE p # w[g] + 1
    BY <1>1, <2>1
  <2>2. CASE p = w[g] + 1
    <3>1. p \in 1 .. i[g]
      BY <1>1, <2>2
    <3>2. At(g, p) \in Kept(g)
      BY <1>5, <1>8, <3>1
    <3>3. CASE At(g, p) = cookie[g]
      BY <1>1, <2>2, <3>3
    <3>4. CASE At(g, p) # cookie[g]
      <4>1. PICK q \in 1 .. w[g] : At(g, p) = At(g, q)
        BY <3>2, <3>4 DEF Kept
      <4>2. q \in 1 .. n /\ q # w[g] + 1
        BY <1>1
      <4> QED
        BY <1>1, <4>1, <4>2
    <3> QED
      BY <3>3, <3>4
  <2> QED
    BY <2>1, <2>2
<1>9. ASSUME NEW l \in HostKey
      PROVE  AliveAt(l)' = AliveAt(l)
  <2>1. CASE l # k
    BY <1>1, <1>3, <2>1
  <2>2. CASE l = k
    <3>1. Stored(l)' \subseteq Stored(l)
      BY <1>6, <1>7, <2>2
    <3>2. \A c \in Stored(l) : ~c.deleted => c \in Stored(l)'
      BY <1>6, <1>8, <2>2
    <3> QED
      BY <1>3, <3>1, <3>2
  <2> QED
    BY <2>1, <2>2
<1> QED
  BY <1>9

LEMMA StoreStep ==
  ASSUME TypeInv, FilterInv, [Next]_vars
  PROVE  [Store!Next]_<<config, store, asked>>
<1>1. ASSUME UNCHANGED <<config, asked, heap, cookies>>
      PROVE  UNCHANGED <<config, store, asked>>
  BY <1>1 DEF store, AliveAt, Contents, ToSet
<1>2. CASE \E h \in Host, given \in Given : SetCookies(h, given)
  BY <1>2, StoreSets
<1>3. ASSUME NEW g \in Goroutine, FilterKeep(g)
      PROVE  UNCHANGED <<config, store, asked>>
  <2>1. store' = store
    BY <1>3, FilterKeepsStore DEF store
  <2> QED
    BY <1>3, <2>1 DEF FilterKeep
<1>4. ASSUME NEW g \in Goroutine,
             \/ \E h \in Host : Cookies(g, h)
             \/ \E h \in Host, n \in Name : CookieOfName(g, h, n)
             \/ FilterRead(g) \/ FilterReturn(g)
             \/ ScanHit(g) \/ ScanMiss(g) \/ ScanReturn(g)
      PROVE  UNCHANGED <<config, store, asked>>
  BY <1>1, <1>4 DEF Cookies, CookieOfName, RLock, FilterRead, FilterReturn, ScanHit, ScanMiss,
                    ScanReturn, RUnlock
<1>5. CASE UNCHANGED vars
  BY <1>1, <1>5 DEF vars
<1> QED
  BY <1>2, <1>3, <1>4, <1>5 DEF Next

\* The jar implements CookieStore, step by step: SetCookies is its step, locking,
\* filtering and scanning leave the alive cookies as they are.
THEOREM JarImplementsStore == Spec /\ []FiltersAlone => ImplementsStore
<1>1. Init => FilterInv
  BY DEF Init, FilterInv, Filtering
<1>2. TypeInv /\ FilterInv /\ FiltersAlone /\ [Next]_vars => FilterInv'
  BY FilterInvStep
<1>3. Init => Store!Init
  <2> SUFFICES ASSUME Init PROVE Store!Init
    OBVIOUS
  <2>1. \A k \in HostKey : AliveAt(k) = {}
    BY DEF Init, AliveAt, Contents, Nil, ToSet
  <2> QED
    BY <2>1 DEF Init, Store!Init, NoKey
<1>4. TypeInv /\ FilterInv /\ [Next]_vars => [Store!Next]_<<config, store, asked>>
  BY StoreStep
<1> QED
  BY <1>1, <1>2, <1>3, <1>4, InitType, TypeStep, PTL
  DEF Spec, ImplementsStore, Store!Spec, store

\* One goroutine never reads beside itself: for it the three theorems hold with
\* no more said.
COROLLARY AloneIsEnough ==
  ASSUME \A g, h \in Goroutine : g = h
  PROVE  Spec => AliveReturned /\ ScanFinds /\ ImplementsStore
<1>1. FiltersAlone
  BY DEF FiltersAlone
<1> QED
  BY <1>1, AliveAreReturned, ScansFind, JarImplementsStore, PTL

-----------------------------------------------------------------------------
(***************************************************************************)
(* Where others do read, the jar implements the store that may lose         *)
(* cookies.                                                                 *)
(***************************************************************************)
LEMMA RemainsStep ==
  ASSUME TypeInv, [Next]_vars
  PROVE  [Remains!Next \/ \E k \in HostKey : Remains!Lose(k)]_<<config, known, asked>>
<1>1. CASE \E h \in Host, given \in Given : SetCookies(h, given)
  <2>1. PICK h \in Host, given \in Given : SetCookies(h, given)
    BY <1>1
  <2>2. \A g \in Goroutine : pc[g] = "idle" /\ pc'[g] = "idle"
    BY <2>1, SetCookiesStores
  <2>3. known = store /\ known' = store'
    BY <2>2 DEF known, store, Known
  <2>4. Store!Next
    BY <2>1, StoreSets
  <2> QED
    BY <2>3, <2>4
    DEF known, store, Store!Next, Store!SetCookies, Store!Replace, Store!Add, Store!Names,
        Store!LastOf, Store!Accepted, Store!Alive, Remains!Next, Remains!SetCookies,
        Remains!Replace, Remains!Add, Remains!Names, Remains!LastOf, Remains!Accepted,
        Remains!Alive
<1>2. CASE ~ \E h \in Host, given \in Given : SetCookies(h, given)
  <2>1. UNCHANGED <<config, asked>>
    BY <1>2 DEF Next, vars, Cookies, CookieOfName, RLock, FilterRead, FilterKeep, FilterReturn,
                ScanHit, ScanMiss, ScanReturn, RUnlock
  <2>2. CASE \A k \in HostKey : Known(k)' = Known(k)
    BY <2>1, <2>2 DEF known
  <2>3. CASE \E k \in HostKey : \E c \in Known(k) :
               /\ Known(k)' = Known(k) \ {c}
               /\ \A l \in HostKey : l # k => Known(l)' = Known(l)
    <3>1. PICK k \in HostKey : \E c \in Known(k) :
            /\ Known(k)' = Known(k) \ {c}
            /\ \A l \in HostKey : l # k => Known(l)' = Known(l)
      BY <2>3
    <3>2. PICK c \in Known(k) : Known(k)' = Known(k) \ {c}
      BY <3>1
    <3>3. known' = [known EXCEPT ![k] = known[k] \ {c}]
      BY <3>1, <3>2 DEF known
    <3>4. Remains!Lose(k)
      BY <2>1, <3>2, <3>3 DEF known, Remains!Lose
    <3> QED
      BY <3>4
  <2> QED
    BY <1>2, <2>2, <2>3, KnownStep
<1> QED
  BY <1>1, <1>2

\* In every interleaving of calls the jar implements the store that may lose cookies
\* while they are read: what goroutines that filter one array do to it is bounded.
THEOREM JarImplementsLossyStore == Spec => ImplementsLossyStore
<1>1. Init => Remains!Init
  <2> SUFFICES ASSUME Init PROVE Remains!Init
    OBVIOUS
  <2>1. \A k \in HostKey : Known(k) = {}
    BY DEF Init, Known, AliveAt, Contents, Nil, ToSet
  <2> QED
    BY <2>1 DEF Init, Remains!Init, NoKey
<1>2. TypeInv /\ [Next]_vars
        => [Remains!Next \/ \E k \in HostKey : Remains!Lose(k)]_<<config, known, asked>>
  BY RemainsStep
<1> QED
  BY <1>1, <1>2, InitType, TypeStep, PTL
  DEF Spec, ImplementsLossyStore, Remains!LossySpec, known

=============================================================================
