----------------------------- MODULE NamesProofs ------------------------------
(***************************************************************************)
(* The caches of names answer like the resolver and stay whole, for any    *)
(* addresses, hashes and sizes of the tables.                              *)
(***************************************************************************)
EXTENDS Names, FiniteSetTheorems, SequenceTheorems, WellFoundedInduction, TLAPS

LEMMA Least ==
    ASSUME NEW S \in SUBSET Nat, S # {}
    PROVE  \E x \in S : \A y \in S : x <= y
<1> DEFINE R == OpToRel(<, Nat)
<1>1. \E x \in S : \A y \in S : ~(<<y, x>> \in R)
  BY NatLessThanWellFounded, WFMin
<1>2. R = {p \in Nat \X Nat : p[1] < p[2]}
  BY DEF OpToRel
<1> HIDE DEF R
<1>3. \A x, y \in Nat : y < x => <<y, x>> \in R
  BY <1>2
<1>4. PICK x \in S : \A y \in S : ~(<<y, x>> \in R)
  BY <1>1
<1>5. \A y \in S : ~(y < x)
  BY <1>3, <1>4, Zenon
<1> QED
  BY <1>5

\* A loop has a history of each length.
IsHistory(g, f, x, N) == g[0] = x /\ \A n \in 1..N : g[n] = f[g[n - 1]]

LEMMA History ==
    ASSUME NEW S, NEW f \in [S -> S], NEW x \in S, NEW N \in Nat
    PROVE  \E g \in [0..N -> S] : IsHistory(g, f, x, N)
<1> USE DEF IsHistory
<1> DEFINE Good(m) == \E g \in [0..m -> S] : g[0] = x /\ \A n \in 1..m : g[n] = f[g[n - 1]]
           T == {m \in Nat : ~Good(m)}
<1>1. SUFFICES ASSUME T # {}
               PROVE  FALSE
  OBVIOUS
<1>2. PICK m \in T : \A i \in T : m <= i
  <2>1. T \in SUBSET Nat
    OBVIOUS
  <2> HIDE DEF T
  <2> QED
    BY <1>1, <2>1, Least
<1>3. m \in Nat /\ ~Good(m)
  OBVIOUS
<1>4. m # 0
  <2> DEFINE z == [i \in 0..0 |-> x]
  <2>1. z \in [0..0 -> S] /\ z[0] = x /\ 1..0 = {}
    OBVIOUS
  <2> HIDE DEF z
  <2>2. Good(0)
    BY <2>1
  <2> HIDE DEF Good
  <2> QED
    BY <1>3, <2>2
<1>5. Good(m - 1)
  <2>1. m - 1 \in Nat /\ ~(m <= m - 1)
    BY <1>3, <1>4
  <2> HIDE DEF Good
  <2> QED
    BY <1>2, <2>1
<1>6. PICK g \in [0..(m - 1) -> S] : g[0] = x /\ \A n \in 1..(m - 1) : g[n] = f[g[n - 1]]
  BY <1>5
<1> DEFINE h == [i \in 0..m |-> IF i = m THEN f[g[m - 1]] ELSE g[i]]
<1>7. h \in [0..m -> S]
  BY <1>3, <1>4
<1>8. h[0] = x /\ h[m] = f[h[m - 1]] /\ \A n \in 1..(m - 1) : h[n] = g[n] /\ h[n - 1] = g[n - 1]
  BY <1>3, <1>4, <1>6
<1> HIDE DEF h
<1>9. \A n \in 1..m : h[n] = f[h[n - 1]]
  BY <1>3, <1>4, <1>6, <1>8
<1>10. Good(m)
  BY <1>7, <1>8, <1>9
<1> QED
  BY <1>3, <1>10

-----------------------------------------------------------------------------
(* Chains.                                                                 *)

Keys == Hosts \cup Ports
Spots == 0..MaxEntries
Results == {Resolver[key] : key \in Keys} \cup {"none"}
EntrySet == [inuse : BOOLEAN, key : Keys \cup {"none"}, result : Results, access : Nat,
             prev : Spots, next : Spots]

IsCache(cb) ==
  /\ cb = [entries |-> cb.entries, chains |-> cb.chains, free |-> cb.free, nument |-> cb.nument]
  /\ cb.entries \in [Spots -> EntrySet]
  /\ cb.chains \in [0..(HashSize - 1) -> Spots]
  /\ cb.free \in Spots /\ cb.nument \in Int

\* What an entry tells of its key is what the resolver told.
Told(cb) == \A ix \in Spots :
              cb.entries[ix].key \in Keys => cb.entries[ix].result = Resolver[cb.entries[ix].key]

\* The n entries of s hang together, from x on.
Linked(e, x, n, s) ==
  /\ n \in Nat /\ s \in [1..n -> Slots]
  /\ \A i, j \in 1..n : s[i] = s[j] => i = j
  /\ x = IF n = 0 THEN 0 ELSE s[1]
  /\ \A i \in 1..n : e[s[i]].next = IF i = n THEN 0 ELSE s[i + 1]

\* They know the one before.
Back(e, n, s) == \A i \in 1..n : e[s[i]].prev = IF i = 1 THEN 0 ELSE s[i - 1]

On(n, s) == {s[i] : i \in 1..n}

LEMMA ShortList ==
  ASSUME NamesAssumption, NEW e, NEW x, NEW n, NEW s, Linked(e, x, n, s)
  PROVE  n <= MaxEntries /\ IsFiniteSet(On(n, s)) /\ Cardinality(On(n, s)) = n
<1>1. /\ IsFiniteSet(Slots) /\ Cardinality(Slots) = MaxEntries
      /\ IsFiniteSet(1..n) /\ Cardinality(1..n) = n
  <2>1. n \in Nat /\ MaxEntries \in Nat
    BY DEF NamesAssumption, Linked
  <2>2. ASSUME NEW m \in Nat
        PROVE  IsFiniteSet(1..m) /\ Cardinality(1..m) = m
    <3>1. IsFiniteSet(1..m) /\ Cardinality(1..m) = IF 1 > m THEN 0 ELSE m - 1 + 1
      BY FS_Interval
    <3> QED
      BY <3>1
  <2> QED
    BY <2>1, <2>2 DEF Slots
<1>2. s \in Injection(1..n, Slots)
  BY DEF Linked, Injection, IsInjective
<1>3. n <= MaxEntries
  BY <1>1, <1>2, FS_Injection
<1>4. s \in Bijection(1..n, On(n, s))
  BY DEF Linked, On, Injection, IsInjective, Surjection, Bijection
<1>5. ExistsBijection(1..n, On(n, s))
  BY <1>4 DEF ExistsBijection
<1>6. IsFiniteSet(On(n, s)) /\ Cardinality(On(n, s)) = n
  BY <1>1, <1>5, FS_Bijection
<1> QED
  BY <1>3, <1>6

\* What is found walking from x on.
Walked(g, cb, x) ==
  /\ g \in [0..MaxEntries -> Spots] /\ g[0] = x
  /\ \A n \in 1..MaxEntries : g[n] = IF g[n - 1] = 0 THEN 0 ELSE cb.entries[g[n - 1]].next

LEMMA ChainIsWalked ==
  ASSUME NamesAssumption, NEW cb, IsCache(cb), NEW x \in Spots
  PROVE  \E g : /\ Walked(g, cb, x)
                /\ Chain(cb, x) = [n \in 1..Cardinality({m \in 0..MaxEntries : g[m] # 0}) |-> g[n - 1]]
<1> DEFINE f == [i \in Spots |-> IF i = 0 THEN 0 ELSE cb.entries[i].next]
           Size(z) == [n \in 0..MaxEntries |->
                         IF n = 0 THEN x
                         ELSE LET before == z[n - 1]
                              IN IF before = 0 THEN 0 ELSE cb.entries[before].next]
           at == CHOOSE z : z = Size(z)
<1>1. f \in [Spots -> Spots] /\ MaxEntries \in Nat
  BY DEF IsCache, EntrySet, Spots, NamesAssumption
<1>2. \E z : z = Size(z)
  <2> HIDE DEF f
  <2>1. PICK g \in [0..MaxEntries -> Spots] : IsHistory(g, f, x, MaxEntries)
    BY <1>1, History
  <2>2. \A n \in 0..MaxEntries : g[n] = IF n = 0 THEN x
                                 ELSE IF g[n - 1] = 0 THEN 0 ELSE cb.entries[g[n - 1]].next
    <3> SUFFICES ASSUME NEW n \in 0..MaxEntries
                 PROVE  g[n] = IF n = 0 THEN x
                               ELSE IF g[n - 1] = 0 THEN 0 ELSE cb.entries[g[n - 1]].next
      OBVIOUS
    <3>1. CASE n = 0
      BY <2>1, <3>1 DEF IsHistory
    <3>2. CASE n # 0
      <4>1. n \in 1..MaxEntries /\ n - 1 \in 0..MaxEntries
        BY <1>1, <3>2
      <4>2. g[n] = f[g[n - 1]] /\ g[n - 1] \in Spots
        BY <2>1, <4>1 DEF IsHistory
      <4> QED
        BY <3>2, <4>2 DEF f
    <3> QED
      BY <3>1, <3>2
  <2>3. g = Size(g)
    BY <2>1, <2>2
  <2> QED
    BY <2>3
<1>3. at = Size(at)
  <2> HIDE DEF Size
  <2> QED
    BY <1>2
<1>4. Chain(cb, x) = [n \in 1..Cardinality({m \in 0..MaxEntries : at[m] # 0}) |-> at[n - 1]]
  BY DEF Chain
<1> HIDE DEF at
<1>5. \A n \in 0..MaxEntries : at[n] = IF n = 0 THEN x
                               ELSE IF at[n - 1] = 0 THEN 0 ELSE cb.entries[at[n - 1]].next
  BY <1>3
<1>6. at[0] = x /\ \A n \in 1..MaxEntries : at[n] = IF at[n - 1] = 0 THEN 0
                                                  ELSE cb.entries[at[n - 1]].next
  BY <1>1, <1>5
<1>7. \A n \in 0..MaxEntries : at[n] \in Spots
  <2> DEFINE T == {n \in 0..MaxEntries : at[n] \notin Spots}
  <2>1. SUFFICES ASSUME T # {} PROVE FALSE
    OBVIOUS
  <2>2. PICK n \in T : \A i \in T : n <= i
    <3>1. T \in SUBSET Nat
      BY <1>1
    <3> HIDE DEF T
    <3> QED
      BY <2>1, <3>1, Least
  <2>3. n \in 0..MaxEntries /\ at[n] \notin Spots
    OBVIOUS
  <2>4. n # 0
    BY <1>6, <2>3
  <2>5. n - 1 \in 0..MaxEntries /\ ~(n <= n - 1) /\ n \in 1..MaxEntries
    BY <1>1, <2>3, <2>4
  <2>6. at[n - 1] \in Spots
    BY <2>2, <2>5
  <2> QED
    BY <1>6, <2>3, <2>5, <2>6 DEF IsCache, EntrySet, Spots
<1>8. at \in [0..MaxEntries -> Spots]
  <2>1. at = [n \in 0..MaxEntries |-> at[n]]
    BY <1>3
  <2> QED
    BY <1>7, <2>1
<1> QED
  BY <1>4, <1>6, <1>8 DEF Walked

\* A chain that hangs together is found as it is.
LEMMA ChainIs ==
  ASSUME NamesAssumption, NEW cb, IsCache(cb), NEW x, NEW n, NEW s,
         Linked(cb.entries, x, n, s)
  PROVE  Chain(cb, x) = s
<1>1. n \in Nat /\ n <= MaxEntries /\ MaxEntries \in Nat /\ s \in [1..n -> Slots]
  <2>1. n <= MaxEntries
    BY ShortList
  <2> QED
    BY <2>1 DEF Linked, NamesAssumption
<1>2. x \in Spots
  BY <1>1 DEF Linked, Slots, Spots
<1>3. PICK g : /\ Walked(g, cb, x)
               /\ Chain(cb, x) = [k \in 1..Cardinality({m \in 0..MaxEntries : g[m] # 0}) |-> g[k - 1]]
  BY <1>2, ChainIsWalked
<1>4. \A m \in 0..MaxEntries : g[m] = IF m < n THEN s[m + 1] ELSE 0
  <2> DEFINE T == {m \in 0..MaxEntries : g[m] # IF m < n THEN s[m + 1] ELSE 0}
  <2>1. SUFFICES ASSUME T # {} PROVE FALSE
    OBVIOUS
  <2>2. PICK m \in T : \A i \in T : m <= i
    <3>1. T \in SUBSET Nat
      BY <1>1
    <3> HIDE DEF T
    <3> QED
      BY <2>1, <3>1, Least
  <2>3. m \in 0..MaxEntries /\ g[m] # IF m < n THEN s[m + 1] ELSE 0
    OBVIOUS
  <2>4. m # 0
    BY <1>1, <1>3, <2>3 DEF Walked, Linked
  <2>5. m - 1 \in 0..MaxEntries /\ ~(m <= m - 1) /\ m \in 1..MaxEntries
    BY <1>1, <2>3, <2>4
  <2>6. g[m - 1] = IF m - 1 < n THEN s[m] ELSE 0
    <3>1. m - 1 \notin T /\ m - 1 + 1 = m
      BY <2>2, <2>5
    <3> QED
      BY <2>5, <3>1
  <2>7. g[m] = IF g[m - 1] = 0 THEN 0 ELSE cb.entries[g[m - 1]].next
    BY <1>3, <2>5 DEF Walked
  <2> HIDE DEF T
  <2>8. CASE m - 1 < n
    <3>1. m \in 1..n /\ s[m] \in Slots /\ s[m] # 0
      BY <1>1, <2>5, <2>8 DEF Slots
    <3>2. g[m] = IF m = n THEN 0 ELSE s[m + 1]
      BY <2>6, <2>7, <2>8, <3>1 DEF Linked
    <3> QED
      BY <1>1, <2>3, <3>1, <3>2
  <2>9. CASE ~(m - 1 < n)
    BY <1>1, <2>3, <2>5, <2>6, <2>7, <2>9
  <2> QED
    BY <2>8, <2>9
<1>5. {m \in 0..MaxEntries : g[m] # 0} = 0..(n - 1)
  <2>1. ASSUME NEW m \in 0..MaxEntries
        PROVE  g[m] # 0 <=> m \in 0..(n - 1)
    <3>1. m < n => m + 1 \in 1..n
      BY <1>1
    <3>2. m < n => s[m + 1] # 0
      BY <1>1, <3>1 DEF Slots
    <3> QED
      BY <1>1, <1>4, <3>2
  <2>2. \A m \in 0..(n - 1) : m \in 0..MaxEntries
    BY <1>1
  <2> QED
    BY <2>1, <2>2
<1>6. Cardinality(0..(n - 1)) = n
  BY <1>1, FS_Interval
<1>7. Chain(cb, x) = [k \in 1..n |-> g[k - 1]]
  BY <1>3, <1>5, <1>6
<1>8. ASSUME NEW k \in 1..n
      PROVE  g[k - 1] = s[k]
  <2>1. k - 1 \in 0..MaxEntries /\ k - 1 < n /\ k - 1 + 1 = k
    BY <1>1
  <2> QED
    BY <1>4, <2>1
<1> QED
  BY <1>1, <1>7, <1>8

\* Exactly the entries of S hang on x: one way, and both ways.
HangOn(e, x, S) == \E n, s : Linked(e, x, n, s) /\ On(n, s) = S
HangBoth(e, x, S) == \E n, s : Linked(e, x, n, s) /\ Back(e, n, s) /\ On(n, s) = S

\* In e2, ix stands before what stood first.
Heads(e, x, S, ix, e2) ==
  /\ e2[ix].prev = 0
  /\ \A j \in S : e2[j].prev = IF j = x THEN ix ELSE e[j].prev

LEMMA PutFirst ==
  ASSUME NEW e, NEW x, NEW S, NEW ix \in Slots, ix \notin S, NEW e2,
         HangOn(e, x, S),
         \A j \in S : e2[j].next = e[j].next,
         e2[ix].next = x
  PROVE  /\ HangOn(e2, ix, S \cup {ix})
         /\ HangBoth(e, x, S) /\ Heads(e, x, S, ix, e2) => HangBoth(e2, ix, S \cup {ix})
<1>1. ASSUME NEW n, NEW s, Linked(e, x, n, s), On(n, s) = S
      PROVE  \E n2, s2 : /\ Linked(e2, ix, n2, s2) /\ On(n2, s2) = S \cup {ix}
                         /\ Back(e, n, s) /\ e2[ix].prev = 0
                             /\ (\A j \in S : e2[j].prev = IF j = x THEN ix ELSE e[j].prev)
                            => Back(e2, n2, s2)
  <2> DEFINE s2 == [i \in 1..(n + 1) |-> IF i = 1 THEN ix ELSE s[i - 1]]
  <2>1. n \in Nat /\ s \in [1..n -> Slots] /\ n + 1 \in Nat /\ n + 1 # 0 /\ 1 \in 1..(n + 1)
    BY <1>1 DEF Linked
  <2>2. \A i \in 1..(n + 1) : i # 1 => i - 1 \in 1..n
    BY <2>1
  <2>3. \A i \in 1..n : i + 1 \in 1..(n + 1) /\ i + 1 # 1 /\ i + 1 - 1 = i /\ s[i] \in S /\ s[i] # ix
    BY <1>1, <2>1 DEF On
  <2>4. s2 \in [1..(n + 1) -> Slots] /\ s2[1] = ix
    BY <2>1, <2>2
  <2>5. \A i \in 1..n : s2[i + 1] = s[i]
    BY <2>3
  <2>6. \A i \in 1..(n + 1) : i # 1 => s2[i] = s[i - 1]
    OBVIOUS
  <2> HIDE DEF s2
  <2>7. \A i, j \in 1..(n + 1) : s2[i] = s2[j] => i = j
    <3> SUFFICES ASSUME NEW i \in 1..(n + 1), NEW j \in 1..(n + 1), s2[i] = s2[j]
                 PROVE  i = j
      OBVIOUS
    <3>1. CASE i = 1
      BY <2>2, <2>3, <2>4, <2>6, <3>1
    <3>2. CASE j = 1
      BY <2>2, <2>3, <2>4, <2>6, <3>2
    <3>3. CASE i # 1 /\ j # 1
      <4>1. s[i - 1] = s[j - 1] /\ i - 1 \in 1..n /\ j - 1 \in 1..n
        BY <2>2, <2>6, <3>3
      <4>2. i - 1 = j - 1
        BY <1>1, <4>1 DEF Linked
      <4> QED
        BY <2>1, <4>2
    <3> QED
      BY <3>1, <3>2, <3>3
  <2>8. ASSUME NEW i \in 1..(n + 1)
        PROVE  e2[s2[i]].next = IF i = n + 1 THEN 0 ELSE s2[i + 1]
    <3>1. CASE i = 1
      <4>1. e2[s2[i]].next = x
        BY <2>4, <3>1
      <4>2. CASE n = 0
        BY <1>1, <3>1, <4>1, <4>2 DEF Linked
      <4>3. CASE n # 0
        BY <1>1, <2>1, <2>5, <3>1, <4>1, <4>3 DEF Linked
      <4> QED
        BY <4>2, <4>3
    <3>2. CASE i # 1
      <4>1. i - 1 \in 1..n /\ s2[i] = s[i - 1] /\ s[i - 1] \in S
        BY <2>2, <2>3, <2>6, <3>2
      <4>2. e2[s2[i]].next = IF i - 1 = n THEN 0 ELSE s[i - 1 + 1]
        BY <1>1, <4>1 DEF Linked
      <4>3. i # n + 1 => i \in 1..n /\ s2[i + 1] = s[i]
        BY <2>1, <2>5
      <4> QED
        BY <2>1, <4>1, <4>2, <4>3
    <3> QED
      BY <3>1, <3>2
  <2>9. On(n + 1, s2) = S \cup {ix}
    <3>1. \A i \in 1..(n + 1) : s2[i] \in S \cup {ix}
      BY <2>2, <2>3, <2>4, <2>6
    <3>2. \A y \in S : \E i \in 1..(n + 1) : s2[i] = y
      BY <1>1, <2>3, <2>5 DEF On
    <3> QED
      BY <2>1, <2>4, <3>1, <3>2 DEF On
  <2>10. Linked(e2, ix, n + 1, s2)
    BY <2>1, <2>4, <2>7, <2>8 DEF Linked
  <2>11. ASSUME Back(e, n, s), e2[ix].prev = 0,
                \A j \in S : e2[j].prev = IF j = x THEN ix ELSE e[j].prev
         PROVE  Back(e2, n + 1, s2)
    <3> SUFFICES ASSUME NEW i \in 1..(n + 1)
                 PROVE  e2[s2[i]].prev = IF i = 1 THEN 0 ELSE s2[i - 1]
      BY DEF Back
    <3>1. CASE i = 1
      BY <2>4, <2>11, <3>1
    <3>2. CASE i = 2
      <4>1. 1 \in 1..n /\ s2[2] = s[1] /\ s[1] \in S /\ x = s[1]
        BY <1>1, <2>1, <2>2, <2>3, <2>6, <3>2 DEF Linked
      <4> QED
        BY <2>4, <2>11, <3>2, <4>1
    <3>3. CASE i # 1 /\ i # 2
      <4>1. i - 1 \in 1..n /\ s2[i] = s[i - 1] /\ s[i - 1] \in S /\ s2[i - 1] = s[i - 2]
            /\ i - 1 # 1 /\ i - 1 - 1 = i - 2 /\ 1 \in 1..n
        BY <2>1, <2>2, <2>3, <2>6, <3>3
      <4>2. s[i - 1] # x
        BY <1>1, <4>1 DEF Linked
      <4>3. e[s[i - 1]].prev = s[i - 2]
        BY <2>11, <4>1 DEF Back
      <4> QED
        BY <2>11, <3>3, <4>1, <4>2, <4>3
    <3> QED
      BY <3>1, <3>2, <3>3
  <2> QED
    BY <2>9, <2>10, <2>11
<1> QED
  BY <1>1 DEF HangOn, HangBoth, Heads

LEMMA TakeFirst ==
  ASSUME NEW e, NEW x, NEW S, HangOn(e, x, S)
  PROVE  /\ x = 0 => S = {}
         /\ x # 0 => x \in S /\ S \subseteq Slots /\ HangOn(e, e[x].next, S \ {x})
<1>1. PICK n, s : Linked(e, x, n, s) /\ On(n, s) = S
  BY DEF HangOn
<1>2. n \in Nat /\ s \in [1..n -> Slots] /\ \A i \in 1..n : s[i] \in Slots /\ s[i] # 0
  BY <1>1 DEF Linked, Slots
<1>3. CASE n = 0
  BY <1>1, <1>2, <1>3 DEF Linked, On
<1>4. CASE n # 0
  <2> DEFINE s2 == [i \in 1..(n - 1) |-> s[i + 1]]
  <2>1. n - 1 \in Nat /\ 1 \in 1..n /\ x = s[1]
    BY <1>1, <1>2, <1>4 DEF Linked
  <2>2. \A i \in 1..(n - 1) : i + 1 \in 1..n /\ i + 1 # 1 /\ s2[i] = s[i + 1]
    BY <1>2
  <2>3. s2 \in [1..(n - 1) -> Slots]
    BY <1>2, <2>2
  <2> HIDE DEF s2
  <2>4. \A i \in 1..n : i # 1 => i - 1 \in 1..(n - 1) /\ s2[i - 1] = s[i]
    BY <1>2, <2>2
  <2>5. \A i, j \in 1..(n - 1) : s2[i] = s2[j] => i = j
    <3> SUFFICES ASSUME NEW i \in 1..(n - 1), NEW j \in 1..(n - 1), s2[i] = s2[j]
                 PROVE  i = j
      OBVIOUS
    <3>1. s[i + 1] = s[j + 1] /\ i + 1 \in 1..n /\ j + 1 \in 1..n
      BY <2>2
    <3>2. i + 1 = j + 1
      BY <1>1, <3>1 DEF Linked
    <3> QED
      BY <1>2, <3>2
  <2>6. e[x].next = IF n - 1 = 0 THEN 0 ELSE s2[1]
    <3>1. e[x].next = IF 1 = n THEN 0 ELSE s[1 + 1]
      BY <1>1, <2>1 DEF Linked
    <3>2. n # 1 => 1 \in 1..(n - 1) /\ s2[1] = s[1 + 1]
      BY <1>2, <1>4, <2>2
    <3> QED
      BY <1>2, <3>1, <3>2
  <2>7. ASSUME NEW i \in 1..(n - 1)
        PROVE  e[s2[i]].next = IF i = n - 1 THEN 0 ELSE s2[i + 1]
    <3>1. e[s2[i]].next = IF i + 1 = n THEN 0 ELSE s[i + 1 + 1]
      BY <1>1, <2>2 DEF Linked
    <3>2. i # n - 1 => i + 1 \in 1..(n - 1) /\ s2[i + 1] = s[i + 1 + 1]
      BY <1>2, <2>2
    <3> QED
      BY <1>2, <3>1, <3>2
  <2>8. On(n - 1, s2) = S \ {x}
    <3>1. \A i \in 1..n : i # 1 => s[i] # x
      BY <1>1, <2>1 DEF Linked
    <3>2. \A i \in 1..(n - 1) : s2[i] \in S \ {x}
      BY <1>1, <2>2, <3>1 DEF On
    <3>3. \A y \in S \ {x} : \E i \in 1..(n - 1) : s2[i] = y
      BY <1>1, <2>1, <2>4 DEF On
    <3> QED
      BY <3>2, <3>3 DEF On
  <2>9. Linked(e, e[x].next, n - 1, s2)
    BY <2>1, <2>3, <2>5, <2>6, <2>7 DEF Linked
  <2>10. x # 0 /\ x \in S /\ S \subseteq Slots
    BY <1>1, <1>2, <2>1 DEF On
  <2> QED
    BY <2>8, <2>9, <2>10 DEF HangOn
<1> QED
  BY <1>3, <1>4

\* In e2, p and q are neighbours where in e they were not.
Bridged(e, e2, S, p, q) ==
  \A j \in S : /\ e2[j].next = IF j = p THEN q ELSE e[j].next
              /\ e2[j].prev = IF j = q THEN p ELSE e[j].prev

\* p and q stand before and behind ix, and without it they hold the chain together.
Removable(e, x, S, ix, p, q) ==
  /\ p # 0 => p \in S \ {ix}
  /\ q # 0 => q \in S \ {ix}
  /\ \A e2 : Bridged(e, e2, S \ {ix}, p, q) /\ p = 0 => HangBoth(e2, q, S \ {ix})
  /\ \A e2 : Bridged(e, e2, S \ {ix}, p, q) /\ p # 0 => HangBoth(e2, x, S \ {ix})

LEMMA TakeOut ==
  ASSUME NEW e, NEW x, NEW S, HangBoth(e, x, S), NEW ix \in S
  PROVE  Removable(e, x, S, ix, e[ix].prev, e[ix].next)
<1> DEFINE p == e[ix].prev
           q == e[ix].next
<1>1. PICK n, s : Linked(e, x, n, s) /\ Back(e, n, s) /\ On(n, s) = S
  BY DEF HangBoth
<1>2. n \in Nat /\ s \in [1..n -> Slots] /\ \A i \in 1..n : s[i] \in Slots /\ s[i] # 0 /\ s[i] \in S
  BY <1>1 DEF Linked, Slots, On
<1>3. \A i, j \in 1..n : s[i] = s[j] => i = j
  BY <1>1 DEF Linked
<1>4. PICK k \in 1..n : s[k] = ix
  BY <1>1 DEF On
<1>5. p = IF k = 1 THEN 0 ELSE s[k - 1]
  BY <1>1, <1>4 DEF Back
<1>6. q = IF k = n THEN 0 ELSE s[k + 1]
  BY <1>1, <1>4 DEF Linked
<1>7. n - 1 \in Nat /\ (k # 1 => k - 1 \in 1..n /\ k - 1 # k) /\ (k # n => k + 1 \in 1..n /\ k + 1 # k)
  BY <1>2, <1>4
<1>8. /\ p # 0 => p \in S \ {ix}
      /\ q # 0 => q \in S \ {ix}
  BY <1>2, <1>3, <1>4, <1>5, <1>6, <1>7
<1>9. /\ p = 0 <=> k = 1
      /\ q = 0 <=> k = n
  BY <1>2, <1>5, <1>6, <1>7
<1> DEFINE s2 == [i \in 1..(n - 1) |-> IF i < k THEN s[i] ELSE s[i + 1]]
<1>10. ASSUME NEW i \in 1..(n - 1)
       PROVE  /\ i < k => i \in 1..n /\ i # k /\ s2[i] = s[i]
              /\ ~(i < k) => i + 1 \in 1..n /\ i + 1 # k /\ s2[i] = s[i + 1]
  BY <1>2, <1>4
<1>11. s2 \in [1..(n - 1) -> Slots]
  BY <1>2, <1>10
<1> HIDE DEF s2
<1>12. ASSUME NEW i \in 1..n, i # k
       PROVE  /\ i < k => i \in 1..(n - 1) /\ s2[i] = s[i]
              /\ ~(i < k) => i - 1 \in 1..(n - 1) /\ s2[i - 1] = s[i]
  <2>1. i < k => i \in 1..(n - 1)
    BY <1>2, <1>4
  <2>2. ~(i < k) => i - 1 \in 1..(n - 1) /\ ~(i - 1 < k) /\ i - 1 + 1 = i
    BY <1>2, <1>4, <1>12
  <2> QED
    BY <1>10, <2>1, <2>2
<1>13. \A i \in 1..(n - 1) : s2[i] \in S \ {ix}
  BY <1>2, <1>3, <1>4, <1>10
<1>14. On(n - 1, s2) = S \ {ix}
  <2>1. ASSUME NEW y \in S \ {ix}
        PROVE  \E i \in 1..(n - 1) : s2[i] = y
    <3>1. PICK i \in 1..n : s[i] = y
      BY <1>1 DEF On
    <3> QED
      BY <1>4, <1>12, <3>1
  <2> QED
    BY <1>13, <2>1 DEF On
<1>15. \A i, j \in 1..(n - 1) : s2[i] = s2[j] => i = j
  <2> SUFFICES ASSUME NEW i \in 1..(n - 1), NEW j \in 1..(n - 1), s2[i] = s2[j]
               PROVE  i = j
    OBVIOUS
  <2>1. CASE i < k /\ j < k
    BY <1>3, <1>10, <2>1
  <2>2. CASE ~(i < k) /\ ~(j < k)
    BY <1>2, <1>3, <1>10, <2>2
  <2>3. CASE i < k /\ ~(j < k)
    <3>1. s[i] = s[j + 1] /\ i \in 1..n /\ j + 1 \in 1..n
      BY <1>10, <2>3
    <3> QED
      BY <1>2, <1>3, <1>4, <2>3, <3>1
  <2>4. CASE ~(i < k) /\ j < k
    <3>1. s[i + 1] = s[j] /\ j \in 1..n /\ i + 1 \in 1..n
      BY <1>10, <2>4
    <3> QED
      BY <1>2, <1>3, <1>4, <2>4, <3>1
  <2> QED
    BY <2>1, <2>2, <2>3, <2>4
<1>16. (IF p = 0 THEN q ELSE x) = IF n - 1 = 0 THEN 0 ELSE s2[1]
  <2>1. CASE n = 1
    BY <1>4, <1>6, <1>9, <2>1
  <2>2. CASE n # 1
    <3>1. 1 \in 1..(n - 1) /\ n - 1 # 0
      BY <1>4, <1>2, <2>2
    <3>2. CASE k = 1
      BY <1>6, <1>9, <1>10, <2>2, <3>1, <3>2
    <3>3. CASE k # 1
      <4>1. s2[1] = s[1]
        BY <1>2, <1>4, <1>10, <3>1, <3>3
      <4>2. x = s[1]
        BY <1>1, <3>1 DEF Linked
      <4> QED
        BY <1>9, <3>1, <3>3, <4>1, <4>2
    <3> QED
      BY <3>2, <3>3
  <2> QED
    BY <2>1, <2>2
<1>17. ASSUME NEW e2, Bridged(e, e2, S \ {ix}, p, q), NEW i \in 1..(n - 1)
       PROVE  e2[s2[i]].next = IF i = n - 1 THEN 0 ELSE s2[i + 1]
  <2>0. e2[s2[i]].next = IF s2[i] = p THEN q ELSE e[s2[i]].next
    BY <1>13, <1>17 DEF Bridged
  <2>1. CASE i = k - 1
    <3>1. i < k /\ s2[i] = s[k - 1] /\ k # 1
      BY <1>2, <1>4, <1>10, <2>1
    <3>2. e2[s2[i]].next = q
      BY <1>5, <2>0, <3>1
    <3>3. i # n - 1 => i + 1 \in 1..(n - 1) /\ ~(i + 1 < k) /\ i + 1 + 1 = k + 1
      BY <1>2, <1>4, <2>1
    <3>4. i # n - 1 => s2[i + 1] = s[k + 1]
      BY <1>10, <3>3
    <3>5. i = n - 1 <=> k = n
      BY <1>2, <1>4, <2>1
    <3> QED
      BY <1>6, <3>2, <3>4, <3>5
  <2>2. CASE i < k /\ i # k - 1
    <3>1. s2[i] = s[i] /\ i \in 1..n /\ i + 1 < k /\ i + 1 \in 1..(n - 1) /\ i # n /\ i # n - 1
      BY <1>2, <1>4, <1>10, <2>2
    <3>2. s2[i + 1] = s[i + 1]
      BY <1>10, <3>1
    <3>3. s[i] # p
      BY <1>2, <1>3, <1>4, <1>5, <1>7, <2>2, <3>1
    <3>4. e[s[i]].next = s[i + 1]
      BY <1>1, <3>1 DEF Linked
    <3> QED
      BY <2>0, <3>1, <3>2, <3>3, <3>4
  <2>3. CASE ~(i < k)
    <3>1. s2[i] = s[i + 1] /\ i + 1 \in 1..n /\ i + 1 # k - 1
      BY <1>2, <1>4, <1>10, <2>3
    <3>2. s[i + 1] # p
      BY <1>2, <1>3, <1>5, <1>7, <3>1
    <3>3. e[s[i + 1]].next = IF i + 1 = n THEN 0 ELSE s[i + 1 + 1]
      BY <1>1, <3>1 DEF Linked
    <3>4. i # n - 1 => i + 1 \in 1..(n - 1) /\ ~(i + 1 < k)
      BY <1>2, <1>4, <2>3
    <3>5. i # n - 1 => s2[i + 1] = s[i + 1 + 1]
      BY <1>10, <3>4
    <3>6. i = n - 1 <=> i + 1 = n
      BY <1>2
    <3> QED
      BY <2>0, <3>1, <3>2, <3>3, <3>5, <3>6
  <2> QED
    BY <1>2, <1>4, <2>1, <2>2, <2>3
<1>18. ASSUME NEW e2, Bridged(e, e2, S \ {ix}, p, q), NEW i \in 1..(n - 1)
       PROVE  e2[s2[i]].prev = IF i = 1 THEN 0 ELSE s2[i - 1]
  <2>0. e2[s2[i]].prev = IF s2[i] = q THEN p ELSE e[s2[i]].prev
    BY <1>13, <1>18 DEF Bridged
  <2>1. CASE i < k
    <3>1. s2[i] = s[i] /\ i \in 1..n /\ i # k + 1
      BY <1>2, <1>4, <1>10, <2>1
    <3>2. s[i] # q
      BY <1>2, <1>3, <1>6, <1>7, <3>1
    <3>3. e[s[i]].prev = IF i = 1 THEN 0 ELSE s[i - 1]
      BY <1>1, <3>1 DEF Back
    <3>4. i # 1 => i - 1 \in 1..(n - 1) /\ i - 1 < k
      BY <1>2, <1>4, <2>1
    <3>5. i # 1 => s2[i - 1] = s[i - 1]
      BY <1>10, <3>4
    <3> QED
      BY <2>0, <3>1, <3>2, <3>3, <3>5
  <2>2. CASE i = k
    <3>1. s2[i] = s[k + 1] /\ k # n
      BY <1>2, <1>4, <1>10, <2>2
    <3>2. e2[s2[i]].prev = p
      BY <1>6, <2>0, <3>1
    <3>3. i # 1 => i - 1 \in 1..(n - 1) /\ i - 1 < k /\ i - 1 = k - 1
      BY <1>2, <1>4, <2>2
    <3>4. i # 1 => s2[i - 1] = s[k - 1]
      BY <1>10, <3>3
    <3> QED
      BY <1>5, <2>2, <3>2, <3>4
  <2>3. CASE i > k
    <3>1. /\ s2[i] = s[i + 1] /\ i + 1 \in 1..n /\ i + 1 # k + 1 /\ i + 1 # 1 /\ i # 1
          /\ i - 1 \in 1..(n - 1) /\ ~(i - 1 < k) /\ i - 1 + 1 = i /\ i + 1 - 1 = i
      BY <1>2, <1>4, <1>10, <2>3
    <3>2. s[i + 1] # q
      BY <1>2, <1>3, <1>6, <1>7, <3>1
    <3>3. e[s[i + 1]].prev = s[i]
      BY <1>1, <3>1 DEF Back
    <3>4. s2[i - 1] = s[i]
      BY <1>10, <3>1
    <3> QED
      BY <2>0, <3>1, <3>2, <3>3, <3>4
  <2> QED
    BY <1>2, <1>4, <2>1, <2>2, <2>3
<1>19. ASSUME NEW e2, Bridged(e, e2, S \ {ix}, p, q)
       PROVE  /\ p = 0 => HangBoth(e2, q, S \ {ix})
              /\ p # 0 => HangBoth(e2, x, S \ {ix})
  <2> DEFINE y == IF p = 0 THEN q ELSE x
  <2>1. \A i \in 1..(n - 1) : e2[s2[i]].next = IF i = n - 1 THEN 0 ELSE s2[i + 1]
    BY <1>17, <1>19
  <2>2. Linked(e2, y, n - 1, s2)
    BY <1>7, <1>11, <1>15, <1>16, <2>1 DEF Linked
  <2>3. \A i \in 1..(n - 1) : e2[s2[i]].prev = IF i = 1 THEN 0 ELSE s2[i - 1]
    BY <1>18, <1>19
  <2> HIDE DEF y
  <2>4. Back(e2, n - 1, s2)
    BY <2>3 DEF Back
  <2>5. HangBoth(e2, y, S \ {ix})
    BY <1>14, <2>2, <2>4 DEF HangBoth
  <2> QED
    BY <2>5 DEF y
<1> HIDE DEF p, q
<1>20. Removable(e, x, S, ix, p, q)
  BY <1>8, <1>19 DEF Removable
<1> QED
  BY <1>20 DEF p, q

LEMMA Undisturbed ==
  ASSUME NEW e, NEW x, NEW S, NEW e2
  PROVE  /\ HangOn(e, x, S) /\ (\A j \in S : e2[j].next = e[j].next) => HangOn(e2, x, S)
         /\ HangBoth(e, x, S)
              /\ (\A j \in S : e2[j].next = e[j].next /\ e2[j].prev = e[j].prev)
            => HangBoth(e2, x, S)
<1>1. ASSUME NEW n, NEW s, Linked(e, x, n, s), \A j \in On(n, s) : e2[j].next = e[j].next
      PROVE  Linked(e2, x, n, s)
  <2>1. \A i \in 1..n : s[i] \in On(n, s)
    BY DEF On
  <2>2. \A i \in 1..n : e2[s[i]].next = e[s[i]].next
    BY <1>1, <2>1
  <2> QED
    BY <1>1, <2>2 DEF Linked
<1>2. ASSUME NEW n, NEW s, Back(e, n, s), \A j \in On(n, s) : e2[j].prev = e[j].prev
      PROVE  Back(e2, n, s)
  <2>1. \A i \in 1..n : s[i] \in On(n, s)
    BY DEF On
  <2> QED
    BY <1>2, <2>1 DEF Back
<1>3. HangOn(e, x, S) /\ (\A j \in S : e2[j].next = e[j].next) => HangOn(e2, x, S)
  BY <1>1 DEF HangOn
<1>4. ASSUME HangBoth(e, x, S), \A j \in S : e2[j].next = e[j].next /\ e2[j].prev = e[j].prev
      PROVE  HangBoth(e2, x, S)
  BY <1>1, <1>2, <1>4 DEF HangBoth
<1> QED
  BY <1>3, <1>4

-----------------------------------------------------------------------------
(* The table.                                                              *)

OfChain(e, U, h) == {ix \in U : ChainOf(e[ix].key) = h}

\* The entries of U are the used ones, each on its chain and no key twice; those of F are free.
Tidy(cb, U, F) ==
  /\ U \subseteq Slots /\ F \subseteq Slots /\ U \cap F = {}
  /\ U = {ix \in Slots : cb.entries[ix].inuse}
  /\ \A ix \in U : cb.entries[ix].key \in Keys
  /\ \A i, j \in U : i # j => cb.entries[i].key # cb.entries[j].key
  /\ \A h \in 0..(HashSize - 1) : HangBoth(cb.entries, cb.chains[h], OfChain(cb.entries, U, h))
  /\ HangOn(cb.entries, cb.free, F)

Whole(cb) == \E U : Tidy(cb, U, Slots \ U) /\ cb.nument = Cardinality(U)

LEMMA ChainOfKey ==
  ASSUME NamesAssumption, NEW key \in Keys
  PROVE  ChainOf(key) \in 0..(HashSize - 1)
BY DEF NamesAssumption, ChainOf, Keys

LEMMA EntryIsOne ==
  ASSUME NamesAssumption
  PROVE  /\ Entry \in EntrySet
         /\ \A n \in Spots : [Entry EXCEPT !.next = n] \in EntrySet
         /\ \A n : [Entry EXCEPT !.next = n].next = n /\ [Entry EXCEPT !.next = n].prev = 0
                   /\ [Entry EXCEPT !.next = n].key = "none"
                   /\ [Entry EXCEPT !.next = n].inuse = FALSE
<1>1. 0 \in Spots /\ "none" \in Results
  BY DEF NamesAssumption, Spots, Results
<1>2. Entry \in EntrySet
  BY <1>1 DEF Entry, EntrySet
<1>3. ASSUME NEW n \in Spots
      PROVE  [Entry EXCEPT !.next = n] \in EntrySet
  BY <1>2 DEF EntrySet
<1>4. ASSUME NEW n
      PROVE  /\ [Entry EXCEPT !.next = n].next = n /\ [Entry EXCEPT !.next = n].prev = 0
             /\ [Entry EXCEPT !.next = n].key = "none"
             /\ [Entry EXCEPT !.next = n].inuse = FALSE
  BY DEF Entry
<1> QED
  BY <1>2, <1>3, <1>4

\* What caunlink makes of the table.
Unlinks(cb, ix, new) ==
  LET p == cb.entries[ix].prev
      q == cb.entries[ix].next
  IN /\ new = [entries |-> new.entries, chains |-> new.chains, free |-> ix,
               nument |-> cb.nument - 1]
     /\ DOMAIN new.entries = Spots
     /\ new.entries = [j \in Spots |-> new.entries[j]]
     /\ new.entries[ix] = [Entry EXCEPT !.next = cb.free]
     /\ \A j \in Spots \ {ix} :
          new.entries[j] = [cb.entries[j] EXCEPT !.next = IF j = p /\ p # 0 THEN q ELSE @,
                                                 !.prev = IF j = q THEN p ELSE @]
     /\ new.chains = IF p = 0 THEN [cb.chains EXCEPT ![ChainOf(cb.entries[ix].key)] = q]
                     ELSE cb.chains

LEMMA UnlinkEffect ==
  ASSUME NamesAssumption, NEW cb, IsCache(cb), NEW ix \in Slots
  PROVE  Unlinks(cb, ix, caunlink(cb, ix))
<1> DEFINE p == cb.entries[ix].prev
           q == cb.entries[ix].next
           h == ChainOf(cb.entries[ix].key)
           chains2 == IF p = 0 THEN [cb.chains EXCEPT ![h] = q] ELSE cb.chains
           entries2 == IF p = 0 THEN cb.entries
                       ELSE [cb.entries EXCEPT ![p] = [cb.entries[p] EXCEPT !.next = q]]
           entries3 == [entries2 EXCEPT ![q] = [entries2[q] EXCEPT !.prev = p]]
           entries4 == [entries3 EXCEPT ![ix] = [Entry EXCEPT !.next = cb.free]]
           last == [entries |-> entries4, chains |-> chains2, free |-> ix,
                    nument |-> cb.nument - 1]
<1>1. cb = [entries |-> cb.entries, chains |-> cb.chains, free |-> cb.free, nument |-> cb.nument]
  BY DEF IsCache
<1>2. caunlink(cb, ix) = last
  <2> DEFINE out == IF p = 0 THEN [cb EXCEPT !.chains[h] = q] ELSE [cb EXCEPT !.entries[p].next = q]
             linked == [out EXCEPT !.entries[q].prev = p]
             cleared == caclear(linked, ix)
  <2>1. out = [entries |-> entries2, chains |-> chains2, free |-> cb.free, nument |-> cb.nument]
    BY <1>1
  <2>2. linked = [entries |-> entries3, chains |-> chains2, free |-> cb.free, nument |-> cb.nument]
    <3> HIDE DEF out, entries2, chains2
    <3> QED
      BY <2>1
  <2>3. cleared = [entries |-> [entries3 EXCEPT ![ix] = Entry], chains |-> chains2,
                   free |-> cb.free, nument |-> cb.nument]
    <3> HIDE DEF linked, entries3, chains2
    <3> QED
      BY <2>2 DEF caclear
  <2>4. ix \in DOMAIN entries3
    BY DEF IsCache, Slots, Spots
  <2>5. [cleared EXCEPT !.entries[ix].next = cb.free, !.free = ix, !.nument = @ - 1] = last
    <3> DEFINE entries5 == [entries3 EXCEPT ![ix] = Entry]
    <3>1. entries5[ix] = Entry
      <4> HIDE DEF entries3
      <4> QED
        BY <2>4
    <3>2. [entries5 EXCEPT ![ix] = [entries5[ix] EXCEPT !.next = cb.free]] = entries4
      <4>1. [entries5 EXCEPT ![ix] = [Entry EXCEPT !.next = cb.free]] = entries4
        <5> HIDE DEF entries3
        <5> QED
          BY <2>4
      <4> HIDE DEF entries5, entries4
      <4> QED
        BY <3>1, <4>1
    <3> HIDE DEF entries5, entries4, cleared, chains2
    <3>3. [cleared EXCEPT !.entries[ix].next = cb.free, !.free = ix, !.nument = @ - 1]
          = [entries |-> [entries5 EXCEPT ![ix] = [entries5[ix] EXCEPT !.next = cb.free]],
             chains |-> chains2, free |-> ix, nument |-> cb.nument - 1]
      <4> DEFINE X == [entries5 EXCEPT ![ix] = [entries5[ix] EXCEPT !.next = cb.free]]
                 first == [cleared EXCEPT !.entries[ix].next = cb.free]
      <4>1. cleared = [entries |-> entries5, chains |-> chains2, free |-> cb.free,
                       nument |-> cb.nument]
        BY <2>3 DEF entries5
      <4>2. cleared.entries = entries5
        BY <4>1
      <4>3. first = [cleared EXCEPT !.entries = X]
        BY <4>2
      <4> HIDE DEF X, first
      <4>4. first = [entries |-> X, chains |-> chains2, free |-> cb.free, nument |-> cb.nument]
        BY <4>1, <4>3
      <4>5. cleared.nument = cb.nument /\ first.nument = cb.nument
        BY <4>1, <4>4
      <4> DEFINE second == [first EXCEPT !.free = ix]
                 less == cb.nument - 1
      <4>6. second = [entries |-> X, chains |-> chains2, free |-> ix, nument |-> cb.nument]
        BY <4>4
      <4>7. [first EXCEPT !.free = ix, !.nument = @ - 1] = [second EXCEPT !.nument = less]
        BY <4>5
      <4>8. [second EXCEPT !.nument = less]
            = [entries |-> X, chains |-> chains2, free |-> ix, nument |-> less]
        <5> HIDE DEF second, less
        <5> QED
          BY <4>6
      <4> QED
        BY <4>7, <4>8 DEF X, first
    <3> QED
      BY <3>2, <3>3
  <2>6. caunlink(cb, ix) = [cleared EXCEPT !.entries[ix].next = cb.free, !.free = ix, !.nument = @ - 1]
    BY DEF caunlink
  <2> QED
    BY <2>5, <2>6
<1>3. cb.entries \in [Spots -> EntrySet] /\ p \in Spots /\ q \in Spots /\ ix \in Spots
  BY DEF IsCache, EntrySet, Slots, Spots
<1>4. \A j \in Spots : cb.entries[j] = [inuse |-> cb.entries[j].inuse, key |-> cb.entries[j].key,
                                        result |-> cb.entries[j].result,
                                        access |-> cb.entries[j].access,
                                        prev |-> cb.entries[j].prev, next |-> cb.entries[j].next]
  BY <1>3 DEF EntrySet
<1>5. DOMAIN entries4 = Spots /\ entries4[ix] = [Entry EXCEPT !.next = cb.free]
      /\ entries4 = [j \in Spots |-> entries4[j]]
  BY <1>3
<1>6. ASSUME NEW j \in Spots \ {ix}
      PROVE  entries4[j] = [cb.entries[j] EXCEPT !.next = IF j = p /\ p # 0 THEN q ELSE @,
                                                 !.prev = IF j = q THEN p ELSE @]
  <2>1. DOMAIN entries2 = Spots
        /\ entries2[j] = [cb.entries[j] EXCEPT !.next = IF j = p /\ p # 0 THEN q ELSE @]
    BY <1>3, <1>4
  <2>2. entries4[j] = entries3[j]
    BY <1>3
  <2>3. entries3[j] = [entries2[j] EXCEPT !.prev = IF j = q THEN p ELSE @]
    <3>1. entries3[j] = IF j = q THEN [entries2[j] EXCEPT !.prev = p] ELSE entries2[j]
      <4> HIDE DEF entries2
      <4> QED
        BY <2>1
    <3>2. entries2[j] = [inuse |-> cb.entries[j].inuse, key |-> cb.entries[j].key,
                         result |-> cb.entries[j].result, access |-> cb.entries[j].access,
                         prev |-> cb.entries[j].prev, next |-> entries2[j].next]
      <4> HIDE DEF entries2
      <4> QED
        BY <1>4, <2>1
    <3> HIDE DEF entries2, entries3
    <3> QED
      BY <3>1, <3>2
  <2> HIDE DEF entries2, entries3, entries4
  <2> QED
    BY <2>1, <2>2, <2>3, <1>4
<1>7. last = [entries |-> last.entries, chains |-> last.chains, free |-> ix, nument |-> cb.nument - 1]
      /\ last.entries = entries4 /\ last.chains = chains2
  OBVIOUS
<1> HIDE DEF last, entries4
<1> QED
  BY <1>2, <1>5, <1>6, <1>7, ZenonT(60) DEF Unlinks

LEMMA UnlinkKeeps ==
  ASSUME NamesAssumption, NEW cb, IsCache(cb), NEW ix \in Slots, NEW new, Unlinks(cb, ix, new)
  PROVE  /\ IsCache(new)
         /\ Told(cb) => Told(new)
         /\ \A U, F : Tidy(cb, U, F) /\ ix \in U => Tidy(new, U \ {ix}, F \cup {ix})
         /\ \A j \in Spots \ {ix} : new.entries[j].key = cb.entries[j].key
<1> DEFINE p == cb.entries[ix].prev
           q == cb.entries[ix].next
           h0 == ChainOf(cb.entries[ix].key)
<1>1. ix \in Spots /\ ix # 0 /\ cb.free \in Spots /\ 0 \in Spots
  BY DEF Slots, Spots, IsCache, NamesAssumption
<1>2. \A j \in Spots : /\ cb.entries[j] \in EntrySet
                       /\ cb.entries[j].prev \in Spots /\ cb.entries[j].next \in Spots
  BY DEF IsCache, EntrySet
<1>3. ASSUME NEW j \in Spots \ {ix}
      PROVE  /\ new.entries[j] \in EntrySet
             /\ new.entries[j].key = cb.entries[j].key
             /\ new.entries[j].result = cb.entries[j].result
             /\ new.entries[j].inuse = cb.entries[j].inuse
             /\ new.entries[j].next = IF j = p /\ p # 0 THEN q ELSE cb.entries[j].next
             /\ new.entries[j].prev = IF j = q THEN p ELSE cb.entries[j].prev
  <2> DEFINE a == IF j = p /\ p # 0 THEN q ELSE cb.entries[j].next
             b == IF j = q THEN p ELSE cb.entries[j].prev
  <2>1. new.entries[j] = [cb.entries[j] EXCEPT !.next = a, !.prev = b]
    BY DEF Unlinks
  <2>2. a \in Spots /\ b \in Spots
    BY <1>1, <1>2
  <2>3. cb.entries[j] \in EntrySet
    BY <1>2
  <2> HIDE DEF a, b
  <2>4. /\ new.entries[j] \in EntrySet
        /\ new.entries[j].key = cb.entries[j].key
        /\ new.entries[j].result = cb.entries[j].result
        /\ new.entries[j].inuse = cb.entries[j].inuse
        /\ new.entries[j].next = a
        /\ new.entries[j].prev = b
    BY <2>1, <2>2, <2>3 DEF EntrySet
  <2> QED
    BY <2>4 DEF a, b
<1>4. new.entries[ix] = [Entry EXCEPT !.next = cb.free]
  BY DEF Unlinks
<1>5. /\ new.entries[ix] \in EntrySet /\ new.entries[ix].next = cb.free
      /\ new.entries[ix].key = "none" /\ new.entries[ix].inuse = FALSE
  BY <1>1, <1>4, EntryIsOne
<1>6. new.entries \in [Spots -> EntrySet]
  <2>1. \A j \in Spots : new.entries[j] \in EntrySet
    BY <1>3, <1>5
  <2> QED
    BY <2>1 DEF Unlinks
<1>7. new.chains = IF p = 0 THEN [cb.chains EXCEPT ![h0] = q] ELSE cb.chains
  BY DEF Unlinks
<1>8. new.chains \in [0..(HashSize - 1) -> Spots]
  <2>1. q \in Spots /\ cb.chains \in [0..(HashSize - 1) -> Spots]
    BY <1>1, <1>2 DEF IsCache
  <2> HIDE DEF q, p, h0
  <2> QED
    BY <1>7, <2>1
<1>9. new.free = ix /\ new.nument = cb.nument - 1
      /\ new = [entries |-> new.entries, chains |-> new.chains, free |-> new.free,
                nument |-> new.nument]
  <2> DEFINE less == cb.nument - 1
  <2>1. new = [entries |-> new.entries, chains |-> new.chains, free |-> ix, nument |-> less]
    BY Zenon DEF Unlinks
  <2> HIDE DEF less
  <2>2. new.free = ix /\ new.nument = less
    BY <2>1
  <2> QED
    BY <2>1, <2>2 DEF less
<1>10. IsCache(new)
  <2>1. cb.nument \in Int /\ new.nument \in Int
    BY <1>9 DEF IsCache
  <2> QED
    BY <1>1, <1>6, <1>8, <1>9, <2>1 DEF IsCache
<1>11. ASSUME Told(cb)
       PROVE  Told(new)
  <2>1. "none" \notin Keys
    BY DEF NamesAssumption, Keys
  <2>2. \A j \in Spots \ {ix} : new.entries[j].key \in Keys =>
                                  new.entries[j].result = Resolver[new.entries[j].key]
    BY <1>3, <1>11 DEF Told
  <2> QED
    BY <1>5, <2>1, <2>2 DEF Told
<1>12. ASSUME NEW U, NEW F, Tidy(cb, U, F), ix \in U
       PROVE  Tidy(new, U \ {ix}, F \cup {ix})
  <2> DEFINE V == U \ {ix}
  <2>1. /\ U \subseteq Slots /\ F \subseteq Slots /\ U \cap F = {} /\ ix \notin F
        /\ V \subseteq Slots /\ F \cup {ix} \subseteq Slots /\ V \cap (F \cup {ix}) = {}
    BY <1>12 DEF Tidy
  <2>2. \A j \in Slots : j \in Spots
    BY DEF Slots, Spots
  <2>3. \A j \in V : j \in Spots \ {ix} /\ new.entries[j].key = cb.entries[j].key
    BY <1>3, <2>1, <2>2
  <2>4. V = {j \in Slots : new.entries[j].inuse}
    <3>1. \A j \in Slots \ {ix} : j \in V <=> cb.entries[j].inuse
      BY <1>12 DEF Tidy
    <3>2. \A j \in Slots \ {ix} : new.entries[j].inuse = cb.entries[j].inuse
      BY <1>3, <2>2
    <3> QED
      BY <1>5, <2>1, <3>1, <3>2
  <2>5. \A j \in V : new.entries[j].key \in Keys
    BY <1>12, <2>3 DEF Tidy
  <2>6. \A i, j \in V : i # j => new.entries[i].key # new.entries[j].key
    BY <1>12, <2>3 DEF Tidy
  <2>7. HangOn(new.entries, new.free, F \cup {ix})
    <3>1. HangOn(cb.entries, cb.free, F)
      BY <1>12 DEF Tidy
    <3>2. HangBoth(cb.entries, cb.chains[h0], OfChain(cb.entries, U, h0)) /\ ix \in OfChain(cb.entries, U, h0)
      <4>1. h0 \in 0..(HashSize - 1)
        BY <1>12, ChainOfKey DEF Tidy
      <4> QED
        BY <1>12, <4>1 DEF Tidy, OfChain
    <3>3. p # 0 => p \in U
      <4>1. p # 0 => p \in OfChain(cb.entries, U, h0) \ {ix}
        <5>1. Removable(cb.entries, cb.chains[h0], OfChain(cb.entries, U, h0), ix, p, q)
          BY <3>2, TakeOut, Zenon
        <5> QED
          BY <5>1, Zenon DEF Removable
      <4> QED
        BY <4>1 DEF OfChain
    <3>4. \A j \in F : j \in Spots \ {ix} /\ j # p
      <4>1. \A j \in F : j # 0
        BY <2>1 DEF Slots
      <4> QED
        BY <2>1, <2>2, <3>3, <4>1
    <3>5. \A j \in F : new.entries[j].next = cb.entries[j].next
      BY <1>3, <3>4
    <3> QED
      BY <1>5, <1>9, <2>1, <3>1, <3>5, PutFirst
  <2>8. ASSUME NEW h \in 0..(HashSize - 1)
        PROVE  HangBoth(new.entries, new.chains[h], OfChain(new.entries, V, h))
    <3>1. HangBoth(cb.entries, cb.chains[h], OfChain(cb.entries, U, h))
      BY <1>12 DEF Tidy
    <3>2. OfChain(new.entries, V, h) = OfChain(cb.entries, U, h) \ {ix}
      BY <2>3 DEF OfChain
    <3>3. cb.chains \in [0..(HashSize - 1) -> Spots]
      BY DEF IsCache
    <3>4. h0 \in 0..(HashSize - 1)
      BY <1>12, ChainOfKey DEF Tidy
    <3>5. \A j \in OfChain(cb.entries, U, h) \ {ix} : j \in Spots \ {ix} /\ j # 0
      <4>1. \A j \in Slots : j # 0
        BY DEF Slots
      <4> QED
        BY <2>1, <2>2, <4>1 DEF OfChain
    <3>6. \A j \in OfChain(cb.entries, U, h) \ {ix} :
             /\ new.entries[j].next = IF j = p THEN q ELSE cb.entries[j].next
             /\ new.entries[j].prev = IF j = q THEN p ELSE cb.entries[j].prev
      BY <1>3, <3>5
    <3>7. CASE h = h0
      <4>1. ix \in OfChain(cb.entries, U, h)
        BY <1>12, <3>7 DEF OfChain
      <4>2. Bridged(cb.entries, new.entries, OfChain(cb.entries, U, h) \ {ix}, p, q)
        BY <3>6 DEF Bridged
      <4>3. /\ p = 0 => HangBoth(new.entries, q, OfChain(cb.entries, U, h) \ {ix})
            /\ p # 0 => HangBoth(new.entries, cb.chains[h], OfChain(cb.entries, U, h) \ {ix})
        <5>1. Removable(cb.entries, cb.chains[h], OfChain(cb.entries, U, h), ix, p, q)
          BY <3>1, <4>1, TakeOut, Zenon
        <5> QED
          BY <4>2, <5>1, Zenon DEF Removable
      <4>4. /\ p = 0 => new.chains[h] = q
            /\ p # 0 => new.chains[h] = cb.chains[h]
        BY <1>7, <3>3, <3>7
      <4> QED
        BY <3>2, <4>3, <4>4
    <3>8. CASE h # h0
      <4>1. HangBoth(cb.entries, cb.chains[h0], OfChain(cb.entries, U, h0)) /\ ix \in OfChain(cb.entries, U, h0)
        BY <1>12, <3>4 DEF Tidy, OfChain
      <4>2. /\ p # 0 => p \in OfChain(cb.entries, U, h0)
            /\ q # 0 => q \in OfChain(cb.entries, U, h0)
        <5>1. Removable(cb.entries, cb.chains[h0], OfChain(cb.entries, U, h0), ix, p, q)
          BY <4>1, TakeOut, Zenon
        <5> QED
          BY <5>1, Zenon DEF Removable
      <4>3. ix \notin OfChain(cb.entries, U, h)
            /\ \A j \in OfChain(cb.entries, U, h) : j \notin OfChain(cb.entries, U, h0)
        BY <3>8 DEF OfChain
      <4>4. \A j \in OfChain(cb.entries, U, h) : j # p /\ j # q
        BY <3>5, <4>2, <4>3
      <4>5. \A j \in OfChain(cb.entries, U, h) : /\ new.entries[j].next = cb.entries[j].next
                                                 /\ new.entries[j].prev = cb.entries[j].prev
        BY <3>6, <4>3, <4>4
      <4>6. new.chains[h] = cb.chains[h]
        BY <1>7, <3>3, <3>8
      <4>7. HangBoth(new.entries, cb.chains[h], OfChain(cb.entries, U, h))
        BY <3>1, <4>5, Undisturbed
      <4> QED
        BY <3>2, <4>3, <4>6, <4>7
    <3> QED
      BY <3>7, <3>8
  <2> QED
    BY <2>1, <2>4, <2>5, <2>6, <2>7, <2>8 DEF Tidy
<1> QED
  BY <1>3, <1>10, <1>11, <1>12

LEMMA OldestIs ==
  ASSUME NamesAssumption, NEW cb, IsCache(cb)
  PROVE  \E ix \in Slots : cadeleteold(cb) = caunlink(cb, ix)
<1> DEFINE oldest(ix) == \A j \in Slots : /\ cb.entries[ix].access <= cb.entries[j].access
                                          /\ j < ix => cb.entries[ix].access < cb.entries[j].access
<1>1. \A j \in Slots : j \in Nat /\ cb.entries[j].access \in Nat
  <2>1. \A j \in Slots : j \in Nat /\ j \in Spots
    BY DEF Slots, Spots
  <2> QED
    BY <2>1 DEF IsCache, EntrySet
<1>2. \E ix \in Slots : oldest(ix)
  <2> DEFINE A == {cb.entries[j].access : j \in Slots}
  <2>1. A \in SUBSET Nat /\ A # {}
    <3>1. 1 \in Slots
      BY DEF NamesAssumption, Slots
    <3> QED
      BY <1>1, <3>1
  <2>2. PICK a \in A : \A b \in A : a <= b
    <3> HIDE DEF A
    <3> QED
      BY <2>1, Least
  <2> DEFINE B == {j \in Slots : cb.entries[j].access = a}
  <2>3. B \in SUBSET Nat /\ B # {}
    BY <1>1
  <2>4. PICK ix \in B : \A j \in B : ix <= j
    <3> HIDE DEF B
    <3> QED
      BY <2>3, Least
  <2>5. ix \in Slots /\ cb.entries[ix].access = a
    OBVIOUS
  <2>6. ASSUME NEW j \in Slots
        PROVE  /\ cb.entries[ix].access <= cb.entries[j].access
               /\ j < ix => cb.entries[ix].access < cb.entries[j].access
    <3>1. a <= cb.entries[j].access
      BY <2>2
    <3>2. j < ix => cb.entries[j].access # a
      <4>1. cb.entries[j].access = a => ix <= j
        BY <2>4
      <4> QED
        BY <1>1, <2>5, <4>1
    <3> QED
      BY <1>1, <2>1, <2>2, <2>5, <3>1, <3>2
  <2> QED
    BY <2>5, <2>6
<1> DEFINE ix == CHOOSE k \in Slots : oldest(k)
<1>3. ix \in Slots
  <2> HIDE DEF oldest
  <2> QED
    BY <1>2
<1>4. cadeleteold(cb) = caunlink(cb, ix)
  BY DEF cadeleteold
<1> QED
  BY <1>3, <1>4

\* The free list gives up its first entry.
Pop(cb) == [cb EXCEPT !.free = cb.entries[cb.free].next, !.nument = @ + 1]

LEMMA PopKeeps ==
  ASSUME NEW cb, IsCache(cb)
  PROVE  /\ IsCache(Pop(cb))
         /\ Pop(cb).entries = cb.entries /\ Pop(cb).nument = cb.nument + 1
         /\ Told(cb) => Told(Pop(cb))
         /\ \A U, F : Tidy(cb, U, F) /\ cb.free # 0 =>
                        cb.free \in F /\ Tidy(Pop(cb), U, F \ {cb.free})
<1> DEFINE next == cb.entries[cb.free].next
           more == cb.nument + 1
<1>1. cb = [entries |-> cb.entries, chains |-> cb.chains, free |-> cb.free, nument |-> cb.nument]
  BY DEF IsCache
<1>2. next \in Spots /\ more \in Int
  BY DEF IsCache, EntrySet
<1>3. Pop(cb) = [entries |-> cb.entries, chains |-> cb.chains, free |-> next, nument |-> more]
  <2>1. Pop(cb) = [cb EXCEPT !.free = next, !.nument = more]
    BY DEF Pop
  <2> HIDE DEF next, more
  <2> QED
    BY <1>1, <2>1
<1> HIDE DEF next, more
<1>4. Pop(cb).entries = cb.entries /\ Pop(cb).chains = cb.chains /\ Pop(cb).free = next
      /\ Pop(cb).nument = more
  BY <1>3
<1>5. IsCache(Pop(cb))
  BY <1>2, <1>3, <1>4 DEF IsCache
<1>6. Told(cb) => Told(Pop(cb))
  BY <1>4 DEF Told
<1>7. ASSUME NEW U, NEW F, Tidy(cb, U, F), cb.free # 0
      PROVE  cb.free \in F /\ Tidy(Pop(cb), U, F \ {cb.free})
  <2>1. cb.free \in F /\ HangOn(cb.entries, next, F \ {cb.free})
    BY <1>7, TakeFirst DEF Tidy, next
  <2>2. F \ {cb.free} \subseteq Slots /\ U \cap (F \ {cb.free}) = {}
    BY <1>7 DEF Tidy
  <2> QED
    BY <1>4, <1>7, <2>1, <2>2 DEF Tidy
<1> QED
  BY <1>4, <1>5, <1>6, <1>7 DEF more

\* A slot ix to fill, in the table new; an entry may have gone for it.
Grants(cb, new, ix) ==
  /\ IsCache(new) /\ ix \in Slots
  /\ Told(cb) => Told(new)
  /\ \A U : Tidy(cb, U, Slots \ U) /\ cb.nument = Cardinality(U) =>
       \E V : /\ V \subseteq U /\ ix \notin V
              /\ Tidy(new, V, (Slots \ V) \ {ix})
              /\ new.nument = Cardinality(V) + 1
              /\ \A j \in V : new.entries[j].key = cb.entries[j].key

LEMMA GetFree ==
  ASSUME NamesAssumption, NEW cb, IsCache(cb)
  PROVE  Grants(cb, cagetfree(cb)[1], cagetfree(cb)[2])
<1> DEFINE room == IF cb.free = 0 THEN cadeleteold(cb) ELSE cb
<1>1. cagetfree(cb)[1] = Pop(room) /\ cagetfree(cb)[2] = room.free
  BY DEF cagetfree, Pop
<1>2. CASE cb.free # 0
  <2>1. room = cb
    BY <1>2
  <2>2. cb.free \in Slots
    BY <1>2 DEF IsCache, Spots, Slots
  <2>3. ASSUME NEW U, Tidy(cb, U, Slots \ U), cb.nument = Cardinality(U)
        PROVE  /\ U \subseteq U /\ cb.free \notin U
               /\ Tidy(Pop(cb), U, (Slots \ U) \ {cb.free})
               /\ Pop(cb).nument = Cardinality(U) + 1
               /\ \A j \in U : Pop(cb).entries[j].key = cb.entries[j].key
    <3>1. cb.free \in Slots \ U /\ Tidy(Pop(cb), U, (Slots \ U) \ {cb.free})
      BY <1>2, <2>3, PopKeeps
    <3>2. Pop(cb).entries = cb.entries /\ Pop(cb).nument = Cardinality(U) + 1
      BY <2>3, PopKeeps
    <3> QED
      BY <3>1, <3>2
  <2>4. IsCache(Pop(cb)) /\ (Told(cb) => Told(Pop(cb)))
    BY PopKeeps
  <2>5. Grants(cb, Pop(cb), cb.free)
    BY <2>2, <2>3, <2>4 DEF Grants
  <2> QED
    BY <1>1, <2>1, <2>5
<1>3. CASE cb.free = 0
  <2>1. PICK old \in Slots : cadeleteold(cb) = caunlink(cb, old)
    BY OldestIs
  <2> DEFINE less == caunlink(cb, old)
  <2>2. room = less
    BY <1>3, <2>1
  <2>3. Unlinks(cb, old, less)
    BY UnlinkEffect
  <2> HIDE DEF less, room
  <2>4. /\ IsCache(less) /\ (Told(cb) => Told(less))
        /\ \A U, F : Tidy(cb, U, F) /\ old \in U => Tidy(less, U \ {old}, F \cup {old})
        /\ \A j \in Spots \ {old} : less.entries[j].key = cb.entries[j].key
    BY <2>3, UnlinkKeeps
  <2>5. less.free = old /\ less.nument = cb.nument - 1
    <3> DEFINE n == cb.nument - 1
    <3>1. less = [entries |-> less.entries, chains |-> less.chains, free |-> old, nument |-> n]
      BY <2>3, Zenon DEF Unlinks
    <3> HIDE DEF n
    <3>2. less.free = old /\ less.nument = n
      BY <3>1
    <3> QED
      BY <3>2 DEF n
  <2>6. old # 0
    BY DEF Slots
  <2>7. IsCache(Pop(less)) /\ (Told(cb) => Told(Pop(less)))
    BY <2>4, PopKeeps
  <2>8. ASSUME NEW U, Tidy(cb, U, Slots \ U), cb.nument = Cardinality(U)
        PROVE  \E V : /\ V \subseteq U /\ old \notin V
                      /\ Tidy(Pop(less), V, (Slots \ V) \ {old})
                      /\ Pop(less).nument = Cardinality(V) + 1
                      /\ \A j \in V : Pop(less).entries[j].key = cb.entries[j].key
    <3>1. Slots \ U = {} /\ U \subseteq Slots
      BY <1>3, <2>8, TakeFirst DEF Tidy
    <3>2. old \in U /\ U = Slots
      BY <3>1
    <3> DEFINE V == U \ {old}
    <3>3. Tidy(less, V, (Slots \ U) \cup {old})
      BY <2>4, <2>8, <3>2
    <3>4. Tidy(Pop(less), V, ((Slots \ U) \cup {old}) \ {old})
      BY <2>4, <2>5, <2>6, <3>3, PopKeeps
    <3>5. (Slots \ V) \ {old} = ((Slots \ U) \cup {old}) \ {old}
      OBVIOUS
    <3>6. IsFiniteSet(U)
      <4>1. IsFiniteSet(1..MaxEntries)
        BY FS_Interval DEF NamesAssumption
      <4> QED
        BY <3>2, <4>1 DEF Slots
    <3>7. Cardinality(V) = Cardinality(U) - 1 /\ Cardinality(U) \in Nat
      BY <3>2, <3>6, FS_RemoveElement, FS_CardinalityType
    <3>8. Pop(less).nument = Cardinality(V) + 1 /\ Pop(less).entries = less.entries
      <4>1. Pop(less).nument = less.nument + 1 /\ Pop(less).entries = less.entries
        BY <2>4, PopKeeps
      <4> HIDE DEF V
      <4> QED
        BY <2>5, <2>8, <3>7, <4>1
    <3>9. \A j \in V : Pop(less).entries[j].key = cb.entries[j].key
      <4>1. \A j \in V : j \in Spots \ {old}
        BY <3>1 DEF Slots, Spots
      <4> QED
        BY <2>4, <3>8, <4>1
    <3> QED
      BY <3>4, <3>5, <3>8, <3>9
  <2>9. Grants(cb, Pop(less), old)
    BY <2>7, <2>8 DEF Grants
  <2> QED
    BY <1>1, <2>2, <2>5, <2>9
<1> QED
  BY <1>2, <1>3

\* cainsert: ix goes to the head of a chain, and is filled.
Placed(cb, ix, h) ==
  [cb EXCEPT !.entries[ix].prev = 0, !.entries[ix].next = cb.chains[h],
             !.entries[cb.chains[h]].prev = ix, !.chains[h] = ix]
Filled(cb, ix, key, result) ==
  [cb EXCEPT !.entries[ix].inuse = TRUE, !.entries[ix].key = key,
             !.entries[ix].result = result, !.entries[ix].access = seconds]

SetAt(cb, ix, y) == [cb EXCEPT !.entries = [cb.entries EXCEPT ![ix] = y]]
OnlyAt(cb, ix, y, new) ==
  /\ IsCache(new) /\ new.chains = cb.chains /\ new.free = cb.free
  /\ new.nument = cb.nument
  /\ new.entries[ix] = y
  /\ \A j \in Spots \ {ix} : new.entries[j] = cb.entries[j]

LEMMA SetEntry ==
  ASSUME NEW cb, IsCache(cb), NEW ix \in Spots, NEW y \in EntrySet
  PROVE  OnlyAt(cb, ix, y, SetAt(cb, ix, y))
<1> DEFINE new == SetAt(cb, ix, y)
           E == [cb.entries EXCEPT ![ix] = y]
<1>1. cb = [entries |-> cb.entries, chains |-> cb.chains, free |-> cb.free, nument |-> cb.nument]
  BY DEF IsCache
<1>2. E \in [Spots -> EntrySet] /\ E[ix] = y /\ \A j \in Spots \ {ix} : E[j] = cb.entries[j]
  BY DEF IsCache
<1>3. new = [entries |-> E, chains |-> cb.chains, free |-> cb.free, nument |-> cb.nument]
  <2>1. new = [cb EXCEPT !.entries = E]
    BY DEF SetAt
  <2> HIDE DEF E, new
  <2> QED
    BY <1>1, <2>1
<1> HIDE DEF E, new
<1>4. new.entries = E /\ new.chains = cb.chains /\ new.free = cb.free /\ new.nument = cb.nument
  BY <1>3
<1>5. IsCache(new)
  BY <1>2, <1>3, <1>4 DEF IsCache
<1>6. OnlyAt(cb, ix, y, new)
  BY <1>2, <1>4, <1>5 DEF OnlyAt
<1> QED
  BY <1>6 DEF new

FillsIn(cb, ix, key, new) ==
  /\ IsCache(new) /\ new.chains = cb.chains /\ new.free = cb.free /\ new.nument = cb.nument
  /\ new.entries[ix].inuse = TRUE /\ new.entries[ix].key = key
  /\ new.entries[ix].result = Resolver[key]
  /\ new.entries[ix].prev = cb.entries[ix].prev /\ new.entries[ix].next = cb.entries[ix].next
  /\ \A j \in Spots \ {ix} : new.entries[j] = cb.entries[j]

LEMMA FillEffect ==
  ASSUME NEW cb, IsCache(cb), NEW ix \in Spots, NEW key \in Keys, seconds \in Nat
  PROVE  FillsIn(cb, ix, key, Filled(cb, ix, key, Resolver[key]))
<1> DEFINE r == Resolver[key]
           y1 == [cb.entries[ix] EXCEPT !.inuse = TRUE]
           c1 == SetAt(cb, ix, y1)
           y2 == [c1.entries[ix] EXCEPT !.key = key]
           c2 == SetAt(c1, ix, y2)
           y3 == [c2.entries[ix] EXCEPT !.result = r]
           c3 == SetAt(c2, ix, y3)
           y4 == [c3.entries[ix] EXCEPT !.access = seconds]
           c4 == SetAt(c3, ix, y4)
<1>1. Filled(cb, ix, key, r) = c4
  BY DEF Filled, SetAt
<1>2. r \in Results
  BY DEF Results
<1> HIDE DEF r
<1>3. /\ y1 \in EntrySet /\ y1.inuse = TRUE
      /\ y1.prev = cb.entries[ix].prev /\ y1.next = cb.entries[ix].next
  <2>1. cb.entries[ix] \in EntrySet
    BY DEF IsCache
  <2> QED
    BY <2>1 DEF EntrySet
<1>4. /\ IsCache(c1) /\ c1.chains = cb.chains /\ c1.free = cb.free /\ c1.nument = cb.nument
      /\ c1.entries[ix] = y1 /\ \A j \in Spots \ {ix} : c1.entries[j] = cb.entries[j]
  <2> HIDE DEF y1
  <2>1. OnlyAt(cb, ix, y1, c1)
    BY <1>3, SetEntry, Zenon
  <2> HIDE DEF c1
  <2> QED
    BY <2>1 DEF OnlyAt
<1> HIDE DEF y1, c1
<1>5. /\ y2 \in EntrySet /\ y2.inuse = TRUE /\ y2.key = key
      /\ y2.prev = cb.entries[ix].prev /\ y2.next = cb.entries[ix].next
  BY <1>3, <1>4 DEF EntrySet
<1>6. /\ IsCache(c2) /\ c2.chains = cb.chains /\ c2.free = cb.free /\ c2.nument = cb.nument
      /\ c2.entries[ix] = y2 /\ \A j \in Spots \ {ix} : c2.entries[j] = cb.entries[j]
  <2> HIDE DEF y2
  <2>1. OnlyAt(c1, ix, y2, c2)
    BY <1>4, <1>5, SetEntry, Zenon
  <2> HIDE DEF c2
  <2> QED
    BY <1>4, <2>1 DEF OnlyAt
<1> HIDE DEF y2, c2
<1>7. /\ y3 \in EntrySet /\ y3.inuse = TRUE /\ y3.key = key /\ y3.result = r
      /\ y3.prev = cb.entries[ix].prev /\ y3.next = cb.entries[ix].next
  BY <1>2, <1>5, <1>6 DEF EntrySet
<1>8. /\ IsCache(c3) /\ c3.chains = cb.chains /\ c3.free = cb.free /\ c3.nument = cb.nument
      /\ c3.entries[ix] = y3 /\ \A j \in Spots \ {ix} : c3.entries[j] = cb.entries[j]
  <2> HIDE DEF y3
  <2>1. OnlyAt(c2, ix, y3, c3)
    BY <1>6, <1>7, SetEntry, Zenon
  <2> HIDE DEF c3
  <2> QED
    BY <1>6, <2>1 DEF OnlyAt
<1> HIDE DEF y3, c3
<1>9. /\ y4 \in EntrySet /\ y4.inuse = TRUE /\ y4.key = key /\ y4.result = r
      /\ y4.prev = cb.entries[ix].prev /\ y4.next = cb.entries[ix].next
  BY <1>7, <1>8 DEF EntrySet
<1>10. /\ IsCache(c4) /\ c4.chains = cb.chains /\ c4.free = cb.free /\ c4.nument = cb.nument
       /\ c4.entries[ix] = y4 /\ \A j \in Spots \ {ix} : c4.entries[j] = cb.entries[j]
  <2> HIDE DEF y4
  <2>1. OnlyAt(c3, ix, y4, c4)
    BY <1>8, <1>9, SetEntry, Zenon
  <2> HIDE DEF c4
  <2> QED
    BY <1>8, <2>1 DEF OnlyAt
<1> HIDE DEF y4, c4
<1> QED
  BY <1>1, <1>9, <1>10 DEF FillsIn, r

PutsFirst(cb, ix, h, head, new) ==
  /\ IsCache(new) /\ new.free = cb.free /\ new.nument = cb.nument
  /\ new.chains = [cb.chains EXCEPT ![h] = ix]
  /\ new.entries[ix].next = head /\ (head # ix => new.entries[ix].prev = 0)
  /\ \A j \in Spots \ {ix} :
       /\ new.entries[j].inuse = cb.entries[j].inuse
       /\ new.entries[j].key = cb.entries[j].key
       /\ new.entries[j].result = cb.entries[j].result
       /\ new.entries[j].next = cb.entries[j].next
       /\ new.entries[j].prev = IF j = head THEN ix ELSE cb.entries[j].prev

LEMMA PlaceEffect ==
  ASSUME NamesAssumption, NEW cb, IsCache(cb), NEW ix \in Slots, NEW h \in 0..(HashSize - 1)
  PROVE  PutsFirst(cb, ix, h, cb.chains[h], Placed(cb, ix, h))
<1> DEFINE head == cb.chains[h]
           y1 == [cb.entries[ix] EXCEPT !.prev = 0]
           c1 == SetAt(cb, ix, y1)
           y2 == [c1.entries[ix] EXCEPT !.next = head]
           c2 == SetAt(c1, ix, y2)
           y3 == [c2.entries[head] EXCEPT !.prev = ix]
           c3 == SetAt(c2, head, y3)
           c4 == [c3 EXCEPT !.chains = [c3.chains EXCEPT ![h] = ix]]
<1>1. Placed(cb, ix, h) = c4
  BY DEF Placed, SetAt
<1>2. head \in Spots /\ ix \in Spots /\ 0 \in Spots
  BY DEF IsCache, Slots, Spots, NamesAssumption
<1>3. /\ y1 \in EntrySet /\ y1.prev = 0
  <2>1. cb.entries[ix] \in EntrySet
    BY <1>2 DEF IsCache
  <2> QED
    BY <1>2, <2>1 DEF EntrySet
<1>4. /\ IsCache(c1) /\ c1.chains = cb.chains /\ c1.free = cb.free /\ c1.nument = cb.nument
      /\ c1.entries[ix] = y1 /\ \A j \in Spots \ {ix} : c1.entries[j] = cb.entries[j]
  <2> HIDE DEF y1
  <2>1. OnlyAt(cb, ix, y1, c1)
    BY <1>2, <1>3, SetEntry, Zenon
  <2> HIDE DEF c1
  <2> QED
    BY <2>1 DEF OnlyAt
<1> HIDE DEF y1, c1, head
<1>5. y2 \in EntrySet /\ y2.prev = 0 /\ y2.next = head
  BY <1>2, <1>3, <1>4 DEF EntrySet
<1>6. /\ IsCache(c2) /\ c2.chains = cb.chains /\ c2.free = cb.free /\ c2.nument = cb.nument
      /\ c2.entries[ix] = y2 /\ \A j \in Spots \ {ix} : c2.entries[j] = cb.entries[j]
  <2> HIDE DEF y2
  <2>1. OnlyAt(c1, ix, y2, c2)
    BY <1>2, <1>4, <1>5, SetEntry, Zenon
  <2> HIDE DEF c2
  <2> QED
    BY <1>4, <2>1 DEF OnlyAt
<1> HIDE DEF y2, c2
<1>7. c2.entries[head] \in EntrySet
  BY <1>2, <1>6 DEF IsCache
<1>8. /\ y3 \in EntrySet /\ y3.prev = ix
      /\ y3.inuse = c2.entries[head].inuse /\ y3.key = c2.entries[head].key
      /\ y3.result = c2.entries[head].result /\ y3.next = c2.entries[head].next
  BY <1>2, <1>7 DEF EntrySet
<1>9. /\ IsCache(c3) /\ c3.chains = cb.chains /\ c3.free = cb.free /\ c3.nument = cb.nument
      /\ c3.entries[head] = y3 /\ \A j \in Spots \ {head} : c3.entries[j] = c2.entries[j]
  <2> HIDE DEF y3
  <2>1. OnlyAt(c2, head, y3, c3)
    BY <1>2, <1>6, <1>8, SetEntry, Zenon
  <2> HIDE DEF c3
  <2> QED
    BY <1>6, <2>1 DEF OnlyAt
<1> HIDE DEF y3, c3
<1>10. /\ IsCache(c4) /\ c4.chains = [cb.chains EXCEPT ![h] = ix] /\ c4.free = cb.free
       /\ c4.nument = cb.nument /\ c4.entries = c3.entries
  <2> DEFINE C == [cb.chains EXCEPT ![h] = ix]
  <2>1. C \in [0..(HashSize - 1) -> Spots]
    BY <1>2 DEF IsCache
  <2>2. c4 = [c3 EXCEPT !.chains = C]
    BY <1>9
  <2> HIDE DEF C, c4
  <2>3. c3 = [entries |-> c3.entries, chains |-> c3.chains, free |-> c3.free, nument |-> c3.nument]
    BY <1>9 DEF IsCache
  <2>4. c4 = [entries |-> c3.entries, chains |-> C, free |-> c3.free, nument |-> c3.nument]
    BY <2>2, <2>3
  <2>5. c4.entries = c3.entries /\ c4.chains = C /\ c4.free = c3.free /\ c4.nument = c3.nument
    BY <2>4
  <2>6. IsCache(c4)
    BY <1>9, <2>1, <2>4, <2>5 DEF IsCache
  <2> QED
    BY <1>9, <2>5, <2>6 DEF C
<1> HIDE DEF c4
<1>11. c4.entries[ix].next = head /\ (head # ix => c4.entries[ix].prev = 0)
  <2>1. CASE head = ix
    BY <1>5, <1>6, <1>8, <1>9, <1>10, <2>1
  <2>2. CASE head # ix
    BY <1>2, <1>5, <1>6, <1>9, <1>10, <2>2
  <2> QED
    BY <2>1, <2>2
<1>12. ASSUME NEW j \in Spots \ {ix}
       PROVE  /\ c4.entries[j].inuse = cb.entries[j].inuse
              /\ c4.entries[j].key = cb.entries[j].key
              /\ c4.entries[j].result = cb.entries[j].result
              /\ c4.entries[j].next = cb.entries[j].next
              /\ c4.entries[j].prev = IF j = head THEN ix ELSE cb.entries[j].prev
  <2>1. CASE j = head
    BY <1>6, <1>8, <1>9, <1>10, <2>1
  <2>2. CASE j # head
    BY <1>6, <1>9, <1>10, <2>2
  <2> QED
    BY <2>1, <2>2
<1> QED
  BY <1>1, <1>10, <1>11, <1>12 DEF PutsFirst, head

LEMMA IndexIs ==
  ASSUME NamesAssumption, NEW cb, IsCache(cb), NEW key \in Keys
  PROVE  LET ix == cagetindex(cb, key)
         IN /\ ix \in Spots
            /\ ix # 0 => cb.entries[ix].key = key
            /\ \A U, F : Tidy(cb, U, F) /\ ix = 0 => \A j \in U : cb.entries[j].key # key
<1> DEFINE h == ChainOf(key)
           chain == ChainFor(cb, key)
           hits == {i \in DOMAIN chain : cb.entries[chain[i]].key = key}
           first == CHOOSE i \in hits : \A j \in hits : i <= j
<1>1. h \in 0..(HashSize - 1) /\ cb.chains[h] \in Spots
  BY ChainOfKey DEF IsCache
<1>2. \E N \in Nat : chain \in [1..N -> Spots]
  <2>1. PICK g : /\ Walked(g, cb, cb.chains[h])
                 /\ Chain(cb, cb.chains[h])
                      = [n \in 1..Cardinality({m \in 0..MaxEntries : g[m] # 0}) |-> g[n - 1]]
    BY <1>1, ChainIsWalked, ZenonT(60)
  <2> DEFINE T == {m \in 0..MaxEntries : g[m] # 0}
             N == Cardinality(T)
  <2>2. MaxEntries \in Nat
    BY DEF NamesAssumption
  <2>3. IsFiniteSet(0..MaxEntries) /\ Cardinality(0..MaxEntries) = MaxEntries + 1
    BY <2>2, FS_Interval
  <2>4. N \in Nat /\ N <= MaxEntries + 1
    BY <2>3, FS_Subset, FS_CardinalityType
  <2>5. chain = [n \in 1..N |-> g[n - 1]]
    BY <2>1 DEF ChainFor
  <2> HIDE DEF N, chain
  <2>6. \A n \in 1..N : n - 1 \in 0..MaxEntries
    BY <2>2, <2>4
  <2>7. \A n \in 1..N : g[n - 1] \in Spots
    BY <2>1, <2>6 DEF Walked
  <2> QED
    BY <2>4, <2>5, <2>7
<1>3. PICK N \in Nat : chain \in [1..N -> Spots]
  BY <1>2
<1>4. cagetindex(cb, key) = IF hits = {} THEN 0 ELSE chain[first]
  BY ZenonT(60) DEF cagetindex
<1>5. hits # {} => first \in hits
  <2>1. hits \in SUBSET Nat
    BY <1>3
  <2> HIDE DEF hits
  <2>2. hits # {} => \E i \in hits : \A j \in hits : i <= j
    BY <2>1, Least
  <2> QED
    BY <2>2
<1> HIDE DEF chain, first
<1>6. 0 \in Spots
  BY DEF Spots, NamesAssumption
<1>7. CASE hits = {}
  <2>1. ASSUME NEW U, NEW F, Tidy(cb, U, F), NEW j \in U
        PROVE  cb.entries[j].key # key
    <3>1. PICK n, s : /\ Linked(cb.entries, cb.chains[h], n, s)
                      /\ On(n, s) = OfChain(cb.entries, U, h)
      <4>1. HangBoth(cb.entries, cb.chains[h], OfChain(cb.entries, U, h))
        BY <1>1, <2>1 DEF Tidy
      <4> QED
        BY <4>1 DEF HangBoth
    <3>2. chain = s
      BY <3>1, ChainIs, Zenon DEF chain, ChainFor
    <3>4. DOMAIN s = 1..n
      BY <3>1 DEF Linked
    <3>3. ASSUME cb.entries[j].key = key
          PROVE  FALSE
      <4>1. j \in On(n, s)
        BY <3>1, <3>3 DEF OfChain
      <4>2. PICK i \in 1..n : s[i] = j
        BY <4>1 DEF On
      <4> QED
        BY <1>7, <3>2, <3>3, <3>4, <4>2
    <3> QED
      BY <3>3
  <2> QED
    BY <1>4, <1>6, <1>7, <2>1
<1>8. CASE hits # {}
  <2>1. first \in DOMAIN chain /\ cb.entries[chain[first]].key = key
    BY <1>5, <1>8
  <2>2. chain[first] \in Spots
    BY <1>3, <2>1
  <2>3. ASSUME NEW U, NEW F, Tidy(cb, U, F)
        PROVE  chain[first] # 0
    <3>1. PICK n, s : Linked(cb.entries, cb.chains[h], n, s)
      <4>1. HangBoth(cb.entries, cb.chains[h], OfChain(cb.entries, U, h))
        BY <1>1, <2>3 DEF Tidy
      <4> QED
        BY <4>1 DEF HangBoth
    <3>2. chain = s
      BY <3>1, ChainIs, Zenon DEF chain, ChainFor
    <3>4. s \in [1..n -> Slots]
      BY <3>1 DEF Linked
    <3>3. chain[first] \in Slots
      BY <2>1, <3>2, <3>4
    <3> QED
      BY <3>3 DEF Slots
  <2> QED
    BY <1>4, <1>8, <2>1, <2>2, <2>3
<1> QED
  BY <1>7, <1>8

\* An entry more, for a key that had none.
TakesIn(cb, ix, key, new) ==
  /\ IsCache(new) /\ new.nument = cb.nument
  /\ Told(cb) => Told(new)
  /\ \A V, G : /\ Tidy(cb, V, G) /\ ix \notin V /\ ix \notin G
               /\ \A j \in V : cb.entries[j].key # key
               => Tidy(new, V \cup {ix}, G)

LEMMA PutInKeeps ==
  ASSUME NamesAssumption, NEW cb, IsCache(cb), NEW ix \in Slots, NEW key \in Keys, seconds \in Nat,
         NEW new, new = Filled(Placed(cb, ix, ChainOf(key)), ix, key, Resolver[key])
  PROVE  TakesIn(cb, ix, key, new)
<1> DEFINE h == ChainOf(key)
           head == cb.chains[h]
           mid == Placed(cb, ix, h)
<1>1. h \in 0..(HashSize - 1) /\ ix \in Spots /\ ix # 0
  BY ChainOfKey DEF Slots, Spots
<1>2. /\ IsCache(mid) /\ mid.free = cb.free /\ mid.nument = cb.nument
      /\ mid.chains = [cb.chains EXCEPT ![h] = ix]
      /\ mid.entries[ix].next = head /\ (head # ix => mid.entries[ix].prev = 0)
      /\ \A j \in Spots \ {ix} :
           /\ mid.entries[j].inuse = cb.entries[j].inuse
           /\ mid.entries[j].key = cb.entries[j].key
           /\ mid.entries[j].result = cb.entries[j].result
           /\ mid.entries[j].next = cb.entries[j].next
           /\ mid.entries[j].prev = IF j = head THEN ix ELSE cb.entries[j].prev
  <2>1. PutsFirst(cb, ix, h, head, mid)
    BY <1>1, PlaceEffect, Zenon
  <2> HIDE DEF head, mid
  <2> QED
    BY <2>1 DEF PutsFirst
<1>3. new = Filled(mid, ix, key, Resolver[key])
  OBVIOUS
<1> HIDE DEF mid
<1>4. /\ IsCache(new) /\ new.chains = mid.chains /\ new.free = mid.free
      /\ new.nument = mid.nument
      /\ new.entries[ix].inuse = TRUE /\ new.entries[ix].key = key
      /\ new.entries[ix].result = Resolver[key]
      /\ new.entries[ix].prev = mid.entries[ix].prev
      /\ new.entries[ix].next = mid.entries[ix].next
      /\ \A j \in Spots \ {ix} : new.entries[j] = mid.entries[j]
  <2>1. FillsIn(mid, ix, key, Filled(mid, ix, key, Resolver[key]))
    BY <1>1, <1>2, FillEffect, Zenon
  <2>2. FillsIn(mid, ix, key, new)
    BY <1>3, <2>1, Zenon
  <2> QED
    BY <2>2 DEF FillsIn
<1>5. ASSUME NEW j \in Spots \ {ix}
      PROVE  /\ new.entries[j].inuse = cb.entries[j].inuse
             /\ new.entries[j].key = cb.entries[j].key
             /\ new.entries[j].result = cb.entries[j].result
             /\ new.entries[j].next = cb.entries[j].next
             /\ new.entries[j].prev = IF j = head THEN ix ELSE cb.entries[j].prev
  BY <1>2, <1>4
<1>6. /\ new.entries[ix].next = head /\ (head # ix => new.entries[ix].prev = 0)
      /\ new.chains = [cb.chains EXCEPT ![h] = ix] /\ new.free = cb.free
      /\ new.nument = cb.nument
  BY <1>2, <1>4
<1>7. Told(cb) => Told(new)
  BY <1>4, <1>5, SMTT(30) DEF Told
<1>8. ASSUME NEW V, NEW G, Tidy(cb, V, G), ix \notin V, ix \notin G,
             \A j \in V : cb.entries[j].key # key
      PROVE  Tidy(new, V \cup {ix}, G)
  <2>1. /\ V \subseteq Slots /\ G \subseteq Slots /\ V \cap G = {}
        /\ V \cup {ix} \subseteq Slots /\ (V \cup {ix}) \cap G = {}
    BY <1>8 DEF Tidy
  <2>2. /\ \A j \in V \cup G : j \in Spots \ {ix}
        /\ \A j \in Slots : j \in Spots /\ j # 0
    <3>1. \A j \in Slots : j \in Spots /\ j # 0
      BY DEF Slots, Spots
    <3> QED
      BY <1>8, <2>1, <3>1
  <2>3. V \cup {ix} = {j \in Slots : new.entries[j].inuse}
    <3>1. \A j \in Slots \ {ix} : j \in V <=> cb.entries[j].inuse
      BY <1>8 DEF Tidy
    <3>2. \A j \in Slots \ {ix} : new.entries[j].inuse = cb.entries[j].inuse
      BY <1>5, <2>2
    <3> QED
      BY <1>4, <2>1, <3>1, <3>2
  <2>4. \A j \in V : new.entries[j].key = cb.entries[j].key
    BY <1>5, <2>2
  <2>5. \A j \in V \cup {ix} : new.entries[j].key \in Keys
    BY <1>4, <1>8, <2>4 DEF Tidy
  <2>6. \A i, j \in V \cup {ix} : i # j => new.entries[i].key # new.entries[j].key
    BY <1>4, <1>8, <2>4 DEF Tidy
  <2>7. HangOn(new.entries, new.free, G)
    <3>1. \A j \in G : new.entries[j].next = cb.entries[j].next
      BY <1>5, <2>2
    <3>2. HangOn(cb.entries, cb.free, G)
      BY <1>8 DEF Tidy
    <3> QED
      BY <1>6, <3>1, <3>2, Undisturbed
  <2>8. head # 0 => head \in OfChain(cb.entries, V, h)
    <3>1. HangBoth(cb.entries, head, OfChain(cb.entries, V, h))
      BY <1>1, <1>8 DEF Tidy
    <3>2. HangOn(cb.entries, head, OfChain(cb.entries, V, h))
      BY <3>1 DEF HangOn, HangBoth
    <3> HIDE DEF head, h
    <3> QED
      BY <3>2, TakeFirst
  <2>9. ASSUME NEW k \in 0..(HashSize - 1)
        PROVE  HangBoth(new.entries, new.chains[k], OfChain(new.entries, V \cup {ix}, k))
    <3>1. HangBoth(cb.entries, cb.chains[k], OfChain(cb.entries, V, k))
      BY <1>8 DEF Tidy
    <3>2. cb.chains \in [0..(HashSize - 1) -> Spots]
      BY DEF IsCache
    <3>3. \A j \in OfChain(cb.entries, V, k) : j \in V /\ j \in Spots \ {ix} /\ j # 0
      BY <2>1, <2>2 DEF OfChain
    <3>4. CASE k = h
      <4> DEFINE S == OfChain(cb.entries, V, h)
      <4>1. OfChain(new.entries, V \cup {ix}, k) = S \cup {ix}
        BY <1>4, <2>4, <3>4 DEF OfChain
      <4>2. new.chains[k] = ix
        BY <1>6, <3>2, <3>4
      <4>3. ix \notin S /\ head # ix
        BY <1>1, <1>8, <2>8 DEF OfChain
      <4>4. \A j \in S : /\ new.entries[j].next = cb.entries[j].next
                         /\ new.entries[j].prev = IF j = head THEN ix ELSE cb.entries[j].prev
        BY <1>5, <3>3, <3>4
      <4>5. HangBoth(cb.entries, head, S) /\ HangOn(cb.entries, head, S)
        BY <3>1, <3>4 DEF HangOn, HangBoth
      <4>6. new.entries[ix].next = head /\ new.entries[ix].prev = 0
        BY <1>6, <4>3
      <4>7. HangBoth(new.entries, ix, S \cup {ix})
        <5> HIDE DEF S, head
        <5>1. Heads(cb.entries, head, S, ix, new.entries)
          BY <4>4, <4>6 DEF Heads
        <5> QED
          BY <4>3, <4>4, <4>5, <4>6, <5>1, PutFirst, Zenon
      <4> QED
        BY <4>1, <4>2, <4>7
    <3>5. CASE k # h
      <4> DEFINE S == OfChain(cb.entries, V, k)
      <4>1. OfChain(new.entries, V \cup {ix}, k) = S
        BY <1>4, <2>4, <3>5 DEF OfChain
      <4>2. new.chains[k] = cb.chains[k]
        BY <1>6, <3>2, <3>5
      <4>3. \A j \in S : j # head
        BY <2>8, <3>3, <3>5 DEF OfChain
      <4>4. \A j \in S : /\ new.entries[j].next = cb.entries[j].next
                         /\ new.entries[j].prev = cb.entries[j].prev
        BY <1>5, <3>3, <4>3
      <4>5. HangBoth(new.entries, cb.chains[k], S)
        <5> HIDE DEF S
        <5> QED
          BY <3>1, <4>4, Undisturbed DEF S
      <4> QED
        BY <4>1, <4>2, <4>5
    <3> QED
      BY <3>4, <3>5
  <2> QED
    BY <2>1, <2>3, <2>5, <2>6, <2>7, <2>9 DEF Tidy
<1> QED
  BY <1>4, <1>6, <1>7, <1>8 DEF TakesIn

LEMMA ClearKeeps ==
  ASSUME NamesAssumption, NEW cb, IsCache(cb), NEW ix \in Spots
  PROVE  IsCache(caclear(cb, ix)) /\ (Told(cb) => Told(caclear(cb, ix)))
<1>1. caclear(cb, ix) = SetAt(cb, ix, Entry)
  BY DEF caclear, SetAt
<1>2. OnlyAt(cb, ix, Entry, SetAt(cb, ix, Entry))
  BY EntryIsOne, SetEntry
<1>3. Entry.key = "none" /\ "none" \notin Keys
  BY DEF Entry, NamesAssumption, Keys
<1> QED
  BY <1>1, <1>2, <1>3 DEF OnlyAt, Told

LEMMA InsertKeeps ==
  ASSUME NamesAssumption, NEW cb, IsCache(cb), Told(cb), NEW key \in Keys, seconds \in Nat
  PROVE  /\ IsCache(cainsert(cb, key, Resolver[key]))
         /\ Told(cainsert(cb, key, Resolver[key]))
         /\ /\ Whole(cb)
            /\ cagetindex(cb, key) # 0 => ~(Length[Resolver[key]] <= MaxResult)
            => Whole(cainsert(cb, key, Resolver[key]))
<1> DEFINE new == cainsert(cb, key, Resolver[key])
           old == cagetindex(cb, key)
           long == Length[Resolver[key]] > MaxResult
<1>1. long <=> ~(Length[Resolver[key]] <= MaxResult)
  BY DEF NamesAssumption, Keys
<1>2. /\ old \in Spots
      /\ old # 0 => cb.entries[old].key = key
      /\ \A U, F : Tidy(cb, U, F) /\ old = 0 => \A j \in U : cb.entries[j].key # key
  BY IndexIs
<1>3. CASE long
  <2>1. new = cb
    BY <1>3 DEF cainsert
  <2> QED
    BY <2>1
<1>4. CASE ~long /\ old # 0
  <2> DEFINE clear == caclear(cb, old)
  <2>1. new = Filled(clear, old, key, Resolver[key])
    BY <1>4, ZenonT(60) DEF cainsert, Filled
  <2>2. IsCache(clear) /\ Told(clear)
    BY <1>2, ClearKeeps
  <2> HIDE DEF clear, old, new
  <2>3. FillsIn(clear, old, key, Filled(clear, old, key, Resolver[key]))
    BY <1>2, <2>2, FillEffect, Zenon
  <2>4. FillsIn(clear, old, key, new)
    BY <2>1, <2>3, Zenon
  <2>5. IsCache(new) /\ Told(new)
    BY <2>2, <2>4 DEF FillsIn, Told
  <2> QED
    BY <1>1, <1>4, <2>5 DEF old, new
<1>5. CASE ~long /\ old = 0
  <2> DEFINE room == cagetfree(cb)[1]
             ix == cagetfree(cb)[2]
  <2>1. new = Filled(Placed(room, ix, ChainOf(key)), ix, key, Resolver[key])
    BY <1>5, ZenonT(60) DEF cainsert, Filled, Placed
  <2>2. Grants(cb, room, ix)
    BY GetFree
  <2> HIDE DEF room, ix, new, old
  <2>3. IsCache(room) /\ ix \in Slots /\ Told(room)
    BY <2>2 DEF Grants
  <2>4. /\ IsCache(new) /\ new.nument = room.nument
        /\ Told(room) => Told(new)
        /\ \A V, G : /\ Tidy(room, V, G) /\ ix \notin V /\ ix \notin G
                     /\ \A j \in V : room.entries[j].key # key
                     => Tidy(new, V \cup {ix}, G)
    <3>1. TakesIn(room, ix, key, new)
      BY <2>1, <2>3, PutInKeeps, Zenon
    <3> QED
      BY <3>1 DEF TakesIn
  <2>5. ASSUME Whole(cb)
        PROVE  Whole(new)
    <3>1. PICK U : Tidy(cb, U, Slots \ U) /\ cb.nument = Cardinality(U)
      BY <2>5 DEF Whole
    <3>2. PICK V : /\ V \subseteq U /\ ix \notin V
                   /\ Tidy(room, V, (Slots \ V) \ {ix})
                   /\ room.nument = Cardinality(V) + 1
                   /\ \A j \in V : room.entries[j].key = cb.entries[j].key
      BY <2>2, <3>1 DEF Grants
    <3>3. \A j \in V : room.entries[j].key # key
      BY <1>2, <1>5, <3>1, <3>2
    <3>4. Tidy(new, V \cup {ix}, (Slots \ V) \ {ix})
      BY <2>4, <3>2, <3>3
    <3>5. (Slots \ V) \ {ix} = Slots \ (V \cup {ix})
      OBVIOUS
    <3>6. IsFiniteSet(V)
      <4>1. IsFiniteSet(1..MaxEntries)
        BY FS_Interval DEF NamesAssumption
      <4>2. V \subseteq 1..MaxEntries
        BY <3>2 DEF Tidy, Slots
      <4> QED
        BY <4>1, <4>2, FS_Subset
    <3>7. Cardinality(V \cup {ix}) = Cardinality(V) + 1
      BY <3>2, <3>6, FS_AddElement
    <3> QED
      BY <2>4, <3>2, <3>4, <3>5, <3>7 DEF Whole
  <2> QED
    BY <2>3, <2>4, <2>5 DEF new
<1> QED
  BY <1>3, <1>4, <1>5

LEMMA TouchKeeps ==
  ASSUME NamesAssumption, NEW cb, IsCache(cb), Told(cb), NEW ix \in Spots, seconds \in Nat
  PROVE  LET new == [cb EXCEPT !.entries[ix].access = seconds]
         IN IsCache(new) /\ Told(new) /\ (Whole(cb) => Whole(new))
<1> DEFINE y == [cb.entries[ix] EXCEPT !.access = seconds]
           new == [cb EXCEPT !.entries[ix].access = seconds]
<1>1. new = SetAt(cb, ix, y)
  BY DEF SetAt
<1>2. /\ y \in EntrySet /\ y.inuse = cb.entries[ix].inuse /\ y.key = cb.entries[ix].key
      /\ y.result = cb.entries[ix].result /\ y.prev = cb.entries[ix].prev
      /\ y.next = cb.entries[ix].next
  <2>1. cb.entries[ix] \in EntrySet
    BY DEF IsCache
  <2> QED
    BY <2>1 DEF EntrySet
<1> HIDE DEF y, new
<1>3. OnlyAt(cb, ix, y, new)
  BY <1>1, <1>2, SetEntry
<1>4. /\ IsCache(new) /\ new.chains = cb.chains /\ new.free = cb.free /\ new.nument = cb.nument
      /\ \A j \in Spots : /\ new.entries[j].inuse = cb.entries[j].inuse
                          /\ new.entries[j].key = cb.entries[j].key
                          /\ new.entries[j].result = cb.entries[j].result
                          /\ new.entries[j].prev = cb.entries[j].prev
                          /\ new.entries[j].next = cb.entries[j].next
  BY <1>2, <1>3 DEF OnlyAt
<1>5. Told(new)
  BY <1>4 DEF Told
<1>6. ASSUME Whole(cb)
      PROVE  Whole(new)
  <2>1. PICK U : Tidy(cb, U, Slots \ U) /\ cb.nument = Cardinality(U)
    BY <1>6 DEF Whole
  <2>2. \A j \in Slots : j \in Spots
    BY DEF Slots, Spots
  <2>3. U \subseteq Slots
    BY <2>1 DEF Tidy
  <2>4. HangOn(new.entries, new.free, Slots \ U)
    <3>1. HangOn(cb.entries, cb.free, Slots \ U)
      BY <2>1 DEF Tidy
    <3>2. \A j \in Slots \ U : new.entries[j].next = cb.entries[j].next
      BY <1>4, <2>2
    <3> QED
      BY <1>4, <3>1, <3>2, Undisturbed
  <2>5. ASSUME NEW h \in 0..(HashSize - 1)
        PROVE  HangBoth(new.entries, new.chains[h], OfChain(new.entries, U, h))
    <3>1. HangBoth(cb.entries, cb.chains[h], OfChain(cb.entries, U, h))
      BY <2>1 DEF Tidy
    <3>2. OfChain(new.entries, U, h) = OfChain(cb.entries, U, h)
      BY <1>4, <2>2, <2>3 DEF OfChain
    <3>3. \A j \in OfChain(cb.entries, U, h) : /\ new.entries[j].next = cb.entries[j].next
                                               /\ new.entries[j].prev = cb.entries[j].prev
      BY <1>4, <2>2, <2>3 DEF OfChain
    <3>4. HangBoth(new.entries, cb.chains[h], OfChain(cb.entries, U, h))
      BY <3>1, <3>3, Undisturbed
    <3> QED
      BY <1>4, <3>2, <3>4
  <2>6. U = {j \in Slots : new.entries[j].inuse}
    BY <1>4, <2>1, <2>2 DEF Tidy
  <2>7. /\ \A j \in U : new.entries[j].key \in Keys
        /\ \A i, j \in U : i # j => new.entries[i].key # new.entries[j].key
    BY <1>4, <2>1, <2>2, <2>3 DEF Tidy
  <2>8. Tidy(new, U, Slots \ U)
    BY <2>3, <2>4, <2>5, <2>6, <2>7 DEF Tidy
  <2> QED
    BY <1>4, <2>1, <2>8 DEF Whole
<1> QED
  BY <1>4, <1>5, <1>6 DEF new

LEMMA CreateIs ==
  ASSUME NamesAssumption
  PROVE  IsCache(cacreate) /\ Told(cacreate) /\ Whole(cacreate)
<1> DEFINE link(ix) == IF ix \in 1..(MaxEntries - 1) THEN ix + 1 ELSE 0
           E == [ix \in Spots |-> [Entry EXCEPT !.next = link(ix)]]
           C == [h \in 0..(HashSize - 1) |-> 0]
<1>1. MaxEntries \in Nat /\ MaxEntries >= 1 /\ 1 \in Spots /\ 0 \in Spots
  BY DEF NamesAssumption, Spots
<1>2. cacreate = [entries |-> E, chains |-> C, free |-> 1, nument |-> 0]
  BY DEF cacreate, Spots
<1>3. cacreate.entries = E /\ cacreate.chains = C /\ cacreate.free = 1 /\ cacreate.nument = 0
  <2> HIDE DEF E, C
  <2> QED
    BY <1>2
<1>4. \A ix \in Spots : link(ix) \in Spots
  BY <1>1 DEF Spots
<1>5. \A ix \in Spots : /\ E[ix] \in EntrySet /\ E[ix].next = link(ix) /\ E[ix].key = "none"
                        /\ E[ix].prev = 0 /\ E[ix].inuse = FALSE
  <2> SUFFICES ASSUME NEW ix \in Spots
               PROVE  /\ E[ix] \in EntrySet /\ E[ix].next = link(ix) /\ E[ix].key = "none"
                      /\ E[ix].prev = 0 /\ E[ix].inuse = FALSE
    OBVIOUS
  <2>1. E[ix] = [Entry EXCEPT !.next = link(ix)] /\ link(ix) \in Spots
    BY <1>4
  <2> HIDE DEF E, link
  <2> QED
    BY <2>1, EntryIsOne
<1>6. E \in [Spots -> EntrySet] /\ C \in [0..(HashSize - 1) -> Spots]
  <2>1. C \in [0..(HashSize - 1) -> Spots]
    BY <1>1
  <2>2. DOMAIN E = Spots /\ E = [ix \in Spots |-> E[ix]]
    OBVIOUS
  <2> HIDE DEF E
  <2> QED
    BY <1>5, <2>1, <2>2
<1>7. \A h \in 0..(HashSize - 1) : C[h] = 0
  OBVIOUS
<1> HIDE DEF E, C
<1>8. IsCache(cacreate)
  BY <1>1, <1>2, <1>3, <1>6 DEF IsCache
<1>9. Told(cacreate)
  BY <1>3, <1>5 DEF Told, NamesAssumption, Keys
<1>10. \A ix \in Slots : ix \in Spots
  BY DEF Slots, Spots
<1>11. HangOn(E, 1, Slots)
  <2> DEFINE s == [i \in 1..MaxEntries |-> i]
  <2>1. s \in [1..MaxEntries -> Slots] /\ \A i \in 1..MaxEntries : s[i] = i /\ i \in Spots
    BY <1>10 DEF Slots
  <2>2. On(MaxEntries, s) = Slots
    BY DEF On, Slots
  <2> HIDE DEF s
  <2>3. \A i \in 1..MaxEntries : E[s[i]].next = IF i = MaxEntries THEN 0 ELSE s[i + 1]
    <3> SUFFICES ASSUME NEW i \in 1..MaxEntries
                 PROVE  E[s[i]].next = IF i = MaxEntries THEN 0 ELSE s[i + 1]
      OBVIOUS
    <3>1. E[s[i]].next = link(i)
      BY <1>5, <2>1
    <3>2. i # MaxEntries => i \in 1..(MaxEntries - 1) /\ i + 1 \in 1..MaxEntries
      BY <1>1
    <3>3. i = MaxEntries => i \notin 1..(MaxEntries - 1)
      BY <1>1
    <3> QED
      BY <2>1, <3>1, <3>2, <3>3
  <2>4. Linked(E, 1, MaxEntries, s)
    <3>1. \A i, j \in 1..MaxEntries : s[i] = s[j] => i = j
      BY <2>1
    <3>2. 1 = IF MaxEntries = 0 THEN 0 ELSE s[1]
      BY <1>1, <2>1
    <3> QED
      BY <1>1, <2>1, <2>3, <3>1, <3>2 DEF Linked
  <2> QED
    BY <2>2, <2>4 DEF HangOn
<1>12. ASSUME NEW h \in 0..(HashSize - 1)
       PROVE  HangBoth(E, C[h], OfChain(E, {}, h))
  <2> DEFINE s == [i \in 1..0 |-> i]
  <2>1. 1..0 = {} /\ s \in [1..0 -> Slots]
    OBVIOUS
  <2> HIDE DEF s
  <2>2. Linked(E, C[h], 0, s) /\ Back(E, 0, s) /\ On(0, s) = OfChain(E, {}, h)
    BY <1>7, <2>1 DEF Linked, Back, On, OfChain
  <2> QED
    BY <2>2 DEF HangBoth
<1>13. {} = {ix \in Slots : E[ix].inuse}
  BY <1>5, <1>10
<1>14. Tidy(cacreate, {}, Slots \ {})
  <2>1. Slots \ {} = Slots
    OBVIOUS
  <2> QED
    BY <1>3, <1>11, <1>12, <1>13, <2>1 DEF Tidy
<1>15. Cardinality({}) = 0
  BY FS_EmptySet
<1>16. Whole(cacreate)
  BY <1>3, <1>14, <1>15 DEF Whole
<1> QED
  BY <1>8, <1>9, <1>16

-----------------------------------------------------------------------------
(* Questions.                                                              *)

\* A cache of catab: not made yet, or one that tells the truth.
Safe(c) == c = << >> \/ (c = <<c[1]>> /\ IsCache(c[1]) /\ Told(c[1]))
Kept(c) == c # << >> => Whole(c[1])

LEMMA ResolvedKeeps ==
  ASSUME NamesAssumption, NEW c, Safe(c), NEW key \in Keys, NEW buffer, seconds \in Nat
  PROVE  LET got == Resolved(c, key, buffer)
         IN /\ Safe(got[1])
            /\ got[2] = Resolver[key]
            /\ Kept(c) /\ ~Refills(c, key, buffer) => Kept(got[1])
<1> DEFINE made == IF c = << >> THEN cacreate ELSE c[1]
           ix == cagetindex(made, key)
           got == Resolved(c, key, buffer)
           touched == [made EXCEPT !.entries[ix].access = seconds]
           filled == cainsert(made, key, Resolver[key])
<1>1. IsCache(made) /\ Told(made) /\ (Kept(c) => Whole(made))
  BY CreateIs DEF Safe, Kept
<1> HIDE DEF made
<1>2. /\ ix \in Spots
      /\ ix # 0 => made.entries[ix].key = key
      /\ \A U, F : Tidy(made, U, F) /\ ix = 0 => \A j \in U : made.entries[j].key # key
  BY <1>1, IndexIs
<1>3. Hit(made, key, buffer) => ix # 0
  BY DEF Hit
<1>4. CASE Hit(made, key, buffer)
  <2>1. got[1] = <<touched>> /\ got[2] = made.entries[ix].result
    BY <1>4 DEF Resolved, made
  <2> HIDE DEF got, ix
  <2>2. got[2] = Resolver[key]
    BY <1>1, <1>2, <1>3, <1>4, <2>1 DEF Told
  <2>3. IsCache(touched) /\ Told(touched) /\ (Whole(made) => Whole(touched))
    BY <1>1, <1>2, TouchKeeps
  <2> HIDE DEF touched
  <2>4. Safe(got[1]) /\ (Whole(made) => Kept(got[1]))
    BY <2>1, <2>3 DEF Safe, Kept
  <2> QED
    BY <1>1, <2>2, <2>4 DEF got
<1>5. CASE ~Hit(made, key, buffer)
  <2>1. got[1] = <<filled>> /\ got[2] = Resolver[key]
    BY <1>5 DEF Resolved, made
  <2>2. /\ IsCache(filled) /\ Told(filled)
        /\ Whole(made) /\ (ix # 0 => ~(Length[Resolver[key]] <= MaxResult)) => Whole(filled)
    BY <1>1, InsertKeeps
  <2>3. ASSUME Kept(c), ~Refills(c, key, buffer), ix # 0
        PROVE  ~(Length[Resolver[key]] <= MaxResult)
    <3>1. CASE c = << >>
      <4>1. made = cacreate
        BY <3>1 DEF made
      <4>2. PICK U : Tidy(made, U, Slots \ U) /\ made.nument = Cardinality(U)
        BY <1>1, <2>3 DEF Whole
      <4>3. made.entries[ix].key = "none"
        <5>1. made.entries = [k \in 0..MaxEntries |->
                 [Entry EXCEPT !.next = IF k \in 1..(MaxEntries - 1) THEN k + 1 ELSE 0]]
          BY <4>1 DEF cacreate
        <5>2. made.entries[ix] = [Entry EXCEPT !.next = made.entries[ix].next]
          <6> DEFINE n == IF ix \in 1..(MaxEntries - 1) THEN ix + 1 ELSE 0
          <6>1. made.entries[ix] = [Entry EXCEPT !.next = n]
            BY <1>2, <5>1 DEF Spots
          <6> HIDE DEF n, ix
          <6>2. made.entries[ix].next = n
            BY <6>1, EntryIsOne
          <6> QED
            BY <6>1, <6>2
        <5> HIDE DEF ix
        <5> QED
          BY <5>2, EntryIsOne
      <4> QED
        BY <1>2, <2>3, <4>3 DEF NamesAssumption, Keys
    <3>2. CASE c # << >>
      <4>1. made = c[1]
        BY <3>2 DEF made
      <4> QED
        BY <1>5, <2>3, <3>2, <4>1 DEF Refills
    <3> QED
      BY <3>1, <3>2
  <2> HIDE DEF filled, got, ix
  <2>4. Safe(got[1]) /\ (Whole(filled) => Kept(got[1]))
    BY <2>1, <2>2 DEF Safe, Kept
  <2> QED
    BY <1>1, <2>1, <2>2, <2>3, <2>4 DEF got
<1> QED
  BY <1>4, <1>5

LEMMA WholeIs ==
  ASSUME NamesAssumption, NEW cb, IsCache(cb), Whole(cb)
  PROVE  CacheIsWhole(cb)
<1>1. PICK U : Tidy(cb, U, Slots \ U) /\ cb.nument = Cardinality(U)
  BY DEF Whole
<1>2. IsFiniteSet(Slots) /\ Cardinality(Slots) = MaxEntries
  <2>1. MaxEntries \in Nat /\ 1 <= MaxEntries
    BY DEF NamesAssumption
  <2>2. IsFiniteSet(1..MaxEntries) /\ Cardinality(1..MaxEntries) = MaxEntries - 1 + 1
    BY <2>1, FS_Interval
  <2> QED
    BY <2>1, <2>2 DEF Slots
<1>3. U = {ix \in Slots : cb.entries[ix].inuse} /\ U \subseteq Slots
  BY <1>1 DEF Tidy
<1>4. Cardinality(Slots \ U) = MaxEntries - Cardinality(U)
  <2>1. Cardinality(Slots \ U) = Cardinality(Slots) - Cardinality(Slots \cap U)
    BY <1>2, FS_Difference
  <2>2. Slots \cap U = U
    BY <1>3
  <2> QED
    BY <1>2, <2>1, <2>2
<1>5. ASSUME NEW h \in DOMAIN cb.chains
      PROVE  LET chain == Chain(cb, cb.chains[h])
                 on == {chain[i] : i \in DOMAIN chain}
             IN /\ Cardinality(on) = Len(chain)
                /\ on = {ix \in U : ChainOf(cb.entries[ix].key) = h}
                /\ \A i \in DOMAIN chain :
                     cb.entries[chain[i]].prev = IF i = 1 THEN 0 ELSE chain[i - 1]
  <2> DEFINE x == cb.chains[h]
  <2>1. HangBoth(cb.entries, x, OfChain(cb.entries, U, h))
    BY <1>1 DEF Tidy, IsCache
  <2>2. PICK n, s : /\ Linked(cb.entries, x, n, s) /\ Back(cb.entries, n, s)
                    /\ On(n, s) = OfChain(cb.entries, U, h)
    BY <2>1 DEF HangBoth
  <2> HIDE DEF x
  <2>3. Chain(cb, x) = s
    BY <2>2, ChainIs, Zenon
  <2>4. n \in Nat /\ DOMAIN s = 1..n /\ Len(s) = n
    BY <2>2 DEF Linked
  <2>5. Cardinality(On(n, s)) = n
    BY <2>2, ShortList, Zenon
  <2> QED
    <3> DEFINE chain == Chain(cb, cb.chains[h])
               on == {chain[i] : i \in DOMAIN chain}
    <3>1. chain = s
      BY <2>3 DEF x
    <3> HIDE DEF chain
    <3>2. on = On(n, s)
      BY <2>4, <3>1 DEF On
    <3> HIDE DEF on
    <3>3. Cardinality(on) = Len(chain)
      BY <2>4, <2>5, <3>1, <3>2
    <3>4. on = {ix \in U : ChainOf(cb.entries[ix].key) = h}
      BY <2>2, <3>2 DEF OfChain
    <3>5. \A i \in DOMAIN chain : cb.entries[chain[i]].prev = IF i = 1 THEN 0 ELSE chain[i - 1]
      BY <2>2, <2>4, <3>1 DEF Back
    <3> QED
      BY <3>3, <3>4, <3>5 DEF chain, on
<1>6. LET free == Chain(cb, cb.free)
      IN {free[i] : i \in DOMAIN free} = Slots \ U /\ Len(free) = MaxEntries - Cardinality(U)
  <2> DEFINE x == cb.free
  <2>1. HangOn(cb.entries, x, Slots \ U)
    BY <1>1 DEF Tidy
  <2>2. PICK n, s : Linked(cb.entries, x, n, s) /\ On(n, s) = Slots \ U
    BY <2>1 DEF HangOn
  <2> HIDE DEF x
  <2>3. Chain(cb, x) = s
    BY <2>2, ChainIs, Zenon
  <2>4. n \in Nat /\ DOMAIN s = 1..n /\ Len(s) = n
    BY <2>2 DEF Linked
  <2>5. Cardinality(On(n, s)) = n
    BY <2>2, ShortList, Zenon
  <2> QED
    BY <1>4, <2>2, <2>3, <2>4, <2>5 DEF On, x
<1>7. \A i, j \in U : i # j => cb.entries[i].key # cb.entries[j].key
  BY <1>1 DEF Tidy
<1> QED
  BY <1>1, <1>3, <1>5, <1>6, <1>7 DEF CacheIsWhole

-----------------------------------------------------------------------------
(* The caches of names answer for the very address or port they are asked   *)
(* for, and stay whole as long as no entry is filled again in place.         *)
NamesInv ==
  /\ seconds \in Nat /\ reused \in BOOLEAN
  /\ caches = [host |-> caches.host, service |-> caches.service]
  /\ Safe(caches.host) /\ Safe(caches.service)
  /\ ~reused => Kept(caches.host) /\ Kept(caches.service)
  /\ answer = [i \in DOMAIN question |-> Resolver[question[i]]]

LEMMA HostNameKeeps ==
  ASSUME NamesAssumption, NamesInv, NEW a \in Hosts, HostName(a)
  PROVE  NamesInv'
<1> DEFINE got == Resolved(caches.host, a, HostBuffer)
<1>1. a \in Keys
  BY DEF Keys
<1>2. /\ Safe(got[1]) /\ got[2] = Resolver[a]
      /\ Kept(caches.host) /\ ~Refills(caches.host, a, HostBuffer) => Kept(got[1])
  BY <1>1, ResolvedKeeps DEF NamesInv
<1>3. /\ caches' = [caches EXCEPT !.host = got[1]] /\ question' = <<a>> /\ answer' = <<got[2]>>
      /\ reused' = (reused \/ Refills(caches.host, a, HostBuffer)) /\ seconds' = seconds
  BY DEF HostName
<1> HIDE DEF got
<1>4. caches' = [host |-> got[1], service |-> caches.service]
  BY <1>3 DEF NamesInv
<1>5. caches'.host = got[1] /\ caches'.service = caches.service
  BY <1>4
<1>6. caches' = [host |-> caches'.host, service |-> caches'.service]
  BY <1>4, <1>5
<1>7. reused' \in BOOLEAN
      /\ (~reused' => ~reused /\ ~Refills(caches.host, a, HostBuffer))
  BY <1>3, Zenon
<1>8. Safe(caches.host)' /\ Safe(caches.service)'
  BY <1>2, <1>5 DEF Safe, NamesInv, IsCache, Told
<1>9. ~reused' => Kept(caches.host)' /\ Kept(caches.service)'
  <2>1. ~reused' => Kept(got[1]) /\ Kept(caches.service)
    BY <1>2, <1>7 DEF NamesInv
  <2>2. ~reused' => Kept(caches'.host) /\ Kept(caches'.service)
    BY <1>5, <2>1
  <2> QED
    BY <2>2 DEF Kept, Whole, Tidy, HangOn, HangBoth, Linked, Back, On, OfChain, ChainOf
<1>10. answer' = [i \in DOMAIN question' |-> Resolver[question'[i]]]
  BY <1>2, <1>3
<1> QED
  BY <1>3, <1>6, <1>7, <1>8, <1>9, <1>10 DEF NamesInv

LEMMA EndpointNameKeeps ==
  ASSUME NamesAssumption, NamesInv, NEW a \in Hosts, NEW p \in Ports, EndpointName(a, p)
  PROVE  NamesInv'
<1> DEFINE host == Resolved(caches.host, a, HostBuffer)
           service == Resolved(caches.service, p, PortBuffer)
<1>1. a \in Keys /\ p \in Keys
  BY DEF Keys
<1>2. /\ Safe(host[1]) /\ host[2] = Resolver[a]
      /\ Kept(caches.host) /\ ~Refills(caches.host, a, HostBuffer) => Kept(host[1])
  BY <1>1, ResolvedKeeps DEF NamesInv
<1>3. /\ Safe(service[1]) /\ service[2] = Resolver[p]
      /\ Kept(caches.service) /\ ~Refills(caches.service, p, PortBuffer) => Kept(service[1])
  BY <1>1, ResolvedKeeps DEF NamesInv
<1>4. /\ caches' = [host |-> host[1], service |-> service[1]]
      /\ question' = <<a, p>> /\ answer' = <<host[2], service[2]>>
      /\ reused' = (reused \/ Refills(caches.host, a, HostBuffer)
                           \/ Refills(caches.service, p, PortBuffer))
      /\ seconds' = seconds
  BY DEF EndpointName
<1> HIDE DEF host, service
<1>5. caches'.host = host[1] /\ caches'.service = service[1]
  BY <1>4
<1>6. caches' = [host |-> caches'.host, service |-> caches'.service]
  BY <1>4, <1>5
<1>7. reused' \in BOOLEAN
      /\ (~reused' => /\ ~reused /\ ~Refills(caches.host, a, HostBuffer)
                      /\ ~Refills(caches.service, p, PortBuffer))
  BY <1>4, Zenon
<1>8. Safe(caches.host)' /\ Safe(caches.service)'
  BY <1>2, <1>3, <1>5 DEF Safe, IsCache, Told
<1>9. ~reused' => Kept(caches.host)' /\ Kept(caches.service)'
  <2>1. ~reused' => Kept(host[1]) /\ Kept(service[1])
    BY <1>2, <1>3, <1>7 DEF NamesInv
  <2>2. ~reused' => Kept(caches'.host) /\ Kept(caches'.service)
    BY <1>5, <2>1
  <2> QED
    BY <2>2 DEF Kept, Whole, Tidy, HangOn, HangBoth, Linked, Back, On, OfChain, ChainOf
<1>10. answer' = [i \in DOMAIN question' |-> Resolver[question'[i]]]
  BY <1>2, <1>3, <1>4
<1> QED
  BY <1>4, <1>6, <1>7, <1>8, <1>9, <1>10 DEF NamesInv

LEMMA NamesStill ==
  ASSUME NamesInv, seconds' \in Nat, UNCHANGED <<caches, question, answer, reused>>
  PROVE  NamesInv'
<1>1. Safe(caches.host)' /\ Safe(caches.service)'
  BY DEF NamesInv, Safe, IsCache, Told
<1>2. ~reused' => Kept(caches.host)' /\ Kept(caches.service)'
  <2>1. ~reused' => Kept(caches'.host) /\ Kept(caches'.service)
    BY DEF NamesInv
  <2> QED
    BY <2>1 DEF Kept, Whole, Tidy, HangOn, HangBoth, Linked, Back, On, OfChain, ChainOf
<1> QED
  BY <1>1, <1>2 DEF NamesInv

LEMMA NamesStart ==
  ASSUME NamesInit
  PROVE  NamesInv
<1>1. caches.host = << >> /\ caches.service = << >>
  BY DEF NamesInit
<1>2. Safe(caches.host) /\ Safe(caches.service) /\ Kept(caches.host) /\ Kept(caches.service)
  BY <1>1 DEF Safe, Kept
<1>3. answer = [i \in DOMAIN question |-> Resolver[question[i]]]
  BY DEF NamesInit
<1> QED
  BY <1>1, <1>2, <1>3 DEF NamesInit, NamesInv

(* Every name is the one the resolver gives for that address or port, and   *)
(* the caches stay whole while no entry is filled again in place, for any    *)
(* addresses, names, hash function, sizes of the table and of the buffers    *)
(* (names.c, gcache.c).                                                      *)
THEOREM NamesAreTheResolvers == ASSUME NamesAssumption PROVE NamesSpec => []NamesAreKept
<1>1. NamesInit => NamesInv
  BY NamesStart
<1>2. NamesInv /\ [NamesNext]_namesVars => NamesInv'
  <2> SUFFICES ASSUME NamesInv, [NamesNext]_namesVars
               PROVE  NamesInv'
    OBVIOUS
  <2>1. ASSUME NEW a \in Hosts, HostName(a)
        PROVE  NamesInv'
    BY <2>1, HostNameKeeps
  <2>2. ASSUME NEW a \in Hosts, NEW p \in Ports, EndpointName(a, p)
        PROVE  NamesInv'
    BY <2>2, EndpointNameKeeps
  <2>3. ASSUME Second
        PROVE  NamesInv'
    <3>1. seconds' \in Nat /\ UNCHANGED <<caches, question, answer, reused>>
      BY <2>3 DEF NamesInv, Second
    <3> QED
      BY <3>1, NamesStill
  <2>4. ASSUME UNCHANGED namesVars
        PROVE  NamesInv'
    <3>1. seconds' \in Nat /\ UNCHANGED <<caches, question, answer, reused>>
      BY <2>4 DEF NamesInv, namesVars
    <3> QED
      BY <3>1, NamesStill
  <2> QED
    BY <2>1, <2>2, <2>3, <2>4 DEF NamesNext
<1>3. NamesInv => NamesAreKept
  <2> SUFFICES ASSUME NamesInv
               PROVE  NamesAreKept
    OBVIOUS
  <2>1. ASSUME NEW c, Safe(c), Kept(c), c # << >>
        PROVE  CacheIsWhole(c[1])
    BY <2>1, WholeIs DEF Safe, Kept
  <2>2. ASSUME ~reused, NEW c \in {"host", "service"}, caches[c] # << >>
        PROVE  CacheIsWhole(caches[c][1])
    <3>1. Safe(caches[c]) /\ Kept(caches[c])
      BY <2>2 DEF NamesInv
    <3> QED
      BY <2>1, <2>2, <3>1
  <2> QED
    BY <2>2 DEF NamesAreKept, NamesInv
<1> QED
  BY <1>1, <1>2, <1>3, PTL DEF NamesSpec
=============================================================================
