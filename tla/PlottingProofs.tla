--------------------------- MODULE PlottingProofs ---------------------------
(***************************************************************************)
(* Plots and contents are what was written to them, for any number of      *)
(* files, descriptors, commands and segments.                              *)
(***************************************************************************)
EXTENDS Plotting, FiniteSetTheorems, SequenceTheorems, WellFoundedInduction, TLAPS

-----------------------------------------------------------------------------
(* Many files over few descriptors.                                        *)

Members(s) == {s[i] : i \in 1..Len(s)}
Distinct(s) == \A i, j \in 1..Len(s) : s[i] = s[j] => i = j

Open(m) == {f \in Files : m.stream[f] # Null}
Listed(m) == Members(m.lru)

\* Where the next cell of a file is written.
At(m, f) == IF m.stream[f] = Null THEN m.fptr[f] ELSE m.stream[f]

IsMfiles(m, S) ==
    /\ m = [disk |-> m.disk, stream |-> m.stream, fptr |-> m.fptr, lru |-> m.lru,
            crashed |-> m.crashed]
    /\ m.disk \in [Files -> Seq(S)]
    /\ m.stream \in [Files -> Nat \cup {Null}] /\ m.fptr \in [Files -> Nat]
    /\ m.lru \in Seq(Files) /\ Distinct(m.lru)
    /\ m.crashed = FALSE

\* An open file is on the list, and no more are open than there are descriptors.
Sane(m, S) ==
    /\ IsMfiles(m, S) /\ Open(m) \subseteq Listed(m)
    /\ Cardinality(Open(m)) <= Descriptors

\* Either no file was closed for good, or a descriptor is free.
Ready(m) == Listed(m) \subseteq Open(m) \/ Cardinality(Open(m)) < Descriptors

\* r is m with f open and used last.
Latest(r, m, f) ==
    /\ f \in Open(r) /\ r.lru # <<>> /\ Last(r.lru) = f
    /\ Listed(r) \subseteq Listed(m) \cup {f}
    /\ Listed(m) \subseteq Open(m) => Listed(r) \subseteq Open(r)

\* The other files are in r as they were in m.
OthersStay(r, m, f) == \A g \in Files \ {f} : r.disk[g] = m.disk[g] /\ At(r, g) = At(m, g)

LEMMA OpenIsFinite ==
    ASSUME MfilesAssumption, NEW m
    PROVE  IsFiniteSet(Open(m)) /\ Cardinality(Open(m)) \in Nat
<1>1. Open(m) \in SUBSET Files
  BY DEF Open
<1> QED
  BY <1>1, FS_Subset, FS_CardinalityType DEF MfilesAssumption

\* Mf_unlink takes one element out of the list.
LEMMA Unlinked ==
    ASSUME NEW s \in Seq(Files), Distinct(s), NEW f
    PROVE  /\ Without(s, f) \in Seq(Files) /\ Distinct(Without(s, f))
           /\ Members(Without(s, f)) = Members(s) \ {f}
<1> DEFINE k == CHOOSE i \in DOMAIN s : s[i] = f
           n == Len(s)
<1>1. n \in Nat /\ DOMAIN s = 1..n /\ \A i \in 1..n : s[i] \in Files
  BY LenProperties
<1>2. CASE \E i \in DOMAIN s : s[i] = f
  <2>1. k \in 1..n /\ s[k] = f
    BY <1>1, <1>2
  <2> HIDE DEF k
  <2> DEFINE a == SubSeq(s, 1, k - 1)
             b == SubSeq(s, k + 1, n)
             t == a \o b
  <2>2. Without(s, f) = t
    BY <1>2 DEF Without, RemoveAt, k
  <2>3. /\ a \in Seq(Files) /\ Len(a) = k - 1 /\ \A i \in 1..(k - 1) : a[i] = s[i]
    BY <1>1, <2>1
  <2>4. /\ b \in Seq(Files) /\ Len(b) = n - k /\ \A i \in 1..(n - k) : b[i] = s[k + i]
    <3>1. \A i \in (k + 1)..n : s[i] \in Files
      BY <1>1, <2>1
    <3>2. k + 1 \in Int /\ n \in Int
      BY <1>1, <2>1
    <3>3. /\ b \in Seq(Files) /\ Len(b) = IF k + 1 <= n THEN n - (k + 1) + 1 ELSE 0
          /\ \A i \in 1..(n - (k + 1) + 1) : b[i] = s[k + 1 + i - 1]
      BY <3>1, <3>2, SubSeqProperties
    <3> HIDE DEF b, n
    <3>4. n - (k + 1) + 1 = n - k /\ (k + 1 <= n \/ n - k = 0) /\ n - k \in Nat
      BY <1>1, <2>1
    <3>5. ASSUME NEW i \in 1..(n - k)
          PROVE  b[i] = s[k + i]
      <4>1. k + 1 + i - 1 = k + i
        BY <1>1, <2>1
      <4> QED
        BY <3>3, <3>4, <4>1
    <3> QED
      BY <3>3, <3>4, <3>5
  <2> HIDE DEF a, b
  <2>5. /\ t \in Seq(Files) /\ Len(t) = n - 1
        /\ \A i \in 1..(n - 1) : t[i] = IF i < k THEN s[i] ELSE s[i + 1]
    <3>1. /\ t \in Seq(Files) /\ Len(t) = Len(a) + Len(b)
          /\ \A i \in 1..Len(a) + Len(b) : t[i] = IF i <= Len(a) THEN a[i] ELSE b[i - Len(a)]
      BY <2>3, <2>4, ConcatProperties
    <3> HIDE DEF t, n
    <3>2. Len(t) = n - 1
      BY <1>1, <2>1, <2>3, <2>4, <3>1
    <3>3. ASSUME NEW i \in 1..(n - 1)
          PROVE  t[i] = IF i < k THEN s[i] ELSE s[i + 1]
      <4>1. CASE i < k
        <5>1. i \in 1..(k - 1)
          BY <1>1, <2>1, <4>1
        <5>2. i \in 1..Len(a) + Len(b) /\ i <= Len(a)
          BY <1>1, <2>1, <2>3, <2>4, <4>1
        <5> QED
          BY <2>3, <3>1, <4>1, <5>1, <5>2
      <4>2. CASE ~(i < k)
        <5>1. i - (k - 1) \in 1..(n - k) /\ k + (i - (k - 1)) = i + 1
          BY <1>1, <2>1, <4>2
        <5>2. i \in 1..Len(a) + Len(b) /\ ~(i <= Len(a)) /\ i - Len(a) = i - (k - 1)
          BY <1>1, <2>1, <2>3, <2>4, <4>2
        <5>3. t[i] = b[i - (k - 1)] /\ b[i - (k - 1)] = s[i + 1]
          BY <2>4, <3>1, <5>1, <5>2
        <5> QED
          BY <4>2, <5>3
      <4> QED
        BY <4>1, <4>2
    <3> QED
      BY <3>1, <3>2, <3>3
  <2> HIDE DEF t, n
  <2>6. ASSUME NEW i \in 1..Len(t), NEW j \in 1..Len(t), t[i] = t[j]
        PROVE  i = j
    BY <1>1, <2>1, <2>5, <2>6 DEF n, Distinct
  <2>7. \A i \in 1..Len(t) : t[i] \in {s[j] : j \in 1..n} \ {f}
    BY <1>1, <2>1, <2>5 DEF n, Distinct
  <2>8. ASSUME NEW j \in 1..n, s[j] # f
        PROVE  \E i \in 1..Len(t) : t[i] = s[j]
    <3>1. CASE j < k
      <4>1. j \in 1..Len(t) /\ t[j] = s[j]
        BY <1>1, <2>1, <2>5, <2>8, <3>1
      <4> QED
        BY <4>1
    <3>2. CASE j > k
      <4>1. j - 1 \in 1..Len(t) /\ t[j - 1] = s[j]
        BY <1>1, <2>1, <2>5, <2>8, <3>2
      <4> QED
        BY <4>1
    <3> QED
      BY <1>1, <2>1, <2>8, <3>1, <3>2
  <2>9. {t[i] : i \in 1..Len(t)} = {s[i] : i \in 1..n} \ {f}
    BY <2>7, <2>8
  <2>10. Distinct(t)
    BY <2>6 DEF Distinct
  <2>11. t \in Seq(Files)
    BY <2>5
  <2>12. Members(t) = Members(s) \ {f}
    BY <2>9 DEF n, Members
  <2> QED
    BY <2>2, <2>10, <2>11, <2>12
<1>3. CASE ~\E i \in DOMAIN s : s[i] = f
  BY <1>1, <1>3 DEF Without, Members
<1> QED
  BY <1>2, <1>3

LEMMA Appended ==
    ASSUME NEW s \in Seq(Files), Distinct(s), NEW f \in Files, f \notin Members(s)
    PROVE  /\ Append(s, f) \in Seq(Files) /\ Distinct(Append(s, f))
           /\ Members(Append(s, f)) = Members(s) \cup {f}
           /\ Append(s, f) # <<>> /\ Last(Append(s, f)) = f
<1> DEFINE t == Append(s, f)
<1>1. /\ t \in Seq(Files) /\ Len(t) = Len(s) + 1 /\ t[Len(s) + 1] = f /\ Len(s) \in Nat
      /\ \A i \in 1..Len(s) : t[i] = s[i]
  BY AppendProperties, LenProperties
<1> HIDE DEF t
<1>2. 1..Len(t) = (1..Len(s)) \cup {Len(s) + 1}
  BY <1>1
<1>3. Members(t) = Members(s) \cup {f}
  BY <1>1, <1>2 DEF Members
<1>4. Distinct(t)
  BY <1>1, <1>2 DEF Distinct, Members
<1>5. t # <<>> /\ Last(t) = f
  <2>1. Len(t) # 0
    BY <1>1
  <2> QED
    BY <1>1, <2>1 DEF Last
<1> QED
  BY <1>1, <1>3, <1>4, <1>5 DEF t

\* The file used least recently is closed, and keeps its position.
LEMMA M_closeoldKeeps ==
    ASSUME MfilesAssumption, NEW S, NEW m, Sane(m, S), NoneFree(m), Listed(m) \subseteq Open(m)
    PROVE  LET r == M_closeold(m)
           IN  /\ Sane(r, S) /\ Cardinality(Open(r)) < Descriptors
               /\ Open(r) \subseteq Open(m) /\ Listed(r) \subseteq Listed(m)
               /\ Listed(r) \subseteq Open(r) /\ r.disk = m.disk
               /\ \A g \in Files : At(r, g) = At(m, g)
<1> DEFINE r == M_closeold(m)
           old == Head(m.lru)
<1> USE DEF Sane, IsMfiles
<1>1. IsFiniteSet(Open(m)) /\ Cardinality(Open(m)) \in Nat /\ Cardinality(Open(m)) >= Descriptors
  BY OpenIsFinite DEF NoneFree, Open
<1>2. Open(m) # {}
  BY <1>1, FS_EmptySet DEF MfilesAssumption
<1>3. m.lru # <<>> /\ old \in Listed(m) /\ old \in Files
  <2>1. Members(m.lru) # {}
    BY <1>2 DEF Listed
  <2>2. Len(m.lru) \in Nat /\ Len(m.lru) # 0
    BY <2>1, LenProperties DEF Members
  <2>3. m.lru # <<>>
    BY <2>2
  <2>4. old = m.lru[1] /\ 1 \in 1..Len(m.lru) /\ m.lru[1] \in Files
    BY <2>2, <2>3, HeadTailProperties, ElementOfSeq
  <2> QED
    BY <2>3, <2>4 DEF Members, Listed
<1>4. old \in Open(m) /\ m.stream[old] # Null /\ m.stream[old] \in Nat
  BY <1>3 DEF Open
<1>5. r = [m EXCEPT !.fptr[old] = m.stream[old], !.stream[old] = Null,
                    !.lru = Without(m.lru, old)]
  BY <1>3, <1>4 DEF M_closeold, Mf_unlink
<1>6. /\ r = [disk |-> r.disk, stream |-> r.stream, fptr |-> r.fptr, lru |-> r.lru,
              crashed |-> r.crashed]
      /\ r.disk = m.disk /\ r.crashed = m.crashed
      /\ r.fptr = [m.fptr EXCEPT ![old] = m.stream[old]]
      /\ r.stream = [m.stream EXCEPT ![old] = Null]
      /\ r.lru = Without(m.lru, old)
  BY <1>5
<1> HIDE DEF r, old
<1>7. /\ Without(m.lru, old) \in Seq(Files) /\ Distinct(Without(m.lru, old))
      /\ Members(Without(m.lru, old)) = Members(m.lru) \ {old}
  BY Unlinked
<1>8. Open(r) = Open(m) \ {old}
  BY <1>3, <1>6 DEF Open
<1>9. Listed(r) = Listed(m) \ {old}
  BY <1>6, <1>7 DEF Listed
<1>10. IsMfiles(r, S)
  BY <1>3, <1>4, <1>6, <1>7
<1>11. Cardinality(Open(r)) = Cardinality(Open(m)) - 1
  BY <1>1, <1>4, <1>8, FS_RemoveElement
<1>12. Cardinality(Open(r)) < Descriptors /\ Cardinality(Open(r)) <= Descriptors
  BY <1>1, <1>11 DEF MfilesAssumption
<1>13. ASSUME NEW g \in Files
       PROVE  At(r, g) = At(m, g)
  BY <1>3, <1>4, <1>6 DEF At
<1> QED
  BY <1>6, <1>8, <1>9, <1>10, <1>12, <1>13 DEF r

\* A file without a stream gets one, where it was closed.
LEMMA OpenedWhereClosed ==
    ASSUME MfilesAssumption, NEW S, NEW m, Sane(m, S), Ready(m), NEW f \in Files,
           f \notin Open(m), NEW mode
    PROVE  LET r == Mfopen_internal(m, f, mode)
           IN  /\ IsMfiles(r, S) /\ Open(r) \subseteq Listed(r) \cup {f}
               /\ Cardinality(Open(r)) <= Descriptors /\ f \in Open(r)
               /\ Listed(r) \subseteq Listed(m)
               /\ Listed(m) \subseteq Open(m) => Listed(r) \subseteq Open(r)
               /\ r.stream[f] = m.fptr[f] /\ OthersStay(r, m, f)
               /\ r.disk[f] = IF mode = "w" THEN <<>> ELSE m.disk[f]
<1> DEFINE free == Freed(m)
           r == Mfopen_internal(m, f, mode)
<1> USE DEF Sane, IsMfiles
<1>1. /\ Sane(free, S) /\ Cardinality(Open(free)) < Descriptors
      /\ Open(free) \subseteq Open(m) /\ Listed(free) \subseteq Listed(m)
      /\ Listed(m) \subseteq Open(m) => Listed(free) \subseteq Open(free)
      /\ free.disk = m.disk /\ \A g \in Files : At(free, g) = At(m, g)
  <2>1. Cardinality(Open(m)) \in Nat /\ Descriptors \in Nat
    BY OpenIsFinite DEF MfilesAssumption
  <2>2. NoneFree(m) <=> ~(Cardinality(Open(m)) < Descriptors)
    BY <2>1 DEF NoneFree, Open
  <2>3. CASE NoneFree(m)
    <3>1. Listed(m) \subseteq Open(m)
      BY <2>2, <2>3 DEF Ready
    <3> HIDE DEF Sane, IsMfiles
    <3>2. free = M_closeold(m)
      BY <2>3 DEF Freed
    <3> QED
      BY <2>3, <3>1, <3>2, M_closeoldKeeps
  <2>4. CASE ~NoneFree(m)
    BY <2>2, <2>4 DEF Freed
  <2> QED
    BY <2>3, <2>4
<1>2. f \notin Open(free) /\ free.stream[f] = Null /\ free.fptr[f] = m.fptr[f]
  BY <1>1 DEF Open, At
<1>3. r = [free EXCEPT !.stream[f] = m.fptr[f], !.disk[f] = IF mode = "w" THEN <<>> ELSE @]
  BY DEF Mfopen_internal
<1> HIDE DEF r, free
<1>4. /\ r = [disk |-> r.disk, stream |-> r.stream, fptr |-> r.fptr, lru |-> r.lru,
              crashed |-> r.crashed]
      /\ r.disk = [free.disk EXCEPT ![f] = IF mode = "w" THEN <<>> ELSE @]
      /\ r.stream = [free.stream EXCEPT ![f] = m.fptr[f]]
      /\ r.fptr = free.fptr /\ r.lru = free.lru /\ r.crashed = free.crashed
  BY <1>1, <1>3
<1>5. m.fptr[f] \in Nat /\ <<>> \in Seq(S) /\ m.fptr[f] # Null
  BY DEF Null
<1>6. Open(r) = Open(free) \cup {f}
  BY <1>1, <1>4, <1>5 DEF Open
<1>7. Listed(r) = Listed(free)
  BY <1>4 DEF Listed
<1>8. IsMfiles(r, S)
  BY <1>1, <1>4, <1>5
<1>9. Cardinality(Open(r)) <= Descriptors
  <2>1. Cardinality(Open(free) \cup {f}) = Cardinality(Open(free)) + 1 /\ Cardinality(Open(free)) \in Nat
    BY <1>2, OpenIsFinite, FS_AddElement
  <2> QED
    BY <1>1, <1>6, <2>1 DEF MfilesAssumption
<1>10. OthersStay(r, m, f)
  BY <1>1, <1>4 DEF OthersStay, At
<1>11. r.disk[f] = (IF mode = "w" THEN <<>> ELSE m.disk[f]) /\ r.stream[f] = m.fptr[f]
  BY <1>1, <1>4
<1> QED
  BY <1>1, <1>6, <1>7, <1>8, <1>9, <1>10, <1>11 DEF r

\* A file that was never opened is created at the end of the list.
LEMMA MfopenCreates ==
    ASSUME MfilesAssumption, NEW S, NEW m, Sane(m, S), Ready(m), NEW f \in Files,
           f \notin Listed(m)
    PROVE  LET r == Mfopen(m, f)
           IN  /\ Sane(r, S) /\ Latest(r, m, f) /\ OthersStay(r, m, f)
               /\ r.disk[f] = <<>> /\ At(r, f) = m.fptr[f]
<1> DEFINE o == Mfopen_internal(m, f, "w")
           r == Mfopen(m, f)
<1>1. f \notin Open(m)
  BY DEF Sane
<1>2. /\ IsMfiles(o, S) /\ Open(o) \subseteq Listed(o) \cup {f}
      /\ Cardinality(Open(o)) <= Descriptors /\ f \in Open(o)
      /\ Listed(o) \subseteq Listed(m)
      /\ Listed(m) \subseteq Open(m) => Listed(o) \subseteq Open(o)
      /\ o.stream[f] = m.fptr[f] /\ OthersStay(o, m, f) /\ o.disk[f] = <<>>
  BY <1>1, OpenedWhereClosed
<1>3. r = [o EXCEPT !.lru = Append(o.lru, f)]
  BY DEF Mfopen, Mf_totail
<1> HIDE DEF r, o
<1>4. /\ r = [disk |-> r.disk, stream |-> r.stream, fptr |-> r.fptr, lru |-> r.lru,
              crashed |-> r.crashed]
      /\ r.disk = o.disk /\ r.stream = o.stream /\ r.fptr = o.fptr /\ r.crashed = o.crashed
      /\ r.lru = Append(o.lru, f)
  BY <1>2, <1>3 DEF IsMfiles
<1>5. /\ r.lru \in Seq(Files) /\ Distinct(r.lru) /\ Members(r.lru) = Members(o.lru) \cup {f}
      /\ r.lru # <<>> /\ Last(r.lru) = f
  <2>1. f \notin Members(o.lru)
    BY <1>2 DEF Listed
  <2> QED
    BY <1>2, <1>4, <2>1, Appended, ZenonT(60) DEF IsMfiles
<1>6. Open(r) = Open(o) /\ Listed(r) = Listed(o) \cup {f} /\ \A g \in Files : At(r, g) = At(o, g)
  BY <1>4, <1>5 DEF Open, Listed, At
<1>7. Sane(r, S)
  BY <1>2, <1>4, <1>5, <1>6 DEF Sane, IsMfiles
<1>8. Latest(r, m, f)
  BY <1>2, <1>5, <1>6 DEF Latest
<1>9. OthersStay(r, m, f)
  BY <1>2, <1>4, <1>6 DEF OthersStay
<1>10. r.disk[f] = <<>> /\ At(r, f) = m.fptr[f]
  BY <1>2, <1>4, <1>6 DEF At, Open
<1> QED
  BY <1>7, <1>8, <1>9, <1>10 DEF r

\* A file is made ready where it was left.
LEMMA McheckKeeps ==
    ASSUME MfilesAssumption, NEW S, NEW m, Sane(m, S), NEW f \in Files,
           Ready(m) \/ f \in Open(m)
    PROVE  LET r == Mcheck(m, f)
           IN  /\ Sane(r, S) /\ Latest(r, m, f) /\ OthersStay(r, m, f)
               /\ r.disk[f] = m.disk[f] /\ r.stream[f] = At(m, f) /\ At(r, f) = At(m, f)
<1> DEFINE o == IF m.stream[f] = Null THEN Mfopen_internal(m, f, "r+") ELSE m
           r == Mcheck(m, f)
<1>1. /\ IsMfiles(o, S) /\ Open(o) \subseteq Listed(o) \cup {f}
      /\ Cardinality(Open(o)) <= Descriptors /\ f \in Open(o)
      /\ Listed(o) \subseteq Listed(m)
      /\ Listed(m) \subseteq Open(m) => Listed(o) \subseteq Open(o)
      /\ o.stream[f] = At(m, f) /\ OthersStay(o, m, f) /\ o.disk[f] = m.disk[f]
  <2>1. CASE f \in Open(m)
    <3>1. o = m
      BY <2>1 DEF Open
    <3> HIDE DEF o
    <3> QED
      BY <2>1, <3>1 DEF Open, Sane, OthersStay, At
  <2>2. CASE f \notin Open(m)
    <3>1. o = Mfopen_internal(m, f, "r+") /\ m.stream[f] = Null
      BY <2>2 DEF Open
    <3> HIDE DEF o
    <3> QED
      BY <2>2, <3>1, OpenedWhereClosed DEF At
  <2> QED
    BY <2>1, <2>2
<1>2. r = IF o.lru # <<>> /\ Last(o.lru) = f THEN o
          ELSE [o EXCEPT !.lru = Append(Without(o.lru, f), f)]
  BY DEF Mcheck, Mf_totail, Mf_unlink
<1> HIDE DEF r, o
<1>3. /\ r = [disk |-> r.disk, stream |-> r.stream, fptr |-> r.fptr, lru |-> r.lru,
              crashed |-> r.crashed]
      /\ r.disk = o.disk /\ r.stream = o.stream /\ r.fptr = o.fptr /\ r.crashed = o.crashed
      /\ r.lru = IF o.lru # <<>> /\ Last(o.lru) = f THEN o.lru
                 ELSE Append(Without(o.lru, f), f)
  BY <1>1, <1>2 DEF IsMfiles
<1>4. /\ r.lru \in Seq(Files) /\ Distinct(r.lru) /\ Members(r.lru) = Members(o.lru) \cup {f}
      /\ r.lru # <<>> /\ Last(r.lru) = f
  <2>1. o.lru \in Seq(Files) /\ Distinct(o.lru)
    BY <1>1 DEF IsMfiles
  <2>2. CASE o.lru # <<>> /\ Last(o.lru) = f
    <3>1. f \in Members(o.lru)
      <4>1. Len(o.lru) \in 1..Len(o.lru) /\ o.lru[Len(o.lru)] = f
        BY <2>1, <2>2, EmptySeq, LenProperties DEF Last
      <4> QED
        BY <4>1 DEF Members
    <3> QED
      BY <1>3, <2>1, <2>2, <3>1
  <2>3. CASE ~(o.lru # <<>> /\ Last(o.lru) = f)
    <3> DEFINE u == Without(o.lru, f)
    <3>1. u \in Seq(Files) /\ Distinct(u) /\ Members(u) = Members(o.lru) \ {f}
      BY <2>1, Unlinked
    <3>2. f \notin Members(u) /\ Members(u) \cup {f} = Members(o.lru) \cup {f}
      BY <3>1
    <3>3. r.lru = Append(u, f)
      BY <1>3, <2>3
    <3> HIDE DEF u
    <3> QED
      BY <3>1, <3>2, <3>3, Appended
  <2> QED
    BY <2>2, <2>3
<1>5. Open(r) = Open(o) /\ Listed(r) = Listed(o) \cup {f} /\ \A g \in Files : At(r, g) = At(o, g)
  BY <1>3, <1>4 DEF Open, Listed, At
<1>6. Sane(r, S)
  BY <1>1, <1>3, <1>4, <1>5 DEF Sane, IsMfiles
<1>7. Latest(r, m, f)
  BY <1>1, <1>4, <1>5 DEF Latest
<1>8. OthersStay(r, m, f)
  BY <1>1, <1>3, <1>5 DEF OthersStay
<1>9. r.disk[f] = m.disk[f] /\ r.stream[f] = At(m, f) /\ At(r, f) = At(m, f)
  BY <1>1, <1>3, <1>5 DEF At, Open
<1> QED
  BY <1>6, <1>7, <1>8, <1>9 DEF r

\* A file is a sequence of cells whatever is written where.
IsPut(r, S, data, pos, cells) ==
    /\ r \in Seq(S)
    /\ Len(r) = IF Len(data) > pos + Len(cells) THEN Len(data) ELSE pos + Len(cells)
    /\ \A k \in 1..Len(r) :
          r[k] = IF k > pos /\ k <= pos + Len(cells) THEN cells[k - pos]
                 ELSE IF k <= Len(data) THEN data[k] ELSE Hole

LEMMA PutIsCells ==
    ASSUME NEW S, Hole \in S, NEW data \in Seq(S), NEW pos \in Nat, NEW cells \in Seq(S)
    PROVE  IsPut(Put(data, pos, cells), S, data, pos, cells)
<1> DEFINE n == IF Len(data) > pos + Len(cells) THEN Len(data) ELSE pos + Len(cells)
           cell(k) == IF k > pos /\ k <= pos + Len(cells) THEN cells[k - pos]
                      ELSE IF k <= Len(data) THEN data[k] ELSE Hole
           d == [k \in 1..n |-> cell(k)]
<1>1. Len(data) \in Nat /\ Len(cells) \in Nat /\ n \in Nat
  BY LenProperties
<1>2. ASSUME NEW k \in 1..n
      PROVE  cell(k) \in S
  <2>1. k > pos /\ k <= pos + Len(cells) => k - pos \in 1..Len(cells)
    BY <1>1
  <2>2. k <= Len(data) => k \in 1..Len(data)
    BY <1>1
  <2> QED
    BY <2>1, <2>2, ElementOfSeq
<1> HIDE DEF n, cell
<1>3. d \in Seq(S) /\ Len(d) = n
  BY <1>1, <1>2, IsASeq
<1>4. \A k \in 1..n : d[k] = cell(k)
  OBVIOUS
<1>5. d = Put(data, pos, cells)
  BY DEF n, cell, Put
<1> HIDE DEF d
<1> QED
  BY <1>3, <1>4, <1>5 DEF n, cell, IsPut

\* What the calls on an open file change of it.
Changed(m, f, data, pos) == [m EXCEPT !.disk[f] = data, !.stream[f] = pos]

LEMMA ChangedKeeps ==
    ASSUME MfilesAssumption, NEW S, NEW o, Sane(o, S), NEW m, NEW f \in Files,
           Latest(o, m, f), OthersStay(o, m, f), NEW data \in Seq(S), NEW pos \in Nat
    PROVE  LET r == Changed(o, f, data, pos)
           IN  /\ Sane(r, S) /\ Latest(r, m, f) /\ OthersStay(r, m, f)
               /\ r.disk[f] = data /\ At(r, f) = pos
<1> DEFINE r == Changed(o, f, data, pos)
<1>0. r = [o EXCEPT !.disk[f] = data, !.stream[f] = pos]
  BY DEF Changed
<1> HIDE DEF r
<1>1. f \in Open(o) /\ pos # Null
  BY DEF Latest, Null
<1>2. /\ r = [disk |-> r.disk, stream |-> r.stream, fptr |-> r.fptr, lru |-> r.lru,
              crashed |-> r.crashed]
      /\ r.disk = [o.disk EXCEPT ![f] = data] /\ r.stream = [o.stream EXCEPT ![f] = pos]
      /\ r.fptr = o.fptr /\ r.crashed = o.crashed /\ r.lru = o.lru
  BY <1>0 DEF Sane, IsMfiles
<1>3. o.disk \in [Files -> Seq(S)] /\ o.stream \in [Files -> Nat \cup {Null}]
  BY DEF Sane, IsMfiles
<1>4. Open(r) = Open(o)
  BY <1>1, <1>2, <1>3 DEF Open
<1>5. Listed(r) = Listed(o)
  BY <1>2 DEF Listed
<1>6. Sane(r, S)
  BY <1>2, <1>3, <1>4, <1>5 DEF Sane, IsMfiles
<1>7. Latest(r, m, f)
  BY <1>2, <1>4, <1>5 DEF Latest
<1>8. OthersStay(r, m, f)
  BY <1>2, <1>3 DEF OthersStay, At
<1>9. r.disk[f] = data /\ At(r, f) = pos
  BY <1>1, <1>2, <1>3 DEF At
<1> QED
  BY <1>6, <1>7, <1>8, <1>9 DEF r

LEMMA MfwriteKeeps ==
    ASSUME MfilesAssumption, NEW S, Hole \in S, NEW m, Sane(m, S), NEW f \in Files,
           Ready(m) \/ f \in Open(m), NEW cells \in Seq(S)
    PROVE  LET r == Mfwrite(m, f, cells)
           IN  /\ Sane(r, S) /\ Latest(r, m, f) /\ OthersStay(r, m, f)
               /\ r.disk[f] = Put(m.disk[f], At(m, f), cells)
               /\ At(r, f) = At(m, f) + Len(cells)
<1> DEFINE o == Mcheck(m, f)
           r == Mfwrite(m, f, cells)
           data == Put(m.disk[f], At(m, f), cells)
           pos == At(m, f) + Len(cells)
<1>1. /\ Sane(o, S) /\ Latest(o, m, f) /\ OthersStay(o, m, f)
      /\ o.disk[f] = m.disk[f] /\ o.stream[f] = At(m, f)
  BY McheckKeeps
<1>2. r = [o EXCEPT !.disk[f] = Put(o.disk[f], o.stream[f], cells),
                    !.stream[f] = o.stream[f] + Len(cells)]
  BY DEF Mfwrite
<1>3. m.disk[f] \in Seq(S) /\ At(m, f) \in Nat
  BY DEF Sane, IsMfiles, At
<1>4. data \in Seq(S) /\ pos \in Nat
  BY <1>3, PutIsCells, LenProperties DEF IsPut
<1> HIDE DEF o, r
<1>5. r = Changed(o, f, data, pos)
  BY <1>1, <1>2 DEF Changed
<1> HIDE DEF data, pos
<1>6. /\ Sane(r, S) /\ Latest(r, m, f) /\ OthersStay(r, m, f)
      /\ r.disk[f] = data /\ At(r, f) = pos
  BY <1>1, <1>4, <1>5, ChangedKeeps
<1> QED
  BY <1>6 DEF r, data, pos

LEMMA MfseekMoves ==
    ASSUME MfilesAssumption, NEW S, NEW m, Sane(m, S), NEW f \in Files,
           Ready(m) \/ f \in Open(m), NEW pos \in Nat
    PROVE  LET r == Mfseek(m, f, pos)
           IN  /\ Sane(r, S) /\ Latest(r, m, f) /\ OthersStay(r, m, f)
               /\ r.disk[f] = m.disk[f] /\ At(r, f) = pos
<1> DEFINE o == Mcheck(m, f)
           r == Mfseek(m, f, pos)
<1>1. /\ Sane(o, S) /\ Latest(o, m, f) /\ OthersStay(o, m, f) /\ o.disk[f] = m.disk[f]
  BY McheckKeeps
<1>2. r = [o EXCEPT !.stream[f] = pos]
  BY DEF Mfseek
<1> HIDE DEF o, r
<1>3. o.disk[f] \in Seq(S) /\ [o.disk EXCEPT ![f] = o.disk[f]] = o.disk
  BY <1>1 DEF Sane, IsMfiles
<1>4. r = Changed(o, f, o.disk[f], pos)
  BY <1>1, <1>2, <1>3 DEF Sane, IsMfiles, Changed
<1>5. /\ Sane(r, S) /\ Latest(r, m, f) /\ OthersStay(r, m, f)
      /\ r.disk[f] = o.disk[f] /\ At(r, f) = pos
  BY <1>1, <1>3, <1>4, ChangedKeeps
<1> QED
  BY <1>1, <1>5 DEF r

\* A closed file leaves a descriptor free.
LEMMA MfcloseFrees ==
    ASSUME MfilesAssumption, NEW S, NEW m, Sane(m, S), NEW f \in Files,
           Ready(m) \/ f \in Open(m)
    PROVE  LET r == Mfclose(m, f)
           IN  /\ Sane(r, S) /\ Cardinality(Open(r)) < Descriptors /\ OthersStay(r, m, f)
               /\ Listed(r) \subseteq Listed(m) \cup {f} /\ r.disk[f] = m.disk[f]
<1> DEFINE o == Mcheck(m, f)
           r == Mfclose(m, f)
<1>1. /\ Sane(o, S) /\ Latest(o, m, f) /\ OthersStay(o, m, f) /\ o.disk[f] = m.disk[f]
  BY McheckKeeps
<1>2. r = [o EXCEPT !.stream[f] = Null]
  BY DEF Mfclose
<1> HIDE DEF o, r
<1>3. /\ r = [disk |-> r.disk, stream |-> r.stream, fptr |-> r.fptr, lru |-> r.lru,
              crashed |-> r.crashed]
      /\ r.disk = o.disk /\ r.stream = [o.stream EXCEPT ![f] = Null]
      /\ r.fptr = o.fptr /\ r.crashed = o.crashed /\ r.lru = o.lru
  BY <1>1, <1>2 DEF Sane, IsMfiles
<1>4. o.disk \in [Files -> Seq(S)] /\ o.stream \in [Files -> Nat \cup {Null}]
  BY <1>1 DEF Sane, IsMfiles
<1>5. Open(r) = Open(o) \ {f}
  BY <1>3, <1>4 DEF Open
<1>6. Listed(r) = Listed(o)
  BY <1>3 DEF Listed
<1>7. Cardinality(Open(r)) = Cardinality(Open(o)) - 1 /\ Cardinality(Open(o)) \in Nat
  <2>1. IsFiniteSet(Open(o)) /\ Cardinality(Open(o)) \in Nat
    BY OpenIsFinite
  <2>2. f \in Open(o)
    BY <1>1 DEF Latest
  <2> QED
    BY <1>5, <2>1, <2>2, FS_RemoveElement, ZenonT(60)
<1>8. Cardinality(Open(r)) < Descriptors /\ Cardinality(Open(r)) <= Descriptors
  BY <1>1, <1>7 DEF Sane, MfilesAssumption
<1>9. Sane(r, S)
  BY <1>1, <1>3, <1>4, <1>5, <1>6, <1>8 DEF Sane, IsMfiles
<1>10. OthersStay(r, m, f)
  BY <1>1, <1>3, <1>4 DEF OthersStay, At
<1>11. Listed(r) \subseteq Listed(m) \cup {f} /\ r.disk[f] = m.disk[f]
  BY <1>1, <1>3, <1>6 DEF Latest
<1> QED
  BY <1>8, <1>9, <1>10, <1>11 DEF r

-----------------------------------------------------------------------------
(* Plots, contents and reports.                                            *)

Lines == {"dot"} \X Nat
Cell == {Hole} \cup Nat \cup Lines \cup ({"header"} \X {"dtime axis", "time axis"})
        \cup {<<"go">>, <<"report">>}

Header(p) == <<"header", IF p.axis_switched THEN "dtime axis" ELSE "time axis">>
Headed(p, c) == <<Header(p)>> \o c
Ending(f) == IF options.ignore_non_comp /\ f \in Incomplete THEN <<>> ELSE <<<<"go">>>>

\* A plot that is open holds its header and its commands, one that is not was
\* never a file.
PlotAt(m, f, p, c) ==
    IF p.open
    THEN /\ m.disk[f] = IF p.header_done THEN Headed(p, c) ELSE <<>>
         /\ At(m, f) = Len(m.disk[f]) /\ (~p.header_done => c = <<>>)
    ELSE /\ f \notin Listed(m) /\ m.disk[f] = <<>> /\ At(m, f) = 0
         /\ c = <<>> /\ ~p.header_done

\* A stream is positioned where the segment before starts.
ContentAt(m, f, e, s) ==
    IF e.initseq = Unseen
    THEN f \notin Listed(m) /\ m.disk[f] = <<>> /\ At(m, f) = 0 /\ s = <<>>
    ELSE /\ e.lastseq \in Nat /\ e.lastseq >= e.initseq
         /\ At(m, f) = e.lastseq - e.initseq
         /\ \A k \in 1..Len(m.disk[f]) : m.disk[f][k] \in {Hole, e.initseq + k - 1}
         /\ \A k \in 1..Len(s) : /\ s[k] - e.initseq + 1 \in 1..Len(m.disk[f])
                                 /\ m.disk[f][s[k] - e.initseq + 1] = s[k]

ReportAt(m, f) == m.disk[f] = <<>> => f \notin Listed(m)

PlottingTypes ==
    /\ Sane(files, Cell)
    /\ plotter \in [Plots -> [open : BOOLEAN, header_done : BOOLEAN, axis_switched : BOOLEAN,
                              zerotime : Nat]]
    /\ extracted \in [Contents -> [initseq : Nat \cup {Unseen}, lastseq : Nat \cup {Unseen}]]
    /\ data_bytes \in [Contents -> Nat]
    /\ phase \in {"read", "modules", "done", "exit", "crash"}
    /\ options \in [graph_time_zero : BOOLEAN, ignore_non_comp : BOOLEAN]
    /\ commands \in [Plots -> Seq(Lines)] /\ stored \in [Contents -> Seq(Nat)]

PlottingInv ==
    /\ PlottingTypes
    /\ phase = "read" => Listed(files) \subseteq Open(files)
    /\ Ready(files)
    /\ \A f \in Plots :
          IF phase = "done" /\ plotter[f].open
          THEN files.disk[f] = Headed(plotter[f], commands[f]) \o Ending(f)
          ELSE PlotAt(files, f, plotter[f], commands[f])
    /\ \A f \in Contents : ContentAt(files, f, extracted[f], stored[f])
    /\ \A f \in Reports : ReportAt(files, f)

\* r is m with f used: others stay, and a descriptor is there for the next.
Reached(r, m, f) ==
    /\ Sane(r, Cell) /\ OthersStay(r, m, f) /\ Listed(r) \subseteq Listed(m) \cup {f}
    /\ Listed(m) \subseteq Open(m) => Listed(r) \subseteq Open(r)
    /\ Ready(r) \/ f \in Open(r)

LEMMA LatestIsReached ==
    ASSUME NEW r, NEW m, NEW f, Sane(r, Cell), Latest(r, m, f), OthersStay(r, m, f)
    PROVE  Reached(r, m, f)
BY DEF Reached, Latest

LEMMA ReachedAgain ==
    ASSUME NEW q, NEW r, NEW m, NEW f, Reached(q, r, f), Reached(r, m, f)
    PROVE  Reached(q, m, f)
<1>1. OthersStay(q, m, f)
  BY DEF Reached, OthersStay
<1> QED
  BY <1>1 DEF Reached

\* What is done to a file leaves the others as they are.
LEMMA OthersAreKept ==
    ASSUME NEW r, NEW m, NEW f, Listed(r) \subseteq Listed(m) \cup {f}, OthersStay(r, m, f),
           NEW g \in Files \ {f}
    PROVE  /\ \A p, c : PlotAt(m, g, p, c) => PlotAt(r, g, p, c)
           /\ \A e, s : ContentAt(m, g, e, s) => ContentAt(r, g, e, s)
           /\ ReportAt(m, g) => ReportAt(r, g)
<1>1. r.disk[g] = m.disk[g] /\ At(r, g) = At(m, g) /\ (g \notin Listed(m) => g \notin Listed(r))
  BY DEF OthersStay
<1>2. ASSUME NEW p, NEW c, PlotAt(m, g, p, c)
      PROVE  PlotAt(r, g, p, c)
  BY <1>1, <1>2 DEF PlotAt
<1>3. ASSUME NEW e, NEW s, ContentAt(m, g, e, s)
      PROVE  ContentAt(r, g, e, s)
  BY <1>1, <1>3 DEF ContentAt
<1>4. ReportAt(m, g) => ReportAt(r, g)
  BY <1>1 DEF ReportAt
<1> QED
  BY <1>2, <1>3, <1>4

LEMMA CellsAreCells ==
    ASSUME NEW p
    PROVE  /\ Hole \in Cell /\ Header(p) \in Cell /\ <<"go">> \in Cell /\ <<"report">> \in Cell
           /\ Nat \subseteq Cell /\ Lines \subseteq Cell
BY DEF Cell, Header

\* Writing a cell at the end of a file.
LEMMA PutAtEnd ==
    ASSUME NEW data \in Seq(Cell), NEW c \in Cell
    PROVE  Put(data, Len(data), <<c>>) = Append(data, c)
<1> DEFINE r == Put(data, Len(data), <<c>>)
           t == Append(data, c)
<1>1. Len(data) \in Nat /\ <<c>> \in Seq(Cell) /\ Len(<<c>>) = 1 /\ <<c>>[1] = c
  BY LenProperties
<1>2. /\ t \in Seq(Cell) /\ Len(t) = Len(data) + 1 /\ t[Len(data) + 1] = c
      /\ \A k \in 1..Len(data) : t[k] = data[k]
  BY AppendProperties
<1>3. /\ r \in Seq(Cell) /\ Len(r) = Len(data) + 1
      /\ \A k \in 1..Len(r) : r[k] = IF k > Len(data) /\ k <= Len(data) + 1 THEN <<c>>[k - Len(data)]
                                     ELSE IF k <= Len(data) THEN data[k] ELSE Hole
  <2>1. Hole \in Cell
    BY CellsAreCells
  <2> HIDE DEF r
  <2>2. /\ r \in Seq(Cell)
        /\ Len(r) = IF Len(data) > Len(data) + Len(<<c>>) THEN Len(data)
                    ELSE Len(data) + Len(<<c>>)
        /\ \A k \in 1..Len(r) : r[k] =
               IF k > Len(data) /\ k <= Len(data) + Len(<<c>>) THEN <<c>>[k - Len(data)]
               ELSE IF k <= Len(data) THEN data[k] ELSE Hole
    BY <1>1, <2>1, PutIsCells, ZenonT(60) DEF r, IsPut
  <2> QED
    BY <1>1, <2>2
<1> HIDE DEF r, t
<1>4. ASSUME NEW k \in 1..Len(r)
      PROVE  r[k] = t[k]
  <2>1. CASE k = Len(data) + 1
    BY <1>1, <1>2, <1>3, <2>1
  <2>2. CASE k # Len(data) + 1
    <3>1. k \in 1..Len(data) /\ ~(k > Len(data)) /\ k <= Len(data)
      BY <1>1, <1>3, <2>2
    <3> QED
      BY <1>2, <1>3, <3>1
  <2> QED
    BY <2>1, <2>2
<1>5. r = t
  BY <1>2, <1>3, <1>4, SeqEqual
<1> QED
  BY <1>5 DEF r, t

\* A line goes to the end of a file that is positioned there.
LEMMA LineAtEnd ==
    ASSUME MfilesAssumption, NEW m, Sane(m, Cell), NEW f \in Files, Ready(m) \/ f \in Open(m),
           At(m, f) = Len(m.disk[f]), NEW c \in Cell
    PROVE  LET r == Mfprintf(m, f, c)
           IN  /\ Reached(r, m, f) /\ r.disk[f] = Append(m.disk[f], c)
               /\ At(r, f) = Len(r.disk[f]) /\ f \in Open(r)
<1> DEFINE r == Mfprintf(m, f, c)
<1>1. r = Mfwrite(m, f, <<c>>)
  BY DEF Mfprintf
<1> HIDE DEF r
<1>2. <<c>> \in Seq(Cell) /\ Len(<<c>>) = 1 /\ Hole \in Cell
  BY CellsAreCells
<1>3. /\ Sane(r, Cell) /\ Latest(r, m, f) /\ OthersStay(r, m, f)
      /\ r.disk[f] = Put(m.disk[f], At(m, f), <<c>>)
      /\ At(r, f) = At(m, f) + Len(<<c>>)
  <2> DEFINE d == <<c>>
  <2> HIDE DEF d
  <2>1. d \in Seq(Cell) /\ r = Mfwrite(m, f, d)
    BY <1>1, <1>2 DEF d
  <2>2. /\ Sane(Mfwrite(m, f, d), Cell) /\ Latest(Mfwrite(m, f, d), m, f)
        /\ OthersStay(Mfwrite(m, f, d), m, f)
        /\ Mfwrite(m, f, d).disk[f] = Put(m.disk[f], At(m, f), d)
        /\ At(Mfwrite(m, f, d), f) = At(m, f) + Len(d)
    BY <1>2, <2>1, MfwriteKeeps, SMTT(60)
  <2> QED
    BY <2>1, <2>2 DEF d
<1>4. m.disk[f] \in Seq(Cell)
  BY DEF Sane, IsMfiles
<1>5. r.disk[f] = Append(m.disk[f], c) /\ Len(r.disk[f]) = Len(m.disk[f]) + 1
  BY <1>3, <1>4, PutAtEnd, AppendProperties
<1>6. Reached(r, m, f) /\ f \in Open(r)
  BY <1>3, LatestIsReached DEF Latest
<1> QED
  BY <1>2, <1>3, <1>5, <1>6 DEF r

LEMMA NothingIsReached ==
    ASSUME NEW m, NEW f, Sane(m, Cell), Ready(m) \/ f \in Open(m)
    PROVE  Reached(m, m, f)
BY DEF Reached, OthersStay

\* The header is written once.
LEMMA HeaderIsThere ==
    ASSUME MfilesAssumption, NEW m, Sane(m, Cell), NEW f \in Files, Ready(m), NEW p,
           p.open, p.header_done \in BOOLEAN, NEW c \in Seq(Lines), PlotAt(m, f, p, c)
    PROVE  LET r == WritePlotHeader(m, f, p)
           IN  /\ Reached(r, m, f) /\ r.disk[f] = Headed(p, c)
               /\ At(r, f) = Len(r.disk[f])
<1> DEFINE r == WritePlotHeader(m, f, p)
<1>1. CASE p.header_done
  <2>1. r = m
    BY <1>1 DEF WritePlotHeader
  <2> QED
    BY <1>1, <2>1, NothingIsReached DEF PlotAt
<1>2. CASE ~p.header_done
  <2>1. r = Mfprintf(m, f, Header(p))
    BY <1>2 DEF WritePlotHeader, Header
  <2> HIDE DEF r
  <2>2. m.disk[f] = <<>> /\ At(m, f) = Len(m.disk[f]) /\ c = <<>> /\ Header(p) \in Cell
    BY <1>2, CellsAreCells DEF PlotAt
  <2>3. /\ Reached(r, m, f) /\ r.disk[f] = Append(m.disk[f], Header(p))
        /\ At(r, f) = Len(r.disk[f])
    BY <2>1, <2>2, LineAtEnd
  <2>4. Append(<<>>, Header(p)) = Headed(p, <<>>)
    BY <2>2, ConcatEmptySeq DEF Headed
  <2> QED
    BY <2>2, <2>3, <2>4 DEF r
<1> QED
  BY <1>1, <1>2

LEMMA LinesBehindHeader ==
    ASSUME NEW p, NEW c \in Seq(Lines), NEW l \in Cell
    PROVE  /\ Headed(p, c) \in Seq(Cell)
           /\ Append(Headed(p, c), l) = Headed(p, c) \o <<l>>
           /\ Append(Headed(p, c), l) = Headed(p, Append(c, l))
<1> USE DEF Headed
<1>1. <<Header(p)>> \in Seq(Cell) /\ c \in Seq(Cell) /\ <<l>> \in Seq(Cell)
  <2>1. Header(p) \in Cell /\ Lines \subseteq Cell
    BY CellsAreCells
  <2> QED
    BY <2>1, IsASeq
<1>2. <<Header(p)>> \o c \in Seq(Cell)
  BY <1>1, ConcatProperties
<1>3. Append(<<Header(p)>> \o c, l) = (<<Header(p)>> \o c) \o <<l>>
  BY <1>2, AppendIsConcat
<1>4. Append(c, l) = c \o <<l>>
  BY <1>1, AppendIsConcat
<1>5. (<<Header(p)>> \o c) \o <<l>> = <<Header(p)>> \o (c \o <<l>>)
  BY <1>1, ConcatAssociative
<1> QED
  BY <1>2, <1>3, <1>4, <1>5

LEMMA InitIsWhole ==
    ASSUME MfilesAssumption, PlottingAssumption, PlottingInit
    PROVE  PlottingInv
<1>1. /\ files = Minit /\ plotter = [f \in Plots |-> NoPlotter]
      /\ extracted = [f \in Contents |-> [initseq |-> Unseen, lastseq |-> Unseen]]
      /\ data_bytes = [f \in Contents |-> 0]
      /\ phase = "read"
      /\ options \in [graph_time_zero : BOOLEAN, ignore_non_comp : BOOLEAN]
      /\ commands = [f \in Plots |-> <<>>] /\ stored = [f \in Contents |-> <<>>]
  BY DEF PlottingInit
<1>2. /\ files = [disk |-> files.disk, stream |-> files.stream, fptr |-> files.fptr,
                 lru |-> files.lru, crashed |-> files.crashed]
      /\ files.disk = [f \in Files |-> <<>>] /\ files.stream = [f \in Files |-> Null]
      /\ files.fptr = [f \in Files |-> 0] /\ files.lru = <<>> /\ files.crashed = FALSE
  BY <1>1 DEF Minit
<1>3. Open(files) = {} /\ Listed(files) = {}
  BY <1>2 DEF Open, Listed, Members
<1>4. Cardinality(Open(files)) = 0 /\ Descriptors \in Nat \ {0}
  BY <1>3, FS_EmptySet DEF MfilesAssumption
<1>5. Sane(files, Cell)
  <2>1. files.disk \in [Files -> Seq(Cell)] /\ files.stream \in [Files -> Nat \cup {Null}]
        /\ files.fptr \in [Files -> Nat] /\ files.lru \in Seq(Files) /\ Distinct(files.lru)
    BY <1>2 DEF Distinct
  <2> QED
    BY <1>2, <1>3, <1>4, <2>1 DEF Sane, IsMfiles
<1>6. PlottingTypes
  <2>1. plotter \in [Plots -> [open : BOOLEAN, header_done : BOOLEAN, axis_switched : BOOLEAN,
                              zerotime : Nat]]
    BY <1>1 DEF NoPlotter
  <2>2. extracted \in [Contents -> [initseq : Nat \cup {Unseen}, lastseq : Nat \cup {Unseen}]]
    BY <1>1
  <2> QED
    BY <1>1, <1>5, <2>1, <2>2 DEF PlottingTypes
<1>7. ASSUME NEW f \in Files
      PROVE  f \notin Listed(files) /\ files.disk[f] = <<>> /\ At(files, f) = 0
  BY <1>2, <1>3 DEF At
<1>8. Plots \subseteq Files /\ Contents \subseteq Files /\ Reports \subseteq Files
  BY DEF PlottingAssumption
<1>9. \A f \in Plots : PlotAt(files, f, plotter[f], commands[f])
  BY <1>1, <1>7, <1>8 DEF PlotAt, NoPlotter
<1>10. \A f \in Contents : ContentAt(files, f, extracted[f], stored[f])
  BY <1>1, <1>7, <1>8 DEF ContentAt
<1>11. \A f \in Reports : ReportAt(files, f)
  BY <1>7, <1>8 DEF ReportAt
<1>12. Ready(files)
  BY <1>3 DEF Ready
<1> QED
  BY <1>1, <1>3, <1>6, <1>9, <1>10, <1>11, <1>12 DEF PlottingInv

\* What a call on one file leaves of the invariant.
LEMMA TheOthersStayWhole ==
    ASSUME MfilesAssumption, PlottingAssumption, PlottingInv, phase # "done",
           NEW r, NEW f \in Files,
           OthersStay(r, files, f), Listed(r) \subseteq Listed(files) \cup {f}
    PROVE  /\ \A g \in Plots \ {f} : PlotAt(r, g, plotter[g], commands[g])
           /\ \A g \in Contents \ {f} : ContentAt(r, g, extracted[g], stored[g])
           /\ \A g \in Reports \ {f} : ReportAt(r, g)
           /\ phase = "read" /\ Reached(r, files, f) => Listed(r) \subseteq Open(r) /\ Ready(r)
<1>1. Plots \subseteq Files /\ Contents \subseteq Files /\ Reports \subseteq Files
  BY DEF PlottingAssumption
<1>2. Listed(r) \subseteq Listed(files) \cup {f} /\ OthersStay(r, files, f)
  OBVIOUS
<1>3. ASSUME NEW g \in Plots \ {f}
      PROVE  PlotAt(r, g, plotter[g], commands[g])
  <2>1. PlotAt(files, g, plotter[g], commands[g])
    BY DEF PlottingInv
  <2> QED
    BY <1>1, <1>2, <2>1, OthersAreKept
<1>4. ASSUME NEW g \in Contents \ {f}
      PROVE  ContentAt(r, g, extracted[g], stored[g])
  <2>1. ContentAt(files, g, extracted[g], stored[g])
    BY DEF PlottingInv
  <2> QED
    BY <1>1, <1>2, <2>1, OthersAreKept
<1>5. ASSUME NEW g \in Reports \ {f}
      PROVE  ReportAt(r, g)
  <2>1. ReportAt(files, g)
    BY DEF PlottingInv
  <2> QED
    BY <1>1, <1>2, <2>1, OthersAreKept
<1>6. phase = "read" /\ Reached(r, files, f) => Listed(r) \subseteq Open(r) /\ Ready(r)
  BY DEF PlottingInv, Reached, Ready
<1> QED
  BY <1>3, <1>4, <1>5, <1>6

LEMMA new_plotterKeeps ==
    ASSUME MfilesAssumption, PlottingAssumption, PlottingInv, NEW f \in Plots, NEW t \in Times,
           new_plotter(f, t)
    PROVE  PlottingInv'
<1> DEFINE p == [NoPlotter EXCEPT !.open = TRUE, !.axis_switched = f \in TimeLines]
           q == [p EXCEPT !.zerotime = xp_zerotime(p, t)]
<1>1. /\ phase = "read" /\ ~plotter[f].open /\ files' = Mfopen(files, f)
      /\ plotter' = [plotter EXCEPT ![f] = q]
      /\ extracted' = extracted /\ phase' = phase /\ options' = options
      /\ data_bytes' = data_bytes /\ commands' = commands /\ stored' = stored
  BY DEF new_plotter
<1>2. PlottingTypes
  BY DEF PlottingInv
<1>3. f \in Files /\ f \notin Contents /\ f \notin Reports /\ t \in Nat
  BY DEF PlottingAssumption
<1>4. f \notin Listed(files) /\ At(files, f) = 0 /\ commands[f] = <<>>
  BY <1>1 DEF PlottingInv, PlotAt
<1>5. files.fptr[f] = 0
  BY <1>2, <1>3, <1>4 DEF PlottingTypes, Sane, Open, At
<1>6. /\ Reached(files', files, f) /\ files'.disk[f] = <<>> /\ At(files', f) = 0
  <2>1. Ready(files) /\ Sane(files, Cell)
    BY <1>2 DEF PlottingInv, PlottingTypes
  <2>2. LET r == Mfopen(files, f)
        IN  /\ Sane(r, Cell) /\ Latest(r, files, f) /\ OthersStay(r, files, f)
            /\ r.disk[f] = <<>> /\ At(r, f) = files.fptr[f]
    BY <1>3, <1>4, <2>1, MfopenCreates
  <2> QED
    BY <1>1, <1>5, <2>2, LatestIsReached
<1>7. /\ q.open /\ q.header_done = FALSE /\ q.zerotime \in Nat
      /\ q \in [open : BOOLEAN, header_done : BOOLEAN, axis_switched : BOOLEAN, zerotime : Nat]
  <2> DEFINE z == xp_zerotime(p, t)
             b == f \in TimeLines
  <2>1. b \in BOOLEAN
    OBVIOUS
  <2> HIDE DEF b
  <2>2. p = [NoPlotter EXCEPT !.open = TRUE, !.axis_switched = b]
    BY DEF b
  <2> HIDE DEF p
  <2>3. /\ p = [open |-> p.open, header_done |-> p.header_done, axis_switched |-> p.axis_switched,
                zerotime |-> p.zerotime]
        /\ p.open = TRUE /\ p.header_done = FALSE /\ p.axis_switched = b /\ p.zerotime = 0
    BY <2>2 DEF NoPlotter
  <2>4. z \in Nat
    BY <1>3, <2>3 DEF xp_zerotime
  <2> HIDE DEF z
  <2>5. q = [p EXCEPT !.zerotime = z]
    BY DEF z
  <2> QED
    BY <2>1, <2>3, <2>4, <2>5
<1> HIDE DEF q
<1>8. plotter'[f] = q /\ \A g \in Plots \ {f} : plotter'[g] = plotter[g]
  BY <1>1, <1>2 DEF PlottingTypes
<1>9. PlottingTypes'
  BY <1>1, <1>2, <1>6, <1>7 DEF PlottingTypes, Reached
<1>10. PlotAt(files', f, plotter'[f], commands'[f])
  BY <1>1, <1>4, <1>6, <1>7, <1>8 DEF PlotAt
<1>11. /\ \A g \in Plots \ {f} : PlotAt(files', g, plotter[g], commands[g])
       /\ \A g \in Contents \ {f} : ContentAt(files', g, extracted[g], stored[g])
       /\ \A g \in Reports \ {f} : ReportAt(files', g)
       /\ Listed(files') \subseteq Open(files') /\ Ready(files')
  BY <1>1, <1>3, <1>6, TheOthersStayWhole DEF Reached
<1>12. \A g \in Plots : PlotAt(files', g, plotter'[g], commands'[g])
  BY <1>1, <1>8, <1>10, <1>11
<1>13. Listed(files)' \subseteq Open(files)' /\ Ready(files)'
  BY <1>11
<1> QED
  BY <1>1, <1>3, <1>9, <1>11, <1>12, <1>13 DEF PlottingInv

LEMMA PlotKeeps ==
    ASSUME MfilesAssumption, PlottingAssumption, PlottingInv, NEW f \in Plots, NEW t \in Times,
           Plot(f, "dot", t)
    PROVE  PlottingInv'
<1> DEFINE p == plotter[f]
           line == <<"dot", xp_timestamp(p, t)>>
           headed == WritePlotHeader(files, f, p)
           zero == xp_zerotime(p, t)
<1>1. /\ phase = "read" /\ plotter[f].open /\ files' = Mfprintf(headed, f, line)
      /\ plotter' = [plotter EXCEPT ![f].header_done = TRUE, ![f].zerotime = zero]
      /\ commands' = [commands EXCEPT ![f] = Append(@, line)]
      /\ extracted' = extracted /\ phase' = phase /\ options' = options /\ stored' = stored
      /\ data_bytes' = data_bytes
  BY DEF Plot, DoPlot
<1>2. PlottingTypes
  BY DEF PlottingInv
<1>3. f \in Files /\ f \notin Contents /\ f \notin Reports /\ t \in Nat
  BY DEF PlottingAssumption
<1>4. /\ p \in [open : BOOLEAN, header_done : BOOLEAN, axis_switched : BOOLEAN, zerotime : Nat]
      /\ commands[f] \in Seq(Lines) /\ PlotAt(files, f, p, commands[f])
  BY <1>1, <1>2 DEF PlottingTypes, PlottingInv
<1>5. zero \in Nat
  BY <1>3, <1>4 DEF xp_zerotime
<1>6. line \in Lines /\ line \in Cell
  <2>1. xp_timestamp(p, t) \in Nat
    <3> HIDE DEF p
    <3> QED
      BY <1>3, <1>5 DEF xp_timestamp
  <2> HIDE DEF p
  <2>2. line \in Lines
    BY <2>1 DEF Lines
  <2> HIDE DEF line
  <2> QED
    BY <2>2, CellsAreCells
<1> HIDE DEF line, zero, p
<1>7. /\ Reached(headed, files, f) /\ headed.disk[f] = Headed(p, commands[f])
      /\ At(headed, f) = Len(headed.disk[f])
  <2>1. Ready(files) /\ Sane(files, Cell) /\ p.open /\ p.header_done \in BOOLEAN
    BY <1>1, <1>2, <1>4 DEF PlottingInv, PlottingTypes, p
  <2> QED
    BY <1>3, <1>4, <2>1, HeaderIsThere
<1> HIDE DEF headed
<1>8. /\ Reached(files', files, f) /\ files'.disk[f] = Append(headed.disk[f], line)
      /\ At(files', f) = Len(files'.disk[f])
  <2>1. Sane(headed, Cell) /\ (Ready(headed) \/ f \in Open(headed))
    BY <1>7 DEF Reached
  <2>2. LET r == Mfprintf(headed, f, line)
        IN  /\ Reached(r, headed, f) /\ r.disk[f] = Append(headed.disk[f], line)
            /\ At(r, f) = Len(r.disk[f])
    BY <1>3, <1>6, <1>7, <2>1, LineAtEnd, SMTT(60)
  <2> QED
    BY <1>1, <1>7, <2>2, ReachedAgain
<1>9. files'.disk[f] = Headed(p, Append(commands[f], line))
  <2>1. Append(Headed(p, commands[f]), line) = Headed(p, Append(commands[f], line))
    <3> DEFINE c == commands[f]
    <3>1. c \in Seq(Lines)
      BY <1>4
    <3> HIDE DEF c
    <3>2. Append(Headed(p, c), line) = Headed(p, Append(c, line))
      BY ONLY <1>6, <3>1, LinesBehindHeader, Zenon
    <3> QED
      BY <3>2 DEF c
  <2> QED
    BY <1>7, <1>8, <2>1
<1>10. /\ plotter' \in [Plots -> [open : BOOLEAN, header_done : BOOLEAN, axis_switched : BOOLEAN,
                                  zerotime : Nat]]
       /\ plotter'[f].open = TRUE /\ plotter'[f].header_done = TRUE
       /\ plotter'[f].axis_switched = p.axis_switched
       /\ \A g \in Plots \ {f} : plotter'[g] = plotter[g]
  BY <1>1, <1>2, <1>4, <1>5 DEF PlottingTypes, p
<1>11. /\ commands' \in [Plots -> Seq(Lines)] /\ commands'[f] = Append(commands[f], line)
       /\ \A g \in Plots \ {f} : commands'[g] = commands[g]
  BY <1>1, <1>2, <1>4, <1>6, AppendProperties DEF PlottingTypes
<1>12. PlottingTypes'
  BY <1>1, <1>2, <1>8, <1>10, <1>11 DEF PlottingTypes, Reached
<1>13. PlotAt(files', f, plotter'[f], commands'[f])
  <2>1. Header(plotter'[f]) = Header(p)
    BY <1>10 DEF Header
  <2> QED
    BY <1>8, <1>9, <1>10, <1>11, <2>1 DEF PlotAt, Headed
<1>14. /\ \A g \in Plots \ {f} : PlotAt(files', g, plotter[g], commands[g])
       /\ \A g \in Contents \ {f} : ContentAt(files', g, extracted[g], stored[g])
       /\ \A g \in Reports \ {f} : ReportAt(files', g)
       /\ Listed(files') \subseteq Open(files') /\ Ready(files')
  BY <1>1, <1>3, <1>8, TheOthersStayWhole DEF Reached
<1>15. \A g \in Plots : PlotAt(files', g, plotter'[g], commands'[g])
  BY <1>10, <1>11, <1>13, <1>14
<1>16. Listed(files)' \subseteq Open(files)' /\ Ready(files)'
  BY <1>14
<1> QED
  BY <1>1, <1>3, <1>12, <1>14, <1>15, <1>16 DEF PlottingInv

LEMMA FinishReadingKeeps ==
    ASSUME PlottingInv, FinishReading
    PROVE  PlottingInv'
<1>1. /\ phase = "read" /\ phase' = "modules"
      /\ UNCHANGED <<files, plotter, extracted, data_bytes, options, commands, stored>>
  BY DEF FinishReading
<1>2. /\ Sane(files, Cell)' <=> Sane(files, Cell)
      /\ Ready(files)' <=> Ready(files)
      /\ \A f, p, c : PlotAt(files', f, p, c) <=> PlotAt(files, f, p, c)
      /\ \A f, e, s : ContentAt(files', f, e, s) <=> ContentAt(files, f, e, s)
      /\ \A f : ReportAt(files', f) <=> ReportAt(files, f)
  BY <1>1
<1>3. PlottingTypes'
  BY <1>1, <1>2 DEF PlottingInv, PlottingTypes
<1> QED
  BY <1>1, <1>2, <1>3 DEF PlottingInv

LEMMA ReportKeeps ==
    ASSUME MfilesAssumption, PlottingAssumption, PlottingInv, NEW f \in Reports, Report(f)
    PROVE  PlottingInv'
<1> DEFINE o == Mfopen(files, f)
           w == Mfprintf(o, f, <<"report">>)
<1>1. /\ phase = "modules" /\ files.disk[f] = <<>> /\ files' = Mfclose(w, f)
      /\ plotter' = plotter /\ extracted' = extracted /\ phase' = phase /\ options' = options
      /\ data_bytes' = data_bytes
      /\ commands' = commands /\ stored' = stored
  BY DEF Report
<1>2. /\ f \in Files /\ f \notin Contents /\ f \notin Plots /\ f \notin Listed(files)
      /\ Ready(files) /\ Sane(files, Cell) /\ <<"report">> \in Cell
  BY <1>1, CellsAreCells DEF PlottingAssumption, PlottingInv, PlottingTypes, ReportAt
<1> DEFINE line == <<"report">>
<1> HIDE DEF line
<1>3. Reached(o, files, f) /\ o.disk[f] = <<>> /\ At(o, f) \in Nat
  <2>1. /\ Sane(o, Cell) /\ Latest(o, files, f) /\ OthersStay(o, files, f)
        /\ o.disk[f] = <<>> /\ At(o, f) = files.fptr[f]
    BY <1>2, MfopenCreates
  <2>2. files.fptr[f] \in Nat
    BY <1>2 DEF Sane, IsMfiles
  <2> HIDE DEF o
  <2> QED
    BY <2>1, <2>2, LatestIsReached
<1> HIDE DEF o
<1>4. Reached(w, files, f) /\ w.disk[f] # <<>>
  <2> DEFINE d == <<line>>
  <2>1. d \in Seq(Cell) /\ Len(d) = 1
    BY <1>2 DEF line
  <2>2. w = Mfwrite(o, f, d)
    BY DEF Mfprintf, line
  <2> HIDE DEF d, w
  <2>3. Sane(o, Cell) /\ (Ready(o) \/ f \in Open(o)) /\ Hole \in Cell /\ Len(<<>>) = 0
    BY <1>3, CellsAreCells DEF Reached
  <2>4. /\ Sane(w, Cell) /\ Latest(w, o, f) /\ OthersStay(w, o, f)
        /\ w.disk[f] = Put(o.disk[f], At(o, f), d)
    BY <1>2, <2>1, <2>2, <2>3, MfwriteKeeps, SMTT(60)
  <2>5. Len(w.disk[f]) >= 1
    <3>1. Len(Put(<<>>, At(o, f), d)) = IF Len(<<>>) > At(o, f) + Len(d) THEN Len(<<>>)
                                        ELSE At(o, f) + Len(d)
      <4>1. <<>> \in Seq(Cell)
        OBVIOUS
      <4>2. IsPut(Put(<<>>, At(o, f), d), Cell, <<>>, At(o, f), d)
        BY <1>3, <2>1, <2>3, <4>1, PutIsCells
      <4> QED
        BY <4>2 DEF IsPut
    <3> QED
      BY <1>3, <2>1, <2>3, <2>4, <3>1
  <2>6. w.disk[f] # <<>>
    BY <2>3, <2>5
  <2> QED
    BY <1>3, <2>4, <2>6, LatestIsReached, ReachedAgain
<1> HIDE DEF w
<1>5. /\ Sane(files', Cell) /\ Ready(files') /\ files'.disk[f] # <<>>
      /\ OthersStay(files', files, f) /\ Listed(files') \subseteq Listed(files) \cup {f}
  <2>1. Sane(w, Cell) /\ (Ready(w) \/ f \in Open(w))
    BY <1>4 DEF Reached
  <2>2. /\ Sane(files', Cell) /\ Cardinality(Open(files')) < Descriptors
        /\ OthersStay(files', w, f) /\ Listed(files') \subseteq Listed(w) \cup {f}
        /\ files'.disk[f] = w.disk[f]
    BY <1>1, <1>2, <2>1, MfcloseFrees
  <2> QED
    BY <1>4, <2>2 DEF Reached, Ready, OthersStay
<1>6. PlottingTypes'
  BY <1>1, <1>5 DEF PlottingInv, PlottingTypes
<1>7. /\ \A g \in Plots \ {f} : PlotAt(files', g, plotter[g], commands[g])
      /\ \A g \in Contents \ {f} : ContentAt(files', g, extracted[g], stored[g])
      /\ \A g \in Reports \ {f} : ReportAt(files', g)
  BY <1>1, <1>2, <1>5, TheOthersStayWhole
<1>8. ReportAt(files', f)
  BY <1>5 DEF ReportAt
<1>9. Ready(files)'
  BY <1>5
<1> QED
  BY <1>1, <1>2, <1>6, <1>7, <1>8, <1>9 DEF PlottingInv

\* Data that is not in the capture leaves the files as they are.
LEMMA NotSavedKeeps ==
    ASSUME PlottingInv, NEW f \in Contents, NEW seq \in Sequence, ExtractContents(f, seq, FALSE)
    PROVE  PlottingInv'
<1>1. /\ files' = files /\ extracted' = extracted /\ phase' = phase /\ stored' = stored
      /\ plotter' = plotter /\ options' = options /\ commands' = commands
      /\ data_bytes' = [data_bytes EXCEPT ![f] = @ + 1]
  BY DEF ExtractContents
<1>2. PlottingTypes' /\ Ready(files)'
  BY <1>1 DEF PlottingInv, PlottingTypes
<1>3. \A g \in Plots : Ending(g)' = Ending(g)
  BY <1>1 DEF Ending
<1> QED
  BY <1>1, <1>2, <1>3 DEF PlottingInv

\* A segment goes to its place, and the position to where it starts.
LEMMA ExtractContentsKeeps ==
    ASSUME MfilesAssumption, PlottingAssumption, PlottingInv, NEW f \in Contents,
           NEW seq \in Sequence, ExtractContents(f, seq, TRUE)
    PROVE  PlottingInv'
<1> DEFINE first == extracted[f].initseq = Unseen
           init == IF ~first THEN extracted[f].initseq
                   ELSE IF Isns[f] = Unseen THEN seq ELSE (Isns[f] + 1) % ModSeq
           last == IF first THEN init ELSE extracted[f].lastseq
           opened == IF first THEN Mfopen(files, f) ELSE files
           fptr == Mftell(opened, f) + SEQCMP(seq, last)
           refused == SEQCMP(seq, init) < 0 /\ data_bytes[f] + 1 < (ModSeq - 1) \div 2
           there == Mfseek(opened, f, fptr)
           written == Mfprintf(there, f, seq)
           Skips == /\ files' = opened
                    /\ extracted' = [extracted EXCEPT ![f] = [initseq |-> init, lastseq |-> last]]
                    /\ stored' = stored
           Writes == /\ fptr >= 0
                     /\ files' = Mfseek(written, f, fptr)
                     /\ extracted' = [extracted EXCEPT ![f] = [initseq |-> init, lastseq |-> seq]]
                     /\ stored' = [stored EXCEPT ![f] = Append(@, seq)]
<1>1. /\ phase = "read" /\ phase' \in {"read", "exit"}
      /\ Skips \/ Writes
      /\ plotter' = plotter /\ options' = options /\ commands' = commands
      /\ data_bytes' = [data_bytes EXCEPT ![f] = @ + 1]
  BY Zenon DEF ExtractContents
<1>2. PlottingTypes /\ Ready(files) /\ Sane(files, Cell)
  BY DEF PlottingInv, PlottingTypes
<1>3. f \in Files /\ f \notin Plots /\ f \notin Reports /\ seq \in Nat
  BY DEF PlottingAssumption
<1>4. ContentAt(files, f, extracted[f], stored[f])
  BY DEF PlottingInv
<1>5. /\ init \in Nat /\ last \in Nat /\ last >= init
  <2>1. CASE first
    <3>1. init \in Nat
      <4>1. Isns[f] \in {Unseen} \cup 0..(ModSeq - 1) /\ ModSeq \in Nat \ {0}
        BY DEF PlottingAssumption
      <4>2. Isns[f] # Unseen => (Isns[f] + 1) % ModSeq \in Nat
        BY <4>1
      <4> QED
        BY <1>3, <2>1, <4>2
    <3> HIDE DEF init
    <3> QED
      BY <2>1, <3>1
  <2>2. CASE ~first
    BY <1>2, <1>4, <2>2 DEF PlottingTypes, ContentAt
  <2> QED
    BY <2>1, <2>2
<1> DEFINE data == files.disk[f]
<1>6. /\ Reached(opened, files, f) /\ At(opened, f) = last - init
      /\ opened.disk[f] = data
      /\ \A k \in 1..Len(data) : data[k] \in {Hole, init + k - 1}
      /\ \A k \in 1..Len(stored[f]) : /\ stored[f][k] - init + 1 \in 1..Len(data)
                                     /\ data[stored[f][k] - init + 1] = stored[f][k]
  <2>1. CASE first
    <3>1. f \notin Listed(files) /\ data = <<>> /\ At(files, f) = 0 /\ stored[f] = <<>>
      BY <1>4, <2>1 DEF ContentAt
    <3>2. files.fptr[f] = 0
      BY <1>2, <1>3, <3>1 DEF Sane, Open, At
    <3>3. opened = Mfopen(files, f) /\ last = init
      BY <2>1
    <3>4. /\ Sane(opened, Cell) /\ Latest(opened, files, f) /\ OthersStay(opened, files, f)
          /\ opened.disk[f] = <<>> /\ At(opened, f) = 0
      <4> HIDE DEF opened
      <4>1. LET r == Mfopen(files, f)
            IN  /\ Sane(r, Cell) /\ Latest(r, files, f) /\ OthersStay(r, files, f)
                /\ r.disk[f] = <<>> /\ At(r, f) = files.fptr[f]
        BY <1>2, <1>3, <3>1, MfopenCreates
      <4> QED
        BY <3>2, <3>3, <4>1
    <3> HIDE DEF opened, last, init, data
    <3>5. last - init = 0 /\ 1..Len(data) = {} /\ 1..Len(stored[f]) = {}
      BY <1>5, <3>1, <3>3
    <3> QED
      BY <3>1, <3>4, <3>5, LatestIsReached
  <2>2. CASE ~first
    <3>1. opened = files /\ init = extracted[f].initseq /\ last = extracted[f].lastseq
      BY <2>2
    <3>2. Reached(files, files, f)
      BY <1>2, NothingIsReached
    <3>3. /\ At(files, f) = extracted[f].lastseq - extracted[f].initseq
          /\ \A k \in 1..Len(data) : data[k] \in {Hole, extracted[f].initseq + k - 1}
          /\ \A k \in 1..Len(stored[f]) :
                /\ stored[f][k] - extracted[f].initseq + 1 \in 1..Len(data)
                /\ data[stored[f][k] - extracted[f].initseq + 1] = stored[f][k]
      BY <1>4, <2>2 DEF ContentAt
    <3> HIDE DEF opened, last, init
    <3> QED
      BY <3>1, <3>2, <3>3
  <2> QED
    BY <2>1, <2>2
<1> HIDE DEF first, init, last, opened
<1>7. stored[f] \in Seq(Nat) /\ data \in Seq(Cell)
  BY <1>2, <1>3 DEF PlottingTypes, Sane, IsMfiles
<1> HIDE DEF data
<1> DEFINE e == [initseq |-> init, lastseq |-> IF Skips THEN last ELSE seq]
           z == IF Skips THEN stored[f] ELSE Append(stored[f], seq)
<1>8. /\ Reached(files', files, f) /\ ContentAt(files', f, e, z)
      /\ extracted' = [extracted EXCEPT ![f] = e] /\ stored' = [stored EXCEPT ![f] = z]
      /\ e \in [initseq : Nat, lastseq : Nat] /\ z \in Seq(Nat)
  <2>1. CASE Skips
    <3>1. /\ files' = opened /\ stored' = stored
          /\ extracted' = [extracted EXCEPT ![f] = [initseq |-> init, lastseq |-> last]]
      BY <2>1
    <3> HIDE DEF Skips
    <3>2. e = [initseq |-> init, lastseq |-> last] /\ z = stored[f] /\ init # Unseen
      BY <1>5, <2>1 DEF Unseen
    <3>3. stored' = [stored EXCEPT ![f] = z]
      BY <1>2, <3>1, <3>2 DEF PlottingTypes
    <3> HIDE DEF e, z
    <3>4. e.initseq = init /\ e.lastseq = last
      BY <3>2
    <3>5. ContentAt(opened, f, e, z)
      BY <1>5, <1>6, <3>2, <3>4 DEF ContentAt
    <3> QED
      BY <1>5, <1>6, <1>7, <3>1, <3>2, <3>3, <3>5
  <2>2. CASE ~Skips
    <3> DEFINE pos == seq - init
               d == <<seq>>
    <3> HIDE DEF Skips
    <3>1. Sane(opened, Cell) /\ (Ready(opened) \/ f \in Open(opened))
      BY <1>6 DEF Reached
    <3>2. fptr = pos
      <4>1. Mftell(opened, f) = last - init
        BY <1>3, <1>6, <3>1, McheckKeeps DEF Mftell
      <4> QED
        BY <1>3, <1>5, <4>1 DEF SEQCMP
    <3>3. /\ files' = Mfseek(written, f, fptr)
           /\ extracted' = [extracted EXCEPT ![f] = [initseq |-> init, lastseq |-> seq]]
           /\ stored' = [stored EXCEPT ![f] = Append(@, seq)]
      BY <1>1, <2>2
    <3>4. pos \in Nat
      <4>1. fptr >= 0
        BY <1>1, <2>2
      <4> HIDE DEF fptr
      <4> QED
        BY <1>3, <1>5, <3>2, <4>1
    <3> HIDE DEF fptr
    <3>5. Reached(there, opened, f) /\ there.disk[f] = data /\ At(there, f) = pos
      <4>1. there = Mfseek(opened, f, pos)
        BY <3>2
      <4> HIDE DEF pos, there
      <4>2. LET r == Mfseek(opened, f, pos)
            IN  /\ Sane(r, Cell) /\ Latest(r, opened, f) /\ OthersStay(r, opened, f)
                /\ r.disk[f] = opened.disk[f] /\ At(r, f) = pos
        BY <1>3, <3>4, <3>1, MfseekMoves
      <4> QED
        BY <1>6, <4>1, <4>2, LatestIsReached
    <3> HIDE DEF there
    <3>6. d \in Seq(Cell) /\ Len(d) = 1 /\ d[1] = seq /\ Hole \in Cell
      BY <1>3, CellsAreCells
    <3>7. written = Mfwrite(there, f, d)
      BY DEF Mfprintf
    <3> HIDE DEF written, pos, d
    <3>8. Reached(written, there, f) /\ written.disk[f] = Put(data, pos, d)
      <4>1. Sane(there, Cell) /\ (Ready(there) \/ f \in Open(there))
        BY <3>5 DEF Reached
      <4>2. /\ Sane(written, Cell) /\ Latest(written, there, f) /\ OthersStay(written, there, f)
            /\ written.disk[f] = Put(there.disk[f], At(there, f), d)
        BY <1>3, <3>6, <3>7, <4>1, MfwriteKeeps, SMTT(60)
      <4> QED
        BY <3>5, <4>2, LatestIsReached
    <3>9. Reached(files', written, f) /\ files'.disk[f] = Put(data, pos, d) /\ At(files', f) = pos
      <4>1. Sane(written, Cell) /\ (Ready(written) \/ f \in Open(written))
        BY <3>8 DEF Reached
      <4>2. files' = Mfseek(written, f, pos)
        BY <3>2, <3>3
      <4>3. LET r == Mfseek(written, f, pos)
            IN  /\ Sane(r, Cell) /\ Latest(r, written, f) /\ OthersStay(r, written, f)
                /\ r.disk[f] = written.disk[f] /\ At(r, f) = pos
        BY <1>3, <3>4, <4>1, MfseekMoves
      <4> QED
        BY <3>8, <4>2, <4>3, LatestIsReached
    <3>10. Reached(files', files, f)
      BY <1>6, <3>5, <3>8, <3>9, ReachedAgain
    <3> DEFINE put == Put(data, pos, d)
    <3>11. /\ put \in Seq(Cell) /\ Len(put) \in Nat /\ Len(data) \in Nat
           /\ Len(put) >= Len(data) /\ Len(put) >= pos + 1
           /\ \A k \in 1..Len(put) : put[k] = IF k = pos + 1 THEN seq
                                            ELSE IF k <= Len(data) THEN data[k] ELSE Hole
      <4> HIDE DEF put
      <4>1. /\ put \in Seq(Cell)
            /\ Len(put) = IF Len(data) > pos + Len(d) THEN Len(data) ELSE pos + Len(d)
            /\ \A k \in 1..Len(put) : put[k] =
                   IF k > pos /\ k <= pos + Len(d) THEN d[k - pos]
                   ELSE IF k <= Len(data) THEN data[k] ELSE Hole
        <5>1. IsPut(Put(data, pos, d), Cell, data, pos, d)
          BY <1>7, <3>4, <3>6, PutIsCells
        <5> QED
          BY <5>1 DEF IsPut, put
      <4>2. Len(data) \in Nat
        BY <1>7, LenProperties
      <4>3. Len(put) \in Nat /\ Len(put) >= Len(data) /\ Len(put) >= pos + 1
        BY <3>4, <3>6, <4>1, <4>2
      <4>4. ASSUME NEW k \in 1..Len(put)
            PROVE  put[k] = IF k = pos + 1 THEN seq
                            ELSE IF k <= Len(data) THEN data[k] ELSE Hole
        <5>1. k > pos /\ k <= pos + Len(d) <=> k = pos + 1
          BY <3>4, <3>6, <4>3
        <5>2. k = pos + 1 => d[k - pos] = seq
          BY <3>4, <3>6
        <5> QED
          BY <4>1, <5>1, <5>2
      <4> QED
        BY <4>1, <4>2, <4>3, <4>4
    <3> HIDE DEF put
    <3>12. pos = seq - init /\ init + pos = seq
      BY <1>3, <1>5 DEF pos
    <3>13. ASSUME NEW k \in 1..Len(put)
           PROVE  put[k] \in {Hole, init + k - 1}
      <4>1. CASE k = pos + 1
        BY <1>3, <1>5, <3>4, <3>11, <3>12, <4>1
      <4>2. CASE k # pos + 1 /\ k <= Len(data)
        <5>1. k \in 1..Len(data)
          BY <3>11, <4>2
        <5> QED
          BY <1>6, <3>11, <4>2, <5>1
      <4>3. CASE k # pos + 1 /\ ~(k <= Len(data))
        BY <3>11, <4>3
      <4> QED
        BY <4>1, <4>2, <4>3
    <3>14. /\ z = Append(stored[f], seq) /\ z \in Seq(Nat) /\ Len(z) = Len(stored[f]) + 1
           /\ \A k \in 1..Len(stored[f]) : z[k] = stored[f][k]
           /\ z[Len(stored[f]) + 1] = seq /\ Len(stored[f]) \in Nat
      BY <1>3, <1>7, <2>2, AppendProperties, LenProperties
    <3>15. e = [initseq |-> init, lastseq |-> seq]
      BY <2>2
    <3>16. extracted' = [extracted EXCEPT ![f] = e] /\ stored' = [stored EXCEPT ![f] = z]
      BY <1>2, <3>14, <3>15, <3>3 DEF PlottingTypes
    <3> HIDE DEF e, z
    <3>17. e.initseq = init /\ e.lastseq = seq /\ e \in [initseq : Nat, lastseq : Nat]
      BY <1>3, <1>5, <3>15
    <3>18. ASSUME NEW k \in 1..Len(z)
           PROVE  z[k] - init + 1 \in 1..Len(put) /\ put[z[k] - init + 1] = z[k]
      <4>1. CASE k = Len(stored[f]) + 1
        <5>1. z[k] = seq /\ z[k] - init + 1 = pos + 1 /\ pos + 1 \in 1..Len(put)
          BY <1>3, <1>5, <3>4, <3>11, <3>12, <3>14, <4>1
        <5> QED
          BY <3>11, <5>1
      <4>2. CASE k # Len(stored[f]) + 1
        <5>1. k \in 1..Len(stored[f]) /\ z[k] = stored[f][k] /\ z[k] \in Nat
          BY <1>7, <3>14, <4>2, ElementOfSeq
        <5>2. z[k] - init + 1 \in 1..Len(data) /\ data[z[k] - init + 1] = z[k]
          BY <1>6, <5>1
        <5>3. z[k] - init + 1 \in 1..Len(put) /\ z[k] - init + 1 <= Len(data)
          BY <3>11, <5>2
        <5>4. z[k] - init + 1 = pos + 1 => z[k] = seq
          BY <1>3, <1>5, <3>4, <3>12, <5>1
        <5> QED
          BY <3>11, <5>2, <5>3, <5>4
      <4> QED
        BY <4>1, <4>2
    <3>19. ContentAt(files', f, e, z)
      <4>1. init # Unseen /\ seq >= init
        BY <1>3, <1>5, <3>4, <3>12 DEF Unseen
      <4>2. files'.disk[f] = put /\ At(files', f) = seq - init
        BY <3>9, <3>12 DEF put
      <4> QED
        BY <1>3, <3>13, <3>17, <3>18, <4>1, <4>2 DEF ContentAt
    <3> QED
      BY <3>10, <3>14, <3>16, <3>17, <3>19
  <2> QED
    BY <2>1, <2>2
<1> HIDE DEF e, z
<1>9. /\ extracted'[f] = e /\ \A g \in Contents \ {f} : extracted'[g] = extracted[g]
      /\ stored'[f] = z /\ \A g \in Contents \ {f} : stored'[g] = stored[g]
      /\ extracted' \in [Contents -> [initseq : Nat \cup {Unseen}, lastseq : Nat \cup {Unseen}]]
      /\ stored' \in [Contents -> Seq(Nat)]
  BY <1>2, <1>8 DEF PlottingTypes
<1>10. PlottingTypes'
  BY <1>1, <1>2, <1>8, <1>9 DEF PlottingTypes, Reached
<1>11. /\ \A g \in Plots \ {f} : PlotAt(files', g, plotter[g], commands[g])
       /\ \A g \in Contents \ {f} : ContentAt(files', g, extracted[g], stored[g])
       /\ \A g \in Reports \ {f} : ReportAt(files', g)
       /\ Listed(files') \subseteq Open(files') /\ Ready(files')
  BY <1>1, <1>3, <1>8, TheOthersStayWhole DEF Reached
<1>12. \A g \in Contents : ContentAt(files', g, extracted'[g], stored'[g])
  BY <1>8, <1>9, <1>11
<1>13. Listed(files)' \subseteq Open(files)' /\ Ready(files)'
  BY <1>11
<1> QED
  BY <1>1, <1>3, <1>10, <1>11, <1>12, <1>13 DEF PlottingInv

-----------------------------------------------------------------------------
(* The loop of plotter_done.                                               *)

\* The fold of the loop over the sets of plots.
Over(g, sets) ==
    g = [s \in sets |-> IF s = {} THEN files
                        ELSE LET x == CHOOSE x \in s : TRUE IN InTurn(x, g[s \ {x}])]

UpTo(n) == {s \in SUBSET Plots : Cardinality(s) <= n}

LEMMA Least ==
    ASSUME NEW S \in SUBSET Nat, S # {}
    PROVE  \E x \in S : \A y \in S : x <= y
<1> DEFINE R == OpToRel(<, Nat)
<1>1. \E x \in S : \A y \in S : ~(<<y, x>> \in R)
  BY NatLessThanWellFounded, WFMin
<1>2. R = {p \in Nat \X Nat : p[1] < p[2]}
  BY DEF OpToRel
<1> HIDE DEF R
<1>3. \A x, y \in Nat : y < x => <<y, x>> \in R
  BY <1>2
<1>4. PICK x \in S : \A y \in S : ~(<<y, x>> \in R)
  BY <1>1
<1>5. \A y \in S : ~(y < x)
  BY <1>3, <1>4, Zenon
<1> QED
  BY <1>5

LEMMA SetsOfPlots ==
    ASSUME MfilesAssumption, PlottingAssumption, NEW s \in SUBSET Plots
    PROVE  /\ IsFiniteSet(s) /\ Cardinality(s) \in Nat
           /\ s # {} => LET x == CHOOSE x \in s : TRUE
                        IN  /\ x \in s /\ s \ {x} \in SUBSET Plots
                            /\ Cardinality(s \ {x}) = Cardinality(s) - 1
                            /\ Cardinality(s) # 0
<1>1. s \in SUBSET Files
  BY DEF PlottingAssumption
<1>2. IsFiniteSet(s) /\ Cardinality(s) \in Nat
  BY <1>1, FS_Subset, FS_CardinalityType DEF MfilesAssumption
<1>3. ASSUME s # {}
      PROVE  LET x == CHOOSE x \in s : TRUE
             IN  /\ x \in s /\ s \ {x} \in SUBSET Plots
                 /\ Cardinality(s \ {x}) = Cardinality(s) - 1 /\ Cardinality(s) # 0
  <2> DEFINE x == CHOOSE x \in s : TRUE
  <2>1. x \in s
    BY <1>3
  <2> HIDE DEF x
  <2>2. Cardinality(s \ {x}) = Cardinality(s) - 1
    BY <1>2, <2>1, FS_RemoveElement
  <2>3. Cardinality(s) # 0
    BY <1>2, <1>3, FS_EmptySet
  <2> QED
    BY <2>1, <2>2, <2>3 DEF x
<1> QED
  BY <1>2, <1>3

LEMMA LoopExists ==
    ASSUME MfilesAssumption, PlottingAssumption
    PROVE  \E g : Over(g, SUBSET Plots)
<1> DEFINE Good(n) == \E g : Over(g, UpTo(n))
           T == {n \in Nat : ~Good(n)}
<1>1. T = {}
  <2> SUFFICES ASSUME T # {}
               PROVE  FALSE
    OBVIOUS
  <2>1. PICK n \in T : \A i \in T : n <= i
    <3>1. T \in SUBSET Nat
      OBVIOUS
    <3> HIDE DEF T
    <3> QED
      BY <3>1, Least
  <2>2. n \in Nat /\ ~Good(n)
    OBVIOUS
  <2>3. \E g : n # 0 => Over(g, UpTo(n - 1))
    <3>1. n # 0 => n - 1 \in Nat /\ ~(n <= n - 1)
      BY <2>2
    <3> HIDE DEF Good
    <3>2. n # 0 => Good(n - 1)
      BY <2>1, <3>1
    <3> QED
      BY <3>2 DEF Good
  <2>4. PICK g : n # 0 => Over(g, UpTo(n - 1))
    BY <2>3
  <2> HIDE DEF T, Good
  <2> DEFINE Body(z, s) == IF s = {} THEN files
                           ELSE LET x == CHOOSE x \in s : TRUE IN InTurn(x, z[s \ {x}])
             h == [s \in UpTo(n) |-> Body(g, s)]
  <2>5. ASSUME NEW s \in UpTo(n - 1), n # 0
        PROVE  s \in UpTo(n) /\ h[s] = g[s]
    <3>1. s \in SUBSET Plots /\ Cardinality(s) <= n - 1 /\ Cardinality(s) \in Nat
      BY SetsOfPlots DEF UpTo
    <3>2. s \in UpTo(n)
      BY <2>2, <3>1 DEF UpTo
    <3>3. g[s] = Body(g, s)
      BY <2>4, <2>5 DEF Over
    <3> HIDE DEF Body
    <3> QED
      BY <3>2, <3>3
  <2>6. ASSUME NEW s \in UpTo(n)
        PROVE  Body(g, s) = Body(h, s)
    <3>1. CASE s = {}
      BY <3>1
    <3>2. CASE s # {}
      <4> DEFINE x == CHOOSE x \in s : TRUE
      <4>1. /\ s \in SUBSET Plots /\ Cardinality(s) <= n /\ Cardinality(s) \in Nat
            /\ x \in s /\ s \ {x} \in SUBSET Plots
            /\ Cardinality(s \ {x}) = Cardinality(s) - 1 /\ Cardinality(s) # 0
        BY <3>2, SetsOfPlots DEF UpTo
      <4>2. n # 0 /\ s \ {x} \in UpTo(n - 1)
        <5> HIDE DEF x
        <5> QED
          BY <2>2, <4>1 DEF UpTo
      <4> HIDE DEF h
      <4>3. h[s \ {x}] = g[s \ {x}]
        BY <2>5, <4>2
      <4> QED
        BY <3>2, <4>3
    <3> QED
      BY <3>1, <3>2
  <2>7. Over(h, UpTo(n))
    <3> DEFINE k == [s \in UpTo(n) |-> Body(h, s)]
    <3>1. h = k
      <4> HIDE DEF Body
      <4>1. DOMAIN h = UpTo(n) /\ \A s \in UpTo(n) : h[s] = Body(g, s)
        OBVIOUS
      <4>2. \A s \in UpTo(n) : h[s] = Body(h, s)
        <5> HIDE DEF h
        <5> QED
          BY <2>6, <4>1
      <4>3. h = [s \in UpTo(n) |-> h[s]]
        OBVIOUS
      <4> HIDE DEF h
      <4> QED
        BY <4>2, <4>3
    <3> HIDE DEF h
    <3> QED
      BY <3>1 DEF Over
  <2> QED
    BY <2>2, <2>7 DEF Good
<1>2. Cardinality(Plots) \in Nat
  BY SetsOfPlots
<1>3. UpTo(Cardinality(Plots)) = SUBSET Plots
  <2>1. ASSUME NEW s \in SUBSET Plots
        PROVE  Cardinality(s) <= Cardinality(Plots)
    BY SetsOfPlots, FS_Subset
  <2> QED
    BY <2>1 DEF UpTo
<1>4. Good(Cardinality(Plots))
  <2> HIDE DEF Good
  <2> QED
    BY <1>1, <1>2
<1> QED
  BY <1>3, <1>4

LEMMA LoopIsFold ==
    ASSUME MfilesAssumption, PlottingAssumption
    PROVE  \E g : Over(g, SUBSET Plots) /\ FoldSet(InTurn, files, Plots) = g[Plots]
<1> DEFINE Size(z) == [s \in SUBSET Plots |-> IF s = {} THEN files
                        ELSE LET x == CHOOSE x \in s : TRUE IN InTurn(x, z[s \ {x}])]
           loop == CHOOSE z : z = Size(z)
<1>1. FoldSet(InTurn, files, Plots) = loop[Plots]
  BY DEF FoldSet, MapThenFoldSet
<1>2. \E z : z = Size(z)
  BY LoopExists DEF Over
<1>3. loop = Size(loop)
  <2> HIDE DEF Size
  <2> QED
    BY <1>2
<1>4. Over(loop, SUBSET Plots)
  <2> HIDE DEF loop
  <2> QED
    BY <1>3 DEF Over
<1> QED
  BY <1>1, <1>4

\* After the turns of the plots of s: they have their end, the others are as
\* they were.
Turned(m, s) ==
    /\ Sane(m, Cell) /\ Ready(m)
    /\ \A f \in Plots :
          IF f \in s /\ plotter[f].open
          THEN m.disk[f] = Headed(plotter[f], commands[f]) \o Ending(f)
          ELSE PlotAt(m, f, plotter[f], commands[f])
    /\ \A f \in Contents : ContentAt(m, f, extracted[f], stored[f])
    /\ \A f \in Reports : ReportAt(m, f)

LEMMA FinishEnds ==
    ASSUME MfilesAssumption, PlottingAssumption, PlottingInv, NEW m, NEW f \in Plots,
           Sane(m, Cell), Ready(m), plotter[f].open, PlotAt(m, f, plotter[f], commands[f])
    PROVE  LET r == Finish(m, f)
           IN  /\ Sane(r, Cell) /\ Ready(r) /\ OthersStay(r, m, f)
               /\ Listed(r) \subseteq Listed(m) \cup {f}
               /\ r.disk[f] = Headed(plotter[f], commands[f]) \o Ending(f)
<1> DEFINE p == plotter[f]
           c == commands[f]
           headed == WritePlotHeader(m, f, p)
           ended == IF options.ignore_non_comp /\ f \in Incomplete THEN headed
                    ELSE Mfprintf(headed, f, <<"go">>)
           r == Finish(m, f)
<1>1. f \in Files /\ c \in Seq(Lines) /\ p.header_done \in BOOLEAN
  BY DEF PlottingAssumption, PlottingInv, PlottingTypes
<1>2. p.open /\ PlotAt(m, f, p, c) /\ r = Mfclose(ended, f)
  BY DEF Finish
<1> HIDE DEF p, c, r
<1>3. /\ Reached(headed, m, f) /\ headed.disk[f] = Headed(p, c)
      /\ At(headed, f) = Len(headed.disk[f])
  BY <1>1, <1>2, HeaderIsThere
<1> HIDE DEF headed
<1>4. Headed(p, c) \in Seq(Cell) /\ Append(Headed(p, c), <<"go">>) = Headed(p, c) \o <<<<"go">>>>
  <2> DEFINE l == <<"go">>
  <2>1. l \in Cell
    BY CellsAreCells
  <2> HIDE DEF l
  <2>2. Headed(p, c) \in Seq(Cell) /\ Append(Headed(p, c), l) = Headed(p, c) \o <<l>>
    BY ONLY <1>1, <2>1, LinesBehindHeader, Zenon
  <2> QED
    BY <2>2 DEF l
<1>5. Reached(ended, m, f) /\ ended.disk[f] = Headed(p, c) \o Ending(f)
  <2>1. CASE options.ignore_non_comp /\ f \in Incomplete
    <3>1. ended = headed /\ Ending(f) = <<>>
      BY <2>1 DEF Ending
    <3>2. Headed(p, c) \o <<>> = Headed(p, c)
      BY <1>4, ConcatEmptySeq
    <3> QED
      BY <1>3, <3>1, <3>2
  <2>2. CASE ~(options.ignore_non_comp /\ f \in Incomplete)
    <3> DEFINE l == <<"go">>
    <3>1. ended = Mfprintf(headed, f, l) /\ Ending(f) = <<l>>
      BY <2>2 DEF Ending
    <3>2. l \in Cell
      BY CellsAreCells
    <3>3. Append(Headed(p, c), l) = Headed(p, c) \o <<l>>
      BY <1>4
    <3> HIDE DEF l, ended
    <3>4. Sane(headed, Cell) /\ (Ready(headed) \/ f \in Open(headed))
      BY <1>3 DEF Reached
    <3>5. Reached(ended, headed, f) /\ ended.disk[f] = Append(headed.disk[f], l)
      BY <1>1, <1>3, <3>1, <3>2, <3>4, LineAtEnd, SMTT(60)
    <3> QED
      BY <1>3, <3>1, <3>3, <3>5, ReachedAgain
  <2> QED
    BY <2>1, <2>2
<1> HIDE DEF ended
<1>6. /\ Sane(r, Cell) /\ Cardinality(Open(r)) < Descriptors /\ OthersStay(r, ended, f)
      /\ Listed(r) \subseteq Listed(ended) \cup {f} /\ r.disk[f] = ended.disk[f]
  <2>1. Sane(ended, Cell) /\ (Ready(ended) \/ f \in Open(ended))
    BY <1>5 DEF Reached
  <2> QED
    BY <1>1, <1>2, <2>1, MfcloseFrees
<1>7. OthersStay(r, m, f) /\ Listed(r) \subseteq Listed(m) \cup {f}
  BY <1>5, <1>6 DEF OthersStay, Reached
<1>8. Ready(r)
  BY <1>6 DEF Ready
<1> QED
  BY <1>5, <1>6, <1>7, <1>8 DEF r, p, c

LEMMA TurnTurns ==
    ASSUME MfilesAssumption, PlottingAssumption, PlottingInv, NEW m, NEW s \in SUBSET Plots,
           NEW x \in s, Turned(m, s \ {x})
    PROVE  Turned(InTurn(x, m), s)
<1> DEFINE r == InTurn(x, m)
<1>1. x \in Plots /\ PlotAt(m, x, plotter[x], commands[x]) /\ Sane(m, Cell) /\ Ready(m)
  BY DEF Turned
<1>2. CASE ~plotter[x].open
  <2>1. r = m
    BY <1>2 DEF InTurn
  <2> HIDE DEF r
  <2> QED
    BY <1>2, <2>1 DEF Turned, r
<1>3. CASE plotter[x].open
  <2>1. r = Finish(m, x)
    BY <1>3 DEF InTurn
  <2> HIDE DEF r
  <2>2. /\ Sane(r, Cell) /\ Ready(r) /\ OthersStay(r, m, x)
        /\ Listed(r) \subseteq Listed(m) \cup {x}
        /\ r.disk[x] = Headed(plotter[x], commands[x]) \o Ending(x)
    BY <1>1, <1>3, <2>1, FinishEnds
  <2>3. Plots \subseteq Files /\ Contents \subseteq Files /\ Reports \subseteq Files
        /\ x \notin Contents /\ x \notin Reports
    BY <1>1 DEF PlottingAssumption
  <2>4. ASSUME NEW f \in Plots
        PROVE  IF f \in s /\ plotter[f].open
               THEN r.disk[f] = Headed(plotter[f], commands[f]) \o Ending(f)
               ELSE PlotAt(r, f, plotter[f], commands[f])
    <3>1. CASE f = x
      BY <1>3, <2>2, <3>1
    <3>2. CASE f # x
      <4>1. IF f \in s /\ plotter[f].open
            THEN m.disk[f] = Headed(plotter[f], commands[f]) \o Ending(f)
            ELSE PlotAt(m, f, plotter[f], commands[f])
        BY <3>2 DEF Turned
      <4>2. f \in Files \ {x} /\ r.disk[f] = m.disk[f]
        BY <2>2, <2>3, <3>2 DEF OthersStay
      <4>3. PlotAt(m, f, plotter[f], commands[f]) => PlotAt(r, f, plotter[f], commands[f])
        BY <2>2, <4>2, OthersAreKept
      <4> QED
        BY <4>1, <4>2, <4>3
    <3> QED
      BY <3>1, <3>2
  <2>5. ASSUME NEW f \in Contents
        PROVE  ContentAt(r, f, extracted[f], stored[f])
    <3>1. f \in Files \ {x} /\ ContentAt(m, f, extracted[f], stored[f])
      BY <2>3 DEF Turned
    <3> QED
      BY <2>2, <3>1, OthersAreKept
  <2>6. ASSUME NEW f \in Reports
        PROVE  ReportAt(r, f)
    <3>1. f \in Files \ {x} /\ ReportAt(m, f)
      BY <2>3 DEF Turned
    <3> QED
      BY <2>2, <3>1, OthersAreKept
  <2> QED
    BY <2>2, <2>4, <2>5, <2>6 DEF Turned, r
<1> QED
  BY <1>2, <1>3

LEMMA LoopTurns ==
    ASSUME MfilesAssumption, PlottingAssumption, PlottingInv, phase = "modules",
           NEW g, Over(g, SUBSET Plots)
    PROVE  \A s \in SUBSET Plots : Turned(g[s], s)
<1> DEFINE Bad(n) == \E s \in SUBSET Plots : Cardinality(s) = n /\ ~Turned(g[s], s)
           T == {n \in Nat : Bad(n)}
<1>1. SUFFICES ASSUME NEW s0 \in SUBSET Plots, ~Turned(g[s0], s0)
               PROVE  FALSE
  OBVIOUS
<1>2. Cardinality(s0) \in T
  BY <1>1, SetsOfPlots
<1>3. PICK n \in T : \A i \in T : n <= i
  <2>1. T \in SUBSET Nat
    OBVIOUS
  <2> HIDE DEF T
  <2> QED
    BY <1>2, <2>1, Least
<1>4. n \in Nat /\ Bad(n)
  OBVIOUS
<1>5. PICK s \in SUBSET Plots : Cardinality(s) = n /\ ~Turned(g[s], s)
  BY <1>4
<1>6. CASE s = {}
  <2>1. g[s] = files
    BY <1>6 DEF Over
  <2>2. Turned(files, {})
    BY DEF Turned, PlottingInv, PlottingTypes
  <2> QED
    BY <1>5, <1>6, <2>1, <2>2
<1>7. CASE s # {}
  <2> DEFINE x == CHOOSE x \in s : TRUE
  <2>1. /\ x \in s /\ s \ {x} \in SUBSET Plots
        /\ Cardinality(s \ {x}) = Cardinality(s) - 1 /\ Cardinality(s) # 0
        /\ Cardinality(s \ {x}) \in Nat
    BY <1>7, SetsOfPlots
  <2>2. g[s] = InTurn(x, g[s \ {x}])
    BY <1>7 DEF Over
  <2> HIDE DEF x, T
  <2>3. Turned(g[s \ {x}], s \ {x})
    <3>1. n - 1 \in Nat /\ ~(n <= n - 1) /\ Cardinality(s \ {x}) = n - 1
      BY <1>4, <1>5, <2>1
    <3>2. n - 1 \notin T
      BY <1>3, <3>1
    <3> QED
      BY <2>1, <3>1, <3>2 DEF T
  <2>4. Turned(InTurn(x, g[s \ {x}]), s)
    BY <2>1, <2>3, TurnTurns
  <2> QED
    BY <1>5, <2>2, <2>4
<1> QED
  BY <1>6, <1>7

LEMMA plotter_doneKeeps ==
    ASSUME MfilesAssumption, PlottingAssumption, PlottingInv, plotter_done
    PROVE  PlottingInv'
<1>1. /\ phase = "modules"
      /\ \/ phase' = "crash" /\ files' = files
         \/ phase' = "done" /\ files' = FoldSet(InTurn, files, Plots)
      /\ plotter' = plotter /\ extracted' = extracted /\ options' = options
      /\ data_bytes' = data_bytes /\ commands' = commands /\ stored' = stored
  BY DEF plotter_done
<1>2. CASE phase' = "done" /\ files' = FoldSet(InTurn, files, Plots)
  <2>1. PICK g : Over(g, SUBSET Plots) /\ FoldSet(InTurn, files, Plots) = g[Plots]
    BY LoopIsFold
  <2>2. Turned(g[Plots], Plots)
    BY <1>1, <2>1, LoopTurns
  <2>3. Turned(files', Plots)
    BY <1>2, <2>1, <2>2
  <2>4. PlottingTypes'
    BY <1>1, <1>2, <2>3 DEF Turned, PlottingInv, PlottingTypes
  <2>5. Ready(files)' /\ \A f \in Plots : Ending(f)' = Ending(f)
    BY <1>1, <2>3 DEF Turned, Ending
  <2> QED
    BY <1>1, <1>2, <2>3, <2>4, <2>5 DEF Turned, PlottingInv
<1>3. CASE phase' = "crash" /\ files' = files
  <2>1. PlottingTypes' /\ Ready(files)'
    BY <1>1, <1>3 DEF PlottingInv, PlottingTypes
  <2> QED
    BY <1>1, <1>3, <2>1 DEF PlottingInv
<1> QED
  BY <1>1, <1>2, <1>3

LEMMA PlottingKeeps ==
    ASSUME MfilesAssumption, PlottingAssumption, PlottingInv, [PlottingNext]_plottingVars
    PROVE  PlottingInv'
<1>1. CASE \E f \in Plots, t \in Times : new_plotter(f, t) \/ Plot(f, "dot", t)
  BY <1>1, new_plotterKeeps, PlotKeeps
<1>2. CASE \E f \in Contents, seq \in Sequence, saved \in BOOLEAN : ExtractContents(f, seq, saved)
  BY <1>2, ExtractContentsKeeps, NotSavedKeeps
<1>3. CASE FinishReading
  BY <1>3, FinishReadingKeeps
<1>4. CASE \E f \in Reports : Report(f)
  BY <1>4, ReportKeeps
<1>5. CASE plotter_done
  BY <1>5, plotter_doneKeeps
<1>6. CASE UNCHANGED plottingVars
  <2>1. /\ files' = files /\ plotter' = plotter /\ extracted' = extracted /\ phase' = phase
        /\ data_bytes' = data_bytes
        /\ options' = options /\ commands' = commands /\ stored' = stored
    BY <1>6 DEF plottingVars
  <2>2. /\ Sane(files, Cell)' <=> Sane(files, Cell)
        /\ Ready(files)' <=> Ready(files)
        /\ Listed(files)' = Listed(files) /\ Open(files)' = Open(files)
        /\ \A f, p, c : PlotAt(files', f, p, c) <=> PlotAt(files, f, p, c)
        /\ \A f, e, s : ContentAt(files', f, e, s) <=> ContentAt(files, f, e, s)
        /\ \A f : ReportAt(files', f) <=> ReportAt(files, f)
        /\ \A f : Ending(f)' = Ending(f)
    BY <2>1 DEF Ending
  <2> QED
    BY <2>1, <2>2 DEF PlottingInv, PlottingTypes
<1> QED
  BY <1>1, <1>2, <1>3, <1>4, <1>5, <1>6 DEF PlottingNext

LEMMA InvIsWhole ==
    ASSUME MfilesAssumption, PlottingAssumption, PlottingInv
    PROVE  FilesAreWhole
<1>1. PlottingTypes
  BY DEF PlottingInv
<1>2. Plots \subseteq Files /\ Contents \subseteq Files
  BY DEF PlottingAssumption
<1>3. ~files.crashed
  BY <1>1 DEF PlottingTypes, Sane, IsMfiles
<1>4. ASSUME NEW f \in Plots, plotter[f].open
      PROVE  LET p == plotter[f]
                 header == <<"header", IF p.axis_switched THEN "dtime axis" ELSE "time axis">>
                 last == IF options.ignore_non_comp /\ f \in Incomplete THEN <<>> ELSE <<<<"go">>>>
             IN  files.disk[f] = CASE phase = "done" -> <<header>> \o commands[f] \o last
                                   [] phase # "done" /\ p.header_done -> <<header>> \o commands[f]
                                   [] OTHER -> <<>>
  <2>1. CASE phase = "done"
    <3>1. files.disk[f] = Headed(plotter[f], commands[f]) \o Ending(f)
      BY <1>4, <2>1 DEF PlottingInv
    <3> QED
      BY <2>1, <3>1 DEF Headed, Header, Ending
  <2>2. CASE phase # "done"
    <3>1. files.disk[f] = IF plotter[f].header_done THEN Headed(plotter[f], commands[f]) ELSE <<>>
      BY <1>4, <2>2 DEF PlottingInv, PlotAt
    <3> QED
      BY <2>2, <3>1 DEF Headed, Header
  <2> QED
    BY <2>1, <2>2
<1>5. PlotsAreWhole
  BY <1>3, <1>4 DEF PlotsAreWhole
<1>6. ASSUME NEW f \in Contents
      PROVE  LET data == files.disk[f]
                 init == extracted[f].initseq
             IN  /\ \A k \in DOMAIN data : data[k] \in {Hole, init + k - 1}
                 /\ \A k \in DOMAIN stored[f] : data[stored[f][k] - init + 1] = stored[f][k]
  <2>1. /\ ContentAt(files, f, extracted[f], stored[f])
        /\ DOMAIN files.disk[f] = 1..Len(files.disk[f])
        /\ DOMAIN stored[f] = 1..Len(stored[f])
    BY <1>1, <1>2, LenProperties DEF PlottingInv, PlottingTypes, Sane, IsMfiles
  <2>2. CASE extracted[f].initseq = Unseen
    BY <2>1, <2>2 DEF ContentAt
  <2>3. CASE extracted[f].initseq # Unseen
    BY <2>1, <2>3 DEF ContentAt
  <2> QED
    BY <2>2, <2>3
<1>7. ContentsAreTheStream
  BY <1>6 DEF ContentsAreTheStream
<1> QED
  BY <1>5, <1>7 DEF FilesAreWhole

\* Plots and contents are what was written to them, however few descriptors there
\* are and whatever was closed and opened again between (mfiles.c, plotter.c and
\* ExtractContents of trace.c).
THEOREM PlotsAndContentsAreWhole ==
    ASSUME MfilesAssumption, PlottingAssumption
    PROVE  PlottingSpec => []FilesAreWhole
<1>1. PlottingInit => PlottingInv
  BY InitIsWhole
<1>2. PlottingInv /\ [PlottingNext]_plottingVars => PlottingInv'
  BY PlottingKeeps
<1>3. PlottingInv => FilesAreWhole
  BY InvIsWhole
<1> QED
  BY <1>1, <1>2, <1>3, PTL DEF PlottingSpec
=============================================================================
