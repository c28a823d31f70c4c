-------------------------- MODULE CorrelationProofs --------------------------
(***************************************************************************)
(* Proofs about Correlation, for any hosts, CVEs, addresses, listings and  *)
(* seeds.                                                                  *)
(***************************************************************************)
EXTENDS Correlation, FiniteSetTheorems, SequenceTheorems, WellFoundedInduction, TLAPS

-----------------------------------------------------------------------------
(* Numbers *)

\* A set of numbers that is not empty has a least one: what stands for induction
\* below, on the numbers of which a claim does not hold.
LEMMA Least ==
    ASSUME NEW S \in SUBSET Nat, S # {}
    PROVE  \E n \in S : \A m \in S : n <= m
<1> DEFINE R == {p \in Nat \X Nat : p[1] < p[2]}
<1>1. R = OpToRel(<, Nat)
  BY DEF OpToRel
<1>2. IsWellFoundedOn(R, Nat)
  BY <1>1, NatLessThanWellFounded
<1>3. \A m, n \in Nat : m < n => <<m, n>> \in R
  OBVIOUS
<1> HIDE DEF R
<1>4. PICK n \in S : \A m \in S : ~(<<m, n>> \in R)
  BY <1>2, WFMin
<1>5. \A m, k \in Nat : ~(m < k) => k <= m
  OBVIOUS
<1>6. n \in Nat /\ \A m \in S : m \in Nat
  OBVIOUS
<1> QED  BY <1>3, <1>4, <1>5, <1>6, Zenon

\* So has one with a bound a greatest.
LEMMA Greatest ==
    ASSUME NEW N \in Nat, NEW S \in SUBSET (0..N), S # {}
    PROVE  \E n \in S : \A m \in S : m <= n
<1> DEFINE T == {N - n : n \in S}
<1>1. \A n \in S : N - n \in Nat
  <2>1. \A n \in 0..N : N - n \in Nat
    OBVIOUS
  <2> QED  BY <2>1
<1>5. T \in SUBSET Nat /\ T # {}
  BY <1>1, Zenon
<1> HIDE DEF T
<1>2. PICK t \in T : \A u \in T : t <= u
  BY <1>5, Least
<1>3. PICK n \in S : t = N - n
  BY DEF T
<1>4. \A m \in S : N - m \in T
  BY DEF T
<1> QED  BY <1>2, <1>3, <1>4

-----------------------------------------------------------------------------
(* Sets in order *)

\* An order of the elements of a set.
Orders(R, S) ==
    /\ \A x \in S : <<x, x>> \notin R
    /\ \A x, y, z \in S : <<x, y>> \in R /\ <<y, z>> \in R => <<x, z>> \in R
    /\ \A x, y \in S : x # y => <<x, y>> \in R \/ <<y, x>> \in R

\* Of a finite set that is ordered, each place is that of one element.
LEMMA Places ==
    ASSUME NEW S, IsFiniteSet(S), NEW R, Orders(R, S),
           NEW k \in 1..Cardinality(S)
    PROVE  \E x \in S : Cardinality({y \in S : <<y, x>> \in R}) + 1 = k
<1> DEFINE Below(x) == {y \in S : <<y, x>> \in R}
           f == [x \in S |-> Cardinality(Below(x)) + 1]
           n == Cardinality(S)
<1>0. n \in Nat
  BY FS_CardinalityType
<1>1. ASSUME NEW x \in S
      PROVE  IsFiniteSet(Below(x)) /\ Cardinality(Below(x)) \in Nat /\ Cardinality(Below(x)) < n
  <2>1. Below(x) \in SUBSET S /\ x \notin Below(x)
    BY DEF Orders
  <2>2. IsFiniteSet(Below(x)) /\ Cardinality(Below(x)) <= n
    BY <2>1, FS_Subset
  <2>3. Cardinality(Below(x)) # n
    BY <2>1, FS_Subset
  <2> QED  BY <2>2, <2>3, <1>0, FS_CardinalityType
<1>2. f \in [S -> 1..n]
  <2>1. \A x \in S : Cardinality(Below(x)) + 1 \in 1..n
    <3> HIDE DEF Below
    <3> QED  BY <1>0, <1>1
  <2> QED  BY <2>1, Zenon
<1>3. ASSUME NEW x \in S, NEW y \in S, <<x, y>> \in R
      PROVE  f[x] < f[y]
  <2>1. Below(x) \in SUBSET Below(y) /\ x \in Below(y) /\ x \notin Below(x)
    BY <1>3 DEF Orders
  <2>2. Cardinality(Below(x)) <= Cardinality(Below(y)) /\ Cardinality(Below(x)) # Cardinality(Below(y))
    BY <2>1, <1>1, FS_Subset
  <2> QED  BY <2>2, <1>1
<1>4. \A x, y \in S : f[x] = f[y] => x = y
  <2> SUFFICES ASSUME NEW x \in S, NEW y \in S, x # y
               PROVE  f[x] # f[y]
    OBVIOUS
  <2>1. f[x] < f[y] \/ f[y] < f[x]
    BY <1>3 DEF Orders
  <2>2. f[x] \in Nat /\ f[y] \in Nat
    BY <1>2
  <2> QED  BY <2>1, <2>2
<1> HIDE DEF f
<1>5. f \in Injection(S, 1..n)
  BY <1>2, <1>4 DEF Injection, IsInjective
<1>6. IsFiniteSet(1..n) /\ Cardinality(1..n) = n
  BY <1>0, FS_Interval
<1>7. f \in Surjection(S, 1..n)
  BY <1>5, <1>6, FS_Injection
<1>8. PICK x \in S : f[x] = k
  BY <1>7 DEF Surjection
<1> QED  BY <1>8 DEF f

\* So the sequence of those in their places is one, and has none twice.
InPlace(R, S) ==
    [k \in 1..Cardinality(S) |->
       CHOOSE x \in S : Cardinality({y \in S : <<y, x>> \in R}) + 1 = k]

LEMMA InPlaces ==
    ASSUME NEW S, IsFiniteSet(S), NEW R, Orders(R, S)
    PROVE  /\ InPlace(R, S) \in Seq(S)
           /\ \A i, j \in DOMAIN InPlace(R, S) : InPlace(R, S)[i] = InPlace(R, S)[j] => i = j
<1> DEFINE Place(x) == Cardinality({y \in S : <<y, x>> \in R}) + 1
           f == InPlace(R, S)
<1>0. Cardinality(S) \in Nat
  BY FS_CardinalityType
<1>1. \A k \in 1..Cardinality(S) : \E x \in S : Place(x) = k
  BY Places
<1>2. f = [k \in 1..Cardinality(S) |-> CHOOSE x \in S : Place(x) = k]
  BY DEF InPlace
<1> HIDE DEF Place, f
<1>3. \A k \in 1..Cardinality(S) : f[k] \in S /\ Place(f[k]) = k
  BY <1>1, <1>2
<1>4. f \in [1..Cardinality(S) -> S]
  BY <1>2, <1>3
<1>5. f \in Seq(S)
  BY <1>0, <1>4, SeqDef
<1> QED  BY <1>3, <1>4, <1>5 DEF f

LEMMA SortedPairs ==
    ASSUME NEW S \in SUBSET (Nat \X Nat), IsFiniteSet(S)
    PROVE  /\ Sorted(S) \in Seq(S)
           /\ \A i, j \in DOMAIN Sorted(S) : Sorted(S)[i] = Sorted(S)[j] => i = j
<1> DEFINE R == {p \in S \X S : Before(p[1], p[2])}
<1>1. \A x, y \in S : <<x, y>> \in R <=> Before(x, y)
  OBVIOUS
<1>2. /\ \A x \in S : ~Before(x, x)
      /\ \A x, y, z \in S : Before(x, y) /\ Before(y, z) => Before(x, z)
      /\ \A x, y \in S : x # y => Before(x, y) \/ Before(y, x)
  BY DEF Before
<1>3. Orders(R, S)
  BY <1>1, <1>2, Zenon DEF Orders
<1>4. Sorted(S) = [k \in 1..Cardinality(S) |->
                     CHOOSE x \in S : Cardinality({y \in S : Before(y, x)}) + 1 = k]
  BY DEF Sorted, InOrder
<1>5. \A x \in S : {y \in S : Before(y, x)} = {y \in S : <<y, x>> \in R}
  BY <1>1
<1> HIDE DEF R
<1>6. Sorted(S) = InPlace(R, S)
  BY <1>4, <1>5 DEF InPlace
<1> QED  BY <1>3, <1>6, InPlaces

LEMMA AscendingNumbers ==
    ASSUME NEW S \in SUBSET Nat, IsFiniteSet(S)
    PROVE  /\ Ascending(S) \in Seq(S)
           /\ \A i, j \in DOMAIN Ascending(S) : Ascending(S)[i] = Ascending(S)[j] => i = j
<1> DEFINE R == {p \in S \X S : p[1] < p[2]}
<1>1. \A x, y \in S : <<x, y>> \in R <=> x < y
  OBVIOUS
<1>2. /\ \A x \in S : ~(x < x)
      /\ \A x, y, z \in S : x < y /\ y < z => x < z
      /\ \A x, y \in S : x # y => x < y \/ y < x
  OBVIOUS
<1>3. Orders(R, S)
  BY <1>1, <1>2, Zenon DEF Orders
<1>4. Ascending(S) = [k \in 1..Cardinality(S) |->
                        CHOOSE x \in S : Cardinality({y \in S : y < x}) + 1 = k]
  BY DEF Ascending, InOrder
<1>5. \A x \in S : {y \in S : y < x} = {y \in S : <<y, x>> \in R}
  BY <1>1
<1> HIDE DEF R
<1>6. Ascending(S) = InPlace(R, S)
  BY <1>4, <1>5 DEF InPlace
<1> QED  BY <1>3, <1>6, InPlaces

-----------------------------------------------------------------------------
(* Sequences of findings *)

\* A sequence mapped element by element is one.
LEMMA Mapped ==
    ASSUME NEW S, NEW T, NEW s \in Seq(S), NEW f \in [DOMAIN s -> T]
    PROVE  f \in Seq(T) /\ DOMAIN f = DOMAIN s
<1>1. DOMAIN s = 1..Len(s) /\ Len(s) \in Nat
  BY LenProperties
<1> QED  BY <1>1, SeqDef

LEMMA IdTypes ==
    /\ \A k \in Nat : /\ <<"AI", k>> \in Ids /\ <<"cve", k>> \in Ids
                      /\ <<"ip", k>> \in Ids /\ <<"idb", k>> \in Ids
    /\ \A h \in Hosts, a \in About, s \in Sources : <<"scan", <<h, a, s>>>> \in Ids
BY DEF Ids

\* What the rules make is a finding that is still to be numbered.
Unnumbered == {<<"cve", 0>>, <<"ip", 0>>, <<"idb", 0>>}

Candidate == {f \in Finding : f.id \in Unnumbered}

LEMMA UnnumberedIds == Unnumbered \subseteq Ids
BY IdTypes DEF Unnumbered

LEMMA Made ==
    ASSUME NEW src \in Sources, NEW h \in Hosts, NEW a \in About, NEW n \in Ids,
           NEW c \in SUBSET Cves, NEW at \in Address
    PROVE  /\ Derived(src, h, a, n, c, at) \in Finding
           /\ n \in Unnumbered => Derived(src, h, a, n, c, at) \in Candidate
BY DEF Candidate, Finding, Derived

LEMMA Numbered ==
    ASSUME NEW f \in Candidate, NEW k \in Nat
    PROVE  [f EXCEPT !.id = <<@[1], k>>] \in Finding
<1>1. f \in Finding /\ f.id[1] \in {"cve", "ip", "idb"}
  BY DEF Candidate, Unnumbered
<1>2. <<f.id[1], k>> \in Ids
  BY <1>1, IdTypes
<1> QED  BY <1>1, <1>2 DEF Finding

LEMMA NoCveType == 0 \in About /\ \A c \in Cves : c \in About
BY DEF About

LEMMA SourceTypes ==
    /\ "cve-share" \in Sources /\ "ip-co-residency" \in Sources /\ "internetdb" \in Sources
    /\ "ai-assess" \in Sources
BY DEF Sources, CorrSources

LEMMA AddressType ==
    ASSUME NEW fs \in Seq(Finding), NEW net \in Network, NEW h \in Hosts
    PROVE  HostAddress(fs, net, h) \in Address
<1> DEFINE I == {i \in DOMAIN fs : fs[i].target = h /\ fs[i].ip # "none"}
<1>1. CASE h \in baseline /\ net.at[h] # "none"
  BY <1>1 DEF HostAddress, Network
<1>2. CASE ~(h \in baseline /\ net.at[h] # "none")
  <2>1. HostAddress(fs, net, h) =
          IF I = {} THEN "none" ELSE fs[CHOOSE i \in I : \A j \in I : j <= i].ip
    BY <1>2 DEF HostAddress
  <2>2. CASE I = {}
    BY <2>1, <2>2 DEF Address
  <2>3. CASE I # {}
    <3>1. DOMAIN fs \subseteq 0..Len(fs) /\ Len(fs) \in Nat
      BY LenProperties
    <3>2. I \in SUBSET (0..Len(fs))
      BY <3>1
    <3> DEFINE last == CHOOSE i \in I : \A j \in I : j <= i
    <3>3. last \in I
      <4> HIDE DEF I
      <4> QED  BY <3>1, <3>2, <2>3, Greatest
    <3>4. fs[last] \in Finding
      BY <3>3, ElementOfSeq, LenProperties
    <3> HIDE DEF last
    <3>5. fs[last].ip \in Address
      BY <3>4 DEF Finding
    <3> QED  BY <2>1, <2>3, <3>5 DEF last
  <2> QED  BY <2>2, <2>3
<1> QED  BY <1>1, <1>2

\* The indices of a sequence are finitely many numbers.
LEMMA IndicesFinite ==
    ASSUME NEW S, NEW s \in Seq(S), NEW I \in SUBSET (DOMAIN s)
    PROVE  I \in SUBSET Nat /\ IsFiniteSet(I)
<1>1. DOMAIN s = 1..Len(s) /\ Len(s) \in Nat
  BY LenProperties
<1>2. IsFiniteSet(1..Len(s))
  BY <1>1, FS_Interval
<1> QED  BY <1>1, <1>2, FS_Subset

LEMMA SharesType ==
    ASSUME NEW fs \in Seq(Finding), NEW net \in Network
    PROVE  Shares(fs, net) \in Seq(Candidate)
<1> DEFINE Shared(h, c) == /\ c \in HostCves(fs, net, h)
                           /\ \E i \in DOMAIN fs : c \in fs[i].cves
                           /\ fs[Source(fs, c)].target # h
           S == {p \in Hosts \X Cves : Shared(p[1], p[2])}
           hits == Sorted(S)
           At(k) == Derived("cve-share", hits[k][1], hits[k][2], <<"cve", 0>>, {hits[k][2]},
                           HostAddress(fs, net, hits[k][1]))
<1>1. S \in SUBSET (Hosts \X Cves)
  OBVIOUS
<1>2. Shares(fs, net) = [k \in DOMAIN hits |-> At(k)]
  BY DEF Shares
<1> HIDE DEF S
<1>3. IsFiniteSet(Hosts \X Cves) /\ Hosts \X Cves \subseteq Nat \X Nat
  BY CorrelationAssumption, FS_Product DEF CorrelationAssumption
<1>4. hits \in Seq(S)
  BY <1>1, <1>3, FS_Subset, SortedPairs
<1> HIDE DEF hits
<1>5. \A k \in DOMAIN hits : hits[k][1] \in Hosts /\ hits[k][2] \in Cves
  BY <1>1, <1>4, ElementOfSeq, LenProperties
<1>6. \A k \in DOMAIN hits : At(k) \in Candidate
  <2> TAKE k \in DOMAIN hits
  <2>1. HostAddress(fs, net, hits[k][1]) \in Address
    BY <1>5, AddressType
  <2>3. <<"cve", 0>> \in Unnumbered /\ {hits[k][2]} \in SUBSET Cves
    BY <1>5 DEF Unnumbered
  <2> QED  BY <1>5, <2>1, <2>3, NoCveType, SourceTypes, UnnumberedIds, Made
<1> HIDE DEF At
<1>7. Shares(fs, net) \in [DOMAIN hits -> Candidate]
  BY <1>2, <1>6
<1> QED  BY <1>4, <1>7, Mapped

LEMMA CoResidentsType ==
    ASSUME NEW fs \in Seq(Finding), NEW net \in Network
    PROVE  CoResidents(fs, net) \in Seq(Candidate)
<1> DEFINE Beside(i, h) == /\ fs[i].confirmed /\ fs[i].source \notin CorrSources
                           /\ fs[i].ip # "none"
                           /\ h \in baseline /\ net.at[h] = fs[i].ip /\ h # fs[i].target
           S == {p \in (DOMAIN fs) \X Hosts : Beside(p[1], p[2])}
           hits == Sorted(S)
           At(k) == Derived("ip-co-residency", hits[k][2], 0, <<"ip", 0>>, {}, fs[hits[k][1]].ip)
<1>1. S \in SUBSET ((DOMAIN fs) \X Hosts)
  OBVIOUS
<1>2. CoResidents(fs, net) = [k \in DOMAIN hits |-> At(k)]
  BY DEF CoResidents
<1> HIDE DEF S
<1>3. IsFiniteSet((DOMAIN fs) \X Hosts) /\ (DOMAIN fs) \X Hosts \subseteq Nat \X Nat
  <2>1. IsFiniteSet(DOMAIN fs) /\ DOMAIN fs \subseteq Nat
    BY IndicesFinite
  <2> QED  BY <2>1, CorrelationAssumption, FS_Product
<1>4. hits \in Seq(S)
  BY <1>1, <1>3, FS_Subset, SortedPairs
<1> HIDE DEF hits
<1>5. \A k \in DOMAIN hits : hits[k][1] \in DOMAIN fs /\ hits[k][2] \in Hosts
  BY <1>1, <1>4, ElementOfSeq, LenProperties
<1>6. \A k \in DOMAIN hits : At(k) \in Candidate
  <2> TAKE k \in DOMAIN hits
  <2>1. fs[hits[k][1]] \in Finding
    BY <1>5, ElementOfSeq, LenProperties
  <2>2. fs[hits[k][1]].ip \in Address
    BY <2>1 DEF Finding
  <2>3. <<"ip", 0>> \in Unnumbered /\ {} \in SUBSET Cves
    BY DEF Unnumbered
  <2> QED  BY <1>5, <2>2, <2>3, NoCveType, SourceTypes, UnnumberedIds, Made
<1> HIDE DEF At
<1>7. CoResidents(fs, net) \in [DOMAIN hits -> Candidate]
  BY <1>2, <1>6
<1> QED  BY <1>4, <1>7, Mapped

LEMMA BackedType ==
    ASSUME NEW fs \in Seq(Finding), NEW net \in Network
    PROVE  Backed(fs, net) \in Seq(Candidate)
<1> DEFINE Telling(l) == (l.ports /\ l.vulns # {}) \/ l.cpes
           I == {i \in DOMAIN fs : fs[i].ip # "none" /\ Telling(net.listed[fs[i].ip])}
           hits == Ascending(I)
           At(k) == Derived("internetdb", fs[hits[k]].target, 0, <<"idb", 0>>,
                           net.listed[fs[hits[k]].ip].vulns, fs[hits[k]].ip)
<1>1. I \in SUBSET (DOMAIN fs) /\ \A i \in I : fs[i].ip # "none"
  OBVIOUS
<1>2. Backed(fs, net) = [k \in DOMAIN hits |-> At(k)]
  BY DEF Backed
<1> HIDE DEF I
<1>4. hits \in Seq(I)
  BY <1>1, IndicesFinite, AscendingNumbers
<1> HIDE DEF hits
<1>5. \A k \in DOMAIN hits : hits[k] \in I
  BY <1>4, ElementOfSeq, LenProperties
<1>6. \A k \in DOMAIN hits : At(k) \in Candidate
  <2> TAKE k \in DOMAIN hits
  <2> DEFINE f == fs[hits[k]]
  <2>1. f \in Finding /\ f.ip # "none"
    BY <1>1, <1>5, ElementOfSeq, LenProperties
  <2> HIDE DEF f
  <2>2. f.target \in Hosts /\ f.ip \in Addresses
    BY <2>1 DEF Finding, Address
  <2>3. net.listed[f.ip].vulns \in SUBSET Cves
    BY <2>2, CorrelationAssumption DEF Network
  <2>5. <<"idb", 0>> \in Unnumbered /\ f.ip \in Address
    BY <2>2 DEF Unnumbered, Address
  <2>4. Derived("internetdb", f.target, 0, <<"idb", 0>>, net.listed[f.ip].vulns, f.ip) \in Candidate
    BY <2>2, <2>3, <2>5, NoCveType, SourceTypes, UnnumberedIds, Made
  <2> QED  BY <2>4 DEF f
<1> HIDE DEF At
<1>7. Backed(fs, net) \in [DOMAIN hits -> Candidate]
  BY <1>2, <1>6
<1> QED  BY <1>4, <1>7, Mapped

LEMMA CandidatesType ==
    ASSUME NEW fs \in Seq(Finding), NEW net \in Network
    PROVE  Candidates(fs, net) \in Seq(Finding)
<1> DEFINE all == Shares(fs, net) \o CoResidents(fs, net) \o Backed(fs, net)
           At(k) == [all[k] EXCEPT !.id = <<@[1], k>>]
<1>1. all \in Seq(Candidate)
  <2>1. Shares(fs, net) \o CoResidents(fs, net) \in Seq(Candidate)
    BY SharesType, CoResidentsType, ConcatProperties
  <2> QED  BY <2>1, BackedType, ConcatProperties
<1>2. Candidates(fs, net) = [k \in DOMAIN all |-> At(k)]
  BY DEF Candidates
<1> HIDE DEF all
<1>3. \A k \in DOMAIN all : k \in Nat /\ all[k] \in Candidate
  BY <1>1, ElementOfSeq, LenProperties
<1>4. \A k \in DOMAIN all : At(k) \in Finding
  BY <1>3, Numbered
<1> HIDE DEF At
<1>5. Candidates(fs, net) \in [DOMAIN all -> Finding]
  BY <1>2, <1>4
<1> QED  BY <1>1, <1>5, Mapped

-----------------------------------------------------------------------------
(* The candidates in turn *)

\* Numbers taken in turn unless blocked by what was taken.  There is a function
\* that does it, to any length.
InTurn(B, N, f) ==
    f = [k \in 0..N |->
           IF k = 0 THEN {}
           ELSE f[k - 1] \cup (IF <<f[k - 1], k>> \in B THEN {} ELSE {k})]

LEMMA TurnsExist ==
    ASSUME NEW B, NEW N \in Nat
    PROVE  \E f : InTurn(B, N, f)
<1> DEFINE Bad == {n \in Nat : ~ \E f : InTurn(B, n, f)}
<1> SUFFICES Bad = {}
  OBVIOUS
<1> SUFFICES ASSUME Bad # {}
             PROVE  FALSE
  OBVIOUS
<1>1. PICK n \in Bad : \A m \in Bad : n <= m
  <2>1. Bad \in SUBSET Nat
    OBVIOUS
  <2> HIDE DEF Bad
  <2> QED  BY <2>1, Least
<1>2. n \in Nat /\ ~ \E f : InTurn(B, n, f)
  BY <1>1
<1>3. n # 0
  <2>1. InTurn(B, 0, [k \in 0..0 |-> {}])
    BY DEF InTurn
  <2> QED  BY <1>2, <2>1
<1>4. n - 1 \in Nat /\ n - 1 \notin Bad
  BY <1>1, <1>2, <1>3
<1>5. PICK f : InTurn(B, n - 1, f)
  BY <1>4
<1> DEFINE g == [k \in 0..n |->
                   IF k = n THEN f[n - 1] \cup (IF <<f[n - 1], n>> \in B THEN {} ELSE {n})
                   ELSE f[k]]
<1>6. ASSUME NEW k \in 0..n
      PROVE  g[k] = IF k = 0 THEN {}
                    ELSE g[k - 1] \cup (IF <<g[k - 1], k>> \in B THEN {} ELSE {k})
  <2>1. CASE k = n
    BY <1>2, <1>3, <2>1
  <2>2. CASE k # n
    <3>1. k \in 0..(n - 1) /\ (k # 0 => k - 1 \in 0..(n - 1))
      BY <1>2, <2>2
    <3>2. f[k] = IF k = 0 THEN {}
                 ELSE f[k - 1] \cup (IF <<f[k - 1], k>> \in B THEN {} ELSE {k})
      BY <1>5, <3>1 DEF InTurn
    <3>3. g[k] = f[k] /\ (k # 0 => g[k - 1] = f[k - 1])
      BY <1>2, <2>2, <3>1
    <3> HIDE DEF g
    <3> QED  BY <3>2, <3>3
  <2> QED  BY <2>1, <2>2
<1>7. g = [k \in 0..n |-> g[k]]
  OBVIOUS
<1> HIDE DEF g
<1>8. InTurn(B, n, g)
  BY <1>6, <1>7 DEF InTurn
<1> QED  BY <1>2, <1>8

\* None that was taken is blocked by those taken before it.
LEMMA TurnsTaken ==
    ASSUME NEW B, NEW N \in Nat, NEW f, InTurn(B, N, f)
    PROVE  \A n \in 0..N : /\ f[n] \subseteq 1..n
                           /\ \A k \in f[n] : \E T \in SUBSET (1..(k - 1)) :
                                 /\ <<T, k>> \notin B
                                 /\ \A j \in f[n] : j < k => j \in T
<1> DEFINE Good(n) == /\ f[n] \subseteq 1..n
                      /\ \A k \in f[n] : \E T \in SUBSET (1..(k - 1)) :
                            /\ <<T, k>> \notin B
                            /\ \A j \in f[n] : j < k => j \in T
           Bad == {n \in 0..N : ~Good(n)}
<1> SUFFICES Bad = {}
  OBVIOUS
<1> SUFFICES ASSUME Bad # {}
             PROVE  FALSE
  OBVIOUS
<1>0. \A k \in 0..N : f[k] = IF k = 0 THEN {}
                 ELSE f[k - 1] \cup (IF <<f[k - 1], k>> \in B THEN {} ELSE {k})
  BY DEF InTurn
<1>1. PICK n \in Bad : \A m \in Bad : n <= m
  <2>1. Bad \in SUBSET Nat
    OBVIOUS
  <2> HIDE DEF Bad
  <2> QED  BY <2>1, Least
<1>2. n \in 0..N /\ ~Good(n)
  BY <1>1
<1>3. n # 0
  BY <1>0, <1>2
<1>4. n - 1 \in 0..N /\ Good(n - 1)
  <2>1. n - 1 \in 0..N /\ ~(n <= n - 1)
    BY <1>2, <1>3
  <2> HIDE DEF Good
  <2> QED  BY <1>1, <2>1
<1>5. f[n] = f[n - 1] \cup (IF <<f[n - 1], n>> \in B THEN {} ELSE {n})
  BY <1>0, <1>2, <1>3
<1>6. f[n] \subseteq 1..n
  BY <1>2, <1>4, <1>5
<1>7. ASSUME NEW k \in f[n]
      PROVE  \E T \in SUBSET (1..(k - 1)) : /\ <<T, k>> \notin B
                                            /\ \A j \in f[n] : j < k => j \in T
  <2>1. CASE k \in f[n - 1]
    <3>1. PICK T \in SUBSET (1..(k - 1)) : /\ <<T, k>> \notin B
                                          /\ \A j \in f[n - 1] : j < k => j \in T
      BY <1>4, <2>1
    <3>2. k \in 1..(n - 1)
      BY <1>4, <2>1
    <3>3. \A j \in f[n] : j < k => j \in f[n - 1]
      BY <1>2, <1>5, <3>2
    <3> QED  BY <3>1, <3>3
  <2>2. CASE k \notin f[n - 1]
    <3>1. k = n /\ <<f[n - 1], n>> \notin B
      BY <1>5, <2>2
    <3>2. \A j \in f[n] : j < n => j \in f[n - 1]
      BY <1>2, <1>5
    <3> QED  BY <1>4, <3>1, <3>2
  <2> QED  BY <2>1, <2>2
<1> QED  BY <1>2, <1>6, <1>7

\* Candidates that were taken have different keys.
LEMMA TakenApart ==
    ASSUME NEW c \in Seq(Finding), NEW fs
    PROVE  /\ Taken(c, fs) \in SUBSET (DOMAIN c)
           /\ \A j, k \in Taken(c, fs) : Key(c[j]) = Key(c[k]) => j = k
<1> DEFINE N == Len(c)
           Known(T, f) ==
             \/ \E v \in f.cves : <<f.target, v>> \in Pairs(fs)
             \/ \E j \in T : \/ Key(c[j]) = Key(f)
                            \/ (c[j].target = f.target /\ c[j].cves \cap f.cves # {})
           Adds(T, k) == T \cup (IF Known(T, c[k]) THEN {} ELSE {k})
           W(f) == f = [k \in 0..N |-> IF k = 0 THEN {} ELSE Adds(f[k - 1], k)]
           after == CHOOSE f : W(f)
           Sets(f) == (SUBSET Nat) \cup {f[k] : k \in 0..N}
           B(f) == {p \in Sets(f) \X Nat : Known(p[1], c[p[2]])}
<1>1. N \in Nat /\ DOMAIN c = 1..N
  BY LenProperties
<1>2. Taken(c, fs) = after[N]
  BY DEF Taken
<1>3. \A f : \A T \in Sets(f), k \in Nat : <<T, k>> \in B(f) <=> Known(T, c[k])
  OBVIOUS
<1>4. \A f : \A k \in 0..N : f[k] \in Sets(f)
  OBVIOUS
<1>5. \A f : SUBSET Nat \subseteq Sets(f)
  OBVIOUS
<1> HIDE DEF N, Known, Sets, B
<1>6. \A f : W(f) <=> InTurn(B(f), N, f)
  <2> TAKE f
  <2>1. \A k \in 0..N : k # 0 => k \in Nat /\ k - 1 \in 0..N
    BY <1>1
  <2>2. \A k \in 0..N : k # 0 => (<<f[k - 1], k>> \in B(f) <=> Known(f[k - 1], c[k]))
    BY <1>3, <1>4, <2>1
  <2>3. [k \in 0..N |-> IF k = 0 THEN {} ELSE Adds(f[k - 1], k)] =
          [k \in 0..N |-> IF k = 0 THEN {}
             ELSE f[k - 1] \cup (IF <<f[k - 1], k>> \in B(f) THEN {} ELSE {k})]
    BY <2>2
  <2> QED  BY <2>3 DEF InTurn
<1>7. \E f : W(f)
  <2> DEFINE empty == [k \in 0..N |-> {}]
  <2>1. PICK f : InTurn(B(empty), N, f)
    BY <1>1, TurnsExist
  <2>2. \A k \in 0..N : f[k] \in SUBSET Nat
    <3>1. \A k \in 0..N : f[k] \subseteq 1..k
      BY <1>1, <2>1, TurnsTaken
    <3>2. \A k \in 0..N : 1..k \subseteq Nat
      BY <1>1
    <3> QED  BY <3>1, <3>2
  <2> HIDE DEF empty
  <2>3. \A k \in 0..N : k # 0 => k \in Nat /\ k - 1 \in 0..N
    BY <1>1
  <2>4. \A k \in 0..N : k # 0 => (<<f[k - 1], k>> \in B(empty) <=> Known(f[k - 1], c[k]))
    BY <1>3, <1>5, <2>2, <2>3
  <2>5. [k \in 0..N |-> IF k = 0 THEN {} ELSE Adds(f[k - 1], k)] =
          [k \in 0..N |-> IF k = 0 THEN {}
             ELSE f[k - 1] \cup (IF <<f[k - 1], k>> \in B(empty) THEN {} ELSE {k})]
    BY <2>4
  <2>6. W(f)
    BY <2>1, <2>5 DEF InTurn
  <2> QED  BY <2>6
<1> HIDE DEF W
<1>8. W(after)
  BY <1>7
<1> HIDE DEF after
<1>9. InTurn(B(after), N, after)
  BY <1>6, <1>8
<1>10. N \in 0..N
  BY <1>1
<1>11. after[N] \subseteq 1..N
  BY <1>1, <1>9, <1>10, TurnsTaken
<1>12. ASSUME NEW j \in after[N], NEW k \in after[N], j < k
       PROVE  Key(c[j]) # Key(c[k])
  <2>1. PICK T \in SUBSET (1..(k - 1)) : <<T, k>> \notin B(after) /\ j \in T
    BY <1>1, <1>9, <1>10, <1>12, TurnsTaken
  <2>2. T \in SUBSET Nat /\ k \in Nat
    BY <1>1, <1>11
  <2>3. ~Known(T, c[k])
    BY <1>3, <1>5, <2>1, <2>2
  <2> QED  BY <2>1, <2>3 DEF Known
<1>13. \A j, k \in after[N] : j < k \/ k < j \/ j = k
  BY <1>1, <1>11
<1> QED  BY <1>1, <1>2, <1>11, <1>12, <1>13

-----------------------------------------------------------------------------
(* Keys *)

\* No two findings have one key.
Distinct(fs) == \A i, j \in DOMAIN fs : Key(fs[i]) = Key(fs[j]) => i = j

\* What is appended must differ from what is there, and among itself.
LEMMA Joined ==
    ASSUME NEW fs \in Seq(Finding), NEW new \in Seq(Finding), Distinct(fs), Distinct(new),
           \A k \in DOMAIN new : Key(new[k]) \notin Keys(fs)
    PROVE  fs \o new \in Seq(Finding) /\ Distinct(fs \o new)
<1> DEFINE all == fs \o new
<1>1. /\ all \in Seq(Finding)
      /\ Len(all) = Len(fs) + Len(new)
      /\ \A i \in 1..Len(fs) + Len(new) :
           all[i] = IF i <= Len(fs) THEN fs[i] ELSE new[i - Len(fs)]
  BY ConcatProperties
<1>2. /\ Len(fs) \in Nat /\ DOMAIN fs = 1..Len(fs)
      /\ Len(new) \in Nat /\ DOMAIN new = 1..Len(new)
      /\ DOMAIN all = 1..Len(all)
  BY <1>1, LenProperties
<1>3. \A i \in DOMAIN fs : Key(fs[i]) \in Keys(fs)
  BY DEF Keys
<1> HIDE DEF all
<1>4. ASSUME NEW i \in DOMAIN all, NEW j \in DOMAIN all, Key(all[i]) = Key(all[j])
      PROVE  i = j
  <2>1. CASE i <= Len(fs) /\ j <= Len(fs)
    <3>1. i \in DOMAIN fs /\ j \in DOMAIN fs /\ all[i] = fs[i] /\ all[j] = fs[j]
      BY <1>1, <1>2, <2>1
    <3> QED  BY <3>1, <1>4 DEF Distinct
  <2>2. CASE ~(i <= Len(fs)) /\ ~(j <= Len(fs))
    <3>1. /\ i - Len(fs) \in DOMAIN new /\ all[i] = new[i - Len(fs)]
          /\ j - Len(fs) \in DOMAIN new /\ all[j] = new[j - Len(fs)]
      BY <1>1, <1>2, <2>2
    <3>2. i - Len(fs) = j - Len(fs)
      BY <3>1, <1>4 DEF Distinct
    <3> QED  BY <3>2, <1>1, <1>2
  <2>3. ASSUME NEW m \in DOMAIN all, NEW n \in DOMAIN all, m <= Len(fs), ~(n <= Len(fs))
        PROVE  Key(all[m]) # Key(all[n])
    <3>1. m \in DOMAIN fs /\ all[m] = fs[m]
      BY <1>1, <1>2, <2>3
    <3>2. n - Len(fs) \in DOMAIN new /\ all[n] = new[n - Len(fs)]
      BY <1>1, <1>2, <2>3
    <3> QED  BY <1>3, <3>1, <3>2
  <2> QED  BY <1>4, <2>1, <2>2, <2>3
<1> QED  BY <1>1, <1>4 DEF all, Distinct

\* Two sequences of the same keys.
SameKeys(fs, gs) ==
    DOMAIN fs = DOMAIN gs /\ \A i \in DOMAIN fs : Key(fs[i]) = Key(gs[i])

LEMMA KeptKeys ==
    ASSUME NEW fs, NEW gs, SameKeys(fs, gs)
    PROVE  Keys(fs) = Keys(gs) /\ (Distinct(fs) <=> Distinct(gs))
BY DEF SameKeys, Keys, Distinct

\* Enrichment adds CVEs and changes no key.
LEMMA EnrichedKeys ==
    ASSUME NEW fs \in Seq(Finding), NEW net \in Network
    PROVE  Enriched(fs, net) \in Seq(Finding) /\ SameKeys(fs, Enriched(fs, net))
<1> DEFINE more(i) == IF fs[i].ip = "none" THEN {} ELSE net.listed[fs[i].ip].vulns
           At(i) == [fs[i] EXCEPT !.cves = @ \cup more(i)]
<1>1. Enriched(fs, net) = [i \in DOMAIN fs |-> At(i)]
  BY DEF Enriched
<1>2. ASSUME NEW i \in DOMAIN fs
      PROVE  At(i) \in Finding /\ Key(At(i)) = Key(fs[i])
  <2>1. fs[i] \in Finding
    BY ElementOfSeq, LenProperties
  <2>2. more(i) \in SUBSET Cves
    <3>1. fs[i].ip # "none" => fs[i].ip \in Addresses
      BY <2>1 DEF Finding, Address
    <3>2. \A l \in Listings : l.vulns \in SUBSET Cves
      BY CorrelationAssumption DEF CorrelationAssumption
    <3> QED  BY <3>1, <3>2 DEF Network
  <2> HIDE DEF more
  <2> QED  BY <2>1, <2>2 DEF Finding, Key
<1> HIDE DEF At
<1>3. Enriched(fs, net) \in [DOMAIN fs -> Finding]
  BY <1>1, <1>2
<1>4. DOMAIN Enriched(fs, net) = DOMAIN fs
  BY <1>1
<1> QED  BY <1>1, <1>2, <1>3, <1>4, Mapped DEF SameKeys

\* What is stored is one or the other.
LEMMA StoredKeys ==
    ASSUME NEW fs \in Seq(Finding), NEW e \in Seq(Finding), SameKeys(fs, e)
    PROVE  Stored(fs, e) \in Seq(Finding) /\ SameKeys(fs, Stored(fs, e))
<1>1. \A i \in DOMAIN fs : fs[i] \in Finding /\ e[i] \in Finding
  BY ElementOfSeq, LenProperties DEF SameKeys
<1>2. \A i \in DOMAIN fs : Stored(fs, e)[i] = fs[i] \/ Stored(fs, e)[i] = e[i]
  BY DEF Stored
<1>3. Stored(fs, e) \in [DOMAIN fs -> Finding]
  BY <1>1 DEF Stored
<1> QED  BY <1>2, <1>3, Mapped DEF SameKeys

\* What a pass appends is of keys that are not there, each once.
LEMMA FreshKeys ==
    ASSUME NEW fs \in Seq(Finding), NEW net \in Network
    PROVE  /\ Fresh(fs, net) \in Seq(Finding) /\ Distinct(Fresh(fs, net))
           /\ \A n \in DOMAIN Fresh(fs, net) : Key(Fresh(fs, net)[n]) \notin Keys(fs)
<1> DEFINE c == Candidates(fs, net)
           I == {k \in Taken(c, fs) : Key(c[k]) \notin Keys(fs)}
           pick == Ascending(I)
<1>1. c \in Seq(Finding)
  BY CandidatesType
<1>2. Fresh(fs, net) = [n \in DOMAIN pick |-> c[pick[n]]]
  BY DEF Fresh
<1> HIDE DEF c
<1>3. /\ I \in SUBSET (DOMAIN c)
      /\ \A j, k \in I : Key(c[j]) = Key(c[k]) => j = k
      /\ \A k \in I : Key(c[k]) \notin Keys(fs)
  BY <1>1, TakenApart
<1> HIDE DEF I
<1>4. /\ pick \in Seq(I)
      /\ \A m, n \in DOMAIN pick : pick[m] = pick[n] => m = n
  BY <1>1, <1>3, IndicesFinite, AscendingNumbers
<1> HIDE DEF pick
<1>5. \A n \in DOMAIN pick : pick[n] \in I
  BY <1>4, ElementOfSeq, LenProperties
<1>6. \A k \in I : c[k] \in Finding
  BY <1>1, <1>3, ElementOfSeq, LenProperties
<1>7. Fresh(fs, net) \in [DOMAIN pick -> Finding]
  BY <1>2, <1>5, <1>6
<1>8. Fresh(fs, net) \in Seq(Finding) /\ DOMAIN Fresh(fs, net) = DOMAIN pick
  BY <1>4, <1>7, Mapped
<1>9. \A n \in DOMAIN pick : Fresh(fs, net)[n] = c[pick[n]]
  BY <1>2
<1>10. Distinct(Fresh(fs, net))
  BY <1>3, <1>4, <1>5, <1>8, <1>9 DEF Distinct
<1> QED  BY <1>3, <1>5, <1>8, <1>9, <1>10

-----------------------------------------------------------------------------
(* The invariant *)

\* The passes since anything changed are some of those there were.
CalmInv == calm <= passes

Inv == TypeOK /\ CalmInv /\ OneRecordPerKey

LEMMA OneIsDistinct == OneRecordPerKey <=> Distinct(findings)
BY DEF OneRecordPerKey, Distinct

LEMMA InitInv == Init => Inv
<1> SUFFICES ASSUME Init
             PROVE  Inv
  OBVIOUS
<1> USE DEF Init
<1>1. findings \in Seq(Finding) /\ DOMAIN findings = {}
  BY EmptySeq
<1>2. network \in Network
  BY CorrelationAssumption DEF CorrelationAssumption, Network, Address
<1>3. /\ calm \in 0..MaxPasses /\ passes \in 0..MaxPasses /\ scans \in 0..MaxScans
      /\ assessments \in 0..MaxAssessments
  BY CorrelationAssumption DEF CorrelationAssumption
<1> QED  BY <1>1, <1>2, <1>3 DEF Inv, TypeOK, CalmInv, OneRecordPerKey

\* A scan's findings, as a set.
LEMMA SeedIds ==
    ASSUME NEW f \in Seeds
    PROVE  /\ [f EXCEPT !.id = <<"scan", Key(f)>>] \in Finding
           /\ Key([f EXCEPT !.id = <<"scan", Key(f)>>]) = Key(f)
<1>1. f \in Finding
  BY CorrelationAssumption DEF CorrelationAssumption
<1>2. <<"scan", Key(f)>> \in Ids
  BY <1>1, IdTypes DEF Finding, Key
<1> QED  BY <1>1, <1>2 DEF Finding, Key

\* A finite set in some sequence.
LEMMA SomeOrder ==
    ASSUME NEW S, IsFiniteSet(S)
    PROVE  /\ SetToSeq(S) \in Seq(S)
           /\ \A i, j \in DOMAIN SetToSeq(S) : SetToSeq(S)[i] = SetToSeq(S)[j] => i = j
<1> DEFINE n == Cardinality(S)
<1>1. n \in Nat /\ ExistsBijection(1..n, S)
  BY FS_CardinalityType
<1>2. \E f \in [1..n -> S] : IsInjective(f)
  BY <1>1 DEF ExistsBijection, Bijection, Injection
<1>3. SetToSeq(S) \in [1..n -> S] /\ IsInjective(SetToSeq(S))
  BY <1>2 DEF SetToSeq
<1>4. SetToSeq(S) \in Seq(S)
  BY <1>1, <1>3, SeqDef
<1> QED  BY <1>3, <1>4 DEF IsInjective

\* Scans and assessments append.
Appended == \E new \in Seq(Finding) : findings' = findings \o new

LEMMA ScanInv ==
    ASSUME Inv, NEW found \in SUBSET Seeds, NEW up \in SUBSET Hosts, Scan(found, up)
    PROVE  Inv' /\ Appended
<1> DEFINE named(f) == [f EXCEPT !.id = <<"scan", Key(f)>>]
           S == {named(f) : f \in found}
           new == SetToSeq(S)
<1> USE DEF Inv
<1>1. findings' = findings \o new
  BY DEF Scan
<1>2. \A f \in found : named(f) \in Finding /\ Key(named(f)) = Key(f)
  BY SeedIds
<1>3. \A f, g \in found : Key(f) = Key(g) => f = g
  BY DEF Scan
<1>4. \A f \in found : Key(f) \notin Keys(findings)
  BY DEF Scan
<1>5. IsFiniteSet(S)
  <2>1. IsFiniteSet(found)
    BY CorrelationAssumption, FS_Subset DEF CorrelationAssumption
  <2>2. DEFINE m == [f \in found |-> named(f)]
  <2>3. m \in Surjection(found, S)
    <3> HIDE DEF named
    <3> QED  BY Zenon DEF Surjection
  <2> QED  BY <2>1, <2>3, FS_Surjection
<1>6. S \subseteq Finding /\ \A x, y \in S : Key(x) = Key(y) => x = y
  <2> HIDE DEF named
  <2> QED  BY <1>2, <1>3
<1>7. \A x \in S : Key(x) \notin Keys(findings)
  <2> HIDE DEF named
  <2> QED  BY <1>2, <1>4
<1> HIDE DEF S
<1>8. new \in Seq(S) /\ \A i, j \in DOMAIN new : new[i] = new[j] => i = j
  BY <1>5, SomeOrder
<1> HIDE DEF new
<1>9. \A i \in DOMAIN new : new[i] \in S
  BY <1>8, ElementOfSeq, LenProperties
<1>10. new \in Seq(Finding) /\ Distinct(new) /\ \A k \in DOMAIN new : Key(new[k]) \notin Keys(findings)
  BY <1>6, <1>7, <1>8, <1>9, SeqMonotonic DEF Distinct
<1>11. findings' \in Seq(Finding) /\ Distinct(findings')
  BY <1>1, <1>10, OneIsDistinct, Joined DEF TypeOK
<1>12. OneRecordPerKey'
  BY <1>11 DEF OneRecordPerKey, Distinct
<1>13. TypeOK' /\ CalmInv'
  BY <1>11, CorrelationAssumption DEF TypeOK, CalmInv, Scan, CorrelationAssumption
<1>14. Appended
  BY <1>1, <1>10 DEF Appended
<1> QED  BY <1>12, <1>13, <1>14

LEMMA AssessInv ==
    ASSUME Inv, NEW said \in SUBSET Hosts, Assess(said)
    PROVE  Inv' /\ Appended
<1> DEFINE S == {h \in said : Key(AiFinding(h, 0)) \notin Keys(findings)}
           who == Ascending(S)
           At(k) == AiFinding(who[k], Len(findings) + 2 * k - 1)
           new == [k \in DOMAIN who |-> At(k)]
<1> USE DEF Inv
<1>1. findings' = findings \o new
  BY DEF Assess
<1>2. \A h, m, n : Key(AiFinding(h, m)) = Key(AiFinding(h, n)) /\ Key(AiFinding(h, m))[1] = h
  BY DEF Key, AiFinding, Derived
<1>3. S \in SUBSET Hosts /\ \A h \in S : Key(AiFinding(h, 0)) \notin Keys(findings)
  OBVIOUS
<1> HIDE DEF S
<1>4. who \in Seq(S) /\ \A i, j \in DOMAIN who : who[i] = who[j] => i = j
  BY <1>3, CorrelationAssumption, FS_Subset, AscendingNumbers DEF CorrelationAssumption
<1> HIDE DEF who
<1>5. \A k \in DOMAIN who : who[k] \in S /\ k \in Nat \ {0}
  BY <1>4, ElementOfSeq, LenProperties
<1>6. \A k \in DOMAIN who : At(k) \in Finding
  <2> TAKE k \in DOMAIN who
  <2>1. Len(findings) \in Nat
    BY LenProperties DEF TypeOK
  <2>2. Len(findings) + 2 * k - 1 \in Nat
    BY <1>5, <2>1
  <2>3. <<"AI", Len(findings) + 2 * k - 1>> \in Ids
    BY <2>2, IdTypes
  <2>4. {} \in SUBSET Cves /\ "none" \in Address /\ who[k] \in Hosts
    BY <1>3, <1>5 DEF Address
  <2> QED  BY <2>3, <2>4, NoCveType, SourceTypes, Made DEF AiFinding
<1> HIDE DEF At
<1>7. new \in [DOMAIN who -> Finding]
  BY <1>6
<1>8. new \in Seq(Finding) /\ DOMAIN new = DOMAIN who
  BY <1>4, <1>7, Mapped
<1>9. \A k \in DOMAIN who : /\ Key(new[k]) = Key(AiFinding(who[k], 0))
                            /\ Key(new[k])[1] = who[k]
  BY <1>2 DEF At
<1> HIDE DEF new
<1>10. Distinct(new) /\ \A k \in DOMAIN new : Key(new[k]) \notin Keys(findings)
  BY <1>3, <1>4, <1>5, <1>8, <1>9 DEF Distinct
<1>11. findings' \in Seq(Finding) /\ Distinct(findings')
  BY <1>1, <1>8, <1>10, OneIsDistinct, Joined DEF TypeOK
<1>12. OneRecordPerKey'
  BY <1>11 DEF OneRecordPerKey, Distinct
<1>13. TypeOK' /\ CalmInv'
  BY <1>11, CorrelationAssumption DEF TypeOK, CalmInv, Assess, CorrelationAssumption
<1>14. Appended
  BY <1>1, <1>8 DEF Appended
<1> QED  BY <1>12, <1>13, <1>14

LEMMA CorrelateInv ==
    ASSUME Inv, NEW net \in Network, Correlate(net)
    PROVE  Inv'
<1> DEFINE e == Enriched(findings, net)
           new == Fresh(e, net)
           kept == Stored(findings, e)
<1> USE DEF Inv
<1>1. findings' = kept \o new
  BY DEF Correlate
<1>2. findings \in Seq(Finding)
  BY DEF TypeOK
<1>3. e \in Seq(Finding) /\ SameKeys(findings, e)
  BY <1>2, EnrichedKeys
<1> HIDE DEF e
<1>4. kept \in Seq(Finding) /\ SameKeys(findings, kept)
  BY <1>2, <1>3, StoredKeys
<1>5. /\ new \in Seq(Finding) /\ Distinct(new)
      /\ \A n \in DOMAIN new : Key(new[n]) \notin Keys(e)
  BY <1>3, FreshKeys
<1> HIDE DEF kept, new
<1>6. Keys(e) = Keys(kept) /\ Distinct(kept)
  BY <1>3, <1>4, OneIsDistinct, KeptKeys
<1>7. findings' \in Seq(Finding) /\ Distinct(findings')
  BY <1>1, <1>4, <1>5, <1>6, Joined
<1>8. OneRecordPerKey'
  BY <1>7 DEF OneRecordPerKey, Distinct
<1>9. TypeOK' /\ CalmInv'
  BY <1>7, CorrelationAssumption DEF TypeOK, CalmInv, Correlate, CorrelationAssumption
<1> QED  BY <1>8, <1>9

LEMMA StepInv == Inv /\ [Next]_vars => Inv'
<1> SUFFICES ASSUME Inv, [Next]_vars
             PROVE  Inv'
  OBVIOUS
<1>1. ASSUME NEW found \in SUBSET Seeds, NEW up \in SUBSET Hosts, Scan(found, up)
      PROVE  Inv'
  BY <1>1, ScanInv
<1>2. ASSUME NEW said \in SUBSET Hosts, Assess(said)
      PROVE  Inv'
  BY <1>2, AssessInv
<1>3. ASSUME NEW net \in Network, Correlate(net)
      PROVE  Inv'
  BY <1>3, CorrelateInv
<1>4. CASE UNCHANGED vars
  BY <1>4 DEF vars, Inv, TypeOK, CalmInv, OneRecordPerKey
<1> QED  BY <1>1, <1>2, <1>3, <1>4 DEF Next

\* Types, the count of quiet passes and the keys hold in every reachable state.
THEOREM Invariance == Spec => []Inv
BY InitInv, StepInv, PTL DEF Spec

\* Every finding of every pass, scan and assessment is one, and the counts stay in
\* their bounds.
THEOREM Typed == Spec => []TypeOK
<1>1. Inv => TypeOK
  BY DEF Inv
<1> QED  BY <1>1, Invariance, PTL

\* However often scans, assessments and passes add findings, in whatever order, and
\* whatever the network and InternetDB say meanwhile, no two have one key.
THEOREM KeysStayUnique == Spec => []OneRecordPerKey
<1>1. Inv => OneRecordPerKey
  BY DEF Inv
<1> QED  BY <1>1, Invariance, PTL
-----------------------------------------------------------------------------
(* The end of the engine *)

\* The keys there are.
Room == Cardinality(Hosts) * (Cardinality(About) * Cardinality(Sources))

LEMMA KeysFinite ==
    /\ IsFiniteSet(Hosts \X (About \X Sources))
    /\ Cardinality(Hosts \X (About \X Sources)) = Room
<1>1. IsFiniteSet(About)
  BY CorrelationAssumption, FS_AddElement DEF CorrelationAssumption, About
<1>2. \A s : IsFiniteSet({s})
  BY FS_Singleton
<1>3. Sources = {"cve-share"} \cup ({"ip-co-residency"} \cup ({"internetdb"} \cup
                  ({"ai-assess"} \cup ({"scan-cve"} \cup {"scan"}))))
  BY DEF Sources, CorrSources
<1>4. IsFiniteSet(Sources)
  BY <1>2, <1>3, FS_Union
<1>5. IsFiniteSet(About \X Sources)
      /\ Cardinality(About \X Sources) = Cardinality(About) * Cardinality(Sources)
  BY <1>1, <1>4, FS_Product
<1> QED
  BY <1>5, FS_Product, CorrelationAssumption DEF CorrelationAssumption, Room

\* Findings of different keys are no more than there are keys.
LEMMA NoMoreThanKeys ==
    ASSUME TypeOK, OneRecordPerKey
    PROVE  Len(findings) <= Room
<1> DEFINE D == 1..Len(findings)
           T == Hosts \X (About \X Sources)
           place == [i \in D |->
                       <<findings[i].target, <<findings[i].about, findings[i].source>>>>]
<1>1. findings \in Seq(Finding) /\ Len(findings) \in Nat /\ DOMAIN findings = D
  BY DEF TypeOK
<1>2. \A i \in D : findings[i] \in Finding
  BY <1>1
<1>3. \A i \in D : place[i] \in T
  BY <1>2 DEF Finding
<1>4. \A i, j \in D : place[i] = place[j] => i = j
  BY <1>1 DEF OneRecordPerKey, Key
<1> HIDE DEF T
<1>5. place \in Injection(D, T)
  BY <1>3, <1>4 DEF Injection, IsInjective
<1> HIDE DEF place
<1>6. Cardinality(D) <= Cardinality(T)
  BY <1>5, KeysFinite, FS_Injection DEF T
<1>7. Cardinality(D) = Len(findings)
  BY <1>1, FS_Interval
<1> QED
  BY <1>6, <1>7, KeysFinite DEF T

\* The engine feeds on what it added itself, but it comes to an end: there is room
\* for one finding of each host, subject and source and no more, whatever the network
\* says, and none is taken away.  So only so many passes add anything.
THEOREM EngineEnds == Spec => [](Len(findings) <= Room)
<1>1. Inv => Len(findings) <= Room
  BY NoMoreThanKeys DEF Inv
<1> QED  BY <1>1, Invariance, PTL
-----------------------------------------------------------------------------
(* What there is stays *)

\* g is f, with no CVE less, and none more but those listed for its address.
Richer(f, g, net) ==
    /\ Key(g) = Key(f) /\ g.id = f.id
    /\ f.cves \subseteq g.cves
    /\ \A c \in g.cves \ f.cves : f.ip # "none" /\ c \in net.listed[f.ip].vulns

\* What is enriched is richer.
LEMMA EnrichedRicher ==
    ASSUME NEW fs \in Seq(Finding), NEW net, NEW i \in DOMAIN fs
    PROVE  Richer(fs[i], Enriched(fs, net)[i], net)
<1> DEFINE more == IF fs[i].ip = "none" THEN {} ELSE net.listed[fs[i].ip].vulns
           g == [fs[i] EXCEPT !.cves = @ \cup more]
<1>1. fs[i] \in Finding
  BY ElementOfSeq, LenProperties
<1>2. Enriched(fs, net)[i] = g
  BY DEF Enriched
<1>3. \A c \in more : fs[i].ip # "none" /\ c \in net.listed[fs[i].ip].vulns
  OBVIOUS
<1> HIDE DEF more
<1>4. Key(g) = Key(fs[i]) /\ g.id = fs[i].id /\ g.cves = fs[i].cves \cup more
  BY <1>1 DEF Finding, Key
<1> QED  BY <1>2, <1>3, <1>4 DEF Richer

\* So is what a pass stores, whichever of the findings with its id a finding is.
LEMMA StoredRicher ==
    ASSUME NEW fs \in Seq(Finding), NEW net, NEW i \in DOMAIN fs
    PROVE  Richer(fs[i], Stored(fs, Enriched(fs, net))[i], net)
<1>1. Richer(fs[i], fs[i], net)
  BY DEF Richer
<1>2. \/ Stored(fs, Enriched(fs, net))[i] = fs[i]
      \/ Stored(fs, Enriched(fs, net))[i] = Enriched(fs, net)[i]
  BY DEF Stored
<1> QED  BY <1>1, <1>2, EnrichedRicher

\* What is appended to a list leaves it as it is.
LEMMA Prefix ==
    ASSUME NEW fs \in Seq(Finding), NEW new \in Seq(Finding), NEW i \in DOMAIN fs
    PROVE  i \in DOMAIN (fs \o new) /\ (fs \o new)[i] = fs[i]
BY ConcatProperties, LenProperties

LEMMA AppendPreserves ==
    ASSUME findings \in Seq(Finding), Appended
    PROVE  Preserved
<1> SUFFICES ASSUME NEW i \in DOMAIN findings
             PROVE  i \in DOMAIN findings' /\ findings'[i] = findings[i]
  BY DEF Preserved
<1> QED  BY Prefix DEF Appended

LEMMA CorrelatePreserves ==
    ASSUME Inv, NEW net \in Network, Correlate(net)
    PROVE  Preserved
<1> DEFINE e == Enriched(findings, net)
           kept == Stored(findings, e)
           new == Fresh(e, net)
<1>1. findings' = kept \o new /\ network' = net
  BY DEF Correlate
<1>2. findings \in Seq(Finding)
  BY DEF Inv, TypeOK
<1>3. e \in Seq(Finding) /\ SameKeys(findings, e)
  BY <1>2, EnrichedKeys
<1>4. kept \in Seq(Finding) /\ SameKeys(findings, kept)
  BY <1>2, <1>3, StoredKeys
<1>5. new \in Seq(Finding)
  BY <1>3, FreshKeys
<1>6. \A i \in DOMAIN findings : Richer(findings[i], kept[i], net)
  BY <1>2, StoredRicher
<1> HIDE DEF kept, new
<1>7. DOMAIN kept = DOMAIN findings
  BY <1>4 DEF SameKeys
<1>8. \A i \in DOMAIN findings : i \in DOMAIN findings' /\ findings'[i] = kept[i]
  BY <1>1, <1>4, <1>5, <1>7, Prefix
<1> QED  BY <1>1, <1>6, <1>8 DEF Preserved, Richer

LEMMA StepPreserves == Inv /\ [Next]_vars => [Preserved]_vars
<1> SUFFICES ASSUME Inv, Next
             PROVE  Preserved
  OBVIOUS
<1>1. findings \in Seq(Finding)
  BY DEF Inv, TypeOK
<1>2. ASSUME NEW found \in SUBSET Seeds, NEW up \in SUBSET Hosts, Scan(found, up)
      PROVE  Preserved
  BY <1>1, <1>2, ScanInv, AppendPreserves
<1>3. ASSUME NEW said \in SUBSET Hosts, Assess(said)
      PROVE  Preserved
  BY <1>1, <1>3, AssessInv, AppendPreserves
<1>4. ASSUME NEW net \in Network, Correlate(net)
      PROVE  Preserved
  BY <1>4, CorrelatePreserves
<1> QED  BY <1>2, <1>3, <1>4 DEF Next

\* No scan, assessment or pass removes a finding, moves it or gives it another key or
\* id; a pass takes no CVE from it and adds none that is not listed for its address.
THEOREM NothingIsTaken == Spec => NothingTaken
BY Invariance, StepPreserves, PTL DEF Spec, NothingTaken
=============================================================================
