------------------------ MODULE PackageManager_proofs ------------------------
(***************************************************************************)
(* Proofs about PackageManager, for any packages, containers, rundowns and *)
(* monitors: what the expectation manager is given follows from the data   *)
(* of now, fits together, and every package is expected in it.             *)
(***************************************************************************)
EXTENDS PackageManager, SequenceTheorems, FiniteSetTheorems, WellFoundedInduction, TLAPS

-----------------------------------------------------------------------------
(* Order and sequences *)

LEMMA SmallestNumber ==
  ASSUME NEW S, S \subseteq Nat, S # {}
  PROVE  \E k \in S : \A m \in S : k <= m
<1>1. PICK k \in S : \A m \in S : <<m, k>> \notin OpToRel(<, Nat)
  BY NatLessThanWellFounded, WFMin
<1>2. \A m \in S : ~(m < k)
  BY <1>1 DEF OpToRel
<1> QED BY <1>2

\* A strict order in which any two elements can be compared
IsOrder(S, before) ==
  /\ \A x \in S : <<x, x>> \notin before
  /\ \A x, y \in S : x # y => <<x, y>> \in before \/ <<y, x>> \in before
  /\ \A x, y, z \in S : <<x, y>> \in before /\ <<y, z>> \in before => <<x, z>> \in before

\* Every element has its place, and every place an element.
LEMMA InOrderIsABijection ==
  ASSUME NEW S, IsFiniteSet(S), NEW before, IsOrder(S, before)
  PROVE  /\ Cardinality(S) \in Nat
         /\ DOMAIN InOrder(S, before) = 1 .. Cardinality(S)
         /\ \A n \in 1 .. Cardinality(S) : InOrder(S, before)[n] \in S
         /\ \A x \in S : \E n \in 1 .. Cardinality(S) : InOrder(S, before)[n] = x
<1> DEFINE N == Cardinality(S)
           Earlier(x) == {y \in S : <<y, x>> \in before}
           rank == [x \in S |-> Cardinality(Earlier(x)) + 1]
<1>1. N \in Nat
  BY FS_CardinalityType
<1>2. ASSUME NEW x \in S
      PROVE  IsFiniteSet(Earlier(x)) /\ Cardinality(Earlier(x)) \in 0 .. N - 1
  <2>1. IsFiniteSet(S \ {x}) /\ Cardinality(S \ {x}) = N - 1
    BY FS_RemoveElement
  <2>2. Earlier(x) \in SUBSET (S \ {x})
    BY DEF IsOrder
  <2> HIDE DEF Earlier
  <2>3. IsFiniteSet(Earlier(x)) /\ Cardinality(Earlier(x)) <= N - 1
    BY <2>1, <2>2, FS_Subset
  <2>4. Cardinality(Earlier(x)) \in Nat
    BY <2>3, FS_CardinalityType
  <2> QED BY <1>1, <2>3, <2>4
<1>3. ASSUME NEW x \in S, NEW y \in S, <<x, y>> \in before
      PROVE  Cardinality(Earlier(x)) # Cardinality(Earlier(y))
  <2>1. Earlier(x) \in SUBSET Earlier(y) /\ x \in Earlier(y) /\ x \notin Earlier(x)
    BY <1>3 DEF IsOrder
  <2> HIDE DEF Earlier
  <2> QED BY <1>2, <2>1, FS_Subset
<1>4. rank \in [S -> 1 .. N]
  <2> HIDE DEF Earlier
  <2> QED BY <1>1, <1>2
<1>5. ASSUME NEW x \in S, NEW y \in S, rank[x] = rank[y]
      PROVE  x = y
  <2>1. Cardinality(Earlier(x)) = Cardinality(Earlier(y))
    <3> HIDE DEF Earlier
    <3> QED BY <1>2, <1>5
  <2> QED BY <1>3, <2>1 DEF IsOrder
<1>6. rank \in Surjection(S, 1 .. N)
  <2>1. rank \in Injection(S, 1 .. N)
    <3> HIDE DEF rank
    <3> QED BY <1>4, <1>5 DEF Injection, IsInjective
  <2>2. IsFiniteSet(1 .. N) /\ Cardinality(1 .. N) = N
    BY <1>1, FS_Interval
  <2> HIDE DEF rank
  <2> QED BY <2>1, <2>2, FS_Injection
<1>7. ASSUME NEW n \in 1 .. N
      PROVE  \E x \in S : rank[x] = n
  <2> HIDE DEF rank, N
  <2> QED BY <1>6 DEF Surjection
<1>8. ASSUME NEW n \in 1 .. N
      PROVE  InOrder(S, before)[n] \in S /\ rank[InOrder(S, before)[n]] = n
  <2> DEFINE x == CHOOSE x \in S : Cardinality(Earlier(x)) = n - 1
  <2>1. InOrder(S, before)[n] = x
    BY DEF InOrder
  <2>2. \E y \in S : Cardinality(Earlier(y)) = n - 1
    <3> HIDE DEF Earlier
    <3> QED BY <1>2, <1>7
  <2>3. x \in S /\ Cardinality(Earlier(x)) = n - 1
    <3> HIDE DEF Earlier
    <3> QED BY <2>2
  <2> HIDE DEF x, Earlier
  <2> QED BY <2>1, <2>3
<1>9. ASSUME NEW x \in S
      PROVE  \E n \in 1 .. N : InOrder(S, before)[n] = x
  <2> HIDE DEF rank, N
  <2>1. rank[x] \in 1 .. N
    BY <1>4
  <2>2. InOrder(S, before)[rank[x]] = x
    BY <1>5, <1>8, <2>1
  <2> QED BY <2>1, <2>2
<1>10. DOMAIN InOrder(S, before) = 1 .. N
  BY DEF InOrder
<1> QED BY <1>1, <1>8, <1>9, <1>10

LEMMA FunctionIsASeq ==
  ASSUME NEW S, NEW n \in Nat, NEW f \in [1 .. n -> S]
  PROVE  f \in Seq(S) /\ Len(f) = n
<1>1. f \in Seq(S)
  BY SeqDef
<1> QED BY <1>1, LenProperties

\* The places of a sequence are in order.
LEMMA PlacesAreFinite ==
  ASSUME NEW T, NEW s \in Seq(T), NEW places \in SUBSET DOMAIN s
  PROVE  IsFiniteSet(places)
<1>1. Len(s) \in Nat /\ DOMAIN s = 1 .. Len(s)
  BY LenProperties
<1>2. IsFiniteSet(1 .. Len(s))
  BY <1>1, FS_Interval
<1> QED BY <1>1, <1>2, FS_Subset

\* Within(s, S) has the elements of s that are in S, and all of them.
LEMMA WithinType ==
  ASSUME NEW T, NEW s \in Seq(T), NEW S
  PROVE  /\ Within(s, S) \in Seq(T \cap S)
         /\ \A i \in DOMAIN s : s[i] \in S => s[i] \in Range(Within(s, S))
<1> DEFINE places == {i \in DOMAIN s : s[i] \in S}
           before == {e \in places \X places : e[1] < e[2]}
           order == InOrder(places, before)
<1>1. DOMAIN s = 1 .. Len(s) /\ Len(s) \in Nat
  BY LenProperties
<1>2. IsFiniteSet(places)
  BY PlacesAreFinite
<1>3. IsOrder(places, before)
  <2>1. \A i \in places : i \in Int
    BY <1>1
  <2>2. \A i, j \in places : <<i, j>> \in before <=> i < j
    OBVIOUS
  <2> HIDE DEF places, before
  <2> QED BY <2>1, <2>2 DEF IsOrder
<1>4. /\ Cardinality(places) \in Nat
      /\ DOMAIN order = 1 .. Cardinality(places)
      /\ \A n \in 1 .. Cardinality(places) : order[n] \in places
      /\ \A i \in places : \E n \in 1 .. Cardinality(places) : order[n] = i
  <2> HIDE DEF places, before
  <2> QED BY <1>2, <1>3, InOrderIsABijection
<1>5. Within(s, S) = [n \in DOMAIN order |-> s[order[n]]]
  BY DEF Within
<1>6. \A i \in places : s[i] \in T \cap S
  BY <1>1, ElementOfSeq
<1> HIDE DEF order
<1>7. Within(s, S) \in [1 .. Cardinality(places) -> T \cap S]
  <2> HIDE DEF places
  <2> QED BY <1>4, <1>5, <1>6
<1>8. ASSUME NEW i \in DOMAIN s, s[i] \in S
      PROVE  s[i] \in Range(Within(s, S))
  <2>1. PICK n \in 1 .. Cardinality(places) : order[n] = i
    BY <1>4, <1>8
  <2> HIDE DEF places
  <2>2. Within(s, S)[n] = s[i] /\ n \in DOMAIN Within(s, S)
    BY <1>4, <1>5, <2>1
  <2> QED BY <2>2 DEF Range
<1>9. Within(s, S) \in Seq(T \cap S)
  <2> HIDE DEF places
  <2> QED BY <1>4, <1>7, FunctionIsASeq
<1> QED BY <1>8, <1>9

\* Sorted, packages with priorities are the same packages.
LEMMA ByPriorityType ==
  ASSUME NEW T, \A p \in T : p.priority \in Int, NEW s \in Seq(T)
  PROVE  /\ ByPriority(s) \in Seq(T)
         /\ Range(s) \subseteq Range(ByPriority(s))
<1> DEFINE places == DOMAIN s
           before == {e \in places \X places :
                        LET p == s[e[1]]
                            q == s[e[2]]
                        IN  p.priority < q.priority \/ (p.priority = q.priority /\ e[1] < e[2])}
           order == InOrder(places, before)
<1>1. DOMAIN s = 1 .. Len(s) /\ Len(s) \in Nat
  BY LenProperties
<1>2. IsFiniteSet(places)
  BY PlacesAreFinite
<1>3. \A i \in places : i \in Int /\ s[i] \in T /\ s[i].priority \in Int
  BY <1>1, ElementOfSeq
<1>4. IsOrder(places, before)
  <2>1. \A i, j \in places :
          <<i, j>> \in before <=> \/ s[i].priority < s[j].priority
                                  \/ s[i].priority = s[j].priority /\ i < j
    OBVIOUS
  <2> HIDE DEF places, before
  <2>2. \A i \in places : <<i, i>> \notin before
    BY <1>3, <2>1
  <2>3. \A i, j \in places : i # j => <<i, j>> \in before \/ <<j, i>> \in before
    BY <1>3, <2>1
  <2>4. \A i, j, k \in places : <<i, j>> \in before /\ <<j, k>> \in before => <<i, k>> \in before
    BY <1>3, <2>1
  <2> QED BY <2>2, <2>3, <2>4 DEF IsOrder
<1>5. /\ Cardinality(places) \in Nat
      /\ DOMAIN order = 1 .. Cardinality(places)
      /\ \A n \in 1 .. Cardinality(places) : order[n] \in places
      /\ \A i \in places : \E n \in 1 .. Cardinality(places) : order[n] = i
  <2> HIDE DEF places, before
  <2> QED BY <1>2, <1>4, InOrderIsABijection
<1>6. ByPriority(s) = [n \in DOMAIN order |-> s[order[n]]]
  BY DEF ByPriority
<1> HIDE DEF order
<1>7. ByPriority(s) \in [1 .. Cardinality(places) -> T]
  BY <1>3, <1>5, <1>6
<1>8. ByPriority(s) \in Seq(T)
  BY <1>5, <1>7, FunctionIsASeq
<1>9. ASSUME NEW i \in places
      PROVE  s[i] \in Range(ByPriority(s))
  <2>1. PICK n \in 1 .. Cardinality(places) : order[n] = i
    BY <1>5
  <2>2. ByPriority(s)[n] = s[i] /\ n \in DOMAIN ByPriority(s)
    BY <1>5, <1>6, <2>1
  <2> QED BY <2>2 DEF Range
<1> QED BY <1>8, <1>9 DEF Range

\* What FlattenSeq computes with: the parts up to each place put together.
Flattened(f, seqs, n) ==
  f = [i \in 1 .. n |-> IF i = 1 THEN seqs[i] ELSE f[i - 1] \o seqs[i]]

\* The parts can be put together up to the next place.
LEMMA FlattenedNext ==
  ASSUME NEW seqs, NEW n \in Nat, NEW f, Flattened(f, seqs, n)
  PROVE  \E g : Flattened(g, seqs, n + 1)
<1> DEFINE g == [i \in 1 .. (n + 1) |->
                   IF i = 1 THEN seqs[i] ELSE f[i - 1] \o seqs[i]]
<1>1. ASSUME NEW i \in 1 .. (n + 1), i # 1
      PROVE  g[i - 1] = f[i - 1]
  <2>1. i - 1 \in 1 .. n /\ i - 1 \in 1 .. (n + 1)
    BY <1>1
  <2>2. f[i - 1] = IF i - 1 = 1 THEN seqs[i - 1] ELSE f[(i - 1) - 1] \o seqs[i - 1]
    BY <2>1 DEF Flattened
  <2> QED BY <2>1, <2>2
<1>2. g = [i \in 1 .. (n + 1) |-> IF i = 1 THEN seqs[i] ELSE g[i - 1] \o seqs[i]]
  <2>1. ASSUME NEW i \in 1 .. (n + 1)
        PROVE  g[i] = IF i = 1 THEN seqs[i] ELSE g[i - 1] \o seqs[i]
    BY <1>1, <2>1
  <2> QED BY <2>1
<1> QED BY <1>2 DEF Flattened

\* The parts can be put together.
LEMMA FlattenedExists ==
  ASSUME NEW seqs, NEW n \in Nat
  PROVE  \E f : Flattened(f, seqs, n)
<1> DEFINE Bad == {k \in Nat : ~ \E f : Flattened(f, seqs, k)}
<1> SUFFICES ASSUME Bad # {} PROVE FALSE
  OBVIOUS
<1>1. PICK k \in Bad : \A m \in Bad : k <= m
  BY SmallestNumber
<1>2. CASE k = 0
  <2>1. Flattened([i \in {} |-> 0], seqs, 0)
    BY DEF Flattened
  <2> QED BY <1>2, <2>1
<1>3. CASE k # 0
  <2>1. k - 1 \in Nat /\ k - 1 < k /\ (k - 1) + 1 = k
    BY <1>3
  <2>2. \E f : Flattened(f, seqs, k - 1)
    BY <1>1, <2>1
  <2> QED BY <2>1, <2>2, FlattenedNext
<1> QED BY <1>2, <1>3

\* Together, the parts are a sequence of what the parts are sequences of.
LEMMA FlattenSeqType ==
  ASSUME NEW S, NEW seqs \in Seq(Seq(S))
  PROVE  FlattenSeq(seqs) \in Seq(S)
<1>1. CASE Len(seqs) = 0
  <2>1. seqs = <<>>
    BY <1>1, EmptySeq
  <2> QED BY <1>1, <2>1 DEF FlattenSeq
<1>2. CASE Len(seqs) # 0
  <2> DEFINE n == Len(seqs)
             f == CHOOSE f : Flattened(f, seqs, n)
             Bad == {k \in 1 .. n : f[k] \notin Seq(S)}
  <2>1. n \in Nat /\ n # 0
    BY <1>2
  <2>2. Flattened(f, seqs, n)
    BY <2>1, FlattenedExists
  <2>3. FlattenSeq(seqs) = f[n]
    BY <1>2 DEF FlattenSeq, Flattened
  <2> HIDE DEF f
  <2>4. ASSUME Bad # {} PROVE FALSE
    <3>1. PICK k \in Bad : \A m \in Bad : k <= m
      <4>1. Bad \subseteq Nat
        BY <2>1
      <4> QED BY <2>4, <4>1, SmallestNumber
    <3>2. f[k] = IF k = 1 THEN seqs[k] ELSE f[k - 1] \o seqs[k]
      BY <2>2 DEF Flattened
    <3>3. seqs[k] \in Seq(S)
      BY ElementOfSeq
    <3>4. k # 1
      BY <3>2, <3>3
    <3>5. k - 1 \in 1 .. n /\ ~(k <= k - 1)
      BY <2>1, <3>4
    <3>6. f[k - 1] \in Seq(S)
      BY <3>1, <3>5
    <3>7. f[k - 1] \o seqs[k] \in Seq(S)
      BY <3>3, <3>6
    <3> QED BY <3>2, <3>4, <3>7
  <2> QED BY <2>1, <2>3, <2>4
<1> QED BY <1>1, <1>2

-----------------------------------------------------------------------------
(* The data *)

Packages == CorePackages \cup WrappedPackages

\* What the code's types say of a package, wrapped or not.
IsPackage(p) ==
  /\ DOMAIN p = {"id", "type", "content", "version", "hash", "sources", "targets",
                 "accessors", "priority", "rundown", "external", "smartbull", "sideEffect"}
  /\ p.type \in {"MEDIA_FILE", "QUANTEL_CLIP", "JSON_DATA", "HTML_TEMPLATE"}
  /\ p.priority \in Int
  /\ \A c, d \in p.sideEffect : c[1] = d[1] => c = d

LEMMA PackagesArePackages == \A p \in Packages : IsPackage(p)
<1>1. \A p \in CorePackages \cup FoundPackages : IsPackage(p)
  BY PackagesAssumption DEF IsPackage
<1>2. ASSUME NEW q \in WrappedPackages
      PROVE  IsPackage(q)
  <2>1. PICK cs \in SUBSET Containers, p \in FoundPackages : q = wrapExpectedPackage(cs, p) /\ q # None
    BY DEF WrappedPackages
  <2>2. q = [p EXCEPT !.sources = p.sources \cap cs, !.targets = p.targets \cap cs,
                      !.priority = 999, !.external = TRUE]
    BY <2>1 DEF wrapExpectedPackage
  <2>3. IsPackage(p)
    BY <1>1
  <2>4. DOMAIN q = DOMAIN p /\ q.type = p.type /\ q.priority = 999 /\ q.sideEffect = p.sideEffect
    BY <2>2, <2>3 DEF IsPackage
  <2> QED BY <2>3, <2>4 DEF IsPackage
<1> QED BY <1>1, <1>2 DEF Packages

LEMMA WrappedType ==
  ASSUME NEW cs \in SUBSET Containers, NEW found \in Seq(FoundPackages)
  PROVE  Wrapped(cs, found) \in Seq(WrappedPackages)
<1> DEFINE T == {wrapExpectedPackage(c, p) : c \in SUBSET Containers, p \in FoundPackages}
           all == [i \in DOMAIN found |-> wrapExpectedPackage(cs, found[i])]
<1>1. DOMAIN found = 1 .. Len(found) /\ Len(found) \in Nat
  BY LenProperties
<1>2. \A i \in 1 .. Len(found) : wrapExpectedPackage(cs, found[i]) \in T
  BY ElementOfSeq
<1>3. all \in [1 .. Len(found) -> T]
  BY <1>1, <1>2
<1>4. all \in Seq(T)
  <2> HIDE DEF T, all
  <2> QED BY <1>1, <1>3, FunctionIsASeq
<1>5. Wrapped(cs, found) = Within(all, Range(all) \ {None})
  BY DEF Wrapped
<1>6. T \cap (Range(all) \ {None}) \subseteq WrappedPackages
  BY DEF WrappedPackages
<1> HIDE DEF T, all
<1>7. Wrapped(cs, found) \in Seq(T \cap (Range(all) \ {None}))
  BY <1>4, <1>5, WithinType
<1> QED BY <1>6, <1>7, SeqMonotonic

LEMMA OneIsASeq ==
  ASSUME NEW S, NEW x \in S
  PROVE  <<x>> \in Seq(S)
  OBVIOUS

LEMMA ListIsASeq ==
  ASSUME NEW S, NEW list \in Lists(S)
  PROVE  list \in Seq(S)
<1>1. PICK n \in 0 .. MaxPackages : list \in [1 .. n -> S]
  BY DEF Lists
<1>2. n \in Nat
  BY DataAssumption
<1> QED BY <1>1, <1>2, FunctionIsASeq

LEMMA AllContainersType == TypeOK /\ DataIsThere => AllContainers \subseteq Containers
  BY DEF TypeOK, DataIsThere, AllContainers

LEMMA AllPackagesType ==
  ASSUME TypeOK
  PROVE  AllPackages \in Seq(Packages)
<1> DEFINE ms == SetToSeq(Monitors)
           N == Cardinality(Monitors)
           parts == [i \in 1 .. N |-> monitoredPackages[ms[i]]]
<1>1. N \in Nat /\ ExistsBijection(1 .. N, Monitors)
  BY DataAssumption, FS_CardinalityType
<1>2. \E f \in [1 .. N -> Monitors] : IsInjective(f)
  BY <1>1 DEF ExistsBijection, Bijection, Injection
<1>3. ms \in [1 .. N -> Monitors]
  BY <1>2 DEF SetToSeq
<1>4. externalData.packages \in Seq(Packages) /\ packages \in Seq(Packages)
  <2>1. WrappedPackages \subseteq Packages /\ CorePackages \subseteq Packages
    BY DEF Packages
  <2>2. externalData.packages \in Seq(WrappedPackages) /\ packages \in Seq(CorePackages)
    BY DEF TypeOK
  <2> QED BY <2>1, <2>2, SeqMonotonic
<1>5. \A m \in Monitors : monitoredPackages[m] \in Seq(Packages)
  <2>1. WrappedPackages \subseteq Packages
    BY DEF Packages
  <2>2. \A m \in Monitors : monitoredPackages[m] \in Seq(WrappedPackages)
    BY DEF TypeOK
  <2> QED BY <2>1, <2>2, SeqMonotonic
<1>6. parts \in [1 .. N -> Seq(Packages)]
  <2> HIDE DEF N, ms
  <2> QED BY <1>3, <1>5
<1>7. parts \in Seq(Seq(Packages))
  <2> HIDE DEF N, parts
  <2> QED BY <1>1, <1>6, FunctionIsASeq
<1>8. FlattenSeq(parts) \in Seq(Packages)
  <2> HIDE DEF parts
  <2> QED BY <1>7, FlattenSeqType
<1>9. AllPackages = externalData.packages \o packages \o FlattenSeq(parts)
  BY DEF AllPackages
<1> HIDE DEF parts
<1> QED BY <1>4, <1>8, <1>9, ConcatProperties

\* The data keeps its types.
LEMMA TypesHold == Spec => []TypeOK
<1>1. Init => TypeOK
  <2> SUFFICES ASSUME Init PROVE TypeOK
    OBVIOUS
  <2>1. packages \in Seq(CorePackages)
    BY ListIsASeq DEF Init
  <2>2. <<>> \in Seq(WrappedPackages)
    BY EmptySeq
  <2>3. externalData \in [containers : SUBSET Containers, packages : Seq(WrappedPackages)]
    BY <2>2 DEF Init
  <2>4. monitoredPackages \in [Monitors -> Seq(WrappedPackages)]
    BY <2>2 DEF Init
  <2>5. DOMAIN given.containers \subseteq Containers
    BY DEF Init
  <2>6. /\ packageContainers = None \/ packageContainers \subseteq Containers
        /\ activeRundowns \in Rundowns \cup {None} /\ settings \in Settings
        /\ packageContainersCache \subseteq Containers /\ timer \in BOOLEAN
    BY DEF Init, Settings
  <2> QED BY <2>1, <2>3, <2>4, <2>5, <2>6 DEF TypeOK
<1>2. TypeOK /\ [Next]_vars => TypeOK'
  <2> SUFFICES ASSUME TypeOK, [Next]_vars PROVE TypeOK'
    OBVIOUS
  <2>1. CASE CoreChanges
    <3>1. packages' \in Seq(CorePackages)
      <4>1. CASE \E p \in CorePackages : packages' = Append(packages, p)
        BY <4>1 DEF TypeOK
      <4>2. CASE \E i \in DOMAIN packages : packages' = RemoveAt(packages, i)
        <5>1. PICK i \in DOMAIN packages : packages' = SubSeq(packages, 1, i - 1)
                                                        \o SubSeq(packages, i + 1, Len(packages))
          BY <4>2 DEF RemoveAt
        <5>2. DOMAIN packages = 1 .. Len(packages) /\ Len(packages) \in Nat
          BY LenProperties DEF TypeOK
        <5>3. \A j \in 1 .. Len(packages) : packages[j] \in CorePackages
          BY ElementOfSeq DEF TypeOK
        <5>4. i - 1 \in Int /\ i + 1 \in Int /\ i \in 1 .. Len(packages)
          BY <5>1, <5>2
        <5>5. SubSeq(packages, 1, i - 1) \in Seq(CorePackages)
          <6>1. \A j \in 1 .. i - 1 : packages[j] \in CorePackages
            BY <5>2, <5>3, <5>4
          <6> QED BY <5>4, <6>1, SubSeqProperties
        <5>6. SubSeq(packages, i + 1, Len(packages)) \in Seq(CorePackages)
          <6>1. \A j \in i + 1 .. Len(packages) : packages[j] \in CorePackages
            BY <5>2, <5>3, <5>4
          <6>2. Len(packages) \in Int
            BY <5>2
          <6> QED BY <5>4, <6>1, <6>2, SubSeqProperties
        <5> QED BY <5>1, <5>5, <5>6, ConcatProperties
      <4>3. CASE UNCHANGED packages
        BY <4>3 DEF TypeOK
      <4> QED BY <2>1, <4>1, <4>2, <4>3 DEF CoreChanges
    <3>2. /\ packageContainers' = None \/ packageContainers' \subseteq Containers
          /\ activeRundowns' \in Rundowns \cup {None}
      BY <2>1 DEF CoreChanges, TypeOK
    <3>3. timer' \in BOOLEAN
      BY <2>1 DEF CoreChanges, triggerUpdatedExpectedPackages
    <3> QED BY <2>1, <3>1, <3>2, <3>3 DEF CoreChanges, TypeOK
  <2>2. ASSUME NEW s \in Settings, onSettingsChanged(s)
        PROVE  TypeOK'
    BY <2>2 DEF onSettingsChanged, triggerUpdatedExpectedPackages, TypeOK
  <2>3. ASSUME NEW cs \in SUBSET Containers, NEW found \in Lists(FoundPackages),
               setExternalData(cs, found)
        PROVE  TypeOK'
    <3>1. Wrapped(cs, found) \in Seq(WrappedPackages)
      BY ListIsASeq, WrappedType
    <3>2. externalData' \in [containers : SUBSET Containers, packages : Seq(WrappedPackages)]
      BY <2>3, <3>1 DEF setExternalData
    <3> QED BY <2>3, <3>2 DEF setExternalData, triggerUpdatedExpectedPackages, TypeOK
  <2>4. ASSUME NEW m \in Monitors, NEW found \in Lists(FoundPackages),
               onReportMonitoredPackages(m, found)
        PROVE  TypeOK'
    <3>1. Wrapped(packageContainersCache, found) \in Seq(WrappedPackages)
      BY ListIsASeq, WrappedType DEF TypeOK
    <3>2. monitoredPackages' \in [Monitors -> Seq(WrappedPackages)]
      BY <2>4, <3>1 DEF onReportMonitoredPackages, TypeOK
    <3> QED BY <2>4, <3>2 DEF onReportMonitoredPackages, triggerUpdatedExpectedPackages, TypeOK
  <2>5. CASE UpdateExpectedPackages
    <3>1. TypeOK!1' /\ TypeOK!2' /\ TypeOK!3' /\ TypeOK!4' /\ TypeOK!5' /\ TypeOK!6' /\ TypeOK!8'
      BY <2>5 DEF UpdateExpectedPackages, data, TypeOK
    <3>2. CASE DataIsThere
      <4>1. AllContainers \subseteq Containers
        BY <3>2, AllContainersType
      <4>2. DOMAIN Generated.containers = AllContainers
        BY DEF Generated, ensureMandatoryPackageContainerExpectations
      <4> QED BY <2>5, <3>1, <3>2, <4>1, <4>2 DEF UpdateExpectedPackages, TypeOK
    <3>3. CASE ~DataIsThere
      BY <2>5, <3>1, <3>3 DEF UpdateExpectedPackages, TypeOK
    <3> QED BY <3>2, <3>3
  <2>6. CASE UNCHANGED vars
    BY <2>6 DEF vars, data, TypeOK
  <2> QED BY <2>1, <2>2, <2>3, <2>4, <2>5, <2>6 DEF Next
<1> QED BY <1>1, <1>2, PTL DEF Spec

-----------------------------------------------------------------------------
(* Expectations of packages, and their side effects *)

Fields ==
  {"id", "type", "priority", "from", "sources", "targets", "content", "sendReport", "external",
   "sideEffect", "required", "removeDelay", "dependsOn", "smartbull", "original"}
BasicTypes == {"FILE_COPY", "FILE_VERIFY", "QUANTEL_CLIP_COPY", "JSON_DATA_COPY", "RENDER_HTML"}

Ref(p) == [id |-> p.id, hash |-> p.hash]

\* An expectation that belongs to packages, known by refs, and is no side effect.
IsBasic(e, refs) ==
  /\ DOMAIN e = Fields
  /\ e.id = <<e.id[1]>>
  /\ e.type \in BasicTypes
  /\ e.priority \in Int
  /\ e.from \in Seq(refs) /\ Len(e.from) # 0
  /\ \A c, d \in e.sideEffect : c[1] = d[1] => c = d
  /\ e.dependsOn = {} /\ e.original = None

LEMMA BasicType ==
  ASSUME NEW refs, NEW p, IsPackage(p), Ref(p) \in refs,
         NEW type \in BasicTypes, NEW end, NEW addition \in Nat
  PROVE  /\ IsBasic(Basic(p, type, end, addition), refs)
         /\ Basic(p, type, end, addition).from = <<Ref(p)>>
<1> DEFINE e == Basic(p, type, end, addition)
<1>1. /\ DOMAIN e = Fields /\ e.id = <<end>> /\ e.type = type /\ e.priority = p.priority + addition
      /\ e.from = <<Ref(p)>> /\ e.sideEffect = p.sideEffect /\ e.dependsOn = {} /\ e.original = None
  BY DEF Basic, Fields, Ref
<1>2. e.id = <<e.id[1]>>
  BY <1>1
<1>3. e.from \in Seq(refs) /\ Len(e.from) # 0
  BY <1>1, OneIsASeq
<1>4. e.priority \in Int
  BY <1>1 DEF IsPackage
<1> QED BY <1>1, <1>2, <1>3, <1>4 DEF IsBasic, IsPackage

\* What is set besides does not matter for that.
LEMMA BasicWith ==
  ASSUME NEW refs, NEW e, IsBasic(e, refs),
         NEW field \in {"sources", "removeDelay", "required", "smartbull"}, NEW x
  PROVE  IsBasic([e EXCEPT ![field] = x], refs) /\ [e EXCEPT ![field] = x].from = e.from
<1> DEFINE d == [e EXCEPT ![field] = x]
<1>1. /\ DOMAIN d = Fields /\ d.id = e.id /\ d.type = e.type /\ d.priority = e.priority
      /\ d.from = e.from /\ d.sideEffect = e.sideEffect /\ d.dependsOn = e.dependsOn
      /\ d.original = e.original
  BY DEF IsBasic, Fields
<1> HIDE DEF d
<1> QED BY <1>1 DEF IsBasic

LEMMA BasicExpectationType ==
  ASSUME NEW refs, NEW p, IsPackage(p), Ref(p) \in refs
  PROVE  /\ IsBasic(BasicExpectation(p), refs) /\ BasicExpectation(p).from = <<Ref(p)>>
         /\ IsBasic([generateMediaFileCopy(p) EXCEPT !.smartbull = TRUE], refs)
         /\ [generateMediaFileCopy(p) EXCEPT !.smartbull = TRUE].from = <<Ref(p)>>
<1> DEFINE Fine(e) == IsBasic(e, refs) /\ e.from = <<Ref(p)>>
<1>0. /\ PriorityAdditions.COPY \in Nat /\ PriorityAdditions.PREVIEW \in Nat
      /\ {"FILE_COPY", "FILE_VERIFY", "QUANTEL_CLIP_COPY", "JSON_DATA_COPY", "RENDER_HTML"}
           \subseteq BasicTypes
  BY DEF PriorityAdditions, BasicTypes
<1>1. Fine(generateMediaFileCopy(p))
  <2> DEFINE e == Basic(p, "FILE_COPY", <<"FILE_ON_DISK", p.targets, p.content, p.version>>, PriorityAdditions.COPY)
  <2>1. Fine(e)
    BY <1>0, BasicType
  <2>2. generateMediaFileCopy(p) = [e EXCEPT !.removeDelay = "delayRemoval"]
    BY DEF generateMediaFileCopy
  <2> HIDE DEF e
  <2> QED BY <2>1, <2>2, BasicWith
<1>2. Fine(generateMediaFileVerify(p))
  <2> DEFINE e == Basic(p, "FILE_VERIFY", <<"FILE_ON_DISK", p.targets, p.content, p.version>>, PriorityAdditions.COPY)
  <2>1. Fine(e)
    BY <1>0, BasicType
  <2>2. generateMediaFileVerify(p) = [e EXCEPT !.sources = {}]
    BY DEF generateMediaFileVerify
  <2> HIDE DEF e
  <2> QED BY <2>1, <2>2, BasicWith
<1>3. Fine(generateQuantelCopy(p))
  BY <1>0, BasicType DEF generateQuantelCopy
<1>4. Fine(generateJsonDataCopy(p))
  <2> DEFINE e == Basic(p, "JSON_DATA_COPY", <<"JSON", p.targets, p.content, p.version>>, PriorityAdditions.COPY)
  <2>1. Fine(e)
    BY <1>0, BasicType
  <2>2. generateJsonDataCopy(p) = [e EXCEPT !.removeDelay = "delayRemoval"]
    BY DEF generateJsonDataCopy
  <2> HIDE DEF e
  <2> QED BY <2>1, <2>2, BasicWith
<1>5. Fine(generateHTMLRender(p))
  <2> DEFINE e == Basic(p, "RENDER_HTML", <<"HTML", p.targets, p.version>>, PriorityAdditions.PREVIEW)
             d == [e EXCEPT !.required = FALSE]
  <2>1. Fine(e)
    BY <1>0, BasicType
  <2>2. Fine(d)
    BY <2>1, BasicWith
  <2>3. generateHTMLRender(p) = [d EXCEPT !.removeDelay = "none"]
    BY DEF generateHTMLRender
  <2> HIDE DEF d
  <2> QED BY <2>2, <2>3, BasicWith
<1>6. Fine([generateMediaFileCopy(p) EXCEPT !.smartbull = TRUE])
  BY <1>1, BasicWith
<1>7. BasicExpectation(p) \in {generateMediaFileCopy(p), generateMediaFileVerify(p),
        generateQuantelCopy(p), generateJsonDataCopy(p), generateHTMLRender(p)}
  BY DEF BasicExpectation, IsPackage
<1> QED BY <1>1, <1>2, <1>3, <1>4, <1>5, <1>6, <1>7

\* g is what the side effect of a suffix and a type is to be for e.
IsEffect(g, e, suffix, type) ==
  /\ DOMAIN g = Fields
  /\ g.id = Append(e.id, suffix) /\ g.type = type
  /\ g.priority \in Int /\ g.priority >= e.priority
  /\ g.from = e.from /\ g.dependsOn = {e.id}

LEMMA SideEffectType ==
  ASSUME NEW e, DOMAIN e = Fields, e.priority \in Int,
         NEW suffix, NEW type, NEW addition \in Nat, NEW targets
  PROVE  /\ IsEffect(SideEffect(e, suffix, type, addition, targets), e, suffix, type)
         /\ SideEffect(e, suffix, type, addition, targets).original = None
<1> DEFINE g == SideEffect(e, suffix, type, addition, targets)
<1>1. DOMAIN g = Fields
  BY DEF SideEffect
<1>2. /\ g.id = Append(e.id, suffix) /\ g.type = type /\ g.priority = e.priority + addition
      /\ g.from = e.from /\ g.dependsOn = {e.id} /\ g.original = None
  BY DEF SideEffect, Fields
<1>3. e.priority + addition \in Int /\ e.priority + addition >= e.priority
  OBVIOUS
<1> QED BY <1>1, <1>2, <1>3 DEF IsEffect

LEMMA EffectWith ==
  ASSUME NEW g, NEW e, NEW suffix, NEW type, IsEffect(g, e, suffix, type),
         NEW field \in {"removeDelay", "required", "sideEffect", "original", "smartbull"}, NEW x
  PROVE  /\ IsEffect([g EXCEPT ![field] = x], e, suffix, type)
         /\ [g EXCEPT ![field] = x][field] = x
         /\ \A other \in Fields \ {field} : [g EXCEPT ![field] = x][other] = g[other]
<1> DEFINE d == [g EXCEPT ![field] = x]
<1>1. DOMAIN d = Fields
  BY DEF IsEffect
<1>2. /\ d.id = g.id /\ d.type = g.type /\ d.priority = g.priority /\ d.from = g.from
      /\ d.dependsOn = g.dependsOn
  BY DEF IsEffect, Fields
<1>3. d[field] = x /\ \A other \in Fields \ {field} : d[other] = g[other]
  BY DEF IsEffect, Fields
<1> QED BY <1>1, <1>2, <1>3 DEF IsEffect

LEMMA InfoType ==
  ASSUME NEW e, DOMAIN e = Fields, e.priority \in Int,
         NEW suffix, NEW type, NEW addition \in Nat
  PROVE  IsEffect(InfoOf(e, suffix, type, addition), e, suffix, type)
<1> DEFINE g == SideEffect(e, suffix, type, addition, {CorePackageInfo})
<1>1. IsEffect(g, e, suffix, type)
  BY SideEffectType
<1>2. InfoOf(e, suffix, type, addition) = [g EXCEPT !.removeDelay = "delayRemovalPackageInfo"]
  BY DEF InfoOf
<1> HIDE DEF g
<1> QED BY <1>1, <1>2, EffectWith

LEMMA FileType ==
  ASSUME NEW e, DOMAIN e = Fields, e.priority \in Int,
         NEW suffix, NEW type, NEW addition \in Nat, NEW container
  PROVE  IsEffect(FileIn(e, suffix, type, addition, container), e, suffix, type)
<1> DEFINE g == SideEffect(e, suffix, type, addition, {container})
<1>1. IsEffect(g, e, suffix, type)
  BY SideEffectType
<1>2. FileIn(e, suffix, type, addition, container) = [g EXCEPT !.removeDelay = "none"]
  BY DEF FileIn
<1> HIDE DEF g
<1> QED BY <1>1, <1>2, EffectWith

\* The side effects there are
LEMMA EffectTypes ==
  ASSUME NEW e, DOMAIN e = Fields, e.priority \in Int
  PROVE  /\ IsEffect(generatePackageScan(e), e, "_scan", "PACKAGE_SCAN")
         /\ IsEffect(generatePackageDeepScan(e), e, "_deepscan", "PACKAGE_DEEP_SCAN")
         /\ IsEffect(generatePackageLoudness(e), e, "_loudness", "PACKAGE_LOUDNESS_SCAN")
         /\ IsEffect(generatePackageIframes(e), e, "_iframes", "PACKAGE_IFRAMES_SCAN")
         /\ \A c :
              /\ IsEffect(generateMediaFileThumbnail(e, c), e, "_thumbnail", "MEDIA_FILE_THUMBNAIL")
              /\ IsEffect(generateMediaFilePreview(e, c), e, "_preview", "MEDIA_FILE_PREVIEW")
              /\ IsEffect(generateQuantelClipThumbnail(e, c), e, "_thumbnail", "QUANTEL_CLIP_THUMBNAIL")
              /\ IsEffect(generateQuantelClipPreview(e, c), e, "_preview", "QUANTEL_CLIP_PREVIEW")
<1>0. /\ PriorityAdditions.SCAN \in Nat /\ PriorityAdditions.LOUDNESS_SCAN \in Nat
      /\ PriorityAdditions.IFRAMES_SCAN \in Nat /\ PriorityAdditions.THUMBNAIL \in Nat
      /\ PriorityAdditions.PREVIEW \in Nat /\ PriorityAdditions.DEEP_SCAN \in Nat
  BY DEF PriorityAdditions
<1>1. IsEffect(generatePackageScan(e), e, "_scan", "PACKAGE_SCAN")
  <2> DEFINE addition == IF e.smartbull THEN 1 ELSE PriorityAdditions.SCAN
             g == InfoOf(e, "_scan", "PACKAGE_SCAN", addition)
  <2>1. addition \in Nat
    BY <1>0
  <2>2. IsEffect(g, e, "_scan", "PACKAGE_SCAN")
    <3> HIDE DEF addition
    <3> QED BY <2>1, InfoType
  <2>3. generatePackageScan(e) = [g EXCEPT !.required = e.smartbull]
    BY DEF generatePackageScan
  <2> HIDE DEF g
  <2> QED BY <2>2, <2>3, EffectWith
<1>2. IsEffect(generatePackageDeepScan(e), e, "_deepscan", "PACKAGE_DEEP_SCAN")
  BY <1>0, InfoType DEF generatePackageDeepScan
<1>3. IsEffect(generatePackageLoudness(e), e, "_loudness", "PACKAGE_LOUDNESS_SCAN")
  BY <1>0, InfoType DEF generatePackageLoudness
<1>4. IsEffect(generatePackageIframes(e), e, "_iframes", "PACKAGE_IFRAMES_SCAN")
  BY <1>0, InfoType DEF generatePackageIframes
<1>5. ASSUME NEW c
      PROVE  /\ IsEffect(generateMediaFileThumbnail(e, c), e, "_thumbnail", "MEDIA_FILE_THUMBNAIL")
             /\ IsEffect(generateMediaFilePreview(e, c), e, "_preview", "MEDIA_FILE_PREVIEW")
             /\ IsEffect(generateQuantelClipThumbnail(e, c), e, "_thumbnail", "QUANTEL_CLIP_THUMBNAIL")
             /\ IsEffect(generateQuantelClipPreview(e, c), e, "_preview", "QUANTEL_CLIP_PREVIEW")
  BY <1>0, FileType
  DEF generateMediaFileThumbnail, generateMediaFilePreview, generateQuantelClipThumbnail,
      generateQuantelClipPreview
<1> QED BY <1>1, <1>2, <1>3, <1>4, <1>5

\* The copy in the temporary storage
LEMMA ProxyType ==
  ASSUME NEW e, DOMAIN e = Fields, e.priority \in Int
  PROVE  /\ IsEffect(generatePackageCopyFileProxy(e), e, "_proxy", "FILE_COPY_PROXY")
         /\ generatePackageCopyFileProxy(e).sideEffect = e.sideEffect
         /\ generatePackageCopyFileProxy(e).original = e
<1> DEFINE addition == IF e.smartbull THEN 1 ELSE PriorityAdditions.COPY_PROXY
           g == SideEffect(e, "_proxy", "FILE_COPY_PROXY", addition, {TemporaryStorage})
           h == [g EXCEPT !.required = e.smartbull, !.removeDelay = "delayRemovalPackageInfo"]
           k == [h EXCEPT !.sideEffect = e.sideEffect, !.original = e]
<1>1. addition \in Nat
  BY DEF PriorityAdditions
<1>2. IsEffect(g, e, "_proxy", "FILE_COPY_PROXY")
  <2> HIDE DEF addition
  <2> QED BY <1>1, SideEffectType
<1>3. generatePackageCopyFileProxy(e) = [k EXCEPT !.smartbull = FALSE]
  BY DEF generatePackageCopyFileProxy
<1>4. {"sideEffect", "original", "smartbull"} \subseteq Fields
  BY DEF Fields
<1>5. IsEffect(h, e, "_proxy", "FILE_COPY_PROXY")
  <2> DEFINE l == [g EXCEPT !.required = e.smartbull]
  <2> HIDE DEF g
  <2>1. IsEffect(l, e, "_proxy", "FILE_COPY_PROXY")
    BY <1>2, EffectWith
  <2>2. h = [l EXCEPT !.removeDelay = "delayRemovalPackageInfo"]
    OBVIOUS
  <2> HIDE DEF l
  <2> QED BY <2>1, <2>2, EffectWith
<1>6. /\ IsEffect(k, e, "_proxy", "FILE_COPY_PROXY") /\ k.sideEffect = e.sideEffect
      /\ k.original = e
  <2> DEFINE l == [h EXCEPT !.sideEffect = e.sideEffect]
  <2> HIDE DEF h
  <2>1. IsEffect(l, e, "_proxy", "FILE_COPY_PROXY") /\ l.sideEffect = e.sideEffect
    BY <1>5, EffectWith
  <2>2. k = [l EXCEPT !.original = e]
    OBVIOUS
  <2> HIDE DEF l
  <2> QED BY <1>4, <2>1, <2>2, EffectWith
<1> HIDE DEF k
<1> QED BY <1>3, <1>4, <1>6, EffectWith

SuffixOf ==
  [PACKAGE_SCAN |-> "_scan", PACKAGE_DEEP_SCAN |-> "_deepscan",
   PACKAGE_LOUDNESS_SCAN |-> "_loudness", PACKAGE_IFRAMES_SCAN |-> "_iframes",
   MEDIA_FILE_THUMBNAIL |-> "_thumbnail", MEDIA_FILE_PREVIEW |-> "_preview",
   QUANTEL_CLIP_THUMBNAIL |-> "_thumbnail", QUANTEL_CLIP_PREVIEW |-> "_preview"]
InfoTypes == {"PACKAGE_SCAN", "PACKAGE_DEEP_SCAN", "PACKAGE_LOUDNESS_SCAN", "PACKAGE_IFRAMES_SCAN"}
TypesOfEffects(e) ==
  InfoTypes \cup IF e.type = "QUANTEL_CLIP_COPY" THEN {"QUANTEL_CLIP_THUMBNAIL", "QUANTEL_CLIP_PREVIEW"}
                 ELSE {"MEDIA_FILE_THUMBNAIL", "MEDIA_FILE_PREVIEW"}

\* What is scanned for e
Scanned(e) == IF e.original # None /\ e.original.type = "QUANTEL_CLIP_COPY" THEN e.original ELSE e

\* e has priorities and wants each side effect once, and so does what is scanned for it.
MayHaveEffects(e) ==
  /\ DOMAIN e = Fields /\ e.priority \in Int
  /\ DOMAIN Scanned(e) = Fields /\ Scanned(e).priority \in Int
  /\ \A c, d \in e.sideEffect : c[1] = d[1] => c = d
  /\ e.type = "QUANTEL_CLIP_COPY" => e.original = None

\* The side effect of a type that e may have: at most one.
EffectOfType(e, type, containers) ==
  CASE type = "PACKAGE_SCAN" -> {generatePackageScan(Scanned(e))}
    [] type = "PACKAGE_DEEP_SCAN" -> {generatePackageDeepScan(e)}
    [] type = "PACKAGE_LOUDNESS_SCAN" -> {generatePackageLoudness(e)}
    [] type = "PACKAGE_IFRAMES_SCAN" -> {generatePackageIframes(e)}
    [] type = "MEDIA_FILE_THUMBNAIL" ->
         {generateMediaFileThumbnail(e, c) : c \in ContainerFor(e, "thumbnail", containers)}
    [] type = "MEDIA_FILE_PREVIEW" ->
         {generateMediaFilePreview(e, c) : c \in ContainerFor(e, "preview", containers)}
    [] type = "QUANTEL_CLIP_THUMBNAIL" ->
         {generateQuantelClipThumbnail(e, c) : c \in ContainerFor(e, "thumbnail", containers)}
    [] type = "QUANTEL_CLIP_PREVIEW" ->
         {generateQuantelClipPreview(e, c) : c \in ContainerFor(e, "preview", containers)}

LEMMA EffectsAreOfTypes ==
  ASSUME NEW e, MayHaveEffects(e), NEW containers, NEW set,
         NEW g \in getSideEffectOfExpectation(containers, set, e)
  PROVE  \E type \in TypesOfEffects(e) : g \in EffectOfType(e, type, containers)
<1> DEFINE Of(type) == g \in EffectOfType(e, type, containers)
<1>1. CASE e.type \in {"FILE_COPY", "FILE_VERIFY", "FILE_COPY_PROXY"}
  <2>1. g \in Scans(e, Scanned(e), set)
               \cup {generateMediaFileThumbnail(e, c) : c \in ContainerFor(e, "thumbnail", containers)}
               \cup {generateMediaFilePreview(e, c) : c \in ContainerFor(e, "preview", containers)}
               \cup (IF Wants(e, "loudness") THEN {generatePackageLoudness(e)} ELSE {})
               \cup (IF Wants(e, "iframes") THEN {generatePackageIframes(e)} ELSE {})
    BY <1>1 DEF getSideEffectOfExpectation, Scanned
  <2>2. \/ g = generatePackageScan(Scanned(e)) \/ g = generatePackageDeepScan(e)
        \/ g \in {generateMediaFileThumbnail(e, c) : c \in ContainerFor(e, "thumbnail", containers)}
        \/ g \in {generateMediaFilePreview(e, c) : c \in ContainerFor(e, "preview", containers)}
        \/ g = generatePackageLoudness(e) \/ g = generatePackageIframes(e)
    BY <2>1 DEF Scans
  <2>3. \/ Of("PACKAGE_SCAN") \/ Of("PACKAGE_DEEP_SCAN") \/ Of("PACKAGE_LOUDNESS_SCAN")
        \/ Of("PACKAGE_IFRAMES_SCAN") \/ Of("MEDIA_FILE_THUMBNAIL") \/ Of("MEDIA_FILE_PREVIEW")
    BY <2>2 DEF EffectOfType
  <2> QED BY <1>1, <2>3 DEF TypesOfEffects, InfoTypes
<1>2. CASE e.type = "QUANTEL_CLIP_COPY"
  <2>1. g \in Scans(e, e, set)
               \cup {generateQuantelClipThumbnail(e, c) : c \in ContainerFor(e, "thumbnail", containers)}
               \cup {generateQuantelClipPreview(e, c) : c \in ContainerFor(e, "preview", containers)}
               \cup (IF Wants(e, "loudness") THEN {generatePackageLoudness(e)} ELSE {})
    BY <1>2 DEF getSideEffectOfExpectation
  <2>2. Scanned(e) = e
    BY <1>2 DEF Scanned, MayHaveEffects
  <2>3. \/ g = generatePackageScan(Scanned(e)) \/ g = generatePackageDeepScan(e)
        \/ g \in {generateQuantelClipThumbnail(e, c) : c \in ContainerFor(e, "thumbnail", containers)}
        \/ g \in {generateQuantelClipPreview(e, c) : c \in ContainerFor(e, "preview", containers)}
        \/ g = generatePackageLoudness(e)
    BY <2>1, <2>2 DEF Scans
  <2>4. \/ Of("PACKAGE_SCAN") \/ Of("PACKAGE_DEEP_SCAN") \/ Of("PACKAGE_LOUDNESS_SCAN")
        \/ Of("QUANTEL_CLIP_THUMBNAIL") \/ Of("QUANTEL_CLIP_PREVIEW")
    BY <2>3 DEF EffectOfType
  <2> QED BY <1>2, <2>4 DEF TypesOfEffects, InfoTypes
<1>3. CASE e.type \notin {"FILE_COPY", "FILE_VERIFY", "FILE_COPY_PROXY", "QUANTEL_CLIP_COPY"}
  BY <1>3 DEF getSideEffectOfExpectation
<1> QED BY <1>1, <1>2, <1>3

LEMMA EffectOfTypeIsOne ==
  ASSUME NEW e, MayHaveEffects(e), NEW containers, NEW type \in TypesOfEffects(e),
         NEW g \in EffectOfType(e, type, containers)
  PROVE  /\ IsEffect(g, IF type = "PACKAGE_SCAN" THEN Scanned(e) ELSE e, SuffixOf[type], type)
         /\ \A h \in EffectOfType(e, type, containers) : h = g
<1>1. ASSUME NEW c, NEW d, NEW effect,
             c \in ContainerFor(e, effect, containers), d \in ContainerFor(e, effect, containers)
      PROVE  c = d
  <2>1. <<effect, c>> = <<effect, d>>
    BY <1>1 DEF ContainerFor, MayHaveEffects
  <2> QED BY <2>1
<1>2. /\ DOMAIN e = Fields /\ e.priority \in Int
      /\ DOMAIN Scanned(e) = Fields /\ Scanned(e).priority \in Int
  BY DEF MayHaveEffects
<1>3. CASE type = "PACKAGE_SCAN"
  BY <1>2, <1>3, EffectTypes DEF EffectOfType, SuffixOf
<1>4. CASE type = "PACKAGE_DEEP_SCAN"
  BY <1>2, <1>4, EffectTypes DEF EffectOfType, SuffixOf
<1>5. CASE type = "PACKAGE_LOUDNESS_SCAN"
  BY <1>2, <1>5, EffectTypes DEF EffectOfType, SuffixOf
<1>6. CASE type = "PACKAGE_IFRAMES_SCAN"
  BY <1>2, <1>6, EffectTypes DEF EffectOfType, SuffixOf
<1>7. CASE type = "MEDIA_FILE_THUMBNAIL"
  BY <1>1, <1>2, <1>7, EffectTypes DEF EffectOfType, SuffixOf
<1>8. CASE type = "MEDIA_FILE_PREVIEW"
  BY <1>1, <1>2, <1>8, EffectTypes DEF EffectOfType, SuffixOf
<1>9. CASE type = "QUANTEL_CLIP_THUMBNAIL"
  BY <1>1, <1>2, <1>9, EffectTypes DEF EffectOfType, SuffixOf
<1>10. CASE type = "QUANTEL_CLIP_PREVIEW"
  BY <1>1, <1>2, <1>10, EffectTypes DEF EffectOfType, SuffixOf
<1> QED
  BY <1>3, <1>4, <1>5, <1>6, <1>7, <1>8, <1>9, <1>10 DEF TypesOfEffects, InfoTypes

\* The side effects of an expectation: of each type and each suffix at most one.
LEMMA EffectsAreOnce ==
  ASSUME NEW e, MayHaveEffects(e), NEW containers, NEW set,
         NEW g \in getSideEffectOfExpectation(containers, set, e)
  PROVE  /\ g.type \in TypesOfEffects(e)
         /\ IsEffect(g, IF g.type = "PACKAGE_SCAN" THEN Scanned(e) ELSE e, SuffixOf[g.type], g.type)
         /\ \A h \in getSideEffectOfExpectation(containers, set, e) : h.type = g.type => h = g
<1> DEFINE OfType(f) == /\ f.type \in TypesOfEffects(e)
                        /\ f \in EffectOfType(e, f.type, containers)
<1>1. ASSUME NEW f \in getSideEffectOfExpectation(containers, set, e)
      PROVE  OfType(f)
  <2>1. PICK type \in TypesOfEffects(e) : f \in EffectOfType(e, type, containers)
    BY EffectsAreOfTypes
  <2>2. f.type = type
    BY <2>1, EffectOfTypeIsOne DEF IsEffect
  <2> QED BY <2>1, <2>2
<1> QED BY <1>1, EffectOfTypeIsOne

\* What is generated because of one of the grouped expectations
Derived(e, containers, set) ==
  LET effectsOf(f) == getSideEffectOfExpectation(containers, set, f)
      proxy == generatePackageCopyFileProxy(e)
  IN  IF TemporaryStorage \notin containers THEN effectsOf(e)
      ELSE IF e.type \in {"FILE_COPY", "FILE_VERIFY", "QUANTEL_CLIP_COPY"} /\ effectsOf(proxy) # {}
        THEN {proxy} \cup effectsOf(proxy)
        ELSE {}

LEMMA InjectedAreDerived ==
  ASSUME NEW containers, NEW set, NEW es
  PROVE  injectSideEffectExpectations(containers, set, es)
           = Range(es) \cup UNION {Derived(e, containers, set) : e \in groupExpectations(es)}
<1> DEFINE G == groupExpectations(es)
           effectsOf(f) == getSideEffectOfExpectation(containers, set, f)
           Copied == {e \in G : e.type \in {"FILE_COPY", "FILE_VERIFY", "QUANTEL_CLIP_COPY"}}
           proxies == {generatePackageCopyFileProxy(e) : e \in Copied}
           used == {p \in proxies : effectsOf(p) # {}}
<1>1. CASE TemporaryStorage \notin containers
  <2>1. injectSideEffectExpectations(containers, set, es) = Range(es) \cup UNION {effectsOf(e) : e \in G}
    BY <1>1 DEF injectSideEffectExpectations
  <2>2. \A e \in G : Derived(e, containers, set) = effectsOf(e)
    BY <1>1 DEF Derived
  <2> HIDE DEF G, effectsOf
  <2>3. UNION {effectsOf(e) : e \in G} = UNION {Derived(e, containers, set) : e \in G}
    BY <2>2
  <2> QED BY <2>1, <2>3 DEF G
<1>2. CASE TemporaryStorage \in containers
  <2>1. injectSideEffectExpectations(containers, set, es)
          = Range(es) \cup UNION {{p} \cup effectsOf(p) : p \in used}
    BY <1>2 DEF injectSideEffectExpectations
  <2>2. ASSUME NEW e \in G
        PROVE  Derived(e, containers, set) =
                 IF e \in Copied /\ effectsOf(generatePackageCopyFileProxy(e)) # {}
                   THEN {generatePackageCopyFileProxy(e)} \cup effectsOf(generatePackageCopyFileProxy(e))
                   ELSE {}
    BY <1>2 DEF Derived
  <2> HIDE DEF G, effectsOf
  <2>3. UNION {{p} \cup effectsOf(p) : p \in used} = UNION {Derived(e, containers, set) : e \in G}
    <3>1. ASSUME NEW e \in G, NEW g \in Derived(e, containers, set)
          PROVE  \E p \in used : g \in {p} \cup effectsOf(p)
      BY <2>2, <3>1
    <3>2. ASSUME NEW p \in used, NEW g \in {p} \cup effectsOf(p)
          PROVE  \E e \in G : g \in Derived(e, containers, set)
      BY <2>2, <3>2
    <3> HIDE DEF used
    <3> QED BY <3>1, <3>2
  <2> QED BY <2>1, <2>3 DEF G
<1> QED BY <1>1, <1>2

LEMMA AppendedIds ==
  ASSUME NEW x, NEW y, NEW z
  PROVE  /\ Append(<<x>>, y) = <<x, y>>
         /\ Append(<<x, y>>, z) = <<x, y, z>>
<1> DEFINE S == {x, y, z}
<1>1. /\ <<x>> \in Seq(S) /\ <<x, y>> \in Seq(S) /\ <<x, y, z>> \in Seq(S)
      /\ x \in S /\ y \in S /\ z \in S
  OBVIOUS
<1> HIDE DEF S
<1>2. Append(<<x>>, y) = <<x, y>>
  <2>1. Append(<<x>>, y) \in Seq(S) /\ Len(Append(<<x>>, y)) = 2
    BY <1>1
  <2>2. \A i \in 1 .. 2 : Append(<<x>>, y)[i] = <<x, y>>[i]
    BY <1>1
  <2>3. Len(<<x, y>>) = 2
    OBVIOUS
  <2> QED BY <1>1, <2>1, <2>2, <2>3, SeqEqual
<1>3. Append(<<x, y>>, z) = <<x, y, z>>
  <2>1. Append(<<x, y>>, z) \in Seq(S) /\ Len(Append(<<x, y>>, z)) = 3
    BY <1>1
  <2>2. \A i \in 1 .. 3 : Append(<<x, y>>, z)[i] = <<x, y, z>>[i]
    BY <1>1
  <2>3. Len(<<x, y, z>>) = 3
    OBVIOUS
  <2> QED BY <1>1, <2>1, <2>2, <2>3, SeqEqual
<1> QED BY <1>2, <1>3

\* What is generated because of e belongs to the same packages, depends on e or on its copy
\* and comes later; its id begins with that of e, and is not used twice, nor is a type.
LEMMA DerivedType ==
  ASSUME NEW refs, NEW e, IsBasic(e, refs), NEW containers, NEW set,
         NEW g \in Derived(e, containers, set)
  PROVE  /\ g.id[1] = e.id[1] /\ g.id # <<g.id[1]>>
         /\ g.from = e.from /\ g.type \notin BasicTypes /\ g.dependsOn # {}
         /\ \E f \in {e} \cup Derived(e, containers, set) :
              g.dependsOn = {f.id} /\ f.priority <= g.priority
         /\ \A h \in Derived(e, containers, set) : h.id = g.id \/ h.type = g.type => h = g
<1> DEFINE x == e.id[1]
           effectsOf(f) == getSideEffectOfExpectation(containers, set, f)
<1>1. e.id = <<x>> /\ DOMAIN e = Fields /\ e.priority \in Int /\ e.original = None
  BY DEF IsBasic
<1>2. CASE TemporaryStorage \notin containers
  <2>1. Derived(e, containers, set) = effectsOf(e)
    BY <1>2 DEF Derived
  <2>2. MayHaveEffects(e) /\ Scanned(e) = e
    BY <1>1 DEF MayHaveEffects, Scanned, IsBasic
  <2>3. ASSUME NEW f \in effectsOf(e)
        PROVE  /\ f.type \in TypesOfEffects(e) /\ f.id = <<x, SuffixOf[f.type]>> /\ f.from = e.from
               /\ f.dependsOn = {e.id} /\ e.priority <= f.priority
               /\ \A h \in effectsOf(e) : h.type = f.type => h = f
    <3>1. f.type \in TypesOfEffects(e) /\ IsEffect(f, e, SuffixOf[f.type], f.type)
      BY <2>2, <2>3, EffectsAreOnce
    <3>2. \A h \in effectsOf(e) : h.type = f.type => h = f
      BY <2>2, <2>3, EffectsAreOnce
    <3>3. Append(<<x>>, SuffixOf[f.type]) = <<x, SuffixOf[f.type]>>
      BY AppendedIds
    <3> HIDE DEF effectsOf
    <3>4. f.id = <<x, SuffixOf[f.type]>>
      BY <1>1, <3>1, <3>3 DEF IsEffect
    <3> QED BY <1>1, <3>1, <3>2, <3>4 DEF IsEffect
  <2>4. \A s, t \in TypesOfEffects(e) : SuffixOf[s] = SuffixOf[t] => s = t
    BY DEF TypesOfEffects, InfoTypes, SuffixOf
  <2>5. \A t \in TypesOfEffects(e) : t \notin BasicTypes
    BY DEF TypesOfEffects, InfoTypes, BasicTypes
  <2> HIDE DEF effectsOf, x
  <2>6. \A h \in effectsOf(e) : h.id = g.id => h = g
    <3> SUFFICES ASSUME NEW h \in effectsOf(e), h.id = g.id PROVE h = g
      OBVIOUS
    <3>1. <<x, SuffixOf[h.type]>> = <<x, SuffixOf[g.type]>>
      BY <2>1, <2>3
    <3>2. SuffixOf[h.type] = SuffixOf[g.type]
      BY <3>1
    <3> QED BY <2>1, <2>3, <2>4, <3>2
  <2>7. g.id = <<x, SuffixOf[g.type]>>
    BY <2>1, <2>3
  <2>8. g.id[1] = x /\ g.id # <<g.id[1]>>
    BY <2>7
  <2> QED BY <2>1, <2>3, <2>5, <2>6, <2>8 DEF x
<1>3. CASE TemporaryStorage \in containers
  <2> DEFINE p == generatePackageCopyFileProxy(e)
  <2>1. Derived(e, containers, set) = {p} \cup effectsOf(p)
    BY <1>3 DEF Derived
  <2>2. /\ IsEffect(p, e, "_proxy", "FILE_COPY_PROXY")
        /\ p.sideEffect = e.sideEffect /\ p.original = e
    BY <1>1, ProxyType
  <2> HIDE DEF p
  <2>3. /\ p.id = <<x, "_proxy">> /\ p.type = "FILE_COPY_PROXY" /\ p.from = e.from
        /\ p.dependsOn = {e.id} /\ DOMAIN p = Fields /\ p.priority \in Int /\ e.priority <= p.priority
    BY <1>1, <2>2, AppendedIds DEF IsEffect
  <2>4. MayHaveEffects(p) /\ Scanned(p) \in {e, p}
    BY <1>1, <2>2, <2>3 DEF MayHaveEffects, Scanned, IsBasic
  <2>5. ASSUME NEW f \in effectsOf(p)
        PROVE  /\ f.type \in TypesOfEffects(p) /\ f.from = e.from
               /\ f.type # "PACKAGE_SCAN" => f.id = <<x, "_proxy", SuffixOf[f.type]>>
               /\ f.type = "PACKAGE_SCAN" => f.id \in {<<x, "_scan">>, <<x, "_proxy", "_scan">>}
               /\ \E d \in {e, p} : f.dependsOn = {d.id} /\ d.priority <= f.priority
               /\ \A h \in effectsOf(p) : h.type = f.type => h = f
    <3> DEFINE of == IF f.type = "PACKAGE_SCAN" THEN Scanned(p) ELSE p
    <3>1. f.type \in TypesOfEffects(p) /\ IsEffect(f, of, SuffixOf[f.type], f.type)
      BY <2>4, <2>5, EffectsAreOnce
    <3>2. \A h \in effectsOf(p) : h.type = f.type => h = f
      BY <2>4, <2>5, EffectsAreOnce
    <3>3. of \in {e, p} /\ (f.type # "PACKAGE_SCAN" => of = p)
      BY <2>4
    <3>4. SuffixOf["PACKAGE_SCAN"] = "_scan"
      BY DEF SuffixOf
    <3>5. f.id = Append(of.id, SuffixOf[f.type]) /\ f.from = of.from /\ f.dependsOn = {of.id}
          /\ of.priority <= f.priority
      <4> HIDE DEF of
      <4>1. of.priority \in Int
        BY <1>1, <2>3, <3>3
      <4> QED BY <3>1, <4>1 DEF IsEffect
    <3> HIDE DEF effectsOf, of
    <3>6. /\ Append(<<x>>, SuffixOf[f.type]) = <<x, SuffixOf[f.type]>>
          /\ Append(<<x, "_proxy">>, SuffixOf[f.type]) = <<x, "_proxy", SuffixOf[f.type]>>
      BY AppendedIds
    <3>7. CASE of = p
      <4>1. f.id = <<x, "_proxy", SuffixOf[f.type]>>
        BY <2>3, <3>5, <3>7, <3>6
      <4> QED BY <2>3, <3>1, <3>2, <3>4, <3>5, <3>7, <4>1
    <3>8. CASE of = e
      <4>1. f.id = <<x, SuffixOf[f.type]>>
        BY <1>1, <3>5, <3>8, <3>6
      <4>2. f.type # "PACKAGE_SCAN" => f.id = <<x, "_proxy", SuffixOf[f.type]>>
        BY <2>3, <3>3, <3>5, <3>6
      <4> QED BY <3>1, <3>2, <3>4, <3>5, <3>8, <4>1, <4>2
    <3> QED BY <3>3, <3>7, <3>8
  <2>6. \A s, t \in TypesOfEffects(p) : SuffixOf[s] = SuffixOf[t] => s = t
    BY DEF TypesOfEffects, InfoTypes, SuffixOf
  <2>7. \A t \in TypesOfEffects(p) :
          /\ t \notin BasicTypes /\ t # "FILE_COPY_PROXY"
          /\ t # "PACKAGE_SCAN" => SuffixOf[t] # "_scan"
    BY DEF TypesOfEffects, InfoTypes, BasicTypes, SuffixOf
  <2> HIDE DEF effectsOf, x
  <2>8. ASSUME NEW f \in effectsOf(p), NEW h \in effectsOf(p), f.id = h.id
        PROVE  f = h
    <3>1. CASE f.type # "PACKAGE_SCAN" /\ h.type # "PACKAGE_SCAN"
      <4>1. <<x, "_proxy", SuffixOf[f.type]>> = <<x, "_proxy", SuffixOf[h.type]>>
        BY <2>5, <2>8, <3>1
      <4>2. SuffixOf[f.type] = SuffixOf[h.type]
        BY <4>1
      <4> QED BY <2>5, <2>6, <4>2
    <3>2. ASSUME NEW a \in effectsOf(p), NEW b \in effectsOf(p), a.id = b.id,
                 a.type = "PACKAGE_SCAN", b.type # "PACKAGE_SCAN"
          PROVE  FALSE
      <4>1. b.id = <<x, "_proxy", SuffixOf[b.type]>> /\ SuffixOf[b.type] # "_scan"
        BY <2>5, <2>7, <3>2
      <4>2. b.id = <<x, "_scan">> \/ b.id = <<x, "_proxy", "_scan">>
        BY <2>5, <3>2
      <4> QED BY <4>1, <4>2
    <3>3. CASE f.type = "PACKAGE_SCAN" /\ h.type = "PACKAGE_SCAN"
      BY <2>5, <3>3
    <3> QED BY <2>8, <3>1, <3>2, <3>3
  <2>9. ASSUME NEW f \in effectsOf(p)
        PROVE  f.id # p.id /\ f.type # p.type /\ f.id[1] = x /\ f.id # <<f.id[1]>>
    <3>1. f.type # p.type
      BY <2>3, <2>5, <2>7
    <3>2. f.id = <<x, "_scan">> \/ \E s : f.id = <<x, "_proxy", s>>
      BY <2>5
    <3> QED BY <2>3, <3>1, <3>2
  <2>10. p.id[1] = x /\ p.id # <<p.id[1]>> /\ p.type \notin BasicTypes
    BY <2>3 DEF BasicTypes
  <2>11. \A f, h \in Derived(e, containers, set) : f.id = h.id \/ f.type = h.type => f = h
    BY <2>1, <2>5, <2>8, <2>9
  <2>12. CASE g = p
    BY <2>1, <2>3, <2>10, <2>11, <2>12 DEF x
  <2>13. CASE g \in effectsOf(p)
    <3>1. \E f \in {e} \cup Derived(e, containers, set) :
            g.dependsOn = {f.id} /\ f.priority <= g.priority
      BY <2>1, <2>5, <2>13
    <3>2. g.dependsOn # {}
      BY <3>1
    <3> QED BY <2>5, <2>7, <2>9, <2>11, <2>13, <3>1, <3>2 DEF x
  <2> QED BY <2>1, <2>12, <2>13
<1> QED BY <1>2, <1>3

-----------------------------------------------------------------------------
(* The expectations are added, one candidate after the other *)

IsCandidate(c, refs) ==
  /\ IsBasic(c.exp, refs)
  /\ c.exp.from = <<Ref(c.package)>>

IsRanks(ranks) == \A id \in DOMAIN ranks : ranks[id] \in Int

LEMMA PriorityType ==
  ASSUME NEW ranks, IsRanks(ranks), NEW refs, NEW c, IsCandidate(c, refs)
  PROVE  getPriority(ranks, c.package, c.exp) \in Int
<1>1. c.exp.priority \in Int
  BY DEF IsCandidate, IsBasic
<1>2. CASE c.package.rundown \in DOMAIN ranks
  BY <1>1, <1>2 DEF getPriority, IsRanks, PLAY_NOW
<1>3. CASE c.package.rundown \notin DOMAIN ranks
  BY <1>1, <1>3 DEF getPriority, OTHER_RUNDOWN
<1> QED BY <1>2, <1>3

\* What has been added: one expectation for each id.
IsCollection(es, refs) ==
  /\ es \in Seq(Range(es))
  /\ \A i \in DOMAIN es : IsBasic(es[i], refs)
  /\ \A i, j \in DOMAIN es : es[i].id = es[j].id => i = j

\* There is an expectation for the package of c, or for another in the same place.
IsExpected(es, ranks, c) ==
  \E i \in DOMAIN es :
    /\ es[i].id = c.exp.id
    /\ es[i].priority <= getPriority(ranks, c.package, c.exp)
    /\ \/ c.exp.from[1] \in Range(es[i].from)
       \/ es[i].from[1].hash # c.package.hash

LEMMA SeqOfItsElements ==
  ASSUME NEW S, NEW s \in Seq(S)
  PROVE  s \in Seq(Range(s)) /\ DOMAIN s = 1 .. Len(s) /\ Len(s) \in Nat
<1>1. DOMAIN s = 1 .. Len(s) /\ Len(s) \in Nat /\ s \in [1 .. Len(s) -> S]
  BY LenProperties
<1> DEFINE R == Range(s)
<1>2. s \in [1 .. Len(s) -> R]
  BY <1>1 DEF Range
<1> HIDE DEF R
<1>3. s \in Seq(R)
  BY <1>1, <1>2, FunctionIsASeq
<1> QED BY <1>1, <1>3 DEF R

LEMMA AppendedSeq ==
  ASSUME NEW S, NEW s \in Seq(S), NEW x
  PROVE  /\ Append(s, x) \in Seq(Range(Append(s, x)))
         /\ DOMAIN Append(s, x) = 1 .. Len(s) + 1
         /\ \A i \in 1 .. Len(s) : Append(s, x)[i] = s[i]
         /\ Append(s, x)[Len(s) + 1] = x
<1> DEFINE T == S \cup {x}
<1>1. x \in T /\ s \in Seq(T)
  BY SeqMonotonic
<1> HIDE DEF T
<1>2. /\ Append(s, x) \in Seq(T) /\ Len(Append(s, x)) = Len(s) + 1
      /\ Append(s, x)[Len(s) + 1] = x
      /\ \A i \in 1 .. Len(s) : Append(s, x)[i] = s[i]
  BY <1>1
<1> DEFINE t == Append(s, x)
<1> HIDE DEF t
<1>3. t \in Seq(T)
  BY <1>2 DEF t
<1>4. t \in Seq(Range(t)) /\ DOMAIN t = 1 .. Len(t)
  BY <1>3, SeqOfItsElements
<1> QED BY <1>2, <1>4 DEF t

\* A package for which there is no expectation yet
LEMMA AddNew ==
  ASSUME NEW refs, NEW es, IsCollection(es, refs), NEW ranks, IsRanks(ranks),
         NEW c, IsCandidate(c, refs), \A i \in DOMAIN es : es[i].id # c.exp.id
  PROVE  LET es2 == addExpectation(ranks, es, c.package, c.exp)
         IN  /\ IsCollection(es2, refs) /\ IsExpected(es2, ranks, c)
             /\ \A d : IsExpected(es, ranks, d) => IsExpected(es2, ranks, d)
<1> DEFINE priority == getPriority(ranks, c.package, c.exp)
           x == [c.exp EXCEPT !.priority = priority]
           es2 == Append(es, x)
<1>1. addExpectation(ranks, es, c.package, c.exp) = es2
  BY DEF addExpectation
<1>2. priority \in Int
  BY PriorityType
<1>3. /\ IsBasic(x, refs) /\ x.id = c.exp.id /\ x.priority = priority
      /\ x.from = c.exp.from
  <2> HIDE DEF priority
  <2>1. /\ DOMAIN x = Fields /\ x.priority = priority
        /\ \A f \in Fields \ {"priority"} : x[f] = c.exp[f]
    BY DEF IsCandidate, IsBasic, Fields
  <2>2. /\ x.id = c.exp.id /\ x.type = c.exp.type /\ x.from = c.exp.from
        /\ x.sideEffect = c.exp.sideEffect /\ x.dependsOn = c.exp.dependsOn
        /\ x.original = c.exp.original
    BY <2>1 DEF Fields
  <2> QED BY <1>2, <2>1, <2>2 DEF IsCandidate, IsBasic
<1>4. DOMAIN es = 1 .. Len(es) /\ Len(es) \in Nat
  BY SeqOfItsElements DEF IsCollection
<1> HIDE DEF x
<1>5. /\ es2 \in Seq(Range(es2)) /\ DOMAIN es2 = 1 .. Len(es) + 1
      /\ \A i \in 1 .. Len(es) : es2[i] = es[i]
      /\ es2[Len(es) + 1] = x
  <2> DEFINE R == Range(es)
  <2> HIDE DEF R
  <2>1. es \in Seq(R)
    BY DEF IsCollection, R
  <2> QED BY <2>1, AppendedSeq
<1> HIDE DEF es2, priority
<1>6. \A i \in DOMAIN es2 : i \in DOMAIN es \/ i = Len(es) + 1
  BY <1>4, <1>5
<1>7. IsCollection(es2, refs)
  BY <1>3, <1>4, <1>5, <1>6 DEF IsCollection
<1>8. IsExpected(es2, ranks, c)
  <2>1. Len(es) + 1 \in DOMAIN es2
    BY <1>4, <1>5
  <2>2. x.priority <= getPriority(ranks, c.package, c.exp)
    BY <1>2, <1>3 DEF priority
  <2>3. c.exp.from[1] \in Range(x.from)
    BY <1>3 DEF IsCandidate, Range
  <2> QED BY <1>3, <1>5, <2>1, <2>2, <2>3 DEF IsExpected
<1>9. ASSUME NEW d, IsExpected(es, ranks, d)
      PROVE  IsExpected(es2, ranks, d)
  <2>1. \A i \in DOMAIN es : i \in DOMAIN es2 /\ es2[i] = es[i]
    BY <1>4, <1>5
  <2> QED BY <1>9, <2>1 DEF IsExpected
<1> QED BY <1>1, <1>7, <1>8, <1>9

\* A package for which there is one: its priority is not lowered, nor does it lose a package.
LEMMA AddToExisting ==
  ASSUME NEW refs, NEW es, IsCollection(es, refs), NEW ranks, IsRanks(ranks),
         NEW c, IsCandidate(c, refs), ~\A i \in DOMAIN es : es[i].id # c.exp.id
  PROVE  LET es2 == addExpectation(ranks, es, c.package, c.exp)
         IN  /\ IsCollection(es2, refs) /\ IsExpected(es2, ranks, c)
             /\ \A d : IsCandidate(d, refs) /\ IsExpected(es, ranks, d) => IsExpected(es2, ranks, d)
<1> DEFINE priority == getPriority(ranks, c.package, c.exp)
           existing == {j \in DOMAIN es : es[j].id = c.exp.id}
           i == CHOOSE j \in existing : TRUE
           lower == IF priority < es[i].priority THEN priority ELSE es[i].priority
           from == IF es[i].from[1].hash = c.package.hash THEN es[i].from \o c.exp.from ELSE es[i].from
           y == [es[i] EXCEPT !.priority = lower, !.from = from]
           es2 == addExpectation(ranks, es, c.package, c.exp)
<1>1. existing # {}
  OBVIOUS
<1>2. i \in DOMAIN es /\ es[i].id = c.exp.id
  BY <1>1
<1>3. IsBasic(es[i], refs)
  BY <1>2 DEF IsCollection
<1>4. es2 = [es EXCEPT ![i] = y]
  <2>1. es2 = [es EXCEPT ![i].priority = IF priority < @ THEN priority ELSE @,
                         ![i].from = IF es[i].from[1].hash = c.package.hash THEN @ \o c.exp.from ELSE @]
    BY <1>1 DEF addExpectation
  <2>2. [es[i] EXCEPT !.priority = lower].from = es[i].from
    OBVIOUS
  <2> HIDE DEF i, existing, priority
  <2> QED BY <1>2, <2>1, <2>2
<1>5. priority \in Int /\ es[i].priority \in Int
  BY <1>3, PriorityType DEF IsBasic
<1>6. lower \in Int /\ lower <= es[i].priority /\ lower <= priority
  <2> HIDE DEF priority, i
  <2> QED BY <1>5
<1>7. /\ from \in Seq(refs) /\ Len(from) # 0 /\ from[1] = es[i].from[1]
      /\ Range(es[i].from) \subseteq Range(from)
      /\ Ref(c.package) \in Range(from) \/ from[1].hash # c.package.hash
  <2>1. es[i].from \in Seq(refs) /\ Len(es[i].from) # 0 /\ Len(es[i].from) \in Nat
    BY <1>3, LenProperties DEF IsBasic
  <2>2. c.exp.from = <<Ref(c.package)>> /\ c.exp.from \in Seq(refs)
    BY DEF IsCandidate, IsBasic
  <2> DEFINE s == es[i].from
             t == <<Ref(c.package)>>
  <2>3. s \in Seq(refs) /\ t \in Seq(refs) /\ Len(t) = 1 /\ t[1] = Ref(c.package)
        /\ Len(s) # 0 /\ Len(s) \in Nat
    BY <2>1, <2>2
  <2> HIDE DEF i, s, t
  <2>4. /\ s \o t \in Seq(refs) /\ Len(s \o t) = Len(s) + 1
        /\ \A k \in 1 .. Len(s) : (s \o t)[k] = s[k]
        /\ (s \o t)[Len(s) + 1] = Ref(c.package)
    <3>1. /\ s \o t \in Seq(refs) /\ Len(s \o t) = Len(s) + Len(t)
          /\ \A k \in 1 .. Len(s) + Len(t) :
               (s \o t)[k] = IF k <= Len(s) THEN s[k] ELSE t[k - Len(s)]
      BY <2>3, ConcatProperties
    <3>2. (s \o t)[Len(s) + 1] = t[1]
      BY <2>3, <3>1
    <3> QED BY <2>3, <3>1, <3>2
  <2>5. /\ DOMAIN s = 1 .. Len(s) /\ DOMAIN (s \o t) = 1 .. Len(s) + 1
    BY <2>3, <2>4, LenProperties
  <2>6. /\ (s \o t)[1] = s[1] /\ Len(s \o t) # 0
        /\ Range(s) \subseteq Range(s \o t) /\ Ref(c.package) \in Range(s \o t)
    BY <2>3, <2>4, <2>5 DEF Range
  <2>7. CASE s[1].hash = c.package.hash
    <3>1. from = s \o t
      BY <2>2, <2>7 DEF s, t
    <3> HIDE DEF from
    <3> QED BY <2>4, <2>6, <3>1 DEF s
  <2>8. CASE s[1].hash # c.package.hash
    <3>1. from = s
      BY <2>8 DEF s
    <3> HIDE DEF from
    <3> QED BY <2>3, <2>8, <3>1 DEF s
  <2> QED BY <2>7, <2>8
<1>8. /\ IsBasic(y, refs) /\ y.id = es[i].id /\ y.priority = lower /\ y.from = from
  <2> HIDE DEF lower, from, i
  <2>1. /\ DOMAIN y = Fields /\ y.priority = lower /\ y.from = from
        /\ \A f \in Fields \ {"priority", "from"} : y[f] = es[i][f]
    BY <1>3 DEF IsBasic, Fields
  <2>2. /\ y.id = es[i].id /\ y.type = es[i].type /\ y.sideEffect = es[i].sideEffect
        /\ y.dependsOn = es[i].dependsOn /\ y.original = es[i].original
    BY <2>1 DEF Fields
  <2> QED BY <1>3, <1>6, <1>7, <2>1, <2>2 DEF IsBasic
<1> HIDE DEF i, y, lower, from, es2
<1>9. DOMAIN es2 = DOMAIN es /\ \A j \in DOMAIN es : es2[j] = IF j = i THEN y ELSE es[j]
  BY <1>4
<1>10. IsCollection(es2, refs)
  <2>1. DOMAIN es = 1 .. Len(es) /\ Len(es) \in Nat
    BY SeqOfItsElements DEF IsCollection
  <2>2. es2 \in [1 .. Len(es) -> Range(es2)]
    BY <1>4, <1>9, <2>1 DEF Range
  <2>3. es2 \in Seq(Range(es2))
    BY <2>1, <2>2, FunctionIsASeq
  <2> QED BY <1>2, <1>8, <1>9, <2>3 DEF IsCollection
<1>11. IsExpected(es2, ranks, c)
  <2>1. c.exp.from[1] = Ref(c.package)
    BY DEF IsCandidate
  <2>2. es2[i] = y /\ i \in DOMAIN es2
    BY <1>2, <1>9
  <2> QED BY <1>2, <1>6, <1>7, <1>8, <2>1, <2>2 DEF IsExpected
<1>12. ASSUME NEW d, IsCandidate(d, refs), IsExpected(es, ranks, d)
       PROVE  IsExpected(es2, ranks, d)
  <2>1. getPriority(ranks, d.package, d.exp) \in Int
    BY <1>12, PriorityType
  <2>2. PICK j \in DOMAIN es :
          /\ es[j].id = d.exp.id
          /\ es[j].priority <= getPriority(ranks, d.package, d.exp)
          /\ \/ d.exp.from[1] \in Range(es[j].from)
             \/ es[j].from[1].hash # d.package.hash
    BY <1>12 DEF IsExpected
  <2>3. CASE j # i
    <3>1. es2[j] = es[j] /\ j \in DOMAIN es2
      BY <1>9, <2>3
    <3> QED BY <2>2, <3>1 DEF IsExpected
  <2>4. CASE j = i
    <3>1. es2[i] = y /\ i \in DOMAIN es2
      BY <1>2, <1>9
    <3>2. y.priority <= getPriority(ranks, d.package, d.exp)
      BY <1>5, <1>6, <1>8, <2>1, <2>2, <2>4
    <3>3. d.exp.from[1] \in Range(y.from) \/ y.from[1].hash # d.package.hash
      BY <1>7, <1>8, <2>2, <2>4
    <3> QED BY <1>8, <2>2, <2>4, <3>1, <3>2, <3>3 DEF IsExpected
  <2> QED BY <2>3, <2>4
<1> QED BY <1>10, <1>11, <1>12 DEF es2

LEMMA AddExpectation ==
  ASSUME NEW refs, NEW es, IsCollection(es, refs), NEW ranks, IsRanks(ranks),
         NEW c, IsCandidate(c, refs)
  PROVE  LET es2 == addExpectation(ranks, es, c.package, c.exp)
         IN  /\ IsCollection(es2, refs) /\ IsExpected(es2, ranks, c)
             /\ \A d : IsCandidate(d, refs) /\ IsExpected(es, ranks, d) => IsExpected(es2, ranks, d)
<1>1. CASE \A i \in DOMAIN es : es[i].id # c.exp.id
  BY <1>1, AddNew
<1>2. CASE ~\A i \in DOMAIN es : es[i].id # c.exp.id
  BY <1>2, AddToExisting
<1> QED BY <1>1, <1>2

\* What AddedExpectations computes with: what there is after each candidate.
Added(f, ranks, cs, n) ==
  f = [k \in 0 .. n |-> IF k = 0 THEN <<>>
                        ELSE addExpectation(ranks, f[k - 1], cs[k].package, cs[k].exp)]

\* There is such a function for any number of candidates: there is no smallest one without.
LEMMA AddedExists ==
  ASSUME NEW ranks, NEW cs, NEW n \in Nat
  PROVE  \E f : Added(f, ranks, cs, n)
<1> DEFINE Bad == {k \in Nat : ~ \E f : Added(f, ranks, cs, k)}
<1> SUFFICES ASSUME Bad # {} PROVE FALSE
  OBVIOUS
<1>1. PICK k \in Bad : \A m \in Bad : k <= m
  BY SmallestNumber
<1>2. CASE k = 0
  <2> DEFINE g == [i \in 0 .. 0 |-> <<>>]
  <2>1. \A i \in 0 .. 0 : i = 0
    OBVIOUS
  <2>2. Added(g, ranks, cs, 0)
    BY <2>1 DEF Added
  <2> QED BY <1>2, <2>2
<1>3. CASE k # 0
  <2>1. k - 1 \in Nat /\ k - 1 < k
    BY <1>3
  <2>2. PICK f : Added(f, ranks, cs, k - 1)
    BY <1>1, <2>1
  <2> DEFINE next(h, i) == IF i = 0 THEN <<>>
                           ELSE addExpectation(ranks, h[i - 1], cs[i].package, cs[i].exp)
             g == [i \in 0 .. k |-> next(f, i)]
  <2>3. ASSUME NEW i \in 0 .. k, i # 0
        PROVE  g[i - 1] = f[i - 1]
    <3>1. i - 1 \in 0 .. k /\ i - 1 \in 0 .. (k - 1)
      BY <2>3
    <3>2. f[i - 1] = next(f, i - 1)
      BY <2>2, <3>1 DEF Added
    <3> HIDE DEF next
    <3> QED BY <3>1, <3>2
  <2>4. \A i \in 0 .. k : next(f, i) = next(g, i)
    <3> HIDE DEF g
    <3> QED BY <2>3
  <2>5. g = [i \in 0 .. k |-> next(g, i)]
    <3> DEFINE h == [i \in 0 .. k |-> next(g, i)]
    <3> HIDE DEF next
    <3>1. \A i \in 0 .. k : g[i] = h[i]
      BY <2>4
    <3> QED BY <3>1
  <2>6. Added(g, ranks, cs, k)
    <3> HIDE DEF g
    <3> QED BY <2>5 DEF Added
  <2> QED BY <2>6
<1> QED BY <1>2, <1>3

\* ALL OF THEM: whatever the candidates, there is one expectation for each id, and each of
\* the candidates is expected.
LEMMA AllAreAdded ==
  ASSUME NEW ranks, IsRanks(ranks), NEW refs, NEW cs, Len(cs) \in Nat,
         \A k \in 1 .. Len(cs) : IsCandidate(cs[k], refs)
  PROVE  /\ IsCollection(AddedExpectations(ranks, cs), refs)
         /\ \A k \in 1 .. Len(cs) : IsExpected(AddedExpectations(ranks, cs), ranks, cs[k])
<1> DEFINE f == CHOOSE f : Added(f, ranks, cs, Len(cs))
           Fine(n) == /\ IsCollection(f[n], refs)
                      /\ \A k \in 1 .. n : IsExpected(f[n], ranks, cs[k])
           Bad == {n \in 0 .. Len(cs) : ~Fine(n)}
<1>1. Added(f, ranks, cs, Len(cs))
  BY AddedExists
<1>2. AddedExpectations(ranks, cs) = f[Len(cs)]
  BY DEF AddedExpectations, Added
<1> HIDE DEF f
<1>3. ASSUME NEW n \in 0 .. Len(cs)
      PROVE  f[n] = IF n = 0 THEN <<>>
                    ELSE addExpectation(ranks, f[n - 1], cs[n].package, cs[n].exp)
  BY <1>1, <1>3 DEF Added
<1>4. ASSUME Bad # {} PROVE FALSE
  <2>1. Bad \subseteq Nat
    OBVIOUS
  <2>2. PICK n \in Bad : \A m \in Bad : n <= m
    <3> HIDE DEF Bad
    <3> QED BY <1>4, <2>1, SmallestNumber
  <2>3. CASE n = 0
    <3>1. f[0] = <<>>
      BY <1>3, <2>3
    <3>2. <<>> \in Seq(Range(<<>>)) /\ DOMAIN <<>> = {}
      BY EmptySeq
    <3>3. IsCollection(<<>>, refs)
      BY <3>2 DEF IsCollection
    <3>4. Fine(0)
      BY <3>1, <3>3
    <3> QED BY <2>3, <3>4
  <2>4. CASE n # 0
    <3>1. n \in 1 .. Len(cs) /\ n - 1 \in 0 .. Len(cs) /\ ~(n <= n - 1)
      BY <2>4
    <3>2. Fine(n - 1)
      BY <2>2, <3>1
    <3>3. f[n] = addExpectation(ranks, f[n - 1], cs[n].package, cs[n].exp)
      BY <1>3, <2>4
    <3>4. /\ IsCollection(f[n], refs) /\ IsExpected(f[n], ranks, cs[n])
          /\ \A d : IsCandidate(d, refs) /\ IsExpected(f[n - 1], ranks, d) => IsExpected(f[n], ranks, d)
      BY <3>1, <3>2, <3>3, AddExpectation
    <3>5. ASSUME NEW k \in 1 .. n
          PROVE  IsExpected(f[n], ranks, cs[k])
      <4>1. k = n \/ (k \in 1 .. (n - 1) /\ k \in 1 .. Len(cs))
        BY <3>1
      <4> QED BY <3>2, <3>4, <4>1
    <3>6. Fine(n)
      BY <3>4, <3>5
    <3> QED BY <3>6
  <2> QED BY <2>3, <2>4
<1>5. Fine(Len(cs))
  BY <1>4
<1> QED BY <1>2, <1>5

\* What is in the same group once
LEMMA GroupedAreApart ==
  ASSUME NEW refs, NEW es, IsCollection(es, refs)
  PROVE  /\ groupExpectations(es) \subseteq Range(es)
         /\ \A e, f \in groupExpectations(es) : Range(e.from) \cap Range(f.from) # {} => e = f
<1> DEFINE handledBefore(i) == UNION {Range(es[j].from) : j \in 1 .. i - 1}
           first == {j \in DOMAIN es : Range(es[j].from) \cap handledBefore(j) = {}}
<1>1. groupExpectations(es) = {es[i] : i \in first}
  BY DEF groupExpectations
<1>2. DOMAIN es = 1 .. Len(es) /\ Len(es) \in Nat
  BY SeqOfItsElements DEF IsCollection
<1>3. ASSUME NEW i \in first, NEW j \in first, i < j
      PROVE  Range(es[i].from) \cap Range(es[j].from) = {}
  <2>1. i \in 1 .. j - 1
    BY <1>2, <1>3
  <2>2. Range(es[i].from) \subseteq handledBefore(j)
    BY <2>1
  <2>3. Range(es[j].from) \cap handledBefore(j) = {}
    OBVIOUS
  <2> HIDE DEF handledBefore
  <2> QED BY <2>2, <2>3
<1>4. \A i, j \in first : i = j \/ i < j \/ j < i
  BY <1>2
<1>5. first \subseteq DOMAIN es
  OBVIOUS
<1> HIDE DEF first
<1>6. ASSUME NEW e \in groupExpectations(es), NEW f \in groupExpectations(es),
             Range(e.from) \cap Range(f.from) # {}
      PROVE  e = f
  <2>1. PICK i \in first, j \in first : e = es[i] /\ f = es[j]
    BY <1>1
  <2> QED BY <1>3, <1>4, <1>6, <2>1
<1>7. groupExpectations(es) \subseteq Range(es)
  BY <1>1, <1>5 DEF Range
<1> QED BY <1>6, <1>7

\* What fits together: the dependencies are there and come first, there is one expectation
\* for each id, and each side effect of a package once.
FitTogether(E) ==
  /\ \A e \in E : \A id \in e.dependsOn : \E f \in E : f.id = id
  /\ \A e, f \in E : e.id = f.id => e = f
  /\ \A e, f \in E : f.id \in e.dependsOn => e.priority >= f.priority
  /\ \A e, f \in E :
       (e.type = f.type /\ e.dependsOn # {} /\ Range(e.from) \cap Range(f.from) # {}) => e = f

LEMMA InjectedFitTogether ==
  ASSUME NEW refs, NEW es, IsCollection(es, refs), NEW containers, NEW set
  PROVE  FitTogether(injectSideEffectExpectations(containers, set, es))
<1> DEFINE B == Range(es)
           G == groupExpectations(es)
           D(e) == Derived(e, containers, set)
           E == B \cup UNION {D(e) : e \in G}
<1>1. injectSideEffectExpectations(containers, set, es) = E
  BY InjectedAreDerived
<1>2. /\ \A e \in B : IsBasic(e, refs)
      /\ \A e, f \in B : e.id = f.id => e = f
  BY DEF IsCollection, Range
<1>3. G \subseteq B /\ \A e, f \in G : Range(e.from) \cap Range(f.from) # {} => e = f
  BY GroupedAreApart
<1> HIDE DEF B, G, D
<1>4. \A g \in E : g \in B \/ \E e \in G : g \in D(e)
  OBVIOUS
<1>5. ASSUME NEW e \in G, NEW g \in D(e)
      PROVE  /\ e \in B /\ g \in E
             /\ g.id[1] = e.id[1] /\ g.id # <<g.id[1]>>
             /\ g.from = e.from /\ g.type \notin BasicTypes
             /\ \E f \in E : f \in {e} \cup D(e) /\ g.dependsOn = {f.id} /\ f.priority <= g.priority
             /\ \A h \in D(e) : h.id = g.id \/ h.type = g.type => h = g
  <2>1. e \in B /\ IsBasic(e, refs) /\ {e} \cup D(e) \subseteq E
    BY <1>2, <1>3
  <2>2. /\ g.id[1] = e.id[1] /\ g.id # <<g.id[1]>>
        /\ g.from = e.from /\ g.type \notin BasicTypes
        /\ \E f \in {e} \cup D(e) : g.dependsOn = {f.id} /\ f.priority <= g.priority
        /\ \A h \in D(e) : h.id = g.id \/ h.type = g.type => h = g
    BY <1>5, <2>1, DerivedType DEF D
  <2> HIDE DEF E
  <2> QED BY <2>1, <2>2
<1>6. \A e \in B : e.id = <<e.id[1]>> /\ e.type \in BasicTypes /\ e.dependsOn = {}
  BY <1>2 DEF IsBasic
<1> HIDE DEF E
<1>7. ASSUME NEW e \in E, NEW f \in E, e.id = f.id
      PROVE  e = f
  <2>1. CASE e \in B /\ f \in B
    BY <1>2, <1>7, <2>1
  <2>2. CASE e \notin B /\ f \in B
    BY <1>4, <1>5, <1>6, <1>7, <2>2
  <2>3. CASE e \in B /\ f \notin B
    BY <1>4, <1>5, <1>6, <1>7, <2>3
  <2>4. CASE e \notin B /\ f \notin B
    <3>1. PICK c \in G, d \in G : e \in D(c) /\ f \in D(d)
      BY <1>4, <2>4
    <3>2. c.id[1] = d.id[1] /\ c \in B /\ d \in B
      BY <1>5, <1>7, <3>1
    <3>3. c.id = d.id
      BY <1>6, <3>2
    <3>4. c = d
      BY <1>2, <3>2, <3>3
    <3> QED BY <1>5, <1>7, <3>1, <3>4
  <2> QED BY <2>1, <2>2, <2>3, <2>4
<1>8. ASSUME NEW e \in E, NEW id \in e.dependsOn
      PROVE  \E f \in E : f.id = id
  <2>1. e \notin B
    BY <1>6
  <2> QED BY <1>4, <1>5, <2>1
<1>9. ASSUME NEW e \in E, NEW f \in E, f.id \in e.dependsOn
      PROVE  e.priority >= f.priority
  <2>1. e \notin B
    BY <1>6, <1>9
  <2>2. PICK d \in E : e.dependsOn = {d.id} /\ d.priority <= e.priority
    BY <1>4, <1>5, <2>1
  <2>3. d = f
    BY <1>7, <1>9, <2>2
  <2> QED BY <2>2, <2>3
<1>10. ASSUME NEW e \in E, NEW f \in E,
              e.type = f.type, e.dependsOn # {}, Range(e.from) \cap Range(f.from) # {}
       PROVE  e = f
  <2>1. e \notin B
    BY <1>6, <1>10
  <2>2. PICK c \in G : e \in D(c)
    BY <1>4, <2>1
  <2>3. f \notin B
    BY <1>5, <1>6, <1>10, <2>2
  <2>4. PICK d \in G : f \in D(d)
    BY <1>4, <2>3
  <2>5. c = d
    BY <1>3, <1>5, <1>10, <2>2, <2>4
  <2> QED BY <1>5, <1>10, <2>2, <2>4, <2>5
<1>11. FitTogether(E)
  BY <1>7, <1>8, <1>9, <1>10 DEF FitTogether
<1> QED BY <1>1, <1>11

-----------------------------------------------------------------------------
(* What the expectation manager is given *)

\* Every package with an accessor that is not left to the smartbull is a candidate, and
\* nothing is one that is not of a package.
LEMMA CandidatesType ==
  ASSUME NEW ps \in Seq(Packages)
  PROVE  /\ Len(Candidates(ps)) \in Nat /\ DOMAIN Candidates(ps) = 1 .. Len(Candidates(ps))
         /\ \A k \in 1 .. Len(Candidates(ps)) :
              IsCandidate(Candidates(ps)[k], {Ref(p) : p \in Packages})
         /\ \A p \in Range(ps) :
              ~shouldBeIgnored(p) /\ p.accessors =>
                [package |-> p, exp |-> BasicExpectation(p)] \in Range(Candidates(ps))
<1> DEFINE refs == {Ref(p) : p \in Packages}
           sorted == ByPriority(ps)
           R == {p \in Range(sorted) : ~shouldBeIgnored(p) /\ p.accessors}
           relevant == Within(sorted, R)
           basic == getBasicExpectations(sorted)
           clips == Within(sorted, {p \in Range(sorted) : p.smartbull = "clip" /\ p.type = "MEDIA_FILE"})
           smartbulls == getSmartbullExpectedPackages(sorted)
           ofSmartbulls == [i \in DOMAIN smartbulls |->
                              [package |-> smartbulls[i],
                               exp |-> [generateMediaFileCopy(smartbulls[i]) EXCEPT !.smartbull = TRUE]]]
           OK == {c \in Range(basic) \cup Range(ofSmartbulls) : IsCandidate(c, refs)}
<1>1. sorted \in Seq(Packages) /\ Range(ps) \subseteq Range(sorted)
  <2>1. \A p \in Packages : p.priority \in Int
    BY PackagesArePackages DEF IsPackage
  <2> QED BY <2>1, ByPriorityType
<1>2. Candidates(ps) = basic \o ofSmartbulls
  BY DEF Candidates
<1> HIDE DEF sorted
<1>3. /\ relevant \in Seq(Packages)
      /\ \A i \in DOMAIN sorted : sorted[i] \in R => sorted[i] \in Range(relevant)
  <2> HIDE DEF R
  <2>1. /\ relevant \in Seq(Packages \cap R)
        /\ \A i \in DOMAIN sorted : sorted[i] \in R => sorted[i] \in Range(relevant)
    BY <1>1, WithinType
  <2> QED BY <2>1, SeqMonotonic
<1>4. basic = [i \in DOMAIN relevant |-> [package |-> relevant[i], exp |-> BasicExpectation(relevant[i])]]
  BY DEF getBasicExpectations
<1> HIDE DEF relevant, basic
<1>5. basic \in Seq(OK)
  <2>1. DOMAIN relevant = 1 .. Len(relevant) /\ Len(relevant) \in Nat
    BY <1>3, LenProperties
  <2>2. ASSUME NEW i \in 1 .. Len(relevant)
        PROVE  IsCandidate([package |-> relevant[i], exp |-> BasicExpectation(relevant[i])], refs)
    <3>1. relevant[i] \in Packages
      BY <1>3, ElementOfSeq
    <3>2. IsPackage(relevant[i]) /\ Ref(relevant[i]) \in refs
      BY <3>1, PackagesArePackages
    <3> QED BY <3>2, BasicExpectationType DEF IsCandidate
  <2>3. basic \in [1 .. Len(relevant) -> OK]
    BY <1>4, <2>1, <2>2 DEF Range
  <2> HIDE DEF OK
  <2> QED BY <2>1, <2>3, FunctionIsASeq
<1>6. \/ smartbulls = <<>>
      \/ \E best : smartbulls = [i \in DOMAIN clips |->
                     [clips[i] EXCEPT !.content = best.content, !.version = None]]
  <2> DEFINE files == {p \in Range(sorted) : p.smartbull = "source" /\ p.type = "MEDIA_FILE"}
             best == CHOOSE p \in files : \A q \in files :
                       q.content < p.content \/ (q.content = p.content /\ q.priority <= p.priority)
  <2>1. smartbulls = IF files = {} THEN <<>>
                     ELSE [i \in DOMAIN clips |->
                             [clips[i] EXCEPT !.content = best.content, !.version = None]]
    BY DEF getSmartbullExpectedPackages
  <2> HIDE DEF clips, smartbulls, files, best
  <2> QED BY <2>1
<1>7. clips \in Seq(Packages)
  <2> DEFINE S == {p \in Range(sorted) : p.smartbull = "clip" /\ p.type = "MEDIA_FILE"}
  <2> HIDE DEF S
  <2>1. Within(sorted, S) \in Seq(Packages \cap S)
    BY <1>1, WithinType
  <2>2. Within(sorted, S) \in Seq(Packages)
    BY <2>1, SeqMonotonic
  <2> QED BY <2>2 DEF S
<1> HIDE DEF clips, smartbulls
<1>8. ofSmartbulls \in Seq(OK)
  <2>1. CASE smartbulls = <<>>
    <3>1. ofSmartbulls = <<>>
      BY <2>1
    <3> HIDE DEF ofSmartbulls, OK
    <3> QED BY <3>1, EmptySeq
  <2>2. ASSUME NEW best, smartbulls = [i \in DOMAIN clips |->
                     [clips[i] EXCEPT !.content = best.content, !.version = None]]
        PROVE  ofSmartbulls \in Seq(OK)
    <3>1. DOMAIN clips = 1 .. Len(clips) /\ Len(clips) \in Nat
      BY <1>7, LenProperties
    <3>2. ASSUME NEW i \in 1 .. Len(clips)
          PROVE  IsCandidate([package |-> smartbulls[i],
                   exp |-> [generateMediaFileCopy(smartbulls[i]) EXCEPT !.smartbull = TRUE]], refs)
      <4>1. clips[i] \in Packages
        BY <1>7, ElementOfSeq
      <4>2. IsPackage(clips[i]) /\ Ref(clips[i]) \in refs
        BY <4>1, PackagesArePackages
      <4> DEFINE c == clips[i]
                 d == [c EXCEPT !.content = best.content]
                 q == [d EXCEPT !.version = None]
      <4>3. smartbulls[i] = q
        BY <2>2, <3>1
      <4>4. /\ DOMAIN d = DOMAIN c /\ d.type = c.type /\ d.priority = c.priority
            /\ d.sideEffect = c.sideEffect /\ d.id = c.id /\ d.hash = c.hash
        BY <4>2 DEF IsPackage
      <4>5. /\ DOMAIN q = DOMAIN d /\ q.type = d.type /\ q.priority = d.priority
            /\ q.sideEffect = d.sideEffect /\ q.id = d.id /\ q.hash = d.hash
        <5> HIDE DEF d
        <5> QED BY <4>2, <4>4 DEF IsPackage
      <4> HIDE DEF q, d
      <4>6. IsPackage(q) /\ Ref(q) = Ref(c)
        BY <4>2, <4>4, <4>5 DEF IsPackage, Ref
      <4> QED BY <4>2, <4>3, <4>6, BasicExpectationType DEF IsCandidate
    <3>3. DOMAIN smartbulls = 1 .. Len(clips)
      BY <2>2, <3>1
    <3>4. ofSmartbulls \in [1 .. Len(clips) -> OK]
      BY <3>2, <3>3 DEF Range
    <3> HIDE DEF OK, ofSmartbulls
    <3> QED BY <3>1, <3>4, FunctionIsASeq
  <2> QED BY <1>6, <2>1, <2>2
<1> DEFINE cs == basic \o ofSmartbulls
<1>9. /\ cs \in Seq(OK) /\ Len(cs) \in Nat /\ DOMAIN cs = 1 .. Len(cs)
      /\ Len(basic) \in Nat /\ Len(ofSmartbulls) \in Nat /\ Len(cs) = Len(basic) + Len(ofSmartbulls)
      /\ \A i \in 1 .. Len(basic) : cs[i] = basic[i]
      /\ DOMAIN basic = 1 .. Len(basic)
  <2> HIDE DEF OK, ofSmartbulls
  <2>1. Len(basic) \in Nat /\ Len(ofSmartbulls) \in Nat /\ DOMAIN basic = 1 .. Len(basic)
    BY <1>5, <1>8, LenProperties
  <2>2. /\ cs \in Seq(OK) /\ Len(cs) = Len(basic) + Len(ofSmartbulls)
        /\ \A i \in 1 .. Len(basic) + Len(ofSmartbulls) :
             cs[i] = IF i <= Len(basic) THEN basic[i] ELSE ofSmartbulls[i - Len(basic)]
    BY <1>5, <1>8, ConcatProperties
  <2>3. DOMAIN cs = 1 .. Len(cs)
    <3> HIDE DEF cs
    <3> QED BY <2>2, LenProperties
  <2> QED BY <2>1, <2>2, <2>3
<1>10. \A k \in 1 .. Len(cs) : IsCandidate(cs[k], refs)
  <2>1. \A c \in OK : IsCandidate(c, refs)
    OBVIOUS
  <2> HIDE DEF OK, cs
  <2> QED BY <1>9, <2>1, ElementOfSeq
<1>11. ASSUME NEW p \in Range(ps), ~shouldBeIgnored(p) /\ p.accessors
       PROVE  [package |-> p, exp |-> BasicExpectation(p)] \in Range(cs)
  <2>1. PICK i \in DOMAIN sorted : sorted[i] = p
    BY <1>1 DEF Range
  <2>2. p \in R
    BY <1>11, <2>1 DEF Range
  <2>3. PICK k \in DOMAIN relevant : relevant[k] = p
    BY <1>3, <2>1, <2>2 DEF Range
  <2>4. basic[k] = [package |-> p, exp |-> BasicExpectation(p)] /\ k \in DOMAIN basic
    BY <1>4, <2>3
  <2>5. cs[k] = basic[k] /\ k \in DOMAIN cs
    <3> HIDE DEF cs
    <3> QED BY <1>9, <2>4
  <2> HIDE DEF cs
  <2> QED BY <2>4, <2>5 DEF Range
<1> QED BY <1>2, <1>9, <1>10, <1>11

\* What is generated from the data of now
LEMMA GeneratedType ==
  ASSUME TypeOK, DataIsThere
  PROVE  /\ FitTogether(Generated.expectations)
         /\ \A c \in Range(Candidates(AllPackages)) :
              \E e \in Generated.expectations :
                /\ e.id = c.exp.id
                /\ e.priority <= getPriority(activeRundowns, c.package, c.exp)
                /\ \/ c.exp.from[1] \in Range(e.from)
                   \/ e.from[1].hash # c.package.hash
<1> DEFINE cs == Candidates(AllPackages)
           refs == {Ref(p) : p \in Packages}
           es == AddedExpectations(activeRundowns, cs)
           E == injectSideEffectExpectations(AllContainers, settings, es)
<1>1. /\ Len(cs) \in Nat /\ DOMAIN cs = 1 .. Len(cs)
      /\ \A k \in 1 .. Len(cs) : IsCandidate(cs[k], refs)
  BY AllPackagesType, CandidatesType
<1>2. IsRanks(activeRundowns)
  BY DataAssumption DEF TypeOK, DataIsThere, IsRanks
<1>3. Generated.expectations = E
  BY DEF Generated, getExpectations
<1> HIDE DEF cs, refs
<1>4. /\ IsCollection(es, refs)
      /\ \A k \in 1 .. Len(cs) : IsExpected(es, activeRundowns, cs[k])
  BY <1>1, <1>2, AllAreAdded
<1> HIDE DEF es
<1>5. FitTogether(E)
  BY <1>4, InjectedFitTogether
<1>6. Range(es) \subseteq E
  BY InjectedAreDerived
<1> HIDE DEF E
<1>7. ASSUME NEW c \in Range(cs)
      PROVE  \E e \in E :
               /\ e.id = c.exp.id
               /\ e.priority <= getPriority(activeRundowns, c.package, c.exp)
               /\ \/ c.exp.from[1] \in Range(e.from)
                  \/ e.from[1].hash # c.package.hash
  <2>1. IsExpected(es, activeRundowns, c)
    BY <1>1, <1>4, <1>7 DEF Range
  <2>2. \A i \in DOMAIN es : es[i] \in E
    BY <1>6 DEF Range
  <2> QED BY <2>1, <2>2 DEF IsExpected
<1> QED BY <1>3, <1>5, <1>7 DEF cs

\* WHAT IS GIVEN FITS TOGETHER: for any packages, wherever they come from, and any containers,
\* rundowns and settings, the expectation manager is never given an expectation that waits
\* for one that is not there or is less urgent, two of the same id, or a side effect twice.
THEOREM GivenFitsTogether == Spec => []PackageManagerInv
<1> DEFINE Fits == FitTogether(given.expectations)
<1>1. Init => Fits
  BY DEF Init, FitTogether
<1>2. TypeOK /\ Fits /\ [Next]_vars => Fits'
  <2> SUFFICES ASSUME TypeOK, Fits, [Next]_vars PROVE Fits'
    OBVIOUS
  <2>1. CASE UNCHANGED given
    BY <2>1
  <2>2. CASE given' = Generated /\ DataIsThere
    BY <2>2, GeneratedType
  <2>3. UNCHANGED given \/ (given' = Generated /\ DataIsThere)
    BY DEF Next, CoreChanges, onSettingsChanged, setExternalData, onReportMonitoredPackages,
           UpdateExpectedPackages, vars
  <2> QED BY <2>1, <2>2, <2>3
<1>3. TypeOK /\ Fits => PackageManagerInv
  BY DEF PackageManagerInv, DependenciesAreGenerated, DependentsComeLater, SideEffectsOnce,
         Expectations, FitTogether
<1> QED BY <1>1, <1>2, <1>3, TypesHold, PTL DEF Spec

\* THE EXPECTATION MANAGER IS UP TO DATE: every change of the data schedules an update, and
\* the update generates everything from the data at that time.
THEOREM ExpectationsAreCurrent == Spec => []GivenIsCurrent
<1>1. Init => GivenIsCurrent
  BY DEF Init, GivenIsCurrent
<1>2. GivenIsCurrent /\ [Next]_vars => GivenIsCurrent'
  <2> SUFFICES ASSUME GivenIsCurrent, [Next]_vars PROVE GivenIsCurrent'
    OBVIOUS
  <2>1. CASE timer' = TRUE
    BY <2>1 DEF GivenIsCurrent
  <2>2. CASE UNCHANGED data /\ UNCHANGED <<timer, given>>
    BY <2>2 DEF GivenIsCurrent, DataIsThere, Generated, AllContainers, AllPackages, data
  <2>3. CASE UpdateExpectedPackages
    <3>1. UNCHANGED data /\ (DataIsThere => given' = Generated)
      BY <2>3 DEF UpdateExpectedPackages
    <3> QED
      BY <3>1 DEF GivenIsCurrent, DataIsThere, Generated, AllContainers, AllPackages, data
  <2>4. timer' = TRUE \/ UpdateExpectedPackages \/ UNCHANGED vars
    BY DEF Next, CoreChanges, onSettingsChanged, setExternalData, onReportMonitoredPackages,
           triggerUpdatedExpectedPackages
  <2> QED BY <2>1, <2>2, <2>3, <2>4 DEF vars
<1> QED BY <1>1, <1>2, PTL DEF Spec

\* NO PACKAGE IS FORGOTTEN: when no update is scheduled, every package there is, in Core, in
\* the watched file or found by a monitor, has an expectation that is as urgent as it is, or
\* gives way to one for another content in the same place.
THEOREM NoPackageIsForgotten == Spec => []EveryPackageIsExpected
<1>1. TypeOK /\ GivenIsCurrent => EveryPackageIsExpected
  <2> SUFFICES ASSUME TypeOK, GivenIsCurrent, ~timer, DataIsThere
               PROVE  /\ \A p \in Range(AllPackages) :
                           ~shouldBeIgnored(p) /\ p.accessors =>
                             HasExpectation([package |-> p, exp |-> BasicExpectation(p)])
                      /\ \A c \in Range(Candidates(AllPackages)) : HasExpectation(c)
    BY DEF EveryPackageIsExpected
  <2>1. Expectations = Generated.expectations
    BY DEF GivenIsCurrent, Expectations
  <2>2. \A c \in Range(Candidates(AllPackages)) : HasExpectation(c)
    BY <2>1, GeneratedType DEF HasExpectation
  <2>3. \A p \in Range(AllPackages) :
          ~shouldBeIgnored(p) /\ p.accessors =>
            [package |-> p, exp |-> BasicExpectation(p)] \in Range(Candidates(AllPackages))
    BY AllPackagesType, CandidatesType
  <2> QED BY <2>2, <2>3
<1> QED BY <1>1, TypesHold, ExpectationsAreCurrent, PTL
=============================================================================
