---------------------------- MODULE TrackingProofs ----------------------------
(***************************************************************************)
(* Theorems about the tracks of Tracking4D and TrackingMultiplet, for any  *)
(* telescope, cuts, hits and fits, and about what all modules of a chain   *)
(* fill.                                                                   *)
(***************************************************************************)
EXTENDS ReconstructionProofs

-----------------------------------------------------------------------------
(* The search for tracks *)

\* The detectors of a telescope, by SearchAssumption.
Named == ToSet(chain.detectors)

Distinct(s) == \A i, j \in 1..Len(s) : s[i] = s[j] => i = j

\* What SearchAssumption says of the chain of a search.
LEMMA TelescopeChain ==
    ASSUME Configured, chain.module \in {"Tracking4D", "TrackingMultiplet"}
    PROVE  /\ chain.detectors \in Seq(STRING) /\ Distinct(chain.detectors)
           /\ \A h \in Inputs : \A d \in Named : h[d] \in Seq(Int)
<1> DEFINE c == Chains[setup]
<1>1. c.module \in {"Tracking4D", "TrackingMultiplet"}
  BY ChainsAssumption DEF Configured
<1>2. "detectors" \in DOMAIN c /\ c.detectors \in Seq(STRING)
      /\ (\A i, j \in DOMAIN c.detectors : c.detectors[i] = c.detectors[j] => i = j)
      /\ \A d \in ToSet(c.detectors) : \A h \in c.inputs : h[d] \in Seq(Int)
  BY <1>1, SearchAssumption DEF Configured
<1>3. chain.detectors = c.detectors
  BY <1>2 DEF Configured
<1>4. DOMAIN c.detectors = 1..Len(c.detectors)
  BY <1>2
<1> QED
  BY <1>2, <1>3, <1>4 DEF Distinct, Named, Inputs

\* A part of a list of detectors, in its order.
LEMMA PartOfList ==
    ASSUME NEW T, NEW s \in Seq(T), NEW S
    PROVE  /\ Kept(s, S) \in Seq(T)
           /\ ToSet(Kept(s, S)) = ToSet(s) \cap S
           /\ Distinct(s) => Distinct(Kept(s, S))
<1> DEFINE k == Kept(s, S)
<1>1. /\ k \in Seq(T)
      /\ \A i \in 1..Len(k) : \E p \in 1..Len(s) : k[i] = s[p] /\ s[p] \in S
      /\ \A p \in 1..Len(s) : s[p] \in S => \E i \in 1..Len(k) : k[i] = s[p]
      /\ \A i, j \in 1..Len(k) : i < j =>
            \E p, q \in 1..Len(s) : p < q /\ k[i] = s[p] /\ k[j] = s[q]
  BY KeptProperties
<1> HIDE DEF k
<1>2. DOMAIN k = 1..Len(k) /\ DOMAIN s = 1..Len(s) /\ Len(k) \in Nat /\ Len(s) \in Nat
  BY <1>1, LenProperties
<1>3. ToSet(k) = ToSet(s) \cap S
  <2>1. \A x : (x \in ToSet(k) <=> Has(k, x)) /\ (x \in ToSet(s) <=> Has(s, x))
    BY <1>2 DEF ToSet, Has
  <2>2. \A x : Has(k, x) <=> Has(s, x) /\ x \in S
    BY KeptHas DEF k
  <2> QED
    BY <2>1, <2>2
<1>4. ASSUME Distinct(s) PROVE Distinct(k)
  <2>1. \A i, j \in 1..Len(k) : i < j => k[i] # k[j]
    <3> TAKE i, j \in 1..Len(k)
    <3> HAVE i < j
    <3>1. PICK p, q \in 1..Len(s) : p < q /\ k[i] = s[p] /\ k[j] = s[q]
      BY <1>1
    <3>2. p # q
      BY <1>2, <3>1
    <3> QED
      BY <1>4, <3>1, <3>2 DEF Distinct
  <2> SUFFICES ASSUME NEW i \in 1..Len(k), NEW j \in 1..Len(k), k[i] = k[j] PROVE i = j
    BY DEF Distinct
  <2>2. i \in Int /\ j \in Int
    BY <1>2
  <2>3. ~(i < j) /\ ~(j < i)
    BY <2>1
  <2> QED
    BY <2>2, <2>3
<1> QED
  BY <1>1, <1>3, <1>4 DEF k

\* The first and the last of a sequence.
LEMMA Ends ==
    ASSUME NEW T, NEW s \in Seq(T), s # <<>>
    PROVE  /\ Len(s) \in Nat \ {0} /\ Head(s) = s[1] /\ Last(s) = s[Len(s)]
           /\ Head(s) \in ToSet(s) /\ Last(s) \in ToSet(s)
           /\ Distinct(s) /\ Len(s) >= 2 => Head(s) # Last(s)
<1>1. Len(s) \in Nat \ {0} /\ DOMAIN s = 1..Len(s) /\ Head(s) = s[1] /\ Last(s) = s[Len(s)]
  BY EmptySeq, LenProperties DEF Last
<1>2. 1 \in 1..Len(s) /\ Len(s) \in 1..Len(s)
  BY <1>1
<1>3. Head(s) \in ToSet(s) /\ Last(s) \in ToSet(s)
  BY <1>1, <1>2 DEF ToSet
<1>4. Distinct(s) /\ Len(s) >= 2 => Head(s) # Last(s)
  BY <1>1, <1>2 DEF Distinct
<1> QED
  BY <1>1, <1>3, <1>4

\* A sequence with two different elements has length two.
LEMMA TwoElements ==
    ASSUME NEW T, NEW s \in Seq(T), Cardinality(ToSet(s)) >= 2
    PROVE  Len(s) >= 2
<1>1. Len(s) \in Nat /\ DOMAIN s = 1..Len(s)
  BY LenProperties
<1>2. CASE Len(s) = 0
  <2>1. ToSet(s) = {}
    BY <1>1, <1>2 DEF ToSet
  <2> QED
    BY <2>1, FS_EmptySet
<1>3. CASE Len(s) = 1
  <2>1. ToSet(s) = {s[1]}
    BY <1>1, <1>3 DEF ToSet
  <2>2. Cardinality({s[1]}) = 1
    BY FS_Singleton
  <2> QED
    BY <2>1, <2>2
<1> QED
  BY <1>1, <1>2, <1>3

\* Division with the remainder tells numbers apart.
LEMMA Division ==
    \A i \in Nat, n \in Nat \ {0} : i = n * (i \div n) + (i % n) /\ i \div n \in Nat /\ i % n \in Nat
OBVIOUS

\* All pairs of clusters of two detectors, each once.
PairsOf(a, b) == ({a} \X Nat) \X ({b} \X Nat)

\* ReferencePairs has no pair of clusters twice.
LEMMA PairsDistinct ==
    ASSUME NEW a, NEW b, hits[a] \in Seq(Int), hits[b] \in Seq(Int)
    PROVE  ReferencePairs(a, b) \in Seq(PairsOf(a, b)) /\ Distinct(ReferencePairs(a, b))
<1> DEFINE n == Len(hits[b])
           l == Len(hits[a])
           r == ReferencePairs(a, b)
           First(k) == ((k - 1) \div n) + 1
           Second(k) == ((k - 1) % n) + 1
<1>1. n \in Nat /\ l \in Nat
  BY LenProperties
<1>2. r = [k \in 1..(l * n) |-> <<<<a, First(k)>>, <<b, Second(k)>>>>]
  BY DEF ReferencePairs
<1> HIDE DEF n, l, r
<1>3. \A i, j \in Nat : i * j \in Nat
  OBVIOUS
<1>4. l * n \in Nat
  BY <1>1, <1>3
<1> DEFINE all == l * n
<1> HIDE DEF all
<1>5. n = 0 => all = 0
  <2>1. \A i \in Nat : i * 0 = 0
    OBVIOUS
  <2> QED
    BY <1>1, <2>1 DEF all
<1>6. ASSUME NEW k \in 1..all
      PROVE  /\ n \in Nat \ {0} /\ k - 1 \in Nat
             /\ (k - 1) \div n \in Nat /\ (k - 1) % n \in Nat
             /\ k - 1 = n * ((k - 1) \div n) + ((k - 1) % n)
  <2>1. n \in Nat \ {0} /\ k - 1 \in Nat
    BY <1>1, <1>4, <1>5 DEF all
  <2> QED
    BY <2>1, Division
<1>7. r = [k \in 1..all |-> <<<<a, First(k)>>, <<b, Second(k)>>>>] /\ all \in Nat
  BY <1>2, <1>4 DEF all
<1>8. \A k \in 1..all : First(k) \in Nat /\ Second(k) \in Nat
  BY <1>6
<1>9. \A k, m \in 1..all : First(k) = First(m) /\ Second(k) = Second(m) => k = m
  <2> TAKE k, m \in 1..all
  <2> HAVE First(k) = First(m) /\ Second(k) = Second(m)
  <2>1. (k - 1) \div n \in Int /\ (m - 1) \div n \in Int /\ (k - 1) % n \in Int /\ (m - 1) % n \in Int
    BY <1>6
  <2>2. (k - 1) \div n = (m - 1) \div n /\ (k - 1) % n = (m - 1) % n
    BY <2>1
  <2>3. k - 1 = m - 1
    BY <1>6, <2>2
  <2> QED
    BY <1>6, <2>3
<1> HIDE DEF First, Second
<1>10. \A k \in 1..all : r[k] \in PairsOf(a, b)
  BY <1>7, <1>8 DEF PairsOf
<1>11. r \in Seq(PairsOf(a, b)) /\ Len(r) = all
  <2> HIDE DEF PairsOf
  <2>1. r \in [1..all -> PairsOf(a, b)]
    BY <1>7, <1>10
  <2> QED
    BY <1>7, <2>1
<1>12. Distinct(r)
  BY <1>7, <1>9, <1>11 DEF Distinct
<1> QED
  BY <1>11, <1>12 DEF r

\* One more element at the end of a sequence.
LEMMA OneMore ==
    ASSUME NEW T, NEW s \in Seq(T), NEW e \in T
    PROVE  LET l == Append(s, e)
           IN  /\ l \in Seq(T) /\ Len(s) \in Nat /\ Len(l) = Len(s) + 1
               /\ l[Len(s) + 1] = e /\ \A i \in 1..Len(s) : l[i] = s[i]
               /\ ToSet(l) = ToSet(s) \cup {e}
<1> DEFINE l == Append(s, e)
<1>1. /\ l \in Seq(T) /\ Len(l) = Len(s) + 1 /\ Len(s) \in Nat
      /\ l[Len(s) + 1] = e /\ \A i \in 1..Len(s) : l[i] = s[i]
      /\ DOMAIN l = 1..(Len(s) + 1) /\ DOMAIN s = 1..Len(s)
  BY AppendProperties, LenProperties
<1> HIDE DEF l
<1>2. \A x : x \in ToSet(l) <=> x \in ToSet(s) \cup {e}
  BY <1>1 DEF ToSet
<1> QED
  BY <1>1, <1>2 DEF l

\* All but the first element of a sequence.
LEMMA OneLess ==
    ASSUME NEW T, NEW s \in Seq(T), s # <<>>
    PROVE  LET l == Tail(s)
           IN  /\ l \in Seq(T) /\ Len(s) \in Nat \ {0} /\ Len(l) = Len(s) - 1 /\ Head(s) = s[1]
               /\ \A i \in 1..Len(l) : l[i] = s[i + 1] /\ i + 1 \in 1..Len(s)
               /\ ToSet(l) \subseteq ToSet(s) /\ Head(s) \in ToSet(s)
               /\ Distinct(s) => Distinct(l) /\ Head(s) \notin ToSet(l)
<1> DEFINE l == Tail(s)
<1>1. /\ l \in Seq(T) /\ Len(s) \in Nat \ {0} /\ Len(l) = Len(s) - 1 /\ Head(s) = s[1]
      /\ \A i \in 1..Len(l) : l[i] = s[i + 1]
      /\ DOMAIN s = 1..Len(s) /\ DOMAIN l = 1..Len(l)
  BY EmptySeq, LenProperties
<1> HIDE DEF l
<1>2. \A i \in 1..Len(l) : i + 1 \in 1..Len(s) /\ i + 1 # 1
  BY <1>1
<1>3. ToSet(l) \subseteq ToSet(s) /\ Head(s) \in ToSet(s)
  BY <1>1, <1>2 DEF ToSet
<1>4. ASSUME Distinct(s) PROVE Distinct(l) /\ Head(s) \notin ToSet(l)
  <2>1. \A i \in 1..Len(l) : l[i] # s[1]
    BY <1>1, <1>2, <1>4 DEF Distinct
  <2>2. \A i, j \in 1..Len(l) : l[i] = l[j] => i + 1 = j + 1
    BY <1>1, <1>2, <1>4 DEF Distinct
  <2>3. \A i, j \in 1..Len(l) : i + 1 = j + 1 => i = j
    BY <1>1
  <2> QED
    BY <1>1, <2>1, <2>2, <2>3 DEF Distinct, ToSet
<1> QED
  BY <1>1, <1>2, <1>3, <1>4 DEF l

\* All but one element of a sequence.
LEMMA OneRemoved ==
    ASSUME NEW T, NEW s \in Seq(T), NEW k \in 1..Len(s)
    PROVE  LET l == RemoveAt(s, k)
           IN  /\ l \in Seq(T) /\ Len(s) \in Nat /\ Len(l) = Len(s) - 1
               /\ \A i \in 1..Len(l) : l[i] = s[IF i < k THEN i ELSE i + 1]
               /\ ToSet(l) \subseteq ToSet(s)
               /\ Distinct(s) => Distinct(l) /\ s[k] \notin ToSet(l)
<1> DEFINE l == RemoveAt(s, k)
           a == SubSeq(s, 1, k - 1)
           b == SubSeq(s, k + 1, Len(s))
<1>1. Len(s) \in Nat /\ DOMAIN s = 1..Len(s) /\ k \in Nat /\ 1 <= k /\ k <= Len(s)
  BY LenProperties
<1>2. a \in Seq(T) /\ Len(a) = k - 1 /\ \A i \in 1..(k - 1) : a[i] = s[i]
  BY <1>1, SubSeqProperties
<1>3. b \in Seq(T) /\ Len(b) = Len(s) - k /\ \A i \in 1..(Len(s) - k) : b[i] = s[k + i]
  <2> DEFINE m == k + 1
             n == Len(s)
  <2>0. /\ m \in Int /\ n \in Int /\ (\A i \in m..n : s[i] \in T) /\ b = SubSeq(s, m, n)
        /\ m = k + 1 /\ n = Len(s)
    BY <1>1, ElementOfSeq
  <2> HIDE DEF m, n
  <2>1. /\ b \in Seq(T) /\ Len(b) = IF k + 1 <= Len(s) THEN Len(s) - (k + 1) + 1 ELSE 0
        /\ \A i \in 1..(Len(s) - (k + 1) + 1) : b[i] = s[(k + 1) + i - 1]
    <3>1. /\ SubSeq(s, m, n) \in Seq(T) /\ Len(SubSeq(s, m, n)) = IF m <= n THEN n - m + 1 ELSE 0
          /\ \A i \in 1..(n - m + 1) : SubSeq(s, m, n)[i] = s[m + i - 1]
      BY <2>0, SubSeqProperties
    <3> QED
      BY <2>0, <3>1
  <2> HIDE DEF b
  <2>2. Len(s) - (k + 1) + 1 = Len(s) - k
    BY <1>1
  <2>4. Len(b) = Len(s) - k
    <3>1. CASE k + 1 <= Len(s)
      BY <2>1, <2>2, <3>1
    <3>2. CASE ~(k + 1 <= Len(s))
      <4>1. Len(b) = 0
        BY <2>1, <3>2
      <4>2. \A i, j \in Nat : i <= j /\ ~(i + 1 <= j) => j - i = 0
        OBVIOUS
      <4>3. Len(s) - k = 0
        BY <1>1, <3>2, <4>2
      <4> QED
        BY <4>1, <4>3
    <3> QED
      BY <3>1, <3>2
  <2>3. \A i \in 1..(Len(s) - k) : (k + 1) + i - 1 = k + i
    BY <1>1
  <2> QED
    BY <2>1, <2>2, <2>3, <2>4
<1>4. l = a \o b
  BY DEF RemoveAt
<1> HIDE DEF a, b, l
<1>5. /\ l \in Seq(T) /\ Len(l) = Len(s) - 1 /\ DOMAIN l = 1..Len(l)
      /\ \A i \in 1..Len(l) : l[i] = IF i < k THEN a[i] ELSE b[i - (k - 1)]
  <2>1. l \in Seq(T) /\ Len(l) = Len(a) + Len(b)
    BY <1>2, <1>3, <1>4, ConcatProperties
  <2>2. \A i \in 1..(Len(a) + Len(b)) : l[i] = IF i <= Len(a) THEN a[i] ELSE b[i - Len(a)]
    BY <1>2, <1>3, <1>4, ConcatProperties
  <2>3. \A i \in 1..Len(l) : i <= Len(a) <=> i < k
    BY <1>1, <1>2
  <2> QED
    BY <1>1, <1>2, <1>3, <2>1, <2>2, <2>3, LenProperties
<1> DEFINE p == [i \in 1..Len(l) |-> IF i < k THEN i ELSE i + 1]
<1>6. \A i \in 1..Len(l) : l[i] = s[p[i]]
  <2> TAKE i \in 1..Len(l)
  <2>1. CASE i < k
    BY <1>1, <1>2, <1>5, <2>1
  <2>2. CASE ~(i < k)
    <3>1. i - (k - 1) \in 1..(Len(s) - k) /\ k + (i - (k - 1)) = i + 1
      BY <1>1, <1>5, <2>2
    <3> QED
      BY <1>3, <1>5, <2>2, <3>1
  <2> QED
    BY <2>1, <2>2
<1>7. \A i \in 1..Len(l) : p[i] \in 1..Len(s) /\ p[i] # k
  BY <1>1, <1>5
<1>8. \A i, j \in 1..Len(l) : p[i] = p[j] => i = j
  BY <1>1, <1>5
<1>9. \A i \in 1..Len(l) : p[i] = IF i < k THEN i ELSE i + 1
  OBVIOUS
<1> HIDE DEF p
<1>10. ToSet(l) \subseteq ToSet(s)
  BY <1>1, <1>5, <1>6, <1>7 DEF ToSet
<1>11. ASSUME Distinct(s) PROVE Distinct(l) /\ s[k] \notin ToSet(l)
  <2>1. \A i \in 1..Len(l) : l[i] # s[k]
    BY <1>6, <1>7, <1>11 DEF Distinct
  <2>2. \A i, j \in 1..Len(l) : l[i] = l[j] => p[i] = p[j]
    BY <1>6, <1>7, <1>11 DEF Distinct
  <2> QED
    BY <1>5, <1>8, <2>1, <2>2 DEF Distinct, ToSet
<1> QED
  BY <1>1, <1>5, <1>6, <1>9, <1>10, <1>11 DEF l

\* A sequence without repetition has as many elements as places.
LEMMA DistinctCardinality ==
    ASSUME NEW T, NEW s \in Seq(T), Distinct(s)
    PROVE  Cardinality(ToSet(s)) = Len(s)
<1>1. Len(s) \in Nat /\ DOMAIN s = 1..Len(s)
  BY LenProperties
<1>2. s \in [1..Len(s) -> ToSet(s)]
  BY <1>1 DEF ToSet
<1>3. s \in Bijection(1..Len(s), ToSet(s))
  <2>1. \A x \in ToSet(s) : \E i \in 1..Len(s) : s[i] = x
    BY <1>1 DEF ToSet
  <2> QED
    BY <1>2, <2>1 DEF Distinct, Bijection, Injection, Surjection, IsInjective
<1>4. IsFiniteSet(1..Len(s)) /\ Cardinality(1..Len(s)) = Len(s)
  BY <1>1, FS_Interval
<1>5. Cardinality(ToSet(s)) = Cardinality(1..Len(s))
  BY <1>3, <1>4, FS_Bijection DEF ExistsBijection
<1> QED
  BY <1>4, <1>5

\* The orders of a set.
LEMMA AnyOrderOf ==
    ASSUME NEW S, IsFiniteSet(S), NEW s \in SetToSeqs(S)
    PROVE  s \in Seq(S) /\ Distinct(s) /\ ToSet(s) = S /\ Len(s) = Cardinality(S)
<1> DEFINE n == Cardinality(S)
<1>1. n \in Nat
  BY FS_CardinalityType
<1>2. s \in [1..n -> S] /\ \A i, j \in 1..n : i # j => s[i] # s[j]
  BY DEF SetToSeqs
<1> HIDE DEF n
<1>3. s \in Seq(S) /\ Len(s) = n /\ DOMAIN s = 1..n
  BY <1>1, <1>2
<1>4. Distinct(s)
  BY <1>2, <1>3 DEF Distinct
<1>5. s \in Injection(1..n, S)
  BY <1>2 DEF Injection, IsInjective
<1>6. Cardinality(1..n) = n
  BY <1>1, FS_Interval
<1>7. s \in Surjection(1..n, S)
  BY <1>5, <1>6, FS_Injection DEF n
<1>8. \A x : x \in ToSet(s) <=> x \in S
  BY <1>2, <1>3, <1>7 DEF Surjection, ToSet
<1> QED
  BY <1>3, <1>4, <1>8 DEF n

\* Clusters of a candidate on the detectors of an area, of a detector at most one if each.
OneEach(cs) == \A i, j \in 1..Len(cs) : cs[i][1] = cs[j][1] => i = j

Candidates(area, each) == {cs \in Seq(area \X Nat) : Len(cs) >= 2 /\ (each => OneEach(cs))}

\* The pair of reference clusters that a candidate begins with.
PairOf(cs) == <<cs[1], cs[2]>>

\* Every track of a search is a candidate, and no two are of the same pair.
FoundRight(area, each, fs) ==
    /\ fs \in Seq(ToSet(fs))
    /\ \A k \in 1..Len(fs) : fs[k].clusters \in Candidates(area, each)
    /\ \A k, l \in 1..Len(fs) : PairOf(fs[k].clusters) = PairOf(fs[l].clusters) => k = l

\* Of the pairs still to be looked at there is no track.
PairsRight(area, each, rs, ps, fs) ==
    ps # <<>> => \E a, b \in area :
        /\ each => a # b
        /\ rs = <<a, b>> /\ ps \in Seq(PairsOf(a, b)) /\ Distinct(ps)
        /\ \A k \in 1..Len(fs) : PairOf(fs[k].clusters) \notin ToSet(ps)

\* The planes still to be searched are not on the candidate, and its pair is new.
CandidateRight(area, each, pl, cs, ps, fs) ==
    /\ cs \in Candidates(area, each) /\ pl \in Seq(area)
    /\ each => Distinct(pl) /\ \A i \in 1..Len(cs) : cs[i][1] \notin ToSet(pl)
    /\ PairOf(cs) \notin ToSet(ps)
    /\ \A k \in 1..Len(fs) : PairOf(fs[k].clusters) # PairOf(cs)

SearchRight(area, each) ==
    /\ FoundRight(area, each, found)
    /\ at \in {"pair", "plane"} => PairsRight(area, each, references, pairs, found)
    /\ at = "plane" => CandidateRight(area, each, planes, candidate, pairs, found)

\* A pair of reference clusters is a candidate.
LEMMA PairCandidate ==
    ASSUME NEW area, NEW a \in area, NEW b \in area, NEW pair \in PairsOf(a, b)
    PROVE  /\ pair \in Seq(area \X Nat) /\ Len(pair) = 2 /\ PairOf(pair) = pair
           /\ pair[1][1] = a /\ pair[2][1] = b
           /\ a # b => OneEach(pair)
<1>1. PICK i, j \in Nat : pair = <<<<a, i>>, <<b, j>>>>
  BY DEF PairsOf
<1>2. pair \in Seq(area \X Nat) /\ Len(pair) = 2 /\ pair[1] = <<a, i>> /\ pair[2] = <<b, j>>
  BY <1>1
<1>3. a # b => OneEach(pair)
  <2> SUFFICES ASSUME a # b, NEW m \in 1..Len(pair), NEW n \in 1..Len(pair), pair[m][1] = pair[n][1]
               PROVE  m = n
    BY DEF OneEach
  <2>1. m \in {1, 2} /\ n \in {1, 2}
    BY <1>2
  <2>2. pair[1][1] = a /\ pair[2][1] = b
    BY <1>2
  <2> QED
    BY <2>1, <2>2
<1>4. PairOf(pair) = pair
  BY <1>1 DEF PairOf
<1>5. pair[1][1] = a /\ pair[2][1] = b
  BY <1>2
<1> QED
  BY <1>2, <1>3, <1>4, <1>5

\* The first pair is looked at.
LEMMA NextPairRight ==
    ASSUME NEW area, NEW each \in BOOLEAN, at = "pair", SearchRight(area, each),
           NEW orders, NextPair(orders),
           \A pl \in orders : pl \in Seq(area)
                              /\ (each => Distinct(pl) /\ ToSet(pl) \cap ToSet(references) = {})
    PROVE  SearchRight(area, each)' /\ at' \in {"pair", "plane"}
<1>1. /\ pairs # <<>> /\ pairs' = Tail(pairs) /\ found' = found /\ references' = references
      /\ \/ at' = "pair"
         \/ at' = "plane" /\ planes' \in orders /\ candidate' = Head(pairs)
  BY DEF NextPair, Proceed
<1>2. FoundRight(area, each, found) /\ PairsRight(area, each, references, pairs, found)
  BY DEF SearchRight
<1>3. PICK a \in area, b \in area :
        /\ each => a # b
        /\ references = <<a, b>> /\ pairs \in Seq(PairsOf(a, b)) /\ Distinct(pairs)
        /\ \A k \in 1..Len(found) : PairOf(found[k].clusters) \notin ToSet(pairs)
  BY <1>1, <1>2 DEF PairsRight
<1> DEFINE rest == Tail(pairs)
           pair == Head(pairs)
<1>4. /\ rest \in Seq(PairsOf(a, b)) /\ ToSet(rest) \subseteq ToSet(pairs) /\ pair \in ToSet(pairs)
      /\ Distinct(rest) /\ pair \notin ToSet(rest)
  BY <1>1, <1>3, OneLess
<1>5. pair \in PairsOf(a, b)
  <2>1. Len(pairs) # 0 /\ pair = pairs[1] /\ Len(pairs) \in Nat
    BY <1>1, <1>3, OneLess
  <2> QED
    BY <1>3, <2>1, ElementOfSeq
<1>6. pairs' = rest /\ (at' = "plane" => candidate' = pair)
  BY <1>1
<1> HIDE DEF rest, pair
<1>7. /\ pair \in Candidates(area, each) /\ Len(pair) = 2 /\ PairOf(pair) = pair
      /\ pair[1][1] = a /\ pair[2][1] = b
  <2>1. /\ pair \in Seq(area \X Nat) /\ Len(pair) = 2 /\ PairOf(pair) = pair
        /\ pair[1][1] = a /\ pair[2][1] = b
        /\ a # b => OneEach(pair)
    BY <1>5, PairCandidate
  <2>2. Len(pair) >= 2
    BY <2>1
  <2> HIDE DEF OneEach, PairOf
  <2>3. each => OneEach(pair)
    BY <1>3, <2>1
  <2>4. pair \in Candidates(area, each)
    BY <2>1, <2>2, <2>3, Zenon DEF Candidates
  <2> QED
    BY <2>1, <2>4
<1>8. PairsRight(area, each, references, rest, found)
  BY <1>3, <1>4 DEF PairsRight
<1>9. \A k \in 1..Len(found) : PairOf(found[k].clusters) # PairOf(pair)
  BY <1>3, <1>4, <1>7
<1>10. ASSUME NEW pl \in orders PROVE CandidateRight(area, each, pl, pair, rest, found)
  <2>1. pl \in Seq(area) /\ (each => Distinct(pl) /\ ToSet(pl) \cap ToSet(references) = {})
    OBVIOUS
  <2>2. a \in ToSet(references) /\ b \in ToSet(references)
    BY <1>3 DEF ToSet
  <2>3. \A i \in 1..Len(pair) : i \in {1, 2}
    BY <1>7
  <2>4. each => \A i \in 1..Len(pair) : pair[i][1] \notin ToSet(pl)
    BY <1>7, <2>1, <2>2, <2>3
  <2> QED
    BY <1>4, <1>7, <1>9, <2>1, <2>4 DEF CandidateRight
<1>11. at' = "plane" => CandidateRight(area, each, planes', candidate', pairs', found')
  BY <1>1, <1>6, <1>10
<1> QED
  BY <1>1, <1>2, <1>6, <1>8, <1>11 DEF SearchRight

\* One plane is searched.
LEMMA SearchPlaneRight ==
    ASSUME NEW area, NEW each \in BOOLEAN, at = "plane", SearchRight(area, each),
           NEW most, NEW least, SearchPlane(most, least),
           \A d \in area : hits[d] \in Seq(Int)
    PROVE  SearchRight(area, each)' /\ at' = "plane"
<1>1. /\ planes # <<>> /\ planes' = Tail(planes) /\ at' = "plane"
      /\ pairs' = pairs /\ found' = found /\ references' = references
      /\ \/ candidate' = candidate
         \/ \E i \in DOMAIN hits[Head(planes)] : candidate' = Append(candidate, <<Head(planes), i>>)
  BY DEF SearchPlane, Proceed, InTimeWindow
<1>2. /\ FoundRight(area, each, found) /\ PairsRight(area, each, references, pairs, found)
      /\ CandidateRight(area, each, planes, candidate, pairs, found)
  BY DEF SearchRight
<1> DEFINE d == Head(planes)
           rest == Tail(planes)
<1>3. /\ rest \in Seq(area) /\ ToSet(rest) \subseteq ToSet(planes) /\ d \in ToSet(planes)
      /\ Distinct(planes) => Distinct(rest) /\ d \notin ToSet(rest)
      /\ Len(planes) # 0 /\ d = planes[1] /\ Len(planes) \in Nat
  BY <1>1, <1>2, OneLess DEF CandidateRight
<1>4. d \in area
  BY <1>2, <1>3, ElementOfSeq DEF CandidateRight
<1>5. planes' = rest
  BY <1>1
<1>6. \/ candidate' = candidate
      \/ \E i \in DOMAIN hits[d] : candidate' = Append(candidate, <<d, i>>)
  BY <1>1
<1> HIDE DEF d, rest
<1>7. CandidateRight(area, each, rest, candidate, pairs, found)
  BY <1>2, <1>3 DEF CandidateRight
<1>8. ASSUME NEW i \in DOMAIN hits[d]
      PROVE  CandidateRight(area, each, rest, Append(candidate, <<d, i>>), pairs, found)
  <2> DEFINE cs == Append(candidate, <<d, i>>)
  <2>1. <<d, i>> \in area \X Nat
    <3>1. hits[d] \in Seq(Int)
      BY <1>4
    <3>2. DOMAIN hits[d] = 1..Len(hits[d]) /\ Len(hits[d]) \in Nat
      BY <3>1, LenProperties
    <3> QED
      BY <1>4, <3>2
  <2>2. candidate \in Seq(area \X Nat) /\ Len(candidate) >= 2 /\ (each => OneEach(candidate))
    BY <1>2 DEF CandidateRight, Candidates
  <2>3. /\ cs \in Seq(area \X Nat) /\ Len(candidate) \in Nat /\ Len(cs) = Len(candidate) + 1
        /\ cs[Len(candidate) + 1] = <<d, i>> /\ \A m \in 1..Len(candidate) : cs[m] = candidate[m]
    BY <2>1, <2>2, OneMore
  <2> HIDE DEF cs
  <2>4. PairOf(cs) = PairOf(candidate) /\ Len(cs) >= 2
    BY <2>2, <2>3 DEF PairOf
  <2>5. ASSUME each
        PROVE  OneEach(cs) /\ Distinct(rest) /\ \A m \in 1..Len(cs) : cs[m][1] \notin ToSet(rest)
    <3>1. \A m \in 1..Len(candidate) : candidate[m][1] \notin ToSet(planes)
      BY <1>2, <2>5 DEF CandidateRight
    <3>2. Distinct(rest) /\ d \notin ToSet(rest) /\ ToSet(rest) \subseteq ToSet(planes) /\ d \in ToSet(planes)
      BY <1>2, <1>3, <2>5 DEF CandidateRight
    <3>3. \A m \in 1..Len(cs) : m = Len(candidate) + 1 \/ m \in 1..Len(candidate)
      BY <2>3
    <3>4. cs[Len(candidate) + 1][1] = d
      BY <2>3
    <3>5. \A m \in 1..Len(candidate) : cs[m][1] # d /\ cs[m][1] \notin ToSet(rest)
      BY <2>3, <3>1, <3>2
    <3>6. \A m, n \in 1..Len(candidate) : cs[m][1] = cs[n][1] => m = n
      BY <2>2, <2>3, <2>5 DEF OneEach
    <3>7. OneEach(cs)
      BY <3>3, <3>4, <3>5, <3>6 DEF OneEach
    <3> QED
      BY <3>2, <3>3, <3>4, <3>5, <3>7
  <2>6. CandidateRight(area, each, rest, cs, pairs, found)
    BY <1>7, <2>3, <2>4, <2>5 DEF CandidateRight, Candidates
  <2> QED
    BY <2>6 DEF cs
<1>9. CandidateRight(area, each, planes', candidate', pairs', found')
  BY <1>1, <1>5, <1>6, <1>7, <1>8
<1> QED
  BY <1>1, <1>2, <1>9 DEF SearchRight

\* The candidate is kept.
LEMMA KeepRight ==
    ASSUME NEW area, NEW each \in BOOLEAN, at = "plane", SearchRight(area, each),
           NEW track, track.clusters = candidate, Keep(track)
    PROVE  SearchRight(area, each)' /\ at' = "pair" /\ found' = Append(found, track)
<1>1. /\ at' = "pair" /\ found' = Append(found, track) /\ pairs' = pairs /\ references' = references
  BY DEF Keep, Proceed, searchVars
<1>2. /\ FoundRight(area, each, found) /\ PairsRight(area, each, references, pairs, found)
      /\ CandidateRight(area, each, planes, candidate, pairs, found)
  BY DEF SearchRight
<1> DEFINE fs == Append(found, track)
           T == ToSet(found) \cup {track}
<1>3. /\ fs \in Seq(T) /\ Len(found) \in Nat /\ Len(fs) = Len(found) + 1
      /\ fs[Len(found) + 1] = track /\ (\A k \in 1..Len(found) : fs[k] = found[k])
      /\ ToSet(fs) = ToSet(found) \cup {track}
  <2>1. found \in Seq(T) /\ track \in T
    <3>1. found \in Seq(ToSet(found)) /\ ToSet(found) \subseteq T
      BY <1>2 DEF FoundRight
    <3> HIDE DEF T
    <3>2. found \in Seq(T)
      BY <3>1, LenProperties
    <3> QED
      BY <3>2 DEF T
  <2> HIDE DEF T
  <2> QED
    BY <2>1, OneMore
<1>4. fs \in Seq(ToSet(fs))
  BY <1>3
<1> HIDE DEF fs, T
<1>5. \A k \in 1..Len(fs) : k = Len(found) + 1 \/ k \in 1..Len(found)
  BY <1>3
<1>6. \A k \in 1..Len(fs) : fs[k].clusters \in Candidates(area, each)
  BY <1>2, <1>3, <1>5 DEF FoundRight, CandidateRight
<1>7. \A k \in 1..Len(found) : PairOf(fs[k].clusters) # PairOf(fs[Len(found) + 1].clusters)
  BY <1>2, <1>3 DEF CandidateRight
<1>8. \A k, l \in 1..Len(fs) : PairOf(fs[k].clusters) = PairOf(fs[l].clusters) => k = l
  <2>1. \A k, l \in 1..Len(found) : PairOf(fs[k].clusters) = PairOf(fs[l].clusters) => k = l
    BY <1>2, <1>3 DEF FoundRight
  <2> QED
    BY <1>5, <1>7, <2>1
<1>9. FoundRight(area, each, fs)
  BY <1>4, <1>6, <1>8 DEF FoundRight
<1>10. PairsRight(area, each, references, pairs, fs)
  <2>1. \A k \in 1..Len(found) : PairOf(found[k].clusters) \notin ToSet(pairs) => PairOf(fs[k].clusters) \notin ToSet(pairs)
    BY <1>3
  <2>2. PairOf(fs[Len(found) + 1].clusters) \notin ToSet(pairs)
    BY <1>2, <1>3 DEF CandidateRight
  <2>3. (\A k \in 1..Len(found) : PairOf(found[k].clusters) \notin ToSet(pairs)) =>
            \A k \in 1..Len(fs) : PairOf(fs[k].clusters) \notin ToSet(pairs)
    BY <1>5, <2>1, <2>2
  <2> HIDE DEF PairOf
  <2> QED
    BY <1>2, <2>3 DEF PairsRight
<1> QED
  BY <1>1, <1>9, <1>10 DEF SearchRight, fs

\* The candidate is not kept.
LEMMA DiscardRight ==
    ASSUME NEW area, NEW each \in BOOLEAN, at = "plane", SearchRight(area, each), Discard
    PROVE  SearchRight(area, each)' /\ at' = "pair" /\ found' = found
<1>1. at' = "pair" /\ found' = found /\ pairs' = pairs /\ references' = references
  BY DEF Discard, Proceed, searchVars
<1> QED
  BY <1>1 DEF SearchRight

\* A search begins with the first and the last of the detectors that are hit.
LEMMA BeginRight ==
    ASSUME NEW area, NEW each \in BOOLEAN, NEW s \in Seq(area), s # <<>>, each => Distinct(s) /\ Len(s) >= 2,
           \A d \in area : hits[d] \in Seq(Int),
           at' = "pair", found' = <<>>,
           references' = <<Head(s), Last(s)>>, pairs' = ReferencePairs(Head(s), Last(s))
    PROVE  SearchRight(area, each)'
<1> DEFINE a == Head(s)
           b == Last(s)
<1>1. /\ Len(s) \in Nat \ {0} /\ a = s[1] /\ b = s[Len(s)]
      /\ Distinct(s) /\ Len(s) >= 2 => a # b
  BY Ends
<1>2. a \in area /\ b \in area
  BY <1>1, ElementOfSeq
<1>3. references' = <<a, b>> /\ pairs' = ReferencePairs(a, b)
  OBVIOUS
<1> HIDE DEF a, b
<1>4. ReferencePairs(a, b) \in Seq(PairsOf(a, b)) /\ Distinct(ReferencePairs(a, b))
  BY <1>2, PairsDistinct
<1>5. found' = <<>> /\ Len(found') = 0 /\ 1..0 = {}
  OBVIOUS
<1>6. PairsRight(area, each, references', pairs', found')
  BY <1>1, <1>2, <1>3, <1>4, <1>5 DEF PairsRight
<1>7. FoundRight(area, each, found')
  BY <1>5 DEF FoundRight
<1> QED
  BY <1>6, <1>7 DEF SearchRight

-----------------------------------------------------------------------------
(* Tracking4D *)

\* Two detectors for the seed.
TwoSeeds == Cardinality(ToSet(Seeds)) >= 2

\* What Accepted asks of a candidate, and a chi2.
FitAccepted(t) ==
    /\ Len(t.clusters) >= chain.min_hits
    /\ \A d \in Required : ClusterFrom(t.clusters, d) # <<>>
    /\ t.chi2 \in Int

Tracking4DInv ==
    chain.module = "Tracking4D" =>
        /\ at \notin {"initialize", "begin"} => hits \in Inputs
        /\ at = "track" => found = <<>> /\ tracks = <<>>
        /\ at \in {"pair", "plane", "end"} => /\ SearchRight(ToSet(Searched), TwoSeeds)
                                              /\ \A k \in 1..Len(found) : FitAccepted(found[k])
        /\ at \in {"pair", "plane"} => tracks = <<>>
        /\ TracksWellFormed /\ BestTracksKept

\* The elements of a sequence are finitely many, and decide which type it has.
LEMMA SequenceOf ==
    ASSUME NEW T, NEW s \in Seq(T), NEW U, ToSet(s) \subseteq U
    PROVE  s \in Seq(U) /\ IsFiniteSet(ToSet(s))
<1>1. Len(s) \in Nat /\ DOMAIN s = 1..Len(s) /\ s = [i \in 1..Len(s) |-> s[i]]
  BY LenProperties
<1>2. \A i \in 1..Len(s) : s[i] \in ToSet(s)
  BY <1>1 DEF ToSet
<1>3. s \in Surjection(1..Len(s), ToSet(s))
  <2>1. \A x \in ToSet(s) : \E i \in 1..Len(s) : s[i] = x
    BY <1>1 DEF ToSet
  <2> QED
    BY <1>1, <1>2, <2>1 DEF Surjection
<1>4. IsFiniteSet(1..Len(s))
  <2>1. Len(s) \in Int /\ 1 \in Int
    BY <1>1
  <2> QED
    BY <2>1, FS_Interval
<1>5. IsFiniteSet(ToSet(s))
  BY <1>3, <1>4, FS_Surjection
<1>6. s \in Seq(U)
  BY <1>1, <1>2
<1> QED
  BY <1>5, <1>6

\* The detectors of a search are of the telescope, each once.
LEMMA RegularList ==
    ASSUME chain.detectors \in Seq(STRING), NEW duts
    PROVE  LET l == RegularDetectors(chain.detectors, chain.role, duts)
           IN  /\ l \in Seq(STRING) /\ ToSet(l) \subseteq Named
               /\ Distinct(chain.detectors) => Distinct(l)
<1> DEFINE roles == {"none", "reference"} \cup IF duts THEN {"dut"} ELSE {}
           S == {d \in ToSet(chain.detectors) : chain.role[d] \in roles}
           l == RegularDetectors(chain.detectors, chain.role, duts)
<1>1. l = Kept(chain.detectors, S)
  BY DEF RegularDetectors
<1> HIDE DEF S, l
<1>2. /\ l \in Seq(STRING) /\ ToSet(l) = ToSet(chain.detectors) \cap S
      /\ Distinct(chain.detectors) => Distinct(l)
  BY <1>1, PartOfList
<1> QED
  BY <1>2 DEF Named, l

\* The detectors of a list that are hit are of the list.
LEMMA HitList ==
    ASSUME NEW s \in Seq(STRING)
    PROVE  /\ HitDetectors(s) \in Seq(STRING) /\ ToSet(HitDetectors(s)) \subseteq ToSet(s)
           /\ Distinct(s) => Distinct(HitDetectors(s))
<1> DEFINE S == {d \in ToSet(s) : hits[d] # <<>>}
           l == HitDetectors(s)
<1>1. l = Kept(s, S)
  BY DEF HitDetectors
<1> HIDE DEF S, l
<1>2. l \in Seq(STRING) /\ ToSet(l) = ToSet(s) \cap S /\ (Distinct(s) => Distinct(l))
  BY <1>1, PartOfList
<1> QED
  BY <1>2 DEF l

\* The detectors that Tracking4D searches, and those of them for the seeds.
LEMMA Telescope4D ==
    ASSUME Configured, chain.module = "Tracking4D"
    PROVE  /\ Searched \in Seq(ToSet(Searched)) /\ Distinct(Searched) /\ ToSet(Searched) \subseteq Named
           /\ Seeds \in Seq(ToSet(Searched)) /\ Distinct(Seeds) /\ (TwoSeeds => Len(Seeds) >= 2)
           /\ \A S : /\ Kept(Searched, S) \in Seq(ToSet(Searched)) /\ Distinct(Kept(Searched, S))
                     /\ ToSet(Kept(Searched, S)) = ToSet(Searched) \cap S
<1>1. chain.detectors \in Seq(STRING) /\ Distinct(chain.detectors)
  BY TelescopeChain
<1> DEFINE l == Searched
           t == Trees
           sd == Seeds
<1>2. l \in Seq(STRING) /\ ToSet(l) \subseteq Named /\ Distinct(l)
  BY <1>1, RegularList DEF Searched
<1>3. t = HitDetectors(l) /\ sd = Kept(t, ToSet(t) \ chain.exclude_from_seed)
  BY DEF Trees, Seeds
<1> HIDE DEF l, t, sd
<1>4. t \in Seq(STRING) /\ ToSet(t) \subseteq ToSet(l) /\ Distinct(t)
  BY <1>2, <1>3, HitList
<1>5. sd \in Seq(STRING) /\ ToSet(sd) \subseteq ToSet(t) /\ Distinct(sd)
  BY <1>3, <1>4, PartOfList
<1>6. sd \in Seq(ToSet(l)) /\ l \in Seq(ToSet(l))
  BY <1>2, <1>4, <1>5, SequenceOf
<1>7. TwoSeeds => Len(sd) >= 2
  BY <1>5, TwoElements DEF TwoSeeds, sd
<1>8. ASSUME NEW S PROVE Kept(l, S) \in Seq(ToSet(l)) /\ Distinct(Kept(l, S)) /\ ToSet(Kept(l, S)) = ToSet(l) \cap S
  BY <1>2, <1>6, PartOfList
<1> QED
  BY <1>2, <1>5, <1>6, <1>7, <1>8 DEF l, sd

\* What FitAssumption says of the chain of Tracking4D.
LEMMA FitChain ==
    ASSUME Configured, chain.module = "Tracking4D"
    PROVE  chain.chi2s \subseteq Int
<1> DEFINE c == Chains[setup]
<1>1. c.module = "Tracking4D"
  BY ChainsAssumption DEF Configured
<1>2. "chi2s" \in DOMAIN c /\ c.chi2s \subseteq Int
  BY <1>1, FitAssumption DEF Configured
<1> QED
  BY <1>2 DEF Configured

\* What does not change while an event is searched.
LEMMA SearchedSame ==
    ASSUME chain' = chain
    PROVE  /\ Searched' = Searched /\ Required' = Required
           /\ \A cs, d : ClusterFrom(cs, d)' = ClusterFrom(cs, d)
           /\ hits' = hits => Seeds' = Seeds /\ TwoSeeds' = TwoSeeds
<1>1. Searched' = Searched /\ Required' = Required
  BY DEF Searched, Required
<1>2. hits' = hits => Seeds' = Seeds
  BY <1>1 DEF Seeds, Trees, HitDetectors
<1>3. hits' = hits => TwoSeeds' = TwoSeeds
  BY <1>2 DEF TwoSeeds
<1> QED
  BY <1>1, <1>2, <1>3 DEF ClusterFrom

\* A step that is not one of the tracking modules, of a chain with one.
LEMMA OtherThanTracking ==
    ASSUME LoopInv, [Next]_vars, chain.module \in {"Tracking4D", "TrackingMultiplet"}, ~TrackNext
    PROVE  /\ \/ at' = at \/ (at = "end" /\ at' \in {"begin", "finalize"})
              \/ (at = "initialize" /\ at' = "begin" /\ (chain.module = "TrackingMultiplet" => ArmsAccepted))
           /\ UNCHANGED trackingVars /\ UNCHANGED multipletVars
<1>1. CASE UNCHANGED vars
  BY <1>1 DEF vars, chainVars, loopVars, recoVars
<1>2. CASE Initialize
  BY <1>2 DEF Initialize, Proceed, recoVars
<1>3. CASE NextEvent
  BY <1>3 DEF NextEvent, EndOfEvent, recoVars
<1>4. ASSUME Next, ~Initialize, ~NextEvent PROVE FALSE
  BY <1>4, NextSteps, OwnSteps DEF LoopInv
<1> QED
  BY <1>1, <1>2, <1>3, <1>4

\* The steps of the two tracking modules.
LEMMA TrackingSteps ==
    ASSUME TrackNext
    PROVE  \/ ClustersArrive /\ UNCHANGED multipletVars
           \/ chain.module = "Tracking4D" /\ Tracking4DStep
           \/ chain.module = "TrackingMultiplet" /\ MultipletStep
BY DEF TrackNext, Track, Tracking4DStep, Tracking4DBegin, Tracking4DPair, Tracking4DPlane, Tracking4DSave,
       Tracking4DPut, MultipletStep, MultipletRefused, MultipletBegin, MultipletPair, MultipletPlane,
       MultipletSave, MultipletSearched, Isolate, Match, MultipletPut

\* Nothing has been found at the start.
LEMMA NoFound ==
    ASSUME NEW area, NEW each \in BOOLEAN
    PROVE  FoundRight(area, each, <<>>)
BY DEF FoundRight

\* A step within an event, of Tracking4D: what is left to show.
LEMMA Within4D ==
    ASSUME chain' = chain, setup' = setup, hits' = hits, hits \in Inputs, at' \in {"pair", "plane"},
           tracks' = <<>>, SearchRight(ToSet(Searched), TwoSeeds)',
           \A k \in 1..Len(found') : FitAccepted(found'[k])
    PROVE  Tracking4DInv'
<1>1. Inputs' = Inputs
  BY DEF Inputs
<1>2. Required' = Required
  BY SearchedSame
<1>3. (\A k \in 1..Len(found) : FitAccepted(found[k]))'
  BY <1>2 DEF FitAccepted
<1> QED
  BY <1>1, <1>3 DEF Tracking4DInv, TracksWellFormed, BestTracksKept

\* Clusters arrive: nothing has been found.
LEMMA Arrive4D ==
    ASSUME chain' = chain, setup' = setup, chain.module = "Tracking4D", ClustersArrive
    PROVE  Tracking4DInv'
<1>1. at' = "track" /\ hits' \in Inputs /\ found' = <<>> /\ tracks' = <<>>
  BY DEF ClustersArrive, Proceed
<1>2. Inputs' = Inputs
  BY DEF Inputs
<1> QED
  BY <1>1, <1>2 DEF Tracking4DInv, TracksWellFormed, BestTracksKept

\* The search begins.
LEMMA Begin4D ==
    ASSUME Configured, chain' = chain, setup' = setup, Tracking4DInv, Tracking4DBegin
    PROVE  Tracking4DInv'
<1>1. /\ chain.module = "Tracking4D" /\ at = "track" /\ hits' = hits /\ found' = found /\ tracks' = tracks
      /\ hits \in Inputs /\ found = <<>> /\ tracks = <<>>
  BY DEF Tracking4DBegin, Tracking4DInv
<1>2. Inputs' = Inputs /\ Len(found') = 0 /\ 1..0 = {}
  BY <1>1 DEF Inputs
<1>3. /\ Searched \in Seq(ToSet(Searched)) /\ ToSet(Searched) \subseteq Named
      /\ Seeds \in Seq(ToSet(Searched)) /\ Distinct(Seeds) /\ (TwoSeeds => Len(Seeds) >= 2)
  BY <1>1, Telescope4D
<1>4. Searched' = Searched /\ TwoSeeds' = TwoSeeds
  BY <1>1, SearchedSame
<1>5. \A d \in ToSet(Searched) : hits[d] \in Seq(Int)
  BY <1>1, <1>3, TelescopeChain
<1>6. PICK area : area = ToSet(Searched)
  OBVIOUS
<1>7. PICK each \in BOOLEAN : each <=> TwoSeeds
  BY DEF TwoSeeds
<1>8. area = ToSet(Searched') /\ (each <=> TwoSeeds')
  BY <1>4, <1>6, <1>7
<1>9. CASE Len(Trees) < 2
  <2>1. at' = "end"
    BY <1>9 DEF Tracking4DBegin, Proceed
  <2>2. FoundRight(ToSet(Searched'), TwoSeeds', found')
    BY <1>1, NoFound DEF FoundRight
  <2>3. SearchRight(ToSet(Searched), TwoSeeds)'
    BY <2>1, <2>2 DEF SearchRight
  <2>4. (\A k \in 1..Len(found) : FitAccepted(found[k]))'
    BY <1>2
  <2>5. TracksWellFormed' /\ BestTracksKept'
    BY <1>1 DEF TracksWellFormed, BestTracksKept
  <2> QED
    BY <1>1, <1>2, <2>1, <2>3, <2>4, <2>5 DEF Tracking4DInv
<1>10. CASE ~(Len(Trees) < 2)
  <2>1. /\ at' = "pair"
        /\ IF Seeds = <<>> THEN references' = <<>> /\ pairs' = <<>>
           ELSE /\ references' = <<Head(Seeds), Last(Seeds)>>
                /\ pairs' = ReferencePairs(Head(Seeds), Last(Seeds))
    BY <1>10 DEF Tracking4DBegin, Proceed
  <2>2. SearchRight(area, each)'
    <3>1. CASE Seeds = <<>>
      BY <1>1, <2>1, <3>1, NoFound DEF SearchRight, PairsRight
    <3>2. CASE Seeds # <<>>
      <4> DEFINE sd == Seeds
      <4>1. sd \in Seq(area) /\ sd # <<>> /\ (each => Distinct(sd) /\ Len(sd) >= 2)
        BY <1>3, <1>6, <1>7, <3>2
      <4>2. references' = <<Head(sd), Last(sd)>> /\ pairs' = ReferencePairs(Head(sd), Last(sd))
        BY <2>1, <3>2
      <4>3. (\A d \in area : hits[d] \in Seq(Int)) /\ at' = "pair" /\ found' = <<>>
        BY <1>1, <1>5, <1>6, <2>1
      <4> HIDE DEF sd
      <4> QED
        BY <4>1, <4>2, <4>3, BeginRight
    <3> QED
      BY <3>1, <3>2
  <2>3. SearchRight(ToSet(Searched), TwoSeeds)'
    BY <1>6, <1>7, <1>4, <2>2 DEF SearchRight
  <2> QED
    BY <1>1, <1>2, <2>1, <2>3, Within4D
<1> QED
  BY <1>9, <1>10

\* Tracking4D looks at the next pair.
LEMMA Pair4D ==
    ASSUME Configured, chain' = chain, setup' = setup, Tracking4DInv, Tracking4DPair
    PROVE  Tracking4DInv'
<1>1. /\ chain.module = "Tracking4D" /\ NextPair({Between})
      /\ at = "pair" /\ hits' = hits /\ found' = found /\ tracks' = tracks
  BY DEF Tracking4DPair, NextPair, Proceed
<1>2. /\ hits \in Inputs /\ SearchRight(ToSet(Searched), TwoSeeds) /\ tracks = <<>>
      /\ \A k \in 1..Len(found) : FitAccepted(found[k])
  BY <1>1 DEF Tracking4DInv
<1>3. PICK area : area = ToSet(Searched)
  OBVIOUS
<1>4. PICK each \in BOOLEAN : each <=> TwoSeeds
  BY DEF TwoSeeds
<1>5. /\ Between \in Seq(area) /\ Distinct(Between) /\ ToSet(Between) \cap ToSet(references) = {}
  BY <1>1, <1>3, Telescope4D DEF Between
<1>6. Searched' = Searched /\ TwoSeeds' = TwoSeeds
  BY <1>1, SearchedSame
<1>7. SearchRight(area, each)
  BY <1>2, <1>3, <1>4 DEF SearchRight
<1>8. \A pl \in {Between} : pl \in Seq(area) /\ (each => Distinct(pl) /\ ToSet(pl) \cap ToSet(references) = {})
  BY <1>5
<1>9. SearchRight(area, each)' /\ at' \in {"pair", "plane"}
  <2> DEFINE orders == {Between}
  <2>1. NextPair(orders)
    BY <1>1
  <2>2. \A pl \in orders : pl \in Seq(area) /\ (each => Distinct(pl) /\ ToSet(pl) \cap ToSet(references) = {})
    BY <1>8
  <2> HIDE DEF orders
  <2> QED
    BY <1>1, <1>7, <2>1, <2>2, NextPairRight
<1>10. SearchRight(ToSet(Searched), TwoSeeds)'
  BY <1>3, <1>4, <1>6, <1>9 DEF SearchRight
<1> QED
  BY <1>1, <1>2, <1>9, <1>10, Within4D

\* Tracking4D searches one plane.
LEMMA Plane4D ==
    ASSUME Configured, chain' = chain, setup' = setup, Tracking4DInv, Tracking4DPlane
    PROVE  Tracking4DInv'
<1>1. /\ chain.module = "Tracking4D" /\ SearchPlane(Len(Trees), chain.min_hits)
      /\ at = "plane" /\ hits' = hits /\ found' = found /\ tracks' = tracks
  BY DEF Tracking4DPlane, SearchPlane, Proceed
<1>2. /\ hits \in Inputs /\ SearchRight(ToSet(Searched), TwoSeeds) /\ tracks = <<>>
      /\ \A k \in 1..Len(found) : FitAccepted(found[k])
  BY <1>1 DEF Tracking4DInv
<1>3. PICK area : area = ToSet(Searched)
  OBVIOUS
<1>4. PICK each \in BOOLEAN : each <=> TwoSeeds
  BY DEF TwoSeeds
<1>5. \A d \in area : hits[d] \in Seq(Int)
  BY <1>1, <1>2, <1>3, Telescope4D, TelescopeChain
<1>6. Searched' = Searched /\ TwoSeeds' = TwoSeeds
  BY <1>1, SearchedSame
<1>7. SearchRight(area, each)
  BY <1>2, <1>3, <1>4 DEF SearchRight
<1>8. PICK m, n : m = Len(Trees) /\ n = chain.min_hits
  OBVIOUS
<1>9. SearchPlane(m, n)
  BY <1>1, <1>8
<1>10. SearchRight(area, each)' /\ at' = "plane"
  BY <1>1, <1>5, <1>7, <1>9, SearchPlaneRight
<1>11. SearchRight(ToSet(Searched), TwoSeeds)'
  BY <1>3, <1>4, <1>6, <1>10 DEF SearchRight
<1> QED
  BY <1>1, <1>2, <1>10, <1>11, Within4D

\* Tracking4D keeps the candidate, with a fit, or not.
LEMMA Save4D ==
    ASSUME Configured, chain' = chain, setup' = setup, Tracking4DInv, Tracking4DSave
    PROVE  Tracking4DInv'
<1>1. /\ chain.module = "Tracking4D" /\ at = "plane" /\ hits' = hits /\ tracks' = tracks
  BY DEF Tracking4DSave, Keep, Discard, Proceed
<1>2. /\ hits \in Inputs /\ SearchRight(ToSet(Searched), TwoSeeds) /\ tracks = <<>>
      /\ \A k \in 1..Len(found) : FitAccepted(found[k])
  BY <1>1 DEF Tracking4DInv
<1>3. PICK area : area = ToSet(Searched)
  OBVIOUS
<1>4. PICK each \in BOOLEAN : each <=> TwoSeeds
  BY DEF TwoSeeds
<1>5. Searched' = Searched /\ TwoSeeds' = TwoSeeds
  BY <1>1, SearchedSame
<1>6. SearchRight(area, each)
  BY <1>2, <1>3, <1>4 DEF SearchRight
<1>7. CASE Discard
  <2>1. SearchRight(area, each)' /\ at' = "pair" /\ found' = found
    BY <1>1, <1>6, <1>7, DiscardRight
  <2>2. SearchRight(ToSet(Searched), TwoSeeds)'
    BY <1>3, <1>4, <1>5, <2>1 DEF SearchRight
  <2> QED
    BY <1>1, <1>2, <2>1, <2>2, Within4D
<1>8. CASE ~Discard
  <2>1. PICK chi2 \in chain.chi2s :
          /\ Accepted
          /\ Keep([clusters |-> candidate, chi2 |-> chi2,
                   time |-> IF chain.timestamp_from = "" THEN AverageTime(candidate)
                            ELSE AverageTime(SubSeq(ClusterFrom(candidate, chain.timestamp_from), 1, 1))])
    BY <1>8 DEF Tracking4DSave
  <2>2. PICK track : track = [clusters |-> candidate, chi2 |-> chi2,
                   time |-> IF chain.timestamp_from = "" THEN AverageTime(candidate)
                            ELSE AverageTime(SubSeq(ClusterFrom(candidate, chain.timestamp_from), 1, 1))]
    OBVIOUS
  <2>3. track.clusters = candidate /\ track.chi2 = chi2
    BY <2>2
  <2>4. Keep(track)
    BY <2>1, <2>2
  <2>5. FitAccepted(track)
    <3>1. chi2 \in Int
      BY <1>1, FitChain
    <3> QED
      BY <2>1, <2>3, <3>1 DEF FitAccepted, Accepted
  <2>6. SearchRight(area, each)' /\ at' = "pair" /\ found' = Append(found, track)
    BY <1>1, <1>6, <2>3, <2>4, KeepRight
  <2>7. SearchRight(ToSet(Searched), TwoSeeds)'
    BY <1>3, <1>4, <1>5, <2>6 DEF SearchRight
  <2>8. \A k \in 1..Len(found') : FitAccepted(found'[k])
    <3> DEFINE T == ToSet(found) \cup {track}
    <3>1. found \in Seq(ToSet(found)) /\ ToSet(found) \subseteq T /\ track \in T
      BY <1>6 DEF SearchRight, FoundRight
    <3> HIDE DEF T
    <3>2. found \in Seq(T)
      BY <3>1, SequenceOf
    <3>3. /\ Len(found) \in Nat /\ Len(found') = Len(found) + 1
          /\ found'[Len(found) + 1] = track /\ \A k \in 1..Len(found) : found'[k] = found[k]
      BY <2>6, <3>1, <3>2, OneMore
    <3>4. \A k \in 1..Len(found') : k = Len(found) + 1 \/ k \in 1..Len(found)
      BY <3>3
    <3> QED
      BY <1>2, <2>5, <3>3, <3>4
  <2> QED
    BY <1>1, <1>2, <2>6, <2>7, <2>8, Within4D
<1> QED
  BY <1>7, <1>8

\* The first cluster of a detector.
LEMMA ClusterOf ==
    ASSUME NEW T, NEW cs \in Seq(T), NEW d
    PROVE  /\ ClusterFrom(cs, d) # <<>> <=> \E c \in ToSet(cs) : c[1] = d
           /\ ClusterFrom(cs, d) # <<>> => ClusterFrom(cs, d)[1] \in ToSet(cs) /\ ClusterFrom(cs, d)[1][1] = d
<1> DEFINE S == {c \in ToSet(cs) : c[1] = d}
           l == ClusterFrom(cs, d)
<1>1. l = Kept(cs, S)
  BY DEF ClusterFrom
<1>2. \A c : c \in S <=> c \in ToSet(cs) /\ c[1] = d
  OBVIOUS
<1> HIDE DEF S, l
<1>3. l \in Seq(T) /\ ToSet(l) = ToSet(cs) \cap S
  BY <1>1, PartOfList
<1>4. l # <<>> => l[1] \in ToSet(l)
  BY <1>3, Ends
<1>5. l = <<>> => ToSet(l) = {}
  BY DEF ToSet
<1> QED
  BY <1>2, <1>3, <1>4, <1>5 DEF l

\* Tracks with the same cluster on a detector share it, and the other way round if no
\* track has two of one detector.
LEMMA DuplicatedShare ==
    ASSUME NEW T, NEW a, NEW b, a.clusters \in Seq(T), b.clusters \in Seq(T)
    PROVE  /\ Duplicated(a, b) => Clusters(a) \cap Clusters(b) # {}
           /\ OneEach(a.clusters) /\ OneEach(b.clusters) /\ a.clusters \in Seq(ToSet(Searched) \X Nat) =>
                (Clusters(a) \cap Clusters(b) # {} => Duplicated(a, b))
<1> DEFINE ca(d) == ClusterFrom(a.clusters, d)
           cb(d) == ClusterFrom(b.clusters, d)
<1>1. \A d : /\ ca(d) # <<>> <=> \E c \in ToSet(a.clusters) : c[1] = d
             /\ ca(d) # <<>> => ca(d)[1] \in ToSet(a.clusters) /\ ca(d)[1][1] = d
             /\ cb(d) # <<>> <=> \E c \in ToSet(b.clusters) : c[1] = d
             /\ cb(d) # <<>> => cb(d)[1] \in ToSet(b.clusters) /\ cb(d)[1][1] = d
  BY ClusterOf
<1>2. Duplicated(a, b) <=> \E d \in ToSet(Searched) : ca(d) # <<>> /\ cb(d) # <<>> /\ ca(d)[1] = cb(d)[1]
  BY DEF Duplicated
<1> HIDE DEF ca, cb
<1>3. Duplicated(a, b) => Clusters(a) \cap Clusters(b) # {}
  BY <1>1, <1>2 DEF Clusters
<1>4. ASSUME OneEach(a.clusters), OneEach(b.clusters), a.clusters \in Seq(ToSet(Searched) \X Nat),
             NEW c \in Clusters(a) \cap Clusters(b)
      PROVE  Duplicated(a, b)
  <2>1. c \in ToSet(a.clusters) /\ c \in ToSet(b.clusters)
    BY <1>4 DEF Clusters
  <2>2. \A cs \in Seq(T) : OneEach(cs) => \A x, y \in ToSet(cs) : x[1] = y[1] => x = y
    <3> TAKE cs \in Seq(T)
    <3>1. DOMAIN cs = 1..Len(cs)
      BY LenProperties
    <3> QED
      BY <3>1 DEF OneEach, ToSet
  <2>3. c[1] \in ToSet(Searched)
    <3> DEFINE cs == a.clusters
    <3>1. cs \in Seq(ToSet(Searched) \X Nat) /\ c \in ToSet(cs)
      BY <1>4, <2>1
    <3> HIDE DEF cs
    <3>2. DOMAIN cs = 1..Len(cs) /\ \A i \in 1..Len(cs) : cs[i] \in ToSet(Searched) \X Nat
      BY <3>1, LenProperties, ElementOfSeq
    <3>3. c \in ToSet(Searched) \X Nat
      BY <3>1, <3>2 DEF ToSet
    <3> QED
      BY <3>3
  <2>4. ca(c[1]) # <<>> /\ ca(c[1])[1] = c /\ cb(c[1]) # <<>> /\ cb(c[1])[1] = c
    BY <1>1, <1>4, <2>1, <2>2
  <2> QED
    BY <1>2, <2>3, <2>4
<1> QED
  BY <1>3, <1>4

\* The loop that erases tracks, which EraseDuplicated folds over them.
ErasedBy(ks, t) == IF \E k \in DOMAIN ks : Duplicated(t, ks[k]) THEN ks ELSE Append(ks, t)

\* What is kept of the first i tracks.
KeptOf(ts, i, ks) ==
    /\ ks \in Seq(ToSet(ts))
    /\ \A l \in 1..Len(ks) : \E j \in 1..i : ks[l] = ts[j]
    /\ \A l, m \in 1..Len(ks) : l # m => ~Duplicated(ks[l], ks[m])
    /\ \A j \in 1..i : \E l \in 1..Len(ks), p \in 1..i :
            p <= j /\ ks[l] = ts[p] /\ (Duplicated(ts[j], ks[l]) \/ p = j)

\* Sharing a cluster is mutual.
LEMMA DuplicatedBoth == \A a, b : Duplicated(a, b) <=> Duplicated(b, a)
BY DEF Duplicated

\* One round of the loop that erases tracks.
LEMMA EraseOne ==
    ASSUME NEW ts, ts \in Seq(ToSet(ts)), NEW i \in 1..Len(ts), NEW ks, KeptOf(ts, i - 1, ks)
    PROVE  KeptOf(ts, i, ErasedBy(ks, ts[i]))
<1>1. /\ ks \in Seq(ToSet(ts)) /\ DOMAIN ks = 1..Len(ks) /\ Len(ks) \in Nat
      /\ \A l \in 1..Len(ks) : \E j \in 1..(i - 1) : ks[l] = ts[j]
      /\ \A l, m \in 1..Len(ks) : l # m => ~Duplicated(ks[l], ks[m])
      /\ \A j \in 1..(i - 1) : \E l \in 1..Len(ks), p \in 1..(i - 1) :
            p <= j /\ ks[l] = ts[p] /\ (Duplicated(ts[j], ks[l]) \/ p = j)
  BY LenProperties DEF KeptOf
<1>2. /\ i \in Nat /\ i \in 1..i /\ (\A j \in 1..(i - 1) : j \in 1..i /\ j <= i)
      /\ \A j \in 1..i : j = i \/ j \in 1..(i - 1)
  BY LenProperties
<1> DEFINE t == ts[i]
<1>3. t \in ToSet(ts)
  BY LenProperties DEF ToSet
<1>4. ErasedBy(ks, ts[i]) = ErasedBy(ks, t) /\ t = ts[i]
  OBVIOUS
<1> HIDE DEF t
<1>5. \A j \in 1..(i - 1) : \E l \in 1..Len(ks), p \in 1..i :
            p <= j /\ ks[l] = ts[p] /\ (Duplicated(ts[j], ks[l]) \/ p = j)
  BY <1>1, <1>2
<1>6. CASE \E k \in 1..Len(ks) : Duplicated(t, ks[k])
  <2>1. ErasedBy(ks, t) = ks
    BY <1>1, <1>6 DEF ErasedBy
  <2>2. PICK k \in 1..Len(ks) : Duplicated(t, ks[k])
    BY <1>6
  <2>3. PICK j \in 1..(i - 1) : ks[k] = ts[j]
    BY <1>1
  <2>4. \E l \in 1..Len(ks), p \in 1..i :
            p <= i /\ ks[l] = ts[p] /\ (Duplicated(ts[i], ks[l]) \/ p = i)
    BY <1>2, <1>4, <2>2, <2>3
  <2>5. \A m \in 1..i : \E l \in 1..Len(ks), p \in 1..i :
            p <= m /\ ks[l] = ts[p] /\ (Duplicated(ts[m], ks[l]) \/ p = m)
    <3> TAKE m \in 1..i
    <3>1. CASE m = i
      BY <2>4, <3>1
    <3>2. CASE m \in 1..(i - 1)
      BY <1>5, <3>2
    <3> QED
      BY <1>2, <3>1, <3>2
  <2>6. \A l \in 1..Len(ks) : \E m \in 1..i : ks[l] = ts[m]
    BY <1>1, <1>2
  <2>7. KeptOf(ts, i, ks)
    BY <1>1, <2>5, <2>6 DEF KeptOf
  <2> QED
    BY <1>4, <2>1, <2>7
<1>7. CASE ~\E k \in 1..Len(ks) : Duplicated(t, ks[k])
  <2> DEFINE l1 == Append(ks, t)
  <2>1. ErasedBy(ks, t) = l1
    BY <1>1, <1>7 DEF ErasedBy
  <2>2. /\ l1 \in Seq(ToSet(ts)) /\ Len(l1) = Len(ks) + 1
        /\ l1[Len(ks) + 1] = t /\ \A l \in 1..Len(ks) : l1[l] = ks[l]
    BY <1>1, <1>3, OneMore
  <2> HIDE DEF l1
  <2>3. /\ \A l \in 1..Len(l1) : l = Len(ks) + 1 \/ l \in 1..Len(ks)
        /\ Len(ks) + 1 \in 1..Len(l1) /\ \A l \in 1..Len(ks) : l \in 1..Len(l1)
    BY <1>1, <2>2
  <2>4. \A l \in 1..Len(l1) : \E m \in 1..i : l1[l] = ts[m]
    <3> TAKE l \in 1..Len(l1)
    <3>1. CASE l = Len(ks) + 1
      BY <1>2, <1>4, <2>2, <3>1
    <3>2. CASE l \in 1..Len(ks)
      BY <1>1, <1>2, <2>2, <3>2
    <3> QED
      BY <2>3, <3>1, <3>2
  <2>5. \A l \in 1..Len(ks) : ~Duplicated(l1[l], t) /\ ~Duplicated(t, l1[l])
    BY <1>7, <2>2, DuplicatedBoth
  <2>6. \A l, m \in 1..Len(l1) : l # m => ~Duplicated(l1[l], l1[m])
    BY <1>1, <2>2, <2>3, <2>5
  <2>7. \A m \in 1..i : \E l \in 1..Len(l1), p \in 1..i :
            p <= m /\ l1[l] = ts[p] /\ (Duplicated(ts[m], l1[l]) \/ p = m)
    <3> TAKE m \in 1..i
    <3>1. CASE m = i
      <4>1. l1[Len(ks) + 1] = ts[i] /\ Len(ks) + 1 \in 1..Len(l1) /\ i <= i
        BY <1>2, <1>4, <2>2, <2>3
      <4> QED
        BY <1>2, <3>1, <4>1
    <3>2. CASE m \in 1..(i - 1)
      <4>1. PICK l \in 1..Len(ks), p \in 1..i :
              p <= m /\ ks[l] = ts[p] /\ (Duplicated(ts[m], ks[l]) \/ p = m)
        BY <1>5, <3>2
      <4>2. l \in 1..Len(l1) /\ l1[l] = ks[l]
        BY <2>2, <2>3
      <4> QED
        BY <4>1, <4>2
    <3> QED
      BY <1>2, <3>1, <3>2
  <2>8. KeptOf(ts, i, l1)
    BY <2>2, <2>4, <2>6, <2>7 DEF KeptOf
  <2> QED
    BY <1>4, <2>1, <2>8
<1> QED
  BY <1>6, <1>7

\* What EraseDuplicated has made of a part of the tracks.
Erased(ts) ==
    CHOOSE iter : iter = [s \in SUBSET DOMAIN ts |->
        IF s = {} THEN <<>> ELSE ErasedBy(iter[s \ {Max(s)}], ts[Max(s)])]

\* The whole loop: of tracks that share a cluster the first one is kept.
LEMMA EraseKeeps ==
    ASSUME NEW ts, ts \in Seq(ToSet(ts))
    PROVE  KeptOf(ts, Len(ts), EraseDuplicated(ts))
<1> DEFINE n == Len(ts)
           V == Seq(ToSet(ts))
           step == [i \in 1..n |-> [v \in V |-> ErasedBy(v, ts[i])]]
<1>1. n \in Nat /\ DOMAIN ts = 1..n /\ \A i \in 1..n : ts[i] \in ToSet(ts)
  BY LenProperties DEF ToSet
<1>2. \A i \in 1..n : \A v \in V : ErasedBy(v, ts[i]) \in V
  BY <1>1, OneMore DEF ErasedBy
<1>3. <<>> \in V
  OBVIOUS
<1> HIDE DEF V, n
<1>4. step \in Bodies(V, n)
  BY <1>2 DEF Bodies
<1>5. PICK f : IsLeftFold(f, V, n, step, <<>>)
  <2> HIDE DEF step
  <2> QED
    BY <1>1, <1>3, <1>4, LeftFold
<1>6. f = [s \in SUBSET DOMAIN ts |->
              IF s = {} THEN <<>> ELSE ErasedBy(f[s \ {Max(s)}], ts[Max(s)])]
  <2>1. \A s \in SUBSET (1..n) : s # {} => f[s] = ErasedBy(f[s \ {Max(s)}], ts[Max(s)])
    <3> TAKE s \in SUBSET (1..n)
    <3>1. s \ {Max(s)} \in SUBSET (1..n)
      OBVIOUS
    <3>2. f[s \ {Max(s)}] \in V
      BY <1>5, <3>1 DEF IsLeftFold
    <3> QED
      BY <1>5, <3>2 DEF IsLeftFold
  <2>2. f = [s \in SUBSET (1..n) |-> f[s]] /\ f[{}] = <<>>
    BY <1>5 DEF IsLeftFold
  <2> HIDE DEF step
  <2> QED
    BY <1>1, <2>1, <2>2, Zenon
<1> DEFINE k == Erased(ts)
<1>7. k = [s \in SUBSET DOMAIN ts |->
              IF s = {} THEN <<>> ELSE ErasedBy(k[s \ {Max(s)}], ts[Max(s)])]
  <2> HIDE DEF step
  <2> QED
    BY <1>6, Zenon DEF Erased
<1> HIDE DEF k, step
<1> DEFINE P == {i \in 0..n : KeptOf(ts, i, k[1..i])}
<1>8. 0 \in P
  <2>1. 1..0 = {} /\ {} \in SUBSET DOMAIN ts
    BY RangeEnds
  <2>2. k[1..0] = <<>>
    BY <1>7, <2>1, Zenon
  <2>3. 0 \in 0..n /\ Len(<<>>) = 0 /\ \A j \in 1..0 : FALSE
    BY <1>1
  <2>4. KeptOf(ts, 0, <<>>)
    BY <2>3 DEF KeptOf
  <2> QED
    BY <2>2, <2>3, <2>4
<1>9. \A i \in 1..n : i - 1 \in P => i \in P
  <2> TAKE i \in 1..n
  <2> HAVE i - 1 \in P
  <2>1. /\ 1..i \in SUBSET (1..n) /\ 1..i # {} /\ Max(1..i) = i /\ (1..i) \ {i} = 1..(i - 1)
    BY <1>1, RangeEnds
  <2>2. k[1..i] = ErasedBy(k[1..(i - 1)], ts[i])
    BY <1>1, <1>7, <2>1, Zenon
  <2>3. KeptOf(ts, i - 1, k[1..(i - 1)])
    OBVIOUS
  <2>4. KeptOf(ts, i, ErasedBy(k[1..(i - 1)], ts[i]))
    BY <2>3, EraseOne DEF n
  <2>5. i \in 0..n
    BY <1>1
  <2> QED
    BY <2>2, <2>4, <2>5
<1>10. KeptOf(ts, n, k[1..n])
  <2>1. \A i \in 0..n : i \in P
    <3> HIDE DEF P
    <3> QED
      BY <1>1, <1>8, <1>9, UpTo
  <2>2. n \in 0..n
    BY <1>1
  <2> QED
    BY <2>1, <2>2
<1>11. EraseDuplicated(ts) = k[DOMAIN ts]
  BY DEF EraseDuplicated, FoldLeft, MapThenFoldSet, Erased, ErasedBy, k
<1> QED
  BY <1>1, <1>10, <1>11 DEF n

\* A track of the search, of two detectors for the seed.
LEMMA WellFormedTrack ==
    ASSUME NEW area, NEW t, NEW each \in BOOLEAN, t.clusters \in Candidates(area, each), FitAccepted(t)
    PROVE  /\ Len(t.clusters) >= chain.min_hits
           /\ \A d \in chain.require_detectors : \E c \in Clusters(t) : c[1] = d
           /\ \A c \in Clusters(t) : c[1] \in area
           /\ each => /\ \A c, e \in Clusters(t) : c[1] = e[1] => c = e
                      /\ Cardinality(Clusters(t)) = Len(t.clusters)
<1> DEFINE cs == t.clusters
           T == area \X Nat
<1>1. cs \in Seq(T) /\ (each => OneEach(cs)) /\ Clusters(t) = ToSet(cs) /\ cs \in Seq(area \X Nat)
  BY DEF Candidates, Clusters
<1>2. Len(cs) >= chain.min_hits /\ \A d \in Required : ClusterFrom(cs, d) # <<>>
  BY DEF FitAccepted
<1> HIDE DEF cs, T
<1>3. DOMAIN cs = 1..Len(cs) /\ \A i \in 1..Len(cs) : cs[i] \in area \X Nat
  BY <1>1, LenProperties, ElementOfSeq
<1>4. each => \A c, e \in ToSet(cs) : c[1] = e[1] => c = e
  BY <1>1, <1>3 DEF OneEach, ToSet
<1>5. each => Cardinality(ToSet(cs)) = Len(cs)
  <2>1. each => Distinct(cs)
    BY <1>1 DEF OneEach, Distinct
  <2> QED
    BY <1>1, <2>1, DistinctCardinality
<1>6. \A d \in chain.require_detectors : \E c \in ToSet(cs) : c[1] = d
  <2> TAKE d \in chain.require_detectors
  <2>1. ClusterFrom(cs, d) # <<>>
    BY <1>2 DEF Required
  <2> QED
    BY <1>1, <2>1, ClusterOf
<1>7. \A c \in ToSet(cs) : c[1] \in area
  BY <1>3 DEF ToSet
<1> QED
  BY <1>1, <1>2, <1>4, <1>5, <1>6, <1>7 DEF cs

\* The tracks are sorted, and those with a cluster of a better one are erased.
LEMMA BestOf ==
    ASSUME NEW fs, fs \in Seq(ToSet(fs)), NEW s \in SortedByChi2(fs),
           \A k \in 1..Len(fs) : fs[k].chi2 \in Int
    PROVE  LET kept == EraseDuplicated(s)
           IN  /\ kept \in Seq(ToSet(kept))
               /\ \A k \in 1..Len(kept) : \E j \in 1..Len(fs) : kept[k] = fs[j]
               /\ \A k, l \in 1..Len(kept) : k # l => ~Duplicated(kept[k], kept[l])
               /\ \A k \in 1..Len(fs) : \E l \in 1..Len(kept) :
                    kept[l].chi2 <= fs[k].chi2 /\ (Duplicated(fs[k], kept[l]) \/ kept[l] = fs[k])
<1> DEFINE n == Len(fs)
           kept == EraseDuplicated(s)
<1>1. n \in Nat /\ DOMAIN fs = 1..n /\ \A i \in 1..n : fs[i] \in ToSet(fs)
  BY LenProperties, ElementOfSeq
<1>2. PICK p \in SetToSeqs(DOMAIN fs) : s = [k \in DOMAIN p |-> fs[p[k]]]
  BY DEF SortedByChi2
<1>3. \A m1, n1 \in DOMAIN s : m1 < n1 => s[m1].chi2 <= s[n1].chi2
  BY DEF SortedByChi2
<1> HIDE DEF n
<1>4. IsFiniteSet(1..n) /\ Cardinality(1..n) = n
  BY <1>1, FS_Interval
<1>5. p \in Seq(1..n) /\ ToSet(p) = 1..n /\ Len(p) = n
  BY <1>1, <1>2, <1>4, AnyOrderOf
<1>6. DOMAIN p = 1..n /\ (\A i \in 1..n : p[i] \in 1..n) /\ \A k \in 1..n : \E i \in 1..n : p[i] = k
  BY <1>5, LenProperties, ElementOfSeq DEF ToSet
<1>7. s = [k \in 1..n |-> fs[p[k]]] /\ Len(s) = n /\ DOMAIN s = 1..n
  BY <1>1, <1>2, <1>6
<1>8. s \in Seq(ToSet(s))
  <2>1. \A i \in 1..n : s[i] \in ToSet(s)
    BY <1>7 DEF ToSet
  <2>2. s = [i \in 1..n |-> s[i]]
    BY <1>7
  <2> DEFINE U == ToSet(s)
  <2> HIDE DEF U
  <2>3. s \in [1..n -> U]
    BY <2>1, <2>2 DEF U
  <2>4. s \in Seq(U)
    BY <1>1, <2>3
  <2> QED
    BY <2>4 DEF U
<1>9. KeptOf(s, n, kept)
  BY <1>7, <1>8, EraseKeeps
<1> HIDE DEF kept
<1>10. /\ kept \in Seq(ToSet(s))
       /\ \A l \in 1..Len(kept) : \E j \in 1..n : kept[l] = s[j]
       /\ \A l, m \in 1..Len(kept) : l # m => ~Duplicated(kept[l], kept[m])
       /\ \A j \in 1..n : \E l \in 1..Len(kept), q \in 1..n :
            q <= j /\ kept[l] = s[q] /\ (Duplicated(s[j], kept[l]) \/ q = j)
  BY <1>9 DEF KeptOf
<1>11. \A k \in 1..Len(kept) : \E j \in 1..n : kept[k] = fs[j]
  <2> TAKE k \in 1..Len(kept)
  <2>1. PICK j \in 1..n : kept[k] = s[j]
    BY <1>10
  <2>2. s[j] = fs[p[j]] /\ p[j] \in 1..n
    BY <1>6, <1>7
  <2> QED
    BY <2>1, <2>2
<1>12. \A k \in 1..n : \E l \in 1..Len(kept) :
            kept[l].chi2 <= fs[k].chi2 /\ (Duplicated(fs[k], kept[l]) \/ kept[l] = fs[k])
  <2> TAKE k \in 1..n
  <2>1. PICK j \in 1..n : p[j] = k
    BY <1>6
  <2>2. s[j] = fs[k]
    BY <1>7, <2>1
  <2>3. PICK l \in 1..Len(kept) : \E q \in 1..n :
            q <= j /\ kept[l] = s[q] /\ (Duplicated(s[j], kept[l]) \/ q = j)
    BY <1>10
  <2>4. PICK q \in 1..n : q <= j /\ kept[l] = s[q] /\ (Duplicated(s[j], kept[l]) \/ q = j)
    BY <2>3
  <2>5. s[q].chi2 <= s[j].chi2
    <3>1. CASE q = j
      <4>1. fs[k].chi2 \in Int
        BY DEF n
      <4> QED
        BY <2>2, <3>1, <4>1
    <3>2. CASE q # j
      <4>1. q < j
        BY <1>1, <2>4, <3>2
      <4> QED
        BY <1>3, <1>7, <4>1
    <3> QED
      BY <3>1, <3>2
  <2> QED
    BY <2>2, <2>4, <2>5
<1>13. kept \in Seq(ToSet(kept))
  BY <1>10, SequenceOf
<1> QED
  BY <1>10, <1>11, <1>12, <1>13 DEF n, kept

\* Tracking4D puts its tracks on the clipboard, the best of those that share clusters.
LEMMA Put4D ==
    ASSUME Configured, chain' = chain, setup' = setup, Tracking4DInv, Tracking4DPut
    PROVE  Tracking4DInv'
<1>1. /\ chain.module = "Tracking4D" /\ at = "pair" /\ at' = "end" /\ hits' = hits /\ found' = found
      /\ IF chain.unique_cluster_usage /\ Len(found) > 1
         THEN \E s \in SortedByChi2(found) : tracks' = EraseDuplicated(s)
         ELSE tracks' = found
  BY DEF Tracking4DPut, Proceed
<1>2. /\ hits \in Inputs /\ SearchRight(ToSet(Searched), TwoSeeds)
      /\ \A k \in 1..Len(found) : FitAccepted(found[k])
  BY <1>1 DEF Tracking4DInv
<1>3. FoundRight(ToSet(Searched), TwoSeeds, found)
  BY <1>2 DEF SearchRight
<1>4. Searched' = Searched /\ TwoSeeds' = TwoSeeds /\ Seeds' = Seeds /\ Required' = Required /\ Inputs' = Inputs
  BY <1>1, SearchedSame DEF Inputs
<1> DEFINE fs == found
<1>5. fs \in Seq(ToSet(fs)) /\ Len(fs) \in Nat /\ DOMAIN fs = 1..Len(fs)
  BY <1>3, LenProperties DEF FoundRight
<1> HIDE DEF fs
<1> DEFINE ts == tracks'
<1>6. ts = fs \/ (chain.unique_cluster_usage /\ \E s \in SortedByChi2(fs) : ts = EraseDuplicated(s))
  BY <1>1 DEF fs
<1>7. chain.unique_cluster_usage /\ ts = fs =>
        Len(fs) <= 1 \/ \E s \in SortedByChi2(fs) : ts = EraseDuplicated(s)
  BY <1>1, <1>5 DEF fs
<1>8. \A k \in 1..Len(fs) : FitAccepted(fs[k]) /\ fs[k].clusters \in Candidates(ToSet(Searched), TwoSeeds)
                            /\ fs[k].chi2 \in Int
  BY <1>2, <1>3 DEF fs, FoundRight, FitAccepted
<1> HIDE DEF ts
<1>9. ASSUME NEW s \in SortedByChi2(fs), ts = EraseDuplicated(s)
      PROVE
        /\ ts \in Seq(ToSet(ts))
        /\ \A k \in 1..Len(ts) : \E j \in 1..Len(fs) : ts[k] = fs[j]
        /\ \A k, l \in 1..Len(ts) : k # l => ~Duplicated(ts[k], ts[l])
        /\ \A k \in 1..Len(fs) : \E l \in 1..Len(ts) :
                ts[l].chi2 <= fs[k].chi2 /\ (Duplicated(fs[k], ts[l]) \/ ts[l] = fs[k])
  <2>1. \A k \in 1..Len(fs) : fs[k].chi2 \in Int
    BY <1>8
  <2> DEFINE kept == EraseDuplicated(s)
  <2>2. /\ kept \in Seq(ToSet(kept))
        /\ \A k \in 1..Len(kept) : \E j \in 1..Len(fs) : kept[k] = fs[j]
        /\ \A k, l \in 1..Len(kept) : k # l => ~Duplicated(kept[k], kept[l])
        /\ \A k \in 1..Len(fs) : \E l \in 1..Len(kept) :
                kept[l].chi2 <= fs[k].chi2 /\ (Duplicated(fs[k], kept[l]) \/ kept[l] = fs[k])
    BY <1>5, <2>1, BestOf
  <2>3. kept = ts
    BY <1>9
  <2> HIDE DEF kept
  <2> QED
    BY <2>2, <2>3
<1>10. ts \in Seq(ToSet(ts)) /\ DOMAIN ts = 1..Len(ts) /\ \A k \in 1..Len(ts) : \E j \in 1..Len(fs) : ts[k] = fs[j]
  <2>1. ts \in Seq(ToSet(ts)) /\ \A k \in 1..Len(ts) : \E j \in 1..Len(fs) : ts[k] = fs[j]
    BY <1>5, <1>6, <1>9
  <2> QED
    BY <2>1, LenProperties
<1>11. \A k \in 1..Len(ts) : FitAccepted(ts[k]) /\ ts[k].clusters \in Candidates(ToSet(Searched), TwoSeeds)
  BY <1>8, <1>10
<1>12. PICK area : area = ToSet(Searched)
  OBVIOUS
<1>13. \A k \in 1..Len(fs) : fs[k].clusters \in Seq(area \X Nat) /\ Clusters(fs[k]) # {} /\ fs[k].chi2 \in Int
                             /\ (TwoSeeds => fs[k].clusters \in Candidates(area, TRUE))
                             /\ (TwoSeeds => OneEach(fs[k].clusters))
  <2> TAKE k \in 1..Len(fs)
  <2> DEFINE cs == fs[k].clusters
  <2>1. cs \in Candidates(area, TwoSeeds)
    BY <1>8, <1>12
  <2> HIDE DEF cs
  <2>2. cs \in Seq(area \X Nat) /\ Len(cs) >= 2 /\ (TwoSeeds => OneEach(cs))
    BY <2>1 DEF Candidates
  <2>3. cs[1] \in ToSet(cs)
    BY <2>2, LenProperties DEF ToSet
  <2>4. TwoSeeds => cs \in Candidates(area, TRUE)
    BY <2>2 DEF Candidates
  <2> QED
    BY <1>8, <2>2, <2>3, <2>4 DEF Clusters, cs
<1>14. TracksWellFormed'
  <2>1. ASSUME NEW k \in 1..Len(ts)
        PROVE  /\ Len(ts[k].clusters) >= chain.min_hits
               /\ \A d \in chain.require_detectors : \E c \in Clusters(ts[k]) : c[1] = d
               /\ \A c \in Clusters(ts[k]) : c[1] \in area
               /\ TwoSeeds => /\ \A c, e \in Clusters(ts[k]) : c[1] = e[1] => c = e
                              /\ Cardinality(Clusters(ts[k])) = Len(ts[k].clusters)
    <3>1. PICK t : t = ts[k]
      OBVIOUS
    <3>2. PICK each \in BOOLEAN : each <=> TwoSeeds
      BY DEF TwoSeeds
    <3>3. FitAccepted(t) /\ t.clusters \in Candidates(area, each)
      BY <1>11, <1>12, <2>1, <3>1, <3>2 DEF Candidates
    <3> QED
      BY <3>1, <3>2, <3>3, WellFormedTrack
  <2>2. Cardinality(ToSet(Seeds')) >= 2 => TwoSeeds
    BY <1>4 DEF TwoSeeds
  <2>3. ASSUME NEW k \in DOMAIN ts
        PROVE  /\ Len(ts[k].clusters) >= chain'.min_hits
               /\ \A d \in chain'.require_detectors : \E c \in Clusters(ts[k]) : c[1] = d
               /\ \A c \in Clusters(ts[k]) : c[1] \in ToSet(Searched')
               /\ TwoSeeds => /\ \A c, e \in Clusters(ts[k]) : c[1] = e[1] => c = e
                              /\ Cardinality(Clusters(ts[k])) = Len(ts[k].clusters)
    BY <1>4, <1>10, <1>12, <2>1, <2>3
  <2> QED
    BY <2>2, <2>3 DEF TracksWellFormed, ts
<1>15. BestTracksKept'
  <2> SUFFICES ASSUME chain.unique_cluster_usage PROVE BestTracksKept'
    BY DEF BestTracksKept
  <2>1. \A k, l \in 1..Len(ts) : k # l => ~Duplicated(ts[k], ts[l])
    <3>1. CASE \E s \in SortedByChi2(fs) : ts = EraseDuplicated(s)
      BY <1>9, <3>1
    <3>2. CASE ts = fs /\ Len(fs) <= 1
      BY <1>5, <3>2
    <3> QED
      BY <1>6, <1>7, <3>1, <3>2
  <2>2. \A k \in 1..Len(fs) : \E l \in 1..Len(ts) :
            ts[l].chi2 <= fs[k].chi2 /\ (Duplicated(fs[k], ts[l]) \/ ts[l] = fs[k])
    <3>1. CASE \E s \in SortedByChi2(fs) : ts = EraseDuplicated(s)
      BY <1>9, <3>1
    <3>2. CASE ts = fs
      <4>1. \A k \in 1..Len(fs) : fs[k].chi2 <= fs[k].chi2
        <5>1. \A x \in Int : x <= x
          OBVIOUS
        <5>2. \A k \in 1..Len(fs) : fs[k].chi2 \in Int
          BY <1>13
        <5> QED
          BY <5>1, <5>2
      <4> QED
        BY <3>2, <4>1
    <3> QED
      BY <1>6, <3>1, <3>2
  <2>3. ASSUME TwoSeeds, NEW k \in DOMAIN ts, NEW l \in DOMAIN ts, k # l
        PROVE  Clusters(ts[k]) \cap Clusters(ts[l]) = {}
    <3>1. PICK a, b : a = ts[k] /\ b = ts[l]
      OBVIOUS
    <3>2. /\ a.clusters \in Seq(area \X Nat) /\ b.clusters \in Seq(area \X Nat)
          /\ OneEach(a.clusters) /\ OneEach(b.clusters)
      BY <1>10, <1>13, <2>3, <3>1
    <3>3. ~Duplicated(a, b)
      BY <1>10, <2>1, <2>3, <3>1
    <3>4. a.clusters \in Seq(ToSet(Searched) \X Nat)
      BY <1>12, <3>2
    <3>5. Clusters(a) \cap Clusters(b) = {}
      BY <3>2, <3>3, <3>4, DuplicatedShare
    <3> QED
      BY <3>1, <3>5
  <2>4. ASSUME NEW k \in DOMAIN fs
        PROVE  \E l \in DOMAIN ts : /\ ts[l].chi2 <= fs[k].chi2
                                    /\ Clusters(ts[l]) \cap Clusters(fs[k]) # {}
    <3>1. PICK l \in 1..Len(ts) : ts[l].chi2 <= fs[k].chi2 /\ (Duplicated(fs[k], ts[l]) \/ ts[l] = fs[k])
      BY <1>5, <2>2
    <3>2. PICK a, b : a = fs[k] /\ b = ts[l]
      OBVIOUS
    <3>3. a.clusters \in Seq(area \X Nat) /\ b.clusters \in Seq(area \X Nat) /\ Clusters(a) # {}
      BY <1>5, <1>10, <1>13, <3>2
    <3>4. CASE b = a
      <4>1. Clusters(b) \cap Clusters(a) # {}
        BY <3>3, <3>4
      <4> QED
        BY <1>10, <3>1, <3>2, <4>1
    <3>5. CASE Duplicated(a, b)
      <4>1. Clusters(a) \cap Clusters(b) # {}
        BY <3>3, <3>5, DuplicatedShare
      <4>2. Clusters(b) \cap Clusters(a) # {}
        BY <4>1
      <4> QED
        BY <1>10, <3>1, <3>2, <4>2
    <3> QED
      BY <3>1, <3>2, <3>4, <3>5
  <2>5. Cardinality(ToSet(Seeds')) >= 2 => TwoSeeds
    BY <1>4 DEF TwoSeeds
  <2>6. Cardinality(ToSet(Seeds')) >= 2 =>
            \A k, l \in DOMAIN ts : k # l => Clusters(ts[k]) \cap Clusters(ts[l]) = {}
    BY <2>3, <2>5
  <2> QED
    BY <1>1, <2>4, <2>6 DEF BestTracksKept, ts, fs
<1>16. SearchRight(ToSet(Searched), TwoSeeds)'
  BY <1>1, <1>3, <1>4 DEF SearchRight
<1>17. (\A k \in 1..Len(found) : FitAccepted(found[k]))'
  BY <1>1, <1>2, <1>4 DEF FitAccepted
<1> QED
  BY <1>1, <1>2, <1>4, <1>14, <1>15, <1>16, <1>17 DEF Tracking4DInv

\* Every step keeps the search of Tracking4D right.
LEMMA Tracking4DInvStep ==
    ASSUME LoopInv, Tracking4DInv, [Next]_vars
    PROVE  Tracking4DInv'
<1>1. chain' = chain /\ setup' = setup /\ Configured
  BY LoopStep DEF LoopInv
<1>2. CASE chain.module # "Tracking4D"
  BY <1>1, <1>2 DEF Tracking4DInv
<1>3. CASE chain.module = "Tracking4D" /\ TrackNext
  <2>1. CASE ClustersArrive
    BY <1>1, <1>3, <2>1, Arrive4D
  <2>2. CASE Tracking4DBegin
    BY <1>1, <2>2, Begin4D
  <2>3. CASE Tracking4DPair
    BY <1>1, <2>3, Pair4D
  <2>4. CASE Tracking4DPlane
    BY <1>1, <2>4, Plane4D
  <2>5. CASE Tracking4DSave
    BY <1>1, <2>5, Save4D
  <2>6. CASE Tracking4DPut
    BY <1>1, <2>6, Put4D
  <2>7. ClustersArrive \/ Tracking4DStep
    BY <1>3, TrackingSteps
  <2> QED
    BY <2>1, <2>2, <2>3, <2>4, <2>5, <2>6, <2>7 DEF Tracking4DStep
<1>4. CASE chain.module = "Tracking4D" /\ ~TrackNext
  <2>1. /\ at' = at \/ (at = "end" /\ at' \in {"begin", "finalize"}) \/ (at = "initialize" /\ at' = "begin")
        /\ hits' = hits /\ references' = references /\ pairs' = pairs /\ planes' = planes
        /\ candidate' = candidate /\ found' = found /\ tracks' = tracks
    BY <1>4, OtherThanTracking DEF trackingVars, searchVars
  <2>2. Searched' = Searched /\ TwoSeeds' = TwoSeeds /\ Seeds' = Seeds /\ Required' = Required /\ Inputs' = Inputs
    BY <1>1, <2>1, SearchedSame DEF Inputs
  <2>3. (at \notin {"initialize", "begin"} => hits \in Inputs)'
    BY <1>4, <2>1, <2>2 DEF Tracking4DInv
  <2>4. (at = "track" => found = <<>> /\ tracks = <<>>)' /\ (at \in {"pair", "plane"} => tracks = <<>>)'
    BY <1>4, <2>1 DEF Tracking4DInv
  <2>5. ASSUME at' \in {"pair", "plane", "end"}
        PROVE  SearchRight(ToSet(Searched), TwoSeeds)' /\ (\A k \in 1..Len(found) : FitAccepted(found[k]))'
    <3>1. at' = at
      BY <2>1, <2>5
    <3>2. SearchRight(ToSet(Searched), TwoSeeds) /\ \A k \in 1..Len(found) : FitAccepted(found[k])
      BY <1>4, <2>5, <3>1 DEF Tracking4DInv
    <3>3. SearchRight(ToSet(Searched), TwoSeeds)'
      BY <2>1, <2>2, <3>1, <3>2 DEF SearchRight
    <3>4. (\A k \in 1..Len(found) : FitAccepted(found[k]))'
      BY <1>1, <2>1, <2>2, <3>2 DEF FitAccepted
    <3> QED
      BY <3>3, <3>4
  <2>6. TracksWellFormed' /\ BestTracksKept'
    <3>1. CASE at' # "end"
      BY <3>1 DEF TracksWellFormed, BestTracksKept
    <3>2. CASE at' = "end"
      <4>1. at' = at /\ TracksWellFormed /\ BestTracksKept
        BY <1>4, <2>1, <3>2 DEF Tracking4DInv
      <4>2. TracksWellFormed'
        BY <1>1, <2>1, <2>2, <4>1 DEF TracksWellFormed
      <4>3. BestTracksKept'
        BY <1>1, <2>1, <2>2, <4>1 DEF BestTracksKept
      <4> QED
        BY <4>2, <4>3
    <3> QED
      BY <3>1, <3>2
  <2> QED
    BY <2>3, <2>4, <2>5, <2>6 DEF Tracking4DInv
<1> QED
  BY <1>2, <1>3, <1>4

-----------------------------------------------------------------------------
(* TrackingMultiplet *)

\* Finitely many numbers have a largest and a smallest one.
LEMMA ExtremesOf ==
    ASSUME NEW n \in Nat, NEW f \in [1..n -> Int], NEW base \in Int
    PROVE  LET S == {base} \cup {f[i] : i \in 1..n}
           IN  /\ Max(S) \in S /\ \A x \in S : x <= Max(S)
               /\ Min(S) \in S /\ \A x \in S : Min(S) <= x
<1> DEFINE S(k) == {base} \cup {f[i] : i \in 1..k}
           P == {k \in 0..n : /\ \E m \in S(k) : \A x \in S(k) : x <= m
                              /\ \E m \in S(k) : \A x \in S(k) : m <= x}
<1>1. \A k \in 0..n : S(k) \subseteq Int
  OBVIOUS
<1>2. 0 \in P
  <2>1. S(0) = {base}
    OBVIOUS
  <2>2. base <= base
    OBVIOUS
  <2> HIDE DEF S
  <2> QED
    BY <2>1, <2>2
<1>3. \A k \in 1..n : k - 1 \in P => k \in P
  <2> TAKE k \in 1..n
  <2> HAVE k - 1 \in P
  <2>1. k \in 0..n /\ k - 1 \in 0..n /\ f[k] \in Int /\ S(k - 1) \subseteq Int
    BY <1>1
  <2>2. S(k) = S(k - 1) \cup {f[k]}
    <3>1. \A i : i \in 1..k <=> i \in 1..(k - 1) \/ i = k
      OBVIOUS
    <3> QED
      BY <3>1
  <2>3. PICK m \in S(k - 1) : \A x \in S(k - 1) : x <= m
    OBVIOUS
  <2>4. PICK l \in S(k - 1) : \A x \in S(k - 1) : l <= x
    OBVIOUS
  <2> HIDE DEF S
  <2>5. \E y \in S(k) : \A x \in S(k) : x <= y
    <3>1. CASE f[k] <= m
      BY <2>1, <2>2, <2>3, <3>1
    <3>2. CASE ~(f[k] <= m)
      <4>1. \A x \in S(k - 1) : x <= f[k]
        BY <2>1, <2>3, <3>2
      <4>2. f[k] <= f[k]
        BY <2>1
      <4> QED
        BY <2>2, <4>1, <4>2
    <3> QED
      BY <3>1, <3>2
  <2>6. \E y \in S(k) : \A x \in S(k) : y <= x
    <3>1. CASE l <= f[k]
      BY <2>1, <2>2, <2>4, <3>1
    <3>2. CASE ~(l <= f[k])
      <4>1. \A x \in S(k - 1) : f[k] <= x
        BY <2>1, <2>4, <3>2
      <4>2. f[k] <= f[k]
        BY <2>1
      <4> QED
        BY <2>2, <4>1, <4>2
    <3> QED
      BY <3>1, <3>2
  <2> QED
    BY <2>1, <2>5, <2>6
<1>4. n \in P
  <2>1. \A k \in 0..n : k \in P
    <3> HIDE DEF P
    <3> QED
      BY <1>2, <1>3, UpTo
  <2>2. n \in 0..n
    OBVIOUS
  <2> HIDE DEF P
  <2> QED
    BY <2>1, <2>2
<1> DEFINE Whole == S(n)
<1>5. /\ \E m \in Whole : \A x \in Whole : x <= m
      /\ \E m \in Whole : \A x \in Whole : m <= x
  BY <1>4
<1>6. Whole \subseteq Int /\ Whole = {base} \cup {f[i] : i \in 1..n}
  BY <1>1
<1> HIDE DEF Whole, S, P
<1>7. \E m \in Whole : \A x \in Whole : m >= x
  BY <1>5, <1>6
<1>8. Max(Whole) \in Whole /\ \A x \in Whole : Max(Whole) >= x
  BY <1>7, Zenon DEF Max
<1>9. Min(Whole) \in Whole /\ \A x \in Whole : Min(Whole) <= x
  BY <1>5, Zenon DEF Min
<1>10. \A x \in Whole : x <= Max(Whole)
  BY <1>6, <1>8
<1> QED
  BY <1>6, <1>8, <1>9, <1>10

\* What ArmsAssumption says of the chain of TrackingMultiplet.
LEMMA ArmsChain ==
    ASSUME Configured, chain.module = "TrackingMultiplet"
    PROVE  /\ chain.arms \in [Streams -> Seq(STRING)]
           /\ \A d \in Named : chain.z[d] \in Int
<1> DEFINE c == Chains[setup]
<1>1. c.module = "TrackingMultiplet"
  BY ChainsAssumption DEF Configured
<1>2. /\ {"arms", "z", "scatterer_position"} \subseteq DOMAIN c
      /\ c.arms \in [Streams -> Seq(STRING)]
      /\ \A d \in ToSet(c.detectors) : c.z[d] \in Int
  BY <1>1, ArmsAssumption DEF Configured
<1>3. chain.arms = c.arms /\ chain.z = c.z
  BY <1>2 DEF Configured
<1>4. "detectors" \in DOMAIN c
  BY <1>1, SearchAssumption DEF Configured
<1>5. chain.detectors = c.detectors
  BY <1>4 DEF Configured
<1> QED
  BY <1>2, <1>3, <1>5 DEF Named

\* The detectors of an arm that is accepted.
LEMMA ArmList ==
    ASSUME Configured, chain.module = "TrackingMultiplet", ArmsAccepted, NEW s \in Streams
    PROVE  /\ Arm(s) \in Seq(STRING) /\ ToSet(Arm(s)) \subseteq Named
           /\ Len(Arm(s)) >= 2 /\ MinHits(s) \in Nat /\ MinHits(s) >= 2
<1>1. chain.detectors \in Seq(STRING)
  BY TelescopeChain
<1>2. Arm(s) \in Seq(STRING)
  <2>1. CASE chain.arms[s] # <<>>
    <3>1. chain.arms[s] \in Seq(STRING)
      BY ArmsChain
    <3>2. Arm(s) = chain.arms[s]
      BY <2>1 DEF Arm
    <3> QED
      BY <3>1, <3>2
  <2>2. CASE chain.arms[s] = <<>>
    <3> DEFINE l == RegularDetectors(chain.detectors, chain.role, FALSE)
    <3>1. \E S : Arm(s) = Kept(l, S)
      BY <2>2 DEF Arm
    <3>2. l \in Seq(STRING)
      BY <1>1, RegularList
    <3> HIDE DEF l
    <3>3. PICK S : Arm(s) = Kept(l, S)
      BY <3>1
    <3>4. Kept(l, S) \in Seq(STRING)
      BY <3>2, PartOfList
    <3> QED
      BY <3>3, <3>4
  <2> QED
    BY <2>1, <2>2
<1>3. ToSet(Arm(s)) \subseteq Named
  BY DEF ArmsAccepted, Named
<1>4. Len(Arm(s)) >= 2 /\ MinHits(s) \in 2..Len(Arm(s))
  BY DEF ArmsAccepted
<1>5. Len(Arm(s)) \in Nat
  BY <1>2, LenProperties
<1> QED
  BY <1>2, <1>3, <1>4, <1>5

\* The detectors of an arm are on its side of the scatterer.
LEMMA ArmSides ==
    ASSUME Configured, chain.module = "TrackingMultiplet", ArmsAccepted
    PROVE  \A z \in Scatterer :
              /\ \A d \in ToSet(Arm("upstream")) : chain.z[d] <= z
              /\ \A d \in ToSet(Arm("downstream")) : chain.z[d] >= z
<1> DEFINE u == Arm("upstream")
           w == Arm("downstream")
           f == [i \in 1..Len(u) |-> chain.z[u[i]]]
           g == [i \in 1..Len(w) |-> chain.z[w[i]]]
           U == {Tiny} \cup {f[i] : i \in 1..Len(u)}
           W == {g[1]} \cup {g[i] : i \in 1..Len(w)}
<1>1. /\ u \in Seq(STRING) /\ ToSet(u) \subseteq Named /\ Len(u) >= 2
      /\ w \in Seq(STRING) /\ ToSet(w) \subseteq Named /\ Len(w) >= 2
  BY ArmList DEF Streams
<1> HIDE DEF u, w
<1>2. /\ Len(u) \in Nat /\ DOMAIN u = 1..Len(u) /\ \A i \in 1..Len(u) : u[i] \in ToSet(u)
      /\ Len(w) \in Nat /\ DOMAIN w = 1..Len(w) /\ \A i \in 1..Len(w) : w[i] \in ToSet(w)
  BY <1>1, LenProperties DEF ToSet
<1>3. /\ \A i \in 1..Len(u) : chain.z[u[i]] \in Int
      /\ \A i \in 1..Len(w) : chain.z[w[i]] \in Int
  BY <1>1, <1>2, ArmsChain
<1>4. f \in [1..Len(u) -> Int] /\ g \in [1..Len(w) -> Int] /\ 1 \in 1..Len(w) /\ Tiny \in Int
  BY <1>1, <1>2, <1>3 DEF Tiny
<1>5. /\ {chain.z[d] : d \in ToSet(u)} = {f[i] : i \in 1..Len(u)}
      /\ {chain.z[d] : d \in ToSet(w)} = {g[i] : i \in 1..Len(w)}
  BY <1>2 DEF ToSet
<1> HIDE DEF f, g
<1>6. g[1] \in Int
  BY <1>4
<1>7. Max(U) \in U /\ \A x \in U : x <= Max(U)
  BY <1>2, <1>4, ExtremesOf
<1>8. Min(W) \in W /\ \A x \in W : Min(W) <= x
  BY <1>2, <1>4, <1>6, ExtremesOf
<1>9. W = {g[i] : i \in 1..Len(w)}
  BY <1>4
<1>10. U \subseteq Int /\ W \subseteq Int
  BY <1>4, <1>6
<1>11. U = {Tiny} \cup {chain.z[d] : d \in ToSet(u)} /\ W = {chain.z[d] : d \in ToSet(w)}
  BY <1>5, <1>9
<1> HIDE DEF U, W
<1>12. LastUpstream = Max(U) /\ FirstDownstream = Min(W)
  BY <1>11 DEF LastUpstream, FirstDownstream, u, w
<1>13. Scatterer \subseteq Max(U)..Min(W)
  BY <1>12 DEF ArmsAccepted
<1> SUFFICES ASSUME NEW z \in Scatterer
             PROVE  /\ \A d \in ToSet(u) : chain.z[d] <= z
                    /\ \A d \in ToSet(w) : chain.z[d] >= z
  BY DEF u, w
<1>14. Max(U) \in Int /\ Min(W) \in Int
  BY <1>7, <1>8, <1>10
<1>15. z \in Int /\ Max(U) <= z /\ z <= Min(W)
  BY <1>13, <1>14
<1>16. ASSUME NEW d \in ToSet(u) PROVE chain.z[d] <= z
  <2> DEFINE p == chain.z[d]
  <2>1. p \in U
    BY <1>11
  <2> HIDE DEF p
  <2>2. p \in Int /\ p <= Max(U)
    BY <1>7, <1>10, <2>1
  <2>3. p <= z
    BY <1>14, <1>15, <2>2
  <2> QED
    BY <2>3 DEF p
<1>17. ASSUME NEW d \in ToSet(w) PROVE chain.z[d] >= z
  <2> DEFINE p == chain.z[d]
  <2>1. p \in W
    BY <1>11
  <2> HIDE DEF p
  <2>2. p \in Int /\ Min(W) <= p
    BY <1>8, <1>10, <2>1
  <2>3. p >= z
    BY <1>14, <1>15, <2>2
  <2> QED
    BY <2>3 DEF p
<1> QED
  BY <1>16, <1>17

\* The arms depend on the chain only.
LEMMA ArmsSame ==
    ASSUME chain' = chain
    PROVE  /\ Arm("upstream")' = Arm("upstream") /\ Arm("downstream")' = Arm("downstream")
           /\ Scatterer' = Scatterer /\ (ArmsAccepted => ArmsAccepted')
<1>1. Scatterer' = Scatterer
  BY DEF Scatterer
<1>2. \A s : Arm(s)' = Arm(s)
  BY <1>1 DEF Arm
<1>3. \A s : MinHits(s)' = MinHits(s)
  BY <1>2 DEF MinHits
<1>4. LastUpstream' = LastUpstream /\ FirstDownstream' = FirstDownstream
  BY <1>2 DEF LastUpstream, FirstDownstream
<1>5. ArmsAccepted => ArmsAccepted'
  BY <1>1, <1>2, <1>3, <1>4 DEF ArmsAccepted
<1> QED
  BY <1>1, <1>2, <1>5

\* The loop that erases tracklets, which EraseUnisolated folds over their numbers.
UnisolatedBy(near, i, ks) == IF \E p \in near : i \in p THEN RemoveAt(ks, i) ELSE ks

\* What is left after the loop has come down to the tracklet i.
LeftOf(ts, near, i, ks) ==
    /\ ks \in Seq(ToSet(ts)) /\ Distinct(ks) /\ Len(ks) >= i - 1
    /\ \A j \in 1..(i - 1) : ks[j] = ts[j]
    /\ \A j \in i..Len(ks) : \E m \in 1..Len(ts) : ks[j] = ts[m] /\ ~\E p \in near : m \in p

\* One round of the loop that erases tracklets.
LEMMA LeaveOne ==
    ASSUME NEW ts, ts \in Seq(ToSet(ts)), NEW near, NEW i \in 1..Len(ts), NEW ks, LeftOf(ts, near, i + 1, ks)
    PROVE  LeftOf(ts, near, i, UnisolatedBy(near, i, ks))
<1>1. i \in Nat /\ 1 <= i /\ (i + 1) - 1 = i /\ Len(ts) \in Nat
  BY LenProperties
<1>2. /\ ks \in Seq(ToSet(ts)) /\ Distinct(ks) /\ Len(ks) >= i /\ Len(ks) \in Nat
      /\ \A j \in 1..i : ks[j] = ts[j]
      /\ \A j \in (i + 1)..Len(ks) : \E m \in 1..Len(ts) : ks[j] = ts[m] /\ ~\E p \in near : m \in p
  BY <1>1, LenProperties DEF LeftOf
<1>3. CASE \E p \in near : i \in p
  <2> DEFINE l == RemoveAt(ks, i)
  <2>0. i \in 1..Len(ks)
    BY <1>1, <1>2
  <2>1. /\ l \in Seq(ToSet(ts)) /\ Len(l) = Len(ks) - 1
        /\ \A j \in 1..Len(l) : l[j] = ks[IF j < i THEN j ELSE j + 1]
        /\ Distinct(l)
    <3> DEFINE U == ToSet(ts)
    <3>1. ks \in Seq(U)
      BY <1>2
    <3> HIDE DEF U
    <3>2. l \in Seq(U)
      BY <2>0, <3>1, OneRemoved
    <3>3. /\ Len(l) = Len(ks) - 1
          /\ \A j \in 1..Len(l) : l[j] = ks[IF j < i THEN j ELSE j + 1]
          /\ Distinct(l)
      BY <1>2, <2>0, <3>1, OneRemoved
    <3> QED
      BY <3>2, <3>3 DEF U
  <2> HIDE DEF l
  <2>2. \A j \in 1..(i - 1) : l[j] = ts[j]
    <3> TAKE j \in 1..(i - 1)
    <3>1. j \in 1..Len(l) /\ j < i /\ j \in 1..i
      BY <1>1, <1>2, <2>1
    <3> QED
      BY <1>2, <2>1, <3>1
  <2>3. \A j \in i..Len(l) : \E m \in 1..Len(ts) : l[j] = ts[m] /\ ~\E p \in near : m \in p
    <3> TAKE j \in i..Len(l)
    <3>1. j \in 1..Len(l) /\ ~(j < i) /\ j + 1 \in (i + 1)..Len(ks)
      BY <1>1, <1>2, <2>1
    <3>2. l[j] = ks[j + 1]
      BY <2>1, <3>1
    <3> QED
      BY <1>2, <3>1, <3>2
  <2>4. Len(l) >= i - 1
    BY <1>1, <1>2, <2>1
  <2>5. UnisolatedBy(near, i, ks) = l
    BY <1>3 DEF UnisolatedBy, l
  <2>6. LeftOf(ts, near, i, l)
    BY <2>1, <2>2, <2>3, <2>4 DEF LeftOf
  <2> QED
    BY <2>5, <2>6
<1>4. CASE ~\E p \in near : i \in p
  <2>1. \A j \in i..Len(ks) : j = i \/ j \in (i + 1)..Len(ks)
    BY <1>1, <1>2
  <2>2. i \in 1..i /\ \A j \in 1..(i - 1) : j \in 1..i
    BY <1>1
  <2>3. \A j \in i..Len(ks) : \E m \in 1..Len(ts) : ks[j] = ts[m] /\ ~\E p \in near : m \in p
    <3> TAKE j \in i..Len(ks)
    <3>1. CASE j = i
      BY <1>2, <1>4, <2>2, <3>1
    <3>2. CASE j \in (i + 1)..Len(ks)
      BY <1>2, <3>2
    <3> QED
      BY <2>1, <3>1, <3>2
  <2>4. Len(ks) >= i - 1
    BY <1>1, <1>2
  <2>5. UnisolatedBy(near, i, ks) = ks
    BY <1>4 DEF UnisolatedBy
  <2>6. LeftOf(ts, near, i, ks)
    BY <1>2, <2>2, <2>3, <2>4 DEF LeftOf
  <2> QED
    BY <2>5, <2>6
<1> QED
  BY <1>3, <1>4

\* What EraseUnisolated has made of the tracklets, for a part of the numbers.
Left(ts, near) ==
    CHOOSE iter : iter = [s \in SUBSET DOMAIN ts |->
        IF s = {} THEN ts ELSE UnisolatedBy(near, Min(s), iter[s \ {Min(s)}])]

\* The recursive function that Left chooses.
IsLeft(ts, near, f) ==
    f = [s \in SUBSET DOMAIN ts |-> IF s = {} THEN ts ELSE UnisolatedBy(near, Min(s), f[s \ {Min(s)}])]

\* The fold of that loop is what its definition says, since no tracklet is erased before its turn.
LEMMA LeftExists ==
    ASSUME NEW ts, ts \in Seq(ToSet(ts)), NEW near
    PROVE  IsLeft(ts, near, Left(ts, near))
<1> DEFINE n == Len(ts)
           V == Seq(ToSet(ts))
           step == [i \in 1..n |-> [v \in V |-> IF i \in 1..Len(v) THEN UnisolatedBy(near, i, v) ELSE v]]
<1>1. n \in Nat /\ DOMAIN ts = 1..n
  BY LenProperties
<1>2. \A v \in V : Len(v) \in Nat /\ \A i \in 1..Len(v) :
          UnisolatedBy(near, i, v) \in V /\ Len(UnisolatedBy(near, i, v)) >= Len(v) - 1
  <2> TAKE v \in V
  <2> DEFINE U == ToSet(ts)
  <2>1. v \in Seq(U) /\ Len(v) \in Nat
    BY LenProperties
  <2> HIDE DEF U
  <2>2. \A i \in 1..Len(v) : RemoveAt(v, i) \in Seq(U) /\ Len(RemoveAt(v, i)) = Len(v) - 1
    BY <2>1, OneRemoved
  <2>3. \A i \in 1..Len(v) : UnisolatedBy(near, i, v) = RemoveAt(v, i) \/ UnisolatedBy(near, i, v) = v
    BY DEF UnisolatedBy
  <2>4. Len(v) - 1 >= Len(v) - 1 /\ Len(v) >= Len(v) - 1
    BY <2>1
  <2>5. V = Seq(U)
    BY DEF U
  <2> HIDE DEF V
  <2> QED
    BY <2>1, <2>2, <2>3, <2>4, <2>5
<1>3. ts \in V
  OBVIOUS
<1> HIDE DEF V, n
<1>4. step \in Bodies(V, n)
  BY <1>2 DEF Bodies
<1>5. PICK f : IsRightFold(f, V, n, step, ts)
  <2> HIDE DEF step
  <2> QED
    BY <1>1, <1>3, <1>4, RightFold
<1>6. /\ \A s \in SUBSET (1..n) : f[s] \in V
      /\ f[{}] = ts /\ f = [s \in SUBSET (1..n) |-> f[s]]
      /\ \A s \in SUBSET (1..n) : s # {} => Min(s) \in 1..n /\ f[s] = step[Min(s)][f[s \ {Min(s)}]]
  BY <1>5 DEF IsRightFold
<1>7. \A i \in 1..n, v \in V : step[i][v] = IF i \in 1..Len(v) THEN UnisolatedBy(near, i, v) ELSE v
  OBVIOUS
<1> HIDE DEF step
<1> DEFINE D == 1..n
           P == {s \in SUBSET D : \A j \in 0..n : s \subseteq (j + 1)..n => Len(f[s]) >= j}
           pick == [s \in (SUBSET D) \ {{}} |-> Min(s)]
<1>8. {} \in P
  BY <1>1, <1>6 DEF n
<1>9. ASSUME NEW s \in (SUBSET D) \ {{}}
      PROVE  LET i == Min(s)
                 rest == s \ {i}
             IN  /\ i \in s /\ i \in 1..n /\ rest \in SUBSET D /\ rest \subseteq (i + 1)..n /\ i \in 0..n
                 /\ f[rest] \in V /\ Len(f[rest]) \in Nat
                 /\ rest \in P => Len(f[rest]) >= i
                 /\ rest \in P => f[s] = UnisolatedBy(near, i, f[rest]) /\ Len(f[s]) >= i - 1
                 /\ Len(f[s]) \in Nat
                 /\ \A j \in 0..n : s \subseteq (j + 1)..n => j <= i - 1
  <2>1. PICK i : i = Min(s)
    OBVIOUS
  <2>2. i \in s /\ (\A x \in s : i <= x) /\ i \in 1..n
    BY <1>1, <2>1, HasMaxMin
  <2> DEFINE rest == s \ {i}
  <2>3. rest \in SUBSET D /\ rest \subseteq (i + 1)..n /\ i \in 0..n
    BY <1>1, <2>2
  <2>4. \A j \in 0..n : s \subseteq (j + 1)..n => j <= i - 1
    <3> TAKE j \in 0..n
    <3> HAVE s \subseteq (j + 1)..n
    <3>1. i \in (j + 1)..n
      BY <2>2
    <3> QED
      BY <1>1, <3>1
  <2>5. f[rest] \in V /\ Len(f[rest]) \in Nat
    BY <1>2, <1>6, <2>3
  <2>6. f[s] = step[i][f[rest]] /\ f[s] \in V /\ Len(f[s]) \in Nat
    BY <1>2, <1>6, <2>1
  <2>7. ASSUME rest \in P
        PROVE  Len(f[rest]) >= i /\ f[s] = UnisolatedBy(near, i, f[rest]) /\ Len(f[s]) >= i - 1
    <3>1. Len(f[rest]) >= i
      BY <2>3, <2>7
    <3> HIDE DEF rest, P
    <3>2. i \in 1..Len(f[rest])
      BY <2>2, <2>5, <3>1
    <3>3. f[s] = UnisolatedBy(near, i, f[rest])
      BY <1>7, <2>2, <2>5, <2>6, <3>2
    <3>4. Len(f[s]) >= Len(f[rest]) - 1
      BY <1>2, <2>5, <3>2, <3>3
    <3>5. Len(f[s]) >= i - 1
      BY <2>2, <2>5, <2>6, <3>1, <3>4
    <3> QED
      BY <3>1, <3>3, <3>5
  <2> HIDE DEF P, D
  <2> QED
    BY <2>1, <2>2, <2>3, <2>4, <2>5, <2>6, <2>7
<1>10. ASSUME NEW s \in (SUBSET D) \ {{}} PROVE pick[s] \in s /\ (s \ {pick[s]} \in P => s \in P)
  <2>1. PICK i, rest : i = Min(s) /\ rest = s \ {i}
    OBVIOUS
  <2>2. /\ i \in s /\ i \in 1..n /\ Len(f[s]) \in Nat
        /\ rest \in P => Len(f[s]) >= i - 1
        /\ \A j \in 0..n : s \subseteq (j + 1)..n => j <= i - 1
    BY <1>9, <2>1
  <2>3. pick[s] = i /\ s \ {pick[s]} = rest
    BY <2>1
  <2>4. rest \in P => s \in P
    <3> HAVE rest \in P
    <3>1. ASSUME NEW j \in 0..n, s \subseteq (j + 1)..n PROVE Len(f[s]) >= j
      <4>1. j <= i - 1 /\ Len(f[s]) >= i - 1
        BY <2>2, <3>1
      <4> QED
        BY <2>2, <4>1
    <3> QED
      BY <3>1
  <2> HIDE DEF pick, P
  <2> QED
    BY <2>2, <2>3, <2>4
<1>11. \A s \in SUBSET D : s \in P
  <2>1. IsFiniteSet(D)
    <3>1. 1 \in Int /\ n \in Int
      BY <1>1
    <3> QED
      BY <3>1, FS_Interval
  <2> HIDE DEF D, P, pick
  <2>2. Inductive(P, D, pick)
    BY <1>10 DEF Inductive
  <2> QED
    BY <1>8, <2>1, <2>2, SetInduction
<1>12. \A s \in SUBSET D : s # {} => f[s] = UnisolatedBy(near, Min(s), f[s \ {Min(s)}])
  <2> TAKE s \in SUBSET D
  <2> HAVE s # {}
  <2>1. s \in (SUBSET D) \ {{}}
    OBVIOUS
  <2>2. PICK i, rest : i = Min(s) /\ rest = s \ {i}
    OBVIOUS
  <2>3. rest \in SUBSET D
    BY <2>2
  <2> HIDE DEF D, P
  <2>4. f[s] = UnisolatedBy(near, i, f[rest])
    BY <1>9, <1>11, <2>1, <2>2, <2>3
  <2> QED
    BY <2>2, <2>4
<1>13. f = [s \in SUBSET DOMAIN ts |->
              IF s = {} THEN ts ELSE UnisolatedBy(near, Min(s), f[s \ {Min(s)}])]
  <2> HIDE DEF P, pick
  <2> QED
    BY <1>1, <1>6, <1>12, Zenon
<1> HIDE DEF D, P, pick
<1> QED
  BY <1>13, Zenon DEF Left, IsLeft

\* The whole loop: what is left is in no pair.
LEMMA LeavesIsolated ==
    ASSUME NEW ts, ts \in Seq(ToSet(ts)), Distinct(ts), NEW near
    PROVE  LeftOf(ts, near, 1, EraseUnisolated(ts, near))
<1> DEFINE n == Len(ts)
           k == Left(ts, near)
           P == {i \in 1..(n + 1) : LeftOf(ts, near, i, k[i..n])}
<1>1. n \in Nat /\ DOMAIN ts = 1..n
  BY LenProperties
<1>2. k = [s \in SUBSET DOMAIN ts |-> IF s = {} THEN ts ELSE UnisolatedBy(near, Min(s), k[s \ {Min(s)}])]
  <2>1. IsLeft(ts, near, Left(ts, near))
    BY LeftExists
  <2> QED
    BY <2>1, Zenon DEF IsLeft
<1> HIDE DEF k, n
<1>3. n + 1 \in P
  <2>1. (n + 1)..n = {} /\ {} \in SUBSET DOMAIN ts
    BY <1>1, RangeEnds
  <2>2. k[(n + 1)..n] = ts
    BY <1>2, <2>1, Zenon
  <2>3. n + 1 \in 1..(n + 1) /\ Len(ts) >= (n + 1) - 1 /\ \A j \in (n + 1)..Len(ts) : FALSE
    BY <1>1 DEF n
  <2>4. LeftOf(ts, near, n + 1, ts)
    BY <2>3 DEF LeftOf
  <2> QED
    BY <2>2, <2>3, <2>4
<1>4. \A i \in 1..n : i + 1 \in P => i \in P
  <2> TAKE i \in 1..n
  <2> HAVE i + 1 \in P
  <2>1. /\ i..n \in SUBSET (1..n) /\ i..n # {} /\ Min(i..n) = i /\ (i..n) \ {i} = (i + 1)..n
    BY <1>1, RangeEnds
  <2>2. k[i..n] = UnisolatedBy(near, i, k[(i + 1)..n])
    BY <1>1, <1>2, <2>1, Zenon
  <2>3. LeftOf(ts, near, i + 1, k[(i + 1)..n])
    OBVIOUS
  <2>4. LeftOf(ts, near, i, UnisolatedBy(near, i, k[(i + 1)..n]))
    BY <2>3, LeaveOne DEF n
  <2>5. i \in 1..(n + 1)
    BY <1>1
  <2> QED
    BY <2>2, <2>4, <2>5
<1>5. LeftOf(ts, near, 1, k[1..n])
  <2>1. \A i \in 1..(n + 1) : i \in P
    <3> HIDE DEF P
    <3> QED
      BY <1>1, <1>3, <1>4, DownTo
  <2>2. 1 \in 1..(n + 1)
    BY <1>1
  <2> QED
    BY <2>1, <2>2
<1>6. EraseUnisolated(ts, near) = k[1..n]
  <2> DEFINE q == [i \in DOMAIN ts |-> i]
             m == CHOOSE iter : iter = [s \in SUBSET DOMAIN q |->
                    IF s = {} THEN ts ELSE UnisolatedBy(near, q[Min(s)], iter[s \ {Min(s)}])]
  <2>1. EraseUnisolated(ts, near) = m[DOMAIN q]
    BY Zenon DEF EraseUnisolated, FoldRightDomain, FoldRight, MapThenFoldSet, UnisolatedBy
  <2>2. DOMAIN q = DOMAIN ts
    OBVIOUS
  <2>3. \A s \in SUBSET DOMAIN ts : s # {} => q[Min(s)] = Min(s)
    BY <1>1, HasMaxMin
  <2> HIDE DEF q
  <2>4. \A iter : [s \in SUBSET DOMAIN q |->
                    IF s = {} THEN ts ELSE UnisolatedBy(near, q[Min(s)], iter[s \ {Min(s)}])]
                = [s \in SUBSET DOMAIN ts |->
                    IF s = {} THEN ts ELSE UnisolatedBy(near, Min(s), iter[s \ {Min(s)}])]
    BY <2>2, <2>3
  <2>5. m = k
    BY <2>4 DEF k, Left
  <2> QED
    BY <1>1, <2>1, <2>2, <2>5
<1> QED
  BY <1>5, <1>6

\* Tracklets of an arm: candidates, no two of the same, none of a pair that is close.
TrackletsRight(area, ts, cl) ==
    /\ ts \in Seq(ToSet(ts)) /\ Distinct(ts)
    /\ \A k \in 1..Len(ts) : ts[k].clusters \in Candidates(area, FALSE) /\ \A p \in cl : ts[k] \notin p

\* The pairs of tracklets behind the pairs of numbers in near.
ClosePairs(fs, near) == {{fs[k] : k \in p} : p \in near}

\* The tracklets that are not close to another one.
LEMMA IsolateRight ==
    ASSUME NEW area, NEW fs, FoundRight(area, FALSE, fs), NEW near \in SUBSET kSubset(2, DOMAIN fs)
    PROVE  TrackletsRight(area, EraseUnisolated(fs, near), ClosePairs(fs, near))
<1> DEFINE ts == EraseUnisolated(fs, near)
           cl == {{fs[k] : k \in p} : p \in near}
<1>1. /\ fs \in Seq(ToSet(fs)) /\ DOMAIN fs = 1..Len(fs)
      /\ \A k \in 1..Len(fs) : fs[k].clusters \in Candidates(area, FALSE)
      /\ \A k, l \in 1..Len(fs) : PairOf(fs[k].clusters) = PairOf(fs[l].clusters) => k = l
  BY LenProperties DEF FoundRight
<1>2. Distinct(fs)
  BY <1>1 DEF Distinct
<1>3. LeftOf(fs, near, 1, ts)
  BY <1>1, <1>2, LeavesIsolated
<1> HIDE DEF ts
<1>4. /\ ts \in Seq(ToSet(fs)) /\ Distinct(ts)
      /\ \A j \in 1..Len(ts) : \E m \in 1..Len(fs) : ts[j] = fs[m] /\ ~\E p \in near : m \in p
  BY <1>3 DEF LeftOf
<1>5. ts \in Seq(ToSet(ts))
  <2> DEFINE U == ToSet(fs)
  <2>1. ts \in Seq(U)
    BY <1>4
  <2> HIDE DEF U
  <2>2. PICK W : W = ToSet(ts)
    OBVIOUS
  <2>3. ts \in Seq(W)
    BY <2>1, <2>2, SequenceOf
  <2> QED
    BY <2>2, <2>3
<1>6. \A p \in near : p \subseteq 1..Len(fs)
  BY <1>1 DEF kSubset
<1>7. ASSUME NEW j \in 1..Len(ts), NEW c \in cl PROVE ts[j] \notin c
  <2>1. PICK m \in 1..Len(fs) : ts[j] = fs[m] /\ ~\E p \in near : m \in p
    BY <1>4
  <2>2. PICK p \in near : c = {fs[k] : k \in p}
    OBVIOUS
  <2>3. \A k \in p : fs[k] # fs[m]
    BY <1>2, <1>6, <2>1 DEF Distinct
  <2> QED
    BY <2>1, <2>2, <2>3
<1>8. \A k \in 1..Len(ts) : ts[k].clusters \in Candidates(area, FALSE)
  BY <1>1, <1>4
<1> HIDE DEF cl
<1>9. TrackletsRight(area, ts, cl)
  BY <1>4, <1>5, <1>7, <1>8 DEF TrackletsRight
<1> QED
  BY <1>9, Zenon DEF ts, cl, ClosePairs

\* Where an arm is searched.
Searching == {"track", "pair", "plane", "isolate"}

\* The tracklets of one arm on multiplets: isolated ones, each used once.
SideRight(s, area, ts, cl, fs) ==
    \A k \in 1..Len(fs) :
        /\ fs[k][s].clusters \in Candidates(area, FALSE)
        /\ \A p \in cl : fs[k][s] \notin p
        /\ fs[k][s] \notin ToSet(ts)
        /\ \A l \in 1..Len(fs) : fs[l][s] = fs[k][s] => k = l

MultipletsRight ==
    /\ found \in Seq(ToSet(found))
    /\ \A s \in Streams : SideRight(s, ToSet(Arm(s)), tracklets[s], close[s], found)

\* The tracklets and close pairs of arm s are as its search leaves them.
ArmRight(s) == TrackletsRight(ToSet(Arm(s)), tracklets[s], close[s])

MultipletInv ==
    chain.module = "TrackingMultiplet" =>
        /\ at \notin {"initialize", "refused"} => ArmsAccepted
        /\ at \notin {"initialize", "begin", "refused"} => hits \in Inputs
        /\ stream \in Streams /\ DOMAIN tracklets = Streams /\ DOMAIN close = Streams
        /\ at \in Searching /\ stream = "downstream" => ArmRight("upstream")
        /\ at \in {"pair", "plane", "isolate"} => SearchRight(ToSet(Arm(stream)), FALSE)
        /\ at \notin Searching => stream = "upstream"
        /\ at = "match" => ArmRight("upstream") /\ ArmRight("downstream") /\ MultipletsRight
        /\ TrackletsIsolated

\* What does not change while an arm is searched.
LEMMA ArmOfStream ==
    ASSUME chain' = chain, UNCHANGED multipletVars
    PROVE  /\ Arm(stream)' = Arm(stream) /\ stream' = stream
           /\ (\A s \in Streams : ArmRight(s)' = ArmRight(s))
           /\ tracklets' = tracklets /\ close' = close
<1>1. stream' = stream /\ tracklets' = tracklets /\ close' = close
  BY DEF multipletVars
<1>2. Scatterer' = Scatterer
  BY ArmsSame
<1>3. Arm(stream)' = Arm(stream)
  BY <1>1, <1>2 DEF Arm
<1>4. \A s : Arm(s)' = Arm(s)
  BY <1>2 DEF Arm
<1>5. \A s \in Streams : ArmRight(s)' = ArmRight(s)
  BY <1>1, <1>4 DEF ArmRight
<1> QED
  BY <1>1, <1>3, <1>5

\* A step of a search: what is left to show.
LEMMA WithinArm ==
    ASSUME chain' = chain, setup' = setup, hits' = hits, chain.module = "TrackingMultiplet",
           MultipletInv, UNCHANGED multipletVars, at \in Searching, at' \in {"pair", "plane", "isolate"},
           NEW area, area = ToSet(Arm(stream)), SearchRight(area, FALSE)'
    PROVE  MultipletInv'
<1>1. /\ Arm(stream)' = Arm(stream) /\ stream' = stream /\ tracklets' = tracklets /\ close' = close
      /\ \A s \in Streams : ArmRight(s)' = ArmRight(s)
  BY ArmOfStream
<1>2. ArmsAccepted /\ hits \in Inputs /\ stream \in Streams /\ DOMAIN tracklets = Streams /\ DOMAIN close = Streams
      /\ (stream = "downstream" => ArmRight("upstream"))
  BY DEF MultipletInv, Searching
<1>3. ArmsAccepted' /\ Inputs' = Inputs
  BY <1>2, ArmsSame DEF Inputs
<1>4. stream' = "downstream" => ArmRight("upstream")'
  BY <1>1, <1>2 DEF Streams
<1>5. SearchRight(ToSet(Arm(stream)), FALSE)'
  BY <1>1 DEF SearchRight
<1>6. at' \in Searching /\ at' # "match" /\ at' # "end"
  BY DEF Searching
<1> QED
  BY <1>1, <1>2, <1>3, <1>4, <1>5, <1>6 DEF MultipletInv, TrackletsIsolated

\* What holds while an arm is searched.
LEMMA ArmSearched ==
    ASSUME Configured, chain.module = "TrackingMultiplet", MultipletInv, at \in Searching
    PROVE  /\ stream \in Streams /\ Arm(stream) \in Seq(STRING)
           /\ Len(Arm(stream)) >= 2 /\ MinHits(stream) \in Nat /\ MinHits(stream) >= 2
           /\ \A d \in ToSet(Arm(stream)) : hits[d] \in Seq(Int)
           /\ HitIn(stream) \in Seq(ToSet(Arm(stream))) /\ IsFiniteSet(ToSet(HitIn(stream)))
           /\ at # "track" => SearchRight(ToSet(Arm(stream)), FALSE)
<1>1. ArmsAccepted /\ hits \in Inputs /\ stream \in Streams
      /\ (at # "track" => SearchRight(ToSet(Arm(stream)), FALSE))
  BY DEF MultipletInv, Searching
<1>2. /\ Arm(stream) \in Seq(STRING) /\ ToSet(Arm(stream)) \subseteq Named
      /\ Len(Arm(stream)) >= 2 /\ MinHits(stream) \in Nat /\ MinHits(stream) >= 2
  BY <1>1, ArmList
<1>3. \A d \in ToSet(Arm(stream)) : hits[d] \in Seq(Int)
  BY <1>1, <1>2, TelescopeChain
<1>4. PICK l : l = HitIn(stream)
  OBVIOUS
<1>5. l \in Seq(STRING) /\ ToSet(l) \subseteq ToSet(Arm(stream))
  BY <1>2, <1>4, HitList DEF HitIn
<1>6. PICK area : area = ToSet(Arm(stream))
  OBVIOUS
<1>7. l \in Seq(area) /\ IsFiniteSet(ToSet(l))
  BY <1>5, <1>6, SequenceOf
<1> QED
  BY <1>1, <1>2, <1>3, <1>4, <1>6, <1>7

\* Clusters arrive: the upstream arm is searched first.
LEMMA ArriveMultiplet ==
    ASSUME chain' = chain, setup' = setup, chain.module = "TrackingMultiplet",
           MultipletInv, ClustersArrive, UNCHANGED multipletVars
    PROVE  MultipletInv'
<1>1. at = "begin" /\ at' = "track" /\ hits' \in Inputs
  BY DEF ClustersArrive, Proceed
<1>2. stream = "upstream" /\ DOMAIN tracklets = Streams /\ DOMAIN close = Streams /\ ArmsAccepted
  BY <1>1 DEF MultipletInv, Searching
<1>3. Inputs' = Inputs /\ ArmsAccepted'
  BY <1>2, ArmsSame DEF Inputs
<1>4. stream' = "upstream" /\ tracklets' = tracklets /\ close' = close /\ stream' \in Streams
  BY <1>2 DEF multipletVars, Streams
<1> QED
  BY <1>1, <1>2, <1>3, <1>4 DEF MultipletInv, TrackletsIsolated, Searching

\* Arms that are refused.
LEMMA RefusedMultiplet ==
    ASSUME chain' = chain, setup' = setup, MultipletInv, MultipletRefused
    PROVE  MultipletInv'
<1>1. chain.module = "TrackingMultiplet" /\ at = "initialize" /\ at' = "refused" /\ UNCHANGED multipletVars
  BY DEF MultipletRefused, Proceed
<1>2. stream = "upstream" /\ DOMAIN tracklets = Streams /\ DOMAIN close = Streams /\ stream \in Streams
  BY <1>1 DEF MultipletInv, Searching
<1>3. stream' = stream /\ tracklets' = tracklets /\ close' = close
  BY <1>1 DEF multipletVars
<1> QED
  BY <1>1, <1>2, <1>3 DEF MultipletInv, TrackletsIsolated, Searching

\* The search of an arm begins.
LEMMA BeginMultiplet ==
    ASSUME Configured, chain' = chain, setup' = setup, MultipletInv, MultipletBegin
    PROVE  MultipletInv'
<1>1. /\ chain.module = "TrackingMultiplet" /\ at = "track" /\ at \in Searching /\ hits' = hits /\ found' = <<>>
      /\ UNCHANGED multipletVars
  BY DEF MultipletBegin, Searching
<1>2. PICK area : area = ToSet(Arm(stream))
  OBVIOUS
<1>3. PICK s : s = HitIn(stream)
  OBVIOUS
<1>4. /\ s \in Seq(area) /\ MinHits(stream) \in Nat /\ MinHits(stream) >= 2
      /\ \A d \in area : hits[d] \in Seq(Int)
  BY <1>1, <1>2, <1>3, ArmSearched
<1>5. SearchRight(area, FALSE)' /\ at' \in {"pair", "plane", "isolate"}
  <2>1. CASE Len(HitIn(stream)) < MinHits(stream)
    <3>1. at' = "isolate"
      BY <2>1 DEF MultipletBegin, Proceed
    <3> QED
      BY <1>1, <3>1, NoFound DEF SearchRight
  <2>2. CASE ~(Len(HitIn(stream)) < MinHits(stream))
    <3>1. at' = "pair" /\ references' = <<Head(s), Last(s)>> /\ pairs' = ReferencePairs(Head(s), Last(s))
      BY <1>3, <2>2 DEF MultipletBegin, Proceed
    <3>2. s # <<>>
      <4>1. Len(<<>>) < MinHits(stream)
        BY <1>4
      <4> QED
        BY <1>3, <2>2, <4>1
    <3>3. SearchRight(area, FALSE)'
      <4>1. PICK each \in BOOLEAN : each = FALSE
        OBVIOUS
      <4>2. SearchRight(area, each)'
        BY <1>1, <1>4, <3>1, <3>2, <4>1, BeginRight
      <4> QED
        BY <4>1, <4>2 DEF SearchRight
    <3> QED
      BY <3>1, <3>3
  <2> QED
    BY <2>1, <2>2
<1> QED
  BY <1>1, <1>2, <1>5, WithinArm

\* The next pair of an arm.
LEMMA PairMultiplet ==
    ASSUME Configured, chain' = chain, setup' = setup, MultipletInv, MultipletPair
    PROVE  MultipletInv'
<1> DEFINE rest == ToSet(HitIn(stream)) \ ToSet(references)
           orders == SetToSeqs(rest)
<1>1. /\ chain.module = "TrackingMultiplet" /\ NextPair(orders) /\ UNCHANGED multipletVars
      /\ at = "pair" /\ hits' = hits
  BY DEF MultipletPair, NextPair, Proceed
<1>2. PICK area : area = ToSet(Arm(stream))
  OBVIOUS
<1>3. HitIn(stream) \in Seq(area) /\ IsFiniteSet(ToSet(HitIn(stream))) /\ SearchRight(area, FALSE)
  <2>1. at \in Searching /\ at # "track"
    BY <1>1 DEF Searching
  <2> QED
    BY <1>1, <1>2, <2>1, ArmSearched
<1>4. IsFiniteSet(rest) /\ rest \subseteq area
  <2>1. PICK l : l = HitIn(stream)
    OBVIOUS
  <2>2. l \in Seq(area) /\ IsFiniteSet(ToSet(l)) /\ rest \subseteq ToSet(l)
    BY <1>3, <2>1
  <2>3. ToSet(l) \subseteq area
    BY <2>2, LenProperties DEF ToSet
  <2> HIDE DEF rest
  <2> QED
    BY <2>2, <2>3, FS_Subset
<1>5. ASSUME NEW pl \in orders PROVE pl \in Seq(area)
  <2> HIDE DEF rest
  <2>1. pl \in Seq(rest) /\ ToSet(pl) = rest
    BY <1>4, AnyOrderOf
  <2> QED
    BY <1>4, <2>1, SequenceOf
<1> HIDE DEF orders
<1>6. SearchRight(area, FALSE)' /\ at' \in {"pair", "plane"}
  <2>1. PICK each \in BOOLEAN : each = FALSE
    OBVIOUS
  <2>2. SearchRight(area, each)
    BY <1>3, <2>1
  <2>3. \A pl \in orders : pl \in Seq(area) /\ (each => Distinct(pl) /\ ToSet(pl) \cap ToSet(references) = {})
    BY <1>5, <2>1
  <2>4. SearchRight(area, each)' /\ at' \in {"pair", "plane"}
    BY <1>1, <2>2, <2>3, NextPairRight
  <2> QED
    BY <2>1, <2>4 DEF SearchRight
<1>7. at \in Searching
  BY <1>1 DEF Searching
<1> QED
  BY <1>1, <1>2, <1>6, <1>7, WithinArm

\* The next plane of an arm.
LEMMA PlaneMultiplet ==
    ASSUME Configured, chain' = chain, setup' = setup, MultipletInv, MultipletPlane
    PROVE  MultipletInv'
<1>1. /\ chain.module = "TrackingMultiplet" /\ SearchPlane(Len(HitIn(stream)), MinHits(stream))
      /\ at = "plane" /\ hits' = hits /\ UNCHANGED multipletVars /\ at \in Searching
  BY DEF MultipletPlane, SearchPlane, Proceed, Searching
<1>2. PICK area : area = ToSet(Arm(stream))
  OBVIOUS
<1>3. (\A d \in area : hits[d] \in Seq(Int)) /\ SearchRight(area, FALSE)
  BY <1>1, <1>2, ArmSearched
<1>4. PICK m, n : m = Len(HitIn(stream)) /\ n = MinHits(stream)
  OBVIOUS
<1>5. SearchPlane(m, n)
  BY <1>1, <1>4
<1>6. PICK each \in BOOLEAN : each = FALSE
  OBVIOUS
<1>7. SearchRight(area, each)
  BY <1>3, <1>6
<1>8. SearchRight(area, each)' /\ at' = "plane"
  BY <1>1, <1>3, <1>5, <1>7, SearchPlaneRight
<1>9. SearchRight(area, FALSE)'
  BY <1>6, <1>8 DEF SearchRight
<1> QED
  BY <1>1, <1>2, <1>8, <1>9, WithinArm

\* A tracklet is kept, or not.
LEMMA SaveMultiplet ==
    ASSUME Configured, chain' = chain, setup' = setup, MultipletInv, MultipletSave
    PROVE  MultipletInv'
<1>1. /\ chain.module = "TrackingMultiplet" /\ at = "plane" /\ hits' = hits /\ UNCHANGED multipletVars
      /\ at \in Searching
  BY DEF MultipletSave, Keep, Discard, Proceed, Searching
<1>2. PICK area : area = ToSet(Arm(stream))
  OBVIOUS
<1>3. PICK each \in BOOLEAN : each = FALSE
  OBVIOUS
<1>4. SearchRight(area, each)
  BY <1>1, <1>2, <1>3, ArmSearched
<1>5. SearchRight(area, each)' /\ at' = "pair"
  <2>1. CASE Discard
    BY <1>1, <1>4, <2>1, DiscardRight
  <2>2. CASE ~Discard
    <3>1. PICK track : track = [clusters |-> candidate, time |-> AverageTime(candidate)]
      OBVIOUS
    <3>2. track.clusters = candidate /\ Keep(track)
      BY <2>2, <3>1 DEF MultipletSave
    <3> QED
      BY <1>1, <1>4, <3>2, KeepRight
  <2> QED
    BY <2>1, <2>2
<1>6. SearchRight(area, FALSE)'
  BY <1>3, <1>5 DEF SearchRight
<1> QED
  BY <1>1, <1>2, <1>5, <1>6, WithinArm

\* An arm has been searched.
LEMMA SearchedMultiplet ==
    ASSUME Configured, chain' = chain, setup' = setup, MultipletInv, MultipletSearched
    PROVE  MultipletInv'
<1>1. /\ chain.module = "TrackingMultiplet" /\ at = "pair" /\ at' = "isolate" /\ hits' = hits
      /\ UNCHANGED multipletVars /\ at \in Searching /\ found' = found
  BY DEF MultipletSearched, Proceed, Searching, trackingVars
<1>2. PICK area : area = ToSet(Arm(stream))
  OBVIOUS
<1>3. SearchRight(area, FALSE)
  BY <1>1, <1>2, ArmSearched
<1>4. SearchRight(area, FALSE)'
  BY <1>1, <1>3 DEF SearchRight
<1> QED
  BY <1>1, <1>2, <1>4, WithinArm

\* Some of the tracklets are still right.
LEMMA FewerTracklets ==
    ASSUME NEW area, NEW ts, NEW cl, TrackletsRight(area, ts, cl),
           NEW T, NEW rest \in Seq(T), ToSet(rest) \subseteq ToSet(ts), Distinct(rest)
    PROVE  TrackletsRight(area, rest, cl)
<1>1. /\ DOMAIN ts = 1..Len(ts) /\ DOMAIN rest = 1..Len(rest)
      /\ \A k \in 1..Len(ts) : ts[k].clusters \in Candidates(area, FALSE) /\ \A p \in cl : ts[k] \notin p
  BY LenProperties DEF TrackletsRight
<1>2. \A k \in 1..Len(rest) : \E j \in 1..Len(ts) : rest[k] = ts[j]
  BY <1>1 DEF ToSet
<1>3. rest \in Seq(ToSet(rest))
  <2>1. PICK W : W = ToSet(rest)
    OBVIOUS
  <2>2. rest \in Seq(W)
    BY <2>1, SequenceOf
  <2> QED
    BY <2>1, <2>2
<1> QED
  BY <1>1, <1>2, <1>3 DEF TrackletsRight

\* A tracklet is put on a multiplet, and is not to be matched any more.
LEMMA SideMatched ==
    ASSUME NEW s, NEW area, NEW ts, NEW cl, NEW fs, fs \in Seq(ToSet(fs)),
           SideRight(s, area, ts, cl, fs), TrackletsRight(area, ts, cl),
           NEW rest, ToSet(rest) \subseteq ToSet(ts),
           NEW t \in ToSet(ts), t \notin ToSet(rest), NEW m, m[s] = t
    PROVE  SideRight(s, area, rest, cl, Append(fs, m)) /\ Append(fs, m) \in Seq(ToSet(Append(fs, m)))
<1> DEFINE T == ToSet(fs) \cup {m}
           l == Append(fs, m)
<1>1. fs \in Seq(T) /\ m \in T
  <2>1. ToSet(fs) \subseteq T /\ m \in T
    OBVIOUS
  <2> HIDE DEF T
  <2>2. PICK W : W = ToSet(fs)
    OBVIOUS
  <2> QED
    BY <2>1, <2>2, SequenceOf
<1>2. ToSet(l) = T
  BY <1>1, OneMore
<1> HIDE DEF T
<1>3. /\ l \in Seq(T) /\ Len(fs) \in Nat /\ Len(l) = Len(fs) + 1
      /\ l[Len(fs) + 1] = m /\ \A k \in 1..Len(fs) : l[k] = fs[k]
  BY <1>1, OneMore
<1>4. l \in Seq(ToSet(l))
  BY <1>2, <1>3
<1> HIDE DEF l
<1>5. t.clusters \in Candidates(area, FALSE) /\ \A p \in cl : t \notin p
  <2>1. DOMAIN ts = 1..Len(ts)
    BY LenProperties DEF TrackletsRight
  <2>2. PICK i \in 1..Len(ts) : t = ts[i]
    BY <2>1 DEF ToSet
  <2> QED
    BY <2>2 DEF TrackletsRight
<1>6. \A k \in 1..Len(l) : k = Len(fs) + 1 \/ k \in 1..Len(fs)
  BY <1>3
<1>7. \A k \in 1..Len(fs) :
        /\ fs[k][s].clusters \in Candidates(area, FALSE)
        /\ \A p \in cl : fs[k][s] \notin p
        /\ fs[k][s] \notin ToSet(ts)
        /\ \A j \in 1..Len(fs) : fs[j][s] = fs[k][s] => k = j
  BY DEF SideRight
<1>8. \A k \in 1..Len(fs) : l[k][s] # t /\ l[k][s] \notin ToSet(rest)
  BY <1>3, <1>7
<1>9. l[Len(fs) + 1][s] = t
  BY <1>3
<1>10. ASSUME NEW k \in 1..Len(l)
       PROVE  /\ l[k][s].clusters \in Candidates(area, FALSE)
              /\ \A p \in cl : l[k][s] \notin p
              /\ l[k][s] \notin ToSet(rest)
              /\ \A j \in 1..Len(l) : l[j][s] = l[k][s] => k = j
  <2>1. CASE k = Len(fs) + 1
    BY <1>5, <1>6, <1>8, <1>9, <2>1
  <2>2. CASE k \in 1..Len(fs)
    <3>1. \A j \in 1..Len(l) : l[j][s] = l[k][s] => k = j
      <4> TAKE j \in 1..Len(l)
      <4>1. CASE j = Len(fs) + 1
        BY <1>8, <1>9, <2>2, <4>1
      <4>2. CASE j \in 1..Len(fs)
        BY <1>3, <1>7, <2>2, <4>2
      <4> QED
        BY <1>6, <4>1, <4>2
    <3> QED
      BY <1>3, <1>7, <1>8, <2>2, <3>1
  <2> QED
    BY <1>6, <2>1, <2>2
<1>11. SideRight(s, area, rest, cl, l)
  BY <1>10 DEF SideRight
<1> QED
  BY <1>4, <1>11 DEF l

\* The tracklets of an arm are complete.
LEMMA IsolateMultiplet ==
    ASSUME Configured, chain' = chain, setup' = setup, MultipletInv, Isolate
    PROVE  MultipletInv'
<1>1. /\ chain.module = "TrackingMultiplet" /\ at = "isolate" /\ hits' = hits /\ found' = <<>>
      /\ IF stream = "upstream" THEN at' = "track" /\ stream' = "downstream"
         ELSE at' = "match" /\ stream' = "upstream"
  BY DEF Isolate, Proceed
<1>2. /\ ArmsAccepted /\ hits \in Inputs /\ stream \in Streams
      /\ DOMAIN tracklets = Streams /\ DOMAIN close = Streams
      /\ stream = "downstream" => ArmRight("upstream")
      /\ SearchRight(ToSet(Arm(stream)), FALSE)
  BY <1>1 DEF MultipletInv, Searching
<1>3. PICK near \in SUBSET kSubset(2, DOMAIN found) :
        /\ tracklets' = [tracklets EXCEPT ![stream] = EraseUnisolated(found, near)]
        /\ close' = [close EXCEPT ![stream] = {{found[k] : k \in p} : p \in near}]
  <2>1. PICK near \in IF chain.isolation_cut = 0 THEN {{}} ELSE SUBSET kSubset(2, DOMAIN found) :
        /\ tracklets' = [tracklets EXCEPT ![stream] = EraseUnisolated(found, near)]
        /\ close' = [close EXCEPT ![stream] = {{found[k] : k \in p} : p \in near}]
    BY DEF Isolate
  <2>2. near \in SUBSET kSubset(2, DOMAIN found)
    OBVIOUS
  <2> QED
    BY <2>1, <2>2
<1>4. PICK area : area = ToSet(Arm(stream))
  OBVIOUS
<1>5. PICK fs : fs = found
  OBVIOUS
<1>6. FoundRight(area, FALSE, fs)
  BY <1>2, <1>4, <1>5 DEF SearchRight
<1>7. PICK ts, cl : ts = EraseUnisolated(fs, near) /\ cl = {{fs[k] : k \in p} : p \in near}
  OBVIOUS
<1>8. TrackletsRight(area, ts, cl)
  <2>1. near \in SUBSET kSubset(2, DOMAIN fs)
    BY <1>5
  <2> QED
    <3>1. TrackletsRight(area, EraseUnisolated(fs, near), ClosePairs(fs, near))
      BY <1>6, <2>1, IsolateRight
    <3> QED
      BY <1>7, <3>1, Zenon DEF ClosePairs
<1>9. /\ DOMAIN tracklets' = Streams /\ DOMAIN close' = Streams
      /\ tracklets'[stream] = ts /\ close'[stream] = cl
      /\ \A s \in Streams : s # stream => tracklets'[s] = tracklets[s] /\ close'[s] = close[s]
  BY <1>2, <1>3, <1>5, <1>7
<1>10. ArmsAccepted' /\ Inputs' = Inputs /\ \A s \in Streams : Arm(s)' = Arm(s)
  BY <1>2, ArmsSame DEF Inputs, Streams
<1>11. CASE stream = "upstream"
  <2>1. ArmRight("upstream")'
    BY <1>4, <1>8, <1>9, <1>10, <1>11 DEF ArmRight, Streams
  <2> QED
    BY <1>1, <1>2, <1>9, <1>10, <1>11, <2>1 DEF MultipletInv, TrackletsIsolated, Searching, Streams
<1>12. CASE stream = "downstream"
  <2>1. ArmRight("downstream")'
    BY <1>4, <1>8, <1>9, <1>10, <1>12 DEF ArmRight, Streams
  <2>2. ArmRight("upstream")'
    <3>1. tracklets'["upstream"] = tracklets["upstream"] /\ close'["upstream"] = close["upstream"]
      BY <1>9, <1>12 DEF Streams
    <3> QED
      BY <1>2, <1>10, <1>12, <3>1 DEF ArmRight, Streams
  <2>3. MultipletsRight'
    <3>1. Len(found') = 0 /\ 1..0 = {} /\ found' \in Seq(ToSet(found'))
      BY <1>1
    <3> QED
      BY <3>1 DEF MultipletsRight, SideRight
  <2> QED
    BY <1>1, <1>2, <1>9, <1>10, <1>12, <2>1, <2>2, <2>3 DEF MultipletInv, TrackletsIsolated, Searching, Streams
<1> QED
  BY <1>2, <1>11, <1>12 DEF Streams

\* One upstream tracklet is matched, or given up.
LEMMA MatchMultiplet ==
    ASSUME Configured, chain' = chain, setup' = setup, MultipletInv, Match
    PROVE  MultipletInv'
<1>1. /\ chain.module = "TrackingMultiplet" /\ at = "match" /\ at' = "match" /\ hits' = hits
      /\ tracklets["upstream"] # <<>> /\ stream' = stream /\ close' = close
  BY DEF Match, Proceed
<1>2. /\ ArmsAccepted /\ hits \in Inputs /\ stream = "upstream"
      /\ DOMAIN tracklets = Streams /\ DOMAIN close = Streams
      /\ ArmRight("upstream") /\ ArmRight("downstream") /\ MultipletsRight
  BY <1>1 DEF MultipletInv, Searching
<1>3. ArmsAccepted' /\ Inputs' = Inputs /\ \A s \in Streams : Arm(s)' = Arm(s)
  BY <1>2, ArmsSame DEF Inputs, Streams
<1>4. PICK up, down : up = tracklets["upstream"] /\ down = tracklets["downstream"]
  OBVIOUS
<1>5. PICK au, ad : au = ToSet(Arm("upstream")) /\ ad = ToSet(Arm("downstream"))
  OBVIOUS
<1>6. PICK cu, cd : cu = close["upstream"] /\ cd = close["downstream"]
  OBVIOUS
<1>7. PICK fs : fs = found
  OBVIOUS
<1>8. /\ TrackletsRight(au, up, cu) /\ TrackletsRight(ad, down, cd) /\ fs \in Seq(ToSet(fs))
      /\ SideRight("upstream", au, up, cu, fs) /\ SideRight("downstream", ad, down, cd, fs)
  BY <1>2, <1>4, <1>5, <1>6, <1>7 DEF ArmRight, MultipletsRight, Streams
<1>9. up \in Seq(ToSet(up)) /\ down \in Seq(ToSet(down)) /\ Distinct(up) /\ Distinct(down) /\ up # <<>>
  BY <1>1, <1>4, <1>8 DEF TrackletsRight
<1> DEFINE t == Tail(up)
           h == Head(up)
<1>10. t \in Seq(ToSet(up)) /\ ToSet(t) \subseteq ToSet(up) /\ h \in ToSet(up) /\ Distinct(t) /\ h \notin ToSet(t)
  <2>1. PICK U : U = ToSet(up)
    OBVIOUS
  <2>2. up \in Seq(U)
    BY <1>9, <2>1
  <2>3. /\ t \in Seq(U) /\ ToSet(t) \subseteq ToSet(up) /\ h \in ToSet(up)
        /\ Distinct(up) => Distinct(t) /\ h \notin ToSet(t)
    BY <1>9, <2>2, OneLess
  <2> QED
    BY <1>9, <2>1, <2>3
<1> HIDE DEF t, h
<1>11. TrackletsRight(au, t, cu)
  <2>1. PICK U : U = ToSet(up)
    OBVIOUS
  <2>2. t \in Seq(U)
    BY <1>10, <2>1
  <2> QED
    BY <1>8, <1>10, <2>2, FewerTracklets
<1>12. SideRight("upstream", au, t, cu, fs)
  BY <1>8, <1>10 DEF SideRight
<1>13. \/ tracklets' = [tracklets EXCEPT !["upstream"] = t] /\ found' = fs
       \/ \E k \in 1..Len(down) :
            /\ tracklets' = [tracklets EXCEPT !["upstream"] = t, !["downstream"] = RemoveAt(down, k)]
            /\ found' = Append(fs, [upstream |-> h, downstream |-> down[k]])
  <2> DEFINE l == [k \in DOMAIN down |-> k]
             near == {k \in DOMAIN down : Simultaneous(down[k], h)}
             simultaneous == Kept(l, near)
  <2>1. PICK matching \in SUBSET ToSet(simultaneous) : \E distance \in [matching -> 1..2] :
           IF matching = {}
              THEN /\ tracklets' = [tracklets EXCEPT !["upstream"] = Tail(@)]
                   /\ UNCHANGED found
              ELSE \E k \in Closest(distance) :
                   /\ tracklets' = [tracklets EXCEPT !["upstream"] = Tail(@),
                                                     !["downstream"] = RemoveAt(@, k)]
                   /\ found' = Append(found, [upstream |-> h, downstream |-> down[k]])
    BY <1>4 DEF Match, h
  <2>2. DOMAIN down = 1..Len(down) /\ Len(down) \in Nat
    BY <1>9, LenProperties
  <2>3. ToSet(simultaneous) \subseteq 1..Len(down)
    <3>1. l \in Seq(1..Len(down)) /\ DOMAIN l = 1..Len(down) /\ \A k \in 1..Len(down) : l[k] = k
      BY <2>2
    <3> HIDE DEF l, near
    <3>2. ToSet(simultaneous) = ToSet(l) \cap near
      BY <3>1, PartOfList
    <3>3. ToSet(l) \subseteq 1..Len(down)
      BY <3>1 DEF ToSet
    <3> QED
      BY <3>2, <3>3
  <2> HIDE DEF simultaneous
  <2>4. matching \subseteq 1..Len(down)
    BY <2>3
  <2>5. PICK distance \in [matching -> 1..2] :
           IF matching = {}
              THEN /\ tracklets' = [tracklets EXCEPT !["upstream"] = Tail(@)]
                   /\ UNCHANGED found
              ELSE \E k \in Closest(distance) :
                   /\ tracklets' = [tracklets EXCEPT !["upstream"] = Tail(@),
                                                     !["downstream"] = RemoveAt(@, k)]
                   /\ found' = Append(found, [upstream |-> h, downstream |-> down[k]])
    BY <2>1
  <2>6. tracklets["upstream"] = up /\ tracklets["downstream"] = down /\ Tail(up) = t
        /\ "upstream" \in DOMAIN tracklets /\ "downstream" \in DOMAIN tracklets
    BY <1>2, <1>4 DEF t, Streams
  <2>7. CASE matching = {}
    BY <1>7, <2>5, <2>6, <2>7
  <2>8. CASE matching # {}
    <3>1. PICK k \in Closest(distance) :
                   /\ tracklets' = [tracklets EXCEPT !["upstream"] = Tail(@),
                                                     !["downstream"] = RemoveAt(@, k)]
                   /\ found' = Append(found, [upstream |-> h, downstream |-> down[k]])
      BY <2>5, <2>8
    <3>2. k \in 1..Len(down)
      BY <2>4 DEF Closest
    <3>3. tracklets' = [tracklets EXCEPT !["upstream"] = t, !["downstream"] = RemoveAt(down, k)]
      BY <2>6, <3>1
    <3> QED
      BY <1>7, <3>1, <3>2, <3>3
  <2> QED
    BY <2>7, <2>8
<1>14. ASSUME /\ TrackletsRight(au, tracklets'["upstream"], cu) /\ TrackletsRight(ad, tracklets'["downstream"], cd)
              /\ found' \in Seq(ToSet(found')) /\ DOMAIN tracklets' = Streams
              /\ SideRight("upstream", au, tracklets'["upstream"], cu, found')
              /\ SideRight("downstream", ad, tracklets'["downstream"], cd, found')
       PROVE  MultipletInv'
  <2>1. /\ Arm("upstream")' = Arm("upstream") /\ Arm("downstream")' = Arm("downstream")
        /\ close'["upstream"] = cu /\ close'["downstream"] = cd
    BY <1>1, <1>3, <1>6 DEF Streams
  <2>2. ArmRight("upstream")' /\ ArmRight("downstream")'
    BY <1>5, <1>14, <2>1 DEF ArmRight
  <2>3. MultipletsRight'
    BY <1>5, <1>14, <2>1 DEF MultipletsRight, Streams
  <2> QED
    BY <1>1, <1>2, <1>3, <1>14, <2>2, <2>3 DEF MultipletInv, TrackletsIsolated, Searching, Streams
<1>15. CASE tracklets' = [tracklets EXCEPT !["upstream"] = t] /\ found' = fs
  <2>1. tracklets'["upstream"] = t /\ tracklets'["downstream"] = down /\ DOMAIN tracklets' = Streams
    BY <1>2, <1>4, <1>15 DEF Streams
  <2> QED
    BY <1>8, <1>11, <1>12, <1>14, <1>15, <2>1
<1>16. CASE \E k \in 1..Len(down) :
            /\ tracklets' = [tracklets EXCEPT !["upstream"] = t, !["downstream"] = RemoveAt(down, k)]
            /\ found' = Append(fs, [upstream |-> h, downstream |-> down[k]])
  <2>1. PICK k \in 1..Len(down) :
            /\ tracklets' = [tracklets EXCEPT !["upstream"] = t, !["downstream"] = RemoveAt(down, k)]
            /\ found' = Append(fs, [upstream |-> h, downstream |-> down[k]])
    BY <1>16
  <2>2. PICK rest : rest = RemoveAt(down, k)
    OBVIOUS
  <2>3. PICK m : m = [upstream |-> h, downstream |-> down[k]]
    OBVIOUS
  <2>4. m["upstream"] = h /\ m["downstream"] = down[k] /\ found' = Append(fs, m)
    BY <2>1, <2>3
  <2>5. tracklets'["upstream"] = t /\ tracklets'["downstream"] = rest /\ DOMAIN tracklets' = Streams
    BY <1>2, <2>1, <2>2 DEF Streams
  <2>6. PICK U : U = ToSet(down)
    OBVIOUS
  <2>7. rest \in Seq(U) /\ ToSet(rest) \subseteq ToSet(down) /\ Distinct(rest) /\ down[k] \notin ToSet(rest)
    <3>1. down \in Seq(U)
      BY <1>9, <2>6
    <3>2. /\ RemoveAt(down, k) \in Seq(U) /\ ToSet(RemoveAt(down, k)) \subseteq ToSet(down)
          /\ Distinct(down) => Distinct(RemoveAt(down, k)) /\ down[k] \notin ToSet(RemoveAt(down, k))
      BY <3>1, OneRemoved
    <3> QED
      BY <1>9, <2>2, <3>2
  <2>8. down[k] \in ToSet(down)
    BY <1>9, LenProperties DEF ToSet
  <2>9. TrackletsRight(ad, rest, cd)
    BY <1>8, <2>7, FewerTracklets
  <2>10. SideRight("upstream", au, t, cu, found') /\ found' \in Seq(ToSet(found'))
    BY <1>8, <1>10, <2>4, SideMatched
  <2>11. SideRight("downstream", ad, rest, cd, found')
    BY <1>8, <2>4, <2>7, <2>8, SideMatched
  <2> QED
    BY <1>11, <1>14, <2>5, <2>9, <2>10, <2>11
<1> QED
  BY <1>13, <1>15, <1>16

\* The multiplets are put on the clipboard.
LEMMA PutMultiplet ==
    ASSUME Configured, chain' = chain, setup' = setup, MultipletInv, MultipletPut
    PROVE  MultipletInv'
<1>1. /\ chain.module = "TrackingMultiplet" /\ at = "match" /\ at' = "end" /\ hits' = hits
      /\ tracks' = found /\ tracklets' = [s \in Streams |-> <<>>] /\ stream' = stream /\ close' = close
  BY DEF MultipletPut, Proceed
<1>2. /\ ArmsAccepted /\ hits \in Inputs /\ stream = "upstream" /\ stream \in Streams
      /\ DOMAIN close = Streams /\ MultipletsRight
  BY <1>1 DEF MultipletInv, Searching
<1>3. ArmsAccepted' /\ Inputs' = Inputs /\ Scatterer' = Scatterer
  BY <1>2, ArmsSame DEF Inputs
<1>4. PICK fs : fs = found
  OBVIOUS
<1>5. fs \in Seq(ToSet(fs)) /\ DOMAIN fs = 1..Len(fs)
  BY <1>2, <1>4, LenProperties DEF MultipletsRight
<1>6. \A s \in Streams : SideRight(s, ToSet(Arm(s)), tracklets[s], close[s], fs)
  BY <1>2, <1>4 DEF MultipletsRight
<1>7. \A z \in Scatterer :
          /\ \A d \in ToSet(Arm("upstream")) : chain.z[d] <= z
          /\ \A d \in ToSet(Arm("downstream")) : chain.z[d] >= z
  BY <1>1, <1>2, ArmSides
<1>8. ASSUME NEW k \in 1..Len(fs), NEW s \in Streams
      PROVE  /\ \A p \in close[s] : fs[k][s] \notin p
             /\ \A l \in 1..Len(fs) : fs[l][s] = fs[k][s] => k = l
             /\ Len(fs[k][s].clusters) >= 2
             /\ \A c \in Clusters(fs[k][s]), z \in Scatterer :
                    IF s = "upstream" THEN chain.z[c[1]] <= z ELSE chain.z[c[1]] >= z
  <2>1. /\ fs[k][s].clusters \in Candidates(ToSet(Arm(s)), FALSE)
        /\ \A p \in close[s] : fs[k][s] \notin p
        /\ \A l \in 1..Len(fs) : fs[l][s] = fs[k][s] => k = l
    BY <1>6 DEF SideRight
  <2>2. PICK cs, area : cs = fs[k][s].clusters /\ area = ToSet(Arm(s))
    OBVIOUS
  <2>3. cs \in Seq(area \X Nat) /\ Len(cs) >= 2
    BY <2>1, <2>2 DEF Candidates
  <2>4. \A c \in ToSet(cs) : c[1] \in area
    <3>1. DOMAIN cs = 1..Len(cs) /\ \A i \in 1..Len(cs) : cs[i] \in area \X Nat
      BY <2>3, LenProperties, ElementOfSeq
    <3> QED
      BY <3>1 DEF ToSet
  <2>5. \A c \in Clusters(fs[k][s]) : c[1] \in area
    BY <2>2, <2>4 DEF Clusters
  <2>6. \A c \in Clusters(fs[k][s]), z \in Scatterer :
            IF s = "upstream" THEN chain.z[c[1]] <= z ELSE chain.z[c[1]] >= z
    <3>1. CASE s = "upstream"
      BY <1>7, <2>2, <2>5, <3>1
    <3>2. CASE s = "downstream"
      BY <1>7, <2>2, <2>5, <3>2
    <3> QED
      BY <3>1, <3>2 DEF Streams
  <2> QED
    BY <2>1, <2>2, <2>3, <2>6
<1>9. TrackletsIsolated'
  <2>1. tracks' = fs /\ DOMAIN tracks' = 1..Len(fs) /\ chain'.z = chain.z
    BY <1>1, <1>4, <1>5
  <2> HIDE DEF Clusters
  <2>2. \A k \in DOMAIN tracks' : \A s \in Streams :
            /\ \A p \in close'[s] : tracks'[k][s] \notin p
            /\ \A l \in DOMAIN tracks' : tracks'[l][s] = tracks'[k][s] => k = l
            /\ Len(tracks'[k][s].clusters) >= 2
            /\ \A c \in Clusters(tracks'[k][s]), z \in Scatterer' :
                    IF s = "upstream" THEN chain'.z[c[1]] <= z ELSE chain'.z[c[1]] >= z
    BY <1>1, <1>3, <1>8, <2>1
  <2> QED
    BY <2>2 DEF TrackletsIsolated
<1>10. DOMAIN tracklets' = Streams /\ DOMAIN close' = Streams /\ stream' = "upstream" /\ stream' \in Streams
  BY <1>1, <1>2
<1> QED
  BY <1>1, <1>2, <1>3, <1>9, <1>10 DEF MultipletInv, Searching

\* Every step keeps the arms and the multiplets right.
LEMMA MultipletInvStep ==
    ASSUME LoopInv, MultipletInv, [Next]_vars
    PROVE  MultipletInv'
<1>1. chain' = chain /\ setup' = setup /\ Configured
  BY LoopStep DEF LoopInv
<1>2. CASE chain.module # "TrackingMultiplet"
  BY <1>1, <1>2 DEF MultipletInv
<1>3. CASE chain.module = "TrackingMultiplet" /\ TrackNext
  <2>1. CASE ClustersArrive /\ UNCHANGED multipletVars
    BY <1>1, <1>3, <2>1, ArriveMultiplet
  <2>2. CASE MultipletRefused
    BY <1>1, <2>2, RefusedMultiplet
  <2>3. CASE MultipletBegin
    BY <1>1, <2>3, BeginMultiplet
  <2>4. CASE MultipletPair
    BY <1>1, <2>4, PairMultiplet
  <2>5. CASE MultipletPlane
    BY <1>1, <2>5, PlaneMultiplet
  <2>6. CASE MultipletSave
    BY <1>1, <2>6, SaveMultiplet
  <2>7. CASE MultipletSearched
    BY <1>1, <2>7, SearchedMultiplet
  <2>8. CASE Isolate
    BY <1>1, <2>8, IsolateMultiplet
  <2>9. CASE Match
    BY <1>1, <2>9, MatchMultiplet
  <2>10. CASE MultipletPut
    BY <1>1, <2>10, PutMultiplet
  <2>11. (ClustersArrive /\ UNCHANGED multipletVars) \/ MultipletStep
    BY <1>3, TrackingSteps
  <2> QED
    BY <2>1, <2>2, <2>3, <2>4, <2>5, <2>6, <2>7, <2>8, <2>9, <2>10, <2>11 DEF MultipletStep
<1>4. CASE chain.module = "TrackingMultiplet" /\ ~TrackNext
  <2>1. /\ \/ at' = at \/ (at = "end" /\ at' \in {"begin", "finalize"})
           \/ (at = "initialize" /\ at' = "begin" /\ ArmsAccepted)
        /\ hits' = hits /\ references' = references /\ pairs' = pairs /\ planes' = planes
        /\ candidate' = candidate /\ found' = found /\ tracks' = tracks
        /\ UNCHANGED multipletVars
    BY <1>4, OtherThanTracking DEF trackingVars, searchVars
  <2>2. /\ Arm(stream)' = Arm(stream) /\ stream' = stream /\ tracklets' = tracklets /\ close' = close
        /\ \A s \in Streams : ArmRight(s)' = ArmRight(s)
    BY <1>1, <2>1, ArmOfStream
  <2>3. /\ ArmsAccepted => ArmsAccepted'
        /\ Inputs' = Inputs /\ Scatterer' = Scatterer /\ \A s \in Streams : Arm(s)' = Arm(s)
    BY <1>1, ArmsSame DEF Inputs, Streams
  <2>4. (at \notin {"initialize", "refused"} => ArmsAccepted)'
    BY <1>4, <2>1, <2>3 DEF MultipletInv
  <2>5. (at \notin {"initialize", "begin", "refused"} => hits \in Inputs)'
    BY <1>4, <2>1, <2>3 DEF MultipletInv
  <2>6. (stream \in Streams /\ DOMAIN tracklets = Streams /\ DOMAIN close = Streams)'
    BY <1>4, <2>2 DEF MultipletInv
  <2>7. (at \in Searching /\ stream = "downstream" => ArmRight("upstream"))'
    <3>1. at' \in Searching => at' = at
      BY <2>1 DEF Searching
    <3>2. ArmRight("upstream")' = ArmRight("upstream")
      BY <2>2 DEF Streams
    <3> QED
      BY <1>4, <2>2, <3>1, <3>2 DEF MultipletInv, Searching
  <2>8. (at \in {"pair", "plane", "isolate"} => SearchRight(ToSet(Arm(stream)), FALSE))'
    <3> SUFFICES ASSUME at' \in {"pair", "plane", "isolate"} PROVE SearchRight(ToSet(Arm(stream)), FALSE)'
      OBVIOUS
    <3>1. at' = at
      BY <2>1
    <3>2. SearchRight(ToSet(Arm(stream)), FALSE)
      BY <1>4, <3>1 DEF MultipletInv
    <3> QED
      BY <2>1, <2>2, <3>1, <3>2 DEF SearchRight
  <2>9. (at \notin Searching => stream = "upstream")'
    <3>1. at' \notin Searching => at \notin Searching
      BY <2>1 DEF Searching
    <3> QED
      BY <1>4, <2>2, <3>1 DEF MultipletInv, Searching
  <2>10. (at = "match" => ArmRight("upstream") /\ ArmRight("downstream") /\ MultipletsRight)'
    <3> SUFFICES ASSUME at' = "match"
                 PROVE  ArmRight("upstream")' /\ ArmRight("downstream")' /\ MultipletsRight'
      OBVIOUS
    <3>1. at = "match"
      BY <2>1
    <3>2. ArmRight("upstream") /\ ArmRight("downstream") /\ MultipletsRight
      BY <1>4, <3>1 DEF MultipletInv
    <3>3. ArmRight("upstream")' /\ ArmRight("downstream")'
      BY <2>2, <3>2 DEF Streams
    <3>4. MultipletsRight'
      BY <2>1, <2>2, <2>3, <3>2 DEF MultipletsRight
    <3> QED
      BY <3>3, <3>4
  <2>11. TrackletsIsolated'
    <3>1. CASE at' # "end"
      BY <3>1 DEF TrackletsIsolated
    <3>2. CASE at' = "end"
      <4>1. at' = at /\ TrackletsIsolated
        BY <1>4, <2>1, <3>2 DEF MultipletInv
      <4> QED
        BY <1>1, <2>1, <2>2, <2>3, <4>1 DEF TrackletsIsolated
    <3> QED
      BY <3>1, <3>2
  <2> QED
    BY <2>4, <2>5, <2>6, <2>7, <2>8, <2>9, <2>10, <2>11 DEF MultipletInv
<1> QED
  BY <1>2, <1>3, <1>4

\* Both modules keep their invariants in every run.
LEMMA TrackingInvCorrect == Spec => [](Tracking4DInv /\ MultipletInv)
<1>1. Init => Tracking4DInv /\ MultipletInv
  <2>1. Init => at = "initialize" /\ MultipletInit
    BY DEF Init, ChainInit
  <2>2. at = "initialize" => Tracking4DInv
    BY DEF Tracking4DInv, TracksWellFormed, BestTracksKept
  <2>3. at = "initialize" /\ MultipletInit => MultipletInv
    BY DEF MultipletInit, MultipletInv, TrackletsIsolated, Searching, Streams
  <2> QED
    BY <2>1, <2>2, <2>3
<1>2. LoopInv /\ Tracking4DInv /\ MultipletInv /\ [Next]_vars => Tracking4DInv' /\ MultipletInv'
  BY Tracking4DInvStep, MultipletInvStep
<1> QED
  BY <1>1, <1>2, NextLoop, PTL DEF Spec

\* For every telescope and whatever is hit: a track has enough clusters, one of each
\* required detector and none of an excluded one, and a dropped track shares a cluster
\* with a kept one that is not worse; when the seed is of two detectors at least, a track
\* has at most one cluster of a detector, and with unique_cluster_usage no two tracks
\* share one; a tracklet is isolated, used once, and on its side of the scatterer.
THEOREM TracksCorrect == Spec => []TracksSound
<1>1. Tracking4DInv /\ MultipletInv => TracksSound
  BY DEF Tracking4DInv, MultipletInv, TracksSound, TracksWellFormed, BestTracksKept, TrackletsIsolated
<1> QED
  BY <1>1, TrackingInvCorrect, PTL

-----------------------------------------------------------------------------
(* What is booked *)

BookedInv ==
    chain.module \notin {"DUT", "AnalysisFASTPIX"} =>
        /\ at = "initialize" => DOMAIN filled = {}
        /\ BookedBeforeFilled

\* Entering names that are booked books no others.
LEMMA FillBooks ==
    ASSUME NEW S, DOMAIN filled = S, NEW names \in Seq(S), Fill(names)
    PROVE  DOMAIN filled' = S
BY FillBooked

\* What is booked in each kind of chain.
LEMMA BooksOf ==
    /\ chain.module = "Clustering" =>
            Books = BookedSpatialClusters \cup IF chain.method = "4D" THEN BookedClusters4D ELSE {}
    /\ chain.module = "Tracking4D" => Books = BookedTracking4D
    /\ chain.module = "TrackingMultiplet" => Books = BookedMultiplet
    /\ chain.module = "DUT" => Books = DUTBooks
    /\ chain.module = "Filter" => Books = BookedFilter
    /\ chain.module = "Timing" => Books = BookedTiming
    /\ chain.module = "Pairs" => Books = BookedPairs
    /\ chain.module = "AnalysisFASTPIX" => Books = BookedFASTPIX
    /\ chain.module \notin {"Clustering", "Tracking4D", "TrackingMultiplet", "DUT", "Filter", "Timing",
                            "Pairs", "AnalysisFASTPIX"} => Books = {}
BY DEF Books, DUTBooks

\* What is booked does not change.
LEMMA BooksSame == chain' = chain => Books' = Books
<1> SUFFICES ASSUME chain' = chain PROVE Books' = Books
  OBVIOUS
<1>1. Searched' = Searched
  BY DEF Searched
<1>2. \A s : Arm(s)' = Arm(s)
  <2>1. Scatterer' = Scatterer
    BY ArmsSame
  <2> QED
    BY <2>1 DEF Arm
<1>3. BookedTracking4D' = BookedTracking4D
  BY <1>1 DEF BookedTracking4D, BookedTracks, BookedIntersects, BookedLocalTracks, BookedGlobalTracks
<1>4. BookedMultiplet' = BookedMultiplet
  <2>1. BookedTrackletResiduals' = BookedTrackletResiduals
    BY <1>2 DEF BookedTrackletResiduals
  <2>2. BookedTracklets' = BookedTracklets
    BY DEF BookedTracklets
  <2>3. BookedMultiplets' = BookedMultiplets
    BY Zenon DEF BookedMultiplets
  <2> QED
    BY <2>1, <2>2, <2>3 DEF BookedMultiplet
<1>5. BookedTiming' = BookedTiming
  BY DEF BookedTiming, BookedCounters, BookedAssociated, BookedRow, BookedTimewalk, BookedTails, RowNumbers
<1>6. BookedPairs' = BookedPairs
  BY DEF BookedPairs, BookedHitmaps, BookedSpatial, BookedCorrelationTimes, BookedVsTime, BookedPrealignment
<1>7. BookedFilter' = BookedFilter /\ BookedFASTPIX' = BookedFASTPIX
      /\ BookedSpatialClusters' = BookedSpatialClusters /\ BookedClusters4D' = BookedClusters4D
  BY DEF BookedFilter, BookedFASTPIX, BookedSpatialClusters, BookedClusters4D
<1>8. DUTBooks' = DUTBooks
  <2>1. BookedDUT' = BookedDUT
    BY DEF BookedDUT, BookedGlobalResiduals, BookedLocalResiduals, BookedCorrelations, BookedClusters,
           BookedInPixel, BookedPositions, BookedTimes
  <2>2. BookedAssociation' = BookedAssociation /\ BookedEfficiency' = BookedEfficiency /\ BookedMaps' = BookedMaps
    BY DEF BookedAssociation, BookedEfficiency, BookedMaps
  <2> QED
    BY <2>1, <2>2 DEF DUTBooks
<1> QED
  BY <1>3, <1>4, <1>5, <1>6, <1>7, <1>8, Zenon DEF Books, DUTBooks

\* FilterEvents enters every event, and why it is rejected.
LEMMA FilterBooked ==
    ASSUME DOMAIN filled = BookedFilter, FilterStep
    PROVE  DOMAIN filled' = BookedFilter
<1>1. CASE EventArrives
  BY <1>1 DEF EventArrives
<1>2. CASE FilterRun
  <2> DEFINE S == BookedFilter
             rejected == filter_tracks \o filter_cluster
             passed == If(rejected = <<>> /\ ~filter_tags, <<"EventsPassed">>)
  <2>1. /\ <<"Events">> \in Seq(S) /\ <<"TooManyTracks">> \in Seq(S) /\ <<"TooFewTracks">> \in Seq(S)
        /\ <<"TooManyClusters">> \in Seq(S) /\ <<"TooFewClusters">> \in Seq(S) /\ <<"EventsPassed">> \in Seq(S)
    BY DEF BookedFilter
  <2> HIDE DEF S
  <2>2. filter_tracks \in Seq(S)
    <3>1. /\ If(num_tracks > chain.max_tracks, <<"TooManyTracks">>) \in Seq(S)
          /\ If(num_tracks <= chain.max_tracks /\ num_tracks < chain.min_tracks, <<"TooFewTracks">>) \in Seq(S)
      BY <2>1, IfNames
    <3> QED
      BY <3>1, ConcatProperties DEF filter_tracks
  <2>3. filter_cluster \in Seq(S)
    <3> DEFINE Planes == RegularDetectors(chain.detectors, chain.role, FALSE)
               Bad(d) == input.clusters[d] \notin chain.min_clusters..chain.max_clusters
               bad == SelectSeq(Planes, Bad)
               one == <<IF input.clusters[Head(bad)] > chain.max_clusters
                        THEN "TooManyClusters" ELSE "TooFewClusters">>
    <3>1. one \in Seq(S)
      <4>1. one = <<"TooManyClusters">> \/ one = <<"TooFewClusters">>
        BY Zenon
      <4> QED
        BY <2>1, <4>1
    <3>2. filter_cluster = If(bad # <<>>, one)
      BY DEF filter_cluster
    <3> HIDE DEF one, bad
    <3> QED
      BY <3>1, <3>2, IfNames
  <2>4. rejected \in Seq(S)
    BY <2>2, <2>3, ConcatProperties
  <2> HIDE DEF rejected
  <2>5. passed \in Seq(S)
    BY <2>1, IfNames
  <2> HIDE DEF passed
  <2>6. <<"Events">> \o rejected \in Seq(S) /\ <<"Events">> \o rejected \o passed \in Seq(S)
    BY <2>1, <2>4, <2>5, ConcatProperties
  <2>7. Fill(<<"Events">> \o rejected) \/ Fill(<<"Events">> \o rejected \o passed)
    BY <1>2, Zenon DEF FilterRun, rejected, passed
  <2> QED
    BY <2>6, <2>7, FillBooks DEF S
<1> QED
  BY <1>1, <1>2 DEF FilterStep

\* A list of lists of names, one for each element of another list.
LEMMA ListOfLists ==
    ASSUME NEW T, NEW U, NEW s \in Seq(U), NEW f, DOMAIN f = DOMAIN s, f = [m \in DOMAIN f |-> f[m]],
           \A m \in DOMAIN s : f[m] \in Seq(T)
    PROVE  FlattenSeq(f) \in Seq(T)
<1>1. DOMAIN s = 1..Len(s) /\ Len(s) \in Nat
  BY LenProperties
<1> DEFINE V == Seq(T)
<1>2. f \in Seq(V)
  <2>1. f \in [1..Len(s) -> V]
    BY <1>1
  <2> HIDE DEF V
  <2> QED
    BY <1>1, <2>1
<1> QED
  BY <1>2, FlattenProperties

\* What Correlations enters for the pixels of a cluster,
LEMMA PixelNames ==
    ASSUME PairInv, chain.module = "Pairs", NEW c
    PROVE  FillPixels(c) \in Seq(BookedPairs)
<1> DEFINE S == BookedPairs
           few == If(chain.correlation_vs_time, <<"correlationTimeOverTime_px", "correlationTimeOverPixelRawValue_px">>)
           one == <<"correlationColRow_px", "correlationTime_px">> \o few
           all == [k \in DOMAIN pairs_of.reference |-> one]
<1>1. /\ <<"hitmap", "eventTimes", "hitmap_clusters">> \in Seq(S)
      /\ <<"correlationColRow_px", "correlationTime_px">> \in Seq(S)
  BY DEF BookedPairs, BookedHitmaps, BookedSpatial, BookedCorrelationTimes
<1>2. few \in Seq(S)
  <2>1. CASE chain.correlation_vs_time
    <3>1. {"correlationTimeOverTime_px", "correlationTimeOverPixelRawValue_px"} \subseteq S
      BY <2>1 DEF BookedPairs, BookedVsTime
    <3> QED
      BY <2>1, <3>1 DEF If
  <2>2. CASE ~chain.correlation_vs_time
    BY <2>2, EmptySeq DEF If
  <2> QED
    BY <2>1, <2>2
<1>3. pairs_of.reference \in Seq(GlobalClusters)
  BY DEF PairInv
<1> HIDE DEF S, few
<1>4. one \in Seq(S)
  BY <1>1, <1>2, ConcatProperties
<1> HIDE DEF one
<1>5. FlattenSeq(all) \in Seq(S)
  <2>1. DOMAIN all = DOMAIN pairs_of.reference /\ all = [k \in DOMAIN all |-> all[k]]
        /\ \A k \in DOMAIN pairs_of.reference : all[k] \in Seq(S)
    BY <1>4
  <2> HIDE DEF all
  <2> QED
    BY <1>3, <2>1, ListOfLists
<1>6. FillPixels(c) = <<"hitmap", "eventTimes", "hitmap_clusters">> \o FlattenSeq(all)
  BY Zenon DEF FillPixels, all, one, few
<1> HIDE DEF all
<1> QED
  BY <1>1, <1>5, <1>6, ConcatProperties DEF S

\* and for a pair.
LEMMA PairNames ==
    ASSUME NEW c, NEW r
    PROVE  FillPair(c, r) \in Seq(BookedPairs)
<1> DEFINE S == BookedPairs
           placed == PairedInTime(c, r) \/ ~chain.do_time_cut
           vs == If(placed, <<"correlationVsTime">>)
           over == <<"correlationTimeOverTime", "correlationTimeOverSeedPixelRawValue">>
           times == If(chain.correlation_vs_time, vs \o over)
           spatial == If(placed, <<"correlation", "correlation2D", "correlation2Dlocal">>)
<1>1. /\ <<"correlation", "correlation2D", "correlation2Dlocal">> \in Seq(S)
      /\ <<"correlationTime">> \in Seq(S) /\ <<"correlationTimeInt">> \in Seq(S)
  BY DEF BookedPairs, BookedSpatial, BookedCorrelationTimes
<1>2. times \in Seq(S)
  <2>1. CASE chain.correlation_vs_time
    <3>1. <<"correlationVsTime">> \in Seq(S) /\ over \in Seq(S)
      BY <2>1 DEF BookedPairs, BookedVsTime
    <3> HIDE DEF S, over, placed
    <3>2. vs \in Seq(S)
      BY <3>1, IfNames
    <3> HIDE DEF vs
    <3>3. vs \o over \in Seq(S)
      BY <3>1, <3>2, ConcatProperties
    <3> QED
      BY <2>1, <3>3 DEF If
  <2>2. CASE ~chain.correlation_vs_time
    BY <2>2, EmptySeq DEF If
  <2> QED
    BY <2>1, <2>2
<1> HIDE DEF S, placed
<1>3. spatial \in Seq(S)
  BY <1>1, IfNames
<1>4. FillPair(c, r) = ((spatial \o <<"correlationTime">>) \o times) \o <<"correlationTimeInt">>
  BY Zenon DEF FillPair, spatial, times, vs, over, placed
<1> HIDE DEF spatial, times
<1> QED
  BY <1>1, <1>2, <1>3, <1>4, ConcatProperties DEF S

\* Correlations and Prealignment enter what Correlations has booked.
LEMMA PairsBooked ==
    ASSUME PairInv, chain.module = "Pairs", DOMAIN filled = BookedPairs, PairStep
    PROVE  DOMAIN filled' = BookedPairs
<1> DEFINE S == BookedPairs
<1>1. pairs_of.detector \in Seq(GlobalClusters) /\ pairs_of.reference \in Seq(GlobalClusters)
  BY DEF PairInv
<1>2. CASE CorrelationsRun
  <2> DEFINE clusters_ == pairs_of.detector
             inside == Kept(clusters_, {c \in ToSet(clusters_) : c.inROI})
             a == [m \in DOMAIN clusters_ |-> FillPixels(clusters_[m])]
             row(m) == [k \in DOMAIN pairs_of.reference |-> FillPair(inside[m], pairs_of.reference[k])]
             b == [m \in DOMAIN inside |-> FlattenSeq(row(m))]
  <2>1. inside \in Seq(GlobalClusters)
    BY <1>1, KeptHas
  <2>2. FlattenSeq(a) \in Seq(S)
    <3>1. DOMAIN a = DOMAIN clusters_ /\ a = [m \in DOMAIN a |-> a[m]]
          /\ \A m \in DOMAIN clusters_ : a[m] \in Seq(S)
      BY PixelNames
    <3> HIDE DEF a, S
    <3> QED
      BY <1>1, <3>1, ListOfLists
  <2> HIDE DEF inside
  <2>3. \A m : FlattenSeq(row(m)) \in Seq(S)
    <3> TAKE m
    <3> DEFINE v == row(m)
    <3>1. DOMAIN v = DOMAIN pairs_of.reference /\ v = [k \in DOMAIN v |-> v[k]]
          /\ \A k \in DOMAIN pairs_of.reference : v[k] \in Seq(S)
      BY PairNames
    <3> HIDE DEF v, S
    <3>2. FlattenSeq(v) \in Seq(S)
      BY <1>1, <3>1, ListOfLists
    <3> QED
      BY <3>2 DEF v
  <2>4. FlattenSeq(b) \in Seq(S)
    <3> HIDE DEF row
    <3>1. DOMAIN b = DOMAIN inside /\ b = [m \in DOMAIN b |-> b[m]]
          /\ \A m \in DOMAIN inside : b[m] \in Seq(S)
      BY <2>3
    <3> HIDE DEF b, S
    <3> QED
      BY <2>1, <3>1, ListOfLists
  <2>5. Fill(FlattenSeq(a) \o FlattenSeq(b))
    BY <1>2, Zenon DEF CorrelationsRun, a, b, row, inside
  <2> HIDE DEF a, b
  <2>6. FlattenSeq(a) \o FlattenSeq(b) \in Seq(S)
    BY <2>2, <2>4, ConcatProperties
  <2> QED
    BY <2>5, <2>6, FillBooks
<1>3. CASE PrealignmentRun
  <2> DEFINE near(c) == Kept(pairs_of.reference, {r \in ToSet(pairs_of.reference) : PairedInTime(c, r)})
             each == [m \in DOMAIN pairs_of.detector |->
                        [k \in DOMAIN near(pairs_of.detector[m]) |->
                            near(pairs_of.detector[m])[k].x - Global(pairs_of.detector[m])]]
             found_ == FlattenSeq(each)
             one == <<"prealignX", "prealignX2D", "prealignX2Dlocal">>
             all == [k \in DOMAIN found_ |-> one]
  <2>1. \E T : found_ \in Seq(T)
    <3>1. \A c : near(c) \in Seq(GlobalClusters)
      BY <1>1, KeptHas
    <3> HIDE DEF near
    <3> DEFINE T == {r.x - Global(c) : r \in GlobalClusters, c \in GlobalClusters}
    <3>2. ASSUME NEW m \in DOMAIN pairs_of.detector PROVE each[m] \in Seq(T)
      <4> DEFINE c == pairs_of.detector[m]
                 v == near(c)
      <4>1. c \in GlobalClusters
        BY <1>1, LenProperties, ElementOfSeq
      <4> HIDE DEF c
      <4>2. v \in Seq(GlobalClusters) /\ DOMAIN v = 1..Len(v) /\ Len(v) \in Nat
        BY <3>1, LenProperties
      <4>3. each[m] = [k \in DOMAIN v |-> v[k].x - Global(c)]
        BY DEF c
      <4> HIDE DEF v, each
      <4>4. \A k \in 1..Len(v) : v[k].x - Global(c) \in T
        BY <4>1, <4>2, ElementOfSeq
      <4> HIDE DEF T
      <4> QED
        BY <4>2, <4>3, <4>4
    <3>3. DOMAIN each = DOMAIN pairs_of.detector /\ each = [m \in DOMAIN each |-> each[m]]
      OBVIOUS
    <3> HIDE DEF each, T
    <3>4. FlattenSeq(each) \in Seq(T)
      BY <1>1, <3>2, <3>3, ListOfLists
    <3> QED
      BY <3>4
  <2>2. PICK T : found_ \in Seq(T)
    BY <2>1
  <2>3. one \in Seq(S)
    BY DEF BookedPairs, BookedPrealignment
  <2>4. Fill(FlattenSeq(all))
    BY <1>3, Zenon DEF PrealignmentRun, all, found_, each, near, one
  <2> HIDE DEF found_, one
  <2>5. DOMAIN all = DOMAIN found_ /\ all = [k \in DOMAIN all |-> all[k]]
        /\ \A k \in DOMAIN found_ : all[k] \in Seq(S)
    BY <2>3
  <2> HIDE DEF all, S
  <2>6. FlattenSeq(all) \in Seq(S)
    BY <2>2, <2>5, ListOfLists
  <2> QED
    BY <2>4, <2>6, FillBooks DEF S
<1>4. CASE PairsArrive \/ PrealignmentFinalize
  BY <1>4 DEF PairsArrive, PrealignmentFinalize
<1> QED
  BY <1>2, <1>3, <1>4 DEF PairStep

\* The seed is one of the pixels.
LEMMA SeedOf ==
    ASSUME NEW c, c.pixels \in PixelSeqs, chain.raws \subseteq Int
    PROVE  SeedPixel(c) \in TimedPixels(chain)
<1> DEFINE s == c.pixels
           n == Len(s)
           K == {k \in DOMAIN s : \A l \in DOMAIN s : s[l].raw <= s[k].raw}
           neg == [k \in DOMAIN s |-> 0 - s[k].raw]
           low == {neg[k] : k \in DOMAIN neg}
<1>1. s \in Seq(TimedPixels(chain)) /\ s # <<>>
  BY DEF PixelSeqs
<1>2. n \in Nat \ {0} /\ DOMAIN s = 1..n /\ \A k \in 1..n : s[k] \in TimedPixels(chain)
  BY <1>1, LenProperties, EmptySeq, ElementOfSeq
<1>3. \A k \in 1..n : s[k].raw \in Int
  BY <1>2 DEF TimedPixels
<1>4. neg \in Seq(Int) /\ DOMAIN neg = 1..n /\ neg # <<>> /\ \A k \in 1..n : neg[k] = 0 - s[k].raw
  BY <1>2, <1>3
<1>5. SeedPixel(c) = s[Earliest(K)]
  BY DEF SeedPixel
<1> HIDE DEF neg, s, n
<1>6. Earliest(low) \in low /\ \A t \in low : Earliest(low) <= t
  BY <1>4, EarliestOf
<1>7. PICK k \in 1..n : \A l \in 1..n : neg[k] <= neg[l]
  BY <1>4, <1>6
<1>8. k \in K
  BY <1>2, <1>3, <1>4, <1>7
<1>9. K \in SUBSET (1..n) /\ K # {}
  BY <1>2, <1>8
<1> HIDE DEF K, low
<1>10. Min(K) \in K /\ \A x \in K : Min(K) <= x
  BY <1>2, <1>9, HasMaxMin
<1>11. Earliest(K) \in K
  BY <1>10 DEF Earliest
<1> QED
  BY <1>2, <1>5, <1>9, <1>11

\* A list with one entry for each of another list.
LEMMA RepeatedName ==
    ASSUME NEW T, NEW U, NEW s \in Seq(U), NEW x \in T
    PROVE  [k \in DOMAIN s |-> x] \in Seq(T)
<1>1. DOMAIN s = 1..Len(s) /\ Len(s) \in Nat
  BY LenProperties
<1> QED
  BY <1>1, SameElements

\* What AnalysisTimingATLASpix enters for a track,
LEMMA PassedNames ==
    ASSUME NEW t
    PROVE  PassedCuts(t) \in Seq(BookedTiming)
<1> DEFINE S == BookedTiming
           chi2 == t.chi2 <= chain.chi2ndof_cut
           intercept == chi2 /\ hasIntercept(chain.det, t.x, Unit)
           free == intercept /\ ~hitMasked(chain.det, chain.masked, t.x, 1)
           a == If(chi2, <<"tracks_afterChi2Cut">>)
           b == If(intercept, <<"tracks_hasIntercept", "tracks_isWithinROI">>)
           c == If(free, <<"tracks_afterMasking">>)
           d == If(free /\ ~NearFrameEdge(t), <<"total_tracks">>)
<1>1. /\ <<"total_tracks_uncut">> \in Seq(S) /\ <<"tracks_afterChi2Cut">> \in Seq(S)
      /\ <<"tracks_hasIntercept", "tracks_isWithinROI">> \in Seq(S) /\ <<"tracks_afterMasking">> \in Seq(S)
      /\ <<"total_tracks">> \in Seq(S)
  BY DEF BookedTiming, BookedCounters
<1> HIDE DEF S, chi2, intercept, free
<1>2. a \in Seq(S) /\ b \in Seq(S) /\ c \in Seq(S) /\ d \in Seq(S)
  BY <1>1, IfNames
<1>3. PassedCuts(t) = (((<<"total_tracks_uncut">> \o a) \o b) \o c) \o d
  BY Zenon DEF PassedCuts, a, b, c, d, free, intercept, chi2
<1> HIDE DEF a, b, c, d
<1> QED
  BY <1>1, <1>2, <1>3, ConcatProperties DEF S

\* and for a cluster before the corrections,
LEMMA BeforeNames ==
    ASSUME Configured, chain.module = "Timing", NEW t, NEW c, c.pixels \in PixelSeqs
    PROVE  FillBefore(t, c) \in Seq(BookedTiming)
<1> DEFINE S == BookedTiming
           size == Len(c.pixels)
           high == Kept(c.pixels, {p \in ToSet(c.pixels) : p.raw > chain.high_tot_cut})
           first == <<"hTrackCorrelationTimeAssoc", "VsRow" \o ToString(SeedPixel(c).row)>>
           one == If(size = 1, <<"hTrackCorrelationTime_1px">>)
           more == If(size > 1, <<"hTrackCorrelationTime_npx">>)
           hot == If(size = 1 /\ high # <<>>, <<"hHitMapAssoc_inPixel_highToT">>)
           tots == [k \in DOMAIN c.pixels |-> "hTrackCorrelationTimeVsTot_px"]
           hits_ == [k \in DOMAIN c.pixels |-> "hHitMapAssoc"]
           px == [k \in DOMAIN c.pixels |-> "hClusterTimeMinusPixelTime"]
           times == If(size > 1, px)
           highs == [k \in DOMAIN high |-> "hHitMapAssoc_highToT"]
           place == <<"inPixel_" \o TailOf(t.time - c.time)>>
           tails == If(chain.timewalk_correction # <<>>, place)
<1>1. c.pixels \in Seq(TimedPixels(chain)) /\ high \in Seq(TimedPixels(chain))
  BY KeptHas DEF PixelSeqs
<1>2. /\ {"hTrackCorrelationTimeAssoc", "hTrackCorrelationTime_1px", "hTrackCorrelationTime_npx",
          "hTrackCorrelationTimeVsTot_px", "hClusterTimeMinusPixelTime", "hHitMapAssoc",
          "hHitMapAssoc_highToT", "hHitMapAssoc_inPixel", "hHitMapAssoc_inPixel_highToT",
          "hClusterMapAssoc"} \subseteq S
      /\ BinNames("VsRow", RowNumbers) \subseteq S
  BY DEF BookedTiming, BookedAssociated
<1>3. "VsRow" \o ToString(SeedPixel(c).row) \in S
  <2>1. SeedPixel(c).row \in RowNumbers
    BY SeedOf, TimingChain DEF TimedPixels, RowNumbers
  <2> DEFINE row == SeedPixel(c).row
  <2>2. row \in RowNumbers
    BY <2>1
  <2> HIDE DEF row, S
  <2>3. "VsRow" \o ToString(row) \in BinNames("VsRow", RowNumbers)
    BY <2>2, Zenon DEF BinNames
  <2> QED
    BY <1>2, <2>3 DEF row
<1>4. tails \in Seq(S)
  <2>1. CASE chain.timewalk_correction # <<>>
    <3> DEFINE tail == TailOf(t.time - c.time)
    <3>1. tail \in Tails
      BY DEF TailOf, Tails
    <3>2. "inPixel_" \o tail \in BookedTails
      <4> HIDE DEF tail
      <4> QED
        BY <2>1, <3>1, Zenon DEF BookedTails
    <3> HIDE DEF tail
    <3>3. <<"inPixel_" \o tail>> \in Seq(S)
      BY <3>2 DEF BookedTiming
    <3>4. place \in Seq(S)
      BY <3>3 DEF tail
    <3> HIDE DEF place, S
    <3> QED
      BY <3>4, IfNames
  <2>2. CASE chain.timewalk_correction = <<>>
    BY <2>2, EmptySeq DEF If
  <2> QED
    BY <2>1, <2>2
<1> HIDE DEF S, high, size
<1>5. /\ first \in Seq(S) /\ <<"hHitMapAssoc_inPixel">> \in Seq(S) /\ <<"hClusterMapAssoc">> \in Seq(S)
      /\ <<"hTrackCorrelationTime_1px">> \in Seq(S) /\ <<"hTrackCorrelationTime_npx">> \in Seq(S)
      /\ <<"hHitMapAssoc_inPixel_highToT">> \in Seq(S)
  BY <1>2, <1>3
<1>6. one \in Seq(S) /\ more \in Seq(S) /\ hot \in Seq(S)
  BY <1>5, IfNames
<1>7. tots \in Seq(S) /\ hits_ \in Seq(S) /\ px \in Seq(S) /\ highs \in Seq(S)
  BY <1>1, <1>2, RepeatedName
<1> HIDE DEF px
<1>8. times \in Seq(S)
  BY <1>7, IfNames
<1>9. FillBefore(t, c) = ((((((((((first \o one) \o more) \o <<"hHitMapAssoc_inPixel">>) \o hot) \o tots) \o hits_)
                             \o times) \o highs) \o <<"hClusterMapAssoc">>) \o tails)
  BY Zenon DEF FillBefore, first, one, more, hot, tots, hits_, times, highs, tails, place, px, high, size
<1> HIDE DEF first, one, more, hot, tots, hits_, times, highs, tails
<1>10. ((((first \o one) \o more) \o <<"hHitMapAssoc_inPixel">>) \o hot) \o tots \in Seq(S)
  BY <1>5, <1>6, <1>7, ConcatProperties
<1> DEFINE begin == ((((first \o one) \o more) \o <<"hHitMapAssoc_inPixel">>) \o hot) \o tots
<1>11. FillBefore(t, c) = ((((begin \o hits_) \o times) \o highs) \o <<"hClusterMapAssoc">>) \o tails
  BY <1>9
<1>12. begin \in Seq(S)
  BY <1>10
<1> HIDE DEF begin
<1> QED
  BY <1>4, <1>5, <1>7, <1>8, <1>11, <1>12, ConcatProperties DEF S

\* after the row correction,
LEMMA RowNames ==
    ASSUME Configured, chain.module = "Timing", NEW c, c.pixels \in PixelSeqs
    PROVE  FillRow(c) \in Seq(BookedTiming)
<1> DEFINE S == BookedTiming
           number == SeedPixel(c).raw
           raw == ToString(number)
           one == "rowCorr_1px" \o raw
           more == "rowCorr_npx" \o raw
           names == <<"hTrackCorrelationTime_rowCorr", "rowCorr" \o raw,
                      (IF Len(c.pixels) = 1 THEN "rowCorr_1px" ELSE "rowCorr_npx") \o raw>>
<1>1. FillRow(c) = If(chain.row_correction # <<>>, names)
  BY Zenon DEF FillRow
<1>2. CASE chain.row_correction = <<>>
  BY <1>1, <1>2, EmptySeq DEF If
<1>3. CASE chain.row_correction # <<>>
  <2>1. number \in chain.raws
    BY SeedOf, TimingChain DEF TimedPixels
  <2> HIDE DEF number
  <2>2. /\ "rowCorr" \o raw \in BinNames("rowCorr", chain.raws)
        /\ one \in BinNames("rowCorr_1px", chain.raws)
        /\ more \in BinNames("rowCorr_npx", chain.raws)
    BY <2>1, Zenon DEF BinNames
  <2>3. BookedRow = {"hTrackCorrelationTime_rowCorr"} \cup BinNames("rowCorr", chain.raws)
                    \cup BinNames("rowCorr_1px", chain.raws) \cup BinNames("rowCorr_npx", chain.raws)
    BY <1>3, Zenon DEF BookedRow
  <2>4. (IF Len(c.pixels) = 1 THEN "rowCorr_1px" ELSE "rowCorr_npx") \o raw \in {one, more}
    BY Zenon
  <2> HIDE DEF one, more
  <2> DEFINE last == (IF Len(c.pixels) = 1 THEN "rowCorr_1px" ELSE "rowCorr_npx") \o raw
  <2>5. last \in BookedRow /\ "rowCorr" \o raw \in BookedRow /\ "hTrackCorrelationTime_rowCorr" \in BookedRow
    BY <2>2, <2>3, <2>4
  <2>6. names = <<"hTrackCorrelationTime_rowCorr", "rowCorr" \o raw, last>>
    OBVIOUS
  <2> HIDE DEF last, raw, names
  <2>7. names \in Seq(S)
    BY <2>5, <2>6 DEF BookedTiming
  <2> HIDE DEF S
  <2> QED
    BY <1>1, <2>7, IfNames DEF S
<1> QED
  BY <1>2, <1>3

\* after both,
LEMMA TimewalkNames ==
    ASSUME NEW t, NEW c
    PROVE  FillTimewalk(t, c) \in Seq(BookedTiming)
<1> DEFINE S == BookedTiming
           raw == SeedPixel(c).raw
           tail == TailOf(t.time - c.time)
           a == If(raw < 25, <<"rowAndTWCorr_l25">>)
           b == If(raw < 40, <<"rowAndTWCorr_l40">>)
           d == If(raw > 40, <<"rowAndTWCorr_g40">>)
           e == If(Len(c.pixels) = 1, <<"tot_1px_" \o tail>>)
           names == ((((<<"hTrackCorrelationTime_rowAndTWCorr">> \o a) \o b) \o d)
                        \o <<"cluster_" \o tail>>) \o e
<1>1. FillTimewalk(t, c) = If(chain.timewalk_correction # <<>>, names)
  BY Zenon DEF FillTimewalk
<1>2. CASE chain.timewalk_correction = <<>>
  BY <1>1, <1>2, EmptySeq DEF If
<1>3. CASE chain.timewalk_correction # <<>>
  <2>1. tail \in Tails
    BY DEF TailOf, Tails
  <2> HIDE DEF tail
  <2>2. "cluster_" \o tail \in BookedTails /\ "tot_1px_" \o tail \in BookedTails
    BY <1>3, <2>1, Zenon DEF BookedTails
  <2>3. {"hTrackCorrelationTime_rowAndTWCorr", "rowAndTWCorr_l25", "rowAndTWCorr_l40", "rowAndTWCorr_g40"} \subseteq S
    BY <1>3 DEF BookedTiming, BookedTimewalk
  <2>4. "cluster_" \o tail \in S /\ "tot_1px_" \o tail \in S
    BY <2>2 DEF BookedTiming
  <2> HIDE DEF S, raw
  <2>5. /\ <<"hTrackCorrelationTime_rowAndTWCorr">> \in Seq(S) /\ <<"rowAndTWCorr_l25">> \in Seq(S)
        /\ <<"rowAndTWCorr_l40">> \in Seq(S) /\ <<"rowAndTWCorr_g40">> \in Seq(S)
        /\ <<"cluster_" \o tail>> \in Seq(S) /\ <<"tot_1px_" \o tail>> \in Seq(S)
    BY <2>3, <2>4
  <2>6. a \in Seq(S) /\ b \in Seq(S) /\ d \in Seq(S) /\ e \in Seq(S)
    BY <2>5, IfNames
  <2> HIDE DEF a, b, d, e
  <2>7. names \in Seq(S)
    BY <2>5, <2>6, ConcatProperties
  <2> HIDE DEF names
  <2> QED
    BY <1>1, <2>7, IfNames DEF S
<1> QED
  BY <1>2, <1>3

\* Pixels stay pixels when they are corrected.
LEMMA RowedPixels ==
    ASSUME Configured, chain.module = "Timing", NEW c, c.pixels \in PixelSeqs
    PROVE  RowCorrected(c).pixels \in PixelSeqs
<1> DEFINE correction == [k \in DOMAIN c.pixels |-> chain.row_correction[c.pixels[k].row]]
<1>1. CASE chain.row_correction = <<>>
  BY <1>1 DEF RowCorrected
<1>2. CASE chain.row_correction # <<>>
  <2>1. ASSUME NEW k \in DOMAIN c.pixels PROVE correction[k] \in Int
    <3>1. c.pixels[k] \in TimedPixels(chain)
      BY ElementOfSeq, LenProperties DEF PixelSeqs
    <3> QED
      BY <1>2, <3>1, TimingChain DEF TimedPixels
  <2>2. RowCorrected(c) = correctClusterTimestamp(c, correction)
    BY <1>2 DEF RowCorrected
  <2> HIDE DEF correction
  <2> DEFINE ps == [k \in DOMAIN c.pixels |-> [c.pixels[k] EXCEPT !.time = @ + correction[k]]]
  <2>3. ps \in PixelSeqs /\ RowCorrected(c) = TimedCluster(ps)
    BY <2>1, <2>2, CorrectedCluster
  <2> HIDE DEF ps
  <2> QED
    BY <2>3, TimedClusters
<1> QED
  BY <1>1, <1>2

\* AnalysisTimingATLASpix enters what it has booked.
LEMMA TimingBooked ==
    ASSUME Configured, TimingInv, chain.module = "Timing", DOMAIN filled = BookedTiming, TimingStep
    PROVE  DOMAIN filled' = BookedTiming
<1>1. CASE TimingTrack
  <2> DEFINE S == BookedTiming
             t == timing.tracks[track_nr]
             c(m) == timing.clusters[m]
             rowed(m) == RowCorrected(c(m))
             reference(m) == If(IsReference(t), <<"hTrackCorrelationTime">>)
             charged(m) == If(ChargeAccepted(c(m)), <<"tracks_afterClusterChargeCut">>)
             match(m) == <<"matched_tracks">> \o charged(m)
             matched(m) == If(IsMatch(t, m), match(m))
             used(m) == (((<<"tracks_afterClusterSizeCut">> \o FillBefore(t, c(m))) \o FillRow(rowed(m)))
                            \o FillTimewalk(t, TimewalkCorrected(rowed(m))))
             entries == [m \in DOMAIN timing.clusters |->
                            (reference(m) \o matched(m)) \o If(IsUsed(t, m), used(m))]
  <2>1. /\ timing.given \in Seq(PixelSeqs) /\ DOMAIN timing.clusters = DOMAIN timing.given
        /\ \A m \in DOMAIN timing.given : c(m).pixels \in PixelSeqs /\ TimedRight(c(m))
    BY DEF TimingInv, ClusterMoved
  <2>2. /\ <<"hTrackCorrelationTime">> \in Seq(S) /\ <<"matched_tracks">> \in Seq(S)
        /\ <<"tracks_afterClusterChargeCut">> \in Seq(S) /\ <<"tracks_afterClusterSizeCut">> \in Seq(S)
    BY DEF BookedTiming, BookedCounters
  <2>3. Fill(PassedCuts(t) \o FlattenSeq(entries))
    BY <1>1, Zenon DEF TimingTrack, entries, reference, matched, match, charged, used, rowed, c, t
  <2> HIDE DEF t
  <2>4. ASSUME NEW m \in DOMAIN timing.given PROVE entries[m] \in Seq(S)
    <3>1. rowed(m).pixels \in PixelSeqs
      <4>1. c(m).pixels \in PixelSeqs
        BY <2>1
      <4> QED
        BY <4>1, RowedPixels
    <3>2. FillBefore(t, c(m)) \in Seq(S)
      BY <2>1, BeforeNames
    <3>3. FillRow(rowed(m)) \in Seq(S)
      BY <3>1, RowNames
    <3>4. FillTimewalk(t, TimewalkCorrected(rowed(m))) \in Seq(S)
      BY TimewalkNames
    <3>5. entries[m] = (reference(m) \o matched(m)) \o If(IsUsed(t, m), used(m))
      BY <2>1
    <3> HIDE DEF S, entries, rowed, c
    <3>6. used(m) \in Seq(S)
      BY <2>2, <3>2, <3>3, <3>4, ConcatProperties
    <3> HIDE DEF used
    <3>7. reference(m) \in Seq(S) /\ charged(m) \in Seq(S) /\ If(IsUsed(t, m), used(m)) \in Seq(S)
      BY <2>2, <3>6, IfNames
    <3> HIDE DEF charged, reference
    <3>8. match(m) \in Seq(S)
      BY <2>2, <3>7, ConcatProperties
    <3> HIDE DEF match
    <3>9. matched(m) \in Seq(S)
      BY <3>8, IfNames
    <3> HIDE DEF matched
    <3> QED
      BY <3>5, <3>7, <3>9, ConcatProperties
  <2>5. DOMAIN entries = DOMAIN timing.given /\ entries = [m \in DOMAIN entries |-> entries[m]]
    BY <2>1
  <2>6. PassedCuts(t) \in Seq(S)
    BY PassedNames
  <2> HIDE DEF entries, S
  <2>7. FlattenSeq(entries) \in Seq(S)
    BY <2>1, <2>4, <2>5, ListOfLists
  <2>8. PassedCuts(t) \o FlattenSeq(entries) \in Seq(S)
    BY <2>6, <2>7, ConcatProperties
  <2> QED
    BY <2>3, <2>8, FillBooks DEF S
<1>2. CASE ~TimingTrack
  BY <1>2 DEF TimingStep, TimingArrives, TimingDone, TimingFinalize
<1> QED
  BY <1>1, <1>2

\* The names of the histograms of a detector are pairs,
LEMMA InProduct == \A S, T : \A a \in S, b \in T : <<a, b>> \in S \X T
OBVIOUS

\* and a single entry is a sequence of names.
LEMMA OfOne == \A T : \A x \in T : <<x>> \in Seq(T)
OBVIOUS

\* What Tracking4D books.
LEMMA TrackBooks ==
    /\ <<"track", "">> \in BookedTracking4D /\ <<"trackTimeTrigger", "">> \in BookedTracking4D
    /\ <<"trackAngle", "">> \in BookedTracking4D /\ <<"tracksPerEvent", "">> \in BookedTracking4D
    /\ \A d \in ToSet(RegularDetectors(chain.detectors, chain.role, TRUE)) :
            <<"local_intersect", d>> \in BookedTracking4D /\ <<"kink", d>> \in BookedTracking4D
    /\ \A d \in ToSet(Searched) :
            /\ <<"residuals_local", d>> \in BookedTracking4D /\ <<"residuals_global", d>> \in BookedTracking4D
            /\ <<"pull_local", d>> \in BookedTracking4D /\ <<"pull_global", d>> \in BookedTracking4D
<1>1. \A x : x \in BookedTracks \/ x \in BookedIntersects \/ x \in BookedLocalTracks \/ x \in BookedGlobalTracks
             => x \in BookedTracking4D
  BY Zenon DEF BookedTracking4D
<1>2. \A a \in {"track", "trackTimeTrigger", "trackAngle", "tracksPerEvent"} : <<a, "">> \in BookedTracks
  <2>1. "" \in {""}
    BY Zenon
  <2> QED
    BY <2>1, InProduct, Zenon DEF BookedTracks
<1>3. \A a \in {"kink", "local_intersect"} : \A d \in ToSet(RegularDetectors(chain.detectors, chain.role, TRUE)) :
            <<a, d>> \in BookedIntersects
  BY InProduct, Zenon DEF BookedIntersects
<1>4. \A a \in {"residuals_local", "pull_local"} : \A d \in ToSet(Searched) : <<a, d>> \in BookedLocalTracks
  BY InProduct, Zenon DEF BookedLocalTracks
<1>5. \A a \in {"residuals_global", "pull_global"} : \A d \in ToSet(Searched) : <<a, d>> \in BookedGlobalTracks
  BY InProduct, Zenon DEF BookedGlobalTracks
<1>6. /\ <<"track", "">> \in BookedTracks /\ <<"trackTimeTrigger", "">> \in BookedTracks
      /\ <<"trackAngle", "">> \in BookedTracks /\ <<"tracksPerEvent", "">> \in BookedTracks
  BY <1>2, Zenon
<1>7. \A d \in ToSet(RegularDetectors(chain.detectors, chain.role, TRUE)) :
            <<"local_intersect", d>> \in BookedIntersects /\ <<"kink", d>> \in BookedIntersects
  BY <1>3, Zenon
<1>8. \A d \in ToSet(Searched) :
            /\ <<"residuals_local", d>> \in BookedLocalTracks /\ <<"residuals_global", d>> \in BookedGlobalTracks
            /\ <<"pull_local", d>> \in BookedLocalTracks /\ <<"pull_global", d>> \in BookedGlobalTracks
  BY <1>4, <1>5, Zenon
<1> QED
  BY <1>1, <1>6, <1>7, <1>8, Zenon

\* What is entered for a track,
LEMMA TrackNames ==
    ASSUME Configured, chain.module = "Tracking4D", NEW t, NEW each,
           t.clusters \in Candidates(ToSet(Searched), each)
    PROVE  FillTrack(t) \in Seq(BookedTracking4D)
<1> DEFINE S == BookedTracking4D
           x1 == <<<<"track", "">>>>
           x2 == <<<<"trackTimeTrigger", "">>>>
           x3 == <<<<"trackAngle", "">>>>
           a == If(chain.triggers, x2)
           b == If(~chain.broken_lines, x3)
           Residuals(c) == [k \in 1..4 |-> <<<<"residuals_local", "residuals_global",
                                               "pull_local", "pull_global">>[k], c[1]>>]
           Detector(d) == <<<<"local_intersect", d>>, <<"kink", d>>>>
           Dets == RegularDetectors(chain.detectors, chain.role, TRUE)
           r == [k \in DOMAIN t.clusters |-> Residuals(t.clusters[k])]
           q == [k \in DOMAIN Dets |-> Detector(Dets[k])]
<1>1. FillTrack(t) = (((x1 \o a) \o b) \o FlattenSeq(r)) \o FlattenSeq(q)
  BY Zenon DEF FillTrack, x1, a, b, x2, x3, r, q, Residuals, Detector, Dets
<1>2. x1 \in Seq(S) /\ x2 \in Seq(S) /\ x3 \in Seq(S)
  BY TrackBooks, OfOne, Zenon
<1> HIDE DEF x1, x2, x3
<1>3. \A d \in ToSet(Dets) : <<"local_intersect", d>> \in S /\ <<"kink", d>> \in S
  BY TrackBooks, Zenon
<1>4. \A d \in ToSet(Searched) :
            /\ <<"residuals_local", d>> \in S /\ <<"residuals_global", d>> \in S
            /\ <<"pull_local", d>> \in S /\ <<"pull_global", d>> \in S
  BY TrackBooks, Zenon
<1>5. Dets \in Seq(STRING) /\ DOMAIN Dets = 1..Len(Dets)
  BY TelescopeChain, RegularList, LenProperties
<1>6. \A d \in ToSet(Dets) : Detector(d) \in Seq(S)
  <2> HIDE DEF S, Dets
  <2>1. \A x, y \in S : <<x, y>> \in Seq(S)
    OBVIOUS
  <2> QED
    BY <1>3, <2>1, Zenon
<1>7. t.clusters \in Seq(ToSet(Searched) \X Nat)
  BY DEF Candidates
<1> HIDE DEF S, Dets
<1>8. \A c \in ToSet(Searched) \X Nat : Residuals(c) \in Seq(S)
  <2> TAKE c \in ToSet(Searched) \X Nat
  <2>1. c[1] \in ToSet(Searched)
    OBVIOUS
  <2> DEFINE n == <<"residuals_local", "residuals_global", "pull_local", "pull_global">>
  <2>2. n[1] = "residuals_local" /\ n[2] = "residuals_global" /\ n[3] = "pull_local" /\ n[4] = "pull_global"
    OBVIOUS
  <2> HIDE DEF n
  <2>3. \A k \in 1..4 : k = 1 \/ k = 2 \/ k = 3 \/ k = 4
    OBVIOUS
  <2>4. \A k \in 1..4 : <<n[k], c[1]>> \in S
    BY <1>4, <2>1, <2>2, <2>3
  <2>5. [k \in 1..4 |-> <<n[k], c[1]>>] \in Seq(S)
    BY <2>4
  <2> QED
    BY <2>5 DEF n
<1> HIDE DEF Residuals, Detector
<1>9. FlattenSeq(r) \in Seq(S)
  <2> DEFINE cs == t.clusters
  <2>1. cs \in Seq(ToSet(Searched) \X Nat)
    BY <1>7
  <2>2. DOMAIN r = DOMAIN cs /\ r = [m \in DOMAIN r |-> r[m]] /\ \A m \in DOMAIN cs : r[m] = Residuals(cs[m])
    OBVIOUS
  <2> HIDE DEF cs, r
  <2>3. \A m \in DOMAIN cs : r[m] \in Seq(S)
    BY <1>8, <2>1, <2>2, ElementOfSeq, LenProperties
  <2> QED
    BY <2>1, <2>2, <2>3, ListOfLists
<1>10. FlattenSeq(q) \in Seq(S)
  <2>1. DOMAIN q = DOMAIN Dets /\ q = [m \in DOMAIN q |-> q[m]]
        /\ \A m \in DOMAIN Dets : q[m] \in Seq(S)
    BY <1>5, <1>6 DEF ToSet
  <2> HIDE DEF q
  <2> QED
    BY <1>5, <2>1, ListOfLists
<1>11. a \in Seq(S) /\ b \in Seq(S)
  BY <1>2, IfNames
<1> HIDE DEF a, b, r, q
<1> QED
  BY <1>1, <1>2, <1>9, <1>10, <1>11, ConcatProperties DEF S

\* and for all of an event.
LEMMA TracksBooked ==
    ASSUME Configured, chain.module = "Tracking4D", DOMAIN filled = BookedTracking4D,
           NEW ts, NEW T, ts \in Seq(T), NEW each,
           \A k \in 1..Len(ts) : ts[k].clusters \in Candidates(ToSet(Searched), each),
           FillTracks(ts)
    PROVE  DOMAIN filled' = BookedTracking4D
<1> DEFINE S == BookedTracking4D
           f == [k \in DOMAIN ts |-> FillTrack(ts[k])]
           x == <<<<"tracksPerEvent", "">>>>
<1>1. Fill(FlattenSeq(f) \o x)
  BY Zenon DEF FillTracks
<1>2. x \in Seq(S)
  BY TrackBooks, OfOne, Zenon
<1> HIDE DEF x
<1>3. DOMAIN ts = 1..Len(ts)
  BY LenProperties
<1>4. DOMAIN f = DOMAIN ts /\ f = [m \in DOMAIN f |-> f[m]] /\ \A m \in DOMAIN ts : f[m] \in Seq(S)
  BY <1>3, TrackNames
<1> HIDE DEF f
<1>5. FlattenSeq(f) \in Seq(S)
  <2> HIDE DEF S
  <2> QED
    BY <1>4, ListOfLists
<1>6. FlattenSeq(f) \o x \in Seq(S)
  BY <1>2, <1>5, ConcatProperties
<1> QED
  BY <1>1, <1>6, FillBooks

\* Tracking4D enters what it has booked.
LEMMA Tracking4DBooked ==
    ASSUME Configured, Tracking4DInv, chain.module = "Tracking4D", DOMAIN filled = BookedTracking4D,
           Tracking4DStep \/ ClustersArrive
    PROVE  DOMAIN filled' = BookedTracking4D
<1>1. CASE Tracking4DBegin
  <2>1. CASE Len(Trees) < 2
    <3>1. FillTracks(<<>>)
      BY <1>1, <2>1, Zenon DEF Tracking4DBegin
    <3>2. <<>> \in Seq({}) /\ Len(<<>>) = 0 /\ 1..0 = {}
      BY EmptySeq
    <3>3. PICK e : e = <<>>
      OBVIOUS
    <3>4. FillTracks(e) /\ e \in Seq({})
      BY <3>1, <3>2, <3>3
    <3>5. \A k \in 1..Len(e) : e[k].clusters \in Candidates(ToSet(Searched), FALSE)
      BY <3>2, <3>3
    <3> QED
      BY <3>4, <3>5, TracksBooked
  <2>2. CASE ~(Len(Trees) < 2)
    BY <1>1, <2>2, Zenon DEF Tracking4DBegin
  <2> QED
    BY <2>1, <2>2
<1>2. CASE Tracking4DPut
  <2>1. at = "pair" /\ FillTracks(tracks')
        /\ IF chain.unique_cluster_usage /\ Len(found) > 1
           THEN \E s \in SortedByChi2(found) : tracks' = EraseDuplicated(s)
           ELSE tracks' = found
    BY <1>2 DEF Tracking4DPut, Proceed
  <2>2. /\ FoundRight(ToSet(Searched), TwoSeeds, found)
        /\ \A k \in 1..Len(found) : found[k].chi2 \in Int
    BY <2>1 DEF Tracking4DInv, SearchRight, FitAccepted
  <2>3. found \in Seq(ToSet(found)) /\ \A k \in 1..Len(found) : found[k].clusters \in Candidates(ToSet(Searched), TwoSeeds)
    BY <2>2 DEF FoundRight
  <2>4. PICK each : each = TwoSeeds
    OBVIOUS
  <2>5. PICK ts : ts = tracks'
    OBVIOUS
  <2>6. ts \in Seq(ToSet(ts)) /\ \A k \in 1..Len(ts) : \E j \in 1..Len(found) : ts[k] = found[j]
    <3>1. CASE ~(chain.unique_cluster_usage /\ Len(found) > 1)
      BY <2>1, <2>3, <2>5, <3>1
    <3>2. CASE chain.unique_cluster_usage /\ Len(found) > 1
      <4>1. PICK s \in SortedByChi2(found) : ts = EraseDuplicated(s)
        BY <2>1, <2>5, <3>2
      <4> DEFINE kept == EraseDuplicated(s)
      <4>2. kept \in Seq(ToSet(kept)) /\ \A k \in 1..Len(kept) : \E j \in 1..Len(found) : kept[k] = found[j]
        BY <2>2, <2>3, BestOf
      <4> HIDE DEF kept
      <4>3. ts = kept
        BY <4>1 DEF kept
      <4> QED
        BY <4>2, <4>3
    <3> QED
      BY <3>1, <3>2
  <2>7. \A k \in 1..Len(ts) : ts[k].clusters \in Candidates(ToSet(Searched), each)
    BY <2>3, <2>4, <2>6
  <2>8. FillTracks(ts)
    BY <2>1, <2>5
  <2>9. PICK T : T = ToSet(ts)
    OBVIOUS
  <2>10. ts \in Seq(T)
    BY <2>6, <2>9
  <2> QED
    BY <2>7, <2>8, <2>10, TracksBooked
<1>3. CASE Tracking4DPair \/ Tracking4DPlane \/ Tracking4DSave \/ ClustersArrive
  BY <1>3, Zenon DEF Tracking4DPair, Tracking4DPlane, Tracking4DSave, ClustersArrive, NextPair, SearchPlane, Keep, Discard
<1> QED
  BY <1>1, <1>2, <1>3, Zenon DEF Tracking4DStep

\* What TrackingMultiplet books.
LEMMA MultipletBooks ==
    /\ <<"multipletMultiplicity", "">> \in BookedMultiplet /\ <<"matchingDistance", "">> \in BookedMultiplet
    /\ <<"multiplet", "">> \in BookedMultiplet
    /\ \A s \in Streams :
        /\ <<"trackletMultiplicity", s>> \in BookedMultiplet /\ <<"tracklet", s>> \in BookedMultiplet
        /\ \A d \in ToSet(Arm(s)) :
            <<"residuals_global", d>> \in BookedMultiplet /\ <<"residuals_local", d>> \in BookedMultiplet
<1>1. \A x : x \in BookedMultiplets \/ x \in BookedTracklets \/ x \in BookedTrackletResiduals => x \in BookedMultiplet
  BY Zenon DEF BookedMultiplet
<1>2. \A a \in {"multipletMultiplicity", "matchingDistance", "multiplet"} : <<a, "">> \in BookedMultiplets
  <2>1. "" \in {""}
    BY Zenon
  <2> QED
    BY <2>1, InProduct, Zenon DEF BookedMultiplets
<1>3. \A a \in {"trackletMultiplicity", "tracklet"} : \A s \in Streams : <<a, s>> \in BookedTracklets
  BY InProduct, Zenon DEF BookedTracklets
<1>4. ASSUME NEW s \in Streams, NEW d \in ToSet(Arm(s)), NEW a \in {"residuals_global", "residuals_local"}
      PROVE  <<a, d>> \in BookedTrackletResiduals
  <2> DEFINE all == UNION {ToSet(Arm(x)) : x \in Streams}
  <2>1. d \in all
    BY Zenon
  <2> QED
    BY <2>1, InProduct, Zenon DEF BookedTrackletResiduals
<1>5. \A s \in Streams :
        /\ <<"trackletMultiplicity", s>> \in BookedTracklets /\ <<"tracklet", s>> \in BookedTracklets
        /\ \A d \in ToSet(Arm(s)) : <<"residuals_global", d>> \in BookedTrackletResiduals
                                    /\ <<"residuals_local", d>> \in BookedTrackletResiduals
  BY <1>3, <1>4, Zenon
<1>6. /\ <<"multipletMultiplicity", "">> \in BookedMultiplets /\ <<"matchingDistance", "">> \in BookedMultiplets
      /\ <<"multiplet", "">> \in BookedMultiplets
  BY <1>2, Zenon
<1> QED
  BY <1>1, <1>5, <1>6, Zenon

\* What is entered for the tracklets of an arm.
LEMMA TrackletsBooked ==
    ASSUME DOMAIN filled = BookedMultiplet, NEW s \in Streams, NEW ts, NEW cl,
           TrackletsRight(ToSet(Arm(s)), ts, cl), fill_tracklet_histograms(s, ts)
    PROVE  DOMAIN filled' = BookedMultiplet
<1> DEFINE S == BookedMultiplet
           x == <<<<"tracklet", s>>>>
           y == <<<<"trackletMultiplicity", s>>>>
           g(t) == [k \in DOMAIN t.clusters |-> <<"residuals_global", t.clusters[k][1]>>]
           l(t) == [k \in DOMAIN t.clusters |-> <<"residuals_local", t.clusters[k][1]>>]
           f == [k \in DOMAIN ts |-> (x \o g(ts[k])) \o l(ts[k])]
<1>1. Fill(y \o FlattenSeq(f))
  BY Zenon DEF fill_tracklet_histograms
<1>2. x \in Seq(S) /\ y \in Seq(S)
  BY MultipletBooks, OfOne, Zenon
<1> HIDE DEF x, y
<1>3. PICK area : area = ToSet(Arm(s))
  OBVIOUS
<1>4. \A d \in area : <<"residuals_global", d>> \in S /\ <<"residuals_local", d>> \in S
  BY <1>3, MultipletBooks, Zenon
<1>5. /\ ts \in Seq(ToSet(ts)) /\ DOMAIN ts = 1..Len(ts)
      /\ \A k \in 1..Len(ts) : ts[k].clusters \in Candidates(area, FALSE)
  BY <1>3, LenProperties DEF TrackletsRight
<1> HIDE DEF S
<1>6. ASSUME NEW t, t.clusters \in Candidates(area, FALSE) PROVE g(t) \in Seq(S) /\ l(t) \in Seq(S)
  <2>1. PICK cs : cs = t.clusters
    OBVIOUS
  <2>2. cs \in Seq(area \X Nat) /\ DOMAIN cs = 1..Len(cs) /\ Len(cs) \in Nat
    BY <1>6, <2>1, LenProperties DEF Candidates
  <2>3. \A k \in 1..Len(cs) : cs[k][1] \in area
    BY <2>2, ElementOfSeq
  <2>4. \A k \in 1..Len(cs) : <<"residuals_global", cs[k][1]>> \in S /\ <<"residuals_local", cs[k][1]>> \in S
    BY <1>4, <2>3, Zenon
  <2>5. \A n \in Nat : \A e \in [1..n -> S] : e \in Seq(S)
    OBVIOUS
  <2>6. /\ [k \in 1..Len(cs) |-> <<"residuals_global", cs[k][1]>>] \in [1..Len(cs) -> S]
        /\ [k \in 1..Len(cs) |-> <<"residuals_local", cs[k][1]>>] \in [1..Len(cs) -> S]
    BY <2>4, Zenon
  <2>7. /\ [k \in 1..Len(cs) |-> <<"residuals_global", cs[k][1]>>] \in Seq(S)
        /\ [k \in 1..Len(cs) |-> <<"residuals_local", cs[k][1]>>] \in Seq(S)
    BY <2>2, <2>5, <2>6, Zenon
  <2> QED
    BY <2>1, <2>2, <2>7, Zenon
<1> HIDE DEF g, l
<1>7. DOMAIN f = DOMAIN ts /\ f = [m \in DOMAIN f |-> f[m]]
      /\ \A m \in DOMAIN ts : f[m] = (x \o g(ts[m])) \o l(ts[m])
  OBVIOUS
<1> HIDE DEF f
<1>8. \A m \in DOMAIN ts : f[m] \in Seq(S)
  <2> TAKE m \in DOMAIN ts
  <2>1. g(ts[m]) \in Seq(S) /\ l(ts[m]) \in Seq(S)
    BY <1>5, <1>6
  <2> DEFINE xg == x \o g(ts[m])
  <2>2. f[m] = xg \o l(ts[m])
    BY <1>7
  <2>3. xg \in Seq(S)
    BY <1>2, <2>1, ConcatProperties
  <2> HIDE DEF xg
  <2>4. xg \o l(ts[m]) \in Seq(S)
    BY <2>1, <2>3, ConcatProperties
  <2> QED
    BY <2>2, <2>4
<1>9. FlattenSeq(f) \in Seq(S)
  BY <1>5, <1>7, <1>8, ListOfLists
<1>10. y \o FlattenSeq(f) \in Seq(S)
  BY <1>2, <1>9, ConcatProperties
<1> QED
  BY <1>1, <1>10, FillBooks DEF S

\* The tracklets downstream that may match.
LEMMA MatchNames ==
    ASSUME NEW down, NEW T, down \in Seq(T), NEW near
    PROVE  \E U : Kept([k \in DOMAIN down |-> k], near) \in Seq(U)
<1> DEFINE l == [k \in DOMAIN down |-> k]
<1>1. DOMAIN down = 1..Len(down) /\ Len(down) \in Nat
  BY LenProperties
<1>2. l \in Seq(Nat)
  BY <1>1
<1> HIDE DEF l
<1>3. Kept(l, near) \in Seq(Nat)
  BY <1>2, KeptHas
<1> QED
  BY <1>3 DEF l

\* TrackingMultiplet enters what it has booked.
LEMMA MultipletBooked ==
    ASSUME MultipletInv, chain.module = "TrackingMultiplet", DOMAIN filled = BookedMultiplet,
           MultipletStep \/ ClustersArrive
    PROVE  DOMAIN filled' = BookedMultiplet
<1> DEFINE S == BookedMultiplet
<1>1. CASE Isolate
  <2>1. at = "isolate"
    BY <1>1 DEF Isolate, Proceed
  <2>2. PICK near \in SUBSET kSubset(2, DOMAIN found) :
        /\ tracklets' = [tracklets EXCEPT ![stream] = EraseUnisolated(found, near)]
        /\ fill_tracklet_histograms(stream, tracklets'[stream])
    <3>1. PICK near \in IF chain.isolation_cut = 0 THEN {{}} ELSE SUBSET kSubset(2, DOMAIN found) :
            /\ tracklets' = [tracklets EXCEPT ![stream] = EraseUnisolated(found, near)]
            /\ fill_tracklet_histograms(stream, tracklets'[stream])
      BY <1>1, Zenon DEF Isolate
    <3>2. near \in SUBSET kSubset(2, DOMAIN found)
      OBVIOUS
    <3> QED
      BY <3>1, <3>2
  <2>3. stream \in Streams /\ DOMAIN tracklets = Streams /\ FoundRight(ToSet(Arm(stream)), FALSE, found)
    BY <2>1 DEF MultipletInv, SearchRight
  <2>4. PICK s : s = stream
    OBVIOUS
  <2>5. PICK ts : ts = EraseUnisolated(found, near)
    OBVIOUS
  <2>6. fill_tracklet_histograms(s, ts)
    BY <2>2, <2>3, <2>4, <2>5
  <2>7. TrackletsRight(ToSet(Arm(s)), ts, ClosePairs(found, near))
    BY <2>3, <2>4, <2>5, IsolateRight
  <2>8. s \in Streams
    BY <2>3, <2>4
  <2> QED
    BY <2>6, <2>7, <2>8, TrackletsBooked
<1>2. CASE Match
  <2> DEFINE down == tracklets["downstream"]
             near == {k \in DOMAIN down : Simultaneous(down[k], Head(tracklets["upstream"]))}
             simultaneous == Kept([k \in DOMAIN down |-> k], near)
             x == <<"matchingDistance", "">>
             y == <<<<"multiplet", "">>>>
             all == [k \in DOMAIN simultaneous |-> x]
  <2>1. at = "match"
    BY <1>2 DEF Match, Proceed
  <2>2. \E matching : Fill(all \o If(matching # {}, y))
    BY <1>2, Zenon DEF Match
  <2>3. x \in S /\ y \in Seq(S)
    BY MultipletBooks, OfOne, Zenon
  <2> HIDE DEF x, y
  <2>4. down \in Seq(ToSet(down))
    BY <2>1 DEF MultipletInv, ArmRight, TrackletsRight
  <2>5. PICK T : T = ToSet(down)
    OBVIOUS
  <2>6. down \in Seq(T)
    BY <2>4, <2>5
  <2> HIDE DEF down, near
  <2>7. PICK U : simultaneous \in Seq(U)
    BY <2>6, MatchNames
  <2> HIDE DEF simultaneous, S
  <2>8. all \in Seq(S)
    BY <2>3, <2>7, RepeatedName
  <2> HIDE DEF all
  <2>9. PICK matching : Fill(all \o If(matching # {}, y))
    BY <2>2
  <2>10. If(matching # {}, y) \in Seq(S)
    BY <2>3, IfNames
  <2>11. all \o If(matching # {}, y) \in Seq(S)
    BY <2>8, <2>10, ConcatProperties
  <2> QED
    BY <2>9, <2>11, FillBooks DEF S
<1>3. CASE MultipletPut
  <2> DEFINE x == <<<<"multipletMultiplicity", "">>>>
  <2>1. Fill(x)
    BY <1>3, Zenon DEF MultipletPut
  <2>2. x \in Seq(S)
    BY MultipletBooks, OfOne, Zenon
  <2> HIDE DEF x
  <2> QED
    BY <2>1, <2>2, FillBooks
<1>4. CASE MultipletRefused \/ MultipletBegin \/ MultipletPair \/ MultipletPlane \/ MultipletSave
           \/ MultipletSearched \/ ClustersArrive
  BY <1>4, Zenon DEF MultipletRefused, MultipletBegin, MultipletPair, MultipletPlane, MultipletSave,
       MultipletSearched, ClustersArrive, NextPair, SearchPlane, Keep, Discard
<1> QED
  BY <1>1, <1>2, <1>3, <1>4, Zenon DEF MultipletStep

-----------------------------------------------------------------------------
(* Clustering *)

\* The function that a fold over the numbers up to n is: it exists,
IsFolded(f, V, n, step, base) ==
    /\ f \in [SUBSET (1..n) -> V]
    /\ f = [s \in SUBSET (1..n) |-> IF s = {} THEN base ELSE step[Max(s)][f[s \ {Max(s)}]]]
    /\ \A s \in SUBSET (1..n) : s # {} => Max(s) \in 1..n /\ f[s \ {Max(s)}] \in V

\* A fold over 1..n exists and has its type.
LEMMA FoldExists ==
    ASSUME NEW n \in Nat, NEW V, NEW base \in V, NEW step \in Bodies(V, n)
    PROVE  \E f : IsFolded(f, V, n, step, base)
<1>1. PICK f : IsLeftFold(f, V, n, step, base)
  BY LeftFold
<1>2. /\ f \in [SUBSET (1..n) -> V] /\ f[{}] = base
      /\ \A s \in SUBSET (1..n) : s # {} => Max(s) \in 1..n /\ f[s] = step[Max(s)][f[s \ {Max(s)}]]
  BY <1>1 DEF IsLeftFold
<1>3. \A s \in SUBSET (1..n) : s \ {Max(s)} \in SUBSET (1..n)
  OBVIOUS
<1>4. f = [s \in SUBSET (1..n) |-> IF s = {} THEN base ELSE step[Max(s)][f[s \ {Max(s)}]]]
  BY <1>2, Zenon
<1> QED
  BY <1>2, <1>3, <1>4 DEF IsFolded

\* and what it has made of the numbers up to i is of its type.
LEMMA FoldType ==
    ASSUME NEW n \in Nat, NEW V, NEW k, k[{}] \in V, \A i \in 1..n : k[1..(i - 1)] \in V => k[1..i] \in V
    PROVE  k[1..n] \in V
<1> DEFINE P == {i \in 0..n : k[1..i] \in V}
<1>1. 0 \in P
  BY RangeEnds
<1>2. \A i \in 1..n : i - 1 \in P => i \in P
  OBVIOUS
<1>3. \A i \in 0..n : i \in P
  <2> HIDE DEF P
  <2> QED
    BY <1>1, <1>2, UpTo
<1> QED
  BY <1>3

\* The numbers of the pixels of an event.
Hits == 1..Len(pixels)

IsEvent == pixels \in Seq(ToSet(pixels))

\* The map of hits has the number of a pixel, or 0.
LEMMA HitNumber ==
    ASSUME IsEvent, NEW p
    PROVE  hitmap(p) \in Hits \cup {0}
<1> DEFINE I == {i \in 1..Len(pixels) : <<pixels[i].col, pixels[i].row>> = p}
<1>1. Len(pixels) \in Nat
  BY LenProperties DEF IsEvent
<1>2. hitmap(p) = IF I # {} THEN Max(I) ELSE 0
  BY Zenon DEF hitmap, SelectLastInSeq
<1>3. I \in SUBSET (1..Len(pixels))
  OBVIOUS
<1> HIDE DEF I
<1>4. I # {} => Max(I) \in I
  BY <1>1, <1>3, HasMaxMin
<1> QED
  BY <1>2, <1>3, <1>4 DEF Hits

\* A flood, and one neighbour of a pixel that it comes to.
Floods == [used : SUBSET Hits, pixels : Seq(Hits), split : {FALSE}, neighbors : Seq(Hits)]

AddNeighbour(f, p) ==
    LET hit == hitmap(p)
    IN  IF ~InBounds(p) \/ hit = 0 \/ hit \in f.used THEN f
        ELSE [f EXCEPT !.used = @ \cup {hit}, !.pixels = Append(@, hit), !.neighbors = Append(@, hit)]

\* A step of the flood adds a pixel to its list, or not,
LEMMA NeighbourAdded ==
    ASSUME IsEvent, NEW f \in Floods, NEW p
    PROVE  AddNeighbour(f, p) \in Floods
<1>1. hitmap(p) \in Hits \cup {0}
  BY HitNumber
<1> DEFINE hit == hitmap(p)
<1>2. CASE ~InBounds(p) \/ hit = 0 \/ hit \in f.used
  BY <1>2 DEF AddNeighbour
<1>3. CASE ~(~InBounds(p) \/ hit = 0 \/ hit \in f.used)
  <2>1. AddNeighbour(f, p) = [f EXCEPT !.used = @ \cup {hit}, !.pixels = Append(@, hit),
                                       !.neighbors = Append(@, hit)]
    BY <1>3, Zenon DEF AddNeighbour
  <2>2. hit \in Hits
    BY <1>1, <1>3
  <2> HIDE DEF hit
  <2> DEFINE H == Hits
  <2>3. f \in [used : SUBSET H, pixels : Seq(H), split : {FALSE}, neighbors : Seq(H)] /\ hit \in H
    BY <2>2 DEF Floods
  <2> HIDE DEF H
  <2>4. f.used \cup {hit} \in SUBSET H /\ Append(f.pixels, hit) \in Seq(H) /\ Append(f.neighbors, hit) \in Seq(H)
    BY <2>3, AppendProperties
  <2>5. AddNeighbour(f, p) \in [used : SUBSET H, pixels : Seq(H), split : {FALSE}, neighbors : Seq(H)]
    BY <2>1, <2>3, <2>4
  <2> QED
    BY <2>5 DEF Floods, H
<1> QED
  BY <1>2, <1>3

\* What the loop over the neighbours has made of a part of them.
Visited(base, seq) ==
    CHOOSE iter : iter = [s \in SUBSET DOMAIN seq |->
        IF s = {} THEN base ELSE AddNeighbour(iter[s \ {Max(s)}], seq[Max(s)])]

\* and so does a visit.
LEMMA VisitedFlood ==
    ASSUME IsEvent, NEW flood \in Floods, flood.neighbors # <<>>, NEW i
    PROVE  Visit(flood, i) \in Floods
<1> DEFINE seq == Around(Position(i))
           n == 9
           V == Floods
           base == [flood EXCEPT !.neighbors = Front(@)]
           step == [m \in 1..n |-> [v \in V |-> AddNeighbour(v, seq[m])]]
           k == Visited(base, seq)
<1>1. DOMAIN seq = 1..n /\ n \in Nat
  BY DEF Around
<1>2. Visit(flood, i) = k[DOMAIN seq]
  BY Zenon DEF Visit, FoldLeft, MapThenFoldSet, Visited, AddNeighbour
<1> HIDE DEF seq
<1>3. base \in V
  <2> DEFINE H == Hits
  <2>1. flood \in [used : SUBSET H, pixels : Seq(H), split : {FALSE}, neighbors : Seq(H)]
    BY DEF Floods
  <2> HIDE DEF H
  <2>2. flood.neighbors \in Seq(H)
    BY <2>1
  <2>3. Front(flood.neighbors) \in Seq(H)
    <3> DEFINE s == flood.neighbors
    <3>1. s \in Seq(H) /\ s # <<>> /\ Len(s) \in Nat
      BY <2>2, LenProperties
    <3>2. Front(s) = SubSeq(s, 1, Len(s) - 1)
      BY DEF Front
    <3> HIDE DEF s
    <3>3. SubSeq(s, 1, Len(s) - 1) \in Seq(H)
      <4>1. \A m \in 1..(Len(s) - 1) : s[m] \in H
        BY <3>1, ElementOfSeq
      <4> QED
        BY <3>1, <4>1, SubSeqProperties
    <3> QED
      BY <3>2, <3>3 DEF s
  <2>4. base \in [used : SUBSET H, pixels : Seq(H), split : {FALSE}, neighbors : Seq(H)]
    BY <2>1, <2>3
  <2> QED
    BY <2>4 DEF Floods, H
<1> HIDE DEF base, V, n
<1>4. \A m \in 1..n : \A v \in V : AddNeighbour(v, seq[m]) \in V
  BY NeighbourAdded DEF V
<1>5. step \in Bodies(V, n)
  BY <1>4 DEF Bodies
<1>6. PICK f : IsFolded(f, V, n, step, base)
  <2> HIDE DEF step
  <2> QED
    BY <1>1, <1>3, <1>5, FoldExists
<1>7. f = [s \in SUBSET DOMAIN seq |-> IF s = {} THEN base ELSE AddNeighbour(f[s \ {Max(s)}], seq[Max(s)])]
  <2>1. \A s \in SUBSET (1..n) : s # {} =>
            step[Max(s)][f[s \ {Max(s)}]] = AddNeighbour(f[s \ {Max(s)}], seq[Max(s)])
    BY <1>6 DEF IsFolded
  <2> HIDE DEF step
  <2> QED
    BY <1>1, <1>6, <2>1, Zenon DEF IsFolded
<1>8. k = [s \in SUBSET DOMAIN seq |-> IF s = {} THEN base ELSE AddNeighbour(k[s \ {Max(s)}], seq[Max(s)])]
  <2> HIDE DEF step
  <2> QED
    BY <1>7, Zenon DEF Visited
<1> HIDE DEF k, step
<1>9. k[{}] \in V
  <2>1. {} \in SUBSET DOMAIN seq
    OBVIOUS
  <2>2. k[{}] = base
    BY <1>8, <2>1, Zenon
  <2> QED
    BY <1>3, <2>2
<1>10. \A m \in 1..n : k[1..(m - 1)] \in V => k[1..m] \in V
  <2> TAKE m \in 1..n
  <2>1. 1..m \in SUBSET (1..n) /\ 1..m # {} /\ Max(1..m) = m /\ (1..m) \ {m} = 1..(m - 1)
    BY <1>1, RangeEnds
  <2>2. k[1..m] = AddNeighbour(k[1..(m - 1)], seq[m])
    BY <1>1, <1>8, <2>1, Zenon
  <2> QED
    BY <1>4, <2>2
<1>11. k[1..n] \in V
  BY <1>1, <1>9, <1>10, FoldType
<1> QED
  BY <1>1, <1>2, <1>11 DEF V

\* The pixels in the order of their numbers.
Numbered == [i \in DOMAIN pixels |-> i]

\* The pixels that are numbered are those of the event.
LEMMA NumberedHits == IsEvent => Numbered \in Seq(Hits) /\ DOMAIN Numbered = 1..Len(pixels) /\ Len(pixels) \in Nat
<1> SUFFICES ASSUME IsEvent PROVE Numbered \in Seq(Hits) /\ DOMAIN Numbered = 1..Len(pixels) /\ Len(pixels) \in Nat
  OBVIOUS
<1>1. DOMAIN pixels = 1..Len(pixels) /\ Len(pixels) \in Nat
  BY LenProperties DEF IsEvent
<1> QED
  BY <1>1 DEF Numbered, Hits

\* A flood goes on at the last of its neighbours.
FloodOn(f) == IF f.neighbors = <<>> THEN f ELSE Visit(f, Last(f.neighbors))

FloodBase(seed, used_) == [used |-> used_ \cup {seed}, pixels |-> <<seed>>, split |-> FALSE, neighbors |-> <<seed>>]

Flooded(base) ==
    CHOOSE iter : iter = [s \in SUBSET DOMAIN Numbered |-> IF s = {} THEN base ELSE FloodOn(iter[s \ {Max(s)}])]

\* The pixels of a cluster are pixels of the event.
LEMMA SpatialClusterType ==
    ASSUME IsEvent, NEW seed \in Hits, NEW used_ \in SUBSET Hits
    PROVE  SpatialCluster(seed, used_) \in Floods
<1> DEFINE seq == Numbered
           n == Len(pixels)
           V == Floods
           base == FloodBase(seed, used_)
           k == Flooded(base)
<1>1. DOMAIN seq = 1..n /\ n \in Nat
  BY NumberedHits
<1>2. SpatialCluster(seed, used_) = k[DOMAIN seq]
  BY Zenon DEF SpatialCluster, FoldLeftDomain, FoldLeft, MapThenFoldSet, Flooded, FloodOn, FloodBase, Numbered
<1> HIDE DEF seq
<1>3. base \in V
  <2> DEFINE H == Hits
  <2>1. seed \in H /\ used_ \in SUBSET H
    OBVIOUS
  <2> HIDE DEF H
  <2>2. base \in [used : SUBSET H, pixels : Seq(H), split : {FALSE}, neighbors : Seq(H)]
    BY <2>1 DEF FloodBase
  <2> QED
    BY <2>2 DEF Floods, H
<1> HIDE DEF base, V, n
<1>4. \A v \in V : FloodOn(v) \in V
  BY VisitedFlood DEF V, FloodOn
<1> DEFINE step == [m \in 1..n |-> [v \in V |-> FloodOn(v)]]
<1>5. step \in Bodies(V, n)
  BY <1>4 DEF Bodies
<1>6. PICK f : IsFolded(f, V, n, step, base)
  <2> HIDE DEF step
  <2> QED
    BY <1>1, <1>3, <1>5, FoldExists
<1>7. f = [s \in SUBSET DOMAIN seq |-> IF s = {} THEN base ELSE FloodOn(f[s \ {Max(s)}])]
  <2>1. \A s \in SUBSET (1..n) : s # {} =>
            step[Max(s)][f[s \ {Max(s)}]] = FloodOn(f[s \ {Max(s)}])
    BY <1>6 DEF IsFolded
  <2> HIDE DEF step
  <2> QED
    BY <1>1, <1>6, <2>1, Zenon DEF IsFolded
<1>8. k = [s \in SUBSET DOMAIN seq |-> IF s = {} THEN base ELSE FloodOn(k[s \ {Max(s)}])]
  <2> HIDE DEF step
  <2> QED
    BY <1>7, Zenon DEF Flooded, seq
<1> HIDE DEF k, step
<1>9. k[{}] \in V
  <2>1. {} \in SUBSET DOMAIN seq
    OBVIOUS
  <2>2. k[{}] = base
    BY <1>8, <2>1, Zenon
  <2> QED
    BY <1>3, <2>2
<1>10. \A m \in 1..n : k[1..(m - 1)] \in V => k[1..m] \in V
  <2> TAKE m \in 1..n
  <2>1. 1..m \in SUBSET (1..n) /\ 1..m # {} /\ Max(1..m) = m /\ (1..m) \ {m} = 1..(m - 1)
    BY <1>1, RangeEnds
  <2>2. k[1..m] = FloodOn(k[1..(m - 1)])
    BY <1>1, <1>8, <2>1, Zenon
  <2> QED
    BY <1>4, <2>2
<1>11. k[1..n] \in V
  BY <1>1, <1>9, <1>10, FoldType
<1> QED
  BY <1>1, <1>2, <1>11 DEF V

\* A cluster that grows by sweeps over the pixels, and one pixel of a sweep.
Sweeps == [used : SUBSET Hits, pixels : Seq(Hits), split : BOOLEAN, over : BOOLEAN]

SweepOn(c, i) ==
    IF c.over \/ Abs(pixels[i].time - EarliestTime(c)) > chain.time_cut
    THEN [c EXCEPT !.over = TRUE]
    ELSE IF i \in c.used
            \/ FirstTouched(chain.det, Position(i), PixelPositions(c),
                            chain.radius_row, chain.radius_col) = 0
         THEN c
         ELSE [c EXCEPT !.used = @ \cup {i}, !.pixels = Append(@, i),
                        !.split = @ \/ Splits(chain.det, Position(i), PixelPositions(c),
                                              chain.radius_row, chain.radius_col)]

\* One round of the loop over the pixels,
LEMMA SweepOne ==
    ASSUME NEW c \in Sweeps, NEW i \in Hits
    PROVE  SweepOn(c, i) \in Sweeps
<1> DEFINE H == Hits
           b == c.split \/ Splits(chain.det, Position(i), PixelPositions(c), chain.radius_row, chain.radius_col)
           one == [c EXCEPT !.over = TRUE]
           two == [c EXCEPT !.used = @ \cup {i}, !.pixels = Append(@, i),
                        !.split = @ \/ Splits(chain.det, Position(i), PixelPositions(c),
                                              chain.radius_row, chain.radius_col)]
<1>1. SweepOn(c, i) = one \/ SweepOn(c, i) = c \/ SweepOn(c, i) = two
  BY Zenon DEF SweepOn
<1>2. b \in BOOLEAN
  BY Zenon
<1>3. c \in [used : SUBSET H, pixels : Seq(H), split : BOOLEAN, over : BOOLEAN] /\ i \in H
  BY DEF Sweeps
<1>4. two = [c EXCEPT !.used = c.used \cup {i}, !.pixels = Append(c.pixels, i), !.split = b]
  BY Zenon
<1> HIDE DEF H, b, two
<1>5. c.used \cup {i} \in SUBSET H /\ Append(c.pixels, i) \in Seq(H)
  BY <1>3, AppendProperties
<1>6. one \in [used : SUBSET H, pixels : Seq(H), split : BOOLEAN, over : BOOLEAN]
  BY <1>3
<1>7. two \in [used : SUBSET H, pixels : Seq(H), split : BOOLEAN, over : BOOLEAN]
  <2>1. PICK u, p : u = c.used \cup {i} /\ p = Append(c.pixels, i)
    OBVIOUS
  <2> QED
    BY <1>2, <1>3, <1>4, <1>5, <2>1
<1> HIDE DEF one
<1> QED
  BY <1>1, <1>3, <1>6, <1>7 DEF Sweeps, H

Swept(base, seq) ==
    CHOOSE iter : iter = [s \in SUBSET DOMAIN seq |-> IF s = {} THEN base ELSE SweepOn(iter[s \ {Max(s)}], seq[Max(s)])]

\* and the whole loop.
LEMMA SweepType ==
    ASSUME IsEvent, NEW c \in Sweeps, NEW order \in Seq(Hits), NEW first \in Nat \ {0}
    PROVE  Sweep(c, order, first) \in Sweeps
<1> DEFINE seq == SubSeq(order, first, Len(order))
           n == Len(seq)
           V == Sweeps
           base == [c EXCEPT !.over = FALSE]
           k == Swept(base, seq)
<1>0. seq \in Seq(Hits)
  <2>1. Len(order) \in Nat /\ \A m \in first..Len(order) : order[m] \in Hits
    BY LenProperties, ElementOfSeq
  <2> DEFINE H == Hits
             l == Len(order)
  <2>2. l \in Int /\ first \in Int /\ \A m \in first..l : order[m] \in H
    BY <2>1
  <2> HIDE DEF H, l
  <2>3. SubSeq(order, first, l) \in Seq(H)
    BY <2>2, SubSeqProperties
  <2> QED
    BY <2>3 DEF H, l
<1>1. DOMAIN seq = 1..n /\ n \in Nat
  <2> HIDE DEF seq
  <2> QED
    BY <1>0, LenProperties
<1>2. Sweep(c, order, first) = k[DOMAIN seq]
  BY Zenon DEF Sweep, FoldLeft, MapThenFoldSet, Swept, SweepOn
<1> HIDE DEF seq
<1>3. base \in V
  <2> DEFINE H == Hits
  <2>1. c \in [used : SUBSET H, pixels : Seq(H), split : BOOLEAN, over : BOOLEAN]
    BY DEF Sweeps
  <2> HIDE DEF H
  <2>2. base \in [used : SUBSET H, pixels : Seq(H), split : BOOLEAN, over : BOOLEAN]
    BY <2>1
  <2> QED
    BY <2>2 DEF Sweeps, H
<1>4. \A m \in 1..n : \A v \in V : SweepOn(v, seq[m]) \in V
  BY <1>0, ElementOfSeq, SweepOne
<1> HIDE DEF base, V, n
<1> DEFINE step == [m \in 1..n |-> [v \in V |-> SweepOn(v, seq[m])]]
<1>5. step \in Bodies(V, n)
  BY <1>4 DEF Bodies
<1>6. PICK f : IsFolded(f, V, n, step, base)
  <2> HIDE DEF step
  <2> QED
    BY <1>1, <1>3, <1>5, FoldExists
<1>7. f = [s \in SUBSET DOMAIN seq |-> IF s = {} THEN base ELSE SweepOn(f[s \ {Max(s)}], seq[Max(s)])]
  <2>1. \A s \in SUBSET (1..n) : s # {} =>
            step[Max(s)][f[s \ {Max(s)}]] = SweepOn(f[s \ {Max(s)}], seq[Max(s)])
    BY <1>6 DEF IsFolded
  <2> HIDE DEF step
  <2> QED
    BY <1>1, <1>6, <2>1, Zenon DEF IsFolded
<1>8. k = [s \in SUBSET DOMAIN seq |-> IF s = {} THEN base ELSE SweepOn(k[s \ {Max(s)}], seq[Max(s)])]
  <2> HIDE DEF step
  <2> QED
    BY <1>7, Zenon DEF Swept
<1> HIDE DEF k, step
<1>9. k[{}] \in V
  <2>1. {} \in SUBSET DOMAIN seq
    OBVIOUS
  <2>2. k[{}] = base
    BY <1>8, <2>1, Zenon
  <2> QED
    BY <1>3, <2>2
<1>10. \A m \in 1..n : k[1..(m - 1)] \in V => k[1..m] \in V
  <2> TAKE m \in 1..n
  <2>1. 1..m \in SUBSET (1..n) /\ 1..m # {} /\ Max(1..m) = m /\ (1..m) \ {m} = 1..(m - 1)
    BY <1>1, RangeEnds
  <2>2. k[1..m] = SweepOn(k[1..(m - 1)], seq[m])
    BY <1>1, <1>8, <2>1, Zenon
  <2> QED
    BY <1>4, <2>2
<1>11. k[1..n] \in V
  BY <1>1, <1>9, <1>10, FoldType
<1> QED
  BY <1>1, <1>2, <1>11 DEF V

\* Sweeps over the pixels until one adds none.
Agains == [cluster : Sweeps, done : BOOLEAN]

AgainOn(c, order, first) ==
    LET swept == Sweep(c.cluster, order, first)
    IN  IF c.done THEN c ELSE [cluster |-> swept, done |-> swept.pixels = c.cluster.pixels]

AgainBase(seed, used_) ==
    [cluster |-> [used |-> used_ \cup {seed}, pixels |-> <<seed>>, split |-> FALSE, over |-> FALSE], done |-> FALSE]

SweptAgain(base, order, first) ==
    CHOOSE iter : iter = [s \in SUBSET DOMAIN Numbered |->
        IF s = {} THEN base ELSE AgainOn(iter[s \ {Max(s)}], order, first)]

\* One round of the loop that begins again,
LEMMA AgainOne ==
    ASSUME IsEvent, NEW order \in Seq(Hits), NEW first \in Nat \ {0}, NEW c \in Agains
    PROVE  AgainOn(c, order, first) \in Agains
<1> DEFINE W == Sweeps
           swept == Sweep(c.cluster, order, first)
           b == (swept.pixels = c.cluster.pixels)
<1>1. c \in [cluster : W, done : BOOLEAN]
  BY DEF Agains
<1>2. swept \in W
  BY <1>1, SweepType
<1>3. b \in BOOLEAN
  BY Zenon
<1>4. AgainOn(c, order, first) = c \/ AgainOn(c, order, first) = [cluster |-> swept, done |-> b]
  BY Zenon DEF AgainOn
<1> HIDE DEF W, swept, b
<1>5. [cluster |-> swept, done |-> b] \in [cluster : W, done : BOOLEAN]
  BY <1>2, <1>3
<1> QED
  BY <1>1, <1>4, <1>5 DEF Agains, W

\* and all of its rounds for a seed.
LEMMA Cluster4DType ==
    ASSUME IsEvent, NEW order \in Seq(Hits), NEW first \in Nat \ {0}, NEW seed \in Hits, NEW used_ \in SUBSET Hits
    PROVE  Cluster4D(seed, used_, order, first) \in Sweeps
<1> DEFINE seq == Numbered
           n == Len(pixels)
           V == Agains
           base == AgainBase(seed, used_)
           k == SweptAgain(base, order, first)
<1>1. DOMAIN seq = 1..n /\ n \in Nat
  BY NumberedHits
<1>2. Cluster4D(seed, used_, order, first) = k[DOMAIN seq].cluster
  BY Zenon DEF Cluster4D, FoldLeftDomain, FoldLeft, MapThenFoldSet, SweptAgain, AgainOn, AgainBase, Numbered
<1> HIDE DEF seq
<1>3. base \in V
  <2> DEFINE H == Hits
             x == [used |-> used_ \cup {seed}, pixels |-> <<seed>>, split |-> FALSE, over |-> FALSE]
  <2>1. seed \in H /\ used_ \in SUBSET H
    OBVIOUS
  <2> HIDE DEF H
  <2>2. x \in [used : SUBSET H, pixels : Seq(H), split : BOOLEAN, over : BOOLEAN]
    BY <2>1
  <2>3. base = [cluster |-> x, done |-> FALSE]
    BY DEF AgainBase
  <2>4. x \in Sweeps
    BY <2>2 DEF Sweeps, H
  <2> HIDE DEF x, base
  <2>5. [cluster |-> x, done |-> FALSE] \in [cluster : Sweeps, done : BOOLEAN]
    BY <2>4
  <2> QED
    BY <2>3, <2>5 DEF Agains
<1>4. \A v \in V : AgainOn(v, order, first) \in V
  BY AgainOne
<1> HIDE DEF base, V, n
<1> DEFINE step == [m \in 1..n |-> [v \in V |-> AgainOn(v, order, first)]]
<1>5. step \in Bodies(V, n)
  BY <1>4 DEF Bodies
<1>6. PICK f : IsFolded(f, V, n, step, base)
  <2> HIDE DEF step
  <2> QED
    BY <1>1, <1>3, <1>5, FoldExists
<1>7. f = [s \in SUBSET DOMAIN seq |-> IF s = {} THEN base ELSE AgainOn(f[s \ {Max(s)}], order, first)]
  <2>1. \A s \in SUBSET (1..n) : s # {} =>
            step[Max(s)][f[s \ {Max(s)}]] = AgainOn(f[s \ {Max(s)}], order, first)
    BY <1>6 DEF IsFolded
  <2> HIDE DEF step
  <2> QED
    BY <1>1, <1>6, <2>1, Zenon DEF IsFolded
<1>8. k = [s \in SUBSET DOMAIN seq |-> IF s = {} THEN base ELSE AgainOn(k[s \ {Max(s)}], order, first)]
  <2> HIDE DEF step
  <2> QED
    BY <1>7, Zenon DEF SweptAgain, seq
<1> HIDE DEF k, step
<1>9. k[{}] \in V
  <2>1. {} \in SUBSET DOMAIN seq
    OBVIOUS
  <2>2. k[{}] = base
    BY <1>8, <2>1, Zenon
  <2> QED
    BY <1>3, <2>2
<1>10. \A m \in 1..n : k[1..(m - 1)] \in V => k[1..m] \in V
  <2> TAKE m \in 1..n
  <2>1. 1..m \in SUBSET (1..n) /\ 1..m # {} /\ Max(1..m) = m /\ (1..m) \ {m} = 1..(m - 1)
    BY <1>1, RangeEnds
  <2>2. k[1..m] = AgainOn(k[1..(m - 1)], order, first)
    BY <1>1, <1>8, <2>1, Zenon
  <2> QED
    BY <1>4, <2>2
<1>11. k[1..n] \in V
  BY <1>1, <1>9, <1>10, FoldType
<1>12. k[1..n].cluster \in Sweeps
  BY <1>11 DEF V, Agains
<1> QED
  BY <1>1, <1>2, <1>12

\* The clusters that are put on the clipboard.
ClusterMade(m) == [pixels |-> m.pixels, split |-> m.split, time |-> TimeOf(m), centre |-> Centre(m)]

Made == {ClusterMade(m) : m \in Floods \cup Sweeps}

States == [used : SUBSET Hits, clusters : Seq(Made)]

SeedOn(state, order, n) ==
    LET made == ClusterOfSeed(order, n, state.used)
        reject == chain.reject_by_roi
                  /\ ~ClusterWithinROI(chain.det, {Position(i) : i \in ToSet(made.pixels)})
    IN  IF order[n] \in state.used THEN state
        ELSE [used |-> made.used,
              clusters |-> IF reject THEN state.clusters ELSE Append(state.clusters, ClusterMade(made))]

\* The pixels of a cluster are pixels of the event.
LEMMA MadePixels == \A c \in Made : c.pixels \in Seq(Hits)
<1> TAKE c \in Made
<1>1. PICK m \in Floods \cup Sweeps : c = ClusterMade(m)
  BY DEF Made
<1>2. c.pixels = m.pixels
  BY <1>1 DEF ClusterMade
<1>3. m.pixels \in Seq(Hits)
  BY DEF Floods, Sweeps
<1> QED
  BY <1>2, <1>3

\* A seed makes a cluster of its pixels, or none.
LEMMA SeedOne ==
    ASSUME IsEvent, NEW order \in Seq(Hits), NEW n \in 1..Len(order), NEW state \in States
    PROVE  SeedOn(state, order, n) \in States
<1> DEFINE made == ClusterOfSeed(order, n, state.used)
           reject == chain.reject_by_roi
                     /\ ~ClusterWithinROI(chain.det, {Position(i) : i \in ToSet(made.pixels)})
           new == IF reject THEN state.clusters ELSE Append(state.clusters, ClusterMade(made))
           M == Made
<1>1. state.used \in SUBSET Hits /\ state.clusters \in Seq(Made)
  BY DEF States
<1>2. order[n] \in Hits /\ n + 1 \in Nat \ {0}
  BY LenProperties, ElementOfSeq
<1>3. made \in Floods \cup Sweeps
  BY <1>1, <1>2, SpatialClusterType, Cluster4DType DEF ClusterOfSeed
<1>4. SeedOn(state, order, n) = state \/ SeedOn(state, order, n) = [used |-> made.used, clusters |-> new]
  BY Zenon DEF SeedOn
<1> HIDE DEF made, reject
<1>5. ClusterMade(made) \in M
  BY <1>3 DEF Made
<1>6. made.used \in SUBSET Hits
  BY <1>3 DEF Floods, Sweeps
<1>7. new \in Seq(M)
  <2>1. state.clusters \in Seq(M)
    BY <1>1
  <2> HIDE DEF M
  <2> QED
    BY <1>5, <2>1, AppendProperties
<1> HIDE DEF new, M
<1>8. PICK u : u = made.used
  OBVIOUS
<1>9. [used |-> u, clusters |-> new] \in [used : SUBSET Hits, clusters : Seq(M)]
  BY <1>6, <1>7, <1>8
<1> QED
  BY <1>4, <1>8, <1>9 DEF States, M

Seeded(base, order) ==
    CHOOSE iter : iter = [s \in SUBSET DOMAIN order |-> IF s = {} THEN base ELSE SeedOn(iter[s \ {Max(s)}], order, Max(s))]

\* Clustering makes a list of clusters, of pixels of the event.
LEMMA AllClustersType ==
    ASSUME IsEvent, NEW order \in Seq(Hits)
    PROVE  AllClusters(order) \in Seq(Made)
<1> DEFINE seq == order
           n == Len(order)
           V == States
           base == [used |-> {}, clusters |-> <<>>]
           k == Seeded(base, order)
           l == [i \in DOMAIN order |-> i]
           all == CHOOSE iter : iter = [s \in SUBSET DOMAIN l |-> IF s = {} THEN base ELSE SeedOn(iter[s \ {Max(s)}], order, l[Max(s)])]
<1>1. DOMAIN seq = 1..n /\ n \in Nat
  BY LenProperties
<1>2. AllClusters(order) = k[DOMAIN seq].clusters
  <2>1. AllClusters(order) = all[DOMAIN l].clusters
    BY Zenon DEF AllClusters, FoldLeftDomain, FoldLeft, MapThenFoldSet, SeedOn, ClusterMade
  <2>2. \A s \in SUBSET DOMAIN order : s # {} => l[Max(s)] = Max(s)
    <3>1. \A s \in SUBSET (1..n) : s # {} => Max(s) \in s
      BY <1>1, HasMaxMin
    <3> QED
      BY <1>1, <3>1
  <2>3. DOMAIN l = DOMAIN order
    OBVIOUS
  <2> HIDE DEF l, base
  <2>4. \A iter : [s \in SUBSET DOMAIN l |-> IF s = {} THEN base ELSE SeedOn(iter[s \ {Max(s)}], order, l[Max(s)])]
                 = [s \in SUBSET DOMAIN order |-> IF s = {} THEN base ELSE SeedOn(iter[s \ {Max(s)}], order, Max(s))]
    BY <2>2, <2>3, Zenon
  <2>5. all = k
    BY <2>4, Zenon DEF Seeded
  <2> QED
    BY <2>1, <2>3, <2>5
<1> HIDE DEF all, l
<1>3. base \in V
  <2> DEFINE H == SUBSET Hits
             M == Made
  <2>1. {} \in H /\ <<>> \in Seq(M)
    BY EmptySeq
  <2> HIDE DEF H, M
  <2>2. base \in [used : H, clusters : Seq(M)]
    BY <2>1
  <2> QED
    BY <2>2 DEF States, H, M
<1>4. \A m \in 1..n : \A v \in V : SeedOn(v, order, m) \in V
  BY SeedOne
<1> HIDE DEF base, V, n, seq
<1> DEFINE step == [m \in 1..n |-> [v \in V |-> SeedOn(v, order, m)]]
<1>5. step \in Bodies(V, n)
  BY <1>4 DEF Bodies
<1>6. PICK f : IsFolded(f, V, n, step, base)
  <2> HIDE DEF step
  <2> QED
    BY <1>1, <1>3, <1>5, FoldExists
<1>7. f = [s \in SUBSET DOMAIN seq |-> IF s = {} THEN base ELSE SeedOn(f[s \ {Max(s)}], order, Max(s))]
  <2>1. \A s \in SUBSET (1..n) : s # {} =>
            step[Max(s)][f[s \ {Max(s)}]] = SeedOn(f[s \ {Max(s)}], order, Max(s))
    BY <1>6 DEF IsFolded
  <2> HIDE DEF step
  <2> QED
    BY <1>1, <1>6, <2>1, Zenon DEF IsFolded
<1>8. k = [s \in SUBSET DOMAIN seq |-> IF s = {} THEN base ELSE SeedOn(k[s \ {Max(s)}], order, Max(s))]
  <2> HIDE DEF step
  <2> QED
    BY <1>7, Zenon DEF Seeded, seq
<1> HIDE DEF k, step
<1>9. k[{}] \in V
  <2>1. {} \in SUBSET DOMAIN seq
    OBVIOUS
  <2>2. k[{}] = base
    BY <1>8, <2>1, Zenon
  <2> QED
    BY <1>3, <2>2
<1>10. \A m \in 1..n : k[1..(m - 1)] \in V => k[1..m] \in V
  <2> TAKE m \in 1..n
  <2>1. 1..m \in SUBSET (1..n) /\ 1..m # {} /\ Max(1..m) = m /\ (1..m) \ {m} = 1..(m - 1)
    BY <1>1, RangeEnds
  <2>2. k[1..m] = SeedOn(k[1..(m - 1)], order, m)
    BY <1>1, <1>8, <2>1, Zenon
  <2> QED
    BY <1>4, <2>2
<1>11. k[1..n] \in V
  BY <1>1, <1>9, <1>10, FoldType
<1>12. k[1..n].clusters \in Seq(Made)
  BY <1>11 DEF V, States
<1> QED
  BY <1>1, <1>2, <1>12

\* The pixels that a loader gives are a sequence.
LEMMA Sequenced ==
    ASSUME NEW S, IsFiniteSet(S)
    PROVE  SetToSeq(S) \in Seq(S) /\ SetToSeqs(S) \subseteq Seq(S)
<1> DEFINE n == Cardinality(S)
<1>1. n \in Nat
  BY FS_CardinalityType
<1>2. \E f : f \in Bijection(1..n, S)
  BY FS_CardinalityType DEF ExistsBijection
<1>3. \E f \in [1..n -> S] : IsInjective(f)
  BY <1>2 DEF Bijection, Injection, IsInjective
<1>4. SetToSeq(S) \in [1..n -> S]
  BY <1>3, Zenon DEF SetToSeq
<1>5. SetToSeqs(S) \subseteq [1..n -> S]
  BY Zenon DEF SetToSeqs
<1>6. [1..n -> S] \subseteq Seq(S)
  BY <1>1
<1> QED
  BY <1>4, <1>5, <1>6

ClusteringInv == chain.module = "Clustering" /\ at = "cluster" => IsEvent

\* The pixels that arrive are those of an event.
LEMMA ArriveClustering ==
    ASSUME Configured, chain' = chain, PixelsArrive
    PROVE  ClusteringInv'
<1>1. Chains[setup].module = "Clustering"
  BY ChainsAssumption DEF Configured, PixelsArrive
<1>2. PICK S \in Inputs : pixels' \in IF chain.method = "4D" THEN {SetToSeq(S)} ELSE SetToSeqs(S)
  BY DEF PixelsArrive
<1>3. IsFiniteSet(S)
  BY <1>1, ClusteringAssumption DEF Configured, Inputs
<1>4. pixels' \in Seq(S)
  BY <1>2, <1>3, Sequenced
<1>5. PICK p : p = pixels'
  OBVIOUS
<1>6. p \in Seq(S)
  BY <1>4, <1>5
<1>7. p \in Seq(ToSet(p))
  <2>1. PICK U : U = ToSet(p)
    OBVIOUS
  <2>2. p \in Seq(U)
    BY <1>6, <2>1, SequenceOf
  <2> QED
    BY <2>1, <2>2
<1> QED
  BY <1>5, <1>7 DEF ClusteringInv, IsEvent

\* What Clustering4D enters for a cluster.
LEMMA Cluster4DNames ==
    ASSUME chain.module = "Clustering", chain.method = "4D", NEW c, NEW T, c.pixels \in Seq(T)
    PROVE  Fill4D(c) \in Seq(Books)
<1> DEFINE S == Books
           size == Len(c.pixels)
           PerPixel(name) == [k \in 1..(size - 1) |-> name]
           x1 == If(size = 1, <<"clusterCharge_1px">>)
           x2 == If(size = 2, <<"clusterCharge_2px">>)
           x3 == If(size = 3, <<"clusterCharge_3px">>)
           y1 == PerPixel("pxTimeMinusSeedTime")
           y2 == PerPixel("pxTimeMinusSeedTime_2px")
           y3 == PerPixel("pxTimeMinusSeedTime_3px")
           y4 == PerPixel("pxTimeMinusSeedTime_4px")
           z2 == If(size = 2, y2)
           z3 == If(size = 3, y3)
           z4 == If(size = 4, y4)
<1>1. S = BookedSpatialClusters \cup BookedClusters4D
  BY BooksOf
<1>2. /\ "cluster" \in S
      /\ "clusterCharge_1px" \in S /\ "clusterCharge_2px" \in S /\ "clusterCharge_3px" \in S
      /\ "pxTimeMinusSeedTime" \in S /\ "pxTimeMinusSeedTime_2px" \in S
      /\ "pxTimeMinusSeedTime_3px" \in S /\ "pxTimeMinusSeedTime_4px" \in S
  <2> HIDE DEF S
  <2> QED
    BY <1>1 DEF BookedSpatialClusters, BookedClusters4D
<1>3. size \in Nat
  BY LenProperties
<1>4. Fill4D(c) = ((((((<<"cluster">> \o x1) \o x2) \o x3) \o y1) \o z2) \o z3) \o z4
  BY Zenon DEF Fill4D, x1, x2, x3, y1, y2, y3, y4, z2, z3, z4, PerPixel, size
<1> HIDE DEF size, S
<1>5. \A name \in S : PerPixel(name) \in Seq(S)
  <2> TAKE name \in S
  <2> DEFINE m == IF size = 0 THEN 0 ELSE size - 1
  <2>1. m \in Nat /\ 1..(size - 1) = 1..m
    BY <1>3
  <2>2. [k \in 1..m |-> name] \in Seq(S)
    BY <2>1, SameElements
  <2>3. PerPixel(name) = [k \in 1..m |-> name]
    BY <2>1
  <2> QED
    BY <2>2, <2>3
<1>6. y1 \in Seq(S) /\ y2 \in Seq(S) /\ y3 \in Seq(S) /\ y4 \in Seq(S)
  BY <1>2, <1>5
<1> HIDE DEF y1, y2, y3, y4
<1>7. /\ <<"cluster">> \in Seq(S) /\ <<"clusterCharge_1px">> \in Seq(S) /\ <<"clusterCharge_2px">> \in Seq(S)
      /\ <<"clusterCharge_3px">> \in Seq(S)
  BY <1>2
<1>8. x1 \in Seq(S) /\ x2 \in Seq(S) /\ x3 \in Seq(S) /\ z2 \in Seq(S) /\ z3 \in Seq(S) /\ z4 \in Seq(S)
  BY <1>6, <1>7, IfNames
<1> HIDE DEF x1, x2, x3, z2, z3, z4
<1> DEFINE front == ((<<"cluster">> \o x1) \o x2) \o x3
<1>9. front \in Seq(S)
  BY <1>7, <1>8, ConcatProperties
<1>10. Fill4D(c) = (((front \o y1) \o z2) \o z3) \o z4
  BY <1>4
<1> HIDE DEF front
<1> QED
  BY <1>6, <1>8, <1>9, <1>10, ConcatProperties DEF S

\* Clustering enters what it has booked, by either method.
LEMMA ClusteringBooked ==
    ASSUME ClusteringInv, chain.module = "Clustering", DOMAIN filled = Books, ClusteringStep
    PROVE  DOMAIN filled' = Books
<1> DEFINE S == Books
<1>0. {"cluster", "clusterMultiplicity"} \subseteq S
  BY BooksOf DEF BookedSpatialClusters
<1>1. CASE PixelsArrive
  BY <1>1 DEF PixelsArrive
<1>2. CASE ClusteringSpatialRun
  <2> DEFINE order == [i \in DOMAIN pixels |-> i]
             cs == AllClusters(order)
             a == [m \in DOMAIN cs |-> "cluster"]
             b == If(pixels # <<>>, <<"clusterMultiplicity">>)
  <2>1. IsEvent
    BY <1>2 DEF ClusteringInv, ClusteringSpatialRun, Proceed
  <2>2. cs \in Seq(Made)
    <3>1. order \in Seq(Hits)
      BY <2>1, NumberedHits DEF Numbered
    <3> HIDE DEF order
    <3> QED
      BY <2>1, <3>1, AllClustersType
  <2>3. Fill(a \o b)
    BY <1>2, Zenon DEF ClusteringSpatialRun, FillSpatial, a, b, cs, order
  <2> HIDE DEF cs, S
  <2>4. PICK M : M = Made
    OBVIOUS
  <2>5. cs \in Seq(M)
    BY <2>2, <2>4
  <2>6. a \in Seq(S)
    BY <1>0, <2>5, RepeatedName
  <2>7. <<"clusterMultiplicity">> \in Seq(S)
    BY <1>0
  <2>8. b \in Seq(S)
    BY <2>7, IfNames
  <2> HIDE DEF a, b
  <2>9. a \o b \in Seq(S)
    BY <2>6, <2>8, ConcatProperties
  <2> QED
    BY <2>3, <2>9, FillBooks DEF S
<1>3. CASE Clustering4DRun
  <2>1. IsEvent /\ chain.method = "4D"
    BY <1>3 DEF ClusteringInv, Clustering4DRun, Proceed
  <2>2. PICK order \in SortedByTime : clusters' = AllClusters(order)
    BY <1>3, Zenon DEF Clustering4DRun
  <2>3. order \in Seq(Hits)
    <3>1. DOMAIN pixels = Hits /\ Len(pixels) \in Nat
      BY <2>1, LenProperties DEF IsEvent, Hits
    <3>2. IsFiniteSet(Hits)
      BY <3>1, FS_Interval DEF Hits
    <3>3. order \in SetToSeqs(Hits)
      BY <2>2, <3>1 DEF SortedByTime
    <3> QED
      BY <3>2, <3>3, Sequenced
  <2>4. PICK cs : cs = clusters'
    OBVIOUS
  <2>5. PICK M : M = Made
    OBVIOUS
  <2>6. cs \in Seq(M)
    BY <2>1, <2>2, <2>3, <2>4, <2>5, AllClustersType
  <2> DEFINE a == [m \in DOMAIN cs |-> Fill4D(cs[m])]
             b == <<"clusterMultiplicity">>
  <2>7. Fill(FlattenSeq(a) \o b)
    BY <1>3, <2>4, Zenon DEF Clustering4DRun
  <2>8. \A m \in DOMAIN cs : a[m] \in Seq(S)
    <3> TAKE m \in DOMAIN cs
    <3>1. cs[m] \in Made
      BY <2>5, <2>6, LenProperties, ElementOfSeq
    <3>2. PICK c : c = cs[m]
      OBVIOUS
    <3>3. c.pixels \in Seq(Hits)
      BY <3>1, <3>2, MadePixels
    <3>4. Fill4D(c) \in Seq(Books)
      BY <2>1, <3>3, Cluster4DNames
    <3> QED
      BY <3>2, <3>4
  <2>9. DOMAIN a = DOMAIN cs /\ a = [m \in DOMAIN a |-> a[m]]
    OBVIOUS
  <2> HIDE DEF a, S
  <2>10. FlattenSeq(a) \in Seq(S)
    BY <2>6, <2>8, <2>9, ListOfLists
  <2>11. b \in Seq(S)
    BY <1>0
  <2>12. FlattenSeq(a) \o b \in Seq(S)
    BY <2>10, <2>11, ConcatProperties
  <2> QED
    BY <2>7, <2>12, FillBooks DEF S
<1> QED
  BY <1>1, <1>2, <1>3 DEF ClusteringStep

\* The modules that book nothing.
Quiet == {"Mask", "Files", "Config", "Value", "Words", "FASTPIX"}

\* They fill nothing,
LEMMA QuietNext ==
    ASSUME MaskNext \/ FilesNext \/ ConfigNext \/ DecodingNext \/ FASTPIXNext
    PROVE  filled' = filled
<1>1. MaskNext => filled' = filled
  BY DEF MaskNext, MaskStep, MaskInitialize, MaskRun, MaskFinalize, Restart
<1>2. FilesNext => filled' = filled
  BY DEF FilesNext, FilesStep, FileWriterRun, FileWriterFinalize, FileReaderInitialize, FileReaderRun
<1>3. ConfigNext => filled' = filled
  BY DEF ConfigNext
<1>4. DecodingNext => filled' = filled
  BY DEF DecodingNext, DecodingStep, Send, Timepix3Begin, DeviceReset, HeartbeatLow, HeartbeatHigh,
         SkippedWord, PixelWord, TriggerWord, PowerWord, ATLASpixBegin, T0Word, FPGAFirst, FPGASecond,
         FPGAThird, ReadoutWord, HitWord
<1>5. FASTPIXNext => filled' = filled
  BY DEF FASTPIXNext, FASTPIXStep, FASTPIXBegin, Looping, LoadMatching, DiscardRecord, DiscardRecords,
         LoadPrevious, SkipTrigger, DiscardByTime, FASTPIXDone, ReadBeyondEnd
<1> QED
  BY <1>1, <1>2, <1>3, <1>4, <1>5

\* and the others begin an event when they have booked, and do not begin again.
LEMMA BookedSteps ==
    ASSUME Placed, ClusteringNext \/ TrackNext \/ FilterNext \/ TimingNext \/ PairNext, ~MultipletRefused
    PROVE  at \notin {"initialize", "refused"} /\ at' \notin {"initialize", "refused"}
<1> USE DEF Proceed
<1>1. CASE ClusteringNext
  BY <1>1 DEF ClusteringNext, Cluster, ClusteringStep, PixelsArrive, ClusteringSpatialRun, Clustering4DRun
<1>2. CASE TrackNext
  <2>1. CASE ClustersArrive
    BY <2>1 DEF ClustersArrive
  <2>2. CASE Tracking4DStep
    BY <2>2 DEF Tracking4DStep, Tracking4DBegin, Tracking4DPair, Tracking4DPlane, Tracking4DSave, Tracking4DPut,
           NextPair, SearchPlane, Keep, Discard
  <2>3. CASE MultipletStep
    BY <2>3 DEF MultipletStep, MultipletBegin, MultipletPair, MultipletPlane, MultipletSave, MultipletSearched,
           Isolate, Match, MultipletPut, NextPair, SearchPlane, Keep, Discard
  <2> QED
    BY <1>2, <2>1, <2>2, <2>3, TrackingSteps
<1>3. CASE FilterNext
  BY <1>3 DEF FilterNext, FilterStep, EventArrives, FilterRun
<1>4. CASE TimingNext
  BY <1>4 DEF TimingNext, TimingStep, TimingArrives, TimingTrack, TimingDone, TimingFinalize
<1>5. CASE PairNext
  BY <1>5 DEF PairNext, PairStep, PairsArrive, CorrelationsRun, PrealignmentRun, PrealignmentFinalize
<1> QED
  BY <1>1, <1>2, <1>3, <1>4, <1>5

\* Every step that is of a module fills what it has booked.
LEMMA ModulesBooked ==
    ASSUME LoopInv, BookedInv, ClusteringInv, PairInv, TimingInv, Tracking4DInv, MultipletInv,
           chain.module \notin {"DUT", "AnalysisFASTPIX"},
           ClusteringNext \/ TrackNext \/ FilterNext \/ TimingNext \/ PairNext, ~MultipletRefused
    PROVE  DOMAIN filled' = Books
<1>1. DOMAIN filled = Books
  BY BookedSteps DEF BookedInv, BookedBeforeFilled, LoopInv
<1>2. Configured /\ Placed
  BY DEF LoopInv
<1>3. CASE ClusteringNext
  <2>1. ClusteringStep /\ chain.module = "Clustering"
    BY <1>2, <1>3, OwnSteps DEF ClusteringNext, Cluster
  <2> QED
    BY <1>1, <2>1, ClusteringBooked
<1>4. CASE TrackNext
  <2>1. chain.module \in {"Tracking4D", "TrackingMultiplet"}
    BY <1>2, <1>4, OwnSteps
  <2>2. CASE chain.module = "Tracking4D"
    <3>1. Tracking4DStep \/ ClustersArrive
      BY <1>4, <2>2, TrackingSteps
    <3> QED
      BY <1>1, <1>2, <2>2, <3>1, BooksOf, Tracking4DBooked
  <2>3. CASE chain.module = "TrackingMultiplet"
    <3>1. MultipletStep \/ ClustersArrive
      BY <1>4, <2>3, TrackingSteps
    <3> QED
      BY <1>1, <2>3, <3>1, BooksOf, MultipletBooked
  <2> QED
    BY <2>1, <2>2, <2>3
<1>5. CASE FilterNext
  <2>1. FilterStep /\ chain.module = "Filter"
    BY <1>2, <1>5, OwnSteps DEF FilterNext
  <2> QED
    BY <1>1, <2>1, BooksOf, FilterBooked
<1>6. CASE TimingNext
  <2>1. TimingStep /\ chain.module = "Timing"
    BY <1>2, <1>6, OwnSteps DEF TimingNext
  <2> QED
    BY <1>1, <1>2, <2>1, BooksOf, TimingBooked
<1>7. CASE PairNext
  <2>1. PairStep /\ chain.module = "Pairs"
    BY <1>2, <1>7, OwnSteps DEF PairNext
  <2> QED
    BY <1>1, <2>1, BooksOf, PairsBooked
<1> QED
  BY <1>3, <1>4, <1>5, <1>6, <1>7

\* Every step of the program keeps it.
LEMMA BookedInvStep ==
    ASSUME LoopInv, BookedInv, ClusteringInv, PairInv, TimingInv, Tracking4DInv, MultipletInv, [Next]_vars
    PROVE  BookedInv'
<1> SUFFICES ASSUME chain.module \notin {"DUT", "AnalysisFASTPIX"}
             PROVE  /\ at' = "initialize" => DOMAIN filled' = {}
                    /\ at' \notin {"initialize", "refused"} => DOMAIN filled' = Books
  BY LoopKept, BooksSame DEF BookedInv, BookedBeforeFilled
<1>1. Placed /\ Placed' /\ chain' = chain
  BY LoopKept DEF LoopInv
<1>2. CASE UNCHANGED vars
  BY <1>2 DEF vars, chainVars, loopVars, BookedInv, BookedBeforeFilled
<1>3. CASE Initialize
  BY <1>3 DEF Initialize, Booked, Proceed
<1>4. CASE NextEvent
  BY <1>4 DEF NextEvent, EndOfEvent, BookedInv, BookedBeforeFilled
<1>5. CASE chain.module \in Quiet /\ (MaskNext \/ FilesNext \/ ConfigNext \/ DecodingNext \/ FASTPIXNext)
  <2>1. Books = {} /\ filled' = filled
    BY <1>5, BooksOf, QuietNext DEF Quiet
  <2>2. at # "refused"
    BY <1>1, <1>5 DEF Placed, Quiet
  <2> QED
    BY <2>1, <2>2 DEF BookedInv, BookedBeforeFilled
<1>6. CASE MultipletRefused
  BY <1>6 DEF MultipletRefused, Proceed
<1>7. CASE ClusteringNext \/ TrackNext \/ FilterNext \/ TimingNext \/ PairNext
  <2>1. CASE MultipletRefused
    BY <1>6, <2>1
  <2>2. CASE ~MultipletRefused
    BY <1>1, <1>7, <2>2, BookedSteps, ModulesBooked
  <2> QED
    BY <2>1, <2>2
<1> QED
  BY <1>1, <1>2, <1>3, <1>4, <1>5, <1>7, NextSteps, OwnSteps DEF Quiet

\* The pixels of an event are what Clustering has to begin with.
LEMMA ClusteringInvStep ==
    ASSUME LoopInv, ClusteringInv, [Next]_vars
    PROVE  ClusteringInv'
<1> SUFFICES ASSUME chain.module = "Clustering", at' = "cluster" PROVE ClusteringInv'
  BY LoopKept DEF ClusteringInv
<1>1. Configured /\ Placed /\ chain' = chain
  BY LoopKept DEF LoopInv
<1>2. CASE UNCHANGED vars
  BY <1>2 DEF vars, chainVars, loopVars, recoVars, clusteringVars, ClusteringInv, IsEvent
<1>3. CASE ClusteringNext
  <2>1. PixelsArrive
    BY <1>3 DEF ClusteringNext, Cluster, ClusteringStep, ClusteringSpatialRun, Clustering4DRun, Proceed
  <2> QED
    BY <1>1, <2>1, ArriveClustering
<1>4. ~Initialize /\ ~NextEvent
  BY DEF Initialize, NextEvent, EndOfEvent, Proceed
<1> QED
  BY <1>1, <1>2, <1>3, <1>4, NextSteps, OwnSteps

\* Whatever the parameters of a module, it fills no histogram that it has not booked.
THEOREM BookedCorrect == Spec => []BookedBeforeFilled
<1>1. Init => BookedInv /\ ClusteringInv
  <2>1. Init => at = "initialize" /\ filled = <<>>
    BY DEF Init, ChainInit
  <2>2. DOMAIN <<>> = {}
    OBVIOUS
  <2> QED
    BY <2>1, <2>2 DEF BookedInv, BookedBeforeFilled, ClusteringInv
<1>2. LoopInv /\ BookedInv /\ ClusteringInv /\ PairInv /\ TimingInv /\ (Tracking4DInv /\ MultipletInv) /\ [Next]_vars
          => BookedInv' /\ ClusteringInv'
  BY BookedInvStep, ClusteringInvStep
<1>3. BookedInv /\ DUTCounts /\ DeadtimeCounts /\ LoopInv => BookedBeforeFilled
  BY BooksOf DEF BookedInv, BookedBeforeFilled, DUTCounts, DeadtimeCounts
<1> QED
  BY <1>1, <1>2, <1>3, NextLoop, PairInvCorrect, TimingInvCorrect, TrackingInvCorrect, DUTCorrect,
     DeadtimeInvCorrect, PTL DEF Spec
=============================================================================
