---------------------------- MODULE LoopTheorems ----------------------------
(***************************************************************************)
(* Facts about numbers, folds, chains of steps, sequences and the loops    *)
(* over them, of which the proofs about the modules of a run make use.     *)
(* The library proves some of them for an operator; here what varies is a  *)
(* set or a function, so that the provers can instantiate it.              *)
(***************************************************************************)
EXTENDS Integers, Sequences, SequencesExt, FiniteSets, FiniteSetsExt, FiniteSetTheorems, SequenceTheorems,
        WellFoundedInduction, TLAPS

\* A set with 0 and the successor of each of its numbers has all numbers.
LEMMA NumberInduction ==
    ASSUME NEW P \in SUBSET Nat, 0 \in P, \A n \in P : n + 1 \in P
    PROVE  P = Nat
<1> DEFINE R == OpToRel(<, Nat)
<1>1. SUFFICES ASSUME Nat \ P # {} PROVE FALSE
  OBVIOUS
<1>2. IsWellFoundedOn(R, Nat)
  BY NatLessThanWellFounded
<1>3. \A x, y \in Nat : x < y => <<x, y>> \in R
  BY DEF OpToRel
<1> HIDE DEF R
<1>4. PICK n \in Nat \ P : \A m \in Nat \ P : ~(<<m, n>> \in R)
  BY <1>1, <1>2, WFMin
<1>5. n - 1 \in Nat /\ n - 1 < n
  BY <1>4
<1>6. n - 1 \in P
  BY <1>3, <1>4, <1>5, Zenon
<1> QED
  BY <1>4, <1>5, <1>6

\* The value of type V that a fold has for every part of D, if x = pick[s] is the
\* last of the elements of s that it comes to, and step[x] is what x does.
IsFold(f, D, pick, step, first) ==
    /\ f[{}] = first
    /\ \A s \in (SUBSET D) \ {{}} : f[s] = step[pick[s]][f[s \ {pick[s]}]]

SmallParts(D, n) == {s \in SUBSET D : Cardinality(s) <= n}

\* A fold over the parts of a finite set exists and is what its definition says.
LEMMA SetFold ==
    ASSUME NEW D, IsFiniteSet(D), NEW V, NEW first \in V,
           NEW step \in [D -> [V -> V]],
           NEW pick \in [(SUBSET D) \ {{}} -> D],
           \A s \in (SUBSET D) \ {{}} : pick[s] \in s
    PROVE  \E f \in [SUBSET D -> V] : IsFold(f, D, pick, step, first)
<1> DEFINE Good(f, n) ==
             /\ f \in [SmallParts(D, n) -> V]
             /\ f[{}] = first
             /\ \A s \in SmallParts(D, n) : s # {} => f[s] = step[pick[s]][f[s \ {pick[s]}]]
           P == {n \in Nat : \E f : Good(f, n)}
<1>1. \A s \in SUBSET D : IsFiniteSet(s) /\ Cardinality(s) \in Nat
  BY FS_Subset, FS_CardinalityType
<1>2. \A s \in SUBSET D : Cardinality(s) = 0 <=> s = {}
  BY <1>1, FS_EmptySet
<1>3. \A s \in SUBSET D : s # {} =>
          /\ s \ {pick[s]} \in SUBSET D
          /\ Cardinality(s \ {pick[s]}) = Cardinality(s) - 1
  BY <1>1, FS_RemoveElement
<1>4. 0 \in P
  <2> DEFINE f == [s \in SmallParts(D, 0) |-> first]
  <2>1. SmallParts(D, 0) = {{}}
    BY <1>1, <1>2 DEF SmallParts
  <2>2. Good(f, 0)
    BY <2>1
  <2> QED
    BY <2>2
<1>5. ASSUME NEW n \in P PROVE n + 1 \in P
  <2>1. PICK f : Good(f, n)
    OBVIOUS
  <2> DEFINE g == [s \in SmallParts(D, n + 1) |->
                     IF s = {} THEN first ELSE step[pick[s]][f[s \ {pick[s]}]]]
  <2>2. \A s \in SmallParts(D, n + 1) : s # {} => s \ {pick[s]} \in SmallParts(D, n)
    BY <1>1, <1>3 DEF SmallParts
  <2>3. {} \in SmallParts(D, n + 1) /\ {} \in SmallParts(D, n)
    BY <1>2 DEF SmallParts
  <2>4. g \in [SmallParts(D, n + 1) -> V]
    <3>1. ASSUME NEW s \in SmallParts(D, n + 1), s # {}
          PROVE  step[pick[s]][f[s \ {pick[s]}]] \in V
      <4>1. f[s \ {pick[s]}] \in V
        BY <2>1, <2>2, <3>1
      <4>2. pick[s] \in D
        BY <3>1 DEF SmallParts
      <4>3. step[pick[s]] \in [V -> V]
        BY <4>2
      <4> QED
        BY <4>1, <4>3
    <3> QED
      BY <3>1
  <2>5. \A s \in SmallParts(D, n) : s \in SmallParts(D, n + 1) /\ g[s] = f[s]
    <3> TAKE s \in SmallParts(D, n)
    <3>1. s \in SmallParts(D, n + 1)
      BY <1>1 DEF SmallParts
    <3> QED
      BY <2>1, <3>1
  <2>6. \A s \in SmallParts(D, n + 1) : s # {} => g[s] = step[pick[s]][g[s \ {pick[s]}]]
    BY <2>2, <2>5
  <2>7. Good(g, n + 1)
    <3> HIDE DEF g
    <3> QED
      BY <2>1, <2>3, <2>4, <2>5, <2>6
  <2>8. n + 1 \in Nat
    OBVIOUS
  <2> QED
    BY <2>7, <2>8
<1>6. Cardinality(D) \in P
  <2>1. P = Nat
    <3> HIDE DEF P
    <3> QED
      BY <1>4, <1>5, NumberInduction DEF P
  <2> QED
    BY <1>1, <2>1
<1>7. SmallParts(D, Cardinality(D)) = SUBSET D
  BY FS_Subset DEF SmallParts
<1> QED
  BY <1>6, <1>7 DEF IsFold

\* Induction over the parts of a finite set, in the order in which pick takes them.
Inductive(P, D, pick) ==
    \A s \in (SUBSET D) \ {{}} : pick[s] \in s /\ (s \ {pick[s]} \in P => s \in P)

\* Induction over the parts of a finite set.
LEMMA SetInduction ==
    ASSUME NEW D, IsFiniteSet(D), NEW P, {} \in P, NEW pick, Inductive(P, D, pick)
    PROVE  \A s \in SUBSET D : s \in P
<1> USE DEF Inductive
<1> DEFINE Q == {n \in Nat : \A s \in SUBSET D : Cardinality(s) = n => s \in P}
<1>1. \A s \in SUBSET D : IsFiniteSet(s) /\ Cardinality(s) \in Nat /\ (Cardinality(s) = 0 => s = {})
  BY FS_Subset, FS_CardinalityType, FS_EmptySet
<1>2. 0 \in Q
  BY <1>1
<1>3. ASSUME NEW n \in Q PROVE n + 1 \in Q
  <2> SUFFICES ASSUME NEW s \in SUBSET D, Cardinality(s) = n + 1 PROVE s \in P
    OBVIOUS
  <2>1. s # {}
    <3>1. n \in Nat
      OBVIOUS
    <3>2. Cardinality({}) = 0
      BY FS_EmptySet
    <3> HIDE DEF Q
    <3> QED
      BY <3>1, <3>2
  <2> DEFINE rest == s \ {pick[s]}
  <2>2. rest \in SUBSET D /\ Cardinality(rest) = n
    <3>1. pick[s] \in s /\ IsFiniteSet(s)
      BY <1>1, <2>1
    <3>2. Cardinality(rest) = Cardinality(s) - 1
      BY <3>1, FS_RemoveElement
    <3>3. n \in Nat
      OBVIOUS
    <3> QED
      BY <3>2, <3>3
  <2>3. rest \in P
    <3> HIDE DEF rest
    <3> QED
      BY <2>2
  <2> QED
    BY <2>1, <2>3
<1>4. Q = Nat
  <2> HIDE DEF Q
  <2> QED
    BY <1>2, <1>3, NumberInduction DEF Q
<1> QED
  BY <1>1, <1>4

\* Induction up to a number.
LEMMA UpTo ==
    ASSUME NEW n \in Nat, NEW P, 0 \in P, \A i \in 1..n : i - 1 \in P => i \in P
    PROVE  \A i \in 0..n : i \in P
<1> DEFINE Q == {i \in Nat : i <= n => i \in P}
<1>1. 0 \in Q
  OBVIOUS
<1>2. ASSUME NEW i \in Q PROVE i + 1 \in Q
  <2>1. i + 1 <= n => i + 1 \in 1..n /\ (i + 1) - 1 = i /\ i <= n
    OBVIOUS
  <2> QED
    BY <2>1
<1>3. Q = Nat
  <2> HIDE DEF Q
  <2> QED
    BY <1>1, <1>2, NumberInduction DEF Q
<1>4. \A i \in 0..n : i \in Q
  BY <1>3
<1> QED
  BY <1>4

\* And from a number down to 1.
LEMMA DownTo ==
    ASSUME NEW n \in Nat, NEW P, n + 1 \in P, \A i \in 1..n : i + 1 \in P => i \in P
    PROVE  \A i \in 1..(n + 1) : i \in P
<1> DEFINE Q == {i \in 0..n : (n + 1) - i \in P}
<1>1. 0 \in Q
  OBVIOUS
<1>2. \A i \in 1..n : i - 1 \in Q => i \in Q
  <2> TAKE i \in 1..n
  <2>1. (n + 1) - i \in 1..n /\ ((n + 1) - i) + 1 = (n + 1) - (i - 1)
    OBVIOUS
  <2> QED
    BY <2>1
<1>3. \A i \in 0..n : i \in Q
  <2> HIDE DEF Q
  <2> QED
    BY <1>1, <1>2, UpTo
<1>4. \A i \in 1..(n + 1) : (n + 1) - i \in 0..n /\ (n + 1) - ((n + 1) - i) = i
  OBVIOUS
<1> QED
  BY <1>3, <1>4

\* A set of numbers up to n has a largest and a smallest one.
LEMMA HasMaxMin ==
    ASSUME NEW n \in Nat
    PROVE  \A s \in SUBSET (1..n) : s # {} =>
               /\ Max(s) \in s /\ \A x \in s : x <= Max(s)
               /\ Min(s) \in s /\ \A x \in s : Min(s) <= x
<1> DEFINE P == {i \in 0..n : \A s \in SUBSET (1..i) : s # {} =>
                    /\ \E x \in s : \A y \in s : x >= y
                    /\ \E x \in s : \A y \in s : x <= y}
<1>1. 0 \in P
  <2>1. ASSUME NEW s \in SUBSET (1..0), s # {} PROVE FALSE
    <3>1. PICK x \in s : TRUE
      BY <2>1
    <3>2. x \in 1..0
      OBVIOUS
    <3> QED
      BY <3>2
  <2>2. 0 \in 0..n
    OBVIOUS
  <2> QED
    BY <2>1, <2>2, Zenon DEF P
<1>2. ASSUME NEW i \in 1..n, i - 1 \in P PROVE i \in P
  <2>0. \A s \in SUBSET (1..(i - 1)) : s # {} =>
            /\ \E x \in s : \A y \in s : x >= y
            /\ \E x \in s : \A y \in s : x <= y
    BY <1>2
  <2> SUFFICES ASSUME NEW s \in SUBSET (1..i), s # {}
               PROVE  /\ \E x \in s : \A y \in s : x >= y
                      /\ \E x \in s : \A y \in s : x <= y
    OBVIOUS
  <2> DEFINE rest == s \ {i}
  <2>1. rest \in SUBSET (1..(i - 1)) /\ \A y \in s : y \in 1..i
    OBVIOUS
  <2>2. CASE rest = {}
    <3>1. s = {i}
      BY <2>2
    <3> QED
      BY <3>1
  <2>3. CASE rest # {}
    <3>1. /\ \E x \in rest : \A y \in rest : x >= y
          /\ \E x \in rest : \A y \in rest : x <= y
      <4> HIDE DEF rest
      <4> QED
        BY <2>0, <2>1, <2>3, Zenon
    <3>2. \E x \in s : \A y \in s : x <= y
      <4>1. PICK x \in rest : \A y \in rest : x <= y
        BY <3>1
      <4>2. x \in s /\ x <= i /\ \A y \in s : y = i \/ y \in rest
        BY <2>1, <4>1
      <4>3. \A y \in s : x <= y
        BY <4>1, <4>2, Zenon
      <4> QED
        BY <4>2, <4>3
    <3>3. \E x \in s : \A y \in s : x >= y
      <4>1. CASE i \in s
        BY <2>1, <4>1
      <4>2. CASE i \notin s
        BY <3>1, <4>2
      <4> QED
        BY <4>1, <4>2
    <3> QED
      BY <3>2, <3>3
  <2> QED
    BY <2>2, <2>3
<1>3. n \in P
  <2> HIDE DEF P
  <2> QED
    BY <1>1, <1>2, UpTo
<1> SUFFICES ASSUME NEW s \in SUBSET (1..n), s # {}
             PROVE  /\ Max(s) \in s /\ \A x \in s : x <= Max(s)
                    /\ Min(s) \in s /\ \A x \in s : Min(s) <= x
  OBVIOUS
<1>4. /\ \E x \in s : \A y \in s : x >= y
      /\ \E x \in s : \A y \in s : x <= y
  BY <1>3
<1>5. Max(s) \in s /\ \A y \in s : Max(s) >= y
  BY <1>4 DEF Max
<1>6. Min(s) \in s /\ \A y \in s : Min(s) <= y
  BY <1>4 DEF Min
<1>7. \A x \in s : x \in Int
  OBVIOUS
<1> QED
  BY <1>5, <1>6, <1>7

\* The ends of a range of numbers.
LEMMA RangeEnds ==
    ASSUME NEW n \in Nat
    PROVE  /\ 1..0 = {} /\ (n + 1)..n = {}
           /\ \A i \in 1..n : /\ 1..i \in SUBSET (1..n) /\ 1..i # {} /\ Max(1..i) = i
                              /\ (1..i) \ {i} = 1..(i - 1)
           /\ \A i \in 1..n : /\ i..n \in SUBSET (1..n) /\ i..n # {} /\ Min(i..n) = i
                              /\ (i..n) \ {i} = (i + 1)..n
<1>1. ASSUME NEW i \in 1..n
      PROVE  /\ 1..i \in SUBSET (1..n) /\ 1..i # {} /\ (1..i) \ {i} = 1..(i - 1)
             /\ i..n \in SUBSET (1..n) /\ i..n # {} /\ (i..n) \ {i} = (i + 1)..n
             /\ i \in 1..i /\ i \in i..n
  OBVIOUS
<1>2. ASSUME NEW i \in 1..n PROVE Max(1..i) = i /\ Min(i..n) = i
  <2>1. Max(1..i) \in 1..i /\ Min(i..n) \in i..n /\ i <= Max(1..i) /\ Min(i..n) <= i
    <3> HIDE DEF Max, Min
    <3> QED
      BY <1>1, HasMaxMin
  <2> QED
    BY <2>1
<1>3. 1..0 = {} /\ (n + 1)..n = {}
  OBVIOUS
<1>4. \A i \in 1..n : /\ 1..i \in SUBSET (1..n) /\ 1..i # {} /\ Max(1..i) = i
                     /\ (1..i) \ {i} = 1..(i - 1)
  BY <1>1, <1>2
<1>5. \A i \in 1..n : /\ i..n \in SUBSET (1..n) /\ i..n # {} /\ Min(i..n) = i
                     /\ (i..n) \ {i} = (i + 1)..n
  BY <1>1, <1>2
<1> QED
  BY <1>3, <1>4, <1>5

\* The values that a fold has after a part of the places of a sequence, from the left and
\* from the right, if step[i] is what the element at place i does to a value of type V.
Bodies(V, n) == [1..n -> [V -> V]]

IsLeftFold(f, V, n, step, first) ==
    /\ f \in [SUBSET (1..n) -> V]
    /\ f[{}] = first
    /\ \A s \in SUBSET (1..n) : s # {} =>
            Max(s) \in 1..n /\ f[s] = step[Max(s)][f[s \ {Max(s)}]]

IsRightFold(f, V, n, step, first) ==
    /\ f \in [SUBSET (1..n) -> V]
    /\ f[{}] = first
    /\ \A s \in SUBSET (1..n) : s # {} =>
            Min(s) \in 1..n /\ f[s] = step[Min(s)][f[s \ {Min(s)}]]

\* A loop from the left is what its definition says,
LEMMA LeftFold ==
    ASSUME NEW n \in Nat, NEW V, NEW first \in V, NEW step \in Bodies(V, n)
    PROVE  \E f : IsLeftFold(f, V, n, step, first)
<1> USE DEF Bodies
<1> DEFINE pick == [s \in (SUBSET (1..n)) \ {{}} |-> Max(s)]
<1>1. \A s \in (SUBSET (1..n)) \ {{}} : Max(s) \in s /\ Max(s) \in 1..n
  BY HasMaxMin
<1>2. /\ pick \in [(SUBSET (1..n)) \ {{}} -> 1..n]
      /\ \A s \in (SUBSET (1..n)) \ {{}} : pick[s] \in s
  BY <1>1
<1>3. IsFiniteSet(1..n)
  BY FS_Interval
<1>4. \E f \in [SUBSET (1..n) -> V] : IsFold(f, 1..n, pick, step, first)
  <2> HIDE DEF pick
  <2> QED
    BY <1>2, <1>3, SetFold
<1> QED
  <2>1. PICK f \in [SUBSET (1..n) -> V] : IsFold(f, 1..n, pick, step, first)
    BY <1>4
  <2>2. \A s \in (SUBSET (1..n)) \ {{}} : pick[s] = Max(s)
    OBVIOUS
  <2> HIDE DEF pick
  <2>3. IsLeftFold(f, V, n, step, first)
    BY <1>1, <2>1, <2>2 DEF IsFold, IsLeftFold
  <2> QED
    BY <2>3

\* and one from the right.
LEMMA RightFold ==
    ASSUME NEW n \in Nat, NEW V, NEW first \in V, NEW step \in Bodies(V, n)
    PROVE  \E f : IsRightFold(f, V, n, step, first)
<1> USE DEF Bodies
<1> DEFINE pick == [s \in (SUBSET (1..n)) \ {{}} |-> Min(s)]
<1>1. \A s \in (SUBSET (1..n)) \ {{}} : Min(s) \in s /\ Min(s) \in 1..n
  BY HasMaxMin
<1>2. /\ pick \in [(SUBSET (1..n)) \ {{}} -> 1..n]
      /\ \A s \in (SUBSET (1..n)) \ {{}} : pick[s] \in s
  BY <1>1
<1>3. IsFiniteSet(1..n)
  BY FS_Interval
<1>4. \E f \in [SUBSET (1..n) -> V] : IsFold(f, 1..n, pick, step, first)
  <2> HIDE DEF pick
  <2> QED
    BY <1>2, <1>3, SetFold
<1> QED
  <2>1. PICK f \in [SUBSET (1..n) -> V] : IsFold(f, 1..n, pick, step, first)
    BY <1>4
  <2>2. \A s \in (SUBSET (1..n)) \ {{}} : pick[s] = Min(s)
    OBVIOUS
  <2> HIDE DEF pick
  <2>3. IsRightFold(f, V, n, step, first)
    BY <1>1, <2>1, <2>2 DEF IsFold, IsRightFold
  <2> QED
    BY <2>3

-----------------------------------------------------------------------------
(* Loops over sequences *)

\* A loop that gives a variable of type V a new value n times, the i-th time
\* by step[i], starting from first.
IsLoop(f, V, n, step, first) ==
    /\ f \in [0..n -> V]
    /\ f[0] = first
    /\ \A i \in 1..n : f[i] = step[i][f[i - 1]]

\* The variable has a value after every number of rounds.
LEMMA Loop ==
    ASSUME NEW V, NEW n \in Nat, NEW step \in Bodies(V, n), NEW first \in V
    PROVE  \E f : IsLoop(f, V, n, step, first)
<1> DEFINE P == {k \in Nat : k <= n => \E f : IsLoop(f, V, k, step, first)}
<1>1. 0 \in P
  <2> DEFINE f == [i \in 0..0 |-> first]
  <2>1. IsLoop(f, V, 0, step, first)
    BY DEF IsLoop
  <2> QED
    BY <2>1
<1>2. ASSUME NEW k \in P PROVE k + 1 \in P
  <2>1. k \in Nat /\ (k <= n => \E f : IsLoop(f, V, k, step, first))
    OBVIOUS
  <2> SUFFICES ASSUME k + 1 <= n PROVE \E f : IsLoop(f, V, k + 1, step, first)
    BY <2>1
  <2>2. k <= n
    BY <2>1
  <2>3. PICK f : IsLoop(f, V, k, step, first)
    BY <2>1, <2>2, Zenon
  <2> DEFINE g == [i \in 0..(k + 1) |-> IF i = k + 1 THEN step[k + 1][f[k]] ELSE f[i]]
  <2>4. step[k + 1][f[k]] \in V
    BY <2>1, <2>3 DEF IsLoop, Bodies
  <2>5. g \in [0..(k + 1) -> V] /\ g[0] = first
    BY <2>1, <2>3, <2>4 DEF IsLoop
  <2>6. \A i \in 1..(k + 1) : g[i] = step[i][g[i - 1]]
    BY <2>1, <2>3 DEF IsLoop
  <2>7. IsLoop(g, V, k + 1, step, first)
    BY <2>5, <2>6 DEF IsLoop
  <2> QED
    BY <2>7
<1>3. P = Nat
  <2> HIDE DEF P
  <2> QED
    BY <1>1, <1>2, NumberInduction DEF P
<1> QED
  BY <1>3

\* A loop that passes over the elements of s that are not in S.
Picked(s, S) ==
    LET kept[i \in 0..Len(s)] ==
            IF i = 0 THEN <<>>
            ELSE IF s[i] \in S THEN Append(kept[i - 1], s[i]) ELSE kept[i - 1]
    IN  kept[Len(s)]

\* What it has after each element.
PickedSteps(s, S) ==
    CHOOSE kept : kept = [i \in 0..Len(s) |->
        IF i = 0 THEN <<>>
        ELSE IF s[i] \in S THEN Append(kept[i - 1], s[i]) ELSE kept[i - 1]]

\* The loop of Picked, with the value it has after each element.
LEMMA PickedLoop ==
    ASSUME NEW T, NEW s \in Seq(T), NEW S
    PROVE  /\ Picked(s, S) = PickedSteps(s, S)[Len(s)]
           /\ PickedSteps(s, S) \in [0..Len(s) -> Seq(T)]
           /\ PickedSteps(s, S)[0] = <<>>
           /\ \A i \in 1..Len(s) : PickedSteps(s, S)[i] =
                  IF s[i] \in S THEN Append(PickedSteps(s, S)[i - 1], s[i])
                                ELSE PickedSteps(s, S)[i - 1]
<1> DEFINE V == Seq(T)
           step == [i \in 1..Len(s) |->
                       [v \in V |-> IF s[i] \in S THEN Append(v, s[i]) ELSE v]]
<1>1. Len(s) \in Nat /\ <<>> \in V /\ \A i \in 1..Len(s) : s[i] \in T
  BY EmptySeq, LenProperties, ElementOfSeq
<1>2. \A v \in V : \A i \in 1..Len(s) : Append(v, s[i]) \in V
  BY <1>1, AppendProperties
<1>3. step \in Bodies(V, Len(s))
  BY <1>2 DEF Bodies
<1> HIDE DEF V
<1>4. PICK f : IsLoop(f, V, Len(s), step, <<>>)
  <2> HIDE DEF step
  <2> QED
    BY <1>1, <1>3, Loop
<1>5. ASSUME NEW i \in 1..Len(s)
      PROVE  f[i] = IF s[i] \in S THEN Append(f[i - 1], s[i]) ELSE f[i - 1]
  <2>1. f[i - 1] \in V
    BY <1>1, <1>4 DEF IsLoop
  <2>2. f[i] = step[i][f[i - 1]]
    BY <1>4 DEF IsLoop
  <2> QED
    BY <2>1, <2>2
<1>6. f = [i \in 0..Len(s) |->
              IF i = 0 THEN <<>>
              ELSE IF s[i] \in S THEN Append(f[i - 1], s[i]) ELSE f[i - 1]]
  <2>1. f = [i \in 0..Len(s) |-> f[i]] /\ f[0] = <<>>
    BY <1>4 DEF IsLoop
  <2>2. ASSUME NEW i \in 0..Len(s)
        PROVE  f[i] = IF i = 0 THEN <<>>
                      ELSE IF s[i] \in S THEN Append(f[i - 1], s[i]) ELSE f[i - 1]
    <3>1. i # 0 => i \in 1..Len(s)
      BY <1>1
    <3> QED
      BY <1>5, <2>1, <3>1, Zenon
  <2> QED
    BY <2>1, <2>2, Zenon
<1> DEFINE k == PickedSteps(s, S)
<1>7. k = [i \in 0..Len(s) |->
              IF i = 0 THEN <<>>
              ELSE IF s[i] \in S THEN Append(k[i - 1], s[i]) ELSE k[i - 1]]
  BY <1>6 DEF PickedSteps
<1> HIDE DEF k
<1>8. k[0] = <<>> /\ \A i \in 1..Len(s) : k[i] =
          IF s[i] \in S THEN Append(k[i - 1], s[i]) ELSE k[i - 1]
  <2>1. 0 \in 0..Len(s) /\ \A i \in 1..Len(s) : i \in 0..Len(s) /\ i # 0
    BY <1>1
  <2> QED
    BY <1>7, <2>1, Zenon
<1> DEFINE P == {n \in Nat : n <= Len(s) => k[n] \in V}
<1>9. P = Nat
  <2>1. 0 \in P
    BY <1>1, <1>8
  <2>2. ASSUME NEW n \in P PROVE n + 1 \in P
    <3> SUFFICES ASSUME n + 1 <= Len(s) PROVE k[n + 1] \in V
      OBVIOUS
    <3>1. n + 1 \in 1..Len(s) /\ k[n] \in V /\ (n + 1) - 1 = n
      BY <1>1
    <3>2. k[n + 1] = IF s[n + 1] \in S THEN Append(k[n], s[n + 1]) ELSE k[n]
      BY <1>8, <3>1
    <3> QED
      BY <1>2, <3>1, <3>2
  <2> HIDE DEF P
  <2> QED
    BY <2>1, <2>2, NumberInduction DEF P
<1>10. k \in [0..Len(s) -> V]
  <2>1. \A n \in 0..Len(s) : n \in P
    BY <1>1, <1>9
  <2>2. k = [i \in 0..Len(s) |-> k[i]]
    BY <1>7, Zenon
  <2> QED
    BY <2>1, <2>2
<1>11. Picked(s, S) = k[Len(s)]
  BY DEF Picked, k, PickedSteps
<1> QED
  BY <1>8, <1>10, <1>11 DEF k, V

\* Picked leaves the elements that are in S, in their order.
LEMMA PickedProperties ==
    ASSUME NEW T, NEW s \in Seq(T), NEW S
    PROVE  /\ Picked(s, S) \in Seq(T)
           /\ \A i \in 1..Len(Picked(s, S)) : \E p \in 1..Len(s) :
                  Picked(s, S)[i] = s[p] /\ s[p] \in S
           /\ \A p \in 1..Len(s) : s[p] \in S =>
                  \E i \in 1..Len(Picked(s, S)) : Picked(s, S)[i] = s[p]
           /\ \A i, j \in 1..Len(Picked(s, S)) : i < j =>
                  \E p, q \in 1..Len(s) :
                      p < q /\ Picked(s, S)[i] = s[p] /\ Picked(s, S)[j] = s[q]
<1> DEFINE k == PickedSteps(s, S)
           From(n) == \A i \in 1..Len(k[n]) : \E p \in 1..n : k[n][i] = s[p] /\ s[p] \in S
           All(n) == \A p \in 1..n : s[p] \in S => \E i \in 1..Len(k[n]) : k[n][i] = s[p]
           Order(n) == \A i, j \in 1..Len(k[n]) : i < j =>
                           \E p, q \in 1..n : p < q /\ k[n][i] = s[p] /\ k[n][j] = s[q]
           P == {n \in Nat : n <= Len(s) => From(n) /\ All(n) /\ Order(n)}
<1>1. /\ Len(s) \in Nat
      /\ k[0] = <<>>
      /\ \A n \in 0..Len(s) : k[n] \in Seq(T)
      /\ \A n \in 1..Len(s) : s[n] \in T
  BY PickedLoop, LenProperties, ElementOfSeq
<1>2. \A n \in 1..Len(s) : k[n] = IF s[n] \in S THEN Append(k[n - 1], s[n]) ELSE k[n - 1]
  BY PickedLoop
<1> HIDE DEF k
<1>3. 0 \in P
  <2>1. Len(k[0]) = 0
    BY <1>1, EmptySeq
  <2> QED
    BY <2>1
<1>4. ASSUME NEW n \in P PROVE n + 1 \in P
  <2>1. n \in Nat /\ (n <= Len(s) => From(n) /\ All(n) /\ Order(n))
    OBVIOUS
  <2> SUFFICES ASSUME n + 1 <= Len(s) PROVE From(n + 1) /\ All(n + 1) /\ Order(n + 1)
    BY <2>1
  <2>2. n \in 0..Len(s) /\ n + 1 \in 1..Len(s) /\ (n + 1) - 1 = n /\ n <= Len(s)
    BY <1>1, <2>1
  <2>3. From(n) /\ All(n) /\ Order(n)
    BY <2>1, <2>2, Zenon
  <2>4. k[n] \in Seq(T) /\ s[n + 1] \in T
    BY <1>1, <2>2
  <2>5. k[n + 1] = IF s[n + 1] \in S THEN Append(k[n], s[n + 1]) ELSE k[n]
    BY <1>2, <2>2
  <2>6. 1..(n + 1) = 1..n \cup {n + 1}
    BY <2>1
  <2>7. CASE s[n + 1] \in S
    <3>1. /\ Len(k[n]) \in Nat
          /\ Len(k[n + 1]) = Len(k[n]) + 1
          /\ k[n + 1][Len(k[n]) + 1] = s[n + 1]
          /\ \A i \in 1..Len(k[n]) : k[n + 1][i] = k[n][i]
      BY <2>4, <2>5, <2>7, AppendProperties, LenProperties
    <3>2. From(n + 1)
      <4> SUFFICES ASSUME NEW i \in 1..Len(k[n + 1])
                   PROVE  \E p \in 1..(n + 1) : k[n + 1][i] = s[p] /\ s[p] \in S
        OBVIOUS
      <4>1. CASE i \in 1..Len(k[n])
        BY <2>3, <2>6, <3>1, <4>1
      <4>2. CASE i = Len(k[n]) + 1
        BY <2>6, <2>7, <3>1, <4>2
      <4> QED
        BY <3>1, <4>1, <4>2
    <3>3. All(n + 1)
      BY <2>2, <2>3, <2>6, <3>1
    <3>4. Order(n + 1)
      <4> SUFFICES ASSUME NEW i \in 1..Len(k[n + 1]), NEW j \in 1..Len(k[n + 1]), i < j
                   PROVE  \E p, q \in 1..(n + 1) :
                              p < q /\ k[n + 1][i] = s[p] /\ k[n + 1][j] = s[q]
        OBVIOUS
      <4>1. i \in 1..Len(k[n]) /\ k[n + 1][i] = k[n][i]
        BY <3>1
      <4>2. CASE j \in 1..Len(k[n])
        BY <2>3, <2>6, <3>1, <4>1, <4>2
      <4>3. CASE j = Len(k[n]) + 1
        <5>1. PICK p \in 1..n : k[n][i] = s[p]
          BY <2>3, <4>1
        <5>2. p < n + 1 /\ p \in 1..(n + 1) /\ n + 1 \in 1..(n + 1)
          BY <2>1, <5>1
        <5> QED
          BY <3>1, <4>1, <4>3, <5>1, <5>2
      <4> QED
        BY <3>1, <4>2, <4>3
    <3> QED
      BY <3>2, <3>3, <3>4
  <2>8. CASE s[n + 1] \notin S
    BY <2>3, <2>5, <2>6, <2>8
  <2> QED
    BY <2>7, <2>8
<1>5. P = Nat
  <2> HIDE DEF P
  <2> QED
    BY <1>3, <1>4, NumberInduction DEF P
<1>6. From(Len(s)) /\ All(Len(s)) /\ Order(Len(s))
  <2>1. Len(s) \in P
    <3> HIDE DEF P
    <3> QED
      BY <1>1, <1>5
  <2>2. Len(s) <= Len(s)
    BY <1>1
  <2> HIDE DEF From, All, Order
  <2> QED
    BY <2>1, <2>2
<1>7. Picked(s, S) = k[Len(s)]
  BY PickedLoop DEF k
<1> QED
  BY <1>1, <1>6, <1>7

\* x is an element of the sequence v.
Has(v, x) == \E i \in 1..Len(v) : v[i] = x

\* A concatenation has the elements of both sequences.
LEMMA ConcatHas ==
    ASSUME NEW T, NEW v \in Seq(T), NEW w \in Seq(T)
    PROVE  v \o w \in Seq(T) /\ \A x : Has(v \o w, x) <=> Has(v, x) \/ Has(w, x)
<1>1. Len(v) \in Nat /\ Len(w) \in Nat
  BY LenProperties
<1>2. /\ v \o w \in Seq(T)
      /\ Len(v \o w) = Len(v) + Len(w)
      /\ \A i \in 1..(Len(v) + Len(w)) :
             (v \o w)[i] = IF i <= Len(v) THEN v[i] ELSE w[i - Len(v)]
  BY ConcatProperties
<1> SUFFICES ASSUME NEW x PROVE Has(v \o w, x) <=> Has(v, x) \/ Has(w, x)
  BY <1>2
<1>3. ASSUME Has(v \o w, x) PROVE Has(v, x) \/ Has(w, x)
  <2>1. PICK i \in 1..(Len(v) + Len(w)) : (v \o w)[i] = x
    BY <1>2, <1>3 DEF Has
  <2>2. CASE i <= Len(v)
    BY <1>1, <1>2, <2>1, <2>2 DEF Has
  <2>3. CASE ~(i <= Len(v))
    <3>1. i - Len(v) \in 1..Len(w)
      BY <1>1, <2>3
    <3> QED
      BY <1>2, <2>1, <2>3, <3>1 DEF Has
  <2> QED
    BY <2>2, <2>3
<1>4. ASSUME Has(v, x) PROVE Has(v \o w, x)
  <2>1. PICK i \in 1..Len(v) : v[i] = x
    BY <1>4 DEF Has
  <2>2. i \in 1..(Len(v) + Len(w)) /\ i <= Len(v)
    BY <1>1
  <2> QED
    BY <1>2, <2>1, <2>2 DEF Has
<1>5. ASSUME Has(w, x) PROVE Has(v \o w, x)
  <2>1. PICK i \in 1..Len(w) : w[i] = x
    BY <1>5 DEF Has
  <2>2. /\ i + Len(v) \in 1..(Len(v) + Len(w))
        /\ ~(i + Len(v) <= Len(v)) /\ (i + Len(v)) - Len(v) = i
    BY <1>1
  <2> QED
    BY <1>2, <2>1, <2>2 DEF Has
<1> QED
  BY <1>3, <1>4, <1>5

\* A sequence of n equal elements.
LEMMA SameElements ==
    ASSUME NEW S, NEW x \in S, NEW n \in Nat
    PROVE  [j \in 1..n |-> x] \in Seq(S) /\ Len([j \in 1..n |-> x]) = n
OBVIOUS

\* Picked has the elements that are in S.
LEMMA PickedHas ==
    ASSUME NEW T, NEW v \in Seq(T), NEW S
    PROVE  /\ Picked(v, S) \in Seq(T)
           /\ \A x : Has(Picked(v, S), x) <=> Has(v, x) /\ x \in S
<1> DEFINE k == Picked(v, S)
<1>1. /\ k \in Seq(T)
      /\ \A i \in 1..Len(k) : \E p \in 1..Len(v) : k[i] = v[p] /\ v[p] \in S
      /\ \A p \in 1..Len(v) : v[p] \in S => \E i \in 1..Len(k) : k[i] = v[p]
  BY PickedProperties
<1> HIDE DEF k
<1>2. \A x : Has(k, x) <=> Has(v, x) /\ x \in S
  BY <1>1 DEF Has
<1> QED
  BY <1>1, <1>2 DEF k

\* The loop of FlattenSeq.
FlattenSteps(seqs) ==
    CHOOSE flatten : flatten = [i \in 1..Len(seqs) |->
        IF i = 1 THEN seqs[i] ELSE flatten[i - 1] \o seqs[i]]

\* The loop of FlattenSeq, with the value it has after each sequence.
LEMMA FlattenLoop ==
    ASSUME NEW T, NEW seqs \in Seq(Seq(T)), Len(seqs) # 0
    PROVE  /\ FlattenSeq(seqs) = FlattenSteps(seqs)[Len(seqs)]
           /\ FlattenSteps(seqs)[1] = seqs[1]
           /\ \A i \in 1..Len(seqs) : i # 1 =>
                  FlattenSteps(seqs)[i] = FlattenSteps(seqs)[i - 1] \o seqs[i]
<1> DEFINE V == Seq(T)
           n == Len(seqs) - 1
           step == [i \in 1..n |-> [v \in V |-> v \o seqs[i + 1]]]
<1>1. Len(seqs) \in Nat /\ n \in Nat /\ 1 \in 1..Len(seqs)
  BY LenProperties
<1>2. \A i \in 1..Len(seqs) : seqs[i] \in V
  BY ElementOfSeq
<1>3. \A i \in 1..n : i + 1 \in 1..Len(seqs)
  BY <1>1
<1>4. \A v, w \in V : v \o w \in V
  BY ConcatProperties
<1> HIDE DEF V
<1>5. step \in Bodies(V, n)
  BY <1>2, <1>3, <1>4 DEF Bodies
<1>6. PICK f : IsLoop(f, V, n, step, seqs[1])
  <2> HIDE DEF step, n
  <2>1. seqs[1] \in V
    BY <1>1, <1>2
  <2> QED
    BY <1>1, <1>5, <2>1, Loop
<1> DEFINE g == [i \in 1..Len(seqs) |-> f[i - 1]]
<1>7. g = [i \in 1..Len(seqs) |-> IF i = 1 THEN seqs[i] ELSE g[i - 1] \o seqs[i]]
  <2>1. ASSUME NEW i \in 1..Len(seqs)
        PROVE  f[i - 1] = IF i = 1 THEN seqs[i] ELSE g[i - 1] \o seqs[i]
    <3>1. CASE i = 1
      BY <1>6, <3>1 DEF IsLoop
    <3>2. CASE i # 1
      <4>1. i - 1 \in 1..n /\ i - 1 \in 1..Len(seqs) /\ (i - 1) - 1 \in 0..n /\ (i - 1) + 1 = i
        BY <1>1, <3>2
      <4>2. f[i - 1] = step[i - 1][f[(i - 1) - 1]] /\ f[(i - 1) - 1] \in V
        BY <1>6, <4>1 DEF IsLoop
      <4>3. g[i - 1] = f[(i - 1) - 1]
        BY <4>1
      <4> QED
        BY <3>2, <4>1, <4>2, <4>3
    <3> QED
      BY <3>1, <3>2
  <2> QED
    BY <2>1, Zenon
<1> DEFINE k == FlattenSteps(seqs)
<1>8. k = [i \in 1..Len(seqs) |-> IF i = 1 THEN seqs[i] ELSE k[i - 1] \o seqs[i]]
  <2> HIDE DEF g
  <2> QED
    BY <1>7 DEF FlattenSteps
<1> HIDE DEF k
<1>9. FlattenSeq(seqs) = k[Len(seqs)]
  BY DEF FlattenSeq, FlattenSteps, k
<1>10. k[1] = seqs[1] /\ \A i \in 1..Len(seqs) : i # 1 => k[i] = k[i - 1] \o seqs[i]
  BY <1>1, <1>8, Zenon
<1> QED
  BY <1>9, <1>10 DEF k

\* FlattenSeq leaves the elements of all the sequences.
LEMMA FlattenProperties ==
    ASSUME NEW T, NEW seqs \in Seq(Seq(T))
    PROVE  /\ FlattenSeq(seqs) \in Seq(T)
           /\ \A x : Has(FlattenSeq(seqs), x) <=> \E i \in 1..Len(seqs) : Has(seqs[i], x)
<1>1. CASE Len(seqs) = 0
  <2>1. FlattenSeq(seqs) = seqs
    BY <1>1 DEF FlattenSeq
  <2>2. seqs = <<>>
    BY <1>1, EmptySeq
  <2> QED
    BY <1>1, <2>1, <2>2, EmptySeq DEF Has
<1>2. CASE Len(seqs) # 0
  <2> DEFINE k == FlattenSteps(seqs)
             Holds(n) == /\ k[n] \in Seq(T)
                         /\ \A x : Has(k[n], x) <=> \E i \in 1..n : Has(seqs[i], x)
             P == {n \in Nat : n + 1 <= Len(seqs) => Holds(n + 1)}
  <2>1. Len(seqs) \in Nat /\ \A n \in 1..Len(seqs) : seqs[n] \in Seq(T)
    BY LenProperties, ElementOfSeq
  <2>2. k[1] = seqs[1] /\ \A n \in 1..Len(seqs) : n # 1 => k[n] = k[n - 1] \o seqs[n]
    BY <1>2, FlattenLoop
  <2> HIDE DEF k
  <2>3. 0 \in P
    <3>1. 1 \in 1..Len(seqs) /\ 0 + 1 = 1 /\ 1..1 = {1}
      BY <1>2, <2>1
    <3>2. Holds(1)
      BY <2>1, <2>2, <3>1
    <3> QED
      BY <3>1, <3>2
  <2>4. ASSUME NEW n \in P PROVE n + 1 \in P
    <3>1. n \in Nat /\ (n + 1 <= Len(seqs) => Holds(n + 1))
      OBVIOUS
    <3> DEFINE m == (n + 1) + 1
    <3> SUFFICES ASSUME m <= Len(seqs) PROVE Holds(m)
      BY <3>1
    <3>2. /\ n + 1 <= Len(seqs) /\ n + 1 \in 1..Len(seqs) /\ m \in 1..Len(seqs)
          /\ m - 1 = n + 1 /\ m # 1 /\ 1..m = 1..(n + 1) \cup {m}
      BY <2>1, <3>1
    <3>3. Holds(n + 1)
      BY <3>1, <3>2, Zenon
    <3>4. k[m] = k[n + 1] \o seqs[m] /\ k[n + 1] \in Seq(T) /\ seqs[m] \in Seq(T)
      BY <2>1, <2>2, <3>2, <3>3
    <3>5. k[m] \in Seq(T) /\ \A x : Has(k[m], x) <=> Has(k[n + 1], x) \/ Has(seqs[m], x)
      <4> HIDE DEF m
      <4> QED
        BY <3>4, ConcatHas
    <3> HIDE DEF m
    <3> QED
      BY <3>2, <3>3, <3>5
  <2>5. P = Nat
    <3> HIDE DEF P
    <3> QED
      BY <2>3, <2>4, NumberInduction DEF P
  <2>6. Len(seqs) - 1 \in Nat /\ (Len(seqs) - 1) + 1 = Len(seqs)
    BY <1>2, <2>1
  <2>7. Holds(Len(seqs))
    <3>1. Len(seqs) - 1 \in P
      BY <2>5, <2>6, Zenon
    <3> QED
      BY <2>6, <3>1
  <2>8. FlattenSeq(seqs) = k[Len(seqs)]
    BY <1>2, FlattenLoop DEF k
  <2> QED
    BY <2>7, <2>8
<1> QED
  BY <1>1, <1>2
=============================================================================
