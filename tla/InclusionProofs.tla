--------------------------- MODULE InclusionProofs ---------------------------
(***************************************************************************)
(* What the check of an inclusion package establishes, for trees of every  *)
(* depth, every number of registries, assets, customers and attestations.  *)
(*                                                                         *)
(* The first half is about the tree: the walk of a path meets the root     *)
(* exactly when it starts from the leaf at its index. The second half is   *)
(* about the steps of a check, where InclusionInv keeps what each step has *)
(* established until the verdict.                                          *)
(***************************************************************************)
EXTENDS Inclusion, TLAPS, NaturalsInduction, WellFoundedInduction, SequenceTheorems

-----------------------------------------------------------------------------
(* Induction on the levels of a tree *)

\* A set of numbers that is not empty has a least one.
LEMMA LeastNumber ==
  ASSUME NEW S, S \subseteq Nat, S # {}
  PROVE  \E n \in S : \A m \in S : n <= m
<1> DEFINE R == {ss \in Nat \X Nat : ss[1] < ss[2]}
<1>1. IsWellFoundedOn(R, Nat)
  BY NatLessThanWellFounded DEF OpToRel
<1> HIDE DEF R
<1>2. PICK n \in S : \A m \in S : ~ (<<m, n>> \in R)
  BY <1>1, WFMin
<1>3. \A m \in S : m < n => <<m, n>> \in R
  BY DEF R
<1>4. \A m \in S : ~(m < n)
  BY <1>2, <1>3
<1>5. \A m \in S : n <= m
  BY <1>4
<1> QED
  BY <1>5

\* A set of numbers that holds 0 and every successor holds all of them.
LEMMA LevelInduction ==
  ASSUME NEW S, 0 \in S, \A n \in Nat : n \in S => n + 1 \in S
  PROVE  \A n \in Nat : n \in S
<1> SUFFICES ASSUME NEW x \in Nat, x \notin S PROVE FALSE
  OBVIOUS
<1> DEFINE T == {n \in Nat : n \notin S}
<1>1. PICK n \in T : \A m \in T : n <= m
  <2>1. T \subseteq Nat /\ T # {}
    OBVIOUS
  <2> HIDE DEF T
  <2> QED
    BY <2>1, LeastNumber
<1>2. n \in Nat /\ n \notin S /\ n # 0
  OBVIOUS
<1>3. n - 1 \in Nat /\ n - 1 \notin T
  BY <1>1, <1>2
<1>4. n - 1 \in S
  BY <1>3
<1> QED
  BY <1>2, <1>3, <1>4

\* A function that is defined by the repetition of one step exists.
Iterates(f, V, c, step) ==
  f \in [Nat -> V] /\ f[0] = c /\ \A n \in Nat : f[n + 1] = step[f[n]]

LEMMA IterationExists ==
  ASSUME NEW V, NEW c \in V, NEW step \in [V -> V]
  PROVE  \E f : Iterates(f, V, c, step)
<1> DEFINE Start(n, g) == /\ g \in [0..n -> V] /\ g[0] = c
                          /\ \A k \in 0..n : k # n => g[k + 1] = step[g[k]]
           S == {n \in Nat : \E g : Start(n, g)}
<1>1. \A n \in Nat : \E g : Start(n, g)
  <2>1. 0 \in S
    <3>1. Start(0, [k \in 0..0 |-> c])
      OBVIOUS
    <3> QED
      BY <3>1
  <2>2. ASSUME NEW n \in Nat, n \in S PROVE n + 1 \in S
    <3>1. PICK g : Start(n, g)
      BY <2>2
    <3> DEFINE h == [k \in 0..(n + 1) |-> IF k = n + 1 THEN step[g[n]] ELSE g[k]]
    <3>2. h \in [0..(n + 1) -> V] /\ h[0] = c
      BY <3>1
    <3>3. ASSUME NEW k \in 0..(n + 1), k # n + 1 PROVE h[k + 1] = step[h[k]]
      BY <3>1, <3>3
    <3>4. Start(n + 1, h)
      BY <3>2, <3>3
    <3> QED
      BY <3>4
  <2> HIDE DEF S
  <2>3. \A n \in Nat : n \in S
    BY <2>1, <2>2, LevelInduction
  <2> QED
    BY <2>3 DEF S
<1>2. ASSUME NEW n \in Nat, NEW m \in Nat, NEW g, NEW h, Start(n, g), Start(m, h)
      PROVE  \A k \in Nat : k <= n /\ k <= m => g[k] = h[k]
  <2> DEFINE T == {k \in Nat : k <= n /\ k <= m => g[k] = h[k]}
  <2>1. 0 \in T
    BY <1>2
  <2>2. ASSUME NEW k \in Nat, k \in T PROVE k + 1 \in T
    BY <1>2, <2>2
  <2> HIDE DEF T
  <2>3. \A k \in Nat : k \in T
    BY <2>1, <2>2, LevelInduction
  <2> QED
    BY <2>3 DEF T
<1> DEFINE g(n) == CHOOSE h : Start(n, h)
           f == [n \in Nat |-> g(n)[n]]
<1>3. \A n \in Nat : Start(n, g(n))
  BY <1>1
<1> HIDE DEF g
<1>4. f \in [Nat -> V] /\ f[0] = c
  BY <1>3
<1>5. ASSUME NEW n \in Nat PROVE f[n + 1] = step[f[n]]
  <2>1. Start(n, g(n)) /\ Start(n + 1, g(n + 1))
    BY <1>3
  <2>2. g(n + 1)[n] = g(n)[n]
    BY <1>2, <2>1
  <2>3. g(n + 1)[n + 1] = step[g(n + 1)[n]]
    BY <2>1
  <2> QED
    BY <2>2, <2>3
<1> QED
  BY <1>4, <1>5 DEF Iterates

-----------------------------------------------------------------------------
(* The tree and the walk of a path *)

\* One level more doubles the leaves.
LEMMA CapacityDoubles ==
  /\ Capacity[0] = 1
  /\ \A d \in Nat : Capacity[d] \in Nat /\ Capacity[d + 1] = 2 * Capacity[d]
<1> DEFINE double == [v \in Nat |-> 2 * v]
           Is(f) == f = [d \in Nat |-> IF d = 0 THEN 1 ELSE 2 * f[d - 1]]
<1>1. \E f : Is(f)
  <2>1. double \in [Nat -> Nat] /\ 1 \in Nat
    OBVIOUS
  <2>2. PICK f : Iterates(f, Nat, 1, double)
    <3>1. 1 \in Nat
      OBVIOUS
    <3> HIDE DEF double
    <3> QED
      BY <2>1, <3>1, IterationExists
  <2> HIDE DEF double
  <2>3. f \in [Nat -> Nat] /\ f[0] = 1 /\ \A n \in Nat : f[n + 1] = double[f[n]]
    BY <2>2 DEF Iterates
  <2>4. \A d \in Nat : f[d] = IF d = 0 THEN 1 ELSE 2 * f[d - 1]
    <3> TAKE d \in Nat
    <3>1. CASE d = 0
      BY <2>3, <3>1
    <3>2. CASE d # 0
      <4>1. d - 1 \in Nat /\ (d - 1) + 1 = d
        BY <3>2
      <4>2. f[d] = double[f[d - 1]]
        BY <2>3, <4>1
      <4> QED
        BY <2>3, <3>2, <4>1, <4>2 DEF double
    <3> QED
      BY <3>1, <3>2
  <2> QED
    BY <2>3, <2>4
<1>2. Capacity = CHOOSE f : Is(f)
  BY DEF Capacity
<1>3. Is(Capacity)
  <2> HIDE DEF Is
  <2> QED
    BY <1>1, <1>2
<1>4. Capacity[0] = 1 /\ \A d \in Nat : Capacity[d + 1] = 2 * Capacity[d]
  BY <1>3
<1> DEFINE S == {d \in Nat : Capacity[d] \in Nat}
<1>5. 0 \in S /\ \A d \in Nat : d \in S => d + 1 \in S
  BY <1>4
<1>6. \A d \in Nat : d \in S
  <2> HIDE DEF S
  <2> QED
    BY <1>5, LevelInduction
<1> QED
  BY <1>4, <1>6

\* A shift by one more bit halves the index.
LEMMA PositionHalves ==
  ASSUME NEW i \in Nat
  PROVE  /\ Position(i)[0] = i
         /\ \A l \in Nat : Position(i)[l] \in Nat /\ Position(i)[l + 1] = Position(i)[l] \div 2
<1> DEFINE halve == [v \in Nat |-> v \div 2]
           Is(f) == f = [l \in Nat |-> IF l = 0 THEN i ELSE f[l - 1] \div 2]
<1>1. \E f : Is(f)
  <2>1. halve \in [Nat -> Nat]
    OBVIOUS
  <2>2. PICK f : Iterates(f, Nat, i, halve)
    <3>1. i \in Nat
      OBVIOUS
    <3> HIDE DEF halve
    <3> QED
      BY <2>1, <3>1, IterationExists
  <2> HIDE DEF halve
  <2>3. f \in [Nat -> Nat] /\ f[0] = i /\ \A n \in Nat : f[n + 1] = halve[f[n]]
    BY <2>2 DEF Iterates
  <2>4. \A l \in Nat : f[l] = IF l = 0 THEN i ELSE f[l - 1] \div 2
    <3> TAKE l \in Nat
    <3>1. CASE l = 0
      BY <2>3, <3>1
    <3>2. CASE l # 0
      <4>1. l - 1 \in Nat /\ (l - 1) + 1 = l
        BY <3>2
      <4>2. f[l] = halve[f[l - 1]]
        BY <2>3, <4>1
      <4> QED
        BY <2>3, <3>2, <4>1, <4>2 DEF halve
    <3> QED
      BY <3>1, <3>2
  <2> QED
    BY <2>3, <2>4
<1>2. Position(i) = CHOOSE f : Is(f)
  BY DEF Position
<1>3. Is(Position(i))
  <2> HIDE DEF Is
  <2> QED
    BY <1>1, <1>2
<1>4. Position(i)[0] = i /\ \A l \in Nat : Position(i)[l + 1] = Position(i)[l] \div 2
  BY <1>3
<1> DEFINE S == {l \in Nat : Position(i)[l] \in Nat}
<1>5. 0 \in S /\ \A l \in Nat : l \in S => l + 1 \in S
  BY <1>4
<1>6. \A l \in Nat : l \in S
  <2> HIDE DEF S
  <2> QED
    BY <1>5, LevelInduction
<1> QED
  BY <1>4, <1>6

\* The node above a leaf is a node of its level, and the last one is the root.
LEMMA PositionInLevel ==
  ASSUME NEW d \in Nat, NEW i \in Index(d)
  PROVE  /\ \A l \in 0..d : Position(i)[l] \in Index(d - l)
         /\ Position(i)[d] = 0
<1>1. i \in Nat
  BY CapacityDoubles DEF Index
<1> DEFINE S == {l \in Nat : l <= d => Position(i)[l] \in Index(d - l)}
<1>2. 0 \in S
  BY <1>1, PositionHalves
<1>3. ASSUME NEW l \in Nat, l \in S PROVE l + 1 \in S
  <2>1. SUFFICES ASSUME l + 1 <= d PROVE Position(i)[l + 1] \in Index(d - (l + 1))
    OBVIOUS
  <2>2. PICK n : n = Position(i)[l]
    OBVIOUS
  <2>3. PICK m : m = d - (l + 1)
    OBVIOUS
  <2>4. m \in Nat /\ m + 1 = d - l
    BY <2>1, <2>3
  <2>5. PICK c : c = Capacity[m]
    OBVIOUS
  <2>6. c \in Nat /\ Capacity[m + 1] = 2 * c
    BY <2>4, <2>5, CapacityDoubles
  <2>7. n \in 0..(2 * c - 1)
    BY <1>3, <2>1, <2>2, <2>4, <2>6 DEF Index
  <2>8. n \div 2 \in 0..(c - 1)
    BY <2>6, <2>7
  <2>9. Position(i)[l + 1] = n \div 2
    BY <1>1, <2>2, PositionHalves
  <2> QED
    BY <2>3, <2>5, <2>8, <2>9 DEF Index
<1>4. \A l \in Nat : l \in S
  <2> HIDE DEF S
  <2> QED
    BY <1>2, <1>3, LevelInduction
<1>5. \A l \in 0..d : Position(i)[l] \in Index(d - l)
  BY <1>4
<1>6. d - d = 0 /\ Index(0) = 0..0
  BY CapacityDoubles DEF Index
<1> QED
  BY <1>5, <1>6

\* The fold of the levels is defined: each level comes from the one below.
LEMMA LevelsFold ==
  ASSUME NEW d \in Nat, NEW leaves
  PROVE  /\ Levels(leaves, d)[0] = leaves
         /\ \A l \in 0..d : l # d => \A j \in Index(d - (l + 1)) :
              Levels(leaves, d)[l + 1][j] =
                nodeHash(Levels(leaves, d)[l][2 * j], Levels(leaves, d)[l][2 * j + 1])
<1> DEFINE Pairs(below, l) ==
             [j \in Index(d - l) |-> nodeHash(below[2 * j], below[2 * j + 1])]
           Fold(n, f) == f = [l \in 0..n |-> IF l = 0 THEN leaves ELSE Pairs(f[l - 1], l)]
           S == {n \in Nat : \E f : Fold(n, f)}
<1>1. 0 \in S
  <2>1. Fold(0, [l \in 0..0 |-> leaves])
    <3> HIDE DEF Pairs
    <3> QED
      OBVIOUS
  <2> QED
    BY <2>1
<1>2. ASSUME NEW n \in Nat, n \in S PROVE n + 1 \in S
  <2> HIDE DEF Pairs
  <2>1. PICK f : Fold(n, f)
    BY <1>2
  <2> DEFINE g == [l \in 0..(n + 1) |-> IF l = n + 1 THEN Pairs(f[n], n + 1) ELSE f[l]]
  <2>2. \A l \in 0..(n + 1) : g[l] = IF l = 0 THEN leaves ELSE Pairs(g[l - 1], l)
    <3> TAKE l \in 0..(n + 1)
    <3>1. CASE l = 0
      BY <2>1, <3>1
    <3>2. CASE l # 0 /\ l # n + 1
      <4>1. l \in 0..n /\ l - 1 \in 0..n
        BY <3>2
      <4>2. g[l] = f[l] /\ g[l - 1] = f[l - 1]
        BY <4>1
      <4>3. f[l] = Pairs(f[l - 1], l)
        BY <2>1, <3>2, <4>1
      <4> QED
        BY <3>2, <4>2, <4>3
    <3>3. CASE l = n + 1
      <4>1. g[n] = f[n] /\ g[n + 1] = Pairs(f[n], n + 1)
        OBVIOUS
      <4>2. l - 1 = n /\ l # 0
        BY <3>3
      <4> QED
        BY <3>3, <4>1, <4>2
    <3> QED
      BY <3>1, <3>2, <3>3
  <2>3. Fold(n + 1, g)
    BY <2>2
  <2>4. \E e : Fold(n + 1, e)
    <3> HIDE DEF Fold, g
    <3> QED
      BY <2>3
  <2> QED
    BY <2>4
<1>3. \E f : Fold(d, f)
  <2>1. \A n \in Nat : n \in S
    <3> HIDE DEF S
    <3> QED
      BY <1>1, <1>2, LevelInduction
  <2> QED
    BY <2>1
<1>4. Levels(leaves, d) = CHOOSE f : Fold(d, f)
  BY DEF Levels
<1>5. Fold(d, Levels(leaves, d))
  <2> HIDE DEF Fold
  <2> QED
    BY <1>3, <1>4
<1>6. PICK f : f = Levels(leaves, d)
  OBVIOUS
<1>7. f[0] = leaves
  <2> HIDE DEF Pairs
  <2> QED
    BY <1>5, <1>6
<1>8. ASSUME NEW l \in 0..d, l # d, NEW j \in Index(d - (l + 1))
      PROVE  f[l + 1][j] = nodeHash(f[l][2 * j], f[l][2 * j + 1])
  <2>1. f[l + 1] = Pairs(f[l], l + 1)
    <3> HIDE DEF Pairs
    <3>1. l + 1 \in 0..d /\ l + 1 # 0 /\ (l + 1) - 1 = l
      BY <1>8
    <3>2. f[l + 1] = Pairs(f[(l + 1) - 1], l + 1)
      BY <1>5, <1>6, <3>1
    <3> QED
      BY <3>1, <3>2
  <2> QED
    BY <1>8, <2>1
<1> QED
  BY <1>6, <1>7, <1>8

\* What a walk does at each level, for a path with one sibling for each.
Walks(up, leaf, i, siblings, d) ==
  /\ up[0] = leaf
  /\ \A l \in 0..d : l # d =>
       up[l + 1] = IF (Position(i)[l] % 2) = 0 THEN nodeHash(up[l], siblings[l + 1])
                   ELSE nodeHash(siblings[l + 1], up[l])

LEMMA WalkExists ==
  ASSUME NEW leaf, NEW i, NEW siblings, NEW d \in Nat, Len(siblings) = d
  PROVE  \E up : Walks(up, leaf, i, siblings, d) /\ rootFromPath(leaf, i, siblings) = up[d]
<1> DEFINE Side(below, l) ==
             IF (Position(i)[l - 1] % 2) = 0 THEN nodeHash(below, siblings[l])
             ELSE nodeHash(siblings[l], below)
           Up(n, f) == f = [l \in 0..n |-> IF l = 0 THEN leaf ELSE Side(f[l - 1], l)]
           S == {n \in Nat : \E f : Up(n, f)}
<1>1. 0 \in S
  <2>1. Up(0, [l \in 0..0 |-> leaf])
    <3> HIDE DEF Side
    <3> QED
      OBVIOUS
  <2> QED
    BY <2>1
<1>2. ASSUME NEW n \in Nat, n \in S PROVE n + 1 \in S
  <2> HIDE DEF Side
  <2>1. PICK f : Up(n, f)
    BY <1>2
  <2> DEFINE g == [l \in 0..(n + 1) |-> IF l = n + 1 THEN Side(f[n], n + 1) ELSE f[l]]
  <2>2. \A l \in 0..(n + 1) : g[l] = IF l = 0 THEN leaf ELSE Side(g[l - 1], l)
    <3> TAKE l \in 0..(n + 1)
    <3>1. CASE l = 0
      BY <2>1, <3>1
    <3>2. CASE l # 0 /\ l # n + 1
      <4>1. l \in 0..n /\ l - 1 \in 0..n
        BY <3>2
      <4>2. g[l] = f[l] /\ g[l - 1] = f[l - 1]
        BY <4>1
      <4>3. f[l] = Side(f[l - 1], l)
        BY <2>1, <3>2, <4>1
      <4> QED
        BY <3>2, <4>2, <4>3
    <3>3. CASE l = n + 1
      <4>1. g[n] = f[n] /\ g[n + 1] = Side(f[n], n + 1)
        OBVIOUS
      <4>2. l - 1 = n /\ l # 0
        BY <3>3
      <4> QED
        BY <3>3, <4>1, <4>2
    <3> QED
      BY <3>1, <3>2, <3>3
  <2>3. Up(n + 1, g)
    BY <2>2
  <2>4. \E e : Up(n + 1, e)
    <3> HIDE DEF Up, g
    <3> QED
      BY <2>3
  <2> QED
    BY <2>4
<1>3. PICK up : up = CHOOSE f : Up(d, f)
  OBVIOUS
<1>4. Up(d, up)
  <2>1. \A n \in Nat : n \in S
    <3> HIDE DEF S
    <3> QED
      BY <1>1, <1>2, LevelInduction
  <2>2. \E f : Up(d, f)
    BY <2>1
  <2> HIDE DEF Up
  <2> QED
    BY <1>3, <2>2
<1>5. rootFromPath(leaf, i, siblings) = up[d]
  BY <1>3 DEF rootFromPath
<1>6. up[0] = leaf
  <2> HIDE DEF Side
  <2> QED
    BY <1>4
<1>7. ASSUME NEW l \in 0..d, l # d
      PROVE  up[l + 1] = IF (Position(i)[l] % 2) = 0 THEN nodeHash(up[l], siblings[l + 1])
                         ELSE nodeHash(siblings[l + 1], up[l])
  <2>1. l + 1 \in 0..d /\ l + 1 # 0 /\ (l + 1) - 1 = l
    BY <1>7
  <2>2. up[l + 1] = Side(up[(l + 1) - 1], l + 1)
    <3> HIDE DEF Side
    <3> QED
      BY <1>4, <2>1
  <2> QED
    BY <2>1, <2>2
<1> QED
  BY <1>5, <1>6, <1>7 DEF Walks

\* Halving a position leaves the pair that its node is folded from.
LEMMA PairOfPosition ==
  ASSUME NEW d \in Nat, NEW i \in Index(d), NEW l \in 0..d, l # d
  PROVE  /\ Position(i)[l] \in Nat
         /\ Position(i)[l + 1] \in Index(d - (l + 1))
         /\ (Position(i)[l] % 2) = 0 => Position(i)[l] = 2 * Position(i)[l + 1]
         /\ (Position(i)[l] % 2) # 0 => Position(i)[l] = 2 * Position(i)[l + 1] + 1
<1>1. i \in Nat
  BY CapacityDoubles DEF Index
<1>2. Position(i)[l + 1] = Position(i)[l] \div 2 /\ Position(i)[l] \in Nat
  BY <1>1, PositionHalves
<1>3. l + 1 \in 0..d
  OBVIOUS
<1>4. Position(i)[l + 1] \in Index(d - (l + 1))
  BY <1>3, PositionInLevel
<1> QED
  BY <1>2, <1>4

\* The sibling of a node: the other one of the pair.
OwnPath(leaves, d, i, siblings) ==
  \A l \in 0..d : l # d =>
    siblings[l + 1] = Levels(leaves, d)[l][IF (Position(i)[l] % 2) = 0
                                           THEN Position(i)[l] + 1 ELSE Position(i)[l] - 1]

\* tree.ts: two hashes of one depth fix the leaf and the path. A walk from the
\* index that ends in the root of a tree starts from the leaf of this tree at
\* the index and takes the siblings of this leaf, so no other leaf and no other
\* path from this index ends in the root.
THEOREM WalkBindsTheLeaf ==
  ASSUME NEW d \in Nat, NEW i \in Index(d), NEW leaves, NEW leaf, NEW siblings,
         Len(siblings) = d, rootFromPath(leaf, i, siblings) = treeRoot(leaves, d)
  PROVE  leaf = leaves[i] /\ OwnPath(leaves, d, i, siblings)
<1>1. PICK up : Walks(up, leaf, i, siblings, d) /\ rootFromPath(leaf, i, siblings) = up[d]
  BY WalkExists
<1>2. PICK level : level = Levels(leaves, d)
  OBVIOUS
<1>3. PICK at : at = Position(i)
  OBVIOUS
<1> DEFINE Meets(l) == up[l] = level[l][at[l]]
           S == {n \in Nat : n <= d => Meets(d - n)}
<1>4. 0 \in S
  <2>1. d - 0 = d /\ at[d] = 0
    BY <1>3, PositionInLevel
  <2>2. up[d] = level[d][0]
    BY <1>1, <1>2 DEF treeRoot
  <2> QED
    BY <2>1, <2>2
<1>5. ASSUME NEW n \in Nat, n \in S PROVE n + 1 \in S
  <2>1. SUFFICES ASSUME n + 1 <= d PROVE Meets(d - (n + 1))
    OBVIOUS
  <2>2. PICK l : l = d - (n + 1)
    OBVIOUS
  <2>3. l \in 0..d /\ l # d /\ l + 1 = d - n
    BY <2>1, <2>2
  <2>4. PICK j : j = at[l + 1]
    OBVIOUS
  <2>5. level[l + 1][j] = nodeHash(level[l][2 * j], level[l][2 * j + 1])
    <3>1. j \in Index(d - (l + 1))
      BY <1>3, <2>3, <2>4, PairOfPosition
    <3> QED
      BY <1>2, <2>3, <3>1, LevelsFold
  <2>6. up[l + 1] = level[l + 1][j]
    BY <1>5, <2>1, <2>3, <2>4
  <2>7. CASE (at[l] % 2) = 0
    <3>1. up[l + 1] = nodeHash(up[l], siblings[l + 1])
      BY <1>1, <1>3, <2>3, <2>7 DEF Walks
    <3>2. up[l] = level[l][2 * j]
      BY <2>5, <2>6, <3>1 DEF nodeHash
    <3>3. at[l] = 2 * j
      BY <1>3, <2>3, <2>4, <2>7, PairOfPosition
    <3> QED
      BY <2>2, <3>2, <3>3
  <2>8. CASE (at[l] % 2) # 0
    <3>1. up[l + 1] = nodeHash(siblings[l + 1], up[l])
      BY <1>1, <1>3, <2>3, <2>8 DEF Walks
    <3>2. up[l] = level[l][2 * j + 1]
      BY <2>5, <2>6, <3>1 DEF nodeHash
    <3>3. at[l] = 2 * j + 1
      BY <1>3, <2>3, <2>4, <2>8, PairOfPosition
    <3> QED
      BY <2>2, <3>2, <3>3
  <2> QED
    BY <2>7, <2>8
<1>6. \A n \in Nat : n \in S
  <2> HIDE DEF S
  <2> QED
    BY <1>4, <1>5, LevelInduction
<1>7. ASSUME NEW l \in 0..d PROVE Meets(l)
  <2>1. PICK n \in Nat : n = d - l /\ n <= d /\ d - n = l
    OBVIOUS
  <2>2. Meets(d - n)
    <3> HIDE DEF Meets
    <3> QED
      BY <1>6, <2>1
  <2> QED
    BY <2>1, <2>2
<1>8. up[0] = leaf /\ level[0] = leaves /\ at[0] = i
  <2>1. i \in Nat
    BY CapacityDoubles DEF Index
  <2>2. up[0] = leaf
    BY <1>1 DEF Walks
  <2>3. level[0] = leaves
    BY <1>2, LevelsFold
  <2>4. at[0] = i
    BY <1>3, <2>1, PositionHalves
  <2> QED
    BY <2>2, <2>3, <2>4
<1>9. ASSUME NEW l \in 0..d, l # d
      PROVE  siblings[l + 1] = level[l][IF (at[l] % 2) = 0 THEN at[l] + 1 ELSE at[l] - 1]
  <2>1. PICK j : j = at[l + 1]
    OBVIOUS
  <2>2. l + 1 \in 0..d /\ j \in Index(d - (l + 1)) /\ at[l] \in Nat
    BY <1>3, <1>9, <2>1, PairOfPosition
  <2>3. up[l + 1] = nodeHash(level[l][2 * j], level[l][2 * j + 1])
    <3>1. up[l + 1] = level[l + 1][j]
      BY <1>7, <2>1, <2>2
    <3>2. level[l + 1][j] = nodeHash(level[l][2 * j], level[l][2 * j + 1])
      BY <1>2, <1>9, <2>2, LevelsFold
    <3> QED
      BY <3>1, <3>2
  <2>4. j \in Nat
    BY <2>2, CapacityDoubles DEF Index
  <2>5. CASE (at[l] % 2) = 0
    <3>1. up[l + 1] = nodeHash(up[l], siblings[l + 1])
      BY <1>1, <1>3, <1>9, <2>5 DEF Walks
    <3>2. siblings[l + 1] = level[l][2 * j + 1]
      BY <2>3, <3>1 DEF nodeHash
    <3>3. at[l] = 2 * j
      BY <1>3, <1>9, <2>1, <2>5, PairOfPosition
    <3> QED
      BY <2>5, <3>2, <3>3
  <2>6. CASE (at[l] % 2) # 0
    <3>1. up[l + 1] = nodeHash(siblings[l + 1], up[l])
      BY <1>1, <1>3, <1>9, <2>6 DEF Walks
    <3>2. siblings[l + 1] = level[l][2 * j]
      BY <2>3, <3>1 DEF nodeHash
    <3>3. at[l] - 1 = 2 * j
      <4>1. at[l] = 2 * j + 1
        BY <1>3, <1>9, <2>1, <2>6, PairOfPosition
      <4> QED
        BY <2>4, <4>1
    <3> QED
      BY <2>6, <3>2, <3>3
  <2> QED
    BY <2>5, <2>6
<1>10. OwnPath(leaves, d, i, siblings)
  BY <1>2, <1>3, <1>9 DEF OwnPath
<1>11. Meets(0)
  BY <1>7
<1> QED
  BY <1>8, <1>10, <1>11

\* tree.ts: the path of a leaf in its own tree ends in the root of this tree.
THEOREM OwnPathMeetsTheRoot ==
  ASSUME NEW d \in Nat, NEW i \in Index(d), NEW leaves, NEW siblings,
         Len(siblings) = d, OwnPath(leaves, d, i, siblings)
  PROVE  rootFromPath(leaves[i], i, siblings) = treeRoot(leaves, d)
<1>1. PICK leaf : leaf = leaves[i]
  OBVIOUS
<1>2. PICK up : Walks(up, leaf, i, siblings, d) /\ rootFromPath(leaf, i, siblings) = up[d]
  BY WalkExists
<1>3. PICK level : level = Levels(leaves, d)
  OBVIOUS
<1>4. PICK at : at = Position(i)
  OBVIOUS
<1> DEFINE Meets(l) == up[l] = level[l][at[l]]
           S == {n \in Nat : n <= d => Meets(n)}
<1>5. 0 \in S
  <2>1. i \in Nat
    BY CapacityDoubles DEF Index
  <2>2. up[0] = leaf
    BY <1>2 DEF Walks
  <2>3. level[0] = leaves
    BY <1>3, LevelsFold
  <2>4. at[0] = i
    BY <1>4, <2>1, PositionHalves
  <2> QED
    BY <1>1, <2>2, <2>3, <2>4
<1>6. ASSUME NEW l \in Nat, l \in S PROVE l + 1 \in S
  <2>1. SUFFICES ASSUME l + 1 <= d PROVE Meets(l + 1)
    OBVIOUS
  <2>2. l \in 0..d /\ l # d
    BY <2>1
  <2>3. PICK j : j = at[l + 1]
    OBVIOUS
  <2>4. j \in Index(d - (l + 1)) /\ j \in Nat
    <3>1. j \in Index(d - (l + 1))
      BY <1>4, <2>2, <2>3, PairOfPosition
    <3> QED
      BY <3>1, <2>2, CapacityDoubles DEF Index
  <2>5. level[l + 1][j] = nodeHash(level[l][2 * j], level[l][2 * j + 1])
    BY <1>3, <2>2, <2>4, LevelsFold
  <2>6. up[l] = level[l][at[l]]
    BY <1>6, <2>1
  <2>7. siblings[l + 1] = level[l][IF (at[l] % 2) = 0 THEN at[l] + 1 ELSE at[l] - 1]
    BY <1>3, <1>4, <2>2 DEF OwnPath
  <2>8. CASE (at[l] % 2) = 0
    <3>1. up[l + 1] = nodeHash(up[l], siblings[l + 1])
      BY <1>2, <1>4, <2>2, <2>8 DEF Walks
    <3>2. at[l] = 2 * j
      BY <1>4, <2>2, <2>3, <2>8, PairOfPosition
    <3> QED
      BY <2>3, <2>5, <2>6, <2>7, <2>8, <3>1, <3>2
  <2>9. CASE (at[l] % 2) # 0
    <3>1. up[l + 1] = nodeHash(siblings[l + 1], up[l])
      BY <1>2, <1>4, <2>2, <2>9 DEF Walks
    <3>2. at[l] = 2 * j + 1
      BY <1>4, <2>2, <2>3, <2>9, PairOfPosition
    <3>3. siblings[l + 1] = level[l][2 * j]
      <4>1. at[l] - 1 = 2 * j
        BY <2>4, <3>2
      <4> QED
        BY <2>7, <2>9, <4>1
    <3> QED
      BY <2>3, <2>5, <2>6, <3>1, <3>2, <3>3
  <2> QED
    BY <2>8, <2>9
<1>7. \A n \in Nat : n \in S
  <2> HIDE DEF S
  <2> QED
    BY <1>5, <1>6, LevelInduction
<1>8. Meets(d)
  <2> HIDE DEF Meets
  <2> QED
    BY <1>7
<1>9. at[d] = 0
  BY <1>4, PositionInLevel
<1> QED
  BY <1>1, <1>2, <1>3, <1>8, <1>9 DEF treeRoot

-----------------------------------------------------------------------------
(* The invariant of a check *)

\* What the registry and the verifier keep: an asset holds attestations of
\* trees that stand for its own context, and none on another network.
RecordsOf(r, a) ==
  {Attestation(a, s, t, Depth[r]) : s \in 0..MaxLedger, t \in Layouts(Depth[r])}

HistoryOK ==
  /\ ledger \in 0..MaxLedger /\ recorded \subseteq Registry
  /\ DOMAIN attested = Registry
  /\ \A r \in Registry :
       /\ DOMAIN attested[r] = Asset
       /\ \A a \in Asset : /\ attested[r][a] \in Seq(RecordsOf(r, a))
                           /\ r \in Elsewhere => attested[r][a] = <<>>

\* A file that passes the checks before the first call, for a verifier who has
\* recorded the registries R.
Accepts(p, identity, file, R) ==
  /\ parsePackage(p) = "ok" /\ checkOwnIdentifier(p, identity) = "ok"
  /\ file \notin {"contradictory", "unreadable"}
  /\ p.registry \in R /\ p.network = OnOther(p.registry)
  /\ PathFits(p, Depth[p.registry])

\* A file that agrees with the attestation that it names, in the histories h.
Matches(p, h) ==
  /\ p.registry \in Registry \ Elsewhere /\ p.asset \in Asset
  /\ p.attestationId \in DOMAIN h[p.registry][p.asset]
  /\ Compared(p, h[p.registry][p.asset][p.attestationId]) = "ok"

\* A file as its issuer wrote it.
Genuine(p, h) ==
  /\ parsePackage(p) = "ok" /\ p.format = "identity" /\ p.id \in Customer
  /\ p.network = OnOther(p.registry) /\ PathFits(p, Depth[p.registry])
  /\ Matches(p, h)

CheckFields == {"pc", "pkg", "identity", "file", "change", "known", "again", "lost",
                "verdict", "lapsed", "confirmed"}

\* A check that has compared the file with its attestation once.
Compares(c) == c.pc = "ledger" \/ (c.pc = "done" /\ c.verdict = "included") \/ c.again

CheckOK(c, h, R) ==
  /\ DOMAIN c = CheckFields /\ c.again \in BOOLEAN
  /\ c.pc \in {"idle", "read", "ledger", "done"} /\ c.verdict \in Verdicts
  /\ c.known \subseteq R
  /\ c.pc # "idle" => c.pkg.asset \in Asset \cup {NoAddress} /\ c.pkg.attestationId \in Nat
  /\ c.pc = "read" \/ Compares(c) => Accepts(c.pkg, c.identity, c.file, c.known)
  /\ Compares(c) => Matches(c.pkg, h)
  /\ c.pc # "idle" /\ c.change = "none" => Genuine(c.pkg, h)
  /\ c.pc = "done" /\ c.verdict = "included" => (c.confirmed <=> c.identity # Padding)

\* What a customer is answered, for the state c of a check.
AnswerOK(c) ==
  /\ (c.pc = "done" /\ c.change = "none" /\ c.file = "ok" /\ c.pkg.registry \in c.known
        /\ c.identity \in {Padding, c.pkg.id}) => c.verdict \in {"included", "none"}
  /\ c.pc = "done" /\ c.again => c.verdict \in {"included", "none"}
  /\ c.pc = "done" /\ c.verdict = "none" => c.lost \/ c.file = "unreadable"

InclusionInv == HistoryOK /\ CheckOK(check, attested, recorded) /\ AnswerOK(check)

-----------------------------------------------------------------------------
(* The verdict before the first call *)

\* The first of the four checks that stops decides; all four pass when the
\* file is accepted.
LEMMA LocalVerdictFacts ==
  ASSUME NEW p, NEW identity, NEW file
  PROVE  /\ LocalVerdict(p, identity, file) \in (Verdicts \ {"included"}) \cup {"ok"}
         /\ LocalVerdict(p, identity, file) = "ok" <=> Accepts(p, identity, file, recorded)
         /\ LocalVerdict(p, identity, file) = "none" => file = "unreadable"
<1>1. PICK s1, s2, s3, s4 :
        /\ s1 = parsePackage(p) /\ s2 = checkOwnIdentifier(p, identity)
        /\ s3 = findGeneration(p, file) /\ s4 = checkDepth(p)
  OBVIOUS
<1>2. s1 \in (Verdicts \cup {"ok"}) \ {"none", "included"}
  BY <1>1 DEF parsePackage, Verdicts
<1>3. s2 \in (Verdicts \cup {"ok"}) \ {"none", "included"}
  BY <1>1 DEF checkOwnIdentifier, Verdicts
<1>4. /\ s3 \in (Verdicts \ {"included"}) \cup {"ok"}
      /\ s3 = "none" => file = "unreadable"
      /\ s3 = "ok" <=> /\ file \notin {"contradictory", "unreadable"}
                       /\ p.registry \in recorded /\ p.network = OnOther(p.registry)
  BY <1>1 DEF findGeneration, Verdicts
<1>5. s4 \in (Verdicts \cup {"ok"}) \ {"none", "included"} /\ (s4 = "ok" <=> PathFits(p, Depth[p.registry]))
  BY <1>1 DEF checkDepth, Verdicts
<1> DEFINE steps == <<s1, s2, s3, s4>>
           stops == {n \in DOMAIN steps : steps[n] # "ok"}
<1>6. LocalVerdict(p, identity, file) =
        IF stops = {} THEN "ok" ELSE steps[CHOOSE n \in stops : \A m \in stops : n <= m]
  BY <1>1 DEF LocalVerdict
<1>7. Accepts(p, identity, file, recorded) <=> s1 = "ok" /\ s2 = "ok" /\ s3 = "ok" /\ s4 = "ok"
  BY <1>1, <1>4, <1>5 DEF Accepts
<1>8. /\ DOMAIN steps = {1, 2, 3, 4}
      /\ steps[1] = s1 /\ steps[2] = s2 /\ steps[3] = s3 /\ steps[4] = s4
  OBVIOUS
<1>9. stops = {} <=> s1 = "ok" /\ s2 = "ok" /\ s3 = "ok" /\ s4 = "ok"
  BY <1>8
<1>10. CASE stops = {}
  BY <1>6, <1>7, <1>9, <1>10
<1>11. CASE stops # {}
  <2>1. PICK first : first = CHOOSE n \in stops : \A m \in stops : n <= m
    OBVIOUS
  <2>2. first \in stops
    <3>1. stops \subseteq Nat
      BY <1>8
    <3> HIDE DEF stops
    <3>2. \E k \in stops : \A m \in stops : k <= m
      BY <1>11, <3>1, LeastNumber
    <3> QED
      BY <2>1, <3>2
  <2>3. LocalVerdict(p, identity, file) = steps[first]
    BY <1>6, <1>11, <2>1
  <2>4. steps[first] # "ok" /\ first \in {1, 2, 3, 4}
    BY <1>8, <2>2
  <2>5. steps[first] \in {s1, s2, s3, s4}
    BY <1>8, <2>4
  <2> HIDE DEF steps, stops
  <2>6. steps[first] \in Verdicts \ {"included"}
    BY <1>2, <1>3, <1>4, <1>5, <2>4, <2>5
  <2>7. steps[first] = "none" => file = "unreadable"
    BY <1>2, <1>3, <1>4, <1>5, <2>4, <2>5
  <2> QED
    BY <1>7, <1>9, <1>11, <2>3, <2>4, <2>6, <2>7
<1> QED
  BY <1>10, <1>11

-----------------------------------------------------------------------------
(* The stored records and the files that are written from them *)

\* The depth of a registry.
LEMMA DepthOfRegistry ==
  ASSUME NEW r \in Registry
  PROVE  Depth[r] \in Nat /\ Depth[r] # 0
BY InclusionAssumption DEF Registry

LEMMA AttestationFields ==
  ASSUME NEW a, NEW s, NEW t, NEW d, NEW att, att = Attestation(a, s, t, d)
  PROVE  /\ att.snapshotLedger = s /\ att.contextHash = contextHash(a, s) /\ att.layout = t
         /\ att.finalRoot = treeRoot([i \in Index(d) |-> Leaf(contextHash(a, s), t[i], i)], d)
BY DEF Attestation

\* Every stored record is the attestation of a tree of its registry, which is
\* of the configured network.
LEMMA RecordFacts ==
  ASSUME HistoryOK, NEW r \in Registry, NEW a \in Asset, NEW k \in DOMAIN attested[r][a]
  PROVE  /\ r \notin Elsewhere /\ k \in Nat /\ k # 0 /\ k <= Len(attested[r][a])
         /\ \E s \in 0..MaxLedger, t \in Layouts(Depth[r]) :
              attested[r][a][k] = Attestation(a, s, t, Depth[r])
<1>1. PICK h : h = attested[r][a]
  OBVIOUS
<1>2. h \in Seq(RecordsOf(r, a)) /\ (r \in Elsewhere => h = <<>>) /\ k \in DOMAIN h
  BY <1>1 DEF HistoryOK
<1>3. k \in 1..Len(h) /\ h[k] \in RecordsOf(r, a) /\ h # <<>>
  BY <1>2
<1>4. \E s \in 0..MaxLedger, t \in Layouts(Depth[r]) : h[k] = Attestation(a, s, t, Depth[r])
  BY <1>3 DEF RecordsOf
<1> QED
  BY <1>1, <1>2, <1>3, <1>4

PackageFields == {"format", "network", "registry", "asset", "snapshotLedger", "contextHash",
                  "attestationId", "leafIndex", "id", "commitment", "balance", "salt", "siblings"}

\* The generator writes a file that its own attestation confirms.
LEMMA WrittenIsGenuine ==
  ASSUME HistoryOK, NEW r \in Registry, NEW a \in Asset, NEW k \in DOMAIN attested[r][a],
         NEW i \in Index(Depth[r]), attested[r][a][k].layout[i] # Padding,
         NEW p, p = Package(r, a, k, i)
  PROVE  /\ Genuine(p, attested) /\ DOMAIN p = PackageFields
         /\ p.registry = r /\ p.asset = a /\ p.attestationId = k
<1>1. PICK d : d = Depth[r]
  OBVIOUS
<1>2. d \in Nat /\ i \in Index(d) /\ i \in Nat
  <2>1. d \in Nat /\ i \in Index(d)
    BY <1>1, DepthOfRegistry
  <2> QED
    BY <2>1, CapacityDoubles DEF Index
<1>3. PICK s \in 0..MaxLedger, t \in Layouts(d) : attested[r][a][k] = Attestation(a, s, t, d)
  BY <1>1, RecordFacts
<1>4. PICK att : att = attested[r][a][k]
  OBVIOUS
<1>5. PICK ctx : ctx = contextHash(a, s)
  OBVIOUS
<1>6. PICK leaves : leaves = [j \in Index(d) |-> Leaf(ctx, t[j], j)]
  OBVIOUS
<1>7. /\ att.snapshotLedger = s /\ att.contextHash = ctx /\ att.layout = t
      /\ att.finalRoot = treeRoot(leaves, d)
  BY <1>3, <1>4, <1>5, <1>6, AttestationFields
<1>8. PICK level : level = Levels(leaves, d)
  OBVIOUS
<1>9. level = Levels([j \in Index(d) |-> Leaf(att.contextHash, att.layout[j], j)], d)
  BY <1>6, <1>7, <1>8
<1>10. PICK b : b = BalanceOf(t[i])
  OBVIOUS
<1>11. PICK salt : salt = deriveSalt(ctx, i)
  OBVIOUS
<1>12. PICK path : path = [l \in 1..d |->
         level[l - 1][IF (Position(i)[l - 1] % 2) = 0
                      THEN Position(i)[l - 1] + 1 ELSE Position(i)[l - 1] - 1]]
  OBVIOUS
<1>13. p = [format |-> "identity", network |-> OnOther(r), registry |-> r, asset |-> a,
            snapshotLedger |-> s, contextHash |-> ctx,
            attestationId |-> k, leafIndex |-> i, id |-> t[i],
            commitment |-> balanceCommitment(b, salt), balance |-> b, salt |-> salt,
            siblings |-> path]
  <2>1. p = [format |-> "identity", network |-> OnOther(r), registry |-> r, asset |-> a,
             snapshotLedger |-> att.snapshotLedger, contextHash |-> att.contextHash,
             attestationId |-> k, leafIndex |-> i, id |-> att.layout[i],
             commitment |-> balanceCommitment(BalanceOf(att.layout[i]), deriveSalt(att.contextHash, i)),
             balance |-> BalanceOf(att.layout[i]), salt |-> deriveSalt(att.contextHash, i),
             siblings |-> [l \in 1..d |->
               Levels([j \in Index(d) |-> Leaf(att.contextHash, att.layout[j], j)], d)[l - 1][
                 IF (Position(i)[l - 1] % 2) = 0
                 THEN Position(i)[l - 1] + 1 ELSE Position(i)[l - 1] - 1]]]
    BY <1>1, <1>4, Zenon DEF Package
  <2> QED
    BY <2>1, <1>7, <1>9, <1>10, <1>11, <1>12
<1>14. /\ p.format = "identity" /\ p.registry = r /\ p.asset = a
       /\ p.snapshotLedger = s /\ p.contextHash = ctx /\ p.attestationId = k /\ p.leafIndex = i
       /\ p.id = t[i] /\ p.commitment = balanceCommitment(b, salt) /\ p.balance = b
       /\ p.salt = salt /\ p.siblings = path
  BY <1>13
<1>15. p.network = OnOther(r)
  BY <1>13
<1>16. DOMAIN p = PackageFields
  BY <1>13 DEF PackageFields
<1>17. Len(path) = d
  BY <1>2, <1>12
<1>18. PathFits(p, Depth[p.registry])
  BY <1>1, <1>2, <1>14, <1>17 DEF PathFits
<1>19. p.id \in Customer /\ p.id # Padding
  BY <1>2, <1>4, <1>7, <1>14, InclusionAssumption DEF Layouts
<1>20. OwnPath(leaves, d, i, path)
  <2>1. ASSUME NEW l \in 0..d, l # d
        PROVE  path[l + 1] = level[l][IF (Position(i)[l] % 2) = 0
                                      THEN Position(i)[l] + 1 ELSE Position(i)[l] - 1]
    <3>1. l + 1 \in 1..d /\ (l + 1) - 1 = l
      BY <1>2, <2>1
    <3> QED
      BY <1>12, <3>1
  <2> QED
    BY <1>8, <2>1 DEF OwnPath
<1>21. rootFromPath(leaves[i], i, path) = treeRoot(leaves, d)
  BY <1>2, <1>17, <1>20, OwnPathMeetsTheRoot
<1>22. leaves[i] = leafHash(p.id, p.commitment)
  BY <1>2, <1>6, <1>10, <1>11, <1>14 DEF Leaf
<1>23. Compared(p, att) = "ok"
  <2>1. rootFromPath(leafHash(p.id, p.commitment), p.leafIndex, p.siblings) = att.finalRoot
    BY <1>7, <1>14, <1>21, <1>22
  <2>2. att.snapshotLedger = p.snapshotLedger /\ att.contextHash = p.contextHash
    BY <1>7, <1>14
  <2> QED
    BY <1>18, <2>1, <2>2 DEF Compared
<1>24. Matches(p, attested)
  BY <1>4, <1>14, <1>23, RecordFacts DEF Matches
<1>25. parsePackage(p) = "ok"
  <2>1. k # 0
    BY RecordFacts
  <2> QED
    BY <1>14, <1>19, <2>1 DEF parsePackage
<1> QED
  BY <1>14, <1>15, <1>16, <1>18, <1>19, <1>24, <1>25 DEF Genuine

\* The one field that differs leaves an asset and an attestation to look up.
LEMMA AlteredFields ==
  ASSUME NEW p, DOMAIN p = PackageFields, p.asset \in Asset, p.attestationId \in Nat,
         NEW c \in Change, NEW q \in Altered(p, c)
  PROVE  /\ q.asset \in Asset \cup {NoAddress} /\ q.attestationId \in Nat
         /\ c = "none" => q = p
<1>1. c \in Changes
  BY InclusionAssumption
<1>2. CASE c = "none"
  BY <1>2 DEF Altered
<1>3. CASE c = "format"
  BY <1>3 DEF Altered, PackageFields
<1>4. CASE c = "network"
  BY <1>4 DEF Altered, PackageFields
<1>5. CASE c = "registry"
  <2>1. PICK r \in Registry : q = Moved(p, r)
    BY <1>5 DEF Altered
  <2>2. q.asset = p.asset /\ q.attestationId = p.attestationId
    BY <2>1 DEF Moved, PackageFields
  <2> QED
    BY <1>5, <2>2
<1>6. CASE c = "asset"
  BY <1>6 DEF Altered, PackageFields
<1>7. CASE c = "snapshot"
  BY <1>7 DEF Altered, PackageFields
<1>8. CASE c = "context"
  BY <1>8 DEF Altered, PackageFields
<1>9. CASE c = "attestation"
  <2>1. 0..(MaxAttestations + 1) \subseteq Nat
    BY InclusionAssumption
  <2> QED
    BY <1>9, <2>1 DEF Altered, PackageFields
<1>10. CASE c = "index"
  BY <1>10 DEF Altered, PackageFields
<1>11. CASE c = "id"
  BY <1>11 DEF Altered, PackageFields
<1>12. CASE c = "balance"
  <2>1. \/ q = [p EXCEPT !.balance = 2]
        \/ q = [p EXCEPT !.balance = 2, !.commitment = balanceCommitment(2, p.salt)]
    BY <1>12 DEF Altered
  <2>2. q.asset = p.asset /\ q.attestationId = p.attestationId
    BY <2>1 DEF PackageFields
  <2> QED
    BY <1>12, <2>2
<1>13. CASE c = "siblings"
  BY <1>13 DEF Altered, PackageFields
<1> QED
  BY <1>1, <1>2, <1>3, <1>4, <1>5, <1>6, <1>7, <1>8, <1>9, <1>10, <1>11, <1>12, <1>13 DEF Changes

-----------------------------------------------------------------------------
(* The steps *)

\* The start of a check, and of a check that runs another time.
LEMMA LocalOutcome ==
  ASSUME HistoryOK, NEW c, NEW v, v = LocalVerdict(c.pkg, c.identity, c.file),
         DOMAIN c = CheckFields, c.again \in BOOLEAN, c.known = recorded,
         c.pc = (IF v = "ok" THEN "read" ELSE "done"),
         c.verdict = (IF v = "ok" THEN "none" ELSE v),
         c.pkg.asset \in Asset \cup {NoAddress}, c.pkg.attestationId \in Nat,
         c.again => v = "ok" /\ Matches(c.pkg, attested),
         c.change = "none" => Genuine(c.pkg, attested)
  PROVE  CheckOK(c, attested, recorded) /\ AnswerOK(c)
<1>1. /\ v \in (Verdicts \ {"included"}) \cup {"ok"}
      /\ v = "ok" <=> Accepts(c.pkg, c.identity, c.file, recorded)
      /\ v = "none" => c.file = "unreadable"
  BY LocalVerdictFacts
<1>2. "ok" \notin Verdicts /\ "none" \in Verdicts
  BY DEF Verdicts
<1>3. Compares(c) <=> c.again
  BY <1>1, <1>2 DEF Compares
<1>4. CheckOK(c, attested, recorded)
  <2>1. c.pc = "read" \/ Compares(c) => Accepts(c.pkg, c.identity, c.file, c.known)
    BY <1>1, <1>3
  <2>2. Compares(c) => Matches(c.pkg, attested)
    BY <1>3
  <2>3. c.pc \in {"idle", "read", "ledger", "done"} /\ c.verdict \in Verdicts
    BY <1>1, <1>2
  <2>4. ~(c.pc = "done" /\ c.verdict = "included")
    BY <1>1, <1>2
  <2> QED
    BY <2>1, <2>2, <2>3, <2>4 DEF CheckOK
<1>5. ASSUME c.change = "none", c.file = "ok", c.pkg.registry \in c.known,
             c.identity \in {Padding, c.pkg.id}
      PROVE  v = "ok"
  <2>1. Genuine(c.pkg, attested)
    BY <1>5
  <2>2. checkOwnIdentifier(c.pkg, c.identity) = "ok"
    <3>1. c.pkg.format = "identity" /\ c.pkg.id \in Customer
      BY <2>1 DEF Genuine
    <3>2. c.pkg.id # NoAddress
      BY <3>1, InclusionAssumption
    <3>3. CASE c.identity = Padding
      BY <3>3 DEF checkOwnIdentifier
    <3>4. CASE c.identity # Padding
      <4>1. c.identity = c.pkg.id
        BY <1>5, <3>4
      <4> QED
        BY <3>1, <3>2, <3>4, <4>1 DEF checkOwnIdentifier
    <3> QED
      BY <3>3, <3>4
  <2>3. Accepts(c.pkg, c.identity, c.file, recorded)
    BY <1>5, <2>1, <2>2 DEF Genuine, Accepts
  <2> QED
    BY <1>1, <2>3
<1>6. AnswerOK(c)
  BY <1>1, <1>5 DEF AnswerOK
<1> QED
  BY <1>4, <1>6

LEMMA BeginKeeps ==
  ASSUME InclusionInv, NEW r \in Registry, NEW a \in Asset, NEW k \in DOMAIN attested[r][a],
         NEW i \in Index(Depth[r]), NEW change \in Change, attested[r][a][k].layout[i] # Padding,
         NEW p \in Altered(Package(r, a, k, i), change), NEW identity, NEW file,
         Begin(p, change, identity, file)
  PROVE  CheckOK(check', attested, recorded) /\ AnswerOK(check')
<1>1. PICK w : w = Package(r, a, k, i)
  OBVIOUS
<1>2. HistoryOK
  BY DEF InclusionInv
<1>3. /\ Genuine(w, attested) /\ DOMAIN w = PackageFields /\ w.asset = a /\ w.attestationId = k
  BY <1>1, <1>2, WrittenIsGenuine
<1>4. k \in Nat
  BY <1>2, RecordFacts
<1>5. /\ p.asset \in Asset \cup {NoAddress} /\ p.attestationId \in Nat
      /\ change = "none" => p = w
  BY <1>1, <1>3, <1>4, AlteredFields
<1>6. PICK v : v = LocalVerdict(p, identity, file)
  OBVIOUS
<1>7. PICK c : c = check'
  OBVIOUS
<1>8. c = [NoCheck EXCEPT !.pkg = p, !.change = change, !.identity = identity, !.file = file,
                          !.known = recorded,
                          !.pc = IF v = "ok" THEN "read" ELSE "done",
                          !.verdict = IF v = "ok" THEN "none" ELSE v]
  BY <1>6, <1>7 DEF Begin
<1>9. /\ DOMAIN c = CheckFields /\ c.known = recorded
      /\ c.pkg = p /\ c.identity = identity /\ c.file = file /\ c.change = change
      /\ c.pc = (IF v = "ok" THEN "read" ELSE "done")
      /\ c.verdict = (IF v = "ok" THEN "none" ELSE v)
  BY <1>8 DEF NoCheck, CheckFields
<1>10. c.again = FALSE
  BY <1>8 DEF NoCheck
<1>11. CheckOK(c, attested, recorded) /\ AnswerOK(c)
  BY <1>2, <1>3, <1>5, <1>6, <1>9, <1>10, LocalOutcome
<1> QED
  BY <1>7, <1>11

LEMMA CheckAgainKeeps ==
  ASSUME InclusionInv, CheckAgain
  PROVE  CheckOK(check', attested, recorded) /\ AnswerOK(check')
<1>1. PICK v : v = LocalVerdict(check.pkg, check.identity, check.file)
  OBVIOUS
<1>2. HistoryOK /\ CheckOK(check, attested, recorded)
  BY DEF InclusionInv
<1>3. check.pc = "done" /\ Compares(check)
  BY DEF CheckAgain, Compares
<1>4. /\ Accepts(check.pkg, check.identity, check.file, check.known)
      /\ Matches(check.pkg, attested) /\ check.known \subseteq recorded
      /\ check.pkg.asset \in Asset \cup {NoAddress} /\ check.pkg.attestationId \in Nat
      /\ check.change = "none" => Genuine(check.pkg, attested)
      /\ DOMAIN check = CheckFields
  BY <1>2, <1>3 DEF CheckOK
<1>5. v = "ok"
  <2>1. Accepts(check.pkg, check.identity, check.file, recorded)
    BY <1>4 DEF Accepts
  <2> QED
    BY <1>1, <2>1, LocalVerdictFacts
<1>6. PICK c : c = check'
  OBVIOUS
<1>7. c = [check EXCEPT !.again = TRUE, !.known = recorded,
                        !.pc = IF v = "ok" THEN "read" ELSE "done",
                        !.verdict = IF v = "ok" THEN "none" ELSE v]
  BY <1>1, <1>6 DEF CheckAgain
<1>8. /\ DOMAIN c = CheckFields /\ c.known = recorded
      /\ c.pkg = check.pkg /\ c.identity = check.identity /\ c.file = check.file
      /\ c.change = check.change
      /\ c.pc = (IF v = "ok" THEN "read" ELSE "done")
      /\ c.verdict = (IF v = "ok" THEN "none" ELSE v)
  BY <1>4, <1>7 DEF CheckFields
<1>9. c.again = TRUE
  BY <1>4, <1>7 DEF CheckFields
<1>10. CheckOK(c, attested, recorded) /\ AnswerOK(c)
  BY <1>1, <1>2, <1>4, <1>5, <1>8, <1>9, LocalOutcome
<1> QED
  BY <1>6, <1>10

\* What a comparison can say of a file that fits the tree.
LEMMA ComparedVerdicts ==
  ASSUME NEW p, NEW att, PathFits(p, Depth[p.registry])
  PROVE  Compared(p, att) \in {"ok", "no-matching-attestation", "root-mismatch"}
BY DEF Compared

\* A file that an earlier comparison passed, or that is genuine, passes again.
LEMMA ReadKeeps ==
  ASSUME InclusionInv, Read
  PROVE  CheckOK(check', attested, recorded) /\ AnswerOK(check')
<1>1. PICK p : p = check.pkg
  OBVIOUS
<1>2. HistoryOK /\ CheckOK(check, attested, recorded)
  BY DEF InclusionInv
<1>3. /\ check.pc = "read" /\ p.registry \notin Elsewhere /\ p.asset # NoAddress
      /\ DOMAIN check = CheckFields
  BY <1>1, <1>2 DEF Read, CheckOK
<1>4. /\ Accepts(p, check.identity, check.file, check.known)
      /\ p.asset \in Asset /\ p.attestationId \in Nat
      /\ check.known \subseteq recorded /\ recorded \subseteq Registry
      /\ check.again \in BOOLEAN
      /\ check.again => Matches(p, attested)
      /\ check.change = "none" => Matches(p, attested)
  BY <1>1, <1>2, <1>3 DEF CheckOK, Compares, Genuine, HistoryOK
<1>5. p.registry \in Registry \ Elsewhere /\ PathFits(p, Depth[p.registry]) /\ p.attestationId # 0
  BY <1>3, <1>4 DEF Accepts, parsePackage
<1>6. PICK h : h = attested[p.registry][p.asset]
  OBVIOUS
<1>7. Len(h) \in Nat /\ DOMAIN h = 1..Len(h)
  <2>1. h \in Seq(RecordsOf(p.registry, p.asset))
    BY <1>2, <1>4, <1>5, <1>6 DEF HistoryOK
  <2> QED
    BY <2>1
<1>8. PICK v : v = IF p.attestationId > Len(h) THEN "no-matching-attestation"
                   ELSE Compared(p, h[p.attestationId])
  OBVIOUS
<1>9. v \in {"ok", "no-matching-attestation", "root-mismatch"}
  BY <1>5, <1>8, ComparedVerdicts
<1>10. v = "ok" <=> Matches(p, attested)
  <2>1. p.attestationId \in DOMAIN h <=> ~(p.attestationId > Len(h))
    BY <1>4, <1>5, <1>7
  <2> QED
    BY <1>4, <1>5, <1>6, <1>8, <2>1 DEF Matches
<1>11. PICK c : c = check'
  OBVIOUS
<1>12. c = [check EXCEPT !.pc = IF v = "ok" THEN "ledger" ELSE "done",
                         !.verdict = IF v = "ok" THEN "none" ELSE v]
  <2>1. Stored(check.pkg) = h[p.attestationId]
    BY <1>1, <1>6 DEF Stored
  <2>2. CASE p.attestationId > Len(h)
    <3>1. check' = [check EXCEPT !.pc = "done", !.verdict = "no-matching-attestation"]
      BY <1>1, <1>6, <2>2 DEF Read
    <3>2. v = "no-matching-attestation"
      BY <1>8, <2>2
    <3> QED
      BY <1>11, <3>1, <3>2
  <2>3. CASE ~(p.attestationId > Len(h))
    BY <1>1, <1>6, <1>8, <1>11, <2>1, <2>3 DEF Read
  <2> QED
    BY <2>2, <2>3
<1>13. /\ DOMAIN c = CheckFields /\ c.known = check.known /\ c.again = check.again
       /\ c.pkg = p /\ c.identity = check.identity /\ c.file = check.file
       /\ c.change = check.change
       /\ c.pc = (IF v = "ok" THEN "ledger" ELSE "done")
       /\ c.verdict = (IF v = "ok" THEN "none" ELSE v)
  BY <1>1, <1>3, <1>12 DEF CheckFields
<1>14. Compares(c) => Matches(p, attested)
  BY <1>4, <1>9, <1>10, <1>13 DEF Compares
<1>15. c.change = "none" => Genuine(p, attested)
  BY <1>1, <1>2, <1>3, <1>13 DEF CheckOK
<1>16. CheckOK(c, attested, recorded)
  <2>1. c.verdict \in Verdicts /\ c.verdict # "included"
    BY <1>9, <1>13 DEF Verdicts
  <2>2. c.pc \in {"idle", "read", "ledger", "done"}
    BY <1>13
  <2>3. c.pc = "read" \/ Compares(c) => Accepts(c.pkg, c.identity, c.file, c.known)
    BY <1>4, <1>13
  <2>4. c.known \subseteq recorded /\ c.again \in BOOLEAN
    BY <1>4, <1>13
  <2> QED
    BY <1>4, <1>13, <1>14, <1>15, <2>1, <2>2, <2>3, <2>4 DEF CheckOK
<1>17. AnswerOK(c)
  BY <1>4, <1>9, <1>10, <1>13 DEF AnswerOK
<1> QED
  BY <1>11, <1>16, <1>17

LEMMA ReadLedgerKeeps ==
  ASSUME InclusionInv, ReadLedger
  PROVE  CheckOK(check', attested, recorded) /\ AnswerOK(check')
<1>1. CheckOK(check, attested, recorded)
  BY DEF InclusionInv
<1>2. check.pc = "ledger" /\ Compares(check) /\ DOMAIN check = CheckFields
  BY <1>1 DEF ReadLedger, CheckOK, Compares
<1>3. PICK c : c = check'
  OBVIOUS
<1>4. PICK lapsed, confirmed :
        /\ c = [check EXCEPT !.pc = "done", !.verdict = "included",
                             !.lapsed = lapsed, !.confirmed = confirmed]
        /\ confirmed <=> check.identity # Padding
  <2>1. c = [check EXCEPT !.pc = "done", !.verdict = "included",
                          !.lapsed = ledger > check.pkg.snapshotLedger + Window,
                          !.confirmed = check.identity # Padding]
    BY <1>3 DEF ReadLedger
  <2>2. PICK lapsed : lapsed = (ledger > check.pkg.snapshotLedger + Window)
    OBVIOUS
  <2>3. PICK confirmed : confirmed = (check.identity # Padding)
    OBVIOUS
  <2>4. c = [check EXCEPT !.pc = "done", !.verdict = "included",
                          !.lapsed = lapsed, !.confirmed = confirmed]
    BY <2>1, <2>2, <2>3, Zenon
  <2> QED
    BY <2>3, <2>4, Zenon
<1>5. /\ DOMAIN c = CheckFields /\ c.known = check.known /\ c.again = check.again
      /\ c.pkg = check.pkg /\ c.identity = check.identity /\ c.file = check.file
      /\ c.change = check.change /\ c.pc = "done" /\ c.verdict = "included"
      /\ c.confirmed = confirmed
  BY <1>2, <1>4 DEF CheckFields
<1>6. c.confirmed <=> c.identity # Padding
  BY <1>4, <1>5
<1>7. CheckOK(c, attested, recorded)
  <2>1. "included" \in Verdicts
    BY DEF Verdicts
  <2> QED
    BY <1>1, <1>2, <1>5, <1>6, <2>1 DEF CheckOK
<1>8. AnswerOK(c)
  BY <1>5 DEF AnswerOK
<1> QED
  BY <1>3, <1>7, <1>8

LEMMA LostKeeps ==
  ASSUME InclusionInv, Lost
  PROVE  CheckOK(check', attested, recorded) /\ AnswerOK(check')
<1>1. CheckOK(check, attested, recorded)
  BY DEF InclusionInv
<1>2. check.pc \in {"read", "ledger"} /\ DOMAIN check = CheckFields
  BY <1>1 DEF Lost, CheckOK
<1>3. PICK c : c = check'
  OBVIOUS
<1>4. c = [check EXCEPT !.pc = "done", !.verdict = "none", !.lost = TRUE]
  BY <1>3 DEF Lost
<1>5. /\ DOMAIN c = CheckFields /\ c.known = check.known /\ c.again = check.again
      /\ c.pkg = check.pkg /\ c.identity = check.identity /\ c.file = check.file
      /\ c.change = check.change /\ c.pc = "done" /\ c.verdict = "none"
  BY <1>2, <1>4 DEF CheckFields
<1>6. c.lost
  BY <1>2, <1>4 DEF CheckFields
<1>7. Compares(c) => Compares(check)
  BY <1>5 DEF Compares
<1>8. CheckOK(c, attested, recorded)
  <2>1. "none" \in Verdicts
    BY DEF Verdicts
  <2> QED
    BY <1>1, <1>2, <1>5, <1>7, <2>1 DEF CheckOK
<1>9. AnswerOK(c)
  BY <1>5, <1>6 DEF AnswerOK
<1> QED
  BY <1>3, <1>8, <1>9

\* An idle check says nothing.
LEMMA IdleOK ==
  ASSUME NEW h, NEW R
  PROVE  CheckOK(NoCheck, h, R) /\ AnswerOK(NoCheck)
<1>1. /\ DOMAIN NoCheck = CheckFields /\ NoCheck.pc = "idle" /\ NoCheck.again = FALSE
      /\ NoCheck.verdict = "none" /\ NoCheck.known = {}
  BY DEF NoCheck, CheckFields
<1>2. "none" \in Verdicts
  BY DEF Verdicts
<1> QED
  BY <1>1, <1>2 DEF CheckOK, Compares, AnswerOK

\* A registry keeps every attestation at its place.
Extends(h, g) ==
  \A r \in Registry, a \in Asset : \A k \in DOMAIN h[r][a] :
    k \in DOMAIN g[r][a] /\ g[r][a][k] = h[r][a][k]

\* What a check has established outlives later attestations and generations.
LEMMA CheckOutlives ==
  ASSUME NEW c, NEW h, NEW g, NEW R, NEW Q, CheckOK(c, h, R), Extends(h, g), R \subseteq Q
  PROVE  CheckOK(c, g, Q)
<1>1. ASSUME NEW p, Matches(p, h) PROVE Matches(p, g)
  <2>1. PICK r \in Registry, a \in Asset : r = p.registry /\ a = p.asset
    BY <1>1 DEF Matches
  <2>2. PICK k : k = p.attestationId
    OBVIOUS
  <2>3. k \in DOMAIN h[r][a] /\ Compared(p, h[r][a][k]) = "ok" /\ r \notin Elsewhere
    BY <1>1, <2>1, <2>2 DEF Matches
  <2>4. k \in DOMAIN g[r][a] /\ g[r][a][k] = h[r][a][k]
    BY <2>3 DEF Extends
  <2>5. Compared(p, g[r][a][k]) = "ok"
    BY <2>3, <2>4
  <2> QED
    BY <2>1, <2>2, <2>3, <2>4, <2>5 DEF Matches
<1>2. Genuine(c.pkg, h) => Genuine(c.pkg, g)
  BY <1>1 DEF Genuine
<1>3. Matches(c.pkg, h) => Matches(c.pkg, g)
  BY <1>1
<1> QED
  BY <1>2, <1>3 DEF CheckOK

LEMMA AttestExtends ==
  ASSUME HistoryOK, NEW r \in Registry \ Elsewhere, NEW a \in Asset,
         NEW t \in Layouts(Depth[r]), Attest(r, a, t)
  PROVE  HistoryOK' /\ Extends(attested, attested')
<1>1. PICK rec : rec = Attestation(a, ledger, t, Depth[r])
  OBVIOUS
<1>2. rec \in RecordsOf(r, a)
  BY <1>1 DEF HistoryOK, RecordsOf
<1>3. PICK h : h = attested
  OBVIOUS
<1>4. PICK g : g = attested'
  OBVIOUS
<1>5. /\ ledger' = ledger /\ recorded' = recorded
      /\ g = [h EXCEPT ![r][a] = Append(@, rec)]
  BY <1>1, <1>3, <1>4 DEF Attest
<1>6. /\ DOMAIN h = Registry
      /\ \A q \in Registry : DOMAIN h[q] = Asset
      /\ \A q \in Registry, b \in Asset :
           h[q][b] \in Seq(RecordsOf(q, b)) /\ (q \in Elsewhere => h[q][b] = <<>>)
  BY <1>3 DEF HistoryOK
<1>7. /\ DOMAIN g = Registry
      /\ \A q \in Registry : DOMAIN g[q] = Asset
  BY <1>5, <1>6
<1>8. ASSUME NEW q \in Registry, NEW b \in Asset
      PROVE  g[q][b] = IF q = r /\ b = a THEN Append(h[r][a], rec) ELSE h[q][b]
  BY <1>5, <1>6
<1>9. ASSUME NEW q \in Registry, NEW b \in Asset
      PROVE  /\ g[q][b] \in Seq(RecordsOf(q, b)) /\ (q \in Elsewhere => g[q][b] = <<>>)
             /\ \A k \in DOMAIN h[q][b] : k \in DOMAIN g[q][b] /\ g[q][b][k] = h[q][b][k]
  <2>1. CASE q = r /\ b = a
    <3>1. g[q][b] = Append(h[q][b], rec)
      BY <1>8, <2>1
    <3>2. h[q][b] \in Seq(RecordsOf(q, b)) /\ rec \in RecordsOf(q, b) /\ q \notin Elsewhere
      BY <1>2, <1>6, <2>1
    <3>3. PICK s : s = h[q][b]
      OBVIOUS
    <3>4. PICK S : S = RecordsOf(q, b)
      OBVIOUS
    <3>5. s \in Seq(S) /\ rec \in S
      BY <3>2, <3>3, <3>4
    <3>6. Append(s, rec) \in Seq(S)
      BY <3>5
    <3>7. \A k \in DOMAIN s : k \in DOMAIN Append(s, rec) /\ Append(s, rec)[k] = s[k]
      BY <3>5
    <3> QED
      BY <3>1, <3>2, <3>3, <3>4, <3>6, <3>7
  <2>2. CASE ~(q = r /\ b = a)
    <3>1. g[q][b] = h[q][b]
      BY <1>8, <2>2
    <3> QED
      BY <1>6, <3>1
  <2> QED
    BY <2>1, <2>2
<1>10. Extends(h, g)
  BY <1>9 DEF Extends
<1>11. HistoryOK'
  <2>1. ledger' \in 0..MaxLedger /\ recorded' \subseteq Registry
    BY <1>5 DEF HistoryOK
  <2> QED
    BY <1>4, <1>7, <1>9, <2>1 DEF HistoryOK
<1> QED
  BY <1>3, <1>4, <1>10, <1>11

LEMMA InitInclusion == Init => InclusionInv
<1> SUFFICES ASSUME Init PROVE InclusionInv
  OBVIOUS
<1>1. HistoryOK
  <2>1. ledger \in 0..MaxLedger
    <3>1. MaxLedger \in Nat /\ MaxLedger # 0
      BY InclusionAssumption
    <3> QED
      BY <3>1 DEF Init
  <2>2. recorded \subseteq Registry
    <3>1. 1 \in DOMAIN Depth
      BY InclusionAssumption
    <3> QED
      BY <3>1 DEF Init, Registry
  <2>3. attested = [r \in Registry |-> [a \in Asset |-> <<>>]]
    BY DEF Init
  <2>4. \A r \in Registry : DOMAIN attested[r] = Asset /\ \A a \in Asset : attested[r][a] = <<>>
    BY <2>3
  <2>5. \A r, a : <<>> \in Seq(RecordsOf(r, a))
    OBVIOUS
  <2> QED
    BY <2>1, <2>2, <2>3, <2>4, <2>5 DEF HistoryOK
<1>2. CheckOK(check, attested, recorded) /\ AnswerOK(check)
  <2>1. check = NoCheck
    BY DEF Init
  <2> QED
    BY <2>1, IdleOK
<1> QED
  BY <1>1, <1>2 DEF InclusionInv

\* Every step keeps what the checks have established.
LEMMA StepInclusion ==
  ASSUME InclusionInv, [Next]_vars
  PROVE  InclusionInv'
<1>1. HistoryOK /\ CheckOK(check, attested, recorded) /\ AnswerOK(check)
  BY DEF InclusionInv
<1>2. Extends(attested, attested)
  BY DEF Extends
<1>3. ASSUME check' = check, HistoryOK', Extends(attested, attested'), recorded \subseteq recorded'
      PROVE  InclusionInv'
  <2>1. CheckOK(check, attested', recorded')
    BY <1>1, <1>3, CheckOutlives
  <2> QED
    BY <1>1, <1>3, <2>1 DEF InclusionInv
<1>4. ASSUME UNCHANGED <<ledger, attested, recorded>>,
             CheckOK(check', attested, recorded), AnswerOK(check')
      PROVE  InclusionInv'
  <2>1. HistoryOK'
    BY <1>1, <1>4 DEF HistoryOK
  <2> QED
    BY <1>4, <2>1 DEF InclusionInv
<1>5. CASE UNCHANGED vars
  <2>1. UNCHANGED <<ledger, attested, recorded, check>>
    BY <1>5 DEF vars
  <2> QED
    BY <1>1, <1>4, <2>1
<1>6. CASE Close
  <2>1. /\ ledger' \in 0..MaxLedger
        /\ UNCHANGED <<attested, recorded, check>>
    BY <1>1, <1>6, InclusionAssumption DEF Close, HistoryOK
  <2>2. HistoryOK'
    BY <1>1, <2>1 DEF HistoryOK
  <2> QED
    BY <1>2, <1>3, <2>1, <2>2
<1>7. ASSUME NEW r \in Registry \ Elsewhere, NEW a \in Asset, NEW t \in Layouts(Depth[r]),
             Attest(r, a, t)
      PROVE  InclusionInv'
  <2>1. HistoryOK' /\ Extends(attested, attested')
    BY <1>1, <1>7, AttestExtends
  <2>2. recorded' = recorded /\ check' = check
    BY <1>7 DEF Attest
  <2> QED
    BY <1>3, <2>1, <2>2
<1>8. ASSUME NEW r \in Registry, Record(r) PROVE InclusionInv'
  <2>1. /\ recorded' = recorded \cup {r}
        /\ UNCHANGED <<ledger, attested, check>>
    BY <1>8 DEF Record
  <2>2. HistoryOK'
    BY <1>1, <2>1 DEF HistoryOK
  <2> QED
    BY <1>2, <1>3, <2>1, <2>2
<1>9. ASSUME NEW r \in Registry, NEW a \in Asset, NEW k \in DOMAIN attested[r][a],
             NEW i \in Index(Depth[r]), NEW c \in Change, attested[r][a][k].layout[i] # Padding,
             NEW p \in Altered(Package(r, a, k, i), c), NEW identity, NEW file,
             Begin(p, c, identity, file)
      PROVE  InclusionInv'
  <2>1. UNCHANGED <<ledger, attested, recorded>>
    BY <1>9 DEF Begin
  <2> QED
    BY <1>4, <1>9, <2>1, BeginKeeps
<1>10. CASE Read
  BY <1>4, <1>10, ReadKeeps DEF Read
<1>11. CASE ReadLedger
  BY <1>4, <1>11, ReadLedgerKeeps DEF ReadLedger
<1>12. CASE Lost
  BY <1>4, <1>12, LostKeeps DEF Lost
<1>13. CASE End
  <2>1. check' = NoCheck /\ UNCHANGED <<ledger, attested, recorded>>
    BY <1>13 DEF End
  <2> QED
    BY <1>4, <2>1, IdleOK
<1>14. CASE CheckAgain
  BY <1>4, <1>14, CheckAgainKeeps DEF CheckAgain
<1> QED
  BY <1>5, <1>6, <1>7, <1>8, <1>9, <1>10, <1>11, <1>12, <1>13, <1>14 DEF Next

\* The answers that InclusionInv keeps.
LEMMA InvAnswers == InclusionInv => CustomersAreAnswered
<1> SUFFICES ASSUME InclusionInv PROVE CustomersAreAnswered
  OBVIOUS
<1>1. HistoryOK /\ CheckOK(check, attested, recorded) /\ AnswerOK(check)
  BY DEF InclusionInv
<1>2. TypeOK
  <2>1. check.pc \in {"read", "ledger"} => PathFits(check.pkg, Depth[check.pkg.registry])
    BY <1>1 DEF CheckOK, Compares, Accepts
  <2> QED
    BY <1>1, <2>1 DEF TypeOK, HistoryOK, CheckOK
<1> QED
  BY <1>1, <1>2 DEF CustomersAreAnswered, AnswerOK, GenuineIsIncluded, InclusionIsPermanent,
                    NoVerdictMeansNoAnswer

\* An included file names a leaf that its issuer put at this index.
LEMMA InvCommitted == InclusionInv => IncludedMeansCommitted
<1> SUFFICES ASSUME InclusionInv, Included PROVE IncludedMeansCommitted
  BY DEF IncludedMeansCommitted
<1>1. HistoryOK /\ CheckOK(check, attested, recorded)
  BY DEF InclusionInv
<1>2. PICK p : p = check.pkg
  OBVIOUS
<1>3. /\ Accepts(p, check.identity, check.file, check.known) /\ Matches(p, attested)
      /\ check.confirmed <=> check.identity # Padding
  BY <1>1, <1>2 DEF Included, CheckOK, Compares
<1>4. PICK r \in Registry, a \in Asset : r = p.registry /\ a = p.asset
  BY <1>3 DEF Matches
<1>5. PICK k : k = p.attestationId
  OBVIOUS
<1>6. PICK att : att = attested[r][a][k]
  OBVIOUS
<1>7. k \in DOMAIN attested[r][a] /\ Compared(p, att) = "ok" /\ r \notin Elsewhere
  BY <1>3, <1>4, <1>5, <1>6 DEF Matches
<1>8. PICK d : d = Depth[r]
  OBVIOUS
<1>9. d \in Nat
  BY <1>8, DepthOfRegistry
<1>10. PICK s \in 0..MaxLedger, t \in Layouts(d) : att = Attestation(a, s, t, d)
  BY <1>1, <1>6, <1>7, <1>8, RecordFacts
<1>11. PICK ctx : ctx = contextHash(a, s)
  OBVIOUS
<1>12. PICK leaves : leaves = [j \in Index(d) |-> Leaf(ctx, t[j], j)]
  OBVIOUS
<1>13. att.layout = t /\ att.finalRoot = treeRoot(leaves, d)
  BY <1>10, <1>11, <1>12, AttestationFields
<1>14. PICK i : i = p.leafIndex
  OBVIOUS
<1>15. Len(p.siblings) = d /\ i \in Index(d)
  BY <1>3, <1>4, <1>8, <1>14 DEF Accepts, PathFits
<1>16. /\ att.snapshotLedger = p.snapshotLedger
       /\ rootFromPath(leafHash(p.id, p.commitment), i, p.siblings) = att.finalRoot
  BY <1>3, <1>7, <1>14 DEF Compared, Accepts
<1>17. leafHash(p.id, p.commitment) = leaves[i]
  BY <1>9, <1>13, <1>15, <1>16, WalkBindsTheLeaf
<1>18. leaves[i] = leafHash(t[i], balanceCommitment(BalanceOf(t[i]), deriveSalt(ctx, i)))
  BY <1>12, <1>15 DEF Leaf
<1>19. p.id = t[i] /\ p.commitment = balanceCommitment(BalanceOf(t[i]), deriveSalt(ctx, i))
  BY <1>17, <1>18 DEF leafHash
<1>20. p.id # Padding /\ balanceCommitment(p.balance, p.salt) = p.commitment
  BY <1>3 DEF Accepts, parsePackage
<1>21. p.balance = BalanceOf(p.id)
  BY <1>19, <1>20 DEF balanceCommitment
<1>22. i \in DOMAIN t
  BY <1>15 DEF Layouts
<1>23. check.confirmed => check.identity = p.id
  BY <1>3 DEF Accepts, checkOwnIdentifier
<1>24. r \in check.known \ Elsewhere
  BY <1>3, <1>4, <1>7 DEF Accepts
<1> QED
  BY <1>2, <1>4, <1>5, <1>6, <1>7, <1>13, <1>14, <1>16, <1>19, <1>20, <1>21, <1>22, <1>23, <1>24
     DEF IncludedMeansCommitted

-----------------------------------------------------------------------------
(* The theorems *)

THEOREM SpecInclusion == Spec => []InclusionInv
BY InitInclusion, StepInclusion, PTL DEF Spec

\* inclusion.ts: an included package states what an issuer committed to, at
\* the index, asset, generation and attestation that it names.
THEOREM IncludedIsCommitted == Spec => []IncludedMeansCommitted
BY SpecInclusion, InvCommitted, PTL

\* inclusion.ts and its exit codes: a genuine package is never refused, an
\* included one stays included, and a readable file gets a verdict.
THEOREM CustomersGetAnswers == Spec => []CustomersAreAnswered
BY SpecInclusion, InvAnswers, PTL
=============================================================================
