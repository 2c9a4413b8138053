----------------------- MODULE IterationContextProofs -----------------------
(***************************************************************************)
(* Theorems about IterationContext, for every register size, gate set and  *)
(* set of random draws, and about the operations of SparseState it is made *)
(* of.  Which basis vectors have an entry follows from the operations      *)
(* alone; the norm needs the arithmetic of GatesProofs, and that the       *)
(* context implements IdealContext what GatesProofs says of its matrices.  *)
(***************************************************************************)
EXTENDS IterationContext, GatesProofs

-----------------------------------------------------------------------------
(* Basis vectors and their indices.                                        *)

LEMMA BasisVectorsFinite == IsFiniteSet(BasisVector)
<1>. DEFINE f == [v \in BasisVector |-> {q \in Qubit : v[q]}]
<1>1. IsFiniteSet(SUBSET Qubit)
  <2>1. IsFiniteSet(Qubit)
    BY FS_Interval, QubitsAssumption DEF Qubit
  <2>2. QED
    BY <2>1, FS_SUBSET
<1>2. f \in Injection(BasisVector, SUBSET Qubit)
  <2>1. f \in [BasisVector -> SUBSET Qubit]
    OBVIOUS
  <2>2. ASSUME NEW v \in BasisVector, NEW w \in BasisVector, f[v] = f[w]
        PROVE  v = w
    <3>1. \A q \in Qubit : v[q] \in BOOLEAN /\ w[q] \in BOOLEAN
      BY DEF BasisVector
    <3>2. \A q \in Qubit : v[q] <=> w[q]
      <4>1. {q \in Qubit : v[q]} = {q \in Qubit : w[q]}
        BY <2>2
      <4>2. QED
        BY <4>1
    <3>3. \A q \in Qubit : v[q] = w[q]
      BY <3>1, <3>2
    <3>4. QED
      BY <3>3 DEF BasisVector
  <2>. HIDE DEF f
  <2>3. QED
    BY <2>1, <2>2 DEF Injection, IsInjective
<1>. HIDE DEF f
<1>3. QED
  BY <1>1, <1>2, FS_Injection

LEMMA Maximum ==
  ASSUME NEW n \in Nat, NEW s \in SUBSET (1..n), s # {}
  PROVE  Max(s) \in s /\ \A y \in s : Max(s) >= y
<1>. DEFINE HasMax(t) == \E x \in t : \A y \in t : x >= y
            Good == {k \in Nat : \A t \in SUBSET (1..k) : t # {} => HasMax(t)}
<1>1. 0 \in Good
  <2>1. 1..0 = {}
    OBVIOUS
  <2>2. QED
    BY <2>1
<1>2. ASSUME NEW k \in Good
      PROVE  k + 1 \in Good
  <2>. SUFFICES ASSUME NEW t \in SUBSET (1..(k + 1)), t # {}
                PROVE  HasMax(t)
    OBVIOUS
  <2>1. CASE k + 1 \in t
    <3>1. \A y \in t : k + 1 >= y
      OBVIOUS
    <3>2. QED
      BY <2>1, <3>1
  <2>2. CASE k + 1 \notin t
    <3>1. t \in SUBSET (1..k)
      BY <2>2
    <3>2. QED
      BY <3>1
  <2>3. QED
    BY <2>1, <2>2
<1>3. Good = Nat
  <2>. HIDE DEF Good
  <2>1. Good \in SUBSET Nat
    BY DEF Good
  <2>2. QED
    BY <1>1, <1>2, <2>1, Induction
<1>4. \E x \in s : \A y \in s : x >= y
  BY <1>3
<1>5. QED
  BY <1>4 DEF Max

\* A fold of a sequence, from its last element down, and the states of the loop it is.
IsLastFold(g, n, V, zero, F) ==
  /\ g \in [SUBSET (1..n) -> V]
  /\ \A s \in SUBSET (1..n) : g[s] = IF s = {} THEN zero ELSE F[<<Max(s), g[s \ {Max(s)}]>>]
IsLoop(g, n, V, zero, F) ==
  /\ \A j \in 0..n : g[1..j] \in V
  /\ g[1..0] = zero
  /\ \A j \in 1..n : g[1..j] = F[<<j, g[1..(j - 1)]>>]

LEMMA LoopExists ==
  ASSUME NEW n \in Nat, NEW V, NEW zero \in V, NEW F, IsOperation(F, 1..n, V)
  PROVE  \E g : IsLastFold(g, n, V, zero, F) /\ IsLoop(g, n, V, zero, F)
<1>. DEFINE choice == [s \in SUBSET (1..n) |-> Max(s)]
<1>1. IsFiniteSet(1..n)
  BY FS_Interval
<1>2. IsChoice(choice, 1..n)
  BY Maximum DEF IsChoice
<1>3. PICK g : IsFold(g, 1..n, V, zero, F, choice)
  <2>. HIDE DEF choice
  <2>1. QED
    BY <1>1, <1>2, FoldExists
<1>4. IsLastFold(g, n, V, zero, F)
  BY <1>3 DEF IsFold, IsLastFold
<1>5. \A j \in 0..n : 1..j \in SUBSET (1..n) /\ g[1..j] \in V
  BY <1>4 DEF IsLastFold
<1>6. g[1..0] = zero
  <2>1. 1..0 = {}
    OBVIOUS
  <2>2. QED
    BY <1>4, <2>1 DEF IsLastFold
<1>7. ASSUME NEW j \in 1..n
      PROVE  g[1..j] = F[<<j, g[1..(j - 1)]>>]
  <2>1. 1..j \in SUBSET (1..n) /\ j \in 1..j
    OBVIOUS
  <2>2. Max(1..j) \in 1..j /\ Max(1..j) >= j
    BY <2>1, Maximum
  <2>3. Max(1..j) = j /\ (1..j) \ {j} = 1..(j - 1)
    BY <2>2
  <2>4. QED
    BY <1>4, <2>1, <2>3 DEF IsLastFold
<1>8. QED
  BY <1>4, <1>5, <1>6, <1>7 DEF IsLoop

\* Another function of the subsets with the same recursion has the same value.
GoesAlong(h, g, n) ==
  \A s \in SUBSET (1..n) : s # {} /\ h[s \ {Max(s)}] = g[s \ {Max(s)}] => h[s] = g[s]

LEMMA LoopIs ==
  ASSUME NEW n \in Nat, NEW g, NEW h, h[{}] = g[{}], GoesAlong(h, g, n)
  PROVE  h[1..n] = g[1..n]
<1>. DEFINE Places == 1..n
<1>1. IsFiniteSet(Places)
  BY FS_Interval
<1>2. DecidedBelow(h, g, Places)
  BY Maximum DEF DecidedBelow, GoesAlong
<1>. HIDE DEF Places
<1>3. \A s \in SUBSET Places : h[s] = g[s]
  BY <1>1, <1>2, SubsetFunctionsAgree
<1>4. QED
  BY <1>3 DEF Places

BitOf(b) == IF b THEN 1 ELSE 0

\* The indices that the loop over the operands goes through.
IsIndex(ix, v, operands, k) ==
  /\ ix \in [0..k -> Nat]
  /\ ix[0] = 0
  /\ \A j \in 1..k : ix[j] = 2 * ix[j - 1] + BitOf(v[operands[j]])

LEMMA IndexDefined ==
  ASSUME NEW k \in Nat, NEW operands \in [1..k -> Qubit], NEW v
  PROVE  \E ix : IsIndex(ix, v, operands, k) /\ ReducedIndex(v, operands) = ix[k]
<1>. DEFINE F == [p \in (1..k) \X Nat |-> 2 * p[2] + BitOf(v[operands[p[1]]])]
<1>1. \A j \in 1..k : \A m \in Nat : F[<<j, m>>] = 2 * m + BitOf(v[operands[j]])
  OBVIOUS
<1>2. IsOperation(F, 1..k, Nat)
  <2>1. \A b : BitOf(b) \in Nat
    BY DEF BitOf
  <2>2. F \in [(1..k) \X Nat -> Nat]
    BY <2>1
  <2>3. QED
    BY <2>2 DEF IsOperation
<1>. HIDE DEF F
<1>3. PICK g : IsLastFold(g, k, Nat, 0, F) /\ IsLoop(g, k, Nat, 0, F)
  <2>1. 0 \in Nat
    OBVIOUS
  <2>2. QED
    BY <1>2, <2>1, LoopExists
<1>4. /\ g \in [SUBSET (1..k) -> Nat]
      /\ \A s \in SUBSET (1..k) :
           g[s] = IF s = {} THEN 0 ELSE 2 * g[s \ {Max(s)}] + BitOf(v[operands[Max(s)]])
  <2>1. g \in [SUBSET (1..k) -> Nat]
    BY <1>3 DEF IsLastFold
  <2>2. ASSUME NEW s \in SUBSET (1..k)
        PROVE  g[s] = IF s = {} THEN 0 ELSE 2 * g[s \ {Max(s)}] + BitOf(v[operands[Max(s)]])
    <3>1. s # {} => Max(s) \in 1..k /\ g[s \ {Max(s)}] \in Nat
      BY <2>1, Maximum
    <3>2. g[s] = IF s = {} THEN 0 ELSE F[<<Max(s), g[s \ {Max(s)}]>>]
      BY <1>3 DEF IsLastFold
    <3>3. QED
      BY <1>1, <3>1, <3>2
  <2>3. QED
    BY <2>1, <2>2
<1>5. ReducedIndex(v, operands) = g[1..k]
  <2>. DEFINE IsIter(h) == h = [s \in SUBSET (1..k) |-> IF s = {} THEN 0
                                 ELSE 2 * h[s \ {Max(s)}] + BitOf(v[operands[Max(s)]])]
              iter == CHOOSE h : IsIter(h)
  <2>1. IsIter(g)
    BY <1>4
  <2>2. IsIter(iter)
    BY <2>1
  <2>3. ReducedIndex(v, operands) = iter[1..k]
    BY DEF ReducedIndex, FoldLeft, MapThenFoldSet, BitOf
  <2>. HIDE DEF iter
  <2>4. iter[{}] = g[{}]
    BY <1>4, <2>2
  <2>5. GoesAlong(iter, g, k)
    BY <1>4, <2>2 DEF GoesAlong
  <2>. HIDE DEF IsIter
  <2>6. QED
    BY <2>3, <2>4, <2>5, LoopIs
<1>6. IsIndex([j \in 0..k |-> g[1..j]], v, operands, k)
  <2>1. \A j \in 0..k : g[1..j] \in Nat
    BY <1>3 DEF IsLoop
  <2>2. g[1..0] = 0 /\ \A j \in 1..k : g[1..j] = F[<<j, g[1..(j - 1)]>>]
    BY <1>3 DEF IsLoop
  <2>3. ASSUME NEW j \in 1..k
        PROVE  g[1..j] = 2 * g[1..(j - 1)] + BitOf(v[operands[j]])
    <3>1. g[1..(j - 1)] \in Nat
      BY <2>1
    <3>2. QED
      BY <1>1, <2>2, <3>1
  <2>4. QED
    BY <2>1, <2>2, <2>3 DEF IsIndex
<1>7. QED
  BY <1>5, <1>6

LEMMA IndexUnique ==
  ASSUME NEW k \in Nat, NEW operands, NEW v, NEW ix, IsIndex(ix, v, operands, k),
         NEW iy, IsIndex(iy, v, operands, k)
  PROVE  ix[k] = iy[k]
<1>. DEFINE Good == {j \in Nat : j <= k => ix[j] = iy[j]}
<1>1. 0 \in Good
  BY DEF IsIndex
<1>2. ASSUME NEW j \in Good
      PROVE  j + 1 \in Good
  <2>. SUFFICES ASSUME j + 1 <= k
                PROVE  ix[j + 1] = iy[j + 1]
    OBVIOUS
  <2>1. j + 1 \in 1..k /\ (j + 1) - 1 = j /\ ix[j] = iy[j]
    OBVIOUS
  <2>2. QED
    BY <2>1 DEF IsIndex
<1>3. Good = Nat
  <2>. HIDE DEF Good
  <2>1. Good \in SUBSET Nat
    BY DEF Good
  <2>2. QED
    BY <1>1, <1>2, <2>1, Induction
<1>4. QED
  BY <1>3

LEMMA IndexBelow ==
  ASSUME NEW k \in Nat, NEW operands, NEW v, NEW ix, IsIndex(ix, v, operands, k)
  PROVE  ix[k] \in 0..(2^k - 1)
<1>. DEFINE Good == {j \in Nat : j <= k => ix[j] < 2^j}
<1>1. 0 \in Good
  <2>1. 2^0 = 1
    BY PowersOfTwo
  <2>2. QED
    BY <2>1 DEF IsIndex
<1>2. ASSUME NEW j \in Good
      PROVE  j + 1 \in Good
  <2>. SUFFICES ASSUME j + 1 <= k
                PROVE  ix[j + 1] < 2^(j + 1)
    OBVIOUS
  <2>1. j + 1 \in 1..k /\ (j + 1) - 1 = j /\ ix[j] < 2^j /\ j \in 0..k
    OBVIOUS
  <2>2. 2^(j + 1) = 2 * 2^j /\ 2^j \in Nat
    BY PowersOfTwo
  <2>3. ix[j + 1] = 2 * ix[j] + BitOf(v[operands[j + 1]]) /\ ix[j] \in Nat
    BY <2>1 DEF IsIndex
  <2>4. BitOf(v[operands[j + 1]]) \in 0..1
    BY DEF BitOf
  <2>5. \A a, p \in Nat : \A b \in 0..1 : a < p => 2 * a + b < 2 * p
    OBVIOUS
  <2>6. QED
    BY <2>1, <2>2, <2>3, <2>4, <2>5
<1>3. Good = Nat
  <2>. HIDE DEF Good
  <2>1. Good \in SUBSET Nat
    BY DEF Good
  <2>2. QED
    BY <1>1, <1>2, <2>1, Induction
<1>4. ix[k] \in Nat /\ ix[k] < 2^k /\ 2^k \in Nat
  BY <1>3, PowersOfTwo DEF IsIndex
<1>5. QED
  BY <1>4

LEMMA IndexInjective ==
  ASSUME NEW k \in Nat, NEW operands \in [1..k -> Qubit], NEW v \in BasisVector, NEW w \in BasisVector,
         NEW ix, IsIndex(ix, v, operands, k), NEW iy, IsIndex(iy, w, operands, k), ix[k] = iy[k]
  PROVE  \A j \in 1..k : v[operands[j]] = w[operands[j]]
<1>. DEFINE Good == {n \in Nat : n <= k => ix[k - n] = iy[k - n]}
<1>1. 0 \in Good
  OBVIOUS
<1>2. ASSUME NEW j \in 1..k, ix[j] = iy[j]
      PROVE  ix[j - 1] = iy[j - 1] /\ v[operands[j]] = w[operands[j]]
  <2>. DEFINE b == BitOf(v[operands[j]])
              c == BitOf(w[operands[j]])
  <2>1. /\ ix[j] = 2 * ix[j - 1] + b /\ iy[j] = 2 * iy[j - 1] + c
        /\ j - 1 \in 0..k /\ ix[j - 1] \in Nat /\ iy[j - 1] \in Nat
    BY DEF IsIndex
  <2>2. b \in 0..1 /\ c \in 0..1 /\ (b = 1 <=> v[operands[j]]) /\ (c = 1 <=> w[operands[j]])
    BY DEF BitOf
  <2>3. v[operands[j]] \in BOOLEAN /\ w[operands[j]] \in BOOLEAN
    BY DEF BasisVector
  <2>. HIDE DEF b, c
  <2>4. ix[j - 1] = iy[j - 1] /\ b = c
    <3>1. \A m, n \in Nat : \A d, e \in 0..1 : 2 * m + d = 2 * n + e => m = n /\ d = e
      OBVIOUS
    <3>2. 2 * ix[j - 1] + b = 2 * iy[j - 1] + c
      BY <1>2, <2>1
    <3>3. QED
      BY <2>1, <2>2, <3>1, <3>2
  <2>5. v[operands[j]] <=> w[operands[j]]
    BY <2>2, <2>4
  <2>6. QED
    BY <2>3, <2>4, <2>5
<1>3. ASSUME NEW n \in Good
      PROVE  n + 1 \in Good
  <2>. SUFFICES ASSUME n + 1 <= k
                PROVE  ix[k - (n + 1)] = iy[k - (n + 1)]
    OBVIOUS
  <2>1. k - n \in 1..k /\ ix[k - n] = iy[k - n] /\ (k - n) - 1 = k - (n + 1)
    OBVIOUS
  <2>2. ix[(k - n) - 1] = iy[(k - n) - 1]
    BY <1>2, <2>1
  <2>3. QED
    BY <2>1, <2>2
<1>4. Good = Nat
  <2>. HIDE DEF Good
  <2>1. Good \in SUBSET Nat
    BY DEF Good
  <2>2. QED
    BY <1>1, <1>3, <2>1, Induction
<1>5. ASSUME NEW j \in 1..k
      PROVE  ix[j] = iy[j]
  <2>1. k - j \in Nat /\ k - j <= k /\ k - (k - j) = j
    OBVIOUS
  <2>2. k - j \in Good
    BY <1>4, <2>1
  <2>3. QED
    BY <2>1, <2>2
<1>6. QED
  BY <1>2, <1>5

\* Some basis vector with v's bits outside the first j operands has the index i there.
AgreeOutsideFirst(w, v, operands, j) ==
  \A q \in Qubit : (\A n \in 1..j : operands[n] # q) => w[q] = v[q]
IsReached(v, operands, j, i) ==
  \E w \in BasisVector : \E ix :
    AgreeOutsideFirst(w, v, operands, j) /\ IsIndex(ix, w, operands, j) /\ ix[j] = i

\* Every index is the one of a basis vector with the given bits outside the operands.
LEMMA IndexSurjective ==
  ASSUME NEW k \in Nat, NEW operands \in [1..k -> Qubit], IsInjective(operands),
         NEW v \in BasisVector, NEW r \in 0..(2^k - 1)
  PROVE  \E w \in BasisVector : AgreeOutside(operands, v, w) /\ ReducedIndex(w, operands) = r
<1>. DEFINE Good == {j \in Nat : j <= k => \A i \in 0..(2^j - 1) : IsReached(v, operands, j, i)}
<1>1. 0 \in Good
  <2>1. 2^0 = 1
    BY PowersOfTwo
  <2>2. IsIndex([j \in 0..0 |-> 0], v, operands, 0)
    BY DEF IsIndex
  <2>3. [j \in 0..0 |-> 0][0] = 0
    OBVIOUS
  <2>4. IsReached(v, operands, 0, 0)
    BY <2>2, <2>3 DEF IsReached, AgreeOutsideFirst
  <2>5. 0..(2^0 - 1) = {0}
    BY <2>1
  <2>6. QED
    BY <2>4, <2>5
<1>2. ASSUME NEW j \in Good
      PROVE  j + 1 \in Good
  <2>. SUFFICES ASSUME j + 1 <= k, NEW i \in 0..(2^(j + 1) - 1)
                PROVE  IsReached(v, operands, j + 1, i)
    OBVIOUS
  <2>. DEFINE half == i \div 2
              bit  == (i % 2 = 1)
              q0   == operands[j + 1]
  <2>1. half \in 0..(2^j - 1) /\ half \in Nat /\ i = 2 * half + BitOf(bit)
    <3>1. 2^(j + 1) = 2 * 2^j /\ 2^j \in Nat
      BY PowersOfTwo
    <3>2. \A p \in Nat : \A n \in 0..(2 * p - 1) : n \div 2 \in 0..(p - 1)
      OBVIOUS
    <3>3. i = 2 * half + BitOf(bit)
      BY DEF BitOf
    <3>4. QED
      BY <3>1, <3>2, <3>3
  <2>W. PICK w \in BasisVector : \E ix :
          AgreeOutsideFirst(w, v, operands, j) /\ IsIndex(ix, w, operands, j) /\ ix[j] = half
    <3>1. IsReached(v, operands, j, half)
      BY <2>1
    <3>2. QED
      BY <3>1 DEF IsReached
  <2>2. PICK ix : AgreeOutsideFirst(w, v, operands, j) /\ IsIndex(ix, w, operands, j) /\ ix[j] = half
    BY <2>W
  <2>. DEFINE u  == [w EXCEPT ![q0] = bit]
              iy == [n \in 0..(j + 1) |-> IF n = j + 1 THEN i ELSE ix[n]]
  <2>3. q0 \in Qubit /\ u \in BasisVector /\ u[q0] = bit /\ \A q \in Qubit : q # q0 => u[q] = w[q]
    BY DEF BasisVector
  <2>4. \A n \in 1..j : operands[n] \in Qubit /\ operands[n] # q0
    BY DEF IsInjective
  <2>5. AgreeOutsideFirst(u, v, operands, j + 1)
    <3>. SUFFICES ASSUME NEW q \in Qubit, \A n \in 1..(j + 1) : operands[n] # q
                  PROVE  u[q] = v[q]
      BY DEF AgreeOutsideFirst
    <3>1. q # q0 /\ \A n \in 1..j : operands[n] # q
      OBVIOUS
    <3>2. QED
      BY <2>2, <2>3, <3>1 DEF AgreeOutsideFirst
  <2>6. IsIndex(iy, u, operands, j + 1)
    <3>1. iy \in [0..(j + 1) -> Nat] /\ iy[0] = 0
      BY <2>1, <2>2 DEF IsIndex
    <3>2. ASSUME NEW n \in 1..(j + 1)
          PROVE  iy[n] = 2 * iy[n - 1] + BitOf(u[operands[n]])
      <4>1. CASE n = j + 1
        <5>1. iy[n] = i /\ iy[n - 1] = half /\ u[operands[n]] = bit
          BY <2>2, <2>3, <4>1
        <5>2. QED
          BY <2>1, <5>1
      <4>2. CASE n \in 1..j
        <5>1. iy[n] = ix[n] /\ iy[n - 1] = ix[n - 1] /\ u[operands[n]] = w[operands[n]]
          BY <2>3, <2>4, <4>2
        <5>2. QED
          BY <2>2, <4>2, <5>1 DEF IsIndex
      <4>3. QED
        BY <4>1, <4>2
    <3>3. QED
      BY <3>1, <3>2 DEF IsIndex
  <2>7. iy[j + 1] = i
    OBVIOUS
  <2>. HIDE DEF u, iy
  <2>8. QED
    BY <2>3, <2>5, <2>6, <2>7 DEF IsReached
<1>3. Good = Nat
  <2>. HIDE DEF Good
  <2>1. Good \in SUBSET Nat
    BY DEF Good
  <2>2. QED
    BY <1>1, <1>2, <2>1, Induction
<1>4. IsReached(v, operands, k, r)
  <2>1. k \in Good
    <3>. HIDE DEF Good
    <3>1. QED
      BY <1>3
  <2>2. QED
    BY <2>1
<1>W. PICK w \in BasisVector : \E ix :
        AgreeOutsideFirst(w, v, operands, k) /\ IsIndex(ix, w, operands, k) /\ ix[k] = r
  BY <1>4 DEF IsReached
<1>5. PICK ix : AgreeOutsideFirst(w, v, operands, k) /\ IsIndex(ix, w, operands, k) /\ ix[k] = r
  BY <1>W
<1>6. AgreeOutside(operands, v, w)
  BY <1>5 DEF AgreeOutsideFirst, AgreeOutside, Range
<1>7. PICK iy : IsIndex(iy, w, operands, k) /\ ReducedIndex(w, operands) = iy[k]
  BY IndexDefined
<1>8. iy[k] = ix[k]
  BY <1>5, <1>7, IndexUnique
<1>9. QED
  BY <1>5, <1>6, <1>7, <1>8

\* On the basis vectors that agree outside the operands, the index is one to one.
LEMMA IndexIsBijection ==
  ASSUME NEW k \in Nat, NEW operands \in [1..k -> Qubit], IsInjective(operands), NEW v \in BasisVector
  PROVE  [w \in {u \in BasisVector : AgreeOutside(operands, v, u)} |-> ReducedIndex(w, operands)]
           \in Bijection({u \in BasisVector : AgreeOutside(operands, v, u)}, 0..(2^k - 1))
<1>. DEFINE Class == {u \in BasisVector : AgreeOutside(operands, v, u)}
            index == [w \in Class |-> ReducedIndex(w, operands)]
<1>1. index \in [Class -> 0..(2^k - 1)]
  BY IndexDefined, IndexBelow
<1>2. ASSUME NEW u \in Class, NEW w \in Class, index[u] = index[w]
      PROVE  u = w
  <2>1. PICK ix : IsIndex(ix, u, operands, k) /\ ReducedIndex(u, operands) = ix[k]
    BY IndexDefined
  <2>2. PICK iy : IsIndex(iy, w, operands, k) /\ ReducedIndex(w, operands) = iy[k]
    BY IndexDefined
  <2>3. \A j \in 1..k : u[operands[j]] = w[operands[j]]
    BY <1>2, <2>1, <2>2, IndexInjective
  <2>4. \A q \in Range(operands) : u[q] = w[q]
    BY <2>3 DEF Range
  <2>5. \A q \in Qubit \ Range(operands) : u[q] = w[q]
    BY DEF AgreeOutside
  <2>6. QED
    BY <2>4, <2>5 DEF BasisVector
<1>3. ASSUME NEW r \in 0..(2^k - 1)
      PROVE  \E w \in Class : index[w] = r
  BY IndexSurjective
<1>. HIDE DEF Class, index
<1>4. index \in Bijection(Class, 0..(2^k - 1))
  BY <1>1, <1>2, <1>3 DEF Bijection, Injection, Surjection, IsInjective
<1>5. QED
  BY <1>4 DEF Class, index

-----------------------------------------------------------------------------
(* The norm of a sparse map.                                               *)

IsSparse(array) ==
  DOMAIN array.data \subseteq BasisVector /\ ValuesIn(array.data, DOMAIN array.data, Ring)

Squares(array) == [v \in BasisVector |-> Norm(Amplitude(array, v))]

LEMMA SquaresType ==
  ASSUME NEW array, IsSparse(array)
  PROVE  /\ \A v \in BasisVector : Amplitude(array, v) \in Ring
         /\ ValuesIn(Squares(array), BasisVector, Weight)
         /\ SumOver(NoWeight, Squares(array), BasisVector) \in Weight
<1>1. \A v \in BasisVector : Amplitude(array, v) \in Ring
  BY Spaces DEF IsSparse, Amplitude, ValuesIn
<1>2. ValuesIn(Squares(array), BasisVector, Weight)
  BY <1>1, NormIsSquare DEF ValuesIn, Squares
<1>3. QED
  BY <1>1, <1>2, Spaces, BasisVectorsFinite, Sums

\* A basis vector without an entry has no weight.
LEMMA NormOverAll ==
  ASSUME NEW array, IsSparse(array)
  PROVE  norm(array) = SumOver(NoWeight, Squares(array), BasisVector)
<1>. DEFINE D == DOMAIN array.data
            f == [v \in D |-> Norm(array.data[v])]
<1>1. norm(array) = SumOver(NoWeight, f, D)
  BY SumOfIsSum DEF norm
<1>2. D \in SUBSET BasisVector /\ IsFiniteSet(D)
  BY BasisVectorsFinite, FS_Subset DEF IsSparse
<1>3. \A v \in D : f[v] = Squares(array)[v]
  BY <1>2 DEF Squares, Amplitude
<1>4. \A v \in BasisVector \ D : Squares(array)[v] = NoWeight
  BY NormNull DEF Squares, Amplitude
<1>5. ValuesIn(Squares(array), D, Weight)
  BY <1>2, SquaresType DEF ValuesIn
<1>. HIDE DEF D, f
<1>6. SumOver(NoWeight, f, D) = SumOver(NoWeight, Squares(array), D)
  BY <1>2, <1>3, <1>5, Spaces, SumEqual
<1>7. SumOver(NoWeight, Squares(array), BasisVector) = SumOver(NoWeight, Squares(array), D)
  BY <1>2, <1>4, Spaces, BasisVectorsFinite, SquaresType, SumSupport
<1>8. QED
  BY <1>1, <1>6, <1>7

LEMMA SameAmplitudesSameNorm ==
  ASSUME NEW array, IsSparse(array), NEW other, IsSparse(other),
         \A v \in BasisVector : Amplitude(other, v) = Amplitude(array, v)
  PROVE  norm(other) = norm(array)
<1>1. Squares(other) = Squares(array)
  BY DEF Squares
<1>2. QED
  BY <1>1, NormOverAll

\* Erasing null entries changes no amplitude.
LEMMA CleanUpKeepsAmplitudes ==
  ASSUME NEW array, IsSparse(array)
  PROVE  /\ IsSparse(clean_up_zeros(array))
         /\ \A v : Amplitude(clean_up_zeros(array), v) = Amplitude(array, v)
         /\ norm(clean_up_zeros(array)) = norm(array)
         /\ \A v : v \in DOMAIN clean_up_zeros(array).data
                     <=> v \in DOMAIN array.data /\ array.data[v] # Null
<1>. DEFINE kept    == {v \in DOMAIN array.data : array.data[v] # Null}
            cleaned == clean_up_zeros(array)
<1>1. cleaned.data = [v \in kept |-> array.data[v]]
  BY DEF clean_up_zeros, RestrictValues, Restrict
<1>. HIDE DEF cleaned
<1>2. IsSparse(cleaned)
  BY <1>1 DEF IsSparse, ValuesIn
<1>3. ASSUME NEW v
      PROVE  Amplitude(cleaned, v) = Amplitude(array, v)
  BY <1>1 DEF Amplitude
<1>4. norm(cleaned) = norm(array)
  BY <1>2, <1>3, SameAmplitudesSameNorm
<1>5. DOMAIN cleaned.data = kept
  BY <1>1
<1>6. QED
  BY <1>2, <1>3, <1>4, <1>5 DEF cleaned

-----------------------------------------------------------------------------
(* Gates.                                                                  *)

\* A matrix for k operands, whose columns are orthogonal.
IsMatrixFor(m, k) == IsSquare(m, 2^k)

MatrixColumnProducts(m, c, d) ==
  [r \in 1..SizeOf(m) |-> Times(m.rows[r][c], Conj(m.rows[r][d]))]
HasOrthogonalColumns(m) ==
  \A c, d \in 1..SizeOf(m) :
    SumOver(Null, MatrixColumnProducts(m, c, d), 1..SizeOf(m))
      = IF c = d THEN Real(2^m.halvings) ELSE Null

\* The linear map of basis vectors that a matrix makes of its operands' bits.
GateKernel(m, operands) ==
  [p \in BasisVector \X BasisVector |->
     IF AgreeOutside(operands, p[2], p[1])
     THEN at(m, ReducedIndex(p[1], operands), ReducedIndex(p[2], operands)) ELSE Null]

LEMMA IndexType ==
  ASSUME NEW k \in Nat, NEW operands \in [1..k -> Qubit], NEW v
  PROVE  ReducedIndex(v, operands) \in 0..(2^k - 1)
<1>1. PICK ix : IsIndex(ix, v, operands, k) /\ ReducedIndex(v, operands) = ix[k]
  BY IndexDefined
<1>2. QED
  BY <1>1, IndexBelow

LEMMA EntryType ==
  ASSUME NEW k \in Nat, NEW m, IsMatrixFor(m, k), NEW i \in 0..(2^k - 1), NEW j \in 0..(2^k - 1)
  PROVE  at(m, i, j) \in Ring /\ SizeOf(m) = 2^k
<1>1. 2^k \in Nat
  BY PowersOfTwo
<1>2. i + 1 \in 1..2^k /\ j + 1 \in 1..2^k
  BY <1>1
<1>3. at(m, i, j) \in Ring
  BY <1>2 DEF at, IsMatrixFor, IsSquare
<1>4. SizeOf(m) = 2^k
  BY <1>1 DEF SizeOf, IsMatrixFor, IsSquare
<1>5. QED
  BY <1>3, <1>4

LEMMA GateKernelType ==
  ASSUME NEW k \in Nat, NEW m, IsMatrixFor(m, k), NEW operands \in [1..k -> Qubit],
         NEW v \in BasisVector, NEW w \in BasisVector
  PROVE  /\ GateKernel(m, operands)[<<w, v>>]
              = IF AgreeOutside(operands, v, w)
                THEN at(m, ReducedIndex(w, operands), ReducedIndex(v, operands)) ELSE Null
         /\ GateKernel(m, operands)[<<w, v>>] \in Ring
<1>1. at(m, ReducedIndex(w, operands), ReducedIndex(v, operands)) \in Ring
  BY IndexType, EntryType
<1>2. GateKernel(m, operands)[<<w, v>>]
        = IF AgreeOutside(operands, v, w)
          THEN at(m, ReducedIndex(w, operands), ReducedIndex(v, operands)) ELSE Null
  BY DEF GateKernel
<1>3. QED
  BY <1>1, <1>2, Spaces

\* The columns of the linear map are orthogonal because the ones of the matrix are.
LEMMA GateIsOrthogonal ==
  ASSUME NEW k \in Nat, NEW m, IsMatrixFor(m, k), HasOrthogonalColumns(m),
         NEW operands \in [1..k -> Qubit], IsInjective(operands),
         NEW v \in BasisVector, NEW u \in BasisVector
  PROVE  SumOver(Null, ColumnProducts(GateKernel(m, operands), BasisVector, v, u), BasisVector)
           = IF v = u THEN Real(2^m.halvings) ELSE Null
<1>. DEFINE K     == GateKernel(m, operands)
            P     == ColumnProducts(K, BasisVector, v, u)
            Class == {w \in BasisVector : AgreeOutside(operands, v, w)}
            i(w)  == ReducedIndex(w, operands)
<1>1. \A w \in BasisVector : P[w] = Times(K[<<w, v>>], Conj(K[<<w, u>>]))
  BY DEF ColumnProducts
<1>2. ASSUME NEW w \in BasisVector
      PROVE  /\ K[<<w, v>>] = (IF AgreeOutside(operands, v, w) THEN at(m, i(w), i(v)) ELSE Null)
             /\ K[<<w, u>>] = (IF AgreeOutside(operands, u, w) THEN at(m, i(w), i(u)) ELSE Null)
             /\ K[<<w, v>>] \in Ring /\ K[<<w, u>>] \in Ring /\ Conj(K[<<w, u>>]) \in Ring
  BY GateKernelType, ConjRing
<1>. HIDE DEF K, P
<1>3. ASSUME NEW w \in BasisVector
      PROVE  P[w] \in Ring
  <2>1. K[<<w, v>>] \in Ring /\ Conj(K[<<w, u>>]) \in Ring
    BY <1>2
  <2>2. QED
    BY <1>1, <2>1, TimesRing
<1>4. CASE ~AgreeOutside(operands, v, u)
  <2>1. ASSUME NEW w \in BasisVector
        PROVE  P[w] = Null
    <3>1. ~AgreeOutside(operands, v, w) \/ ~AgreeOutside(operands, u, w)
      BY <1>4 DEF AgreeOutside
    <3>2. K[<<w, v>>] = Null \/ K[<<w, u>>] = Null
      BY <1>2, <3>1
    <3>3. QED
      BY <1>1, <1>2, <3>2, TimesRing, ConjNull
  <2>2. SumOver(Null, P, BasisVector) = Null
    BY <2>1, Spaces, BasisVectorsFinite, SumNull
  <2>3. v # u
    BY <1>4 DEF AgreeOutside
  <2>4. QED
    BY <2>2, <2>3 DEF P, K
<1>5. CASE AgreeOutside(operands, v, u)
  <2>. DEFINE c     == i(v) + 1
              d     == i(u) + 1
              g     == MatrixColumnProducts(m, c, d)
              row   == [w \in Class |-> i(w) + 1]
              Size  == SizeOf(m)
  <2>1. Size = 2^k /\ 2^k \in Nat
    BY PowersOfTwo DEF SizeOf, IsMatrixFor, IsSquare
  <2>2. c \in 1..Size /\ d \in 1..Size
    BY <2>1, IndexType
  <2>3. row \in Bijection(Class, 1..Size) /\ (i(v) = i(u) => v = u)
    <3>. DEFINE index == [w \in Class |-> ReducedIndex(w, operands)]
    <3>1. index \in Bijection(Class, 0..(2^k - 1))
      BY IndexIsBijection
    <3>2. \A w \in Class : row[w] = index[w] + 1 /\ index[w] = i(w)
      OBVIOUS
    <3>3. v \in Class /\ u \in Class
      BY <1>5 DEF AgreeOutside
    <3>4. /\ \A w \in Class : index[w] \in 0..(2^k - 1)
          /\ \A w, x \in Class : index[w] = index[x] => w = x
          /\ \A r \in 0..(2^k - 1) : \E w \in Class : index[w] = r
      <4>. HIDE DEF index, Class
      <4>1. QED
        BY <3>1 DEF Bijection, Injection, Surjection, IsInjective
    <3>5. row \in [Class -> 1..Size]
      BY <2>1, <3>2, <3>4
    <3>6. \A w, x \in Class : row[w] = row[x] => w = x
      BY <2>1, <3>2, <3>4
    <3>7. ASSUME NEW r \in 1..Size
          PROVE  \E w \in Class : row[w] = r
      <4>1. r - 1 \in 0..(2^k - 1)
        BY <2>1
      <4>2. PICK w \in Class : index[w] = r - 1
        BY <3>4, <4>1
      <4>3. QED
        BY <3>2, <4>2
    <3>8. i(v) = i(u) => v = u
      BY <3>2, <3>3, <3>4
    <3>. HIDE DEF row, Class, Size
    <3>9. QED
      BY <3>5, <3>6, <3>7, <3>8 DEF Bijection, Injection, Surjection, IsInjective
  <2>4. ASSUME NEW w \in Class
        PROVE  P[w] = g[row[w]]
    <3>1. AgreeOutside(operands, u, w)
      BY <1>5 DEF AgreeOutside
    <3>2. P[w] = Times(at(m, i(w), i(v)), Conj(at(m, i(w), i(u))))
      BY <1>1, <1>2, <3>1
    <3>3. row[w] \in 1..Size /\ row[w] = i(w) + 1
      BY <2>1, IndexType
    <3>4. g[row[w]] = Times(m.rows[i(w) + 1][c], Conj(m.rows[i(w) + 1][d]))
      BY <3>3 DEF MatrixColumnProducts
    <3>5. QED
      BY <3>2, <3>4 DEF at
  <2>5. ValuesIn(g, 1..Size, Ring)
    <3>1. ASSUME NEW r \in 1..Size
          PROVE  g[r] \in Ring
      <4>1. m.rows[r][c] \in Ring /\ m.rows[r][d] \in Ring
        BY <2>1, <2>2 DEF IsMatrixFor, IsSquare
      <4>2. QED
        BY <4>1, ConjRing, TimesRing DEF MatrixColumnProducts
    <3>2. QED
      BY <3>1 DEF ValuesIn
  <2>6. \A w \in BasisVector \ Class : P[w] = Null
    <3>1. ASSUME NEW w \in BasisVector \ Class
          PROVE  P[w] = Null
      <4>1. K[<<w, v>>] = Null
        BY <1>2
      <4>2. Conj(K[<<w, u>>]) \in Ring
        BY <1>2
      <4>3. Times(Null, Conj(K[<<w, u>>])) = Null
        BY <4>2, TimesRing
      <4>4. QED
        BY <1>1, <4>1, <4>3
    <3>2. QED
      BY <3>1
  <2>7. Class \in SUBSET BasisVector /\ IsFiniteSet(Class)
    BY BasisVectorsFinite, FS_Subset
  <2>8. SumOver(Null, g, 1..Size) = IF c = d THEN Real(2^m.halvings) ELSE Null
    BY <2>2 DEF HasOrthogonalColumns
  <2>9. c = d <=> v = u
    <3>1. i(v) \in Int /\ i(u) \in Int
      BY IndexType
    <3>2. QED
      BY <2>3, <3>1
  <2>. HIDE DEF Class, g, row, Size, c, d
  <2>10. SumOver(Null, P, BasisVector) = SumOver(Null, P, Class)
    <3>1. ValuesIn(P, BasisVector, Ring)
      BY <1>3 DEF ValuesIn
    <3>2. QED
      BY <2>6, <2>7, <3>1, Spaces, BasisVectorsFinite, SumSupport
  <2>11. SumOver(Null, P, Class) = SumOver(Null, g, 1..Size)
    BY <2>3, <2>4, <2>5, <2>7, Spaces, SumReindexed
  <2>12. QED
    BY <2>8, <2>9, <2>10, <2>11 DEF P, K
<1>6. QED
  BY <1>4, <1>5

\* The sum of what the entries add is the value of the linear map.
LEMMA AddedIsOutput ==
  ASSUME NEW k \in Nat, NEW m, IsMatrixFor(m, k), NEW operands \in [1..k -> Qubit],
         NEW array, IsSparse(array), NEW w \in BasisVector
  PROVE  /\ Added(array.data, m, operands, w)
              = Output(GateKernel(m, operands), array.data, DOMAIN array.data, DOMAIN array.data, w)
         /\ Added(array.data, m, operands, w) \in Ring
         /\ Sources(array.data, m, operands, w) = {} => Added(array.data, m, operands, w) = Null
<1>. DEFINE a  == array.data
            D  == DOMAIN a
            K  == GateKernel(m, operands)
            t  == Terms(K, a, D, w)
            Ss == Sources(a, m, operands, w)
            f  == [v \in Ss |-> AddedValue(a, m, operands, v, w)]
<1>1. D \in SUBSET BasisVector /\ IsFiniteSet(D) /\ ValuesIn(a, D, Ring)
  BY BasisVectorsFinite, FS_Subset DEF IsSparse
<1>2. Ss \in SUBSET D /\ IsFiniteSet(Ss)
  BY <1>1, FS_Subset DEF Sources
<1>3. ASSUME NEW v \in D
      PROVE  /\ t[v] \in Ring
             /\ v \in Ss => f[v] = t[v]
             /\ v \notin Ss => t[v] = Null
  <2>1. /\ K[<<w, v>>] = (IF AgreeOutside(operands, v, w)
                         THEN at(m, ReducedIndex(w, operands), ReducedIndex(v, operands)) ELSE Null)
        /\ K[<<w, v>>] \in Ring
    BY <1>1, GateKernelType
  <2>2. t[v] = Times(a[v], K[<<w, v>>]) /\ a[v] \in Ring
    BY <1>1 DEF Terms, ValuesIn
  <2>3. CASE ~AgreeOutside(operands, v, w)
    <3>1. t[v] = Null /\ v \notin Ss
      BY <2>1, <2>2, <2>3, TimesRing DEF Sources
    <3>2. QED
      BY <3>1, Spaces
  <2>4. CASE AgreeOutside(operands, v, w)
    <3>1. t[v] = AddedValue(a, m, operands, v, w)
      BY <2>1, <2>2, <2>4 DEF AddedValue
    <3>2. v \in Ss <=> t[v] # Null
      BY <2>4, <3>1 DEF Sources
    <3>3. t[v] \in Ring
      BY <2>1, <2>2, TimesRing
    <3>4. QED
      BY <3>1, <3>2, <3>3
  <2>5. QED
    BY <2>3, <2>4
<1>4. Added(a, m, operands, w) = SumOver(Null, f, Ss)
  BY SumOfIsSum DEF Added
<1>5. Output(K, a, D, D, w) = SumOver(Null, t, D)
  BY DEF Output
<1>. HIDE DEF f, t, Ss, D, K
<1>6. SumOver(Null, f, Ss) = SumOver(Null, t, Ss)
  <2>1. ValuesIn(t, Ss, Ring) /\ \A v \in Ss : f[v] = t[v]
    BY <1>2, <1>3 DEF ValuesIn
  <2>2. QED
    BY <1>2, <2>1, Spaces, SumEqual
<1>7. SumOver(Null, t, D) = SumOver(Null, t, Ss) /\ SumOver(Null, t, D) \in Ring
  <2>1. ValuesIn(t, D, Ring) /\ \A v \in D \ Ss : t[v] = Null
    BY <1>3 DEF ValuesIn
  <2>2. QED
    BY <1>1, <1>2, <2>1, Spaces, SumSupport, Sums
<1>8. Ss = {} => SumOver(Null, f, Ss) = Null
  <2>1. ValuesIn(t, D, Ring)
    BY <1>3 DEF ValuesIn
  <2>2. SumOver(Null, t, {}) = Null
    BY <1>1, <2>1, Spaces, Sums
  <2>3. QED
    BY <1>6, <2>2
<1>9. QED
  BY <1>4, <1>5, <1>6, <1>7, <1>8 DEF D, K, Ss

\* A gate with orthogonal columns keeps the norm.
LEMMA GateKeepsNorm ==
  ASSUME NEW k \in Nat, NEW m, IsMatrixFor(m, k), HasOrthogonalColumns(m),
         NEW operands \in [1..k -> Qubit], IsInjective(operands),
         NEW array, IsSparse(array), RepresentableApply(array, m, operands),
         NEW after, after.data = apply_impl(array.data, m, operands)
  PROVE  IsSparse(after) /\ norm(after) = norm(array)
<1>. DEFINE a == array.data
            D == DOMAIN a
            K == GateKernel(m, operands)
            h == m.halvings
            n == 2^h
            sum(w) == Added(a, m, operands, w)
            f == [w \in BasisVector |-> Norm(sum(w))]
            o == [w \in BasisVector |-> Norm(Output(K, a, D, D, w))]
<1>1. D \in SUBSET BasisVector /\ IsFiniteSet(D) /\ ValuesIn(a, D, Ring)
  BY BasisVectorsFinite, FS_Subset DEF IsSparse
<1>2. h \in Nat /\ n \in Nat \ {0}
  BY PowersOfTwo DEF IsMatrixFor, IsSquare
<1>3. \A w \in BasisVector : /\ sum(w) = Output(K, a, D, D, w) /\ sum(w) \in Ring
                             /\ Sources(a, m, operands, w) = {} => sum(w) = Null
  BY AddedIsOutput
<1>4. \A w \in BasisVector : Amplitude(after, w) = IF Sources(a, m, operands, w) = {} THEN Null
                                                    ELSE Divide(sum(w), h)
  BY DEF Amplitude, apply_impl
<1>5. IsSparse(after)
  <2>1. \A w \in BasisVector : Divide(sum(w), h) \in Ring
    BY <1>2, <1>3, NormOfQuotient
  <2>2. QED
    BY <2>1 DEF IsSparse, ValuesIn, apply_impl
<1>6. ASSUME NEW w \in BasisVector
      PROVE  f[w] = Multiple(n, Squares(after)[w])
  <2>1. Squares(after)[w] = Norm(Amplitude(after, w)) /\ f[w] = Norm(sum(w))
    BY DEF Squares
  <2>2. CASE Sources(a, m, operands, w) = {}
    <3>1. f[w] = NoWeight /\ Squares(after)[w] = NoWeight
      BY <1>3, <1>4, <2>1, <2>2, NormNull
    <3>2. QED
      BY <1>2, <3>1, Spaces, MultipleLaws
  <2>3. CASE Sources(a, m, operands, w) # {}
    <3>1. Amplitude(after, w) = Divide(sum(w), h)
      BY <1>4, <2>3
    <3>2. Divisible(sum(w), h)
      BY DEF RepresentableApply
    <3>3. Norm(sum(w)) = <<2^h * Norm(Divide(sum(w), h))[1], 2^h * Norm(Divide(sum(w), h))[2]>>
      <4>. HIDE DEF sum, h
      <4>1. QED
        BY <1>2, <1>3, <3>2, NormOfQuotient
    <3>4. QED
      BY <2>1, <3>1, <3>3 DEF Multiple
  <2>4. QED
    BY <2>2, <2>3
<1>7. f = o
  BY <1>3
<1>8. SumOver(NoWeight, o, BasisVector) = Multiple(n, norm(array))
  <2>1. IsKernel(K, BasisVector, D)
    BY <1>1, GateKernelType DEF IsKernel
  <2>2. IsOrthogonal(K, BasisVector, D, n)
    <3>1. \A v, u \in D : v \in BasisVector /\ u \in BasisVector
      BY <1>1
    <3>2. QED
      BY <3>1, GateIsOrthogonal DEF IsOrthogonal
  <2>3. norm(array) = SumOver(NoWeight, [v \in D |-> Norm(a[v])], D)
    BY SumOfIsSum DEF norm
  <2>. HIDE DEF K, D, n, a
  <2>4. QED
    BY <1>1, <1>2, <2>1, <2>2, <2>3, BasisVectorsFinite, WeightsMultiplied
<1>9. SumOver(NoWeight, f, BasisVector) = Multiple(n, SumOver(NoWeight, Squares(after), BasisVector))
  <2>1. ValuesIn(Squares(after), BasisVector, Weight)
    BY <1>5, SquaresType
  <2>. HIDE DEF f, n
  <2>2. QED
    BY <1>2, <1>6, <2>1, BasisVectorsFinite, SumMultiplied
<1>10. Multiple(n, norm(after)) = Multiple(n, norm(array))
  BY <1>5, <1>7, <1>8, <1>9, NormOverAll
<1>11. norm(after) \in Weight /\ norm(array) \in Weight
  BY <1>5, NormOverAll, SquaresType
<1>. HIDE DEF n
<1>12. norm(after) = norm(array)
  BY <1>2, <1>10, <1>11, MultipleLaws
<1>13. QED
  BY <1>5, <1>12

\* The constructor's check says that the rows are orthogonal, so the columns are.
LEMMA UnitaryColumns ==
  ASSUME NEW k \in Nat, NEW m, IsMatrixFor(m, k), IsUnitary(m)
  PROVE  HasOrthogonalColumns(m)
<1>. DEFINE N == 2^k
            J == 1..N
            n == 2^m.halvings
            K == RowTable(m, N)
<1>1. IsSquare(m, N) /\ N \in Nat
  BY PowersOfTwo DEF IsMatrixFor, IsSquare
<1>2. SizeOf(m) = N /\ n \in Nat \ {0} /\ IsFiniteSet(J)
  BY <1>1, SquareType, PowersOfTwo, FiniteRows
<1>3. IsKernel(K, J, J) /\ IsOrthogonal(K, J, J, n)
  <2>. HIDE DEF N
  <2>1. QED
    BY <1>1, RowsAreColumns, UnitaryIsOrthogonal
<1>4. \A r, c \in J : Transposed(K, J)[<<r, c>>] = m.rows[r][c]
  BY DEF Transposed, RowTable
<1>. HIDE DEF J, K, n
<1>5. IsOrthogonal(Transposed(K, J), J, J, n)
  BY <1>2, <1>3, RowsAndColumns
<1>6. ASSUME NEW c \in J, NEW b \in J
      PROVE  SumOver(Null, MatrixColumnProducts(m, c, b), J) = IF c = b THEN Real(n) ELSE Null
  <2>1. ColumnProducts(Transposed(K, J), J, c, b) = MatrixColumnProducts(m, c, b)
    BY <1>2, <1>4 DEF ColumnProducts, MatrixColumnProducts, J
  <2>2. QED
    BY <1>5, <2>1 DEF IsOrthogonal
<1>7. QED
  BY <1>2, <1>6 DEF HasOrthogonalColumns, J, n

\* A gate keeps the norm whether or not the clean-up runs before it.
LEMMA ApplyKeepsNorm ==
  ASSUME NEW k \in Nat, NEW m, IsMatrixFor(m, k), HasOrthogonalColumns(m),
         NEW operands \in [1..k -> Qubit], IsInjective(operands),
         NEW array, IsSparse(array), RepresentableApply(array, m, operands)
  PROVE  /\ IsSparse(apply_linear(array, m, operands))
         /\ norm(apply_linear(array, m, operands)) = norm(array)
<1>. DEFINE cleaned == Cleaned(array)
            after   == apply_linear(array, m, operands)
<1>1. /\ IsSparse(cleaned)
      /\ norm(cleaned) = norm(array)
      /\ \A v \in DOMAIN cleaned.data : v \in DOMAIN array.data /\ cleaned.data[v] = array.data[v]
      /\ \A v \in DOMAIN array.data : array.data[v] # Null => v \in DOMAIN cleaned.data
  <2>1. CASE cleaned = array
    BY <2>1
  <2>2. CASE cleaned = clean_up_zeros(array)
    <3>1. IsSparse(cleaned) /\ norm(cleaned) = norm(array)
      BY <2>2, CleanUpKeepsAmplitudes
    <3>2. \A v \in DOMAIN cleaned.data : v \in DOMAIN array.data
      BY <2>2, CleanUpKeepsAmplitudes
    <3>3. \A v \in DOMAIN array.data : array.data[v] # Null => v \in DOMAIN cleaned.data
      BY <2>2, CleanUpKeepsAmplitudes
    <3>4. \A v \in DOMAIN cleaned.data : cleaned.data[v] = array.data[v]
      BY <2>2 DEF clean_up_zeros, RestrictValues, Restrict
    <3>5. QED
      BY <3>1, <3>2, <3>3, <3>4
  <2>3. QED
    BY <2>1, <2>2 DEF Cleaned
<1>. HIDE DEF cleaned
<1>2. ASSUME NEW w \in BasisVector
      PROVE  Added(cleaned.data, m, operands, w) = Added(array.data, m, operands, w)
  <2>1. ASSUME NEW v \in DOMAIN array.data, array.data[v] = Null
        PROVE  AddedValue(array.data, m, operands, v, w) = Null
    BY <2>1 DEF AddedValue, Times
  <2>2. Sources(cleaned.data, m, operands, w) = Sources(array.data, m, operands, w)
    BY <1>1, <2>1 DEF Sources, AddedValue
  <2>3. \A v \in Sources(cleaned.data, m, operands, w) :
          AddedValue(cleaned.data, m, operands, v, w) = AddedValue(array.data, m, operands, v, w)
    BY <1>1 DEF Sources, AddedValue
  <2>4. QED
    BY <2>2, <2>3 DEF Added
<1>3. RepresentableApply(cleaned, m, operands)
  BY <1>2 DEF RepresentableApply
<1>4. after.data = apply_impl(cleaned.data, m, operands)
  BY DEF apply_linear, cleaned
<1>. HIDE DEF after
<1>5. IsSparse(after) /\ norm(after) = norm(cleaned)
  BY <1>1, <1>3, <1>4, GateKeepsNorm
<1>6. QED
  BY <1>1, <1>5 DEF after

\* The ground state, alone.
LEMMA GroundStateNorm ==
  ASSUME NEW array, array.data = [v \in {GroundState} |-> Root2Power(Scale)]
  PROVE  IsSparse(array) /\ norm(array) = Unity
<1>. DEFINE g == GroundState
            z == Root2Power(Scale)
            f == [v \in {g} |-> Norm(array.data[v])]
<1>1. z \in Ring /\ Norm(z) = Unity
  <2>1. Real(1) \in Ring /\ Norm(Real(1)) = <<1, 0>>
    BY DEF Real, Norm, Ring
  <2>2. z \in Ring
    BY ScaleAssumption, Root2Powers
  <2>3. Times(Real(1), z) = z
    BY <2>1, <2>2, TimesRing
  <2>4. Norm(Times(Real(1), z)) = <<2^Scale * 1, 2^Scale * 0>>
    BY <2>1, ScaleAssumption, NormOfRoot2Power
  <2>5. 2^Scale \in Nat
    BY ScaleAssumption, PowersOfTwo
  <2>6. QED
    BY <2>2, <2>3, <2>4, <2>5 DEF Unity
<1>2. g \in BasisVector
  BY DEF GroundState, BasisVector
<1>. HIDE DEF g, z
<1>3. IsSparse(array)
  BY <1>1, <1>2 DEF IsSparse, ValuesIn, g, z
<1>4. f[g] = Unity /\ Unity \in Weight /\ ValuesIn(f, {g}, Weight)
  <2>1. f[g] = Unity
    BY <1>1 DEF g, z
  <2>2. Unity \in Weight
    BY <1>1, NormIsSquare
  <2>3. QED
    BY <2>1, <2>2 DEF ValuesIn
<1>5. norm(array) = SumOver(NoWeight, f, {g})
  BY SumOfIsSum DEF norm, g
<1>. HIDE DEF f
<1>6. IsFiniteSet({g}) /\ {g} \ {g} = {} /\ {g} \in SUBSET {g} /\ g \in {g}
  BY FS_Singleton
<1>7. SumOver(NoWeight, f, {}) = NoWeight
  BY <1>4, <1>6, Spaces, Sums
<1>8. SumOver(NoWeight, f, {g}) = Plus(f[g], SumOver(NoWeight, f, {g} \ {g}))
  BY <1>4, <1>6, Spaces, Sums
<1>9. Plus(Unity, NoWeight) = Unity
  BY <1>4, Spaces, PlusWeight
<1>10. QED
  BY <1>3, <1>4, <1>5, <1>6, <1>7, <1>8, <1>9

-----------------------------------------------------------------------------
(* Measuring and resetting a qubit.                                        *)

\* What the entries that agree with an outcome weigh is the weight of the outcome.
LEMMA KeptWeight ==
  ASSUME NEW array, IsSparse(array), norm(array) = Unity, NEW q \in Qubit,
         NEW measured \in BOOLEAN
  PROVE  LET p_one == probability_of_measuring_one(array, q)
             f     == [v \in DOMAIN array.data |-> Norm(array.data[v])]
             kept  == {v \in DOMAIN array.data : v[q] = measured}
         IN  /\ p_one \in Weight
             /\ ValuesIn(f, DOMAIN array.data, Weight)
             /\ kept \in SUBSET DOMAIN array.data /\ IsFiniteSet(kept)
             /\ IsFiniteSet(DOMAIN array.data)
             /\ SumOver(NoWeight, f, kept) = OutcomeWeight(measured, p_one)
<1>. DEFINE D     == DOMAIN array.data
            p_one == probability_of_measuring_one(array, q)
            f     == [v \in D |-> Norm(array.data[v])]
            kept  == {v \in D : v[q] = measured}
            set   == {v \in D : v[q]}
            g     == [v \in set |-> Norm(array.data[v])]
<1>1. IsFiniteSet(D) /\ D \subseteq BasisVector
  BY BasisVectorsFinite, FS_Subset DEF IsSparse
<1>2. ValuesIn(f, D, Weight)
  BY NormIsSquare DEF IsSparse, ValuesIn
<1>3. set \in SUBSET D /\ IsFiniteSet(set) /\ kept \in SUBSET D /\ IsFiniteSet(kept)
  BY <1>1, FS_Subset
<1>4. p_one = SumOver(NoWeight, g, set)
  <2>1. DOMAIN g = set
    OBVIOUS
  <2>2. p_one = SumOf(NoWeight, g)
    BY DEF probability_of_measuring_one
  <2>. HIDE DEF g, set, p_one
  <2>3. QED
    BY <2>1, <2>2, SumOfIsSum
<1>5. norm(array) = SumOver(NoWeight, f, D)
  BY SumOfIsSum DEF norm
<1>6. \A v \in set : g[v] = f[v]
  OBVIOUS
<1>7. \A v \in D : v[q] \in BOOLEAN
  BY <1>1 DEF BasisVector
<1>8. kept = IF measured THEN set ELSE D \ set
  <2>1. CASE measured
    BY <1>7, <2>1
  <2>2. CASE ~measured
    BY <1>7, <2>2
  <2>3. QED
    BY <2>1, <2>2
<1>. HIDE DEF D, f, g, set, kept, p_one
<1>9. ValuesIn(f, set, Weight)
  BY <1>2, <1>3 DEF ValuesIn
<1>10. p_one = SumOver(NoWeight, f, set)
  BY <1>3, <1>4, <1>6, <1>9, Spaces, SumEqual
<1>11. p_one \in Weight /\ SumOver(NoWeight, f, D \ set) \in Weight
  <2>1. D \ set \in SUBSET D
    OBVIOUS
  <2>2. QED
    BY <1>1, <1>2, <1>3, <1>10, <2>1, Spaces, Sums
<1>12. Unity = Plus(p_one, SumOver(NoWeight, f, D \ set))
  BY <1>1, <1>2, <1>3, <1>5, <1>10, Spaces, SumUnion
<1>13. SumOver(NoWeight, f, D \ set) = Complement(p_one)
  <2>1. PICK a, b \in Int : p_one = <<a, b>>
    BY <1>11, WeightParts
  <2>2. PICK c, d \in Int : SumOver(NoWeight, f, D \ set) = <<c, d>>
    BY <1>11, WeightParts
  <2>3. Unity = <<a + c, b + d>>
    BY <1>12, <2>1, <2>2 DEF Plus
  <2>4. Unity[1] = a + c /\ Unity[2] = b + d
    BY <2>3
  <2>5. Complement(p_one) = <<(a + c) - a, (b + d) - b>>
    BY <2>1, <2>4 DEF Complement
  <2>6. QED
    BY <2>2, <2>5
<1>14. SumOver(NoWeight, f, kept) = OutcomeWeight(measured, p_one)
  BY <1>8, <1>10, <1>13 DEF OutcomeWeight
<1>15. QED
  BY <1>1, <1>2, <1>3, <1>11, <1>14 DEF D, f, kept, p_one

\* A random number between zero and one never draws an outcome of no weight.
LEMMA OutcomeHasWeight ==
  ASSUME NEW range \in Nat, NEW draw \in 1..range, draw # range, NEW p_one \in Weight
  PROVE  OutcomeWeight(Below(draw, range, p_one), p_one) # NoWeight
<1>. DEFINE n == 2^Scale
<1>1. n \in Nat \ {0}
  BY ScaleAssumption, PowersOfTwo
<1>2. Unity = <<n, 0>>
  BY DEF Unity
<1>3. PICK a, b \in Int : p_one = <<a, b>>
  BY WeightParts
<1>4. Below(draw, range, p_one) <=> Positive(<<range * a - draw * n, range * b>>)
  BY <1>3 DEF Below
<1>. HIDE DEF n
<1>5. CASE Below(draw, range, p_one)
  <2>. SUFFICES ASSUME p_one = NoWeight
                PROVE  FALSE
    BY <1>5 DEF OutcomeWeight
  <2>1. a = 0 /\ b = 0
    BY <1>3 DEF NoWeight
  <2>2. range * b = 0 /\ range * a = 0
    BY <2>1
  <2>3. draw * n > 0
    BY <1>1
  <2>4. draw * n \in Int
    BY <1>1
  <2>5. range * a - draw * n < 0 /\ range * a - draw * n \in Int
    BY <2>2, <2>3, <2>4
  <2>6. ~Positive(<<range * a - draw * n, range * b>>)
    BY <2>2, <2>5 DEF Positive
  <2>7. QED
    BY <1>4, <1>5, <2>6
<1>6. CASE ~Below(draw, range, p_one)
  <2>. SUFFICES ASSUME Complement(p_one) = NoWeight
                PROVE  FALSE
    BY <1>6 DEF OutcomeWeight
  <2>1. Complement(p_one) = <<n - a, 0 - b>>
    BY <1>2, <1>3 DEF Complement
  <2>2. n - a = 0 /\ 0 - b = 0
    BY <2>1 DEF NoWeight
  <2>3. a = n /\ b = 0
    BY <1>1, <2>2
  <2>4. range * b = 0
    BY <2>3
  <2>5. range * a - draw * n = (range - draw) * n
    BY <1>1, <2>3
  <2>6. (range - draw) * n > 0 /\ (range - draw) * n \in Int
    <3>1. range - draw \in Nat \ {0}
      OBVIOUS
    <3>2. QED
      BY <1>1, <3>1
  <2>7. Positive(<<range * a - draw * n, range * b>>)
    <3>. DEFINE p == range * a - draw * n
    <3>1. p > 0 /\ p \in Int
      BY <2>5, <2>6
    <3>. HIDE DEF p
    <3>2. Positive(<<p, 0>>)
      BY <3>1 DEF Positive, NoWeight
    <3>3. QED
      BY <2>4, <3>2 DEF p
  <2>8. QED
    BY <1>4, <1>6, <2>7
<1>7. QED
  BY <1>5, <1>6

\* Normalizing by a representable weight.
LEMMA NormalizeType ==
  ASSUME NEW s \in Weights
  PROVE  \E j \in 0..Scale : /\ s = <<2^(Scale - j), 0>>
                             /\ \A z : Normalize(z, s) = Times(z, Root2Power(j))
                             /\ Multiple(2^j, s) = Unity
<1>. DEFINE Is(j) == s = <<2^(Scale - j), 0>>
            j     == CHOOSE i \in 0..Scale : Is(i)
<1>1. PICK k \in 0..Scale : s = <<2^k, 0>>
  BY DEF Weights
<1>2. Scale - k \in 0..Scale /\ Scale - (Scale - k) = k
  BY ScaleAssumption
<1>3. \E i \in 0..Scale : Is(i)
  BY <1>1, <1>2
<1>4. j \in 0..Scale /\ Is(j)
  BY <1>3
<1>5. \A z : Normalize(z, s) = Times(z, Root2Power(j))
  BY DEF Normalize
<1>. HIDE DEF j
<1>6. j \in Nat /\ Scale - j \in Nat /\ j + (Scale - j) = Scale
  BY <1>4, ScaleAssumption
<1>7. 2^j * 2^(Scale - j) = 2^Scale /\ 2^j \in Nat
  <2>1. 2^(j + (Scale - j)) = 2^j * 2^(Scale - j)
    BY <1>6, PowersMultiply
  <2>2. QED
    BY <1>6, <2>1, PowersOfTwo
<1>8. Multiple(2^j, s) = Unity
  BY <1>4, <1>7 DEF Multiple, Unity
<1>9. QED
  BY <1>4, <1>5, <1>8

\* The state after a measurement is normalized again.
LEMMA MeasurementNormalizes ==
  ASSUME NEW array, IsSparse(array), norm(array) = Unity, NEW q \in Qubit,
         NEW measured \in BOOLEAN, NEW p_one, p_one = probability_of_measuring_one(array, q),
         OutcomeWeight(measured, p_one) # NoWeight,
         RepresentableMeasurement(array, q, measured, p_one)
  PROVE  /\ IsSparse(update_data_after_measurement(array, q, measured, p_one))
         /\ norm(update_data_after_measurement(array, q, measured, p_one)) = Unity
         /\ \E v \in DOMAIN array.data : v[q] = measured
<1>. DEFINE D     == DOMAIN array.data
            f     == [v \in D |-> Norm(array.data[v])]
            kept  == {v \in D : v[q] = measured}
            s     == OutcomeWeight(measured, p_one)
            after == update_data_after_measurement(array, q, measured, p_one)
            g     == [v \in kept |-> Norm(after.data[v])]
<1>1. /\ ValuesIn(f, D, Weight)
      /\ kept \in SUBSET D /\ IsFiniteSet(kept)
      /\ SumOver(NoWeight, f, kept) = s
  <2>1. /\ ValuesIn(f, D, Weight)
        /\ kept \in SUBSET D /\ IsFiniteSet(kept)
        /\ SumOver(NoWeight, f, kept) = OutcomeWeight(measured, probability_of_measuring_one(array, q))
    BY KeptWeight
  <2>2. QED
    BY <2>1
<1>2. kept # {}
  <2>1. CASE kept = {}
    <3>1. IsFiniteSet({}) /\ ValuesIn(f, {}, Weight)
      BY FS_EmptySet DEF ValuesIn
    <3>. HIDE DEF f, kept, s
    <3>2. SumOver(NoWeight, f, {}) = NoWeight
      BY <3>1, Spaces, Sums
    <3>3. QED
      BY <1>1, <2>1, <3>2 DEF s
  <2>2. QED
    BY <2>1
<1>3. DOMAIN erase_if(array.data, q, measured) = kept
      /\ \A v \in kept : erase_if(array.data, q, measured)[v] = array.data[v]
  BY DEF erase_if, RestrictDomain, Restrict
<1>4. s \in Weights
  BY <1>2, <1>3 DEF RepresentableMeasurement
<1>5. PICK j \in 0..Scale : /\ \A z : Normalize(z, s) = Times(z, Root2Power(j))
                            /\ Multiple(2^j, s) = Unity
  BY <1>4, NormalizeType
<1>6. after.data = [v \in kept |-> Times(array.data[v], Root2Power(j))]
  BY <1>3, <1>5 DEF update_data_after_measurement
<1>7. ASSUME NEW v \in kept
      PROVE  after.data[v] \in Ring /\ g[v] = Multiple(2^j, f[v]) /\ f[v] \in Weight
  <2>1. array.data[v] \in Ring /\ j \in Nat
    BY <1>5 DEF IsSparse, ValuesIn
  <2>2. Times(array.data[v], Root2Power(j)) \in Ring
    BY <2>1, NormOfRoot2Power
  <2>3. Norm(Times(array.data[v], Root2Power(j)))
          = <<2^j * Norm(array.data[v])[1], 2^j * Norm(array.data[v])[2]>>
    BY <2>1, NormOfRoot2Power
  <2>4. after.data[v] = Times(array.data[v], Root2Power(j))
    BY <1>6
  <2>5. f[v] = Norm(array.data[v]) /\ f[v] \in Weight
    BY <1>1 DEF ValuesIn
  <2>6. g[v] = Norm(after.data[v])
    OBVIOUS
  <2>7. QED
    BY <2>2, <2>3, <2>4, <2>5, <2>6 DEF Multiple
<1>8. DOMAIN after.data = kept
  BY <1>6
<1>9. IsSparse(after)
  <2>1. kept \subseteq BasisVector
    BY DEF IsSparse
  <2>. HIDE DEF after, kept
  <2>2. QED
    BY <1>7, <1>8, <2>1 DEF IsSparse, ValuesIn
<1>10. norm(after) = SumOver(NoWeight, g, kept)
  BY <1>8, SumOfIsSum DEF norm
<1>11. SumOver(NoWeight, g, kept) = Multiple(2^j, s)
  <2>1. 2^j \in Int
    BY <1>5, PowersOfTwo
  <2>2. ValuesIn(f, kept, Weight)
    BY <1>7 DEF ValuesIn
  <2>3. \A v \in kept : g[v] = Multiple(2^j, f[v])
    BY <1>7
  <2>. HIDE DEF g, f, kept, s
  <2>4. SumOver(NoWeight, g, kept) = Multiple(2^j, SumOver(NoWeight, f, kept))
    BY <1>1, <2>1, <2>2, <2>3, SumMultiplied
  <2>5. QED
    BY <1>1, <2>4
<1>12. QED
  BY <1>2, <1>5, <1>9, <1>10, <1>11

\* The amplitudes that a reset leaves: none where the qubit is set, and where it is
\* clear the root of what both entries weigh together.
LEMMA ResetAmplitudes ==
  ASSUME NEW array, IsSparse(array), NEW q \in Qubit, RepresentableReset(array, q)
  PROVE  LET after == update_data_after_reset(array, q)
         IN  /\ IsSparse(after)
             /\ \A w \in BasisVector : w[q] => Squares(after)[w] = NoWeight
             /\ \A w \in BasisVector : ~w[q] =>
                  Squares(after)[w] = Plus(Squares(array)[w], Squares(array)[[w EXCEPT ![q] = TRUE]])
<1>. DEFINE after   == update_data_after_reset(array, q)
            D       == DOMAIN array.data
            moved   == Moved(array, q)
            targets == {Clear(v, q) : v \in moved}
            up(w)   == [w EXCEPT ![q] = TRUE]
<1>1. moved = {v \in D : array.data[v] # Null /\ v[q]}
  BY CleanUpKeepsAmplitudes DEF Moved
<1>2. D \subseteq BasisVector /\ moved \subseteq D
  BY <1>1 DEF IsSparse
<1>3. \A w \in BasisVector : Clear(w, q) \in BasisVector /\ up(w) \in BasisVector
  BY DEF Clear, BasisVector
<1>4. \A w \in BasisVector : up(w)[q] /\ ~Clear(w, q)[q]
  BY DEF Clear, BasisVector
<1>5. ASSUME NEW w \in BasisVector, ~w[q]
      PROVE  Clear(up(w), q) = w
  <2>1. w[q] = FALSE
    BY <1>5 DEF BasisVector
  <2>2. QED
    BY <2>1 DEF Clear, BasisVector
<1>6. ASSUME NEW w \in BasisVector, w[q]
      PROVE  up(Clear(w, q)) = w
  <2>1. w[q] = TRUE
    BY <1>6 DEF BasisVector
  <2>2. QED
    BY <2>1 DEF Clear, BasisVector
<1>7. after.data = [ w \in D \union targets |->
                       IF w \in moved THEN Null
                       ELSE IF w \in targets THEN Root(MergedNorm(array, up(w), q))
                       ELSE array.data[w] ]
  BY DEF update_data_after_reset
<1>. HIDE DEF after, moved
<1>8. \A w \in BasisVector : ~w[q] => (w \in targets <=> up(w) \in moved)
  <2>1. ASSUME NEW w \in BasisVector, ~w[q], w \in targets
        PROVE  up(w) \in moved
    <3>1. PICK v \in moved : w = Clear(v, q)
      BY <2>1
    <3>2. v \in BasisVector /\ v[q]
      BY <1>1, <1>2
    <3>3. up(w) = v
      BY <1>6, <3>1, <3>2
    <3>4. QED
      BY <3>3
  <2>2. ASSUME NEW w \in BasisVector, ~w[q], up(w) \in moved
        PROVE  w \in targets
    BY <1>5, <2>2
  <2>3. QED
    BY <2>1, <2>2
<1>9. \A w \in BasisVector : Amplitude(array, w) \in Ring /\ Squares(array)[w] \in Weight
                             /\ Squares(array)[w] = Norm(Amplitude(array, w))
  BY SquaresType DEF ValuesIn, Squares
<1>10. ASSUME NEW w \in BasisVector, ~w[q], up(w) \in moved
       PROVE  /\ MergedNorm(array, up(w), q) = Plus(Squares(array)[w], Squares(array)[up(w)])
              /\ Root(MergedNorm(array, up(w), q)) \in Ring
              /\ Norm(Root(MergedNorm(array, up(w), q)))
                   = Plus(Squares(array)[w], Squares(array)[up(w)])
  <2>1. up(w) \in D /\ Amplitude(array, up(w)) = array.data[up(w)]
    BY <1>2, <1>10 DEF Amplitude
  <2>2. Squares(array)[w] = Norm(Amplitude(array, w))
        /\ Squares(array)[up(w)] = Norm(Amplitude(array, up(w)))
    BY <1>3, <1>9
  <2>3. Clear(up(w), q) = w
    BY <1>5, <1>10
  <2>4. MergedNorm(array, up(w), q) = Plus(Squares(array)[w], Squares(array)[up(w)])
    BY <2>1, <2>2, <2>3 DEF MergedNorm
  <2>5. Squares(array)[w] \in Weight /\ Squares(array)[up(w)] \in Weight
    BY <1>3, <1>9
  <2>6. Plus(Squares(array)[w], Squares(array)[up(w)]) \in Weight
    BY <2>5, PlusWeight
  <2>7. HasRoot(MergedNorm(array, up(w), q))
    BY <1>10 DEF RepresentableReset, moved
  <2>8. QED
    BY <2>4, <2>6, <2>7, NormOfRoot
<1>11. ASSUME NEW w \in BasisVector, w[q]
       PROVE  Amplitude(after, w) = Null
  <2>1. w \notin targets
    BY <1>2, <1>4, <1>11
  <2>2. CASE w \notin D
    BY <1>7, <2>1, <2>2 DEF Amplitude
  <2>3. CASE w \in moved
    BY <1>2, <1>7, <2>3 DEF Amplitude
  <2>4. CASE w \in D /\ w \notin moved
    BY <1>1, <1>7, <1>11, <2>1, <2>4 DEF Amplitude
  <2>5. QED
    BY <2>2, <2>3, <2>4
<1>12. ASSUME NEW w \in BasisVector, ~w[q]
       PROVE  /\ Amplitude(after, w) \in Ring
              /\ Norm(Amplitude(after, w)) = Plus(Squares(array)[w], Squares(array)[up(w)])
  <2>1. w \notin moved
    BY <1>1, <1>12
  <2>2. CASE up(w) \in moved
    <3>1. w \in targets
      BY <1>8, <1>12, <2>2
    <3>2. Amplitude(after, w) = Root(MergedNorm(array, up(w), q))
      BY <1>7, <2>1, <3>1 DEF Amplitude
    <3>3. QED
      BY <1>10, <1>12, <2>2, <3>2
  <2>3. CASE up(w) \notin moved
    <3>1. w \notin targets
      BY <1>8, <1>12, <2>3
    <3>2. Amplitude(after, w) = Amplitude(array, w)
      BY <1>7, <2>1, <3>1 DEF Amplitude
    <3>3. Amplitude(array, up(w)) = Null
      BY <1>1, <1>3, <1>4, <2>3 DEF Amplitude
    <3>4. Squares(array)[up(w)] = NoWeight
      BY <1>3, <1>9, <3>3, NormNull
    <3>5. Plus(Squares(array)[w], NoWeight) = Squares(array)[w]
      BY <1>9, PlusWeight
    <3>6. QED
      BY <1>9, <3>2, <3>4, <3>5
  <2>4. QED
    BY <2>2, <2>3
<1>13. DOMAIN after.data \subseteq BasisVector
  BY <1>2, <1>3, <1>7
<1>14. ASSUME NEW w \in DOMAIN after.data
       PROVE  after.data[w] \in Ring
  <2>1. after.data[w] = Amplitude(after, w) /\ w \in BasisVector
    BY <1>13 DEF Amplitude
  <2>2. QED
    BY <1>11, <1>12, <2>1, Spaces
<1>15. IsSparse(after)
  BY <1>13, <1>14 DEF IsSparse, ValuesIn
<1>16. \A w \in BasisVector : w[q] => Squares(after)[w] = NoWeight
  BY <1>11, NormNull DEF Squares
<1>17. \A w \in BasisVector : ~w[q] =>
         Squares(after)[w] = Plus(Squares(array)[w], Squares(array)[up(w)])
  BY <1>12 DEF Squares
<1>18. QED
  BY <1>15, <1>16, <1>17 DEF after

\* A reset loses no weight.
LEMMA ResetKeepsNorm ==
  ASSUME NEW array, IsSparse(array), NEW q \in Qubit, RepresentableReset(array, q)
  PROVE  /\ IsSparse(update_data_after_reset(array, q))
         /\ norm(update_data_after_reset(array, q)) = norm(array)
<1>. DEFINE after == update_data_after_reset(array, q)
            clear == {w \in BasisVector : ~w[q]}
            set   == {w \in BasisVector : w[q]}
            f     == Squares(array)
            g     == Squares(after)
            b     == [w \in clear |-> [w EXCEPT ![q] = TRUE]]
            fb    == [w \in clear |-> f[b[w]]]
<1>1. /\ IsSparse(after)
      /\ \A w \in set : g[w] = NoWeight
      /\ \A w \in clear : g[w] = Plus(f[w], fb[w])
  BY ResetAmplitudes
<1>2. ValuesIn(f, BasisVector, Weight) /\ ValuesIn(g, BasisVector, Weight)
  BY <1>1, SquaresType
<1>3. clear \in SUBSET BasisVector /\ BasisVector \ clear = set /\ IsFiniteSet(clear)
      /\ set \in SUBSET BasisVector
  BY BasisVectorsFinite, FS_Subset
<1>4. b \in Bijection(clear, set)
  <2>1. b \in [clear -> set]
    BY DEF BasisVector
  <2>2. ASSUME NEW v \in clear, NEW w \in clear, b[v] = b[w]
        PROVE  v = w
    <3>1. \A p \in Qubit : b[v][p] = b[w][p]
      BY <2>2
    <3>2. \A p \in Qubit : p # q => v[p] = w[p]
      BY <3>1 DEF BasisVector
    <3>3. v[q] = FALSE /\ w[q] = FALSE
      BY DEF BasisVector
    <3>4. \A p \in Qubit : v[p] = w[p]
      BY <3>2, <3>3
    <3>5. QED
      BY <3>4 DEF BasisVector
  <2>3. ASSUME NEW w \in set
        PROVE  \E v \in clear : b[v] = w
    <3>. DEFINE v == [w EXCEPT ![q] = FALSE]
    <3>1. v \in clear
      BY DEF BasisVector
    <3>2. w[q] = TRUE
      BY DEF BasisVector
    <3>3. b[v] = w
      BY <3>1, <3>2 DEF BasisVector
    <3>4. QED
      BY <3>1, <3>3
  <2>. HIDE DEF b, clear, set
  <2>4. QED
    BY <2>1, <2>2, <2>3 DEF Bijection, Injection, Surjection, IsInjective
<1>5. \A w \in clear : b[w] \in set /\ fb[w] = f[b[w]]
  <2>1. \A w \in clear : fb[w] = f[b[w]]
    OBVIOUS
  <2>. HIDE DEF b, clear, set, fb
  <2>2. QED
    BY <1>4, <2>1 DEF Bijection, Injection
<1>. HIDE DEF f, g, b, clear, set, fb
<1>6. /\ ValuesIn(f, clear, Weight) /\ ValuesIn(f, set, Weight) /\ ValuesIn(fb, clear, Weight)
      /\ ValuesIn(g, clear, Weight)
  BY <1>2, <1>3, <1>5 DEF ValuesIn
<1>7. SumOver(NoWeight, f, BasisVector)
        = Plus(SumOver(NoWeight, f, clear), SumOver(NoWeight, f, set))
  BY <1>2, <1>3, Spaces, BasisVectorsFinite, SumUnion
<1>8. SumOver(NoWeight, fb, clear) = SumOver(NoWeight, f, set)
  BY <1>3, <1>4, <1>5, <1>6, Spaces, SumReindexed
<1>9. SumOver(NoWeight, g, clear) = Plus(SumOver(NoWeight, f, clear), SumOver(NoWeight, fb, clear))
  BY <1>1, <1>3, <1>6, Spaces, SumAdd
<1>10. SumOver(NoWeight, g, BasisVector) = SumOver(NoWeight, g, clear)
  BY <1>1, <1>2, <1>3, Spaces, BasisVectorsFinite, SumSupport
<1>11. norm(after) = SumOver(NoWeight, g, BasisVector)
       /\ norm(array) = SumOver(NoWeight, f, BasisVector)
  BY <1>1, NormOverAll DEF f, g
<1>12. QED
  BY <1>1, <1>7, <1>8, <1>9, <1>10, <1>11

-----------------------------------------------------------------------------
(* The context.                                                            *)

USE DEF Qubit, BasisVector

-----------------------------------------------------------------------------
(* The operations on a SparseArray, by the basis vectors they leave.       *)

LEMMA CleanUpDomain ==
  ASSUME NEW array
  PROVE  /\ clean_up_zeros(array).zero_counter = 0
         /\ DOMAIN clean_up_zeros(array) = {"data", "zero_counter"}
         /\ DOMAIN clean_up_zeros(array).data
              = {v \in DOMAIN array.data : array.data[v] # Null}
         /\ \A v \in DOMAIN clean_up_zeros(array).data :
              clean_up_zeros(array).data[v] = array.data[v]
BY DEF clean_up_zeros, RestrictValues, Restrict

\* Only entries that agree with a basis vector outside the operands add to it.
LEMMA ApplyDomain ==
  ASSUME NEW data, NEW m, NEW operands,
         NEW w \in DOMAIN apply_impl(data, m, operands)
  PROVE  /\ w \in BasisVector
         /\ \E v \in DOMAIN data : AgreeOutside(operands, v, w)
BY DEF apply_impl, Sources

LEMMA ApplyLinearDomain ==
  ASSUME NEW array, NEW m, NEW operands,
         NEW w \in DOMAIN apply_linear(array, m, operands).data
  PROVE  /\ w \in BasisVector
         /\ \E v \in DOMAIN array.data : AgreeOutside(operands, v, w)
<1>1. w \in DOMAIN apply_impl(Cleaned(array).data, m, operands)
  BY DEF apply_linear
<1>2. DOMAIN Cleaned(array).data \subseteq DOMAIN array.data
  BY CleanUpDomain DEF Cleaned
<1>3. QED
  BY <1>1, <1>2, ApplyDomain

LEMMA MeasureDomain ==
  ASSUME NEW array, NEW q, NEW measured, NEW p_one
  PROVE  LET after == update_data_after_measurement(array, q, measured, p_one)
         IN  /\ DOMAIN after = {"data", "zero_counter"}
             /\ after.zero_counter = array.zero_counter
             /\ DOMAIN after.data = {v \in DOMAIN array.data : v[q] = measured}
BY DEF update_data_after_measurement, erase_if, RestrictDomain, Restrict

LEMMA ResetDomain ==
  ASSUME NEW array, NEW q
  PROVE  LET after == update_data_after_reset(array, q)
         IN  /\ DOMAIN after = {"data", "zero_counter"}
             /\ after.zero_counter = array.zero_counter
             /\ DOMAIN after.data
                  \subseteq DOMAIN array.data \union {Clear(v, q) : v \in DOMAIN array.data}
BY CleanUpDomain DEF update_data_after_reset, Moved

-----------------------------------------------------------------------------

LEMMA InitTypeOK == Init => TypeOK
BY CycleAssumption DEF Init, TypeOK, GroundState

\* What an instruction measures or resets lies in its register.
IsPlaced(i) ==
  /\ i.kind = "Measure" => i.qubit \in Qubit /\ i.bit \in Bit
  /\ i.kind = "Reset"   => i.qubit \in Qubit

LEMMA InstructionIsPlaced ==
  ASSUME NEW i, IsInstruction(i)
  PROVE  IsPlaced(i)
<1>1. ASSUME NEW g \in Gates, NEW operands \in OperandLists(g), i = ApplyGate(g, operands)
      PROVE  IsPlaced(i)
  <2>1. i.kind = "Unitary"
    BY <1>1 DEF ApplyGate
  <2>2. QED
    BY <2>1 DEF IsPlaced
<1>2. ASSUME NEW q \in Qubit, NEW b \in Bit, i = MeasureInto(q, b)
      PROVE  IsPlaced(i)
  BY <1>2 DEF IsPlaced, MeasureInto
<1>3. ASSUME NEW q \in Qubit, i = ResetQubit(q)
      PROVE  IsPlaced(i)
  BY <1>3 DEF IsPlaced, ResetQubit
<1>4. QED
  BY <1>1, <1>2, <1>3 DEF IsInstruction

\* A step of the context is an instruction, or one of the two other operations.
LEMMA NextIsExecution ==
  ASSUME Next
  PROVE  (\E i : IsInstruction(i) /\ Execute(i)) \/ ResetAll \/ Inspect
<1>1. ASSUME NEW g \in Gates, NEW operands \in OperandLists(g), Unitary(g, operands)
      PROVE  \E i : IsInstruction(i) /\ Execute(i)
  <2>. DEFINE i == ApplyGate(g, operands)
  <2>1. i.kind = "Unitary" /\ i.gate = g /\ i.operands = operands
    BY DEF ApplyGate
  <2>2. IsInstruction(i) /\ Execute(i)
    BY <1>1, <2>1 DEF IsInstruction, Execute
  <2>3. QED
    BY <2>2
<1>2. ASSUME NEW q \in Qubit, NEW b \in Bit, NEW draw \in Draws, Measure(q, b, draw)
      PROVE  \E i : IsInstruction(i) /\ Execute(i)
  <2>. DEFINE i == MeasureInto(q, b)
  <2>1. i.kind = "Measure" /\ i.qubit = q /\ i.bit = b
    BY DEF MeasureInto
  <2>2. IsInstruction(i) /\ Execute(i)
    BY <1>2, <2>1 DEF IsInstruction, Execute
  <2>3. QED
    BY <2>2
<1>3. ASSUME NEW q \in Qubit, Reset(q)
      PROVE  \E i : IsInstruction(i) /\ Execute(i)
  <2>. DEFINE i == ResetQubit(q)
  <2>1. i.kind = "Reset" /\ i.qubit = q
    BY DEF ResetQubit
  <2>2. IsInstruction(i) /\ Execute(i)
    BY <1>3, <2>1 DEF IsInstruction, Execute
  <2>3. QED
    BY <2>2
<1>4. QED
  BY <1>1, <1>2, <1>3 DEF Next

LEMMA ExecuteKeepsTypes ==
  ASSUME TypeOK, NEW i, IsPlaced(i), Execute(i)
  PROVE  TypeOK'
<1>1. CASE i.kind = "Unitary" /\ Unitary(i.gate, i.operands)
  <2>1. DOMAIN state' = {"data", "zero_counter"}
    BY <1>1 DEF Unitary, apply_linear
  <2>2. DOMAIN state'.data \subseteq BasisVector
    BY <1>1, ApplyLinearDomain DEF Unitary
  <2>3. state'.zero_counter \in 0..ZERO_CYCLE_SIZE
    BY <1>1, CycleAssumption, CleanUpDomain DEF Unitary, apply_linear, Cleaned, TypeOK
  <2>4. settled' \subseteq Qubit
    BY <1>1 DEF Unitary, TypeOK
  <2>5. QED
    BY <1>1, <2>1, <2>2, <2>3, <2>4 DEF Unitary, TypeOK
<1>2. ASSUME NEW q \in Qubit, NEW b \in Bit, NEW draw \in Draws, Measure(q, b, draw)
      PROVE  TypeOK'
  <2> DEFINE p_one    == probability_of_measuring_one(clean_up_zeros(state), q)
             measured == Below(draw, DrawRange, p_one)
  <2>1. measured \in BOOLEAN
    BY DEF Below, Positive
  <2>2. state' = update_data_after_measurement(clean_up_zeros(state), q, measured, p_one)
    BY <1>2 DEF Measure
  <2>3. /\ DOMAIN state' = {"data", "zero_counter"}
        /\ DOMAIN state'.data \subseteq DOMAIN state.data
        /\ state'.zero_counter = 0
    BY <2>2, CleanUpDomain, MeasureDomain
  <2>4. /\ measurement_register' \in [Qubit -> BOOLEAN]
        /\ bit_measurement_register' \in [Bit -> BOOLEAN]
        /\ settled' \subseteq Qubit
    BY <1>2, <2>1 DEF Measure, SetTo, TypeOK
  <2>5. QED
    BY <2>3, <2>4, CycleAssumption DEF TypeOK
<1>3. ASSUME NEW q \in Qubit, Reset(q)
      PROVE  TypeOK'
  <2>1. \A v \in DOMAIN state.data : Clear(v, q) \in BasisVector
    BY DEF TypeOK, Clear
  <2>2. /\ DOMAIN state' = {"data", "zero_counter"}
        /\ DOMAIN state'.data \subseteq BasisVector
        /\ state'.zero_counter = state.zero_counter
    BY <1>3, <2>1, ResetDomain DEF Reset, TypeOK
  <2>3. QED
    BY <1>3, <2>2 DEF Reset, TypeOK
<1>4. QED
  BY <1>1, <1>2, <1>3 DEF Execute, IsPlaced

LEMMA TypeStep ==
  ASSUME TypeOK, [Next]_vars
  PROVE  TypeOK'
<1>1. ASSUME NEW g \in Gates, NEW operands \in OperandLists(g), Unitary(g, operands)
      PROVE  TypeOK'
  <2>. DEFINE i == ApplyGate(g, operands)
  <2>1. i.kind = "Unitary" /\ i.gate = g /\ i.operands = operands
    BY DEF ApplyGate
  <2>. HIDE DEF i
  <2>2. QED
    BY <1>1, <2>1, ExecuteKeepsTypes DEF Execute, IsPlaced
<1>2. ASSUME NEW q \in Qubit, NEW b \in Bit, NEW draw \in Draws, Measure(q, b, draw)
      PROVE  TypeOK'
  <2>. DEFINE i == MeasureInto(q, b)
  <2>1. i.kind = "Measure" /\ i.qubit = q /\ i.bit = b
    BY DEF MeasureInto
  <2>. HIDE DEF i
  <2>2. QED
    BY <1>2, <2>1, ExecuteKeepsTypes DEF Execute, IsPlaced
<1>3. ASSUME NEW q \in Qubit, Reset(q)
      PROVE  TypeOK'
  <2>. DEFINE i == ResetQubit(q)
  <2>1. i.kind = "Reset" /\ i.qubit = q
    BY DEF ResetQubit
  <2>. HIDE DEF i
  <2>2. QED
    BY <1>3, <2>1, ExecuteKeepsTypes DEF Execute, IsPlaced
<1>4. CASE ResetAll
  BY <1>4 DEF ResetAll, reset_data, TypeOK, GroundState
<1>5. CASE Inspect
  BY <1>5, CleanUpDomain, CycleAssumption DEF Inspect, TypeOK
<1>6. CASE UNCHANGED vars
  BY <1>6 DEF vars, TypeOK
<1>7. QED
  BY <1>1, <1>2, <1>3, <1>4, <1>5, <1>6 DEF Next

\* Every instruction of a circuit is an operation of the context.
LEMMA ExecuteIsAnOperation ==
  ASSUME NEW i, IsInstruction(i), Execute(i)
  PROVE  Next
<1>1. CASE \E g \in Gates : \E operands \in OperandLists(g) : i = ApplyGate(g, operands)
  BY <1>1 DEF Execute, ApplyGate, Next
<1>2. CASE \E q \in Qubit, b \in Bit : i = MeasureInto(q, b)
  BY <1>2 DEF Execute, MeasureInto, Next
<1>3. CASE \E q \in Qubit : i = ResetQubit(q)
  BY <1>3 DEF Execute, ResetQubit, Next
<1>4. QED
  BY <1>1, <1>2, <1>3 DEF IsInstruction

\* Spec keeps the types: entries are indexed by basis vectors of the register and
\* the counter of apply_linear never exceeds ZERO_CYCLE_SIZE.
THEOREM TypeCorrect == Spec => []TypeOK
BY InitTypeOK, TypeStep, PTL DEF Spec

\* An instruction keeps the agreement, whatever its matrix and its operands.
LEMMA ExecuteKeepsAgreement ==
  ASSUME TypeOK, SettledAgree, NEW i, IsPlaced(i), Execute(i)
  PROVE  SettledAgree'
<1> SUFFICES ASSUME NEW p \in settled', NEW w \in DOMAIN state'.data
             PROVE  w[p] = measurement_register'[p]
  BY DEF SettledAgree
<1>1. ASSUME NEW g, NEW operands, Unitary(g, operands)
      PROVE  w[p] = measurement_register'[p]
  <2>1. PICK v \in DOMAIN state.data : AgreeOutside(operands, v, w)
    BY <1>1, ApplyLinearDomain DEF Unitary
  <2>2. p \in settled /\ p \in Qubit \ Range(operands)
    BY <1>1 DEF Unitary, TypeOK
  <2>3. v[p] = w[p] /\ v[p] = measurement_register[p]
    BY <2>1, <2>2 DEF AgreeOutside, SettledAgree
  <2>4. QED
    BY <1>1, <2>3 DEF Unitary
<1>2. ASSUME NEW q \in Qubit, NEW b \in Bit, NEW draw \in Draws, Measure(q, b, draw)
      PROVE  w[p] = measurement_register'[p]
  <2> DEFINE p_one    == probability_of_measuring_one(clean_up_zeros(state), q)
             measured == Below(draw, DrawRange, p_one)
  <2>1. /\ state' = update_data_after_measurement(clean_up_zeros(state), q, measured, p_one)
        /\ measurement_register' = [measurement_register EXCEPT ![q] = measured]
        /\ settled' = settled \union {q}
    BY <1>2 DEF Measure, SetTo
  <2>2. w \in DOMAIN state.data /\ w[q] = measured
    BY <2>1, MeasureDomain, CleanUpDomain
  <2>3. CASE p = q
    BY <2>1, <2>2, <2>3 DEF TypeOK
  <2>4. CASE p # q
    BY <2>1, <2>2, <2>4 DEF TypeOK, SettledAgree
  <2>5. QED
    BY <2>3, <2>4
<1>3. ASSUME NEW q \in Qubit, Reset(q)
      PROVE  w[p] = measurement_register'[p]
  <2>1. p \in settled /\ p # q /\ measurement_register' = measurement_register
    BY <1>3 DEF Reset
  <2>2. \/ w \in DOMAIN state.data
        \/ \E v \in DOMAIN state.data : w = Clear(v, q)
    BY <1>3, ResetDomain DEF Reset
  <2>3. \E v \in DOMAIN state.data : w[p] = v[p]
    BY <2>1, <2>2 DEF Clear, TypeOK
  <2>4. QED
    BY <2>1, <2>3 DEF SettledAgree
<1>4. QED
  BY <1>1, <1>2, <1>3 DEF Execute, IsPlaced

LEMMA SettledStep ==
  ASSUME TypeOK, SettledAgree, [Next]_vars
  PROVE  SettledAgree'
<1>1. ASSUME NEW i, IsInstruction(i), Execute(i)
      PROVE  SettledAgree'
  BY <1>1, InstructionIsPlaced, ExecuteKeepsAgreement
<1>2. CASE ResetAll
  BY <1>2 DEF ResetAll, SettledAgree
<1>3. CASE Inspect
  BY <1>3, CleanUpDomain DEF Inspect, SettledAgree
<1>4. CASE UNCHANGED vars
  BY <1>4 DEF vars, SettledAgree
<1>5. QED
  BY <1>1, <1>2, <1>3, <1>4, NextIsExecution

\* A settled qubit is, in every entry of the state, what measurement_register says.
\* TypeOK is the strengthening the induction needs: entries are functions on Qubit.
THEOREM SettledCorrect == Spec => []SettledAgree
<1>1. Init => SettledAgree
  BY DEF Init, SettledAgree
<1>2. TypeOK /\ SettledAgree /\ [Next]_vars => SettledAgree'
  BY SettledStep
<1>3. QED
  BY <1>1, <1>2, TypeCorrect, PTL DEF Spec

-----------------------------------------------------------------------------

\* A null entry adds nothing to any amplitude, so it is never among the sources.
LEMMA SourcesAreNotNull ==
  ASSUME NEW data, NEW m, NEW operands, NEW w,
         NEW v \in Sources(data, m, operands, w)
  PROVE  v \in DOMAIN data /\ data[v] # Null
BY DEF Sources, AddedValue, Times

LEMMA CleanUpKeepsSources ==
  ASSUME NEW array, NEW m, NEW operands, NEW w
  PROVE  LET cleaned == clean_up_zeros(array)
         IN  /\ Sources(cleaned.data, m, operands, w) = Sources(array.data, m, operands, w)
             /\ Added(cleaned.data, m, operands, w) = Added(array.data, m, operands, w)
<1> DEFINE cleaned == clean_up_zeros(array)
<1>1. \A v \in DOMAIN cleaned.data :
        AddedValue(cleaned.data, m, operands, v, w) = AddedValue(array.data, m, operands, v, w)
  BY CleanUpDomain DEF AddedValue
<1>2. Sources(cleaned.data, m, operands, w) = Sources(array.data, m, operands, w)
  BY <1>1, CleanUpDomain, SourcesAreNotNull DEF Sources
<1>3. [v \in Sources(cleaned.data, m, operands, w) |->
         AddedValue(cleaned.data, m, operands, v, w)]
      = [v \in Sources(array.data, m, operands, w) |->
           AddedValue(array.data, m, operands, v, w)]
  BY <1>1, <1>2 DEF Sources
<1>4. QED
  BY <1>2, <1>3 DEF Added

\* Cleaning up before a gate never changes the map the gate produces: not the
\* amplitudes and not the set of entries either, whatever ZERO_CYCLE_SIZE is.
THEOREM CleanupCorrect == Spec => []CleanupIsInvisible
<1>1. ASSUME NEW array, NEW m, NEW operands
      PROVE  apply_impl(clean_up_zeros(array).data, m, operands)
               = apply_impl(array.data, m, operands)
  <2> DEFINE cleaned == clean_up_zeros(array)
  <2>1. \A w \in BasisVector :
          /\ Sources(cleaned.data, m, operands, w) = Sources(array.data, m, operands, w)
          /\ Added(cleaned.data, m, operands, w) = Added(array.data, m, operands, w)
    BY CleanUpKeepsSources
  <2> HIDE DEF cleaned
  <2>2. apply_impl(cleaned.data, m, operands) = apply_impl(array.data, m, operands)
    BY <2>1, Zenon DEF apply_impl
  <2>3. QED
    BY <2>2 DEF cleaned
<1>2. CleanupIsInvisible
  BY <1>1 DEF CleanupIsInvisible
<1>3. QED
  BY <1>2, PTL

-----------------------------------------------------------------------------
(* The norm.                                                               *)

\* A unitary is an isometry if its matrix is unitary and its operands are distinct.
IsIsometry(i) ==
  i.kind = "Unitary" =>
    \E k \in Nat : /\ i.operands \in [1..k -> Qubit] /\ IsInjective(i.operands)
                   /\ IsMatrixFor(MatrixOf(i.gate), k) /\ IsUnitary(MatrixOf(i.gate))

\* The matrix of a gate is as large as the gate's operands require.
LEMMA GateMatrix ==
  ASSUME NEW g \in Gates
  PROVE  /\ Arity(g) \in Nat
         /\ IsMatrixFor(MatrixOf(g), Arity(g))
         /\ IsUnitary(MatrixOf(g)) /\ HasOrthogonalColumns(MatrixOf(g))
<1>. DEFINE m == MatrixOf(g)
            Fits(n) == 2^n = SizeOf(m)
<1>1. PICK n \in 1..NumberOfQubits : IsSquare(m, 2^n)
  BY GatesAssumption DEF IsMatrix, IsSquare
<1>2. m.rows \in [1..2^n -> [1..2^n -> Ring]]
  BY <1>1 DEF IsSquare
<1>3. 2^n \in Nat
  BY PowersOfTwo
<1>4. SizeOf(m) = 2^n
  BY <1>2, <1>3 DEF SizeOf
<1>5. Arity(g) \in 1..NumberOfQubits /\ Fits(Arity(g))
  <2>1. \E i \in 1..NumberOfQubits : Fits(i)
    BY <1>4
  <2>2. Arity(g) = CHOOSE i \in 1..NumberOfQubits : Fits(i)
    BY DEF Arity
  <2>. HIDE DEF Fits
  <2>3. QED
    BY <2>1, <2>2
<1>6. 2^Arity(g) = 2^n /\ Arity(g) \in Nat
  BY <1>4, <1>5
<1>7. IsMatrixFor(m, Arity(g))
  BY <1>1, <1>6 DEF IsMatrixFor
<1>8. IsUnitary(m)
  BY UnitaryAssumption
<1>9. QED
  BY <1>6, <1>7, <1>8, UnitaryColumns

NormInv == IsSparse(state) /\ Normalized

LEMMA InitNorm ==
  ASSUME state.data = [v \in {GroundState} |-> Root2Power(Scale)]
  PROVE  NormInv
BY GroundStateNorm DEF NormInv, Normalized

LEMMA InstructionIsIsometry ==
  ASSUME NEW i, IsInstruction(i)
  PROVE  IsIsometry(i)
<1>1. ASSUME NEW g \in Gates, NEW operands \in OperandLists(g), i = ApplyGate(g, operands)
      PROVE  IsIsometry(i)
  <2>1. i.gate = g /\ i.operands = operands
    BY <1>1 DEF ApplyGate
  <2>2. operands \in [1..Arity(g) -> Qubit] /\ IsInjective(operands)
    BY DEF OperandLists
  <2>3. QED
    BY <2>1, <2>2, GateMatrix DEF IsIsometry
<1>2. CASE i.kind # "Unitary"
  BY <1>2 DEF IsIsometry
<1>3. QED
  BY <1>1, <1>2 DEF IsInstruction, MeasureInto, ResetQubit

\* An instruction keeps the norm.
LEMMA ExecuteKeepsNorm ==
  ASSUME DrawRange \notin Draws, NormInv, NEW i, IsPlaced(i), IsIsometry(i), Execute(i)
  PROVE  NormInv'
<1>0. IsSparse(state) /\ norm(state) = Unity
  BY DEF NormInv, Normalized
<1>. SUFFICES IsSparse(state') /\ norm(state') = Unity
  BY DEF NormInv, Normalized, IsSparse, norm
<1>1. CASE i.kind = "Unitary" /\ Unitary(i.gate, i.operands)
  <2>1. PICK k \in Nat : /\ i.operands \in [1..k -> Qubit] /\ IsInjective(i.operands)
                         /\ IsMatrixFor(MatrixOf(i.gate), k) /\ IsUnitary(MatrixOf(i.gate))
    BY <1>1 DEF IsIsometry
  <2>2. RepresentableApply(state, MatrixOf(i.gate), i.operands)
        /\ state' = apply_linear(state, MatrixOf(i.gate), i.operands)
    BY <1>1 DEF Unitary
  <2>3. HasOrthogonalColumns(MatrixOf(i.gate))
    BY <2>1, UnitaryColumns
  <2>4. QED
    BY <1>0, <2>1, <2>2, <2>3, ApplyKeepsNorm
<1>2. ASSUME NEW q \in Qubit, NEW b \in Bit, NEW draw \in Draws, Measure(q, b, draw)
      PROVE  IsSparse(state') /\ norm(state') = Unity
  <2>. DEFINE cleaned  == clean_up_zeros(state)
              p_one    == probability_of_measuring_one(cleaned, q)
              measured == Below(draw, DrawRange, p_one)
  <2>1. IsSparse(cleaned) /\ norm(cleaned) = Unity
    BY <1>0, CleanUpKeepsAmplitudes
  <2>2. /\ RepresentableMeasurement(cleaned, q, measured, p_one)
        /\ state' = update_data_after_measurement(cleaned, q, measured, p_one)
    BY <1>2 DEF Measure
  <2>3. measured \in BOOLEAN
    BY DEF Below, Positive
  <2>4. DrawRange \in Nat /\ draw \in 1..DrawRange /\ draw # DrawRange
    BY DrawsAssumption
  <2>. HIDE DEF cleaned
  <2>5. p_one \in Weight
    BY <2>1, KeptWeight
  <2>6. OutcomeWeight(measured, p_one) # NoWeight
    BY <2>4, <2>5, OutcomeHasWeight
  <2>. HIDE DEF measured
  <2>7. QED
    BY <2>1, <2>2, <2>3, <2>6, MeasurementNormalizes
<1>3. ASSUME NEW q \in Qubit, Reset(q)
      PROVE  IsSparse(state') /\ norm(state') = Unity
  <2>1. RepresentableReset(state, q) /\ state' = update_data_after_reset(state, q)
    BY <1>3 DEF Reset
  <2>2. QED
    BY <1>0, <2>1, ResetKeepsNorm
<1>4. QED
  BY <1>1, <1>2, <1>3 DEF Execute, IsPlaced

LEMMA NormStep ==
  ASSUME DrawRange \notin Draws, NormInv, [Next]_vars
  PROVE  NormInv'
<1>0. IsSparse(state) /\ norm(state) = Unity
  BY DEF NormInv, Normalized
<1>1. ASSUME NEW i, IsInstruction(i), Execute(i)
      PROVE  NormInv'
  BY <1>1, InstructionIsPlaced, InstructionIsIsometry, ExecuteKeepsNorm
<1>2. IsSparse(state') /\ norm(state') = Unity => NormInv'
  BY DEF NormInv, Normalized, IsSparse, norm
<1>4. CASE ResetAll
  <2>1. state' = reset_data(state)
    BY <1>4 DEF ResetAll
  <2>2. reset_data(state).data = [v \in {GroundState} |-> Root2Power(Scale)]
    BY DEF reset_data
  <2>3. QED
    BY <1>2, <2>1, <2>2, GroundStateNorm
<1>5. CASE Inspect
  <2>1. state' = clean_up_zeros(state)
    BY <1>5 DEF Inspect
  <2>2. QED
    BY <1>0, <1>2, <2>1, CleanUpKeepsAmplitudes
<1>6. CASE UNCHANGED vars
  <2>1. state' = state
    BY <1>6 DEF vars
  <2>2. QED
    BY <1>0, <1>2, <2>1
<1>7. QED
  BY <1>1, <1>4, <1>5, <1>6, NextIsExecution

\* The squared magnitudes add up to one after any sequence of operations, if no draw is
\* exactly 1 (a draw of 1 measures a zero where the program is certain of a one).
\* Every gate is an isometry because its matrix passes the constructor's check, a
\* measurement keeps the entries of its outcome and divides by what they weigh, which
\* is not null, and a reset merges pairs of entries.
THEOREM NormalizedCorrect ==
  ASSUME DrawRange \notin Draws
  PROVE  Spec => []Normalized
<1>1. Init => NormInv
  BY InitNorm DEF Init
<1>2. NormInv /\ [Next]_vars => NormInv'
  BY NormStep
<1>3. NormInv => Normalized
  BY DEF NormInv
<1>4. QED
  BY <1>1, <1>2, <1>3, PTL DEF Spec

\* A qubit that is settled is measured again as it was: the entries that would be
\* kept for the other outcome are none, and a measurement never keeps none.
THEOREM MeasurementsRepeatCorrect ==
  ASSUME DrawRange \notin Draws
  PROVE  Spec => MeasurementsRepeat
<1>. DEFINE Inv == TypeOK /\ SettledAgree /\ NormInv
            Repeats == \A q \in settled : measurement_register'[q] = measurement_register[q]
<1>1. Inv /\ [Next]_vars => [Repeats]_vars
  <2>. SUFFICES ASSUME Inv, Next, NEW p \in settled
                PROVE  measurement_register'[p] = measurement_register[p]
    OBVIOUS
  <2>1. ASSUME NEW q \in Qubit, NEW b \in Bit, NEW draw \in Draws, Measure(q, b, draw)
        PROVE  measurement_register'[p] = measurement_register[p]
    <3>. DEFINE cleaned  == clean_up_zeros(state)
                p_one    == probability_of_measuring_one(cleaned, q)
                measured == Below(draw, DrawRange, p_one)
    <3>1. /\ RepresentableMeasurement(cleaned, q, measured, p_one)
          /\ measurement_register' = [measurement_register EXCEPT ![q] = measured]
      BY <2>1 DEF Measure, SetTo
    <3>2. CASE p # q
      BY <3>1, <3>2 DEF TypeOK
    <3>3. CASE p = q
      <4>1. IsSparse(cleaned) /\ norm(cleaned) = Unity
        BY CleanUpKeepsAmplitudes DEF NormInv, Normalized
      <4>2. measured \in BOOLEAN
        BY DEF Below, Positive
      <4>3. DrawRange \in Nat /\ draw \in 1..DrawRange /\ draw # DrawRange
        BY DrawsAssumption
      <4>4. \A v \in DOMAIN cleaned.data : v \in DOMAIN state.data
        BY CleanUpKeepsAmplitudes DEF NormInv
      <4>. HIDE DEF cleaned
      <4>5. p_one \in Weight
        BY <4>1, KeptWeight
      <4>6. OutcomeWeight(measured, p_one) # NoWeight
        BY <4>3, <4>5, OutcomeHasWeight
      <4>. HIDE DEF measured
      <4>7. \E v \in DOMAIN cleaned.data : v[q] = measured
        BY <3>1, <4>1, <4>2, <4>6, MeasurementNormalizes
      <4>8. measurement_register[q] = measured
        BY <3>3, <4>4, <4>7 DEF SettledAgree
      <4>9. QED
        BY <3>1, <3>3, <4>8 DEF TypeOK
    <3>4. QED
      BY <3>2, <3>3
  <2>2. CASE ~\E q \in Qubit, b \in Bit, draw \in Draws : Measure(q, b, draw)
    BY <2>2 DEF Next, Unitary, Reset, ResetAll, Inspect
  <2>3. QED
    BY <2>1, <2>2
<1>2. Spec => []NormInv
  <2>1. Init => NormInv
    BY InitNorm DEF Init
  <2>2. NormInv /\ [Next]_vars => NormInv'
    BY NormStep
  <2>3. QED
    BY <2>1, <2>2, PTL DEF Spec
<1>3. Spec => []Inv
  BY <1>2, TypeCorrect, SettledCorrect, PTL
<1>4. Spec => [][Repeats]_vars
  BY <1>1, <1>3, PTL DEF Spec
<1>5. QED
  BY <1>4 DEF MeasurementsRepeat

-----------------------------------------------------------------------------
(* The loops over the entries of the map and the rows of the matrix.       *)

\* The bits of a row, put back at the operands, are those of its index.
LEMMA RowIndexIs ==
  ASSUME NEW k \in Nat, NEW operands \in [1..k -> Qubit], IsInjective(operands),
         NEW v \in BasisVector, NEW i \in 0..(2^k - 1)
  PROVE  /\ RowIndex(v, operands, i) \in BasisVector
         /\ AgreeOutside(operands, v, RowIndex(v, operands, i))
         /\ ReducedIndex(RowIndex(v, operands, i), operands) = i
<1>. DEFINE w     == RowIndex(v, operands, i)
            p(j)  == 2^(k - j)
            ix    == [j \in 0..k |-> i \div p(j)]
<1>1. Len(operands) = k /\ Range(operands) = {operands[j] : j \in 1..k}
  BY DEF Range
<1>2. \A j \in 1..k : Position(operands, operands[j]) = j
  BY DEF Position, IsInjective
<1>3. \A j \in 1..k : operands[j] \in Qubit /\ w[operands[j]] = ((i \div p(j)) % 2 = 1)
  BY <1>1, <1>2 DEF RowIndex
<1>4. w \in BasisVector /\ AgreeOutside(operands, v, w)
  BY DEF RowIndex, AgreeOutside, BasisVector
<1>5. \A j \in 0..k : p(j) \in Nat \ {0} /\ i \div p(j) \in Nat
  <2>1. ASSUME NEW j \in 0..k
        PROVE  p(j) \in Nat \ {0}
    BY PowersOfTwo
  <2>2. i \in Nat
    BY PowersOfTwo
  <2>. HIDE DEF p
  <2>3. QED
    BY <2>1, <2>2, Division
<1>6. ix \in [0..k -> Nat]
  BY <1>5
<1>7. ix[0] = 0 /\ ix[k] = i
  <2>1. 2^(k - 0) = 2^k /\ 2^(k - k) = 1 /\ 2^k \in Nat \ {0} /\ i \in Nat
    BY PowersOfTwo
  <2>2. i \div 2^k = 0
    BY <2>1, QuotientIs
  <2>3. i \div 1 = i
    BY <2>1
  <2>4. QED
    BY <2>1, <2>2, <2>3
<1>8. ASSUME NEW j \in 1..k
      PROVE  ix[j] = 2 * ix[j - 1] + BitOf(w[operands[j]])
  <2>1. p(j - 1) = 2 * p(j)
    <3>1. k - j \in Nat /\ k - (j - 1) = (k - j) + 1
      OBVIOUS
    <3>2. QED
      BY <3>1, PowersOfTwo
  <2>2. ix[j] = i \div p(j) /\ ix[j - 1] = i \div p(j - 1) /\ i \in Nat /\ p(j) \in Nat \ {0}
    BY <1>5, PowersOfTwo
  <2>. HIDE DEF p
  <2>3. /\ i \div p(j) \in Nat
        /\ i \div p(j) = 2 * (i \div (2 * p(j))) + ((i \div p(j)) % 2)
    BY <2>2, QuotientOfDouble
  <2>4. i \div p(j - 1) = i \div (2 * p(j))
    BY <2>1
  <2>5. w[operands[j]] = (ix[j] % 2 = 1)
    BY <1>3, <2>2
  <2>. HIDE DEF ix, w
  <2>6. ix[j] \in Nat /\ ix[j] = 2 * ix[j - 1] + (ix[j] % 2)
    BY <2>2, <2>3, <2>4
  <2>7. BitOf(w[operands[j]]) = ix[j] % 2
    <3>1. ix[j] % 2 \in 0..1
      BY <2>6
    <3>2. \A x \in 0..1 : BitOf(x = 1) = x
      BY DEF BitOf
    <3>3. BitOf(w[operands[j]]) = BitOf(ix[j] % 2 = 1)
      BY <2>5, Zenon
    <3>4. QED
      BY <3>1, <3>2, <3>3
  <2>8. QED
    BY <2>6, <2>7
<1>9. IsIndex(ix, w, operands, k)
  BY <1>6, <1>7, <1>8 DEF IsIndex
<1>. HIDE DEF ix, w
<1>10. PICK iy : IsIndex(iy, w, operands, k) /\ ReducedIndex(w, operands) = iy[k]
  BY IndexDefined
<1>11. ReducedIndex(w, operands) = i
  BY <1>7, <1>9, <1>10, IndexUnique
<1>12. QED
  BY <1>4, <1>11 DEF w

\* What the loop has in its map: amplitudes of basis vectors.
Storage == UNION {[D -> Ring] : D \in SUBSET BasisVector}
Held(storage, w) == IF w \in DOMAIN storage THEN storage[w] ELSE Null

\* The map r is storage with a term added at each basis vector of Written, where it is not null.
IsAdded(r, storage, term, Written) ==
  /\ r \in Storage
  /\ DOMAIN r = DOMAIN storage \union {w \in Written : term[w] # Null}
  /\ \A w \in BasisVector : Held(r, w) = Plus(Held(storage, w), IF w \in Written THEN term[w] ELSE Null)

LEMMA StorageType ==
  ASSUME NEW r \in Storage
  PROVE  DOMAIN r \subseteq BasisVector /\ \A w \in BasisVector : Held(r, w) \in Ring
<1>1. PICK D \in SUBSET BasisVector : r \in [D -> Ring]
  BY DEF Storage
<1>2. QED
  BY <1>1, Spaces DEF Held

LEMMA EmplacedIs ==
  ASSUME NEW r \in Storage, NEW w \in BasisVector, NEW value \in Ring
  PROVE  /\ Emplaced(r, w, value) \in Storage
         /\ DOMAIN Emplaced(r, w, value) = DOMAIN r \union {w}
         /\ \A u \in BasisVector :
              Held(Emplaced(r, w, value), u) = Plus(Held(r, u), IF u = w THEN value ELSE Null)
<1>. DEFINE D  == DOMAIN r \union {w}
            e  == Emplaced(r, w, value)
            more(u) == IF u = w THEN value ELSE Null
<1>1. e = [u \in D |-> Plus(Held(r, u), more(u))]
  BY DEF Emplaced, Held
<1>2. D \in SUBSET BasisVector /\ \A u \in BasisVector : Held(r, u) \in Ring /\ more(u) \in Ring
  BY StorageType, Spaces
<1>3. \A u \in BasisVector : Plus(Held(r, u), more(u)) \in Ring
  <2>. HIDE DEF more
  <2>1. QED
    BY <1>2, PlusRing
<1>. HIDE DEF e, D, more
<1>4. e \in Storage /\ DOMAIN e = D
  <2>1. e \in [D -> Ring]
    BY <1>1, <1>2, <1>3
  <2>2. QED
    BY <1>2, <2>1 DEF Storage
<1>5. ASSUME NEW u \in BasisVector
      PROVE  Held(e, u) = Plus(Held(r, u), more(u))
  <2>1. CASE u \in D
    BY <1>1, <1>4, <2>1 DEF Held
  <2>2. CASE u \notin D
    <3>1. Held(e, u) = Null /\ Held(r, u) = Null /\ more(u) = Null
      BY <1>4, <2>2 DEF Held, D, more
    <3>2. QED
      BY <3>1, Spaces, PlusRing
  <2>3. QED
    BY <2>1, <2>2
<1>6. QED
  BY <1>4, <1>5 DEF e, D, more

LEMMA AddedStep ==
  ASSUME NEW r, NEW storage \in Storage, NEW term \in [BasisVector -> Ring],
         NEW Written \in SUBSET BasisVector, IsAdded(r, storage, term, Written),
         NEW w \in BasisVector, w \notin Written
  PROVE  IsAdded(IF term[w] = Null THEN r ELSE Emplaced(r, w, term[w]), storage, term, Written \union {w})
<1>. DEFINE more(u) == IF u \in Written THEN term[u] ELSE Null
            next(u) == IF u \in Written \union {w} THEN term[u] ELSE Null
<1>1. /\ r \in Storage
      /\ DOMAIN r = DOMAIN storage \union {u \in Written : term[u] # Null}
      /\ \A u \in BasisVector : Held(r, u) = Plus(Held(storage, u), more(u))
      /\ \A u \in BasisVector : Held(storage, u) \in Ring /\ more(u) \in Ring /\ next(u) \in Ring
  BY StorageType, Spaces DEF IsAdded
<1>2. CASE term[w] = Null
  <2>1. \A u \in BasisVector : next(u) = more(u)
    BY <1>2
  <2>2. DOMAIN r = DOMAIN storage \union {u \in Written \union {w} : term[u] # Null}
    BY <1>1, <1>2
  <2>3. IsAdded(r, storage, term, Written \union {w})
    BY <1>1, <2>1, <2>2 DEF IsAdded
  <2>4. QED
    BY <1>2, <2>3
<1>3. CASE term[w] # Null
  <2>. DEFINE e == Emplaced(r, w, term[w])
              here(u) == IF u = w THEN term[w] ELSE Null
  <2>1. /\ e \in Storage /\ DOMAIN e = DOMAIN r \union {w}
        /\ \A u \in BasisVector : Held(e, u) = Plus(Held(r, u), here(u))
    <3>1. r \in Storage /\ term[w] \in Ring
      BY <1>1
    <3>2. QED
      BY <3>1, EmplacedIs
  <2>. HIDE DEF e
  <2>2. DOMAIN e = DOMAIN storage \union {u \in Written \union {w} : term[u] # Null}
    BY <1>1, <1>3, <2>1
  <2>3. ASSUME NEW u \in BasisVector
        PROVE  Held(e, u) = Plus(Held(storage, u), next(u))
    <3>1. CASE u = w
      <4>1. more(u) = Null /\ here(u) = term[w] /\ next(u) = term[w]
        BY <3>1
      <4>2. Held(r, u) = Plus(Held(storage, u), Null) /\ Held(storage, u) \in Ring
        BY <1>1, <4>1
      <4>3. Held(r, u) = Held(storage, u)
        BY <4>2, PlusRing
      <4>4. QED
        BY <2>1, <4>1, <4>3
    <3>2. CASE u # w
      <4>1. here(u) = Null /\ next(u) = more(u)
        BY <3>2
      <4>2. Held(r, u) \in Ring
        BY <1>1, StorageType
      <4>3. Plus(Held(r, u), Null) = Held(r, u)
        BY <4>2, PlusRing
      <4>4. QED
        BY <1>1, <2>1, <4>1, <4>3
    <3>3. QED
      BY <3>1, <3>2
  <2>4. IsAdded(e, storage, term, Written \union {w})
    BY <2>1, <2>2, <2>3 DEF IsAdded
  <2>5. QED
    BY <1>3, <2>4 DEF e
<1>4. QED
  BY <1>2, <1>3

\* Nothing is added where the terms are null.
LEMMA AddedEverywhere ==
  ASSUME NEW r, NEW storage, NEW term, NEW Written \in SUBSET BasisVector, IsAdded(r, storage, term, Written),
         \A w \in BasisVector \ Written : term[w] = Null
  PROVE  IsAdded(r, storage, term, BasisVector)
<1>1. {w \in BasisVector : term[w] # Null} = {w \in Written : term[w] # Null}
  OBVIOUS
<1>2. \A w \in BasisVector : (IF w \in BasisVector THEN term[w] ELSE Null)
                               = (IF w \in Written THEN term[w] ELSE Null)
  OBVIOUS
<1>3. QED
  BY <1>1, <1>2 DEF IsAdded

\* A basis vector is known by its bits outside the operands and its index there.
LEMMA IndexIsOneToOne ==
  ASSUME NEW k \in Nat, NEW operands \in [1..k -> Qubit], IsInjective(operands), NEW v \in BasisVector,
         NEW u \in BasisVector, AgreeOutside(operands, v, u),
         NEW w \in BasisVector, AgreeOutside(operands, v, w),
         ReducedIndex(u, operands) = ReducedIndex(w, operands)
  PROVE  u = w
<1>. DEFINE Class == {x \in BasisVector : AgreeOutside(operands, v, x)}
            index == [x \in Class |-> ReducedIndex(x, operands)]
<1>1. index \in Bijection(Class, 0..(2^k - 1))
  BY IndexIsBijection
<1>2. u \in Class /\ w \in Class /\ index[u] = index[w]
  OBVIOUS
<1>. HIDE DEF Class, index
<1>3. QED
  BY <1>1, <1>2 DEF Bijection, Injection, IsInjective

\* What the entry of v adds at each basis vector.
Contribution(m, operands, v, value) ==
  [w \in BasisVector |-> Times(value, GateKernel(m, operands)[<<w, v>>])]

\* The loop over the rows adds what an entry contributes.
LEMMA EntryAdded ==
  ASSUME NEW k \in Nat, NEW m, IsMatrixFor(m, k), NEW operands \in [1..k -> Qubit],
         IsInjective(operands), NEW v \in BasisVector, NEW value \in Ring, NEW storage \in Storage
  PROVE  IsAdded(add_entry(storage, v, value, m, operands), storage,
                 Contribution(m, operands, v, value), BasisVector)
<1>. DEFINE n       == 2^k
            term    == Contribution(m, operands, v, value)
            column  == ReducedIndex(v, operands)
            row(j)  == RowIndex(v, operands, j - 1)
            more(r, j) == IF term[row(j)] = Null THEN r ELSE Emplaced(r, row(j), term[row(j)])
            F       == [p \in (1..n) \X Storage |-> more(p[2], p[1])]
            Rows(j) == {w \in BasisVector : AgreeOutside(operands, v, w)
                                             /\ ReducedIndex(w, operands) < j}
            added   == add_entry(storage, v, value, m, operands)
<1>1. n \in Nat /\ SizeOf(m) = n
  BY PowersOfTwo DEF SizeOf, IsMatrixFor, IsSquare
<1>2. ASSUME NEW w \in BasisVector
      PROVE  /\ term[w] = IF AgreeOutside(operands, v, w)
                           THEN Times(value, at(m, ReducedIndex(w, operands), column)) ELSE Null
             /\ term[w] \in Ring
  <2>. DEFINE entry == GateKernel(m, operands)[<<w, v>>]
  <2>1. /\ entry = IF AgreeOutside(operands, v, w)
                   THEN at(m, ReducedIndex(w, operands), ReducedIndex(v, operands)) ELSE Null
        /\ entry \in Ring
    BY GateKernelType
  <2>2. term[w] = Times(value, entry)
    BY DEF Contribution
  <2>. HIDE DEF entry, term
  <2>3. Times(value, entry) \in Ring /\ Times(value, Null) = Null
    BY <2>1, TimesRing
  <2>4. QED
    BY <2>1, <2>2, <2>3
<1>3. term \in [BasisVector -> Ring]
  <2>1. term = [w \in BasisVector |-> term[w]]
    BY DEF Contribution
  <2>. HIDE DEF term
  <2>2. QED
    BY <1>2, <2>1
<1>4. ASSUME NEW j \in 1..n
      PROVE  /\ row(j) \in BasisVector /\ AgreeOutside(operands, v, row(j))
             /\ ReducedIndex(row(j), operands) = j - 1
             /\ term[row(j)] = Times(value, at(m, j - 1, column))
             /\ term[row(j)] \in Ring
  <2>1. j - 1 \in 0..(n - 1)
    BY <1>1
  <2>2. /\ row(j) \in BasisVector /\ AgreeOutside(operands, v, row(j))
        /\ ReducedIndex(row(j), operands) = j - 1
    BY <2>1, RowIndexIs
  <2>. HIDE DEF row, term, column
  <2>3. QED
    BY <1>2, <2>2
<1>. HIDE DEF term, row, n
<1>5. /\ IsOperation(F, 1..n, Storage)
      /\ \A j \in 1..n : \A r \in Storage : F[<<j, r>>] = more(r, j)
  <2>1. ASSUME NEW j \in 1..n, NEW r \in Storage
        PROVE  more(r, j) \in Storage
    <3>1. row(j) \in BasisVector /\ term[row(j)] \in Ring
      BY <1>4
    <3>2. Emplaced(r, row(j), term[row(j)]) \in Storage
      BY <3>1, EmplacedIs
    <3>3. QED
      BY <3>2
  <2>. HIDE DEF more
  <2>2. F \in [(1..n) \X Storage -> Storage]
    BY <2>1
  <2>3. QED
    BY <2>2 DEF IsOperation
<1>6. PICK g : IsLastFold(g, n, Storage, storage, F) /\ IsLoop(g, n, Storage, storage, F)
  <2>. HIDE DEF F
  <2>1. QED
    BY <1>1, <1>5, LoopExists
<1>7. /\ g \in [SUBSET (1..n) -> Storage]
      /\ g[{}] = storage
      /\ \A s \in SUBSET (1..n) : s # {} => g[s] = more(g[s \ {Max(s)}], Max(s))
  <2>1. g \in [SUBSET (1..n) -> Storage] /\ g[{}] = storage
    BY <1>6 DEF IsLastFold
  <2>2. ASSUME NEW s \in SUBSET (1..n), s # {}
        PROVE  g[s] = more(g[s \ {Max(s)}], Max(s))
    <3>1. Max(s) \in 1..n /\ g[s \ {Max(s)}] \in Storage
      BY <1>1, <2>1, <2>2, Maximum
    <3>2. g[s] = F[<<Max(s), g[s \ {Max(s)}]>>]
      <4>. HIDE DEF F
      <4>1. QED
        BY <1>6, <2>2 DEF IsLastFold
    <3>. HIDE DEF F, more
    <3>3. QED
      BY <1>5, <3>1, <3>2
  <2>3. QED
    BY <2>1, <2>2
<1>8. added = g[1..n]
  <2>. DEFINE seq == [i \in 1..SizeOf(m) |-> i - 1]
              IsIter(h) == h = [s \in SUBSET DOMAIN seq |->
                IF s = {} THEN storage
                ELSE IF Times(value, at(m, seq[Max(s)], ReducedIndex(v, operands))) = Null
                     THEN h[s \ {Max(s)}]
                     ELSE Emplaced(h[s \ {Max(s)}], RowIndex(v, operands, seq[Max(s)]),
                                   Times(value, at(m, seq[Max(s)], ReducedIndex(v, operands))))]
              iter == CHOOSE h : IsIter(h)
  <2>1. added = iter[DOMAIN seq]
    BY DEF add_entry, FoldLeft, MapThenFoldSet
  <2>2. DOMAIN seq = 1..n
    BY <1>1
  <2>3. ASSUME NEW s \in SUBSET (1..n), s # {}
        PROVE  /\ Max(s) \in 1..n
               /\ seq[Max(s)] = Max(s) - 1
               /\ row(Max(s)) = RowIndex(v, operands, seq[Max(s)])
               /\ term[row(Max(s))] = Times(value, at(m, seq[Max(s)], ReducedIndex(v, operands)))
    <3>1. Max(s) \in 1..n
      BY <1>1, <2>3, Maximum
    <3>2. seq[Max(s)] = Max(s) - 1
      BY <1>1, <3>1
    <3>. HIDE DEF seq
    <3>3. QED
      BY <1>4, <3>1, <3>2 DEF row
  <2>. HIDE DEF seq
  <2>4. IsIter(g)
    BY <1>7, <2>2, <2>3
  <2>5. IsIter(iter)
    <3>. HIDE DEF IsIter
    <3>1. QED
      BY <2>4
  <2>6. iter[{}] = storage
    BY <2>5
  <2>7. ASSUME NEW s \in SUBSET (1..n), s # {}, iter[s \ {Max(s)}] = g[s \ {Max(s)}]
        PROVE  iter[s] = g[s]
    BY <2>2, <2>4, <2>5, <2>7
  <2>. HIDE DEF iter
  <2>8. iter[1..n] = g[1..n]
    <3>1. GoesAlong(iter, g, n)
      BY <2>7 DEF GoesAlong
    <3>2. QED
      BY <1>1, <1>7, <2>6, <3>1, LoopIs
  <2>9. QED
    BY <2>1, <2>2, <2>8
<1>. DEFINE Good == {j \in Nat : j <= n => IsAdded(g[1..j], storage, term, Rows(j))}
<1>9. 0 \in Good
  <2>1. g[1..0] = storage
    BY <1>6 DEF IsLoop
  <2>2. Rows(0) = {}
    BY IndexType
  <2>3. \A w \in BasisVector : Held(storage, w) = Plus(Held(storage, w), Null)
    BY StorageType, PlusRing
  <2>4. IsAdded(storage, storage, term, {})
    BY <2>3 DEF IsAdded
  <2>5. QED
    BY <2>1, <2>2, <2>4
<1>10. ASSUME NEW j \in Good
       PROVE  j + 1 \in Good
  <2>. SUFFICES ASSUME j + 1 <= n
                PROVE  IsAdded(g[1..(j + 1)], storage, term, Rows(j + 1))
    OBVIOUS
  <2>1. j + 1 \in 1..n /\ (j + 1) - 1 = j /\ j \in 0..n
    BY <1>1
  <2>2. /\ row(j + 1) \in BasisVector /\ AgreeOutside(operands, v, row(j + 1))
        /\ ReducedIndex(row(j + 1), operands) = j
    BY <1>4, <2>1
  <2>3. g[1..(j + 1)] = more(g[1..j], j + 1)
    <3>1. g[1..(j + 1)] = F[<<j + 1, g[1..j]>>] /\ g[1..j] \in Storage
      <4>. HIDE DEF F
      <4>1. QED
        BY <1>6, <2>1 DEF IsLoop
    <3>. HIDE DEF F, more
    <3>2. QED
      BY <1>5, <2>1, <3>1
  <2>4. Rows(j + 1) = Rows(j) \union {row(j + 1)} /\ row(j + 1) \notin Rows(j)
    <3>1. \A w \in BasisVector : ReducedIndex(w, operands) \in Nat
      BY IndexType
    <3>2. ASSUME NEW w \in BasisVector, AgreeOutside(operands, v, w), ReducedIndex(w, operands) = j
          PROVE  w = row(j + 1)
      BY <2>2, <3>2, IndexIsOneToOne
    <3>3. ASSUME NEW w \in BasisVector
          PROVE  w \in Rows(j + 1) <=> w \in Rows(j) \/ w = row(j + 1)
      <4>. DEFINE x == ReducedIndex(w, operands)
                  r == row(j + 1)
                  Outside == AgreeOutside(operands, v, w)
      <4>1. j \in Nat /\ x \in Nat
        BY <3>1
      <4>2. x < j + 1 <=> x < j \/ x = j
        BY <4>1
      <4>3. Outside /\ x = j => w = r
        BY <3>2
      <4>4. w = r => Outside /\ x = j
        BY <2>2
      <4>5. (w \in Rows(j + 1) <=> Outside /\ x < j + 1) /\ (w \in Rows(j) <=> Outside /\ x < j)
        OBVIOUS
      <4>. HIDE DEF x, r, Outside, Rows
      <4>6. QED
        BY <4>2, <4>3, <4>4, <4>5 DEF r
    <3>4. row(j + 1) \notin Rows(j)
      <4>1. ~(j < j)
        OBVIOUS
      <4>2. QED
        BY <2>2, <4>1
    <3>5. Rows(j) \subseteq BasisVector /\ Rows(j + 1) \subseteq BasisVector
      OBVIOUS
    <3>. HIDE DEF Rows, row
    <3>6. QED
      BY <2>2, <3>3, <3>4, <3>5
  <2>5. IsAdded(g[1..j], storage, term, Rows(j)) /\ Rows(j) \in SUBSET BasisVector
    BY <2>1
  <2>. HIDE DEF Rows
  <2>6. IsAdded(more(g[1..j], j + 1), storage, term, Rows(j) \union {row(j + 1)})
    BY <1>3, <2>2, <2>4, <2>5, AddedStep
  <2>7. QED
    BY <2>3, <2>4, <2>6
<1>11. Good = Nat
  <2>. HIDE DEF Good
  <2>1. Good \in SUBSET Nat
    BY DEF Good
  <2>2. QED
    BY <1>9, <1>10, <2>1, Induction
<1>12. IsAdded(added, storage, term, Rows(n))
  <2>1. n \in Good
    <3>. HIDE DEF Good
    <3>1. QED
      BY <1>1, <1>11
  <2>2. QED
    BY <1>1, <1>8, <2>1
<1>13. Rows(n) \in SUBSET BasisVector /\ \A w \in BasisVector \ Rows(n) : term[w] = Null
  <2>1. \A w \in BasisVector : ReducedIndex(w, operands) < n
    BY <1>1, IndexType DEF n
  <2>2. QED
    BY <1>2, <2>1
<1>. HIDE DEF Rows, added
<1>14. QED
  BY <1>12, <1>13, AddedEverywhere DEF added, term

-----------------------------------------------------------------------------

\* An order has every entry once.
LEMMA OrderIsOnto ==
  ASSUME NEW D, IsFiniteSet(D), NEW order \in SetToSeqs(D)
  PROVE  /\ Len(order) \in Nat /\ order \in [1..Len(order) -> D]
         /\ \A i, j \in 1..Len(order) : order[i] = order[j] => i = j
         /\ {order[i] : i \in 1..Len(order)} = D
<1>. DEFINE n == Cardinality(D)
<1>1. n \in Nat
  BY FS_CardinalityType
<1>2. order \in [1..n -> D] /\ \A i, j \in 1..n : i # j => order[i] # order[j]
  BY DEF SetToSeqs
<1>. HIDE DEF n
<1>3. Len(order) = n
  BY <1>1, <1>2
<1>4. order \in Injection(1..n, D)
  BY <1>2 DEF Injection, IsInjective
<1>5. IsFiniteSet(1..n) /\ Cardinality(1..n) = n
  BY <1>1, FS_Interval
<1>6. order \in Surjection(1..n, D)
  BY <1>4, <1>5, FS_Injection DEF n
<1>7. QED
  BY <1>1, <1>2, <1>3, <1>6 DEF Surjection

\* What the loop has in its map after the entries of s.
IsSumOf(r, m, operands, a, D, s) ==
  /\ r \in Storage
  /\ DOMAIN r = {w \in BasisVector : \E v \in s : Contribution(m, operands, v, a[v])[w] # Null}
  /\ \A w \in BasisVector : Held(r, w) = Output(GateKernel(m, operands), a, D, s, w)

LEMMA EntryStep ==
  ASSUME NEW k \in Nat, NEW m, IsMatrixFor(m, k), NEW operands \in [1..k -> Qubit],
         IsInjective(operands), NEW array, IsSparse(array),
         NEW s \in SUBSET DOMAIN array.data, NEW x \in DOMAIN array.data, x \notin s,
         NEW r, IsSumOf(r, m, operands, array.data, DOMAIN array.data, s)
  PROVE  IsSumOf(add_entry(r, x, array.data[x], m, operands), m, operands, array.data,
                 DOMAIN array.data, s \union {x})
<1>. DEFINE a    == array.data
            D    == DOMAIN a
            K    == GateKernel(m, operands)
            term == Contribution(m, operands, x, a[x])
            next == add_entry(r, x, a[x], m, operands)
<1>1. D \in SUBSET BasisVector /\ IsFiniteSet(D) /\ ValuesIn(a, D, Ring) /\ a[x] \in Ring
  BY BasisVectorsFinite, FS_Subset DEF IsSparse, ValuesIn
<1>2. /\ r \in Storage
      /\ DOMAIN r = {w \in BasisVector : \E v \in s : Contribution(m, operands, v, a[v])[w] # Null}
      /\ \A w \in BasisVector : Held(r, w) = Output(K, a, D, s, w)
  BY DEF IsSumOf
<1>3. IsAdded(next, r, term, BasisVector)
  BY <1>1, <1>2, EntryAdded
<1>4. IsKernel(K, BasisVector, D)
  BY <1>1, GateKernelType DEF IsKernel
<1>. HIDE DEF next
<1>5. DOMAIN next = {w \in BasisVector :
                       \E v \in s \union {x} : Contribution(m, operands, v, a[v])[w] # Null}
  <2>1. DOMAIN next = DOMAIN r \union {w \in BasisVector : term[w] # Null}
    BY <1>3 DEF IsAdded
  <2>2. \A w : (\E v \in s \union {x} : Contribution(m, operands, v, a[v])[w] # Null)
              <=> (\E v \in s : Contribution(m, operands, v, a[v])[w] # Null) \/ term[w] # Null
    OBVIOUS
  <2>3. QED
    BY <1>2, <2>1, <2>2
<1>6. ASSUME NEW w \in BasisVector
      PROVE  Held(next, w) = Output(K, a, D, s \union {x}, w)
  <2>1. Held(next, w) = Plus(Held(r, w), term[w]) /\ Held(r, w) \in Ring
    BY <1>2, <1>3, StorageType DEF IsAdded
  <2>2. term[w] = Times(a[x], K[<<w, x>>])
    BY DEF Contribution
  <2>3. K[<<w, x>>] \in Ring
    BY <1>4 DEF IsKernel
  <2>. HIDE DEF term, K
  <2>4. term[w] \in Ring
    BY <1>1, <2>2, <2>3, TimesRing
  <2>5. Output(K, a, D, s \union {x}, w)
          = Plus(Times(a[x], K[<<w, x>>]), Output(K, a, D, (s \union {x}) \ {x}, w))
    <3>. DEFINE later == s \union {x}
    <3>1. later \in SUBSET D /\ x \in later
      OBVIOUS
    <3>2. IsFiniteSet(D) /\ ValuesIn(a, D, Ring)
      BY <1>1
    <3>. HIDE DEF a, D, later
    <3>3. Output(K, a, D, later, w) = Plus(Times(a[x], K[<<w, x>>]), Output(K, a, D, later \ {x}, w))
      BY <1>4, <3>1, <3>2, OutputStep
    <3>4. QED
      BY <3>3 DEF later
  <2>6. (s \union {x}) \ {x} = s
    OBVIOUS
  <2>7. Plus(Held(r, w), term[w]) = Plus(term[w], Held(r, w))
    BY <2>1, <2>4, PlusRing
  <2>8. QED
    BY <1>2, <2>1, <2>2, <2>5, <2>6, <2>7
<1>7. next \in Storage
  BY <1>3 DEF IsAdded
<1>8. QED
  BY <1>5, <1>6, <1>7 DEF IsSumOf, next

\* The loop over the entries makes the sums that a gate stands for, in any order.
LEMMA AnyOrderOfEntries ==
  ASSUME NEW k \in Nat, NEW m, IsMatrixFor(m, k), NEW operands \in [1..k -> Qubit],
         IsInjective(operands), NEW array, IsSparse(array),
         NEW order \in SetToSeqs(DOMAIN array.data)
  PROVE  apply_in_order(array.data, m, operands, order) = apply_impl(array.data, m, operands)
<1>. DEFINE a         == array.data
            D         == DOMAIN a
            n         == Len(order)
            more(r, j) == add_entry(r, order[j], a[order[j]], m, operands)
            F         == [p \in (1..n) \X Storage |-> more(p[2], p[1])]
            seen(j)   == {order[i] : i \in 1..j}
            K         == GateKernel(m, operands)
            none      == <<>>
<1>1. D \in SUBSET BasisVector /\ IsFiniteSet(D) /\ ValuesIn(a, D, Ring)
  BY BasisVectorsFinite, FS_Subset DEF IsSparse
<1>2. /\ n \in Nat /\ order \in [1..n -> D]
      /\ \A i, j \in 1..n : order[i] = order[j] => i = j
      /\ seen(n) = D
  BY <1>1, OrderIsOnto
<1>3. none \in Storage /\ DOMAIN none = {}
  <2>1. none \in [{} -> Ring] /\ DOMAIN none = {}
    OBVIOUS
  <2>2. {} \in SUBSET BasisVector
    OBVIOUS
  <2>3. QED
    BY <2>1, <2>2 DEF Storage
<1>. HIDE DEF none, n
<1>4. /\ IsOperation(F, 1..n, Storage)
      /\ \A j \in 1..n : \A r \in Storage : F[<<j, r>>] = more(r, j)
  <2>1. ASSUME NEW j \in 1..n, NEW r \in Storage
        PROVE  more(r, j) \in Storage
    <3>1. order[j] \in BasisVector /\ a[order[j]] \in Ring
      BY <1>1, <1>2 DEF ValuesIn
    <3>2. QED
      BY <3>1, EntryAdded DEF IsAdded
  <2>. HIDE DEF more
  <2>2. F \in [(1..n) \X Storage -> Storage]
    BY <2>1
  <2>3. QED
    BY <2>2 DEF IsOperation
<1>5. PICK g : IsLastFold(g, n, Storage, none, F) /\ IsLoop(g, n, Storage, none, F)
  <2>. HIDE DEF F
  <2>1. QED
    BY <1>2, <1>3, <1>4, LoopExists
<1>6. /\ g \in [SUBSET (1..n) -> Storage]
      /\ g[{}] = none
      /\ \A s \in SUBSET (1..n) : s # {} => g[s] = more(g[s \ {Max(s)}], Max(s))
  <2>1. g \in [SUBSET (1..n) -> Storage] /\ g[{}] = none
    BY <1>5 DEF IsLastFold
  <2>2. ASSUME NEW s \in SUBSET (1..n), s # {}
        PROVE  g[s] = more(g[s \ {Max(s)}], Max(s))
    <3>1. Max(s) \in 1..n /\ g[s \ {Max(s)}] \in Storage
      BY <1>2, <2>1, <2>2, Maximum
    <3>2. g[s] = F[<<Max(s), g[s \ {Max(s)}]>>]
      <4>. HIDE DEF F
      <4>1. QED
        BY <1>5, <2>2 DEF IsLastFold
    <3>. HIDE DEF F, more
    <3>3. QED
      BY <1>4, <3>1, <3>2
  <2>3. QED
    BY <2>1, <2>2
<1>. DEFINE sums == g[1..n]
<1>7. apply_in_order(a, m, operands, order) = [w \in DOMAIN sums |-> Divide(sums[w], m.halvings)]
  <2>. DEFINE IsIter(h) == h = [s \in SUBSET DOMAIN order |->
                IF s = {} THEN <<>>
                ELSE add_entry(h[s \ {Max(s)}], order[Max(s)], a[order[Max(s)]], m, operands)]
              iter == CHOOSE h : IsIter(h)
              folded == iter[DOMAIN order]
  <2>1. apply_in_order(a, m, operands, order)
          = [w \in DOMAIN folded |-> Divide(folded[w], m.halvings)]
    BY DEF apply_in_order, FoldLeft, MapThenFoldSet
  <2>2. DOMAIN order = 1..n
    BY <1>2
  <2>3. IsIter(g)
    BY <1>6, <2>2 DEF none
  <2>4. IsIter(iter)
    <3>. HIDE DEF IsIter
    <3>1. QED
      BY <2>3
  <2>5. iter[{}] = g[{}]
    BY <1>6, <2>4 DEF none
  <2>6. GoesAlong(iter, g, n)
    <3>. SUFFICES ASSUME NEW s \in SUBSET (1..n), s # {}, iter[s \ {Max(s)}] = g[s \ {Max(s)}]
                  PROVE  iter[s] = g[s]
      BY DEF GoesAlong
    <3>1. QED
      BY <2>2, <2>3, <2>4
  <2>. HIDE DEF iter
  <2>7. iter[1..n] = g[1..n]
    BY <1>2, <2>5, <2>6, LoopIs
  <2>8. folded = sums
    BY <2>2, <2>7
  <2>. HIDE DEF folded, sums
  <2>9. QED
    BY <2>1, <2>8
<1>. DEFINE Good == {j \in Nat : j <= n => IsSumOf(g[1..j], m, operands, a, D, seen(j))}
<1>8. 0 \in Good
  <2>1. g[1..0] = none /\ seen(0) = {}
    BY <1>5 DEF IsLoop
  <2>2. IsKernel(K, BasisVector, D)
    BY <1>1, GateKernelType DEF IsKernel
  <2>3. \A w \in BasisVector : Held(none, w) = Null
    BY <1>3 DEF Held
  <2>4. ASSUME NEW w \in BasisVector
        PROVE  Output(K, a, D, {}, w) = Null
    <3>. HIDE DEF K, a, D
    <3>1. {} \in SUBSET D
      OBVIOUS
    <3>2. QED
      BY <1>1, <2>2, <3>1, OutputType
  <2>5. IsSumOf(none, m, operands, a, D, {})
    BY <1>3, <2>3, <2>4 DEF IsSumOf
  <2>6. QED
    BY <2>1, <2>5
<1>9. ASSUME NEW j \in Good
      PROVE  j + 1 \in Good
  <2>. SUFFICES ASSUME j + 1 <= n
                PROVE  IsSumOf(g[1..(j + 1)], m, operands, a, D, seen(j + 1))
    OBVIOUS
  <2>1. j + 1 \in 1..n /\ (j + 1) - 1 = j /\ j \in 0..n /\ 1..(j + 1) = (1..j) \union {j + 1}
    BY <1>2
  <2>2. g[1..(j + 1)] = more(g[1..j], j + 1)
    <3>1. g[1..(j + 1)] = F[<<j + 1, g[1..j]>>] /\ g[1..j] \in Storage
      <4>. HIDE DEF F
      <4>1. QED
        BY <1>5, <2>1 DEF IsLoop
    <3>. HIDE DEF F, more
    <3>2. QED
      BY <1>4, <2>1, <3>1
  <2>3. seen(j + 1) = seen(j) \union {order[j + 1]}
    BY <2>1
  <2>4. order[j + 1] \in D /\ seen(j) \in SUBSET D /\ order[j + 1] \notin seen(j)
    <3>1. \A i \in 1..j : i \in 1..n /\ i # j + 1
      BY <1>2, <2>1
    <3>2. QED
      BY <1>2, <2>1, <3>1
  <2>5. IsSumOf(g[1..j], m, operands, a, D, seen(j))
    BY <2>1
  <2>. HIDE DEF seen
  <2>6. IsSumOf(more(g[1..j], j + 1), m, operands, a, D, seen(j) \union {order[j + 1]})
    BY <2>4, <2>5, EntryStep
  <2>7. QED
    BY <2>2, <2>3, <2>6
<1>10. Good = Nat
  <2>. HIDE DEF Good
  <2>1. Good \in SUBSET Nat
    BY DEF Good
  <2>2. QED
    BY <1>8, <1>9, <2>1, Induction
<1>11. IsSumOf(sums, m, operands, a, D, D)
  <2>1. n \in Good
    <3>. HIDE DEF Good
    <3>1. QED
      BY <1>2, <1>10
  <2>2. IsSumOf(g[1..n], m, operands, a, D, seen(n))
    BY <1>2, <2>1
  <2>. HIDE DEF seen
  <2>3. QED
    BY <1>2, <2>2
<1>. HIDE DEF sums
<1>12. ASSUME NEW w \in BasisVector
       PROVE  w \in DOMAIN sums <=> Sources(a, m, operands, w) # {}
  <2>1. w \in DOMAIN sums <=> \E v \in D : Contribution(m, operands, v, a[v])[w] # Null
    BY <1>11 DEF IsSumOf
  <2>2. ASSUME NEW v \in D
        PROVE  Contribution(m, operands, v, a[v])[w] # Null <=> v \in Sources(a, m, operands, w)
    <3>1. v \in BasisVector /\ a[v] \in Ring
      BY <1>1 DEF ValuesIn
    <3>2. Contribution(m, operands, v, a[v])[w] = Times(a[v], K[<<w, v>>])
      BY DEF Contribution
    <3>3. K[<<w, v>>] = (IF AgreeOutside(operands, v, w)
                        THEN at(m, ReducedIndex(w, operands), ReducedIndex(v, operands)) ELSE Null)
      BY <3>1, GateKernelType
    <3>4. Times(a[v], Null) = Null
      BY <3>1, TimesRing
    <3>. HIDE DEF K
    <3>5. QED
      BY <3>2, <3>3, <3>4 DEF Sources, AddedValue
  <2>3. Sources(a, m, operands, w) \subseteq D
    BY DEF Sources
  <2>4. QED
    BY <2>1, <2>2, <2>3
<1>13. ASSUME NEW w \in DOMAIN sums
       PROVE  sums[w] = Added(a, m, operands, w)
  <2>1. w \in BasisVector
    BY <1>11 DEF IsSumOf
  <2>2. sums[w] = Output(K, a, D, D, w)
    BY <1>11, <2>1 DEF IsSumOf, Held
  <2>3. QED
    BY <2>1, <2>2, AddedIsOutput
<1>14. DOMAIN sums = {w \in BasisVector : Sources(a, m, operands, w) # {}}
  <2>1. DOMAIN sums \subseteq BasisVector
    BY <1>11 DEF IsSumOf
  <2>2. QED
    BY <1>12, <2>1
<1>15. apply_impl(a, m, operands)
         = [w \in {u \in BasisVector : Sources(a, m, operands, u) # {}} |->
              Divide(Added(a, m, operands, w), m.halvings)]
  BY DEF apply_impl
<1>16. QED
  BY <1>7, <1>13, <1>14, <1>15

\* The entries of the map stay amplitudes of basis vectors, whatever is drawn.
LEMMA SparseStep ==
  ASSUME IsSparse(state), [Next]_vars
  PROVE  IsSparse(state')
<1>1. ASSUME NEW g \in Gates, NEW operands \in OperandLists(g), Unitary(g, operands)
      PROVE  IsSparse(state')
  <2>1. operands \in [1..Arity(g) -> Qubit] /\ IsInjective(operands)
    BY DEF OperandLists
  <2>2. RepresentableApply(state, MatrixOf(g), operands)
        /\ state' = apply_linear(state, MatrixOf(g), operands)
    BY <1>1 DEF Unitary
  <2>3. QED
    BY <2>1, <2>2, GateMatrix, ApplyKeepsNorm
<1>2. ASSUME NEW q \in Qubit, NEW b \in Bit, NEW draw \in Draws, Measure(q, b, draw)
      PROVE  IsSparse(state')
  <2>. DEFINE cleaned  == clean_up_zeros(state)
              p_one    == probability_of_measuring_one(cleaned, q)
              measured == Below(draw, DrawRange, p_one)
              kept     == erase_if(cleaned.data, q, measured)
              weight   == OutcomeWeight(measured, p_one)
  <2>1. IsSparse(cleaned)
    BY CleanUpKeepsAmplitudes
  <2>2. /\ RepresentableMeasurement(cleaned, q, measured, p_one)
        /\ state' = update_data_after_measurement(cleaned, q, measured, p_one)
    BY <1>2 DEF Measure
  <2>. HIDE DEF cleaned, p_one, measured
  <2>3. /\ DOMAIN kept \subseteq DOMAIN cleaned.data
        /\ \A v \in DOMAIN kept : kept[v] = cleaned.data[v]
    BY DEF erase_if, RestrictDomain, Restrict
  <2>4. state'.data = [v \in DOMAIN kept |-> Normalize(kept[v], weight)]
    BY <2>2 DEF update_data_after_measurement
  <2>5. DOMAIN kept = {} \/ weight \in Weights
    BY <2>2 DEF RepresentableMeasurement
  <2>. HIDE DEF kept, weight
  <2>6. ASSUME NEW v \in DOMAIN kept
        PROVE  v \in BasisVector /\ Normalize(kept[v], weight) \in Ring
    <3>1. v \in BasisVector /\ kept[v] \in Ring
      BY <2>1, <2>3 DEF IsSparse, ValuesIn
    <3>2. weight \in Weights
      BY <2>5
    <3>3. PICK j \in 0..Scale : \A z : Normalize(z, weight) = Times(z, Root2Power(j))
      BY <3>2, NormalizeType
    <3>4. Root2Power(j) \in Ring
      BY Root2Powers
    <3>5. QED
      BY <3>1, <3>3, <3>4, TimesRing
  <2>7. QED
    BY <2>4, <2>6 DEF IsSparse, ValuesIn
<1>3. ASSUME NEW q \in Qubit, Reset(q)
      PROVE  IsSparse(state')
  <2>1. RepresentableReset(state, q) /\ state' = update_data_after_reset(state, q)
    BY <1>3 DEF Reset
  <2>2. QED
    BY <2>1, ResetKeepsNorm
<1>4. CASE ResetAll
  <2>1. state' = reset_data(state)
    BY <1>4 DEF ResetAll
  <2>2. reset_data(state).data = [v \in {GroundState} |-> Root2Power(Scale)]
    BY DEF reset_data
  <2>3. QED
    BY <2>1, <2>2, GroundStateNorm
<1>5. CASE Inspect
  <2>1. state' = clean_up_zeros(state)
    BY <1>5 DEF Inspect
  <2>2. QED
    BY <2>1, CleanUpKeepsAmplitudes
<1>6. CASE UNCHANGED vars
  <2>1. state' = state
    BY <1>6 DEF vars
  <2>2. QED
    BY <2>1
<1>7. QED
  BY <1>1, <1>2, <1>3, <1>4, <1>5, <1>6 DEF Next

\* A gate gives the same map in whichever order the unordered map has its entries, for
\* every register, gate, list of operands and reachable state: the loop that finds and
\* emplaces, entry by entry and row by row, computes the sums that the gate stands for.
THEOREM EntriesInAnyOrderCorrect == Spec => []EntriesInAnyOrder
<1>. DEFINE Sparse == IsSparse(state)
<1>1. Init => Sparse
  BY InitNorm DEF Init, NormInv
<1>2. Sparse /\ [Next]_vars => Sparse'
  BY SparseStep DEF IsSparse, ValuesIn
<1>3. Sparse => EntriesInAnyOrder
  <2>. SUFFICES ASSUME Sparse, NEW g \in Gates, NEW operands \in OperandLists(g),
                       NEW order \in SetToSeqs(DOMAIN state.data)
                PROVE  apply_in_order(state.data, MatrixOf(g), operands, order)
                         = apply_impl(state.data, MatrixOf(g), operands)
    BY DEF EntriesInAnyOrder
  <2>1. operands \in [1..Arity(g) -> Qubit] /\ IsInjective(operands)
    BY DEF OperandLists
  <2>2. QED
    BY <2>1, GateMatrix, AnyOrderOfEntries
<1>4. QED
  BY <1>1, <1>2, <1>3, PTL DEF Spec

-----------------------------------------------------------------------------
(* The ideal context: what its gates are.                                  *)

\* The operators that IdealContext has in common with this module.
LEMMA IdealSums ==
  ASSUME NEW zero, NEW f
  PROVE  Ideal!SumOf(zero, f) = SumOf(zero, f)
  BY DEF Ideal!SumOf, SumOf, Ideal!Plus, Plus, Ideal!FoldFunction, FoldFunction,
         Ideal!FoldFunctionOnSet, FoldFunctionOnSet, Ideal!MapThenFoldSet, MapThenFoldSet

\* The arithmetic and the sets of IdealContext are those of this module.
LEMMA IdealRing ==
  /\ Ideal!Null = Null /\ Ideal!NoWeight = NoWeight /\ Ideal!Unity = Unity /\ Ideal!Root2 = Root2
  /\ Ideal!Qubit = Qubit /\ Ideal!Bit = Bit /\ Ideal!BasisVector = BasisVector
  /\ \A x, y : Ideal!Plus(x, y) = Plus(x, y) /\ Ideal!Times(x, y) = Times(x, y)
  /\ \A x : Ideal!Minus(x) = Minus(x) /\ Ideal!Conj(x) = Conj(x)
  /\ \A x : Ideal!Norm(x) = Norm(x) /\ Ideal!Real(x) = Real(x)
  /\ \A x : Ideal!Positive(x) <=> Positive(x)
  /\ \A k : Ideal!Root2Power(k) = Root2Power(k)
  BY DEF Ideal!Null, Null, Ideal!NoWeight, NoWeight, Ideal!Unity, Unity, Ideal!Root2, Root2,
         Ideal!Qubit, Qubit, Ideal!Bit, Bit, Ideal!BasisVector, BasisVector, Ideal!Plus,
         Plus, Ideal!Times, Times, Ideal!Minus, Minus, Ideal!Conj, Conj, Ideal!Norm, Norm,
         Ideal!Real, Real, Ideal!Positive, Positive, Ideal!Root2Power, Root2Power

\* The size of a plain gate, and what its number of operands is.
LEMMA PlainSize ==
  ASSUME NEW g, IsPlainGate(g)
  PROVE  /\ Ideal!OperandCount(g) \in 1..3
         /\ IsSquare(MatrixOf(g), 2^Ideal!OperandCount(g))
<1>. DEFINE name == g.name
            m == MatrixOf(g)
            k == Ideal!OperandCount(g)
<1>1. /\ name \in {"CNOT", "CZ", "CR", "CRk", "SWAP"} => k = 2
      /\ name = "TOFFOLI" => k = 3
      /\ name \notin {"CNOT", "CZ", "CR", "CRk", "SWAP", "TOFFOLI"} => k = 1
  BY DEF Ideal!OperandCount
<1>2. 2^1 = 2 /\ 2^2 = 4 /\ 2^3 = 8
  BY SmallPowers
<1>3. \A n : \A b : IsGate(b, n) => IsSquare(b, n)
  BY DEF IsGate
<1>. HIDE DEF name, m, k
<1>4. CASE name \in {"CR", "CRk"}
  <2>1. PICK e \in Int : m = CR(e)
    BY <1>4, PlainMatrix DEF name, m
  <2>2. IsSquare(m, 4)
    BY <1>3, <2>1, PhasesOfFourRows
  <2>3. k = 2
    BY <1>1, <1>4
  <2>4. QED
    BY <1>2, <2>2, <2>3 DEF m, k
<1>5. CASE name \in {"Rx", "Ry", "Rz"}
  <2>1. PICK e \in Int : m = RX(e) \/ m = RY(e) \/ m = RZ(e)
    BY <1>5, PlainMatrix DEF name, m
  <2>2. IsSquare(m, 2)
    BY <1>3, <2>1, Rotations
  <2>3. k = 1
    BY <1>1, <1>5
  <2>4. QED
    BY <1>2, <2>2, <2>3 DEF m, k
<1>6. CASE name \in {"CNOT", "CZ", "SWAP"}
  <2>1. m = CNOT \/ m = CZ \/ m = SWAP
    BY <1>6, PlainMatrix, FixedNames DEF name, m
  <2>2. 0 \in Int
    OBVIOUS
  <2>3. IsSquare(m, 4)
    BY <1>3, <2>1, <2>2, PhasesOfFourRows, FixedOfFourRows
  <2>4. k = 2
    BY <1>1, <1>6
  <2>5. QED
    BY <1>2, <2>3, <2>4 DEF m, k
<1>7. CASE name = "TOFFOLI"
  <2>1. m = TOFFOLI
    BY <1>7, PlainMatrix, FixedNames DEF name, m
  <2>2. IsSquare(m, 8) /\ k = 3
    BY <1>1, <1>3, <1>7, <2>1, ToffoliIsGate
  <2>3. QED
    BY <1>2, <2>2 DEF m, k
<1>8. CASE name \in {"H", "I", "mX90", "mY90", "S", "Sdag", "T", "Tdag", "X", "X90", "Y", "Y90", "Z"}
  <2>1. \/ m = H \/ m = IDENTITY \/ m = MX90 \/ m = MY90 \/ m = S \/ m = SDAG \/ m = T \/ m = TDAG
        \/ m = X \/ m = X90 \/ m = Y \/ m = Y90 \/ m = Z
    BY <1>8, PlainMatrix, FixedNames DEF name, m
  <2>2. IsSquare(m, 2)
    BY <1>3, <2>1, FixedOfTwoRows, FixedDense
  <2>3. k = 1
    BY <1>1, <1>8
  <2>4. QED
    BY <1>2, <2>2, <2>3 DEF m, k
<1>9. QED
  BY <1>4, <1>5, <1>6, <1>7, <1>8, PlainNames DEF name

\* The matrix of a gate has a row for every index of its operands.
LEMMA PlainArity ==
  ASSUME NEW g \in Gates, IsPlainGate(g)
  PROVE  Arity(g) = Ideal!OperandCount(g) /\ Arity(g) \in Nat \ {0}
<1>. DEFINE k == Ideal!OperandCount(g)
            n == Arity(g)
<1>1. k \in 1..3 /\ SizeOf(MatrixOf(g)) = 2^k
  <2>1. k \in 1..3 /\ IsSquare(MatrixOf(g), 2^k)
    BY PlainSize
  <2>2. 2^k \in Nat
    BY <2>1, PowersOfTwo
  <2>3. QED
    BY <2>1, <2>2, SquareType
<1>2. n \in Nat /\ SizeOf(MatrixOf(g)) = 2^n
  <2>1. n \in Nat /\ IsSquare(MatrixOf(g), 2^n)
    BY GateMatrix DEF IsMatrixFor
  <2>2. 2^n \in Nat
    BY <2>1, PowersOfTwo
  <2>3. QED
    BY <2>1, <2>2, SquareType
<1>. HIDE DEF k, n
<1>3. 2^n = 2^k /\ 2^k \in {2, 4, 8}
  <2>1. k = 1 \/ k = 2 \/ k = 3
    BY <1>1
  <2>2. 2^k = 2 \/ 2^k = 4 \/ 2^k = 8
    BY <2>1, SmallPowers, Zenon
  <2>3. QED
    BY <1>1, <1>2, <2>2
<1>4. n \in 0..3
  <2>1. CASE n >= 4
    <3>1. n - 4 \in Nat /\ 4 + (n - 4) = n /\ 3 + 1 = 4 /\ 4 \in Nat /\ 3 \in Nat
      BY <1>2, <2>1
    <3>. DEFINE j == n - 4
    <3>7. 2^(4 + j) = 2^4 * 2^j /\ 2^j \in Nat \ {0}
      BY <3>1, PowersMultiply, PowersOfTwo
    <3>2. 2^n = 2^4 * 2^j /\ 2^j \in Nat \ {0}
      BY <3>1, <3>7, Zenon
    <3>3. 2^4 = 16
      <4>1. 2^(3 + 1) = 2 * 2^3
        BY <3>1, PowersOfTwo
      <4>2. 2^4 = 2 * 8
        BY <3>1, <4>1, SmallPowers, Zenon
      <4>3. QED
        BY <4>2
    <3>. HIDE DEF j
    <3>4. \A z \in Nat \ {0} : 16 * z > 8
      OBVIOUS
    <3>5. 2^n > 8
      BY <3>2, <3>3, <3>4
    <3>6. QED
      BY <1>3, <3>5
  <2>2. QED
    BY <1>2, <2>1
<1>5. n = k
  <2>1. (n = 0 \/ n = 1 \/ n = 2 \/ n = 3) /\ (k = 1 \/ k = 2 \/ k = 3)
    BY <1>1, <1>4
  <2>2. /\ n = 0 => 2^n = 1
        /\ n = 1 => 2^n = 2
        /\ n = 2 => 2^n = 4
        /\ n = 3 => 2^n = 8
        /\ k = 1 => 2^k = 2
        /\ k = 2 => 2^k = 4
        /\ k = 3 => 2^k = 8
    BY SmallPowers, Zenon
  <2>. DEFINE x == 2^n
              y == 2^k
  <2>3. /\ x = y
        /\ n = 0 => x = 1
        /\ n = 1 => x = 2
        /\ n = 2 => x = 4
        /\ n = 3 => x = 8
        /\ k = 1 => y = 2
        /\ k = 2 => y = 4
        /\ k = 3 => y = 8
    BY <1>3, <2>2
  <2>. HIDE DEF x, y
  <2>4. QED
    BY <2>1, <2>3
<1>6. QED
  BY <1>1, <1>5 DEF n, k

\* What the ideal context says of a gate is true of its matrix.
LEMMA PlainGateTurns ==
  ASSUME NEW g, IsPlainGate(g), g.name # "H", g.name # "SWAP"
  PROVE  \E b : /\ IsBlock(MatrixOf(g), b, Ideal!OperandCount(g))
                /\ Ideal!TurnOf(g).axis \in {"x", "y", "z"}
                /\ IsTurn(b, Ideal!TurnOf(g).axis, Ideal!TurnOf(g).first, Ideal!TurnOf(g).second)
<1>. DEFINE name == g.name
            m == MatrixOf(g)
            k == Ideal!OperandCount(g)
            p == g.parameter
            turn == Ideal!TurnOf(g)
            Found(axis, first, second, b) ==
              /\ turn = Ideal!Turn(axis, first, second) /\ axis \in {"x", "y", "z"}
              /\ IsBlock(m, b, k) /\ IsTurn(b, axis, first, second)
<1>1. /\ name \in {"CNOT", "CZ", "CR", "CRk", "SWAP"} => k = 2
      /\ name = "TOFFOLI" => k = 3
      /\ name \notin {"CNOT", "CZ", "CR", "CRk", "SWAP", "TOFFOLI"} => k = 1
  BY DEF Ideal!OperandCount
<1>2. /\ name \in {"X", "CNOT", "TOFFOLI"} => turn = Ideal!Turn("x", 0, 4)
      /\ name = "X90" => turn = Ideal!Turn("x", 0, 2)
      /\ name = "mX90" => turn = Ideal!Turn("x", 0, -2)
      /\ name = "Rx" => turn = Ideal!Turn("x", -p, p)
      /\ name = "Y" => turn = Ideal!Turn("y", 0, 4)
      /\ name = "Y90" => turn = Ideal!Turn("y", 0, 2)
      /\ name = "mY90" => turn = Ideal!Turn("y", 0, -2)
      /\ name = "Ry" => turn = Ideal!Turn("y", -p, p)
      /\ name = "I" => turn = Ideal!Turn("z", 0, 0)
      /\ name \in {"Z", "CZ"} => turn = Ideal!Turn("z", 0, 4)
      /\ name = "S" => turn = Ideal!Turn("z", 0, 2)
      /\ name = "Sdag" => turn = Ideal!Turn("z", 0, -2)
      /\ name = "T" => turn = Ideal!Turn("z", 0, 1)
      /\ name = "Tdag" => turn = Ideal!Turn("z", 0, -1)
      /\ name = "Rz" => turn = Ideal!Turn("z", -p, p)
      /\ name = "CR" => turn = Ideal!Turn("z", 0, p)
      /\ name = "CRk" => turn = Ideal!Turn("z", 0, 2^(3 - p))
  BY DEF Ideal!TurnOf
<1>. HIDE DEF turn, name, m, k, p
<1>3. \A axis, first, second, b : IsTurn(b, axis, first, second) => IsBlock(b, b, 1)
  BY SingleBlock DEF IsTurn
<1>4. 0 \in Int
  OBVIOUS
<1>5. \E axis, first, second, b : Found(axis, first, second, b)
  <2>1. CASE name = "X"
    <3>1. Found("x", 0, 4, X)
      BY <1>1, <1>2, <1>3, <2>1, PlainMatrix, FixedNames, FixedTurns DEF name, m
    <3>2. QED
      BY <3>1
  <2>2. CASE name = "CNOT"
    <3>1. Found("x", 0, 4, X)
      BY <1>1, <1>2, <1>4, <2>2, PlainMatrix, FixedNames, FixedTurns, Blocks DEF name, m
    <3>2. QED
      BY <3>1
  <2>3. CASE name = "TOFFOLI"
    <3>1. Found("x", 0, 4, X)
      BY <1>1, <1>2, <1>4, <2>3, PlainMatrix, FixedNames, FixedTurns, Blocks DEF name, m
    <3>2. QED
      BY <3>1
  <2>4. CASE name = "X90"
    <3>1. Found("x", 0, 2, X90)
      BY <1>1, <1>2, <1>3, <2>4, PlainMatrix, FixedNames, FixedTurns DEF name, m
    <3>2. QED
      BY <3>1
  <2>5. CASE name = "mX90"
    <3>1. Found("x", 0, -2, MX90)
      BY <1>1, <1>2, <1>3, <2>5, PlainMatrix, FixedNames, FixedTurns DEF name, m
    <3>2. QED
      BY <3>1
  <2>6. CASE name = "Rx"
    <3>1. Found("x", -p, p, RX(p))
      BY <1>1, <1>2, <1>3, <2>6, PlainMatrix, RotationTurns DEF name, m, p
    <3>2. QED
      BY <3>1
  <2>7. CASE name = "Y"
    <3>1. Found("y", 0, 4, Y)
      BY <1>1, <1>2, <1>3, <2>7, PlainMatrix, FixedNames, FixedTurns DEF name, m
    <3>2. QED
      BY <3>1
  <2>8. CASE name = "Y90"
    <3>1. Found("y", 0, 2, Y90)
      BY <1>1, <1>2, <1>3, <2>8, PlainMatrix, FixedNames, FixedTurns DEF name, m
    <3>2. QED
      BY <3>1
  <2>9. CASE name = "mY90"
    <3>1. Found("y", 0, -2, MY90)
      BY <1>1, <1>2, <1>3, <2>9, PlainMatrix, FixedNames, FixedTurns DEF name, m
    <3>2. QED
      BY <3>1
  <2>10. CASE name = "Ry"
    <3>1. Found("y", -p, p, RY(p))
      BY <1>1, <1>2, <1>3, <2>10, PlainMatrix, RotationTurns DEF name, m, p
    <3>2. QED
      BY <3>1
  <2>11. CASE name = "I"
    <3>1. Found("z", 0, 0, IDENTITY)
      BY <1>1, <1>2, <1>3, <2>11, PlainMatrix, FixedNames, DiagonalGates DEF name, m
    <3>2. QED
      BY <3>1
  <2>12. CASE name = "Z"
    <3>1. Found("z", 0, 4, Z)
      BY <1>1, <1>2, <1>3, <2>12, PlainMatrix, FixedNames, DiagonalGates DEF name, m
    <3>2. QED
      BY <3>1
  <2>13. CASE name = "CZ"
    <3>1. Found("z", 0, 4, Z)
      BY <1>1, <1>2, <1>4, <2>13, PlainMatrix, FixedNames, DiagonalGates, Blocks DEF name, m
    <3>2. QED
      BY <3>1
  <2>14. CASE name = "S"
    <3>1. Found("z", 0, 2, S)
      BY <1>1, <1>2, <1>3, <2>14, PlainMatrix, FixedNames, DiagonalGates DEF name, m
    <3>2. QED
      BY <3>1
  <2>15. CASE name = "Sdag"
    <3>1. Found("z", 0, -2, SDAG)
      BY <1>1, <1>2, <1>3, <2>15, PlainMatrix, FixedNames, DiagonalGates DEF name, m
    <3>2. QED
      BY <3>1
  <2>16. CASE name = "T"
    <3>1. Found("z", 0, 1, T)
      BY <1>1, <1>2, <1>3, <2>16, PlainMatrix, FixedNames, DiagonalGates DEF name, m
    <3>2. QED
      BY <3>1
  <2>17. CASE name = "Tdag"
    <3>1. Found("z", 0, -1, TDAG)
      BY <1>1, <1>2, <1>3, <2>17, PlainMatrix, FixedNames, DiagonalGates DEF name, m
    <3>2. QED
      BY <3>1
  <2>18. CASE name = "Rz"
    <3>1. Found("z", -p, p, RZ(p))
      BY <1>1, <1>2, <1>3, <2>18, PlainMatrix, RotationTurns DEF name, m, p
    <3>2. QED
      BY <3>1
  <2>19. CASE name = "CR"
    <3>1. Found("z", 0, p, Diagonal(PhaseOf(p % 8)))
      BY <1>1, <1>2, <2>19, PlainMatrix, Blocks, DiagonalPhases DEF name, m, p
    <3>2. QED
      BY <3>1
  <2>20. CASE name = "CRk"
    <3>. DEFINE e == 2^(3 - p)
    <3>1. e \in Int /\ m = CR(e) /\ turn = Ideal!Turn("z", 0, e) /\ k = 2
      BY <1>1, <1>2, <2>20, PlainMatrix DEF name, m, p
    <3>. HIDE DEF e
    <3>2. Found("z", 0, e, Diagonal(PhaseOf(e % 8)))
      BY <3>1, Blocks, DiagonalPhases
    <3>3. QED
      BY <3>2
  <2>. HIDE DEF Found
  <2>21. QED
    BY <2>1, <2>2, <2>3, <2>4, <2>5, <2>6, <2>7, <2>8, <2>9, <2>10, <2>11, <2>12, <2>13, <2>14,
       <2>15, <2>16, <2>17, <2>18, <2>19, <2>20, PlainNames DEF name
<1>6. PICK axis, first, second, b : Found(axis, first, second, b)
  BY <1>5
<1>7. turn.axis = axis /\ turn.first = first /\ turn.second = second
  BY <1>6 DEF Ideal!Turn
<1>8. QED
  BY <1>6, <1>7 DEF turn, m, k

\* A turn by eighths of a circle is a multiplication by a phase.
LEMMA IdealTurned ==
  ASSUME NEW k \in Int, NEW z
  PROVE  Ideal!Turned(k, z) = Times(PhaseOf(k % 8), z)
<1>1. k % 8 \in 0..7
  OBVIOUS
<1>2. Ideal!Eighth[k % 8] = PhaseOf(k % 8)
  BY <1>1 DEF Ideal!Eighth, PhaseOf
<1>3. Ideal!Turned(k, z) = Ideal!Times(Ideal!Eighth[k % 8], z)
  BY DEF Ideal!Turned
<1>4. QED
  BY <1>2, <1>3, IdealRing

-----------------------------------------------------------------------------
(* The ideal context: what a gate does to the amplitudes.                  *)

\* A gate adds to an amplitude the product of a row with the amplitudes of its class.
RowTerms(array, m, operands, w) ==
  [c \in 1..SizeOf(m) |-> Times(Amplitude(array, RowIndex(w, operands, c - 1)),
                                m.rows[ReducedIndex(w, operands) + 1][c])]

\* What a gate leaves of an amplitude is the sum of what it adds, over its halvings.
LEMMA AppliedIs ==
  ASSUME NEW k \in Nat, NEW m, IsMatrixFor(m, k), NEW operands \in [1..k -> Qubit],
         NEW array, IsSparse(array), RepresentableApply(array, m, operands), NEW w \in BasisVector
  PROVE  LET after == Amplitude(apply_linear(array, m, operands), w)
         IN  /\ after \in Ring
             /\ Times(Root2Power(m.halvings), after) = Added(array.data, m, operands, w)
<1>. DEFINE a     == array.data
            h     == m.halvings
            sum   == Added(a, m, operands, w)
            after == Amplitude(apply_linear(array, m, operands), w)
<1>1. h \in Nat /\ sum \in Ring /\ (Sources(a, m, operands, w) = {} => sum = Null)
  <2>1. h \in Nat
    BY DEF IsMatrixFor, IsSquare
  <2>2. sum \in Ring /\ (Sources(a, m, operands, w) = {} => sum = Null)
    BY AddedIsOutput
  <2>3. QED
    BY <2>1, <2>2
<1>2. Divisible(sum, h)
  BY DEF RepresentableApply
<1>3. apply_linear(array, m, operands).data = apply_impl(Cleaned(array).data, m, operands)
  BY DEF apply_linear
<1>4. /\ Sources(Cleaned(array).data, m, operands, w) = Sources(a, m, operands, w)
      /\ Added(Cleaned(array).data, m, operands, w) = sum
  BY CleanUpKeepsSources DEF Cleaned
<1>5. after = IF Sources(a, m, operands, w) = {} THEN Null ELSE Divide(sum, h)
  BY <1>3, <1>4 DEF Amplitude, apply_impl
<1>. HIDE DEF after, sum, h
<1>6. CASE Sources(a, m, operands, w) = {}
  BY <1>1, <1>5, <1>6, RootSquared, TimesRing, Spaces DEF after, sum, h
<1>7. CASE Sources(a, m, operands, w) # {}
  BY <1>1, <1>2, <1>5, <1>7, DivideIs DEF after, sum, h
<1>8. QED
  BY <1>6, <1>7

\* The sum that apply_linear forms for a basis vector is that of its row terms.
LEMMA AddedIs ==
  ASSUME NEW k \in Nat, NEW m, IsMatrixFor(m, k), NEW operands \in [1..k -> Qubit],
         IsInjective(operands), NEW array, IsSparse(array), NEW w \in BasisVector
  PROVE  /\ SizeOf(m) = 2^k
         /\ ValuesIn(RowTerms(array, m, operands, w), 1..2^k, Ring)
         /\ Added(array.data, m, operands, w) = SumOver(Null, RowTerms(array, m, operands, w), 1..2^k)
<1>. DEFINE a     == array.data
            D     == DOMAIN a
            K     == GateKernel(m, operands)
            n     == 2^k
            Class == {u \in BasisVector : AgreeOutside(operands, w, u)}
            t     == Terms(K, a, D, w)
            all   == [v \in BasisVector |-> Times(Amplitude(array, v), K[<<w, v>>])]
            row   == [c \in 1..n |-> RowIndex(w, operands, c - 1)]
            f     == RowTerms(array, m, operands, w)
<1>1. D \in SUBSET BasisVector /\ IsFiniteSet(D) /\ ValuesIn(a, D, Ring)
  BY BasisVectorsFinite, FS_Subset DEF IsSparse
<1>2. n \in Nat \ {0} /\ IsFiniteSet(1..n) /\ SizeOf(m) = n
  <2>1. n \in Nat \ {0}
    BY PowersOfTwo
  <2>2. QED
    BY <2>1, FS_Interval, SquareType DEF IsMatrixFor
<1>3. \A v \in BasisVector :
        /\ K[<<w, v>>] = (IF AgreeOutside(operands, v, w)
                         THEN at(m, ReducedIndex(w, operands), ReducedIndex(v, operands)) ELSE Null)
        /\ K[<<w, v>>] \in Ring
  BY GateKernelType
<1>4. \A v \in BasisVector : Amplitude(array, v) \in Ring
  BY SquaresType
<1>5. ValuesIn(all, BasisVector, Ring)
  BY <1>3, <1>4, TimesRing DEF ValuesIn
<1>6. Class \in SUBSET BasisVector /\ IsFiniteSet(Class)
  BY BasisVectorsFinite, FS_Subset
<1>7. \A v : AgreeOutside(operands, v, w) <=> AgreeOutside(operands, w, v)
  BY DEF AgreeOutside
<1>8. SumOver(Null, all, BasisVector) = SumOver(Null, all, Class)
  <2>1. \A v \in BasisVector \ Class : all[v] = Null
    BY <1>3, <1>4, <1>7, TimesRing
  <2>. HIDE DEF all, Class
  <2>2. QED
    BY <1>5, <1>6, <2>1, BasisVectorsFinite, Spaces, SumSupport
<1>9. SumOver(Null, all, BasisVector) = SumOver(Null, all, D)
  <2>1. \A v \in BasisVector \ D : all[v] = Null
    <3>1. \A v \in BasisVector \ D : Amplitude(array, v) = Null
      BY DEF Amplitude
    <3>2. QED
      BY <1>3, <3>1, TimesRing
  <2>. HIDE DEF all, D
  <2>2. QED
    BY <1>1, <1>5, <2>1, BasisVectorsFinite, Spaces, SumSupport
<1>10. SumOver(Null, all, D) = Output(K, a, D, D, w)
  <2>1. \A v \in D : t[v] = all[v]
    BY <1>1 DEF Terms, Amplitude
  <2>2. ValuesIn(all, D, Ring)
    BY <1>1, <1>5 DEF ValuesIn
  <2>3. Output(K, a, D, D, w) = SumOver(Null, t, D)
    BY DEF Output
  <2>. HIDE DEF all, t, D
  <2>4. QED
    BY <1>1, <2>1, <2>2, <2>3, Spaces, SumEqual
<1>11. ASSUME NEW c \in 1..n
       PROVE  /\ c - 1 \in 0..(n - 1) /\ row[c] \in Class
              /\ ReducedIndex(row[c], operands) = c - 1
  <2>1. c - 1 \in 0..(n - 1)
    BY <1>2
  <2>2. QED
    BY <2>1, RowIndexIs
<1>12. row \in Bijection(1..n, Class)
  <2>1. row \in [1..n -> Class]
    BY <1>11
  <2>2. ASSUME NEW c \in 1..n, NEW e \in 1..n, row[c] = row[e]
        PROVE  c = e
    <3>1. c - 1 = e - 1
      BY <1>11, <2>2
    <3>2. QED
      BY <1>2, <3>1
  <2>3. ASSUME NEW u \in Class
        PROVE  \E c \in 1..n : row[c] = u
    <3>1. ReducedIndex(u, operands) \in 0..(n - 1)
      BY IndexType
    <3>2. PICK c \in 1..n : ReducedIndex(u, operands) = c - 1
      <4>1. ReducedIndex(u, operands) + 1 \in 1..n /\ (ReducedIndex(u, operands) + 1) - 1 = ReducedIndex(u, operands)
        BY <1>2, <3>1
      <4>2. QED
        BY <4>1
    <3>3. row[c] \in Class /\ ReducedIndex(row[c], operands) = ReducedIndex(u, operands)
      BY <1>11, <3>2
    <3>4. QED
      BY <3>3, IndexIsOneToOne
  <2>. HIDE DEF row, Class
  <2>4. row \in Injection(1..n, Class)
    BY <2>1, <2>2 DEF Injection, IsInjective
  <2>5. row \in Surjection(1..n, Class)
    BY <2>1, <2>3 DEF Surjection
  <2>6. QED
    BY <2>4, <2>5 DEF Bijection
<1>13. ASSUME NEW c \in 1..n
       PROVE  f[c] = all[row[c]]
  <2>1. f[c] = Times(Amplitude(array, row[c]), m.rows[ReducedIndex(w, operands) + 1][c])
    BY <1>2 DEF RowTerms
  <2>2. row[c] \in BasisVector /\ AgreeOutside(operands, row[c], w) /\ ReducedIndex(row[c], operands) + 1 = c
    BY <1>2, <1>7, <1>11
  <2>3. K[<<w, row[c]>>] = m.rows[ReducedIndex(w, operands) + 1][c]
    BY <1>3, <2>2 DEF at
  <2>4. QED
    BY <2>1, <2>2, <2>3
<1>14. ValuesIn(f, 1..n, Ring)
  BY <1>5, <1>11, <1>13 DEF ValuesIn
<1>15. SumOver(Null, f, 1..n) = SumOver(Null, all, Class)
  <2>1. ValuesIn(all, Class, Ring)
    BY <1>5 DEF ValuesIn
  <2>. HIDE DEF all, Class, row, f, n
  <2>2. QED
    BY <1>2, <1>12, <1>13, <2>1, Spaces, SumReindexed
<1>16. QED
  BY <1>2, <1>8, <1>9, <1>10, <1>14, <1>15, AddedIsOutput

\* The operands before the last one.
AllSet(v, operands, k) == \A j \in 1..(k - 1) : v[operands[j]]

\* The last two indices are those of basis vectors where all operands but the last are set.
LEMMA LastIndices ==
  ASSUME NEW k \in Nat \ {0}, NEW operands \in [1..k -> Qubit], NEW v \in BasisVector
  PROVE  /\ AllSet(v, operands, k) => ReducedIndex(v, operands) = 2^k - 2 + BitOf(v[operands[k]])
         /\ ~AllSet(v, operands, k) => ReducedIndex(v, operands) < 2^k - 2
         /\ 2^k - 2 \in Nat
<1>1. PICK ix : IsIndex(ix, v, operands, k) /\ ReducedIndex(v, operands) = ix[k]
  BY IndexDefined
<1>2. /\ ix[0] = 0 /\ \A j \in 0..k : ix[j] \in Nat
      /\ \A j \in 1..k : ix[j] = 2 * ix[j - 1] + BitOf(v[operands[j]])
  BY <1>1 DEF IsIndex
<1>3. \A j \in 1..k : BitOf(v[operands[j]]) \in {0, 1} /\ (BitOf(v[operands[j]]) = 1 <=> v[operands[j]])
  BY DEF BitOf
<1>. DEFINE FirstSet(j) == \A i \in 1..j : v[operands[i]]
            Holds(j) == ix[j] < 2^j /\ (ix[j] = 2^j - 1 <=> FirstSet(j))
            Good == {j \in Nat : j <= k => Holds(j)}
<1>4. 0 \in Good
  BY <1>2, PowersOfTwo
<1>5. ASSUME NEW j \in Good
      PROVE  j + 1 \in Good
  <2>. SUFFICES ASSUME j + 1 <= k
                PROVE  Holds(j + 1)
    OBVIOUS
  <2>1. j \in Nat /\ j \in 0..k /\ j + 1 \in 1..k /\ (j + 1) - 1 = j /\ Holds(j)
    OBVIOUS
  <2>2. ix[j + 1] = 2 * ix[j] + BitOf(v[operands[j + 1]]) /\ ix[j] \in Nat
    BY <1>2, <2>1
  <2>3. 2^(j + 1) = 2 * 2^j /\ 2^j \in Nat
    BY <2>1, PowersOfTwo
  <2>4. FirstSet(j + 1) <=> FirstSet(j) /\ v[operands[j + 1]]
    <3>1. 1..(j + 1) = (1..j) \union {j + 1}
      BY <2>1
    <3>2. QED
      BY <3>1
  <2>5. BitOf(v[operands[j + 1]]) \in {0, 1} /\ (BitOf(v[operands[j + 1]]) = 1 <=> v[operands[j + 1]])
    BY <1>3, <2>1
  <2>6. ix[j] < 2^j /\ (ix[j] = 2^j - 1 <=> FirstSet(j))
    BY <2>1
  <2>. HIDE DEF FirstSet
  <2>. DEFINE b == BitOf(v[operands[j + 1]])
              p == 2^j
              x == ix[j]
  <2>7. b \in {0, 1} /\ p \in Nat /\ x \in Nat /\ x < p
    BY <2>2, <2>3, <2>5, <2>6
  <2>. HIDE DEF b, p, x
  <2>8. 2 * x + b < 2 * p /\ (2 * x + b = 2 * p - 1 <=> x = p - 1 /\ b = 1)
    BY <2>7
  <2>9. QED
    BY <2>2, <2>3, <2>4, <2>5, <2>6, <2>8 DEF b, p, x
<1>6. Good = Nat
  <2>1. Good \in SUBSET Nat
    OBVIOUS
  <2>. HIDE DEF Good
  <2>2. QED
    BY <1>4, <1>5, <2>1, Induction
<1>7. k - 1 \in Nat /\ k - 1 \in 0..k /\ k \in 1..k /\ (k - 1) + 1 = k
  OBVIOUS
<1>8. ix[k - 1] < 2^(k - 1) /\ (ix[k - 1] = 2^(k - 1) - 1 <=> AllSet(v, operands, k))
  <2>1. k - 1 \in Good
    BY <1>6, <1>7
  <2>2. QED
    BY <1>7, <2>1 DEF AllSet
<1>9. 2^k = 2 * 2^(k - 1) /\ 2^(k - 1) \in Nat \ {0}
  BY <1>7, PowersOfTwo
<1>10. /\ ix[k] = 2 * ix[k - 1] + BitOf(v[operands[k]]) /\ ix[k - 1] \in Nat
       /\ BitOf(v[operands[k]]) \in {0, 1}
  BY <1>2, <1>3, <1>7
<1>. DEFINE b == BitOf(v[operands[k]])
            p == 2^(k - 1)
            x == ix[k - 1]
            y == ix[k]
            z == 2^k
<1>11. /\ b \in {0, 1} /\ p \in Nat \ {0} /\ x \in Nat /\ x < p /\ y = 2 * x + b /\ z = 2 * p
       /\ (x = p - 1 <=> AllSet(v, operands, k))
  BY <1>8, <1>9, <1>10
<1>12. ReducedIndex(v, operands) = y
  BY <1>1
<1>. HIDE DEF b, p, x, y, z
<1>13. (x = p - 1 => y = z - 2 + b) /\ (x # p - 1 => y < z - 2) /\ z - 2 \in Nat
  BY <1>11
<1>14. QED
  BY <1>11, <1>12, <1>13 DEF b, z

\* A basis vector with one qubit cleared, and with it set; the row of b for a basis vector.
WithZero(w, q) == [w EXCEPT ![q] = FALSE]
WithOne(w, q)  == [w EXCEPT ![q] = TRUE]
RowFor(w, q)   == IF w[q] THEN 2 ELSE 1

\* Such a gate leaves a basis vector alone unless the operands before the last are set, and
\* then applies the two rows of b to the last operand.
LEMMA BlockApplied ==
  ASSUME NEW k \in Nat \ {0}, NEW m, NEW b, NEW operands \in [1..k -> Qubit],
         NEW array, NEW after, NEW w \in BasisVector,
         IsMatrixFor(m, k), IsBlock(m, b, k), IsInjective(operands),
         IsSparse(array), RepresentableApply(array, m, operands),
         after = apply_linear(array, m, operands)
  PROVE  /\ ~AllSet(w, operands, k) => Amplitude(after, w) = Amplitude(array, w)
         /\ AllSet(w, operands, k) =>
              Times(Root2Power(m.halvings), Amplitude(after, w))
                = RowApplied(b, RowFor(w, operands[k]), Amplitude(array, WithZero(w, operands[k])),
                             Amplitude(array, WithOne(w, operands[k])))
<1>. DEFINE n    == 2^k
            h    == m.halvings
            t    == operands[k]
            zero == [w EXCEPT ![t] = FALSE]
            one  == [w EXCEPT ![t] = TRUE]
            f    == RowTerms(array, m, operands, w)
            row(c) == RowIndex(w, operands, c - 1)
            R    == Root2Power(h)
<1>1. h \in Nat /\ k \in Nat /\ R \in Ring
  BY RootSquared DEF IsMatrixFor, IsSquare
<1>2. /\ SizeOf(m) = n /\ ValuesIn(f, 1..n, Ring)
      /\ Added(array.data, m, operands, w) = SumOver(Null, f, 1..n)
  BY AddedIs
<1>3. /\ Amplitude(after, w) \in Ring
      /\ Times(R, Amplitude(after, w)) = SumOver(Null, f, 1..n)
  BY <1>1, <1>2, AppliedIs
<1>4. n - 2 \in Nat /\ IsFiniteSet(1..n) /\ n \in Nat
  <2>1. n - 2 \in Nat /\ n \in Nat
    BY LastIndices, PowersOfTwo, <1>1
  <2>2. QED
    BY <2>1, FS_Interval
<1>5. \A v \in BasisVector : Amplitude(array, v) \in Ring
  BY SquaresType
<1>6. \A c \in 1..n : /\ row(c) \in BasisVector /\ AgreeOutside(operands, w, row(c))
                      /\ ReducedIndex(row(c), operands) = c - 1
  <2>1. ASSUME NEW c \in 1..n
        PROVE  c - 1 \in 0..(n - 1)
    BY <1>4
  <2>2. QED
    BY <1>1, <2>1, RowIndexIs
<1>7. \A c \in 1..n : f[c] = Times(Amplitude(array, row(c)), m.rows[ReducedIndex(w, operands) + 1][c])
  BY <1>2 DEF RowTerms
<1>8. \A r, c \in 1..n :
        m.rows[r][c] = IF r > n - 2 /\ c > n - 2 THEN b.rows[r - (n - 2)][c - (n - 2)]
                       ELSE IF r = c THEN R ELSE Null
  BY DEF IsBlock
<1>9. ASSUME NEW v \in BasisVector, AgreeOutside(operands, w, v), NEW c \in 1..n,
             ReducedIndex(v, operands) = c - 1
      PROVE  row(c) = v
  BY <1>1, <1>6, <1>9, IndexIsOneToOne
<1>10. ReducedIndex(w, operands) \in 0..(n - 1) /\ AgreeOutside(operands, w, w)
  BY <1>1, IndexType DEF AgreeOutside
<1>11. ASSUME ~AllSet(w, operands, k)
       PROVE  Amplitude(after, w) = Amplitude(array, w)
  <2>. DEFINE i == ReducedIndex(w, operands)
  <2>1. i < n - 2 /\ i \in Nat
    BY <1>10, <1>11, LastIndices
  <2>2. i + 1 \in 1..n /\ (i + 1) - 1 = i /\ ~(i + 1 > n - 2)
    BY <1>4, <2>1
  <2>3. row(i + 1) = w
    BY <1>9, <1>10, <2>2
  <2>4. \A c \in 1..n : m.rows[i + 1][c] = IF i + 1 = c THEN R ELSE Null
    BY <1>8, <2>2
  <2>. HIDE DEF i
  <2>5. \A c \in 1..n : f[c] = Times(Amplitude(array, row(c)), m.rows[i + 1][c])
    BY <1>7 DEF i
  <2>. HIDE DEF f, row, n, R
  <2>6. \A c \in (1..n) \ {i + 1} : f[c] = Null
    <3>1. ASSUME NEW c \in 1..n, c # i + 1
          PROVE  f[c] = Null
      <4>1. Amplitude(array, row(c)) \in Ring
        BY <1>5, <1>6
      <4>2. f[c] = Times(Amplitude(array, row(c)), Null)
        BY <2>4, <2>5, <3>1
      <4>3. QED
        BY <4>1, <4>2, TimesRing
    <3>2. QED
      BY <3>1
  <2>7. f[i + 1] = Times(Amplitude(array, w), R)
    BY <2>2, <2>3, <2>4, <2>5
  <2>8. SumOver(Null, f, 1..n) = Times(Amplitude(array, w), R)
    <3>. DEFINE J == 1..n
                x == i + 1
    <3>1. IsFiniteSet(J) /\ ValuesIn(f, J, Ring) /\ x \in J /\ \A y \in J \ {x} : f[y] = Null
      BY <1>2, <1>4, <2>2, <2>6
    <3>. HIDE DEF J, x
    <3>2. SumOver(Null, f, J) = f[x]
      BY <3>1, OneTerm
    <3>3. QED
      BY <2>7, <3>2 DEF J, x
  <2>9. Times(Amplitude(array, w), R) = Times(R, Amplitude(array, w)) /\ Amplitude(array, w) \in Ring
    BY <1>1, <1>5, TimesRing
  <2>10. QED
    BY <1>1, <1>3, <2>8, <2>9, RootCancels DEF R
<1>12. ASSUME AllSet(w, operands, k)
       PROVE  Times(R, Amplitude(after, w))
                = RowApplied(b, IF w[t] THEN 2 ELSE 1, Amplitude(array, zero), Amplitude(array, one))
  <2>. DEFINE i == IF w[t] THEN 2 ELSE 1
              x == n - 1
              y == n
  <2>1. /\ zero \in BasisVector /\ one \in BasisVector /\ k \in 1..k /\ t \in Qubit
        /\ w[t] \in BOOLEAN /\ zero[t] = FALSE /\ one[t] = TRUE
    BY DEF BasisVector
  <2>2. \A j \in 1..(k - 1) : operands[j] # t
    BY DEF IsInjective
  <2>3. AllSet(zero, operands, k) /\ AllSet(one, operands, k)
    <3>1. ASSUME NEW j \in 1..(k - 1)
          PROVE  zero[operands[j]] = w[operands[j]] /\ one[operands[j]] = w[operands[j]]
      <4>1. operands[j] # t /\ operands[j] \in Qubit /\ DOMAIN w = Qubit
        BY <2>2 DEF BasisVector
      <4>2. QED
        BY <4>1
    <3>2. QED
      BY <1>12, <3>1 DEF AllSet
  <2>4. AgreeOutside(operands, w, zero) /\ AgreeOutside(operands, w, one)
    <3>1. t \in Range(operands)
      BY <2>1 DEF Range
    <3>2. QED
      BY <2>1, <3>1 DEF AgreeOutside, BasisVector
  <2>5. /\ ReducedIndex(zero, operands) = n - 2 /\ ReducedIndex(one, operands) = n - 1
        /\ ReducedIndex(w, operands) + 1 = n - 2 + i
    <3>1. BitOf(zero[t]) = 0 /\ BitOf(one[t]) = 1 /\ BitOf(w[t]) + 1 = i /\ BitOf(w[t]) \in Int
      BY <2>1 DEF BitOf
    <3>2. /\ ReducedIndex(zero, operands) = n - 2 + BitOf(zero[t])
          /\ ReducedIndex(one, operands) = n - 2 + BitOf(one[t])
          /\ ReducedIndex(w, operands) = n - 2 + BitOf(w[t])
      BY <1>12, <2>1, <2>3, LastIndices
    <3>. HIDE DEF n, i, zero, one, t
    <3>3. QED
      BY <1>4, <3>1, <3>2
  <2>6. /\ x \in 1..n /\ y \in 1..n /\ x # y /\ x - 1 = n - 2 /\ y - 1 = n - 1
        /\ x > n - 2 /\ y > n - 2 /\ x - (n - 2) = 1 /\ y - (n - 2) = 2
        /\ n - 2 + i \in 1..n /\ n - 2 + i > n - 2 /\ (n - 2 + i) - (n - 2) = i
    <3>1. i \in {1, 2}
      OBVIOUS
    <3>. HIDE DEF i, n
    <3>2. QED
      BY <1>4, <3>1
  <2>7. row(x) = zero /\ row(y) = one
    BY <1>9, <2>1, <2>4, <2>5, <2>6
  <2>8. /\ m.rows[n - 2 + i][x] = b.rows[i][1] /\ m.rows[n - 2 + i][y] = b.rows[i][2]
    <3>. HIDE DEF n, x, y, i, R
    <3>1. /\ m.rows[n - 2 + i][x] = b.rows[(n - 2 + i) - (n - 2)][x - (n - 2)]
          /\ m.rows[n - 2 + i][y] = b.rows[(n - 2 + i) - (n - 2)][y - (n - 2)]
      BY <1>8, <2>6
    <3>2. QED
      BY <2>6, <3>1
  <2>9. \A c \in 1..n : c # x /\ c # y => m.rows[n - 2 + i][c] = Null
    <3>1. \A c \in 1..n : c # x /\ c # y => ~(c > n - 2) /\ c # n - 2 + i
      <4>1. i \in {1, 2}
        OBVIOUS
      <4>. HIDE DEF i, n
      <4>2. QED
        BY <1>4, <4>1
    <3>2. QED
      BY <1>8, <2>6, <3>1
  <2>. HIDE DEF i
  <2>10. \A c \in 1..n : f[c] = Times(Amplitude(array, row(c)), m.rows[n - 2 + i][c])
    BY <1>7, <2>5
  <2>. HIDE DEF f, row, n, R, zero, one, x, y
  <2>11. \A c \in 1..n : c # x /\ c # y => f[c] = Null
    <3>1. ASSUME NEW c \in 1..n, c # x, c # y
          PROVE  f[c] = Null
      <4>1. Amplitude(array, row(c)) \in Ring
        BY <1>5, <1>6
      <4>2. f[c] = Times(Amplitude(array, row(c)), Null)
        BY <2>9, <2>10, <3>1
      <4>3. QED
        BY <4>1, <4>2, TimesRing
    <3>2. QED
      BY <3>1
  <2>12. /\ f[x] = Times(Amplitude(array, zero), b.rows[i][1])
         /\ f[y] = Times(Amplitude(array, one), b.rows[i][2])
    BY <2>6, <2>7, <2>8, <2>10
  <2>13. SumOver(Null, f, 1..n) = Plus(f[x], f[y])
    <3>. DEFINE J == 1..n
    <3>1. /\ IsFiniteSet(J) /\ ValuesIn(f, J, Ring) /\ x \in J /\ y \in J /\ x # y
          /\ \A c \in J : c # x /\ c # y => f[c] = Null
      BY <1>2, <1>4, <2>6, <2>11
    <3>. HIDE DEF J
    <3>2. SumOver(Null, f, J) = Plus(f[x], f[y])
      BY <3>1, TwoOfTerms
    <3>3. QED
      BY <3>2 DEF J
  <2>14. QED
    BY <1>3, <2>12, <2>13 DEF RowApplied, i
<1>13. /\ WithZero(w, operands[k]) = zero /\ WithOne(w, operands[k]) = one
       /\ RowFor(w, operands[k]) = IF w[t] THEN 2 ELSE 1
  BY DEF WithZero, WithOne, RowFor
<1>. HIDE DEF R, zero, one
<1>14. QED
  BY <1>11, <1>12, <1>13 DEF R

\* The amplitudes of a basis vector with one qubit cleared, and with it set.
AmplitudesAt(amp, v, q, zero, one) == amp[WithZero(v, q)] = zero /\ amp[WithOne(v, q)] = one

\* The components that IdealContext speaks of are the combinations of the eigenvectors.
LEMMA IdealComponents ==
  ASSUME NEW axis \in {"x", "y", "z"}, NEW amp, NEW v, NEW q, NEW zero \in Ring, NEW one \in Ring,
         AmplitudesAt(amp, v, q, zero, one)
  PROVE  /\ Ideal!First(amp, axis, v, q) = Component(FirstOf(axis), zero, one)
         /\ Ideal!Second(amp, axis, v, q) = Component(SecondOf(axis), zero, one)
<1>1. amp[Ideal!With(v, q, FALSE)] = zero /\ amp[Ideal!With(v, q, TRUE)] = one
  BY DEF Ideal!With, AmplitudesAt, WithZero, WithOne
<1>2. /\ axis = "x" => Ideal!First(amp, axis, v, q) = Plus(zero, one)
      /\ axis = "y" => Ideal!First(amp, axis, v, q) = Plus(zero, Ideal!Turned(-2, one))
      /\ axis = "z" => Ideal!First(amp, axis, v, q) = zero
  BY <1>1, IdealRing DEF Ideal!First
<1>3. /\ axis = "x" => Ideal!Second(amp, axis, v, q) = Plus(zero, Minus(one))
      /\ axis = "y" => Ideal!Second(amp, axis, v, q) = Plus(zero, Ideal!Turned(2, one))
      /\ axis = "z" => Ideal!Second(amp, axis, v, q) = one
  BY <1>1, IdealRing DEF Ideal!Second
<1>4. Ideal!Turned(-2, one) = Times(Minus(Imag), one) /\ Ideal!Turned(2, one) = Times(Imag, one)
  <2>1. 2 \in Int /\ 2 % 8 = 2 /\ 8 - 2 = 6
    OBVIOUS
  <2>2. -2 \in Int /\ (-2) % 8 = 6
    BY <2>1, Residues
  <2>3. PhaseOf(6) = Minus(Imag) /\ PhaseOf(2) = Imag
    BY Tuples DEF PhaseOf
  <2>4. QED
    BY <2>1, <2>2, <2>3, IdealTurned
<1>5. /\ Times(One, zero) = zero /\ Times(One, one) = one /\ Times(Null, zero) = Null /\ Times(Null, one) = Null
      /\ Times(Minus(One), one) = Minus(one)
      /\ Plus(zero, Null) = zero /\ Plus(Null, one) = one
  BY TimesRing, PlusRing, MinusLaws DEF One
<1>6. /\ axis = "x" => /\ Component(FirstOf(axis), zero, one) = Plus(zero, one)
                       /\ Component(SecondOf(axis), zero, one) = Plus(zero, Minus(one))
  BY <1>5 DEF Component, FirstOf, SecondOf
<1>7. axis = "y" => /\ Component(FirstOf(axis), zero, one) = Plus(zero, Times(Minus(Imag), one))
                    /\ Component(SecondOf(axis), zero, one) = Plus(zero, Times(Imag, one))
  BY <1>5 DEF Component, FirstOf, SecondOf
<1>8. axis = "z" => /\ Component(FirstOf(axis), zero, one) = zero
                    /\ Component(SecondOf(axis), zero, one) = one
  BY <1>5 DEF Component, FirstOf, SecondOf
<1>9. QED
  BY <1>2, <1>3, <1>4, <1>6, <1>7, <1>8

\* The amplitudes that a sparse array stands for.
AmplitudesOf(array) == [v \in BasisVector |-> Amplitude(array, v)]

\* Where the other operands are set, a gate turns both components of its last operand.
LEMMA TurnedOperand ==
  ASSUME NEW k \in Nat \ {0}, NEW m, IsMatrixFor(m, k), NEW b, IsBlock(m, b, k),
         NEW axis \in {"x", "y", "z"}, NEW first, NEW second, IsTurn(b, axis, first, second),
         NEW operands \in [1..k -> Qubit], IsInjective(operands),
         NEW array, IsSparse(array), RepresentableApply(array, m, operands),
         NEW after, after = apply_linear(array, m, operands), IsSparse(after),
         NEW v \in BasisVector, AllSet(v, operands, k),
         NEW q, q = operands[k]
  PROVE  /\ Ideal!First(AmplitudesOf(after), axis, v, q)
              = Ideal!Turned(first, Ideal!First(AmplitudesOf(array), axis, v, q))
         /\ Ideal!Second(AmplitudesOf(after), axis, v, q)
              = Ideal!Turned(second, Ideal!Second(AmplitudesOf(array), axis, v, q))
<1>. DEFINE v0 == WithZero(v, q)
            v1 == WithOne(v, q)
            a0 == Amplitude(array, v0)
            a1 == Amplitude(array, v1)
            c0 == Amplitude(after, v0)
            c1 == Amplitude(after, v1)
<1>1. /\ q \in Qubit /\ v0 \in BasisVector /\ v1 \in BasisVector
      /\ v0[q] = FALSE /\ v1[q] = TRUE
      /\ WithZero(v0, q) = v0 /\ WithOne(v0, q) = v1
      /\ WithZero(v1, q) = v0 /\ WithOne(v1, q) = v1
  BY DEF BasisVector, WithZero, WithOne
<1>2. a0 \in Ring /\ a1 \in Ring /\ c0 \in Ring /\ c1 \in Ring
  BY <1>1, SquaresType
<1>3. AllSet(v0, operands, k) /\ AllSet(v1, operands, k)
  <2>1. ASSUME NEW j \in 1..(k - 1)
        PROVE  v0[operands[j]] = v[operands[j]] /\ v1[operands[j]] = v[operands[j]]
    <3>1. j \in 1..k /\ k \in 1..k /\ j # k
      OBVIOUS
    <3>2. operands[j] # q /\ operands[j] \in Qubit /\ DOMAIN v = Qubit
      BY <3>1 DEF IsInjective, BasisVector
    <3>3. QED
      BY <3>2 DEF WithZero, WithOne
  <2>2. QED
    BY <2>1 DEF AllSet
<1>4. AmplitudesAt(AmplitudesOf(array), v, q, a0, a1) /\ AmplitudesAt(AmplitudesOf(after), v, q, c0, c1)
  BY <1>1 DEF AmplitudesOf, AmplitudesAt
<1>5. b.halvings = m.halvings /\ IsSquare(b, 2)
  BY DEF IsBlock
<1>6. Times(Root2Power(b.halvings), c0) = RowApplied(b, 1, a0, a1)
  <2>1. Times(Root2Power(m.halvings), Amplitude(after, v0))
          = RowApplied(b, RowFor(v0, q), Amplitude(array, v0), Amplitude(array, v1))
    BY <1>1, <1>3, BlockApplied
  <2>2. QED
    BY <1>1, <1>5, <2>1 DEF RowFor
<1>7. Times(Root2Power(b.halvings), c1) = RowApplied(b, 2, a0, a1)
  <2>1. Times(Root2Power(m.halvings), Amplitude(after, v1))
          = RowApplied(b, RowFor(v1, q), Amplitude(array, v0), Amplitude(array, v1))
    BY <1>1, <1>3, BlockApplied
  <2>2. QED
    BY <1>1, <1>5, <2>1 DEF RowFor
<1>. HIDE DEF a0, a1, c0, c1
<1>8. /\ first \in Int /\ second \in Int
      /\ IsTurnedBy(b, FirstOf(axis), PhaseOf(first % 8)) /\ IsTurnedBy(b, SecondOf(axis), PhaseOf(second % 8))
  BY DEF IsTurn
<1>9. /\ Component(FirstOf(axis), c0, c1) = Times(PhaseOf(first % 8), Component(FirstOf(axis), a0, a1))
      /\ Component(SecondOf(axis), c0, c1) = Times(PhaseOf(second % 8), Component(SecondOf(axis), a0, a1))
  BY <1>2, <1>5, <1>6, <1>7, <1>8, ComponentTurned
<1>10. /\ Ideal!First(AmplitudesOf(after), axis, v, q) = Component(FirstOf(axis), c0, c1)
       /\ Ideal!Second(AmplitudesOf(after), axis, v, q) = Component(SecondOf(axis), c0, c1)
  BY <1>2, <1>4, IdealComponents
<1>11. /\ Ideal!First(AmplitudesOf(array), axis, v, q) = Component(FirstOf(axis), a0, a1)
       /\ Ideal!Second(AmplitudesOf(array), axis, v, q) = Component(SecondOf(axis), a0, a1)
  BY <1>2, <1>4, IdealComponents
<1>12. QED
  BY <1>8, <1>9, <1>10, <1>11, IdealTurned

\* The operands before the last.
ControlsOf(operands, k) == {operands[j] : j \in 1..(k - 1)}

\* A gate whose block turns about an axis has the effect of a turn in IdealContext.
LEMMA TurnEffect ==
  ASSUME NEW k \in Nat \ {0}, NEW m, IsMatrixFor(m, k), NEW b, IsBlock(m, b, k), NEW turn,
         turn.axis \in {"x", "y", "z"}, IsTurn(b, turn.axis, turn.first, turn.second),
         NEW operands \in [1..k -> Qubit], IsInjective(operands),
         NEW array, IsSparse(array), RepresentableApply(array, m, operands),
         NEW after, after = apply_linear(array, m, operands), IsSparse(after)
  PROVE  Ideal!TurnQubit(turn, ControlsOf(operands, k), operands[k],
                         AmplitudesOf(array), AmplitudesOf(after))
<1>. DEFINE controls == ControlsOf(operands, k)
            q == operands[k]
<1>1. \A v : (\A c \in controls : v[c]) <=> AllSet(v, operands, k)
  BY DEF AllSet, ControlsOf
<1>. HIDE DEF controls
<1>2. SUFFICES ASSUME NEW v \in BasisVector
               PROVE  IF \A c \in controls : v[c]
                      THEN /\ Ideal!First(AmplitudesOf(after), turn.axis, v, q)
                                = Ideal!Turned(turn.first, Ideal!First(AmplitudesOf(array), turn.axis, v, q))
                           /\ Ideal!Second(AmplitudesOf(after), turn.axis, v, q)
                                = Ideal!Turned(turn.second, Ideal!Second(AmplitudesOf(array), turn.axis, v, q))
                      ELSE AmplitudesOf(after)[v] = AmplitudesOf(array)[v]
  BY IdealRing DEF Ideal!TurnQubit, controls
<1>3. CASE AllSet(v, operands, k)
  <2>1. /\ Ideal!First(AmplitudesOf(after), turn.axis, v, q)
             = Ideal!Turned(turn.first, Ideal!First(AmplitudesOf(array), turn.axis, v, q))
        /\ Ideal!Second(AmplitudesOf(after), turn.axis, v, q)
             = Ideal!Turned(turn.second, Ideal!Second(AmplitudesOf(array), turn.axis, v, q))
    BY <1>3, TurnedOperand
  <2>2. QED
    BY <1>1, <1>3, <2>1
<1>4. CASE ~AllSet(v, operands, k)
  <2>1. Amplitude(after, v) = Amplitude(array, v)
    BY <1>4, BlockApplied
  <2>2. QED
    BY <1>1, <1>4, <2>1 DEF AmplitudesOf
<1>5. QED
  BY <1>3, <1>4

\* The matrix H has the effect of Hadamard in IdealContext.
LEMMA HadamardEffect ==
  ASSUME NEW operands \in [1..1 -> Qubit],
         NEW array, IsSparse(array), RepresentableApply(array, H, operands),
         NEW after, after = apply_linear(array, H, operands), IsSparse(after)
  PROVE  Ideal!Hadamard(operands[1], AmplitudesOf(array), AmplitudesOf(after))
<1>. DEFINE q == operands[1]
<1>1. /\ IsSquare(H, 2) /\ 2^1 = 2 /\ 1 \in Nat \ {0} /\ 1 \in 1..1 /\ q \in Qubit
  BY FixedDense, SmallPowers DEF IsGate
<1>2. IsMatrixFor(H, 1) /\ IsBlock(H, H, 1) /\ IsInjective(operands)
  BY <1>1, SingleBlock DEF IsMatrixFor, IsInjective
<1>3. SUFFICES ASSUME NEW v \in BasisVector
               PROVE  Times(Root2, AmplitudesOf(after)[v]) =
                        (IF v[q] THEN Ideal!Second(AmplitudesOf(array), "x", v, q)
                         ELSE Ideal!First(AmplitudesOf(array), "x", v, q))
  BY IdealRing DEF Ideal!Hadamard
<1>. DEFINE v0 == WithZero(v, q)
            v1 == WithOne(v, q)
            a0 == Amplitude(array, v0)
            a1 == Amplitude(array, v1)
<1>4. v0 \in BasisVector /\ v1 \in BasisVector
  BY <1>1 DEF BasisVector, WithZero, WithOne
<1>5. a0 \in Ring /\ a1 \in Ring
  BY <1>4, SquaresType
<1>6. AllSet(v, operands, 1)
  BY DEF AllSet
<1>7. Times(Root2Power(H.halvings), Amplitude(after, v)) = RowApplied(H, RowFor(v, q), a0, a1)
  <2>. DEFINE k == 1
              m == H
              b == H
  <2>1. /\ IsMatrixFor(m, k) /\ IsBlock(m, b, k) /\ IsInjective(operands) /\ AllSet(v, operands, k)
        /\ k \in Nat \ {0} /\ operands \in [1..k -> Qubit]
        /\ RepresentableApply(array, m, operands) /\ after = apply_linear(array, m, operands)
    BY <1>1, <1>2, <1>6
  <2>2. operands[k] = q /\ a0 = Amplitude(array, WithZero(v, q)) /\ a1 = Amplitude(array, WithOne(v, q))
    OBVIOUS
  <2>. HIDE DEF k, m, b, q, v0, v1, a0, a1
  <2>3. Times(Root2Power(m.halvings), Amplitude(after, v))
          = RowApplied(b, RowFor(v, operands[k]), Amplitude(array, WithZero(v, operands[k])),
                       Amplitude(array, WithOne(v, operands[k])))
    BY <2>1, BlockApplied
  <2>4. QED
    BY <2>2, <2>3 DEF m, b
<1>8. /\ H.halvings = 1 /\ H.rows[1][1] = One /\ H.rows[1][2] = One
      /\ H.rows[2][1] = One /\ H.rows[2][2] = Minus(One)
  BY DEF H, Matrix
<1>9. AmplitudesAt(AmplitudesOf(array), v, q, a0, a1) /\ AmplitudesOf(after)[v] = Amplitude(after, v)
  BY <1>4 DEF AmplitudesOf, AmplitudesAt
<1>10. Root2Power(1) = Root2
  BY SmallRoots DEF Root2
<1>11. /\ FirstOf("x") = <<One, One>> /\ SecondOf("x") = <<One, Minus(One)>> /\ "x" \in {"x", "y", "z"}
  BY DEF FirstOf, SecondOf
<1>. HIDE DEF a0, a1
<1>12. /\ Ideal!First(AmplitudesOf(array), "x", v, q) = Component(<<One, One>>, a0, a1)
       /\ Ideal!Second(AmplitudesOf(array), "x", v, q) = Component(<<One, Minus(One)>>, a0, a1)
  BY <1>5, <1>9, <1>11, IdealComponents
<1>13. /\ Times(One, a0) = Times(a0, One) /\ Times(One, a1) = Times(a1, One)
       /\ Times(Minus(One), a1) = Times(a1, Minus(One))
  BY <1>5, Tuples, TimesRing
<1>14. /\ RowApplied(H, 1, a0, a1) = Component(<<One, One>>, a0, a1)
       /\ RowApplied(H, 2, a0, a1) = Component(<<One, Minus(One)>>, a0, a1)
  BY <1>8, <1>13 DEF RowApplied, Component
<1>15. QED
  BY <1>7, <1>8, <1>9, <1>10, <1>12, <1>14 DEF RowFor

\* The index of two operands.
LEMMA PairIndex ==
  ASSUME NEW operands \in [1..2 -> Qubit], NEW v
  PROVE  ReducedIndex(v, operands) = 2 * BitOf(v[operands[1]]) + BitOf(v[operands[2]])
<1>1. 2 \in Nat /\ 1 \in 1..2 /\ 2 \in 1..2 /\ 2 - 1 = 1 /\ 1 - 1 = 0
  OBVIOUS
<1>2. PICK ix : IsIndex(ix, v, operands, 2) /\ ReducedIndex(v, operands) = ix[2]
  BY <1>1, IndexDefined
<1>3. ix[0] = 0 /\ ix[1] = 2 * ix[0] + BitOf(v[operands[1]]) /\ ix[2] = 2 * ix[1] + BitOf(v[operands[2]])
  BY <1>1, <1>2 DEF IsIndex
<1>4. BitOf(v[operands[1]]) \in Int
  BY DEF BitOf
<1>5. QED
  BY <1>2, <1>3, <1>4

\* The matrix SWAP exchanges the bits of its two operands.
LEMMA SwapEffect ==
  ASSUME NEW operands \in [1..2 -> Qubit], IsInjective(operands),
         NEW array, IsSparse(array), RepresentableApply(array, SWAP, operands),
         NEW after, after = apply_linear(array, SWAP, operands), IsSparse(after)
  PROVE  Ideal!Swap(operands[1], operands[2], AmplitudesOf(array), AmplitudesOf(after))
<1>. DEFINE p == operands[1]
            q == operands[2]
<1>1. /\ IsSquare(SWAP, 4) /\ 2^2 = 4 /\ 2 \in Nat /\ 1 \in 1..2 /\ 2 \in 1..2
      /\ p \in Qubit /\ q \in Qubit /\ IsFiniteSet(1..4)
  <2>1. IsSquare(SWAP, 4) /\ 2^2 = 4
    BY FixedOfFourRows, SmallPowers DEF IsGate
  <2>2. 2 \in Nat /\ 1 \in 1..2 /\ 2 \in 1..2 /\ p \in Qubit /\ q \in Qubit /\ 1 \in Int /\ 4 \in Int
    OBVIOUS
  <2>3. IsFiniteSet(1..4)
    BY <2>2, FS_Interval
  <2>4. QED
    BY <2>1, <2>2, <2>3
<1>2. IsMatrixFor(SWAP, 2) /\ p # q
  BY <1>1 DEF IsMatrixFor, IsInjective
<1>3. SUFFICES ASSUME NEW w \in BasisVector
               PROVE  AmplitudesOf(after)[w] = AmplitudesOf(array)[[w EXCEPT ![p] = w[q], ![q] = w[p]]]
  BY IdealRing DEF Ideal!Swap
<1>. DEFINE u == [w EXCEPT ![p] = w[q], ![q] = w[p]]
            i == ReducedIndex(w, operands)
            c == ReducedIndex(u, operands)
            f == RowTerms(array, SWAP, operands, w)
<1>4. u \in BasisVector /\ u[p] = w[q] /\ u[q] = w[p] /\ AgreeOutside(operands, w, u)
  <2>1. u \in BasisVector /\ u[p] = w[q] /\ u[q] = w[p] /\ \A x \in Qubit \ {p, q} : w[x] = u[x]
    BY <1>1, <1>2 DEF BasisVector
  <2>2. p \in Range(operands) /\ q \in Range(operands)
    BY <1>1 DEF Range
  <2>3. QED
    BY <2>1, <2>2 DEF AgreeOutside
<1>5. Amplitude(array, u) \in Ring /\ Amplitude(after, w) \in Ring /\ \A v \in BasisVector : Amplitude(array, v) \in Ring
  BY <1>4, SquaresType
<1>6. /\ BitOf(w[p]) \in {0, 1} /\ BitOf(w[q]) \in {0, 1}
      /\ i = 2 * BitOf(w[p]) + BitOf(w[q]) /\ c = 2 * BitOf(w[q]) + BitOf(w[p])
  BY <1>4, PairIndex DEF BitOf
<1>. HIDE DEF i, c, u
<1>7. i \in 0..3 /\ c \in 0..3 /\ c + 1 = <<1, 3, 2, 4>>[i + 1]
  BY <1>6
<1>8. \A r, e \in 1..4 : SWAP.rows[r][e] = IF e = <<1, 3, 2, 4>>[r] THEN One ELSE Null
  <2>1. SWAP.rows = <<<<One, Null, Null, Null>>, <<Null, Null, One, Null>>,
                      <<Null, One, Null, Null>>, <<Null, Null, Null, One>>>>
    BY DEF SWAP, Matrix
  <2>2. \A r \in 1..4 : r = 1 \/ r = 2 \/ r = 3 \/ r = 4
    OBVIOUS
  <2>3. QED
    BY <2>1, <2>2
<1>9. SWAP.halvings = 0 /\ Root2Power(0) = One
  BY SmallRoots, Tuples DEF SWAP, Matrix
<1>10. /\ SizeOf(SWAP) = 4 /\ ValuesIn(f, 1..4, Ring)
       /\ Added(array.data, SWAP, operands, w) = SumOver(Null, f, 1..4)
  <2>. DEFINE n == 2^2
  <2>1. n = 4
    BY <1>1
  <2>2. /\ SizeOf(SWAP) = n /\ ValuesIn(f, 1..n, Ring)
        /\ Added(array.data, SWAP, operands, w) = SumOver(Null, f, 1..n)
    BY <1>1, <1>2, AddedIs
  <2>. HIDE DEF n, f
  <2>3. QED
    BY <2>1, <2>2
<1>11. Times(One, Amplitude(after, w)) = SumOver(Null, f, 1..4)
  <2>1. Times(Root2Power(SWAP.halvings), Amplitude(after, w)) = Added(array.data, SWAP, operands, w)
    BY <1>1, <1>2, AppliedIs
  <2>2. QED
    BY <1>9, <1>10, <2>1
<1>12. \A e \in 1..4 : f[e] = Times(Amplitude(array, RowIndex(w, operands, e - 1)), SWAP.rows[i + 1][e])
  BY <1>10 DEF RowTerms, i
<1>13. \A e \in 1..4 : RowIndex(w, operands, e - 1) \in BasisVector
  <2>1. ASSUME NEW e \in 1..4
        PROVE  e - 1 \in 0..(4 - 1)
    OBVIOUS
  <2>2. QED
    BY <1>1, <2>1, RowIndexIs
<1>14. RowIndex(w, operands, c) = u
  <2>1. c \in 0..(4 - 1)
    BY <1>7
  <2>2. /\ RowIndex(w, operands, c) \in BasisVector /\ AgreeOutside(operands, w, RowIndex(w, operands, c))
        /\ ReducedIndex(RowIndex(w, operands, c), operands) = c
    <3>. DEFINE k == 2
    <3>1. k \in Nat /\ operands \in [1..k -> Qubit] /\ IsInjective(operands) /\ c \in 0..(2^k - 1)
      BY <1>1, <2>1
    <3>. HIDE DEF k, c
    <3>2. QED
      BY <3>1, RowIndexIs
  <2>3. ReducedIndex(u, operands) = c
    BY DEF c
  <2>4. QED
    BY <1>1, <1>4, <2>2, <2>3, IndexIsOneToOne
<1>. HIDE DEF f
<1>15. i + 1 \in 1..4 /\ c + 1 \in 1..4 /\ (c + 1) - 1 = c
  BY <1>7
<1>16. \A e \in (1..4) \ {c + 1} : f[e] = Null
  <2>1. \A e \in (1..4) \ {c + 1} : SWAP.rows[i + 1][e] = Null
    BY <1>7, <1>8, <1>15
  <2>2. QED
    <3>1. ASSUME NEW e \in 1..4, e # c + 1
          PROVE  f[e] = Null
      <4>1. Amplitude(array, RowIndex(w, operands, e - 1)) \in Ring
        BY <1>5, <1>13
      <4>2. f[e] = Times(Amplitude(array, RowIndex(w, operands, e - 1)), Null)
        BY <1>12, <2>1, <3>1
      <4>3. QED
        BY <4>1, <4>2, TimesRing
    <3>2. QED
      BY <3>1
<1>17. f[c + 1] = Times(Amplitude(array, u), One)
  BY <1>7, <1>8, <1>12, <1>14, <1>15
<1>18. SumOver(Null, f, 1..4) = f[c + 1]
  BY <1>1, <1>10, <1>15, <1>16, OneTerm
<1>19. \A z \in Ring : Times(One, z) = z /\ Times(z, One) = z
  BY TimesRing DEF One
<1>20. Amplitude(after, w) = Amplitude(array, u)
  BY <1>5, <1>11, <1>17, <1>18, <1>19
<1>21. QED
  BY <1>4, <1>20 DEF AmplitudesOf, u

\* Every plain gate has the effect that IdealContext gives it.
LEMMA UnitaryEffect ==
  ASSUME NEW g \in Gates, IsPlainGate(g), NEW operands \in OperandLists(g),
         NEW array, IsSparse(array), RepresentableApply(array, MatrixOf(g), operands),
         NEW after, after = apply_linear(array, MatrixOf(g), operands), IsSparse(after)
  PROVE  /\ operands \in [1..Ideal!OperandCount(g) -> Qubit]
         /\ Ideal!Effect(g, operands, AmplitudesOf(array), AmplitudesOf(after))
<1>. DEFINE k == Ideal!OperandCount(g)
            m == MatrixOf(g)
<1>1. k \in Nat \ {0} /\ IsMatrixFor(m, k) /\ Arity(g) = k
  BY PlainArity, PlainSize DEF IsMatrixFor
<1>2. operands \in [1..k -> Qubit] /\ IsInjective(operands) /\ Len(operands) = k
  BY <1>1 DEF OperandLists
<1>3. CASE g.name = "H"
  <2>1. k = 1 /\ m = H
    BY <1>3, PlainMatrix, FixedNames DEF Ideal!OperandCount
  <2>2. Ideal!Hadamard(operands[1], AmplitudesOf(array), AmplitudesOf(after))
    BY <1>2, <2>1, HadamardEffect
  <2>3. QED
    BY <1>2, <1>3, <2>2 DEF Ideal!Effect
<1>4. CASE g.name = "SWAP"
  <2>1. k = 2 /\ m = SWAP
    BY <1>4, PlainMatrix, FixedNames DEF Ideal!OperandCount
  <2>2. Ideal!Swap(operands[1], operands[2], AmplitudesOf(array), AmplitudesOf(after))
    BY <1>2, <2>1, SwapEffect
  <2>3. QED
    BY <1>2, <1>4, <2>2 DEF Ideal!Effect
<1>5. CASE g.name # "H" /\ g.name # "SWAP"
  <2>. DEFINE turn == Ideal!TurnOf(g)
  <2>1. PICK b : IsBlock(m, b, k) /\ turn.axis \in {"x", "y", "z"} /\ IsTurn(b, turn.axis, turn.first, turn.second)
    BY <1>5, PlainGateTurns
  <2>0. RepresentableApply(array, m, operands) /\ after = apply_linear(array, m, operands)
    OBVIOUS
  <2>. HIDE DEF turn, k, m
  <2>2. Ideal!TurnQubit(turn, ControlsOf(operands, k), operands[k], AmplitudesOf(array), AmplitudesOf(after))
    BY <1>1, <1>2, <2>1, <2>0, TurnEffect
  <2>3. QED
    BY <1>2, <1>5, <2>2 DEF Ideal!Effect, ControlsOf, turn, k
<1>6. QED
  BY <1>3, <1>4, <1>5

-----------------------------------------------------------------------------
(* The ideal context: measurements and resets.                             *)

\* The basis vectors with an outcome.
Outcomes(q, outcome) == {u \in BasisVector : u[q] = outcome}

\* The weight of an outcome in IdealContext is a sum over the basis vectors with it.
LEMMA IdealWeight ==
  ASSUME NEW array, IsSparse(array), NEW q, NEW outcome
  PROVE  /\ Ideal!Weight(AmplitudesOf(array), q, outcome)
              = SumOver(NoWeight, Squares(array), Outcomes(q, outcome))
         /\ Outcomes(q, outcome) \in SUBSET BasisVector /\ IsFiniteSet(Outcomes(q, outcome))
<1>. DEFINE V == Outcomes(q, outcome)
            f == [v \in V |-> Norm(AmplitudesOf(array)[v])]
<1>1. V \in SUBSET BasisVector /\ IsFiniteSet(V)
  BY BasisVectorsFinite, FS_Subset DEF Outcomes
<1>2. Ideal!Weight(AmplitudesOf(array), q, outcome) = SumOf(NoWeight, f)
  BY IdealRing, IdealSums DEF Ideal!Weight, Outcomes
<1>3. SumOf(NoWeight, f) = SumOver(NoWeight, f, V)
  BY SumOfIsSum
<1>4. \A v \in V : f[v] = Squares(array)[v]
  BY <1>1 DEF AmplitudesOf, Squares
<1>5. ValuesIn(Squares(array), V, Weight)
  BY <1>1, SquaresType DEF ValuesIn
<1>. HIDE DEF V, f
<1>6. SumOver(NoWeight, f, V) = SumOver(NoWeight, Squares(array), V)
  BY <1>1, <1>4, <1>5, Spaces, SumEqual
<1>7. QED
  BY <1>1, <1>2, <1>3, <1>6 DEF V

\* What the entries with an outcome weigh is what the basis vectors with it weigh.
LEMMA OutcomeWeightIs ==
  ASSUME NEW array, IsSparse(array), norm(array) = Unity, NEW q \in Qubit, NEW measured \in BOOLEAN
  PROVE  SumOver(NoWeight, Squares(array), Outcomes(q, measured))
           = OutcomeWeight(measured, probability_of_measuring_one(array, q))
<1>. DEFINE D    == DOMAIN array.data
            f    == [v \in D |-> Norm(array.data[v])]
            kept == {v \in D : v[q] = measured}
            V    == Outcomes(q, measured)
            w    == OutcomeWeight(measured, probability_of_measuring_one(array, q))
<1>1. /\ ValuesIn(f, D, Weight) /\ kept \in SUBSET D /\ IsFiniteSet(kept)
      /\ SumOver(NoWeight, f, kept) = w
  BY KeptWeight
<1>2. D \subseteq BasisVector
  BY DEF IsSparse
<1>3. kept \in SUBSET V /\ V \in SUBSET BasisVector /\ IsFiniteSet(V)
  BY <1>2, BasisVectorsFinite, FS_Subset DEF Outcomes
<1>4. \A v \in V \ kept : Squares(array)[v] = NoWeight
  <2>1. \A v \in V \ kept : v \in BasisVector /\ v \notin D
    BY DEF Outcomes
  <2>2. QED
    BY <2>1, NormNull DEF Squares, Amplitude
<1>5. \A v \in kept : f[v] = Squares(array)[v]
  BY <1>2 DEF Squares, Amplitude
<1>6. ValuesIn(Squares(array), V, Weight) /\ ValuesIn(Squares(array), kept, Weight)
  BY <1>3, SquaresType DEF ValuesIn
<1>. HIDE DEF f, kept, V, D, w
<1>7. SumOver(NoWeight, Squares(array), V) = SumOver(NoWeight, Squares(array), kept)
  BY <1>3, <1>4, <1>6, Spaces, SumSupport
<1>8. SumOver(NoWeight, f, kept) = SumOver(NoWeight, Squares(array), kept)
  BY <1>1, <1>5, <1>6, Spaces, SumEqual
<1>9. QED
  BY <1>1, <1>7, <1>8 DEF V, w

\* The amplitudes that a measurement leaves.
LEMMA MeasuredAmplitudes ==
  ASSUME NEW array, IsSparse(array), norm(array) = Unity, NEW q \in Qubit,
         NEW measured \in BOOLEAN, NEW p_one, p_one = probability_of_measuring_one(array, q),
         OutcomeWeight(measured, p_one) # NoWeight,
         RepresentableMeasurement(array, q, measured, p_one),
         NEW after, after = update_data_after_measurement(array, q, measured, p_one)
  PROVE  \E j \in Nat : \A v \in BasisVector :
           Amplitude(after, v) = IF v[q] = measured THEN Times(Amplitude(array, v), Root2Power(j)) ELSE Null
<1>. DEFINE kept == erase_if(array.data, q, measured)
            s    == OutcomeWeight(measured, p_one)
<1>1. \E v \in DOMAIN array.data : v[q] = measured
  BY MeasurementNormalizes
<1>2. /\ DOMAIN kept = {v \in DOMAIN array.data : v[q] = measured}
      /\ \A v \in DOMAIN kept : kept[v] = array.data[v]
  BY DEF erase_if, RestrictDomain, Restrict
<1>3. s \in Weights
  BY <1>1, <1>2 DEF RepresentableMeasurement
<1>4. PICK j \in 0..Scale : \A z : Normalize(z, s) = Times(z, Root2Power(j))
  BY <1>3, NormalizeType
<1>5. after.data = [v \in DOMAIN kept |-> Times(kept[v], Root2Power(j))]
  BY <1>4 DEF update_data_after_measurement
<1>6. j \in Nat /\ Root2Power(j) \in Ring
  BY <1>4, ScaleAssumption, Root2Powers
<1>7. Times(Null, Root2Power(j)) = Null
  BY <1>6, Spaces, TimesRing
<1>. HIDE DEF kept, s
<1>8. ASSUME NEW v \in BasisVector
      PROVE  Amplitude(after, v) = IF v[q] = measured THEN Times(Amplitude(array, v), Root2Power(j)) ELSE Null
  <2>1. CASE v \in DOMAIN kept
    BY <1>2, <1>5, <2>1 DEF Amplitude
  <2>2. CASE v \notin DOMAIN kept
    <3>1. Amplitude(after, v) = Null
      BY <1>5, <2>2 DEF Amplitude
    <3>2. v[q] = measured => Amplitude(array, v) = Null
      BY <1>2, <2>2 DEF Amplitude
    <3>3. QED
      BY <1>7, <3>1, <3>2
  <2>3. QED
    BY <2>1, <2>2
<1>9. QED
  BY <1>6, <1>8

\* A measurement projects the amplitudes on its outcome, which has some weight.
LEMMA MeasurementProjects ==
  ASSUME NEW array, IsSparse(array), norm(array) = Unity, NEW q \in Qubit,
         NEW measured \in BOOLEAN, NEW p_one, p_one = probability_of_measuring_one(array, q),
         OutcomeWeight(measured, p_one) # NoWeight,
         RepresentableMeasurement(array, q, measured, p_one),
         NEW after, after = update_data_after_measurement(array, q, measured, p_one)
  PROVE  /\ Ideal!Weight(AmplitudesOf(array), q, measured) # NoWeight
         /\ Ideal!Projection(q, measured, AmplitudesOf(array), AmplitudesOf(after))
<1>. DEFINE kept == {v \in BasisVector : v[q] = measured /\ AmplitudesOf(array)[v] # Null}
<1>1. PICK j \in Nat : \A v \in BasisVector :
        Amplitude(after, v) = IF v[q] = measured THEN Times(Amplitude(array, v), Root2Power(j)) ELSE Null
  BY MeasuredAmplitudes
<1>. DEFINE R == Root2Power(j)
<1>2. R \in Ring
  BY Root2Powers
<1>3. IsSparse(after) /\ norm(after) = Unity
  BY MeasurementNormalizes
<1>4. \A v \in BasisVector : Amplitude(array, v) \in Ring /\ Amplitude(after, v) \in Ring
  BY <1>3, SquaresType
<1>5. \A v \in BasisVector : AmplitudesOf(array)[v] = Amplitude(array, v) /\ AmplitudesOf(after)[v] = Amplitude(after, v)
  BY DEF AmplitudesOf
<1>6. Ideal!Weight(AmplitudesOf(array), q, measured) # NoWeight
  BY IdealWeight, OutcomeWeightIs
<1>7. Ideal!Weight(AmplitudesOf(after), q, measured) = Unity
  <2>. DEFINE V == Outcomes(q, measured)
  <2>1. /\ Ideal!Weight(AmplitudesOf(after), q, measured) = SumOver(NoWeight, Squares(after), V)
        /\ V \in SUBSET BasisVector
    BY <1>3, IdealWeight
  <2>2. \A v \in BasisVector \ V : Squares(after)[v] = NoWeight
    BY <1>1, NormNull DEF Outcomes, Squares
  <2>. HIDE DEF V
  <2>3. SumOver(NoWeight, Squares(after), BasisVector) = SumOver(NoWeight, Squares(after), V)
    BY <1>3, <2>1, <2>2, Spaces, BasisVectorsFinite, SquaresType, SumSupport
  <2>4. QED
    BY <1>3, <2>1, <2>3, NormOverAll
<1>8. \A v \in BasisVector \ kept : AmplitudesOf(after)[v] = Null
  <2>1. Times(Null, R) = Null
    BY <1>2, Spaces, TimesRing
  <2>2. QED
    BY <1>1, <1>5, <2>1
<1>9. \A v \in kept : /\ v \in BasisVector /\ AmplitudesOf(array)[v] \in Ring /\ AmplitudesOf(array)[v] # Null
                      /\ AmplitudesOf(after)[v] = Times(AmplitudesOf(array)[v], R)
  BY <1>1, <1>4, <1>5
<1>. HIDE DEF kept, R
<1>10. ASSUME NEW v \in kept, NEW ratio, ratio = Times(AmplitudesOf(after)[v], Conj(AmplitudesOf(array)[v]))
       PROVE  ratio[3] = 0 /\ ratio[2] = -ratio[4] /\ Positive(<<ratio[1], ratio[2]>>)
  BY <1>9, <1>10, RatioIsPositive DEF R
<1>11. ASSUME NEW v \in kept, NEW w \in kept
       PROVE  Times(AmplitudesOf(after)[v], AmplitudesOf(array)[w]) = Times(AmplitudesOf(after)[w], AmplitudesOf(array)[v])
  <2>. DEFINE x == AmplitudesOf(array)[v]
              y == AmplitudesOf(array)[w]
  <2>1. x \in Ring /\ y \in Ring /\ AmplitudesOf(after)[v] = Times(x, R) /\ AmplitudesOf(after)[w] = Times(y, R)
    BY <1>9
  <2>. HIDE DEF x, y
  <2>2. Times(Times(x, R), y) = Times(x, Times(R, y)) /\ Times(R, y) = Times(y, R)
    BY <1>2, <2>1, TimesAssociates, TimesRing
  <2>3. Times(x, Times(y, R)) = Times(Times(y, R), x)
    BY <1>2, <2>1, TimesRing
  <2>4. QED
    BY <2>1, <2>2, <2>3 DEF x, y
<1>12. Ideal!Projection(q, measured, AmplitudesOf(array), AmplitudesOf(after))
  BY <1>7, <1>8, <1>10, <1>11, IdealRing DEF Ideal!Projection, kept
<1>13. QED
  BY <1>6, <1>12

\* A reset clears its qubit and keeps the probabilities of the others.
LEMMA ResetClears ==
  ASSUME NEW array, IsSparse(array), NEW q \in Qubit, RepresentableReset(array, q),
         NEW after, after = update_data_after_reset(array, q)
  PROVE  Ideal!Cleared(q, AmplitudesOf(array), AmplitudesOf(after))
<1>1. /\ IsSparse(after)
      /\ \A w \in BasisVector : w[q] => Squares(after)[w] = NoWeight
      /\ \A w \in BasisVector : ~w[q] =>
           Squares(after)[w] = Plus(Squares(array)[w], Squares(array)[[w EXCEPT ![q] = TRUE]])
  BY ResetAmplitudes
<1>2. \A v \in BasisVector : Amplitude(after, v) \in Ring
  BY <1>1, SquaresType
<1>3. \A v \in BasisVector : /\ Squares(after)[v] = Norm(AmplitudesOf(after)[v])
                             /\ Squares(array)[v] = Norm(AmplitudesOf(array)[v])
                             /\ AmplitudesOf(after)[v] \in Ring
  BY <1>2 DEF Squares, AmplitudesOf
<1>4. SUFFICES ASSUME NEW v \in BasisVector
               PROVE  IF v[q] THEN AmplitudesOf(after)[v] = Null
                      ELSE Norm(AmplitudesOf(after)[v])
                             = Plus(Norm(AmplitudesOf(array)[v]), Norm(AmplitudesOf(array)[WithOne(v, q)]))
  BY IdealRing DEF Ideal!Cleared, Ideal!With, WithOne
<1>5. CASE v[q]
  <2>1. Norm(AmplitudesOf(after)[v]) = NoWeight
    BY <1>1, <1>3, <1>5
  <2>2. Norm(AmplitudesOf(after)[v])[1] = 0
    BY <2>1 DEF NoWeight
  <2>3. QED
    BY <1>3, <1>5, <2>2, NormIsPositive
<1>6. CASE ~v[q]
  <2>1. WithOne(v, q) \in BasisVector
    BY DEF WithOne, BasisVector
  <2>2. Squares(after)[v] = Plus(Squares(array)[v], Squares(array)[WithOne(v, q)])
    BY <1>1, <1>6 DEF WithOne
  <2>3. QED
    BY <1>3, <1>6, <2>1, <2>2
<1>7. QED
  BY <1>5, <1>6

\* The ground state of the sparse map is that of the ideal context.
LEMMA GroundAmplitudes ==
  ASSUME NEW array, array.data = [v \in {GroundState} |-> Root2Power(Scale)]
  PROVE  AmplitudesOf(array) = Ideal!Ground
<1>1. ASSUME NEW v \in BasisVector
      PROVE  Amplitude(array, v) = IF \E q \in Qubit : v[q] THEN Null ELSE Root2Power(Scale)
  <2>1. \A q \in Qubit : v[q] \in BOOLEAN
    BY DEF BasisVector
  <2>2. v = GroundState <=> ~(\E q \in Qubit : v[q])
    BY <2>1 DEF BasisVector, GroundState
  <2>3. QED
    BY <2>2 DEF Amplitude
<1>2. QED
  BY <1>1, IdealRing DEF Ideal!Ground, AmplitudesOf

-----------------------------------------------------------------------------
(* The context implements the ideal context.                               *)

\* The amplitudes of a state, as the refinement maps them.
LEMMA MappedAmplitudes ==
  [v \in BasisVector |-> Amplitude(state, v)] = AmplitudesOf(state)
BY DEF AmplitudesOf

\* The initial state of the context is that of the ideal context.
LEMMA IdealInit == Init => Ideal!Init
<1>. SUFFICES ASSUME Init PROVE Ideal!Init
  OBVIOUS
<1>1. state.data = [v \in {GroundState} |-> Root2Power(Scale)]
  BY DEF Init
<1>2. AmplitudesOf(state) = Ideal!Ground
  BY <1>1, GroundAmplitudes
<1>3. QED
  BY <1>2, MappedAmplitudes, IdealRing DEF Init, Ideal!Init

\* A gate of the context is that of the ideal context.
LEMMA IdealUnitary ==
  ASSUME NEW g \in Gates, IsPlainGate(g), NEW operands \in OperandLists(g),
         NormInv, NormInv', Unitary(g, operands)
  PROVE  operands \in [1..Ideal!OperandCount(g) -> Qubit] /\ Ideal!Unitary(g, operands)
<1>. DEFINE before == AmplitudesOf(state)
            later  == AmplitudesOf(state')
<1>1. IsSparse(state) /\ IsSparse(state')
  BY DEF NormInv, IsSparse, ValuesIn
<1>2. /\ [v \in BasisVector |-> Amplitude(state, v)] = before
      /\ [v \in BasisVector |-> Amplitude(state', v)] = later
  BY DEF AmplitudesOf
<1>3. RepresentableApply(state, MatrixOf(g), operands) /\ state' = apply_linear(state, MatrixOf(g), operands)
  BY DEF Unitary
<1>4. operands \in [1..Ideal!OperandCount(g) -> Qubit] /\ Ideal!Effect(g, operands, before, later)
  BY <1>1, <1>3, UnitaryEffect
<1>. HIDE DEF before, later
<1>5. QED
  BY <1>2, <1>4 DEF Unitary, Ideal!Unitary

\* A measurement of the context is that of the ideal context with the outcome it records.
LEMMA IdealMeasurement ==
  ASSUME DrawRange \notin Draws, NormInv, NEW q \in Qubit, NEW b \in Bit, NEW draw \in Draws,
         Measure(q, b, draw)
  PROVE  \E measured \in BOOLEAN : /\ Ideal!Measure(q, b, measured)
                                   /\ measurement_register' = [measurement_register EXCEPT ![q] = measured]
<1>. DEFINE before   == AmplitudesOf(state)
            later    == AmplitudesOf(state')
            cleaned  == clean_up_zeros(state)
            p_one    == probability_of_measuring_one(cleaned, q)
            measured == Below(draw, DrawRange, p_one)
<1>1. /\ [v \in BasisVector |-> Amplitude(state, v)] = before
      /\ [v \in BasisVector |-> Amplitude(state', v)] = later
  BY DEF AmplitudesOf
<1>. HIDE DEF later
<1>2. IsSparse(cleaned) /\ norm(cleaned) = Unity /\ \A v : Amplitude(cleaned, v) = Amplitude(state, v)
  BY CleanUpKeepsAmplitudes DEF NormInv, Normalized
<1>3. AmplitudesOf(cleaned) = before
  BY <1>2 DEF AmplitudesOf
<1>. HIDE DEF before
<1>4. /\ RepresentableMeasurement(cleaned, q, measured, p_one)
      /\ state' = update_data_after_measurement(cleaned, q, measured, p_one)
      /\ measurement_register' = [measurement_register EXCEPT ![q] = measured]
      /\ bit_measurement_register' = [bit_measurement_register EXCEPT ![b] = measured]
  BY DEF Measure, SetTo
<1>5. measured \in BOOLEAN
  BY DEF Below, Positive
<1>6. DrawRange \in Nat /\ draw \in 1..DrawRange /\ draw # DrawRange
  BY DrawsAssumption
<1>. HIDE DEF cleaned
<1>7. p_one \in Weight
  BY <1>2, KeptWeight
<1>8. OutcomeWeight(measured, p_one) # NoWeight
  BY <1>6, <1>7, OutcomeHasWeight
<1>. HIDE DEF measured
<1>9. /\ Ideal!Weight(before, q, measured) # NoWeight
      /\ Ideal!Projection(q, measured, before, later)
  BY <1>2, <1>3, <1>4, <1>5, <1>8, MeasurementProjects DEF later
<1>10. Ideal!Measure(q, b, measured)
  BY <1>1, <1>4, <1>9, IdealRing DEF Ideal!Measure
<1>11. QED
  BY <1>4, <1>5, <1>10

\* A reset of the context is that of the ideal context.
LEMMA IdealReset ==
  ASSUME NormInv, NEW q \in Qubit, Reset(q)
  PROVE  Ideal!Reset(q)
<1>. DEFINE before == AmplitudesOf(state)
            later  == AmplitudesOf(state')
<1>1. /\ [v \in BasisVector |-> Amplitude(state, v)] = before
      /\ [v \in BasisVector |-> Amplitude(state', v)] = later
  BY DEF AmplitudesOf
<1>2. RepresentableReset(state, q) /\ state' = update_data_after_reset(state, q)
  BY DEF Reset
<1>3. Ideal!Cleared(q, before, later)
  BY <1>2, ResetClears DEF NormInv
<1>. HIDE DEF before, later
<1>4. QED
  BY <1>1, <1>3 DEF Reset, Ideal!Reset

\* A step of the context is one of the ideal context, or leaves all its variables unchanged:
\* cleaning the map up and counting gates is not seen.
LEMMA IdealStep ==
  ASSUME DrawRange \notin Draws, \A g \in Gates : IsPlainGate(g), NormInv, [Next]_vars
  PROVE  [Ideal!Next]_Ideal!vars
<1>. DEFINE before == AmplitudesOf(state)
            later  == AmplitudesOf(state')
<1>1. /\ [v \in BasisVector |-> Amplitude(state, v)] = before
      /\ [v \in BasisVector |-> Amplitude(state', v)] = later
  BY DEF AmplitudesOf
<1>2. NormInv'
  BY NormStep
<1>. HIDE DEF before, later
<1>3. ASSUME NEW g \in Gates, NEW operands \in OperandLists(g), Unitary(g, operands)
      PROVE  Ideal!Next
  <2>1. operands \in [1..Ideal!OperandCount(g) -> Qubit] /\ Ideal!Unitary(g, operands)
    BY <1>2, <1>3, IdealUnitary
  <2>2. QED
    BY <2>1, IdealRing DEF Ideal!Next
<1>4. ASSUME NEW q \in Qubit, NEW b \in Bit, NEW draw \in Draws, Measure(q, b, draw)
      PROVE  Ideal!Next
  <2>1. \E measured \in BOOLEAN : Ideal!Measure(q, b, measured)
    BY <1>4, IdealMeasurement
  <2>2. QED
    BY <2>1, IdealRing DEF Ideal!Next
<1>5. ASSUME NEW q \in Qubit, Reset(q)
      PROVE  Ideal!Next
  <2>1. Ideal!Reset(q)
    BY <1>5, IdealReset
  <2>2. QED
    BY <2>1, IdealRing DEF Ideal!Next
<1>6. CASE ResetAll
  <2>1. state'.data = [v \in {GroundState} |-> Root2Power(Scale)]
    BY <1>6 DEF ResetAll, reset_data
  <2>2. later = Ideal!Ground
    BY <2>1, GroundAmplitudes DEF later
  <2>3. Ideal!ResetAll
    BY <1>1, <1>6, <2>2 DEF ResetAll, Ideal!ResetAll
  <2>4. QED
    BY <2>3 DEF Ideal!Next
<1>7. CASE Inspect
  <2>1. \A v : Amplitude(state', v) = Amplitude(state, v)
    BY <1>7, CleanUpKeepsAmplitudes DEF Inspect, NormInv
  <2>2. later = before
    BY <2>1 DEF later, before, AmplitudesOf
  <2>3. UNCHANGED Ideal!vars
    BY <1>1, <1>7, <2>2 DEF Inspect, Ideal!vars
  <2>4. QED
    BY <2>3
<1>8. CASE UNCHANGED vars
  BY <1>8 DEF vars, Ideal!vars
<1>9. QED
  BY <1>3, <1>4, <1>5, <1>6, <1>7, <1>8 DEF Next

\* The sparse map and its matrices implement IdealContext, for every register size, every set
\* of default gates and every set of draws below 1: a gate, whatever entries the map has and
\* whenever it is cleaned up, acts on the eigenvectors as its name says, a measurement projects
\* on an outcome that has some weight and normalizes, and a reset clears its qubit and keeps the
\* probabilities of the others.  Modifiers are left to ModifiersMakeNamedGates.
THEOREM RefinesIdealCorrect ==
  ASSUME DrawRange \notin Draws, \A g \in Gates : IsPlainGate(g)
  PROVE  Spec => RefinesIdeal
<1>1. Init => Ideal!Init
  BY IdealInit
<1>2. Init => NormInv
  BY InitNorm DEF Init
<1>3. NormInv /\ [Next]_vars => NormInv'
  BY NormStep
<1>4. NormInv /\ [Next]_vars => [Ideal!Next]_Ideal!vars
  BY IdealStep
<1>5. QED
  BY <1>1, <1>2, <1>3, <1>4, PTL DEF Spec, Ideal!Spec, RefinesIdeal

=============================================================================
