---------------------------- MODULE GatesProofs -----------------------------
(***************************************************************************)
(* The arithmetic the other proofs rest on: natural numbers and finite     *)
(* sets by induction, folds and finite sums, powers of two, the ring of    *)
(* the amplitudes and its norm.  Induction is stated with the set of the   *)
(* numbers, or of the sets, for which a fact holds, as an operator cannot  *)
(* be given to a theorem here.                                             *)
(*                                                                         *)
(* Then matrices of any size: an orthogonal one keeps norms, and the       *)
(* default gates, with any powers, inversions and controls applied to      *)
(* them, are unitary and as large as their operands are many.  Without     *)
(* modifiers they turn the eigenvectors of an axis where their controls    *)
(* are set.                                                                *)
(***************************************************************************)
EXTENDS Instructions, FiniteSetTheorems, TLAPS

-----------------------------------------------------------------------------
(* Induction.                                                              *)

LEMMA Induction ==
  ASSUME NEW Good \in SUBSET Nat, 0 \in Good, \A n \in Good : n + 1 \in Good
  PROVE  Good = Nat
<1>. SUFFICES ASSUME Nat \ Good # {} PROVE FALSE
  OBVIOUS
<1>. DEFINE Less == OpToRel(<, Nat)
<1>1. IsWellFoundedOn(Less, Nat)
  BY NatLessThanWellFounded
<1>2. PICK n \in Nat \ Good : \A m \in Nat \ Good : ~(<<m, n>> \in Less)
  <2>. HIDE DEF Less
  <2>1. QED
    BY <1>1, WFMin
<1>3. n - 1 \in Nat /\ n - 1 + 1 = n
  OBVIOUS
<1>4. n - 1 \in Nat \ Good
  BY <1>3
<1>5. <<n - 1, n>> \in Less
  <2>1. n - 1 < n /\ <<n - 1, n>> \in Nat \X Nat
    BY <1>3
  <2>2. QED
    BY <2>1, Zenon DEF OpToRel
<1>6. QED
  BY <1>2, <1>4, <1>5

GrowsByOne(Good, U) ==
  \A s \in SUBSET U : s # {} => \E x \in s : s \ {x} \in Good => s \in Good

\* Of the subsets of a finite set, all are good if one with one more element is.
LEMMA SubsetInduction ==
  ASSUME NEW U, IsFiniteSet(U),
         NEW Good, {} \in Good, GrowsByOne(Good, U)
  PROVE  SUBSET U \subseteq Good
<1>. DEFINE Sizes == {n \in Nat : \A s \in SUBSET U : Cardinality(s) = n => s \in Good}
<1>1. \A s \in SUBSET U : IsFiniteSet(s) /\ Cardinality(s) \in Nat
  BY FS_Subset, FS_CardinalityType
<1>2. 0 \in Sizes
  BY <1>1, FS_EmptySet
<1>3. ASSUME NEW n \in Sizes
      PROVE  n + 1 \in Sizes
  <2>. SUFFICES ASSUME NEW s \in SUBSET U, Cardinality(s) = n + 1
                PROVE  s \in Good
    OBVIOUS
  <2>1. s # {}
    BY <1>1, FS_EmptySet
  <2>2. PICK x \in s : s \ {x} \in Good => s \in Good
    BY <2>1 DEF GrowsByOne
  <2>3. Cardinality(s \ {x}) = n
    BY <1>1, <2>2, FS_RemoveElement
  <2>4. QED
    BY <2>2, <2>3
<1>4. Sizes = Nat
  <2>. HIDE DEF Sizes
  <2>1. Sizes \in SUBSET Nat
    BY DEF Sizes
  <2>2. QED
    BY <1>2, <1>3, <2>1, Induction
<1>5. QED
  BY <1>1, <1>4

DecidedBelow(g, h, U) ==
  \A s \in SUBSET U : s # {} => \E x \in s : g[s \ {x}] = h[s \ {x}] => g[s] = h[s]

\* Two functions of the subsets are equal if each of their values is decided by the one
\* for a set with one element less.
LEMMA SubsetFunctionsAgree ==
  ASSUME NEW U, IsFiniteSet(U), NEW g, NEW h, g[{}] = h[{}], DecidedBelow(g, h, U)
  PROVE  \A s \in SUBSET U : g[s] = h[s]
<1>. DEFINE Good == {s \in SUBSET U : g[s] = h[s]}
<1>1. {} \in Good
  OBVIOUS
<1>2. GrowsByOne(Good, U)
  BY DEF GrowsByOne, DecidedBelow
<1>3. SUBSET U \subseteq Good
  <2>. HIDE DEF Good
  <2>1. QED
    BY <1>1, <1>2, SubsetInduction
<1>4. QED
  BY <1>3

\* An element to take out of each set, the operation, the fold it makes.
IsChoice(choice, U)    == \A s \in SUBSET U : s # {} => choice[s] \in s
IsOperation(F, U, V)   == F \in [U \X V -> V]
IsFold(g, U, V, zero, F, choice) ==
  /\ g \in [SUBSET U -> V]
  /\ \A s \in SUBSET U :
       g[s] = IF s = {} THEN zero ELSE F[<<choice[s], g[s \ {choice[s]}]>>]

\* A fold that takes the elements out in any order is well-defined.
LEMMA FoldExists ==
  ASSUME NEW U, IsFiniteSet(U), NEW V, NEW zero \in V, NEW F, IsOperation(F, U, V),
         NEW choice, IsChoice(choice, U)
  PROVE  \E g : IsFold(g, U, V, zero, F, choice)
<1>. USE DEF IsChoice, IsOperation, IsFold
<1>. DEFINE UpTo(n) == {s \in SUBSET U : Cardinality(s) <= n}
            Holds(g, s) ==
              g[s] = IF s = {} THEN zero ELSE F[<<choice[s], g[s \ {choice[s]}]>>]
            Sizes == {n \in Nat : \E g \in [UpTo(n) -> V] : \A s \in UpTo(n) : Holds(g, s)}
<1>1. \A s \in SUBSET U : /\ IsFiniteSet(s) /\ Cardinality(s) \in Nat
                          /\ Cardinality(s) <= Cardinality(U)
                          /\ Cardinality(s) = 0 <=> s = {}
  BY FS_Subset, FS_CardinalityType, FS_EmptySet
<1>2. \A s \in SUBSET U : s # {} => /\ s \ {choice[s]} \in SUBSET U
                                    /\ Cardinality(s \ {choice[s]}) = Cardinality(s) - 1
  BY <1>1, FS_RemoveElement
<1>3. 0 \in Sizes
  <2>1. UpTo(0) = {{}}
    BY <1>1, FS_EmptySet
  <2>2. [s \in UpTo(0) |-> zero] \in [UpTo(0) -> V]
    OBVIOUS
  <2>3. \A s \in UpTo(0) : Holds([t \in UpTo(0) |-> zero], s)
    BY <2>1
  <2>4. QED
    BY <2>2, <2>3
<1>4. ASSUME NEW n \in Sizes
      PROVE  n + 1 \in Sizes
  <2>1. PICK g \in [UpTo(n) -> V] : \A s \in UpTo(n) : Holds(g, s)
    OBVIOUS
  <2>. DEFINE next == [s \in UpTo(n + 1) |->
                         IF s \in UpTo(n) THEN g[s] ELSE F[<<choice[s], g[s \ {choice[s]}]>>]]
  <2>2. \A s \in UpTo(n + 1) : s # {} => s \ {choice[s]} \in UpTo(n) /\ choice[s] \in U
    BY <1>1, <1>2
  <2>3. \A s \in UpTo(n + 1) : s \in UpTo(n) \/ s # {}
    BY <1>1
  <2>4. next \in [UpTo(n + 1) -> V]
    <3>1. ASSUME NEW s \in UpTo(n + 1)
          PROVE  next[s] \in V
      BY <2>2, <2>3
    <3>2. QED
      BY <3>1
  <2>5. ASSUME NEW s \in UpTo(n + 1)
        PROVE  Holds(next, s)
    <3>1. \A t \in UpTo(n) : t \in UpTo(n + 1) /\ next[t] = g[t]
      BY <1>1
    <3>2. CASE s \in UpTo(n)
      BY <2>1, <2>2, <3>1, <3>2
    <3>3. CASE s \notin UpTo(n)
      BY <2>2, <2>3, <3>1, <3>3
    <3>4. QED
      BY <3>2, <3>3
  <2>6. n + 1 \in Nat
    OBVIOUS
  <2>7. QED
    BY <2>4, <2>5, <2>6
<1>5. Sizes = Nat
  <2>. HIDE DEF Sizes
  <2>1. Sizes \in SUBSET Nat
    BY DEF Sizes
  <2>2. QED
    BY <1>3, <1>4, <2>1, Induction
<1>6. UpTo(Cardinality(U)) = SUBSET U /\ Cardinality(U) \in Sizes
  BY <1>1, <1>5
<1>7. QED
  BY <1>6

\* The fold of which any element may be the first.
IsAnyOrderFold(g, U, V, zero, F) ==
  /\ g \in [SUBSET U -> V]
  /\ g[{}] = zero
  /\ \A s \in SUBSET U : \A x \in s : g[s] = F[<<x, g[s \ {x}]>>]

\* If the order in which two elements are taken out makes no difference, any element
\* may be the first.
LEMMA AnyOrder ==
  ASSUME NEW U, IsFiniteSet(U), NEW V, NEW zero \in V, NEW F, IsOperation(F, U, V),
         \A x \in U : \A y \in U : \A v \in V :
           F[<<x, F[<<y, v>>]>>] = F[<<y, F[<<x, v>>]>>]
  PROVE  \E g : IsAnyOrderFold(g, U, V, zero, F)
<1>. DEFINE choice == [s \in SUBSET U |-> CHOOSE x \in s : TRUE]
<1>1. IsChoice(choice, U)
  BY DEF IsChoice
<1>. HIDE DEF choice
<1>2. PICK g : IsFold(g, U, V, zero, F, choice)
  BY <1>1, FoldExists
<1>2a. g \in [SUBSET U -> V] /\ g[{}] = zero
  BY <1>2 DEF IsFold
<1>2b. \A s \in SUBSET U : s # {} => choice[s] \in s /\ g[s] = F[<<choice[s], g[s \ {choice[s]}]>>]
  BY <1>1, <1>2 DEF IsFold, IsChoice
<1>. DEFINE Alike(s) == \A x \in s : g[s] = F[<<x, g[s \ {x}]>>]
            Sizes == {n \in Nat : \A s \in SUBSET U : Cardinality(s) <= n => Alike(s)}
<1>3. \A s \in SUBSET U : IsFiniteSet(s) /\ Cardinality(s) \in Nat
  BY FS_Subset, FS_CardinalityType
<1>4. \A s \in SUBSET U : \A x \in s : Cardinality(s \ {x}) = Cardinality(s) - 1
  BY <1>3, FS_RemoveElement
<1>5. 0 \in Sizes
  <2>1. \A s \in SUBSET U : Cardinality(s) <= 0 => s = {}
    BY <1>3, FS_EmptySet
  <2>2. QED
    BY <2>1
<1>6. ASSUME NEW n \in Sizes
      PROVE  n + 1 \in Sizes
  <2>. SUFFICES ASSUME NEW s \in SUBSET U, Cardinality(s) <= n + 1, NEW x \in s
                PROVE  g[s] = F[<<x, g[s \ {x}]>>]
    OBVIOUS
  <2>. DEFINE c == choice[s]
              rest == g[s \ {x, c}]
  <2>1. c \in s /\ g[s] = F[<<c, g[s \ {c}]>>]
    BY <1>2b
  <2>2. CASE x # c
    <3>1. Cardinality(s \ {c}) <= n /\ Cardinality(s \ {x}) <= n
      <4>1. Cardinality(s \ {c}) = Cardinality(s) - 1 /\ Cardinality(s \ {x}) = Cardinality(s) - 1
        BY <1>4, <2>1
      <4>2. QED
        BY <1>3, <4>1
    <3>2. Alike(s \ {c}) /\ Alike(s \ {x})
      BY <3>1
    <3>3. (s \ {c}) \ {x} = s \ {x, c} /\ (s \ {x}) \ {c} = s \ {x, c} /\ rest \in V
      BY <1>2a
    <3>4. x \in s \ {c} /\ c \in s \ {x}
      BY <2>1, <2>2
    <3>5. g[s \ {c}] = F[<<x, rest>>] /\ g[s \ {x}] = F[<<c, rest>>]
      BY <3>2, <3>3, <3>4
    <3>6. F[<<c, F[<<x, rest>>]>>] = F[<<x, F[<<c, rest>>]>>]
      <4>1. c \in U /\ x \in U /\ rest \in V
        BY <2>1, <3>3
      <4>. HIDE DEF c, rest
      <4>2. QED
        BY <4>1
    <3>7. QED
      BY <2>1, <3>5, <3>6
  <2>3. QED
    BY <2>1, <2>2
<1>7. Sizes = Nat
  <2>. HIDE DEF Sizes
  <2>1. Sizes \in SUBSET Nat
    BY DEF Sizes
  <2>2. QED
    BY <1>5, <1>6, <2>1, Induction
<1>8. ASSUME NEW s \in SUBSET U
      PROVE  Alike(s)
  <2>1. Cardinality(s) \in Sizes /\ Cardinality(s) <= Cardinality(s)
    BY <1>3, <1>7
  <2>2. QED
    BY <2>1
<1>9. QED
  BY <1>2a, <1>8 DEF IsAnyOrderFold
-----------------------------------------------------------------------------
(* Powers of two, counted as subsets.                                      *)

LEMMA PowersOfTwo ==
  ASSUME NEW n \in Nat
  PROVE  2^n \in Nat \ {0} /\ 2^0 = 1 /\ 2^(n + 1) = 2 * 2^n
<1>1. ASSUME NEW m \in Nat
      PROVE  IsFiniteSet(SUBSET (1..m)) /\ Cardinality(SUBSET (1..m)) = 2^m
  <2>1. IsFiniteSet(1..m) /\ Cardinality(1..m) = m
    BY FS_Interval
  <2>2. QED
    BY <2>1, FS_SUBSET
<1>2. 2^n \in Nat \ {0}
  <2>1. {} \in SUBSET (1..n)
    OBVIOUS
  <2>2. QED
    BY <1>1, <2>1, FS_CardinalityType, FS_EmptySet
<1>3. 2^(n + 1) = 2 * 2^n
  <2>. DEFINE Old == SUBSET (1..n)
              New == {s \union {n + 1} : s \in Old}
              f   == [s \in Old |-> s \union {n + 1}]
  <2>1. n + 1 \notin 1..n /\ 1..(n + 1) = (1..n) \union {n + 1}
    OBVIOUS
  <2>2. SUBSET (1..(n + 1)) = Old \union New
    <3>1. ASSUME NEW s \in SUBSET (1..(n + 1))
          PROVE  s \in Old \union New
      <4>1. CASE n + 1 \in s
        <5>1. s = (s \ {n + 1}) \union {n + 1} /\ s \ {n + 1} \in Old
          BY <2>1, <4>1
        <5>2. QED
          BY <5>1
      <4>2. CASE n + 1 \notin s
        BY <2>1, <4>2
      <4>3. QED
        BY <4>1, <4>2
    <3>2. Old \union New \subseteq SUBSET (1..(n + 1))
      BY <2>1
    <3>3. QED
      BY <3>1, <3>2
  <2>3. Old \intersect New = {}
    BY <2>1
  <2>4. f \in Bijection(Old, New)
    <3>1. f \in [Old -> New] /\ \A t \in New : \E s \in Old : f[s] = t
      OBVIOUS
    <3>2. ASSUME NEW s \in Old, NEW t \in Old, f[s] = f[t]
          PROVE  s = t
      <4>1. s \union {n + 1} = t \union {n + 1} /\ n + 1 \notin s /\ n + 1 \notin t
        BY <2>1, <3>2
      <4>2. QED
        BY <4>1
    <3>. HIDE DEF f
    <3>3. QED
      BY <3>1, <3>2 DEF Bijection, Injection, Surjection, IsInjective
  <2>5. IsFiniteSet(New) /\ Cardinality(New) = Cardinality(Old)
    <3>1. ExistsBijection(Old, New)
      BY <2>4 DEF ExistsBijection
    <3>2. QED
      BY <1>1, <3>1, FS_Bijection
  <2>. HIDE DEF Old, New
  <2>6. Cardinality(Old \union New) = Cardinality(Old) + Cardinality(New) - Cardinality(Old \intersect New)
    BY <1>1, <2>5, FS_Union DEF Old
  <2>7. Cardinality(Old) = 2^n
    BY <1>1 DEF Old
  <2>8. Cardinality(SUBSET (1..(n + 1))) = 2^(n + 1)
    <3>1. n + 1 \in Nat
      OBVIOUS
    <3>2. QED
      BY <1>1, <3>1
  <2>9. Cardinality(Old \intersect New) = 0
    BY <2>3, FS_EmptySet
  <2>10. 2^(n + 1) = 2^n + 2^n - 0
    BY <2>2, <2>5, <2>6, <2>7, <2>8, <2>9
  <2>11. QED
    BY <1>2, <2>10
<1>4. 2^0 = 1
  OBVIOUS
<1>5. QED
  BY <1>2, <1>3, <1>4

LEMMA PowersMultiply ==
  ASSUME NEW m \in Nat, NEW n \in Nat
  PROVE  2^(m + n) = 2^m * 2^n
<1>. DEFINE Good == {k \in Nat : 2^(m + k) = 2^m * 2^k}
<1>1. 0 \in Good
  BY PowersOfTwo
<1>2. ASSUME NEW k \in Good
      PROVE  k + 1 \in Good
  <2>1. 2^m \in Nat /\ 2^k \in Nat /\ 2^(k + 1) = 2 * 2^k /\ 2^(m + k + 1) = 2 * 2^(m + k)
    BY PowersOfTwo
  <2>2. ASSUME NEW a \in Nat, NEW b \in Nat
        PROVE  2 * (a * b) = a * (2 * b)
    OBVIOUS
  <2>3. 2 * (2^m * 2^k) = 2^m * (2 * 2^k)
    BY <2>1, <2>2
  <2>4. m + (k + 1) = m + k + 1
    OBVIOUS
  <2>5. QED
    BY <2>1, <2>3, <2>4
<1>3. Good = Nat
  <2>. HIDE DEF Good
  <2>1. Good \in SUBSET Nat
    BY DEF Good
  <2>2. QED
    BY <1>1, <1>2, <2>1, Induction
<1>4. QED
  BY <1>3

-----------------------------------------------------------------------------
(* Division with remainder. *)

\* The division of the naturals, by its quotient and its remainder.
LEMMA Division ==
  ASSUME NEW a \in Nat, NEW b \in Nat \ {0}
  PROVE  /\ a \div b \in Nat
         /\ b * (a \div b) <= a
         /\ a < b * (a \div b) + b
<1>1. a \div b \in Nat /\ a % b \in 0..(b - 1)
  OBVIOUS
<1>2. a = b * (a \div b) + (a % b)
  OBVIOUS
<1>3. QED
  BY <1>1, <1>2

LEMMA NextMultiple ==
  ASSUME NEW b \in Nat, NEW p \in Nat, NEW q \in Nat, p < q
  PROVE  b * p + b <= b * q
<1>1. PICK d \in Nat : q = p + 1 + d
  <2>1. q - p - 1 \in Nat /\ q = p + 1 + (q - p - 1)
    OBVIOUS
  <2>2. QED
    BY <2>1
<1>2. b * q = b * p + b + b * d /\ b * d \in Nat
  BY <1>1
<1>3. QED
  BY <1>2

LEMMA QuotientIs ==
  ASSUME NEW a \in Nat, NEW b \in Nat \ {0}, NEW q \in Nat
  PROVE  a \div b = q <=> b * q <= a /\ a < b * q + b
<1>. DEFINE p == a \div b
<1>1. p \in Nat /\ b * p <= a /\ a < b * p + b
  BY Division
<1>2. p < q => b * p + b <= b * q
  BY <1>1, NextMultiple
<1>3. q < p => b * q + b <= b * p
  BY <1>1, NextMultiple
<1>. HIDE DEF p
<1>4. p = q <=> b * q <= a /\ a < b * q + b
  BY <1>1, <1>2, <1>3
<1>5. QED
  BY <1>4 DEF p

\* The digits of a quotient by twice a number are those of the quotient but the last.
LEMMA QuotientOfDouble ==
  ASSUME NEW a \in Nat, NEW b \in Nat \ {0}
  PROVE  /\ a \div b \in Nat /\ a \div (2 * b) \in Nat
         /\ a \div b = 2 * (a \div (2 * b)) + ((a \div b) % 2)
<1>. DEFINE p == a \div b
            h == p \div 2
<1>1. p \in Nat /\ b * p <= a /\ a < b * p + b
  BY Division
<1>2. h \in Nat /\ p = 2 * h + (p % 2) /\ p % 2 \in 0..1
  BY <1>1
<1>. HIDE DEF p, h
<1>3. PICK r \in 0..1 : p = 2 * h + r /\ p % 2 = r
  BY <1>2
<1>4. (2 * b) * h <= a /\ a < (2 * b) * h + 2 * b
  <2>1. b * p = (2 * b) * h + b * r
    BY <1>2, <1>3
  <2>2. b * r \in Nat /\ b * r <= b
    BY <1>3
  <2>3. (2 * b) * h \in Nat /\ b * p \in Nat
    BY <1>1, <1>2
  <2>4. QED
    BY <1>1, <2>1, <2>2, <2>3
<1>5. 2 * b \in Nat \ {0}
  OBVIOUS
<1>6. a \div (2 * b) = h
  BY <1>2, <1>4, <1>5, QuotientIs
<1>7. QED
  BY <1>1, <1>2, <1>6 DEF p

-----------------------------------------------------------------------------
(* Sums over a finite set: of integers, of amplitudes, of squared magnitudes. *)

ValuesIn(f, U, V) == \A x \in U : f[x] \in V

\* What a sum over the subsets of U is, in the order of the library's folds.
LEMMA IntegerSums ==
  ASSUME NEW U, IsFiniteSet(U), NEW f, ValuesIn(f, U, Int)
  PROVE  /\ SumFunctionOnSet(f, {}) = 0
         /\ \A s \in SUBSET U : SumFunctionOnSet(f, s) \in Int
         /\ \A s \in SUBSET U : \A x \in s :
              SumFunctionOnSet(f, s) = f[x] + SumFunctionOnSet(f, s \ {x})
<1>. DEFINE F == [p \in U \X Int |-> f[p[1]] + p[2]]
<1>1. \A x \in U : \A v \in Int : F[<<x, v>>] \in Int /\ F[<<x, v>>] = f[x] + v
  BY DEF ValuesIn
<1>2. IsOperation(F, U, Int)
  BY DEF IsOperation, ValuesIn
<1>3. \A x \in U : \A y \in U : \A v \in Int : F[<<x, F[<<y, v>>]>>] = F[<<y, F[<<x, v>>]>>]
  <2>. HIDE DEF F
  <2>1. QED
    BY <1>1 DEF ValuesIn
<1>4. PICK g : IsAnyOrderFold(g, U, Int, 0, F)
  <2>. HIDE DEF F
  <2>1. 0 \in Int
    OBVIOUS
  <2>2. QED
    BY <1>2, <1>3, <2>1, AnyOrder
<1>5. g \in [SUBSET U -> Int] /\ g[{}] = 0
  BY <1>4 DEF IsAnyOrderFold
<1>6. ASSUME NEW s \in SUBSET U, NEW x \in s
      PROVE  g[s] = f[x] + g[s \ {x}]
  <2>1. g[s] = F[<<x, g[s \ {x}]>>] /\ g[s \ {x}] \in Int /\ x \in U
    BY <1>4, <1>5 DEF IsAnyOrderFold
  <2>2. QED
    BY <1>1, <2>1
<1>. HIDE DEF F
<1>7. ASSUME NEW W \in SUBSET U
      PROVE  SumFunctionOnSet(f, W) = g[W]
  <2>. DEFINE IsIter(h) == h = [s \in SUBSET W |-> IF s = {} THEN 0
                                 ELSE f[CHOOSE x \in s : TRUE] + h[s \ {CHOOSE x \in s : TRUE}]]
              iter == CHOOSE h : IsIter(h)
  <2>1. IsIter([s \in SUBSET W |-> g[s]])
    <3>1. \A s \in SUBSET W : s # {} => /\ s \ {CHOOSE x \in s : TRUE} \in SUBSET W
                                         /\ (CHOOSE x \in s : TRUE) \in s
      OBVIOUS
    <3>2. \A s \in SUBSET W : s \in SUBSET U
      OBVIOUS
    <3>3. QED
      BY <1>5, <1>6, <3>1, <3>2
  <2>2. IsIter(iter)
    BY <2>1
  <2>3. SumFunctionOnSet(f, W) = iter[W]
    BY DEF SumFunctionOnSet, FoldFunctionOnSet, MapThenFoldSet
  <2>4. IsFiniteSet(W)
    BY FS_Subset
  <2>. HIDE DEF iter
  <2>5. iter[{}] = g[{}]
    BY <1>5, <2>2
  <2>6. DecidedBelow(iter, g, W)
    <3>. SUFFICES ASSUME NEW s \in SUBSET W, s # {}
                  PROVE  \E x \in s : iter[s \ {x}] = g[s \ {x}] => iter[s] = g[s]
      BY DEF DecidedBelow
    <3>. DEFINE c == CHOOSE x \in s : TRUE
    <3>1. c \in s /\ iter[s] = f[c] + iter[s \ {c}]
      BY <2>2
    <3>2. g[s] = f[c] + g[s \ {c}]
      BY <1>6, <3>1
    <3>3. QED
      BY <3>1, <3>2
  <2>7. \A s \in SUBSET W : iter[s] = g[s]
    BY <2>4, <2>5, <2>6, SubsetFunctionsAgree
  <2>8. QED
    BY <2>3, <2>7
<1>8. QED
  BY <1>5, <1>6, <1>7

\* The two kinds of values that amplitudes give rise to.
Weight == Int \X Int

IsSpace(V, zero) == (V = Ring /\ zero = Null) \/ (V = Weight /\ zero = NoWeight)

LEMMA RingParts ==
  ASSUME NEW x \in Ring
  PROVE  \E a, b, c, d \in Int : x = <<a, b, c, d>>
<1>1. /\ x[1] \in Int /\ x[2] \in Int /\ x[3] \in Int /\ x[4] \in Int
      /\ x = <<x[1], x[2], x[3], x[4]>>
  BY DEF Ring
<1>2. QED
  BY <1>1

LEMMA WeightParts ==
  ASSUME NEW x \in Weight
  PROVE  \E a, b \in Int : x = <<a, b>>
<1>1. x[1] \in Int /\ x[2] \in Int /\ x = <<x[1], x[2]>>
  BY DEF Weight
<1>2. QED
  BY <1>1

LEMMA PlusRing ==
  ASSUME NEW x \in Ring, NEW y \in Ring, NEW z \in Ring
  PROVE  /\ Null \in Ring /\ Plus(x, Null) = x /\ Plus(Null, x) = x
         /\ Plus(x, y) \in Ring /\ Plus(x, y) = Plus(y, x)
         /\ Plus(x, Plus(y, z)) = Plus(Plus(x, y), z)
<1>1. PICK a1, b1, c1, d1 \in Int : x = <<a1, b1, c1, d1>>
  BY RingParts
<1>2. PICK a2, b2, c2, d2 \in Int : y = <<a2, b2, c2, d2>>
  BY RingParts
<1>3. PICK a3, b3, c3, d3 \in Int : z = <<a3, b3, c3, d3>>
  BY RingParts
<1>4. Null \in Ring /\ Plus(x, y) \in Ring
  BY <1>1, <1>2 DEF Ring, Null, Plus
<1>5. Plus(x, Null) = x /\ Plus(Null, x) = x /\ Plus(x, y) = Plus(y, x)
  BY <1>1, <1>2 DEF Plus, Null
<1>6. Plus(x, Plus(y, z)) = Plus(Plus(x, y), z)
  BY <1>1, <1>2, <1>3 DEF Plus
<1>7. QED
  BY <1>4, <1>5, <1>6

LEMMA PlusWeight ==
  ASSUME NEW x \in Weight, NEW y \in Weight, NEW z \in Weight
  PROVE  /\ NoWeight \in Weight /\ Plus(x, NoWeight) = x /\ Plus(NoWeight, x) = x
         /\ Plus(x, y) \in Weight /\ Plus(x, y) = Plus(y, x)
         /\ Plus(x, Plus(y, z)) = Plus(Plus(x, y), z)
<1>1. PICK a1, b1 \in Int : x = <<a1, b1>>
  BY WeightParts
<1>2. PICK a2, b2 \in Int : y = <<a2, b2>>
  BY WeightParts
<1>3. PICK a3, b3 \in Int : z = <<a3, b3>>
  BY WeightParts
<1>4. NoWeight \in Weight /\ Plus(x, y) \in Weight
  BY <1>1, <1>2 DEF Weight, NoWeight, Plus
<1>5. Plus(x, NoWeight) = x /\ Plus(NoWeight, x) = x /\ Plus(x, y) = Plus(y, x)
  BY <1>1, <1>2 DEF Plus, NoWeight
<1>6. Plus(x, Plus(y, z)) = Plus(Plus(x, y), z)
  BY <1>1, <1>2, <1>3 DEF Plus
<1>7. QED
  BY <1>4, <1>5, <1>6

LEMMA SpaceLaws ==
  ASSUME NEW V, NEW zero, IsSpace(V, zero), NEW x \in V, NEW y \in V, NEW z \in V
  PROVE  /\ Plus(x, zero) = x /\ Plus(zero, x) = x
         /\ Plus(x, y) \in V /\ Plus(x, y) = Plus(y, x)
         /\ Plus(x, Plus(y, z)) = Plus(Plus(x, y), z)
<1>1. CASE V = Ring /\ zero = Null
  BY <1>1, PlusRing
<1>2. CASE V = Weight /\ zero = NoWeight
  BY <1>2, PlusWeight
<1>3. QED
  BY <1>1, <1>2 DEF IsSpace

LEMMA PlusInterchange ==
  ASSUME NEW V, NEW zero, IsSpace(V, zero), NEW x \in V, NEW y \in V, NEW a \in V, NEW b \in V
  PROVE  Plus(Plus(x, y), Plus(a, b)) = Plus(Plus(x, a), Plus(y, b))
<1>1. Plus(y, a) = Plus(a, y) /\ Plus(a, b) \in V /\ Plus(y, b) \in V
  BY SpaceLaws
<1>2. Plus(Plus(x, y), Plus(a, b)) = Plus(x, Plus(y, Plus(a, b)))
  BY <1>1, SpaceLaws
<1>3. Plus(y, Plus(a, b)) = Plus(Plus(y, a), b)
  BY SpaceLaws
<1>4. Plus(Plus(a, y), b) = Plus(a, Plus(y, b))
  BY SpaceLaws
<1>5. Plus(x, Plus(a, Plus(y, b))) = Plus(Plus(x, a), Plus(y, b))
  BY <1>1, SpaceLaws
<1>6. QED
  BY <1>1, <1>2, <1>3, <1>4, <1>5

LEMMA SpaceZero ==
  ASSUME NEW V, NEW zero, IsSpace(V, zero)
  PROVE  zero \in V
  BY DEF IsSpace, Ring, Weight, Null, NoWeight

\* Amplitudes and squared magnitudes are such values.
LEMMA Spaces == IsSpace(Ring, Null) /\ IsSpace(Weight, NoWeight) /\ Null \in Ring /\ NoWeight \in Weight
  BY SpaceZero DEF IsSpace

SumOver(zero, f, U) == FoldFunctionOnSet(Plus, zero, f, U)

\* The sums of SumOf, element by element.
LEMMA Sums ==
  ASSUME NEW U, IsFiniteSet(U), NEW V, NEW zero, IsSpace(V, zero), NEW f, ValuesIn(f, U, V)
  PROVE  /\ SumOver(zero, f, {}) = zero
         /\ \A s \in SUBSET U : SumOver(zero, f, s) \in V
         /\ \A s \in SUBSET U : \A x \in s :
              SumOver(zero, f, s) = Plus(f[x], SumOver(zero, f, s \ {x}))
<1>. DEFINE F == [p \in U \X V |-> Plus(f[p[1]], p[2])]
<1>1. \A x \in U : \A v \in V : F[<<x, v>>] \in V /\ F[<<x, v>>] = Plus(f[x], v)
  BY SpaceLaws DEF ValuesIn
<1>2. IsOperation(F, U, V)
  BY SpaceLaws DEF IsOperation, ValuesIn
<1>3. ASSUME NEW x \in U, NEW y \in U, NEW v \in V
      PROVE  F[<<x, F[<<y, v>>]>>] = F[<<y, F[<<x, v>>]>>]
  <2>. HIDE DEF F
  <2>1. f[x] \in V /\ f[y] \in V
    BY DEF ValuesIn
  <2>2. F[<<x, F[<<y, v>>]>>] = Plus(f[x], Plus(f[y], v)) /\ F[<<y, F[<<x, v>>]>>] = Plus(f[y], Plus(f[x], v))
    BY <1>1
  <2>3. Plus(f[x], Plus(f[y], v)) = Plus(Plus(f[x], f[y]), v) /\ Plus(f[y], Plus(f[x], v)) = Plus(Plus(f[y], f[x]), v)
    BY <2>1, SpaceLaws
  <2>4. Plus(f[x], f[y]) = Plus(f[y], f[x])
    BY <2>1, SpaceLaws
  <2>5. QED
    BY <2>2, <2>3, <2>4
<1>4. PICK g : IsAnyOrderFold(g, U, V, zero, F)
  <2>. HIDE DEF F
  <2>1. zero \in V
    BY SpaceZero
  <2>2. QED
    BY <1>2, <1>3, <2>1, AnyOrder
<1>5. g \in [SUBSET U -> V] /\ g[{}] = zero
  BY <1>4 DEF IsAnyOrderFold
<1>6. ASSUME NEW s \in SUBSET U, NEW x \in s
      PROVE  g[s] = Plus(f[x], g[s \ {x}])
  <2>1. g[s] = F[<<x, g[s \ {x}]>>] /\ g[s \ {x}] \in V /\ x \in U
    BY <1>4, <1>5 DEF IsAnyOrderFold
  <2>2. QED
    BY <1>1, <2>1
<1>. HIDE DEF F
<1>7. ASSUME NEW W \in SUBSET U
      PROVE  SumOver(zero, f, W) = g[W]
  <2>. DEFINE IsIter(h) == h = [s \in SUBSET W |-> IF s = {} THEN zero
                                 ELSE Plus(f[CHOOSE x \in s : TRUE], h[s \ {CHOOSE x \in s : TRUE}])]
              iter == CHOOSE h : IsIter(h)
  <2>1. IsIter([s \in SUBSET W |-> g[s]])
    <3>1. \A s \in SUBSET W : s # {} => /\ s \ {CHOOSE x \in s : TRUE} \in SUBSET W
                                         /\ (CHOOSE x \in s : TRUE) \in s
      OBVIOUS
    <3>2. \A s \in SUBSET W : s \in SUBSET U
      OBVIOUS
    <3>3. QED
      BY <1>5, <1>6, <3>1, <3>2
  <2>2. IsIter(iter)
    BY <2>1
  <2>3. SumOver(zero, f, W) = iter[W]
    BY DEF SumOver, FoldFunctionOnSet, MapThenFoldSet
  <2>4. IsFiniteSet(W)
    BY FS_Subset
  <2>. HIDE DEF iter
  <2>5. iter[{}] = g[{}]
    BY <1>5, <2>2
  <2>6. DecidedBelow(iter, g, W)
    <3>. SUFFICES ASSUME NEW s \in SUBSET W, s # {}
                  PROVE  \E x \in s : iter[s \ {x}] = g[s \ {x}] => iter[s] = g[s]
      BY DEF DecidedBelow
    <3>. DEFINE c == CHOOSE x \in s : TRUE
    <3>1. c \in s /\ iter[s] = Plus(f[c], iter[s \ {c}])
      BY <2>2
    <3>2. g[s] = Plus(f[c], g[s \ {c}])
      BY <1>6, <3>1
    <3>3. QED
      BY <3>1, <3>2
  <2>7. \A s \in SUBSET W : iter[s] = g[s]
    BY <2>4, <2>5, <2>6, SubsetFunctionsAgree
  <2>8. QED
    BY <2>3, <2>7
<1>8. QED
  BY <1>5, <1>6, <1>7

\* Sums of equal functions are equal.
LEMMA SumEqual ==
  ASSUME NEW U, IsFiniteSet(U), NEW V, NEW zero, IsSpace(V, zero), NEW f, ValuesIn(f, U, V),
         NEW g, \A x \in U : g[x] = f[x]
  PROVE  SumOver(zero, g, U) = SumOver(zero, f, U)
<1>. DEFINE Good == {s \in SUBSET U : SumOver(zero, g, s) = SumOver(zero, f, s)}
<1>1. ValuesIn(g, U, V)
  BY DEF ValuesIn
<1>2. {} \in Good
  BY <1>1, Sums
<1>3. ASSUME NEW s \in SUBSET U, NEW x \in s, s \ {x} \in Good
      PROVE  s \in Good
  <2>1. SumOver(zero, f, s) = Plus(f[x], SumOver(zero, f, s \ {x}))
    BY Sums
  <2>2. SumOver(zero, g, s) = Plus(g[x], SumOver(zero, g, s \ {x}))
    BY <1>1, Sums
  <2>3. QED
    BY <1>3, <2>1, <2>2
<1>4. GrowsByOne(Good, U)
  BY <1>3 DEF GrowsByOne
<1>5. SUBSET U \subseteq Good
  <2>. HIDE DEF Good
  <2>1. QED
    BY <1>2, <1>4, SubsetInduction
<1>6. QED
  BY <1>5

\* The sum of null values is null.
LEMMA SumNull ==
  ASSUME NEW U, IsFiniteSet(U), NEW V, NEW zero, IsSpace(V, zero),
         NEW f, \A x \in U : f[x] = zero
  PROVE  SumOver(zero, f, U) = zero
<1>. DEFINE Good == {s \in SUBSET U : SumOver(zero, f, s) = zero}
<1>1. zero \in V /\ ValuesIn(f, U, V)
  BY SpaceZero DEF ValuesIn
<1>2. {} \in Good
  BY <1>1, Sums
<1>3. ASSUME NEW s \in SUBSET U, NEW x \in s, s \ {x} \in Good
      PROVE  s \in Good
  <2>1. SumOver(zero, f, s) = Plus(f[x], SumOver(zero, f, s \ {x}))
    BY <1>1, Sums
  <2>2. Plus(zero, zero) = zero
    BY <1>1, SpaceLaws
  <2>3. QED
    BY <1>3, <2>1, <2>2
<1>4. GrowsByOne(Good, U)
  BY <1>3 DEF GrowsByOne
<1>5. SUBSET U \subseteq Good
  <2>. HIDE DEF Good
  <2>1. QED
    BY <1>2, <1>4, SubsetInduction
<1>6. QED
  BY <1>5

\* The sum over two sets without a common element.
LEMMA SumUnion ==
  ASSUME NEW U, IsFiniteSet(U), NEW V, NEW zero, IsSpace(V, zero), NEW f, ValuesIn(f, U, V),
         NEW W \in SUBSET U
  PROVE  SumOver(zero, f, U) = Plus(SumOver(zero, f, W), SumOver(zero, f, U \ W))
<1>. DEFINE Rest == U \ W
            Total(s) == Plus(SumOver(zero, f, W), SumOver(zero, f, s))
            Good == {s \in SUBSET Rest : SumOver(zero, f, W \union s) = Total(s)}
<1>1. IsFiniteSet(Rest) /\ Rest \in SUBSET U /\ U = W \union Rest
  BY FS_Subset
<1>2. \A s \in SUBSET U : SumOver(zero, f, s) \in V
  BY Sums
<1>3. {} \in Good
  <2>1. SumOver(zero, f, {}) = zero
    BY Sums
  <2>2. Plus(SumOver(zero, f, W), zero) = SumOver(zero, f, W)
    BY <1>2, SpaceLaws
  <2>3. W \union {} = W
    OBVIOUS
  <2>4. QED
    BY <2>1, <2>2, <2>3
<1>4. ASSUME NEW s \in SUBSET Rest, NEW x \in s, s \ {x} \in Good
      PROVE  s \in Good
  <2>. DEFINE a == SumOver(zero, f, W)
              b == SumOver(zero, f, s \ {x})
  <2>1. s \in SUBSET U /\ x \in W \union s /\ W \union s \in SUBSET U
        /\ (W \union s) \ {x} = W \union (s \ {x}) /\ s \ {x} \in SUBSET U
    BY <1>1
  <2>2. SumOver(zero, f, s) = Plus(f[x], b)
    BY <2>1, Sums
  <2>3. SumOver(zero, f, W \union s) = Plus(f[x], SumOver(zero, f, (W \union s) \ {x}))
    BY <2>1, Sums
  <2>4. SumOver(zero, f, W \union s) = Plus(f[x], Plus(a, b))
    BY <1>4, <2>1, <2>3
  <2>5. f[x] \in V /\ a \in V /\ b \in V
    BY <1>2, <2>1 DEF ValuesIn
  <2>. HIDE DEF a, b
  <2>6. Plus(f[x], Plus(a, b)) = Plus(a, Plus(f[x], b))
    <3>1. Plus(f[x], Plus(a, b)) = Plus(Plus(f[x], a), b)
      BY <2>5, SpaceLaws
    <3>2. Plus(a, Plus(f[x], b)) = Plus(Plus(a, f[x]), b)
      BY <2>5, SpaceLaws
    <3>3. Plus(f[x], a) = Plus(a, f[x])
      BY <2>5, SpaceLaws
    <3>4. QED
      BY <3>1, <3>2, <3>3
  <2>7. QED
    BY <2>2, <2>4, <2>6 DEF a
<1>5. GrowsByOne(Good, Rest)
  BY <1>4 DEF GrowsByOne
<1>6. SUBSET Rest \subseteq Good
  <2>. HIDE DEF Good, Rest
  <2>1. QED
    BY <1>1, <1>3, <1>5, SubsetInduction
<1>7. QED
  BY <1>1, <1>6

\* Null values make no difference.
LEMMA SumSupport ==
  ASSUME NEW U, IsFiniteSet(U), NEW V, NEW zero, IsSpace(V, zero), NEW f, ValuesIn(f, U, V),
         NEW W \in SUBSET U, \A x \in U \ W : f[x] = zero
  PROVE  SumOver(zero, f, U) = SumOver(zero, f, W)
<1>1. IsFiniteSet(U \ W)
  BY FS_Subset
<1>2. SumOver(zero, f, U \ W) = zero
  BY <1>1, SumNull
<1>3. SumOver(zero, f, W) \in V
  BY Sums
<1>4. Plus(SumOver(zero, f, W), zero) = SumOver(zero, f, W)
  BY <1>3, SpaceLaws, SpaceZero
<1>5. QED
  BY <1>2, <1>4, SumUnion

LEMMA SumOfRest ==
  ASSUME NEW U, IsFiniteSet(U), NEW V, NEW zero, IsSpace(V, zero), NEW f, ValuesIn(f, U, V),
         NEW s \in SUBSET U, NEW x \in s
  PROVE  SumOver(zero, f, s) = Plus(f[x], SumOver(zero, f, s \ {x}))
BY Sums

\* The sum of the sums of two functions.
LEMMA SumAdd ==
  ASSUME NEW U, IsFiniteSet(U), NEW V, NEW zero, IsSpace(V, zero),
         NEW f, ValuesIn(f, U, V), NEW g, ValuesIn(g, U, V),
         NEW h, \A x \in U : h[x] = Plus(f[x], g[x])
  PROVE  SumOver(zero, h, U) = Plus(SumOver(zero, f, U), SumOver(zero, g, U))
<1>. DEFINE Good == {s \in SUBSET U :
                       SumOver(zero, h, s) = Plus(SumOver(zero, f, s), SumOver(zero, g, s))}
<1>1. ValuesIn(h, U, V)
  BY SpaceLaws DEF ValuesIn
<1>2. {} \in Good
  <2>1. Plus(zero, zero) = zero
    BY SpaceLaws, SpaceZero
  <2>2. SumOver(zero, f, {}) = zero /\ SumOver(zero, g, {}) = zero
    BY Sums
  <2>3. SumOver(zero, h, {}) = zero
    BY <1>1, Sums
  <2>4. QED
    BY <2>1, <2>2, <2>3
<1>3. ASSUME NEW s \in SUBSET U, NEW x \in s, s \ {x} \in Good
      PROVE  s \in Good
  <2>. DEFINE a == SumOver(zero, f, s \ {x})
              b == SumOver(zero, g, s \ {x})
  <2>. HIDE DEF Good
  <2>0. s \ {x} \in SUBSET U /\ x \in U
    OBVIOUS
  <2>1. SumOver(zero, f, s) = Plus(f[x], a) /\ a \in V
    BY <2>0, Sums
  <2>2. SumOver(zero, g, s) = Plus(g[x], b) /\ b \in V
    BY <2>0, Sums
  <2>3. SumOver(zero, h, s) = Plus(h[x], SumOver(zero, h, s \ {x}))
    BY <1>1, Sums
  <2>4. SumOver(zero, h, s) = Plus(Plus(f[x], g[x]), Plus(a, b))
    BY <1>3, <2>3 DEF Good
  <2>5. f[x] \in V /\ g[x] \in V
    BY DEF ValuesIn
  <2>. HIDE DEF a, b
  <2>6. Plus(Plus(f[x], g[x]), Plus(a, b)) = Plus(Plus(f[x], a), Plus(g[x], b))
    BY <2>1, <2>2, <2>5, PlusInterchange
  <2>7. QED
    BY <2>1, <2>2, <2>4, <2>6 DEF Good, a, b
<1>4. GrowsByOne(Good, U)
  BY <1>3 DEF GrowsByOne
<1>5. SUBSET U \subseteq Good
  <2>. HIDE DEF Good
  <2>1. QED
    BY <1>2, <1>4, SubsetInduction
<1>6. QED
  BY <1>5

\* The sum may be taken over another set of the same elements.
LEMMA SumReindexed ==
  ASSUME NEW U, IsFiniteSet(U), NEW V, NEW zero, IsSpace(V, zero),
         NEW W, NEW b \in Bijection(U, W), NEW g, ValuesIn(g, W, V),
         NEW f, \A x \in U : f[x] = g[b[x]]
  PROVE  SumOver(zero, f, U) = SumOver(zero, g, W)
<1>. DEFINE Image(s) == {b[x] : x \in s}
            Good == {s \in SUBSET U : SumOver(zero, f, s) = SumOver(zero, g, Image(s))}
<1>1. /\ \A x \in U : b[x] \in W
      /\ \A x, y \in U : b[x] = b[y] => x = y
      /\ \A t \in W : \E x \in U : b[x] = t
  BY DEF Bijection, Injection, Surjection, IsInjective
<1>2. ValuesIn(f, U, V)
  BY <1>1 DEF ValuesIn
<1>3. IsFiniteSet(W) /\ Image(U) = W
  <2>1. Image(U) = W
    BY <1>1
  <2>2. ExistsBijection(U, W)
    BY DEF ExistsBijection
  <2>3. QED
    BY <2>1, <2>2, FS_Bijection
<1>4. {} \in Good
  <2>1. Image({}) = {}
    OBVIOUS
  <2>2. SumOver(zero, g, {}) = zero
    BY <1>3, Sums
  <2>3. SumOver(zero, f, {}) = zero
    BY <1>2, Sums
  <2>4. QED
    BY <2>1, <2>2, <2>3
<1>5. ASSUME NEW s \in SUBSET U, NEW x \in s, s \ {x} \in Good
      PROVE  s \in Good
  <2>1. Image(s) \in SUBSET W /\ b[x] \in Image(s) /\ Image(s) \ {b[x]} = Image(s \ {x})
    BY <1>1
  <2>2. SumOver(zero, f, s) = Plus(f[x], SumOver(zero, f, s \ {x}))
    BY <1>2, Sums
  <2>3. SumOver(zero, g, Image(s)) = Plus(g[b[x]], SumOver(zero, g, Image(s) \ {b[x]}))
    <3>. HIDE DEF Image, Good
    <3>1. IsFiniteSet(W) /\ Image(s) \in SUBSET W /\ b[x] \in Image(s)
      BY <1>3, <2>1
    <3>2. QED
      BY <3>1, SumOfRest
  <2>4. QED
    BY <1>5, <2>1, <2>2, <2>3
<1>6. GrowsByOne(Good, U)
  BY <1>5 DEF GrowsByOne
<1>7. SUBSET U \subseteq Good
  <2>. HIDE DEF Good
  <2>1. QED
    BY <1>4, <1>6, SubsetInduction
<1>8. QED
  BY <1>3, <1>7
-----------------------------------------------------------------------------
(* The ring of amplitudes.                                                 *)

\* The value of Times, whose shortcut for null operands makes no difference.
Convolution(x, y) ==
  << x[1]*y[1] - x[2]*y[4] - x[3]*y[3] - x[4]*y[2],
     x[1]*y[2] + x[2]*y[1] - x[3]*y[4] - x[4]*y[3],
     x[1]*y[3] + x[2]*y[2] + x[3]*y[1] - x[4]*y[4],
     x[1]*y[4] + x[2]*y[3] + x[3]*y[2] + x[4]*y[1] >>

LEMMA TimesConvolutes ==
  ASSUME NEW x \in Ring, NEW y \in Ring
  PROVE  Times(x, y) = Convolution(x, y) /\ Times(x, y) \in Ring
<1>1. PICK a, b, c, d \in Int : x = <<a, b, c, d>>
  BY RingParts
<1>2. PICK e, f, g, h \in Int : y = <<e, f, g, h>>
  BY RingParts
<1>3. Convolution(x, y) = << a*e - b*h - c*g - d*f, a*f + b*e - c*h - d*g,
                             a*g + b*f + c*e - d*h, a*h + b*g + c*f + d*e >>
  BY <1>1, <1>2 DEF Convolution
<1>4. Convolution(x, y) \in Ring
  BY <1>3 DEF Ring
<1>5. CASE x = Null \/ y = Null
  <2>1. (a = 0 /\ b = 0 /\ c = 0 /\ d = 0) \/ (e = 0 /\ f = 0 /\ g = 0 /\ h = 0)
    BY <1>1, <1>2, <1>5 DEF Null
  <2>2. Convolution(x, y) = <<0, 0, 0, 0>>
    BY <1>3, <2>1
  <2>3. QED
    BY <1>4, <1>5, <2>2 DEF Times, Null
<1>6. CASE ~(x = Null \/ y = Null)
  <2>1. Times(x, y) = Convolution(x, y)
    BY <1>6, Zenon DEF Times, Convolution
  <2>2. QED
    BY <1>4, <2>1
<1>7. QED
  BY <1>5, <1>6

LEMMA TimesRing ==
  ASSUME NEW x \in Ring, NEW y \in Ring
  PROVE  /\ Times(x, y) \in Ring
         /\ Times(x, y) = Times(y, x)
         /\ Times(x, Null) = Null /\ Times(Null, x) = Null
         /\ Times(x, Real(1)) = x /\ Real(1) \in Ring
<1>1. PICK a, b, c, d \in Int : x = <<a, b, c, d>>
  BY RingParts
<1>2. PICK e, f, g, h \in Int : y = <<e, f, g, h>>
  BY RingParts
<1>3. Times(x, y) = Times(y, x)
  <2>1. Times(x, y) = Convolution(x, y) /\ Times(y, x) = Convolution(y, x)
    BY TimesConvolutes
  <2>2. Convolution(x, y) = Convolution(y, x)
    BY <1>1, <1>2 DEF Convolution
  <2>3. QED
    BY <2>1, <2>2
<1>4. Real(1) \in Ring
  BY DEF Real, Ring
<1>5. Times(x, Real(1)) = x
  <2>1. Times(x, Real(1)) = Convolution(x, Real(1))
    BY <1>4, TimesConvolutes
  <2>2. Convolution(x, Real(1)) = x
    BY <1>1 DEF Real, Convolution
  <2>3. QED
    BY <2>1, <2>2
<1>6. Times(x, Null) = Null /\ Times(Null, x) = Null
  BY Zenon DEF Times
<1>7. QED
  BY <1>3, <1>4, <1>5, <1>6, TimesConvolutes

LEMMA TimesAssociates ==
  ASSUME NEW x \in Ring, NEW y \in Ring, NEW z \in Ring
  PROVE  Times(x, Times(y, z)) = Times(Times(x, y), z)
<1>1. PICK a, b, c, d \in Int : x = <<a, b, c, d>>
  BY RingParts
<1>2. PICK e, f, g, h \in Int : y = <<e, f, g, h>>
  BY RingParts
<1>3. PICK i, j, k, l \in Int : z = <<i, j, k, l>>
  BY RingParts
<1>4. Times(y, z) \in Ring /\ Times(y, z) = Convolution(y, z)
  BY TimesConvolutes
<1>5. Times(x, y) \in Ring /\ Times(x, y) = Convolution(x, y)
  BY TimesConvolutes
<1>6. PICK p, q, r, s \in Int : Times(y, z) = <<p, q, r, s>>
  BY <1>4, RingParts
<1>7. PICK t, u, v, w \in Int : Times(x, y) = <<t, u, v, w>>
  BY <1>5, RingParts
<1>8. Times(x, Times(y, z)) = Convolution(x, <<p, q, r, s>>)
  BY <1>4, <1>6, TimesConvolutes
<1>9. Times(Times(x, y), z) = Convolution(<<t, u, v, w>>, z)
  BY <1>5, <1>7, TimesConvolutes
<1>10. /\ p = e*i - f*l - g*k - h*j /\ q = e*j + f*i - g*l - h*k
       /\ r = e*k + f*j + g*i - h*l /\ s = e*l + f*k + g*j + h*i
  BY <1>2, <1>3, <1>4, <1>6 DEF Convolution
<1>11. /\ t = a*e - b*h - c*g - d*f /\ u = a*f + b*e - c*h - d*g
       /\ v = a*g + b*f + c*e - d*h /\ w = a*h + b*g + c*f + d*e
  BY <1>1, <1>2, <1>5, <1>7 DEF Convolution
<1>12. /\ a*p - b*s - c*r - d*q = t*i - u*l - v*k - w*j
       /\ a*q + b*p - c*s - d*r = t*j + u*i - v*l - w*k
       /\ a*r + b*q + c*p - d*s = t*k + u*j + v*i - w*l
       /\ a*s + b*r + c*q + d*p = t*l + u*k + v*j + w*i
  BY <1>10, <1>11
<1>13. Convolution(x, <<p, q, r, s>>) = Convolution(<<t, u, v, w>>, z)
  BY <1>1, <1>3, <1>12 DEF Convolution
<1>14. QED
  BY <1>8, <1>9, <1>13

LEMMA TimesDistributes ==
  ASSUME NEW x \in Ring, NEW y \in Ring, NEW z \in Ring
  PROVE  Times(x, Plus(y, z)) = Plus(Times(x, y), Times(x, z))
<1>1. PICK a, b, c, d \in Int : x = <<a, b, c, d>>
  BY RingParts
<1>2. PICK e, f, g, h \in Int : y = <<e, f, g, h>>
  BY RingParts
<1>3. PICK i, j, k, l \in Int : z = <<i, j, k, l>>
  BY RingParts
<1>4. Plus(y, z) = <<e + i, f + j, g + k, h + l>> /\ Plus(y, z) \in Ring
  BY <1>2, <1>3 DEF Plus, Ring
<1>5. Times(x, Plus(y, z)) = Convolution(x, <<e + i, f + j, g + k, h + l>>)
  BY <1>4, TimesConvolutes
<1>6. Times(x, y) = Convolution(x, y) /\ Times(x, z) = Convolution(x, z)
  BY TimesConvolutes
<1>7. Convolution(x, <<e + i, f + j, g + k, h + l>>) = Plus(Convolution(x, y), Convolution(x, z))
  BY <1>1, <1>2, <1>3 DEF Convolution, Plus
<1>8. QED
  BY <1>5, <1>6, <1>7

LEMMA ConjRing ==
  ASSUME NEW x \in Ring, NEW y \in Ring
  PROVE  /\ Conj(x) \in Ring /\ Conj(Conj(x)) = x
         /\ Conj(Plus(x, y)) = Plus(Conj(x), Conj(y))
         /\ Conj(Times(x, y)) = Times(Conj(x), Conj(y))
<1>1. PICK a, b, c, d \in Int : x = <<a, b, c, d>>
  BY RingParts
<1>2. PICK e, f, g, h \in Int : y = <<e, f, g, h>>
  BY RingParts
<1>3. Conj(x) = <<a, -d, -c, -b>> /\ Conj(y) = <<e, -h, -g, -f>>
  BY <1>1, <1>2 DEF Conj
<1>4. Conj(x) \in Ring /\ Conj(y) \in Ring
  BY <1>3 DEF Ring
<1>5. Conj(Conj(x)) = x
  BY <1>1, <1>3 DEF Conj
<1>6. Conj(Plus(x, y)) = Plus(Conj(x), Conj(y))
  BY <1>1, <1>2 DEF Conj, Plus
<1>7. Conj(Times(x, y)) = Times(Conj(x), Conj(y))
  <2>1. Times(x, y) = Convolution(x, y)
    BY TimesConvolutes
  <2>2. Times(Conj(x), Conj(y)) = Convolution(Conj(x), Conj(y))
    BY <1>4, TimesConvolutes
  <2>3. Conj(Convolution(x, y)) = Convolution(<<a, -d, -c, -b>>, <<e, -h, -g, -f>>)
    BY <1>1, <1>2 DEF Conj, Convolution
  <2>4. QED
    BY <1>3, <2>1, <2>2, <2>3
<1>8. QED
  BY <1>4, <1>5, <1>6, <1>7

LEMMA MinusZero == -0 = 0
<1>1. \A k \in Int : k <= 0 /\ k >= 0 => -k = 0
  OBVIOUS
<1>2. 0 \in Int /\ 0 <= 0 /\ 0 >= 0
  OBVIOUS
<1>3. QED
  BY <1>1, <1>2

LEMMA ConjReal ==
  ASSUME NEW n \in Int
  PROVE  Conj(Real(n)) = Real(n)
BY MinusZero DEF Conj, Real

LEMMA ConjNull == Conj(Null) = Null
<1>1. Null \in Ring /\ Plus(Null, Null) = Null
  BY PlusRing, SpaceZero DEF IsSpace
<1>2. Conj(Null) \in Ring /\ Conj(Null) = Plus(Conj(Null), Conj(Null))
  BY <1>1, ConjRing
<1>3. PICK a, b, c, d \in Int : Conj(Null) = <<a, b, c, d>>
  BY <1>2, RingParts
<1>4. <<a, b, c, d>> = <<a + a, b + b, c + c, d + d>>
  BY <1>2, <1>3 DEF Plus
<1>5. QED
  BY <1>3, <1>4 DEF Null

\* A squared magnitude as an element of the ring.
Embedded(s) == <<s[1], s[2], 0, -s[2]>>

LEMMA NormIsSquare ==
  ASSUME NEW x \in Ring
  PROVE  Norm(x) \in Weight /\ Times(x, Conj(x)) = Embedded(Norm(x))
<1>1. PICK a, b, c, d \in Int : x = <<a, b, c, d>>
  BY RingParts
<1>2. Conj(x) = <<a, -d, -c, -b>>
  BY <1>1 DEF Conj
<1>3. Times(x, Conj(x)) = Convolution(x, Conj(x))
  BY ConjRing, TimesConvolutes
<1>4. Norm(x) = <<a*a + b*b + c*c + d*d, a*b + b*c + c*d - d*a>>
  BY <1>1 DEF Norm
<1>5. Convolution(<<a, b, c, d>>, <<a, -d, -c, -b>>) = Embedded(<<a*a + b*b + c*c + d*d, a*b + b*c + c*d - d*a>>)
  BY DEF Convolution, Embedded
<1>6. QED
  BY <1>1, <1>2, <1>3, <1>4, <1>5 DEF Weight

LEMMA EmbeddedLaws ==
  ASSUME NEW s \in Weight, NEW t \in Weight
  PROVE  /\ Embedded(s) \in Ring
         /\ Embedded(Plus(s, t)) = Plus(Embedded(s), Embedded(t))
         /\ Embedded(s) = Embedded(t) => s = t
<1>1. PICK a, b \in Int : s = <<a, b>>
  BY WeightParts
<1>2. PICK c, d \in Int : t = <<c, d>>
  BY WeightParts
<1>3. Embedded(s) = <<a, b, 0, -b>> /\ Embedded(t) = <<c, d, 0, -d>>
  BY <1>1, <1>2 DEF Embedded
<1>4. Embedded(s) \in Ring
  BY <1>3 DEF Ring
<1>5. Plus(s, t) = <<a + c, b + d>>
  BY <1>1, <1>2 DEF Plus
<1>6. Embedded(Plus(s, t)) = <<a + c, b + d, 0, -(b + d)>>
  BY <1>5 DEF Embedded
<1>7. Plus(Embedded(s), Embedded(t)) = <<a + c, b + d, 0, -(b + d)>>
  BY <1>3 DEF Plus
<1>8. QED
  BY <1>1, <1>2, <1>3, <1>4, <1>6, <1>7

-----------------------------------------------------------------------------
(* Powers of sqrt(2).                                                      *)

LEMMA RealTimes ==
  ASSUME NEW x \in Ring, NEW n \in Int
  PROVE  Real(n) \in Ring /\ Times(x, Real(n)) = <<n * x[1], n * x[2], n * x[3], n * x[4]>>
<1>1. PICK a, b, c, d \in Int : x = <<a, b, c, d>>
  BY RingParts
<1>2. Real(n) \in Ring
  BY DEF Real, Ring
<1>3. Times(x, Real(n)) = Convolution(x, Real(n))
  BY <1>2, TimesConvolutes
<1>4. Convolution(x, Real(n)) = <<n * a, n * b, n * c, n * d>>
  BY <1>1 DEF Convolution, Real
<1>5. QED
  BY <1>1, <1>2, <1>3, <1>4

LEMMA Root2Powers ==
  ASSUME NEW k \in Nat
  PROVE  /\ Root2Power(k) \in Ring
         /\ k % 2 = 0 => Root2Power(k) = Real(2^(k \div 2)) /\ 2^k = 2^(k \div 2) * 2^(k \div 2)
         /\ k % 2 # 0 => /\ Root2Power(k) = <<0, 2^(k \div 2), 0, -(2^(k \div 2))>>
                         /\ 2^k = 2 * (2^(k \div 2) * 2^(k \div 2))
<1>. DEFINE j == k \div 2
            c == 2^j
<1>1. j \in Nat /\ c \in Nat
  BY PowersOfTwo
<1>2. Real(c) \in Ring /\ Root2 \in Ring /\ Real(1) \in Ring
  BY <1>1 DEF Real, Root2, Ring
<1>3. CASE k % 2 = 0
  <2>1. Root2Power(k) = Times(Real(c), Real(1))
    BY <1>3 DEF Root2Power
  <2>2. Times(Real(c), Real(1)) = Real(c)
    BY <1>2, TimesRing
  <2>3. k = j + j
    BY <1>3
  <2>4. 2^(j + j) = 2^j * 2^j
    BY <1>1, PowersMultiply
  <2>5. QED
    BY <1>2, <1>3, <2>1, <2>2, <2>3, <2>4
<1>4. CASE k % 2 # 0
  <2>1. Root2Power(k) = Times(Real(c), Root2)
    BY <1>4 DEF Root2Power
  <2>2. Times(Real(c), Root2) = Times(Root2, Real(c)) /\ Times(Real(c), Root2) \in Ring
    BY <1>2, TimesRing
  <2>3. Times(Root2, Real(c)) = <<c * Root2[1], c * Root2[2], c * Root2[3], c * Root2[4]>>
    BY <1>1, <1>2, RealTimes
  <2>4. <<c * Root2[1], c * Root2[2], c * Root2[3], c * Root2[4]>> = <<0, c, 0, -c>>
    <3>. HIDE DEF c
    <3>1. QED
      BY <1>1 DEF Root2
  <2>5. k = j + j + 1
    BY <1>4
  <2>6. 2^(j + j) = 2^j * 2^j /\ j + j \in Nat
    BY <1>1, PowersMultiply
  <2>7. 2^(j + j + 1) = 2 * 2^(j + j)
    BY <2>6, PowersOfTwo
  <2>8. QED
    BY <1>4, <2>1, <2>2, <2>3, <2>4, <2>5, <2>6, <2>7
<1>5. QED
  BY <1>3, <1>4

\* Multiplication by sqrt(2)^k multiplies squared magnitudes by 2^k.
LEMMA NormOfRoot2Power ==
  ASSUME NEW x \in Ring, NEW k \in Nat
  PROVE  /\ Times(x, Root2Power(k)) \in Ring
         /\ Norm(Times(x, Root2Power(k))) = <<2^k * Norm(x)[1], 2^k * Norm(x)[2]>>
<1>. DEFINE c == 2^(k \div 2)
            r == Root2Power(k)
<1>1. r \in Ring
  BY Root2Powers
<1>2. c \in Nat
  BY PowersOfTwo
<1>3. PICK a, b, d, e \in Int : x = <<a, b, d, e>>
  BY RingParts
<1>4. Times(x, r) = Convolution(x, r) /\ Times(x, r) \in Ring
  BY <1>1, TimesConvolutes
<1>5. CASE k % 2 = 0
  <2>1. r = <<c, 0, 0, 0>> /\ 2^k = c * c
    BY <1>5, Root2Powers DEF Real
  <2>. HIDE DEF c, r
  <2>2. Times(x, r) = <<c * a, c * b, c * d, c * e>>
    BY <1>2, <1>3, <1>4, <2>1 DEF Convolution
  <2>3. Norm(Times(x, r))
          = << (c*a)*(c*a) + (c*b)*(c*b) + (c*d)*(c*d) + (c*e)*(c*e),
               (c*a)*(c*b) + (c*b)*(c*d) + (c*d)*(c*e) - (c*e)*(c*a) >>
    BY <2>2 DEF Norm
  <2>4. Norm(x) = << a*a + b*b + d*d + e*e, a*b + b*d + d*e - e*a >>
    BY <1>3 DEF Norm
  <2>5. (c*a)*(c*a) + (c*b)*(c*b) + (c*d)*(c*d) + (c*e)*(c*e) = (c*c) * (a*a + b*b + d*d + e*e)
    BY <1>2
  <2>6. (c*a)*(c*b) + (c*b)*(c*d) + (c*d)*(c*e) - (c*e)*(c*a) = (c*c) * (a*b + b*d + d*e - e*a)
    BY <1>2
  <2>7. QED
    BY <1>4, <2>1, <2>3, <2>4, <2>5, <2>6 DEF r
<1>6. CASE k % 2 # 0
  <2>1. r = <<0, c, 0, -c>> /\ 2^k = 2 * (c * c)
    BY <1>6, Root2Powers
  <2>. HIDE DEF c, r
  <2>2. Times(x, r) = <<c * (b - e), c * (a + d), c * (b + e), c * (d - a)>>
    BY <1>2, <1>3, <1>4, <2>1 DEF Convolution
  <2>3. Norm(Times(x, r))
          = << (c*(b-e))*(c*(b-e)) + (c*(a+d))*(c*(a+d)) + (c*(b+e))*(c*(b+e)) + (c*(d-a))*(c*(d-a)),
               (c*(b-e))*(c*(a+d)) + (c*(a+d))*(c*(b+e)) + (c*(b+e))*(c*(d-a)) - (c*(d-a))*(c*(b-e)) >>
    BY <2>2 DEF Norm
  <2>4. Norm(x) = << a*a + b*b + d*d + e*e, a*b + b*d + d*e - e*a >>
    BY <1>3 DEF Norm
  <2>5. (c*(b-e))*(c*(b-e)) + (c*(a+d))*(c*(a+d)) + (c*(b+e))*(c*(b+e)) + (c*(d-a))*(c*(d-a))
          = (2 * (c * c)) * (a*a + b*b + d*d + e*e)
    BY <1>2
  <2>6. (c*(b-e))*(c*(a+d)) + (c*(a+d))*(c*(b+e)) + (c*(b+e))*(c*(d-a)) - (c*(d-a))*(c*(b-e))
          = (2 * (c * c)) * (a*b + b*d + d*e - e*a)
    BY <1>2
  <2>7. QED
    BY <1>4, <2>1, <2>3, <2>4, <2>5, <2>6 DEF r
<1>7. QED
  BY <1>5, <1>6

\* Division by sqrt(2)^k, where the ring allows it, divides them.
LEMMA NormOfQuotient ==
  ASSUME NEW x \in Ring, NEW k \in Nat
  PROVE  /\ Divide(x, k) \in Ring
         /\ Divisible(x, k) =>
              Norm(x) = <<2^k * Norm(Divide(x, k))[1], 2^k * Norm(Divide(x, k))[2]>>
<1>. DEFINE p == Times(x, Root2Power(k))
            m == 2^k
            q == Divide(x, k)
<1>1. p \in Ring /\ Norm(p) = <<m * Norm(x)[1], m * Norm(x)[2]>> /\ m \in Nat \ {0}
  BY NormOfRoot2Power, PowersOfTwo
<1>2. PICK a, b, c, d \in Int : p = <<a, b, c, d>>
  BY <1>1, RingParts
<1>3. q = [j \in 1..4 |-> p[j] \div m]
  BY DEF Divide
<1>4. Divisible(x, k) <=> \A j \in 1..4 : p[j] % m = 0
  BY DEF Divisible
<1>. HIDE DEF p, m, q
<1>5. q = <<a \div m, b \div m, c \div m, d \div m>>
  BY <1>1, <1>2, <1>3
<1>6. q \in Ring
  BY <1>1, <1>5 DEF Ring
<1>7. ASSUME Divisible(x, k)
      PROVE  Norm(x) = <<m * Norm(q)[1], m * Norm(q)[2]>>
  <2>. DEFINE e == a \div m
              f == b \div m
              g == c \div m
              h == d \div m
  <2>1. a % m = 0 /\ b % m = 0 /\ c % m = 0 /\ d % m = 0
    BY <1>2, <1>4, <1>7
  <2>2. /\ e \in Int /\ f \in Int /\ g \in Int /\ h \in Int
        /\ a = m * e /\ b = m * f /\ c = m * g /\ d = m * h
    BY <1>1, <2>1
  <2>. HIDE DEF e, f, g, h
  <2>3. Norm(q) = << e*e + f*f + g*g + h*h, e*f + f*g + g*h - h*e >>
    BY <1>5 DEF Norm, e, f, g, h
  <2>4. Norm(p) = << a*a + b*b + c*c + d*d, a*b + b*c + c*d - d*a >>
    BY <1>2 DEF Norm
  <2>5. Norm(x) \in Weight
    BY NormIsSquare
  <2>6. PICK u, v \in Int : Norm(x) = <<u, v>>
    BY <2>5, WeightParts
  <2>7. m * u = m * (m * (e*e + f*f + g*g + h*h)) /\ m * v = m * (m * (e*f + f*g + g*h - h*e))
    <3>1. m * u = a*a + b*b + c*c + d*d /\ m * v = a*b + b*c + c*d - d*a
      BY <1>1, <2>4, <2>6
    <3>2. a*a + b*b + c*c + d*d = m * (m * (e*e + f*f + g*g + h*h))
      BY <1>1, <2>2
    <3>3. a*b + b*c + c*d - d*a = m * (m * (e*f + f*g + g*h - h*e))
      BY <1>1, <2>2
    <3>4. QED
      BY <3>1, <3>2, <3>3
  <2>8. \A y, z \in Int : m * y = m * z => y = z
    BY <1>1
  <2>9. u = m * (e*e + f*f + g*g + h*h) /\ v = m * (e*f + f*g + g*h - h*e)
    BY <1>1, <2>2, <2>7, <2>8
  <2>10. QED
    BY <2>3, <2>6, <2>9
<1>8. QED
  BY <1>6, <1>7 DEF q, m

LEMMA NormOfRoot ==
  ASSUME NEW s, HasRoot(s), s \in Weight
  PROVE  Root(s) \in Ring /\ Norm(Root(s)) = s
<1>1. PICK e, f \in Int : s = <<e, f>>
  BY WeightParts
<1>2. Root(s) \in Roots(s)
  BY DEF HasRoot, Root
<1>3. PICK p \in (-s[1]..s[1]) \X (-s[1]..s[1]) :
        /\ p[1]*p[1] + 2*p[2]*p[2] = s[1] /\ 2*p[1]*p[2] = s[2]
        /\ Root(s) = <<p[1], p[2], 0, -p[2]>>
  BY <1>2 DEF Roots
<1>. DEFINE a == p[1]
            b == p[2]
<1>4. a \in Int /\ b \in Int /\ Root(s) = <<a, b, 0, -b>> /\ a*a + 2*b*b = e /\ 2*a*b = f
  BY <1>1, <1>3
<1>. HIDE DEF a, b
<1>5. Root(s) \in Ring
  BY <1>4 DEF Ring
<1>6. Norm(Root(s)) = <<a*a + b*b + 0*0 + (-b)*(-b), a*b + b*0 + 0*(-b) - (-b)*a>>
  BY <1>4 DEF Norm
<1>7. a*a + b*b + 0*0 + (-b)*(-b) = e /\ a*b + b*0 + 0*(-b) - (-b)*a = f
  BY <1>4
<1>8. QED
  BY <1>1, <1>5, <1>6, <1>7

-----------------------------------------------------------------------------
(* Linear maps and squared magnitudes.                                     *)

LEMMA TimesDistributesLeft ==
  ASSUME NEW x \in Ring, NEW y \in Ring, NEW z \in Ring
  PROVE  Times(Plus(x, y), z) = Plus(Times(x, z), Times(y, z))
<1>1. Plus(x, y) \in Ring
  BY PlusRing
<1>2. Times(Plus(x, y), z) = Times(z, Plus(x, y)) /\ Times(z, x) = Times(x, z) /\ Times(z, y) = Times(y, z)
  BY <1>1, TimesRing
<1>3. QED
  BY <1>2, TimesDistributes

LEMMA TimesSwap ==
  ASSUME NEW x \in Ring, NEW y \in Ring, NEW z \in Ring
  PROVE  Times(x, Times(y, z)) = Times(y, Times(x, z))
<1>1. Times(x, Times(y, z)) = Times(Times(x, y), z) /\ Times(y, Times(x, z)) = Times(Times(y, x), z)
  BY TimesAssociates
<1>2. Times(x, y) = Times(y, x)
  BY TimesRing
<1>3. QED
  BY <1>1, <1>2

LEMMA SumScaled ==
  ASSUME NEW U, IsFiniteSet(U), NEW f, ValuesIn(f, U, Ring), NEW z \in Ring,
         NEW h, \A x \in U : h[x] = Times(z, f[x])
  PROVE  SumOver(Null, h, U) = Times(z, SumOver(Null, f, U))
<1>. DEFINE Good == {s \in SUBSET U : SumOver(Null, h, s) = Times(z, SumOver(Null, f, s))}
<1>1. IsSpace(Ring, Null)
  BY DEF IsSpace
<1>2. ValuesIn(h, U, Ring)
  BY TimesRing DEF ValuesIn
<1>3. {} \in Good
  <2>1. Times(z, Null) = Null
    BY TimesRing
  <2>2. SumOver(Null, f, {}) = Null
    BY <1>1, Sums
  <2>3. SumOver(Null, h, {}) = Null
    BY <1>1, <1>2, Sums
  <2>4. QED
    BY <2>1, <2>2, <2>3
<1>4. ASSUME NEW s \in SUBSET U, NEW x \in s, s \ {x} \in Good
      PROVE  s \in Good
  <2>. DEFINE a == SumOver(Null, f, s \ {x})
  <2>1. SumOver(Null, f, s) = Plus(f[x], a) /\ a \in Ring
    <3>1. s \ {x} \in SUBSET U
      OBVIOUS
    <3>2. QED
      BY <1>1, <3>1, Sums
  <2>2. SumOver(Null, h, s) = Plus(h[x], Times(z, a))
    BY <1>1, <1>2, <1>4, Sums
  <2>3. f[x] \in Ring /\ h[x] = Times(z, f[x])
    BY DEF ValuesIn
  <2>. HIDE DEF a
  <2>4. Times(z, Plus(f[x], a)) = Plus(Times(z, f[x]), Times(z, a))
    BY <2>1, <2>3, TimesDistributes
  <2>5. QED
    BY <2>1, <2>2, <2>3, <2>4
<1>5. GrowsByOne(Good, U)
  BY <1>4 DEF GrowsByOne
<1>6. SUBSET U \subseteq Good
  <2>. HIDE DEF Good
  <2>1. QED
    BY <1>3, <1>5, SubsetInduction
<1>7. QED
  BY <1>6

LEMMA SumConjugated ==
  ASSUME NEW U, IsFiniteSet(U), NEW f, ValuesIn(f, U, Ring),
         NEW h, \A x \in U : h[x] = Conj(f[x])
  PROVE  SumOver(Null, h, U) = Conj(SumOver(Null, f, U))
<1>. DEFINE Good == {s \in SUBSET U : SumOver(Null, h, s) = Conj(SumOver(Null, f, s))}
<1>1. IsSpace(Ring, Null)
  BY DEF IsSpace
<1>2. ValuesIn(h, U, Ring)
  BY ConjRing DEF ValuesIn
<1>3. {} \in Good
  <2>1. SumOver(Null, f, {}) = Null
    BY <1>1, Sums
  <2>2. SumOver(Null, h, {}) = Null
    BY <1>1, <1>2, Sums
  <2>3. QED
    BY <2>1, <2>2, ConjNull
<1>4. ASSUME NEW s \in SUBSET U, NEW x \in s, s \ {x} \in Good
      PROVE  s \in Good
  <2>. DEFINE a == SumOver(Null, f, s \ {x})
  <2>1. SumOver(Null, f, s) = Plus(f[x], a) /\ a \in Ring
    BY <1>1, Sums
  <2>2. SumOver(Null, h, s) = Plus(h[x], Conj(a))
    BY <1>1, <1>2, <1>4, Sums
  <2>3. f[x] \in Ring /\ h[x] = Conj(f[x])
    BY DEF ValuesIn
  <2>. HIDE DEF a
  <2>4. Conj(Plus(f[x], a)) = Plus(Conj(f[x]), Conj(a))
    BY <2>1, <2>3, ConjRing
  <2>5. QED
    BY <2>1, <2>2, <2>3, <2>4
<1>5. GrowsByOne(Good, U)
  BY <1>4 DEF GrowsByOne
<1>6. SUBSET U \subseteq Good
  <2>. HIDE DEF Good
  <2>1. QED
    BY <1>3, <1>5, SubsetInduction
<1>7. QED
  BY <1>6

LEMMA SumEmbedded ==
  ASSUME NEW U, IsFiniteSet(U), NEW f, ValuesIn(f, U, Weight),
         NEW h, \A x \in U : h[x] = Embedded(f[x])
  PROVE  SumOver(Null, h, U) = Embedded(SumOver(NoWeight, f, U))
<1>. DEFINE Good == {s \in SUBSET U : SumOver(Null, h, s) = Embedded(SumOver(NoWeight, f, s))}
<1>1. IsSpace(Ring, Null) /\ IsSpace(Weight, NoWeight)
  BY DEF IsSpace
<1>2. ValuesIn(h, U, Ring)
  BY EmbeddedLaws DEF ValuesIn
<1>3. {} \in Good
  <2>1. SumOver(NoWeight, f, {}) = NoWeight
    BY <1>1, Sums
  <2>2. SumOver(Null, h, {}) = Null
    BY <1>1, <1>2, Sums
  <2>3. Embedded(NoWeight) = Null
    <3>1. NoWeight \in Weight /\ Plus(NoWeight, NoWeight) = NoWeight
      BY <1>1, SpaceZero, SpaceLaws
    <3>2. Embedded(NoWeight) \in Ring /\ Embedded(NoWeight) = Plus(Embedded(NoWeight), Embedded(NoWeight))
      BY <3>1, EmbeddedLaws
    <3>3. PICK a, b, c, d \in Int : Embedded(NoWeight) = <<a, b, c, d>>
      BY <3>2, RingParts
    <3>4. <<a, b, c, d>> = <<a + a, b + b, c + c, d + d>>
      BY <3>2, <3>3 DEF Plus
    <3>5. QED
      BY <3>3, <3>4 DEF Null
  <2>4. QED
    BY <2>1, <2>2, <2>3
<1>4. ASSUME NEW s \in SUBSET U, NEW x \in s, s \ {x} \in Good
      PROVE  s \in Good
  <2>. DEFINE a == SumOver(NoWeight, f, s \ {x})
  <2>1. SumOver(NoWeight, f, s) = Plus(f[x], a) /\ a \in Weight
    BY <1>1, Sums
  <2>2. SumOver(Null, h, s) = Plus(h[x], Embedded(a))
    BY <1>1, <1>2, <1>4, Sums
  <2>3. f[x] \in Weight /\ h[x] = Embedded(f[x])
    BY DEF ValuesIn
  <2>. HIDE DEF a
  <2>4. Embedded(Plus(f[x], a)) = Plus(Embedded(f[x]), Embedded(a))
    BY <2>1, <2>3, EmbeddedLaws
  <2>5. QED
    BY <2>1, <2>2, <2>3, <2>4
<1>5. GrowsByOne(Good, U)
  BY <1>4 DEF GrowsByOne
<1>6. SUBSET U \subseteq Good
  <2>. HIDE DEF Good
  <2>1. QED
    BY <1>3, <1>5, SubsetInduction
<1>7. QED
  BY <1>6

\* A linear map with entries K[<<w, v>>]: what it makes of amplitudes on s, at w.
IsKernel(K, W, D) == \A w \in W : \A v \in D : K[<<w, v>>] \in Ring
Terms(K, a, D, w) == [v \in D |-> Times(a[v], K[<<w, v>>])]
Output(K, a, D, s, w) == SumOver(Null, Terms(K, a, D, w), s)

\* The columns are orthogonal, and each one's squared magnitudes add up to n.
ColumnProducts(K, W, v, u) == [w \in W |-> Times(K[<<w, v>>], Conj(K[<<w, u>>]))]
IsOrthogonal(K, W, D, n) ==
  \A v, u \in D :
    SumOver(Null, ColumnProducts(K, W, v, u), W) = IF v = u THEN Real(n) ELSE Null

LEMMA OutputType ==
  ASSUME NEW W, NEW D, IsFiniteSet(D), NEW K, IsKernel(K, W, D), NEW a, ValuesIn(a, D, Ring),
         NEW s \in SUBSET D, NEW w \in W
  PROVE  Output(K, a, D, {}, w) = Null /\ Output(K, a, D, s, w) \in Ring
<1>1. IsSpace(Ring, Null)
  BY DEF IsSpace
<1>2. ValuesIn(Terms(K, a, D, w), D, Ring)
  BY TimesRing DEF ValuesIn, Terms, IsKernel
<1>3. QED
  BY <1>1, <1>2, Sums DEF Output

LEMMA OutputStep ==
  ASSUME NEW W, NEW D, IsFiniteSet(D), NEW K, IsKernel(K, W, D), NEW a, ValuesIn(a, D, Ring),
         NEW s \in SUBSET D, NEW x \in s, NEW w \in W
  PROVE  Output(K, a, D, s, w) = Plus(Times(a[x], K[<<w, x>>]), Output(K, a, D, s \ {x}, w))
<1>1. IsSpace(Ring, Null)
  BY DEF IsSpace
<1>2. ValuesIn(Terms(K, a, D, w), D, Ring)
  BY TimesRing DEF ValuesIn, Terms, IsKernel
<1>3. Terms(K, a, D, w)[x] = Times(a[x], K[<<w, x>>])
  BY DEF Terms
<1>4. QED
  BY <1>1, <1>2, <1>3, Sums DEF Output

\* What is made of amplitudes elsewhere is orthogonal to a column.
LEMMA Orthogonality ==
  ASSUME NEW W, IsFiniteSet(W), NEW D, IsFiniteSet(D), NEW K, IsKernel(K, W, D),
         NEW n \in Int, IsOrthogonal(K, W, D, n), NEW a, ValuesIn(a, D, Ring),
         NEW u \in D, NEW U \in SUBSET D, u \notin U
  PROVE  SumOver(Null, [w \in W |-> Times(Output(K, a, D, U, w), Conj(K[<<w, u>>]))], W) = Null
<1>. DEFINE Cross(s) == [w \in W |-> Times(Output(K, a, D, s, w), Conj(K[<<w, u>>]))]
            Good == {s \in SUBSET U : SumOver(Null, Cross(s), W) = Null}
<1>1. IsSpace(Ring, Null) /\ Null \in Ring /\ Plus(Null, Null) = Null
  BY SpaceZero, PlusRing DEF IsSpace
<1>2. \A s \in SUBSET U : \A w \in W :
        /\ s \in SUBSET D
        /\ Output(K, a, D, s, w) \in Ring
        /\ Conj(K[<<w, u>>]) \in Ring
  BY OutputType, ConjRing DEF IsKernel
<1>3. \A s \in SUBSET U : ValuesIn(Cross(s), W, Ring)
  BY <1>2, TimesRing DEF ValuesIn
<1>4. {} \in Good
  <2>1. ASSUME NEW w \in W
        PROVE  Cross({})[w] = Null
    <3>1. Output(K, a, D, {}, w) = Null
      BY OutputType
    <3>2. Times(Null, Conj(K[<<w, u>>])) = Null
      BY <1>2, TimesRing
    <3>3. QED
      BY <3>1, <3>2
  <2>2. SumOver(Null, Cross({}), W) = Null
    <3>. HIDE DEF Cross
    <3>1. QED
      BY <1>1, <2>1, SumNull
  <2>3. QED
    BY <2>2
<1>5. ASSUME NEW s \in SUBSET U, NEW x \in s, s \ {x} \in Good
      PROVE  s \in Good
  <2>. DEFINE P == ColumnProducts(K, W, x, u)
              Q == [w \in W |-> Times(a[x], P[w])]
  <2>1. x \in D /\ x # u /\ a[x] \in Ring
    BY DEF ValuesIn
  <2>2. ValuesIn(P, W, Ring)
    BY <2>1, <1>2, TimesRing DEF ValuesIn, ColumnProducts, IsKernel
  <2>3. SumOver(Null, P, W) = Null
    BY <2>1 DEF IsOrthogonal
  <2>4. SumOver(Null, Q, W) = Null
    <3>. HIDE DEF P
    <3>1. \A w \in W : Q[w] = Times(a[x], P[w])
      OBVIOUS
    <3>. HIDE DEF Q
    <3>2. SumOver(Null, Q, W) = Times(a[x], SumOver(Null, P, W))
      BY <2>1, <2>2, <3>1, SumScaled
    <3>3. QED
      BY <2>1, <2>3, <3>2, TimesRing
  <2>5. ValuesIn(Q, W, Ring)
    <3>. HIDE DEF P
    <3>1. QED
      BY <2>1, <2>2, TimesRing DEF ValuesIn
  <2>6. ASSUME NEW w \in W
        PROVE  Cross(s)[w] = Plus(Q[w], Cross(s \ {x})[w])
    <3>. DEFINE k == K[<<w, x>>]
                c == Conj(K[<<w, u>>])
                b == Output(K, a, D, s \ {x}, w)
    <3>1. k \in Ring /\ c \in Ring /\ b \in Ring /\ Times(a[x], k) \in Ring
      BY <1>2, <2>1, TimesRing DEF IsKernel
    <3>2. Output(K, a, D, s, w) = Plus(Times(a[x], k), b)
      <4>1. s \in SUBSET D
        BY <1>2
      <4>2. Output(K, a, D, s, w) = Plus(Times(a[x], K[<<w, x>>]), Output(K, a, D, s \ {x}, w))
        <5>. HIDE DEF k, c, b, P, Q
        <5>1. QED
          BY <4>1, OutputStep
      <4>3. QED
        BY <4>2
    <3>3. Cross(s)[w] = Times(Plus(Times(a[x], k), b), c) /\ Cross(s \ {x})[w] = Times(b, c)
          /\ Q[w] = Times(a[x], Times(k, c))
      BY <3>2 DEF ColumnProducts
    <3>. HIDE DEF k, c, b, Q, Cross
    <3>4. Times(Plus(Times(a[x], k), b), c) = Plus(Times(Times(a[x], k), c), Times(b, c))
      BY <3>1, TimesDistributesLeft
    <3>5. Times(a[x], Times(k, c)) = Times(Times(a[x], k), c)
      BY <2>1, <3>1, TimesAssociates
    <3>6. QED
      BY <3>3, <3>4, <3>5
  <2>7. SumOver(Null, Cross(s), W) = Plus(SumOver(Null, Q, W), SumOver(Null, Cross(s \ {x}), W))
    <3>1. ValuesIn(Cross(s \ {x}), W, Ring)
      BY <1>3
    <3>. HIDE DEF Cross, Q
    <3>2. QED
      BY <1>1, <2>5, <2>6, <3>1, SumAdd
  <2>8. QED
    BY <1>1, <1>5, <2>4, <2>7
<1>6. GrowsByOne(Good, U)
  BY <1>5 DEF GrowsByOne
<1>7. SUBSET U \subseteq Good
  <2>. HIDE DEF Good
  <2>1. IsFiniteSet(U)
    BY FS_Subset
  <2>2. QED
    BY <1>4, <1>6, <2>1, SubsetInduction
<1>8. QED
  BY <1>7

\* The product of what is made of amplitudes with one column tells the amplitude there.
LEMMA ColumnTellsAmplitude ==
  ASSUME NEW W, IsFiniteSet(W), NEW D, IsFiniteSet(D), NEW K, IsKernel(K, W, D),
         NEW n \in Int, IsOrthogonal(K, W, D, n), NEW a, ValuesIn(a, D, Ring), NEW u \in D
  PROVE  SumOver(Null, [w \in W |-> Times(Output(K, a, D, D, w), Conj(K[<<w, u>>]))], W)
           = Times(a[u], Real(n))
<1>. DEFINE Cross(s) == [w \in W |-> Times(Output(K, a, D, s, w), Conj(K[<<w, u>>]))]
            P == ColumnProducts(K, W, u, u)
            Q == [w \in W |-> Times(a[u], P[w])]
<1>1. /\ IsSpace(Ring, Null) /\ a[u] \in Ring /\ Real(n) \in Ring
      /\ D \in SUBSET D /\ D \ {u} \in SUBSET D /\ u \notin D \ {u}
  BY RealTimes, SpaceZero DEF IsSpace, ValuesIn
<1>2. ASSUME NEW s \in SUBSET D, NEW w \in W
      PROVE  Output(K, a, D, s, w) \in Ring /\ K[<<w, u>>] \in Ring /\ Conj(K[<<w, u>>]) \in Ring
  <2>1. Output(K, a, D, s, w) \in Ring
    BY OutputType
  <2>2. QED
    BY <2>1, ConjRing DEF IsKernel
<1>3. \A w \in W : P[w] = Times(K[<<w, u>>], Conj(K[<<w, u>>])) /\ P[w] \in Ring
  BY <1>1, <1>2, TimesRing DEF ColumnProducts
<1>4. SumOver(Null, P, W) = Real(n)
  BY DEF IsOrthogonal
<1>. HIDE DEF P
<1>5. ValuesIn(P, W, Ring) /\ ValuesIn(Q, W, Ring) /\ \A w \in W : Q[w] = Times(a[u], P[w])
  BY <1>1, <1>3, TimesRing DEF ValuesIn
<1>. HIDE DEF Q
<1>6. SumOver(Null, Q, W) = Times(a[u], Real(n))
  BY <1>1, <1>4, <1>5, SumScaled
<1>7. SumOver(Null, Cross(D \ {u}), W) = Null
  BY <1>1, Orthogonality
<1>8. ASSUME NEW w \in W
      PROVE  /\ Cross(D)[w] = Plus(Q[w], Cross(D \ {u})[w])
             /\ Cross(D \ {u})[w] \in Ring
  <2>. DEFINE k == K[<<w, u>>]
              c == Conj(K[<<w, u>>])
              b == Output(K, a, D, D \ {u}, w)
  <2>1. k \in Ring /\ c \in Ring /\ b \in Ring /\ Times(a[u], k) \in Ring
    BY <1>1, <1>2, TimesRing
  <2>2. Output(K, a, D, D, w) = Plus(Times(a[u], k), b)
    BY <1>1, OutputStep
  <2>3. Cross(D)[w] = Times(Plus(Times(a[u], k), b), c) /\ Cross(D \ {u})[w] = Times(b, c)
    BY <2>2
  <2>4. Q[w] = Times(a[u], Times(k, c))
    BY <1>3, <1>5
  <2>. HIDE DEF k, c, b, Cross
  <2>5. Times(Plus(Times(a[u], k), b), c) = Plus(Times(Times(a[u], k), c), Times(b, c))
    BY <2>1, TimesDistributesLeft
  <2>6. Times(a[u], Times(k, c)) = Times(Times(a[u], k), c)
    BY <1>1, <2>1, TimesAssociates
  <2>7. Times(b, c) \in Ring
    BY <2>1, TimesRing
  <2>8. QED
    BY <2>3, <2>4, <2>5, <2>6, <2>7
<1>9. ValuesIn(Cross(D \ {u}), W, Ring)
  <2>. HIDE DEF Cross
  <2>1. QED
    BY <1>8 DEF ValuesIn
<1>10. SumOver(Null, Cross(D), W) = Plus(SumOver(Null, Q, W), SumOver(Null, Cross(D \ {u}), W))
  <2>. HIDE DEF Cross
  <2>1. QED
    BY <1>1, <1>5, <1>8, <1>9, SumAdd
<1>11. Times(a[u], Real(n)) \in Ring
  BY <1>1, TimesRing
<1>12. Plus(Times(a[u], Real(n)), Null) = Times(a[u], Real(n))
  BY <1>11, PlusRing
<1>13. QED
  BY <1>6, <1>7, <1>10, <1>12

\* A map with orthogonal columns multiplies products of vectors by n.
LEMMA ProductsScaled ==
  ASSUME NEW W, IsFiniteSet(W), NEW D, IsFiniteSet(D), NEW K, IsKernel(K, W, D),
         NEW n \in Int, IsOrthogonal(K, W, D, n), NEW a, ValuesIn(a, D, Ring),
         NEW b, ValuesIn(b, D, Ring)
  PROVE  SumOver(Null, [w \in W |-> Times(Output(K, a, D, D, w), Conj(Output(K, b, D, D, w)))], W)
           = Times(Real(n), SumOver(Null, [v \in D |-> Times(a[v], Conj(b[v]))], D))
<1>. DEFINE image(w) == Conj(Output(K, b, D, D, w))
            After(s) == [w \in W |-> Times(Output(K, a, D, s, w), image(w))]
            before   == [v \in D |-> Times(a[v], Conj(b[v]))]
            Good     == {s \in SUBSET D : SumOver(Null, After(s), W)
                                            = Times(Real(n), SumOver(Null, before, s))}
<1>1. /\ IsSpace(Ring, Null) /\ Null \in Ring /\ D \in SUBSET D
      /\ Real(n) \in Ring /\ Times(Real(n), Null) = Null
  BY SpaceZero, RealTimes, TimesRing DEF IsSpace
<1>2. ASSUME NEW w \in W
      PROVE  Output(K, b, D, D, w) \in Ring /\ image(w) \in Ring
  <2>1. Output(K, b, D, D, w) \in Ring
    BY <1>1, OutputType
  <2>2. QED
    BY <2>1, ConjRing
<1>3. ASSUME NEW s \in SUBSET D, NEW w \in W
      PROVE  Output(K, a, D, s, w) \in Ring /\ After(s)[w] \in Ring
  <2>1. Output(K, a, D, s, w) \in Ring
    BY OutputType
  <2>2. QED
    BY <1>2, <2>1, TimesRing
<1>4. ASSUME NEW v \in D
      PROVE  Conj(b[v]) \in Ring /\ a[v] \in Ring /\ before[v] \in Ring
             /\ before[v] = Times(a[v], Conj(b[v]))
  <2>1. a[v] \in Ring /\ b[v] \in Ring
    BY DEF ValuesIn
  <2>2. Conj(b[v]) \in Ring
    BY <2>1, ConjRing
  <2>3. QED
    BY <2>1, <2>2, TimesRing
<1>5. ValuesIn(before, D, Ring)
  BY <1>4 DEF ValuesIn
<1>6. {} \in Good
  <2>1. ASSUME NEW w \in W
        PROVE  After({})[w] = Null
    <3>1. Output(K, a, D, {}, w) = Null
      BY OutputType
    <3>2. Times(Null, image(w)) = Null
      BY <1>2, TimesRing
    <3>3. QED
      BY <3>1, <3>2
  <2>. HIDE DEF After, before
  <2>2. SumOver(Null, After({}), W) = Null
    BY <1>1, <2>1, SumNull
  <2>3. SumOver(Null, before, {}) = Null
    BY <1>1, <1>5, Sums
  <2>4. QED
    BY <1>1, <2>2, <2>3
<1>7. ASSUME NEW s \in SUBSET D, NEW x \in s, s \ {x} \in Good
      PROVE  s \in Good
  <2>. DEFINE P == [w \in W |-> Times(Output(K, b, D, D, w), Conj(K[<<w, x>>]))]
              C == [w \in W |-> Conj(P[w])]
              Q == [w \in W |-> Times(a[x], C[w])]
  <2>1. x \in D /\ a[x] \in Ring /\ b[x] \in Ring /\ Conj(b[x]) \in Ring /\ s \ {x} \in SUBSET D
    BY <1>4 DEF ValuesIn
  <2>2. ASSUME NEW w \in W
        PROVE  /\ K[<<w, x>>] \in Ring /\ P[w] \in Ring /\ C[w] \in Ring /\ Q[w] \in Ring
               /\ C[w] = Times(K[<<w, x>>], image(w))
    <3>1. K[<<w, x>>] \in Ring /\ Conj(K[<<w, x>>]) \in Ring
      BY <2>1, ConjRing DEF IsKernel
    <3>2. P[w] = Times(Output(K, b, D, D, w), Conj(K[<<w, x>>])) /\ P[w] \in Ring
      BY <1>2, <3>1, TimesRing
    <3>3. Conj(P[w]) = Times(image(w), K[<<w, x>>])
      BY <1>2, <3>1, <3>2, ConjRing
    <3>4. Conj(P[w]) = Times(K[<<w, x>>], image(w)) /\ Conj(P[w]) \in Ring
      BY <1>2, <3>1, <3>3, TimesRing
    <3>5. C[w] = Conj(P[w]) /\ Q[w] = Times(a[x], C[w])
      OBVIOUS
    <3>. HIDE DEF P, C, Q
    <3>6. QED
      BY <2>1, <3>1, <3>2, <3>4, <3>5, TimesRing
  <2>3. SumOver(Null, P, W) = Times(b[x], Real(n))
    BY <2>1, ColumnTellsAmplitude
  <2>4. /\ ValuesIn(P, W, Ring) /\ ValuesIn(C, W, Ring) /\ ValuesIn(Q, W, Ring)
        /\ \A w \in W : C[w] = Conj(P[w])
        /\ \A w \in W : Q[w] = Times(a[x], C[w])
    <3>1. (\A w \in W : C[w] = Conj(P[w])) /\ (\A w \in W : Q[w] = Times(a[x], C[w]))
      OBVIOUS
    <3>. HIDE DEF P, C, Q
    <3>2. QED
      BY <2>2, <3>1 DEF ValuesIn
  <2>5. ASSUME NEW w \in W
        PROVE  After(s)[w] = Plus(Q[w], After(s \ {x})[w])
    <3>. DEFINE k == K[<<w, x>>]
                c == image(w)
                o == Output(K, a, D, s \ {x}, w)
    <3>1. k \in Ring /\ c \in Ring /\ o \in Ring /\ Times(a[x], k) \in Ring
      BY <1>2, <1>3, <2>1, <2>2, TimesRing
    <3>2. Output(K, a, D, s, w) = Plus(Times(a[x], k), o)
      BY OutputStep
    <3>3. After(s)[w] = Times(Plus(Times(a[x], k), o), c) /\ After(s \ {x})[w] = Times(o, c)
      BY <3>2
    <3>. HIDE DEF P, C, Q
    <3>4. Q[w] = Times(a[x], Times(k, c))
      BY <2>2, <2>4
    <3>. HIDE DEF k, c, o, After, image
    <3>5. Times(Plus(Times(a[x], k), o), c) = Plus(Times(Times(a[x], k), c), Times(o, c))
      BY <3>1, TimesDistributesLeft
    <3>6. Times(a[x], Times(k, c)) = Times(Times(a[x], k), c)
      BY <2>1, <3>1, TimesAssociates
    <3>7. QED
      BY <3>3, <3>4, <3>5, <3>6
  <2>. HIDE DEF P, C, Q
  <2>6. SumOver(Null, Q, W) = Times(a[x], Conj(Times(b[x], Real(n))))
    <3>1. SumOver(Null, C, W) = Conj(SumOver(Null, P, W))
      BY <2>4, SumConjugated
    <3>2. SumOver(Null, Q, W) = Times(a[x], SumOver(Null, C, W))
      BY <2>1, <2>4, SumScaled
    <3>3. QED
      BY <2>3, <3>1, <3>2
  <2>7. Times(a[x], Conj(Times(b[x], Real(n)))) = Times(Real(n), before[x])
    <3>1. Conj(Real(n)) = Real(n)
      BY ConjReal
    <3>2. Conj(Times(b[x], Real(n))) = Times(Conj(b[x]), Real(n))
      BY <1>1, <2>1, <3>1, ConjRing
    <3>3. Times(a[x], Times(Conj(b[x]), Real(n))) = Times(Times(a[x], Conj(b[x])), Real(n))
      BY <1>1, <2>1, TimesAssociates
    <3>4. before[x] = Times(a[x], Conj(b[x])) /\ before[x] \in Ring
      BY <1>4, <2>1
    <3>. HIDE DEF before
    <3>5. Times(before[x], Real(n)) = Times(Real(n), before[x])
      BY <1>1, <3>4, TimesRing
    <3>6. QED
      BY <3>2, <3>3, <3>4, <3>5
  <2>8. SumOver(Null, After(s), W) = Plus(SumOver(Null, Q, W), SumOver(Null, After(s \ {x}), W))
    <3>. DEFINE more == After(s)
                less == After(s \ {x})
    <3>1. ValuesIn(less, W, Ring) /\ \A w \in W : more[w] = Plus(Q[w], less[w])
      <4>. HIDE DEF After
      <4>1. QED
        BY <1>3, <2>1, <2>5 DEF ValuesIn
    <3>. HIDE DEF more, less
    <3>2. SumOver(Null, more, W) = Plus(SumOver(Null, Q, W), SumOver(Null, less, W))
      BY <1>1, <2>4, <3>1, SumAdd
    <3>3. QED
      BY <3>2 DEF more, less
  <2>9. /\ SumOver(Null, before, s) = Plus(before[x], SumOver(Null, before, s \ {x}))
        /\ SumOver(Null, before, s \ {x}) \in Ring /\ before[x] \in Ring
    <3>1. before[x] \in Ring
      BY <1>4, <2>1
    <3>. HIDE DEF before
    <3>2. QED
      BY <1>1, <1>5, <2>1, <3>1, Sums
  <2>10. SumOver(Null, After(s \ {x}), W) = Times(Real(n), SumOver(Null, before, s \ {x}))
    BY <1>7
  <2>. HIDE DEF After, before
  <2>11. Times(Real(n), Plus(before[x], SumOver(Null, before, s \ {x})))
           = Plus(Times(Real(n), before[x]), Times(Real(n), SumOver(Null, before, s \ {x})))
    BY <1>1, <2>9, TimesDistributes
  <2>12. QED
    BY <2>6, <2>7, <2>8, <2>9, <2>10, <2>11
<1>8. GrowsByOne(Good, D)
  BY <1>7 DEF GrowsByOne
<1>9. D \in Good
  <2>. HIDE DEF Good
  <2>1. SUBSET D \subseteq Good
    BY <1>6, <1>8, SubsetInduction
  <2>2. QED
    BY <1>1, <2>1
<1>10. QED
  BY <1>9

\* It multiplies the sum of the squared magnitudes by n.
LEMMA Isometry ==
  ASSUME NEW W, IsFiniteSet(W), NEW D, IsFiniteSet(D), NEW K, IsKernel(K, W, D),
         NEW n \in Int, IsOrthogonal(K, W, D, n), NEW a, ValuesIn(a, D, Ring)
  PROVE  SumOver(Null, [w \in W |-> Times(Output(K, a, D, D, w), Conj(Output(K, a, D, D, w)))], W)
           = Times(Real(n), SumOver(Null, [v \in D |-> Times(a[v], Conj(a[v]))], D))
  BY ProductsScaled

\* A squared magnitude multiplied by an integer.
Multiple(n, s) == <<n * s[1], n * s[2]>>

LEMMA MultipleLaws ==
  ASSUME NEW n \in Int, NEW s \in Weight, NEW t \in Weight
  PROVE  /\ Multiple(n, s) \in Weight
         /\ Multiple(n, Plus(s, t)) = Plus(Multiple(n, s), Multiple(n, t))
         /\ Multiple(n, NoWeight) = NoWeight
         /\ n # 0 /\ Multiple(n, s) = Multiple(n, t) => s = t
         /\ Times(Real(n), Embedded(s)) = Embedded(Multiple(n, s))
<1>1. PICK a, b \in Int : s = <<a, b>>
  BY WeightParts
<1>2. PICK c, d \in Int : t = <<c, d>>
  BY WeightParts
<1>3. Multiple(n, s) = <<n * a, n * b>> /\ Multiple(n, t) = <<n * c, n * d>>
  BY <1>1, <1>2 DEF Multiple
<1>4. Multiple(n, s) \in Weight
  BY <1>3 DEF Weight
<1>5. Multiple(n, Plus(s, t)) = Plus(Multiple(n, s), Multiple(n, t))
  <2>1. Plus(s, t) = <<a + c, b + d>>
    BY <1>1, <1>2 DEF Plus
  <2>2. Multiple(n, <<a + c, b + d>>) = <<n * (a + c), n * (b + d)>>
    BY DEF Multiple
  <2>3. Plus(<<n * a, n * b>>, <<n * c, n * d>>) = <<n * a + n * c, n * b + n * d>>
    BY DEF Plus
  <2>4. QED
    BY <1>3, <2>1, <2>2, <2>3
<1>6. Multiple(n, NoWeight) = NoWeight
  <2>1. n * 0 = 0
    OBVIOUS
  <2>2. QED
    BY <2>1 DEF Multiple, NoWeight
<1>7. ASSUME n # 0, Multiple(n, s) = Multiple(n, t)
      PROVE  s = t
  <2>1. n * a = n * c /\ n * b = n * d
    BY <1>3, <1>7
  <2>2. \A y, z \in Int : n * y = n * z => y = z
    BY <1>7
  <2>3. QED
    BY <1>1, <1>2, <2>1, <2>2
<1>8. Times(Real(n), Embedded(s)) = Embedded(Multiple(n, s))
  <2>1. Embedded(s) = <<a, b, 0, -b>> /\ Embedded(s) \in Ring
    BY <1>1, EmbeddedLaws DEF Embedded
  <2>2. Real(n) \in Ring /\ Times(Embedded(s), Real(n)) = <<n * a, n * b, n * 0, n * (-b)>>
    BY <2>1, RealTimes
  <2>3. Times(Real(n), Embedded(s)) = Times(Embedded(s), Real(n))
    BY <2>1, <2>2, TimesRing
  <2>4. Embedded(Multiple(n, s)) = <<n * a, n * b, 0, -(n * b)>>
    BY <1>3 DEF Embedded
  <2>5. n * 0 = 0 /\ n * (-b) = -(n * b)
    OBVIOUS
  <2>6. QED
    BY <2>2, <2>3, <2>4, <2>5
<1>9. QED
  BY <1>4, <1>5, <1>6, <1>7, <1>8

LEMMA SumMultiplied ==
  ASSUME NEW U, IsFiniteSet(U), NEW f, ValuesIn(f, U, Weight), NEW n \in Int,
         NEW h, \A x \in U : h[x] = Multiple(n, f[x])
  PROVE  SumOver(NoWeight, h, U) = Multiple(n, SumOver(NoWeight, f, U))
<1>. DEFINE Good == {s \in SUBSET U : SumOver(NoWeight, h, s) = Multiple(n, SumOver(NoWeight, f, s))}
<1>1. IsSpace(Weight, NoWeight) /\ NoWeight \in Weight
  BY SpaceZero DEF IsSpace
<1>2. ValuesIn(h, U, Weight)
  BY MultipleLaws DEF ValuesIn
<1>3. {} \in Good
  <2>1. Multiple(n, NoWeight) = NoWeight
    BY <1>1, MultipleLaws
  <2>2. SumOver(NoWeight, f, {}) = NoWeight
    BY <1>1, Sums
  <2>3. SumOver(NoWeight, h, {}) = NoWeight
    BY <1>1, <1>2, Sums
  <2>4. QED
    BY <2>1, <2>2, <2>3
<1>4. ASSUME NEW s \in SUBSET U, NEW x \in s, s \ {x} \in Good
      PROVE  s \in Good
  <2>. DEFINE a == SumOver(NoWeight, f, s \ {x})
  <2>1. SumOver(NoWeight, f, s) = Plus(f[x], a) /\ a \in Weight
    <3>1. s \ {x} \in SUBSET U
      OBVIOUS
    <3>2. QED
      BY <1>1, <3>1, Sums
  <2>2. SumOver(NoWeight, h, s) = Plus(h[x], Multiple(n, a))
    BY <1>1, <1>2, <1>4, Sums
  <2>3. f[x] \in Weight /\ h[x] = Multiple(n, f[x])
    BY DEF ValuesIn
  <2>. HIDE DEF a
  <2>4. Multiple(n, Plus(f[x], a)) = Plus(Multiple(n, f[x]), Multiple(n, a))
    BY <2>1, <2>3, MultipleLaws
  <2>5. QED
    BY <2>1, <2>2, <2>3, <2>4
<1>5. GrowsByOne(Good, U)
  BY <1>4 DEF GrowsByOne
<1>6. SUBSET U \subseteq Good
  <2>. HIDE DEF Good
  <2>1. QED
    BY <1>3, <1>5, SubsetInduction
<1>7. QED
  BY <1>6

\* A linear map with orthogonal columns, in squared magnitudes.
LEMMA WeightsMultiplied ==
  ASSUME NEW W, IsFiniteSet(W), NEW D, IsFiniteSet(D), NEW K, IsKernel(K, W, D),
         NEW n \in Int, IsOrthogonal(K, W, D, n), NEW a, ValuesIn(a, D, Ring)
  PROVE  SumOver(NoWeight, [w \in W |-> Norm(Output(K, a, D, D, w))], W)
           = Multiple(n, SumOver(NoWeight, [v \in D |-> Norm(a[v])], D))
<1>. DEFINE f  == [w \in W |-> Norm(Output(K, a, D, D, w))]
            g  == [v \in D |-> Norm(a[v])]
            ff == [w \in W |-> Times(Output(K, a, D, D, w), Conj(Output(K, a, D, D, w)))]
            gg == [v \in D |-> Times(a[v], Conj(a[v]))]
<1>1. IsSpace(Weight, NoWeight)
  BY DEF IsSpace
<1>2. SumOver(Null, ff, W) = Times(Real(n), SumOver(Null, gg, D))
  BY Isometry
<1>3. ValuesIn(f, W, Weight) /\ \A w \in W : ff[w] = Embedded(f[w])
  <2>1. \A w \in W : Output(K, a, D, D, w) \in Ring
    BY OutputType
  <2>2. QED
    BY <2>1, NormIsSquare DEF ValuesIn
<1>4. ValuesIn(g, D, Weight) /\ \A v \in D : gg[v] = Embedded(g[v])
  BY NormIsSquare DEF ValuesIn
<1>. HIDE DEF f, g, ff, gg
<1>5. SumOver(Null, ff, W) = Embedded(SumOver(NoWeight, f, W)) /\ SumOver(NoWeight, f, W) \in Weight
  BY <1>1, <1>3, SumEmbedded, Sums
<1>6. SumOver(Null, gg, D) = Embedded(SumOver(NoWeight, g, D)) /\ SumOver(NoWeight, g, D) \in Weight
  BY <1>1, <1>4, SumEmbedded, Sums
<1>7. Embedded(SumOver(NoWeight, f, W)) = Embedded(Multiple(n, SumOver(NoWeight, g, D)))
  BY <1>2, <1>5, <1>6, MultipleLaws
<1>8. Multiple(n, SumOver(NoWeight, g, D)) \in Weight
  BY <1>6, MultipleLaws
<1>9. SumOver(NoWeight, f, W) = Multiple(n, SumOver(NoWeight, g, D))
  BY <1>5, <1>7, <1>8, EmbeddedLaws
<1>10. QED
  BY <1>9 DEF f, g

LEMMA NormNull == Norm(Null) = NoWeight
<1>1. 0 * 0 + 0 * 0 + 0 * 0 + 0 * 0 = 0 /\ 0 * 0 + 0 * 0 + 0 * 0 - 0 * 0 = 0
  OBVIOUS
<1>2. QED
  BY <1>1 DEF Norm, Null, NoWeight

LEMMA SumOfIsSum ==
  ASSUME NEW zero, NEW f
  PROVE  SumOf(zero, f) = SumOver(zero, f, DOMAIN f)
  BY DEF SumOf, FoldFunction, SumOver

-----------------------------------------------------------------------------
(* Orthogonal rows and orthogonal columns.                                 *)

IsTransposed(h, f, U, W) == \A x \in U : \A y \in W : h[y][x] = f[x][y]
IsRowSums(row, zero, f, U, W) == \A x \in U : row[x] = SumOver(zero, f[x], W)

\* The sums of a table by its rows, and by its columns.
LEMMA SumSwapped ==
  ASSUME NEW U, IsFiniteSet(U), NEW W, IsFiniteSet(W), NEW V, NEW zero, IsSpace(V, zero),
         NEW f, \A x \in U : ValuesIn(f[x], W, V),
         NEW h, IsTransposed(h, f, U, W),
         NEW row, IsRowSums(row, zero, f, U, W), NEW col, IsRowSums(col, zero, h, W, U)
  PROVE  SumOver(zero, row, U) = SumOver(zero, col, W)
<1>. DEFINE column(y) == h[y]
            columns(s) == [y \in W |-> SumOver(zero, column(y), s)]
            Good      == {s \in SUBSET U :
                            SumOver(zero, row, s) = SumOver(zero, columns(s), W)}
<1>1. W \in SUBSET W
  OBVIOUS
<1>2. ValuesIn(row, U, V)
  <2>1. ASSUME NEW x \in U
        PROVE  SumOver(zero, f[x], W) \in V
    BY <1>1, Sums
  <2>2. QED
    BY <2>1 DEF ValuesIn, IsRowSums
<1>3. ASSUME NEW y \in W
      PROVE  ValuesIn(column(y), U, V)
  BY DEF ValuesIn, IsTransposed
<1>. HIDE DEF column
<1>4. {} \in Good
  <2>1. \A y \in W : columns({})[y] = zero
    BY <1>3, Sums
  <2>2. SumOver(zero, columns({}), W) = zero
    BY <2>1, SumNull
  <2>3. SumOver(zero, row, {}) = zero
    BY <1>2, Sums
  <2>4. QED
    BY <2>2, <2>3
<1>5. ASSUME NEW s \in SUBSET U, NEW x \in s, s \ {x} \in Good
      PROVE  s \in Good
  <2>. DEFINE rest == s \ {x}
  <2>1. rest \in SUBSET U /\ x \in U
    OBVIOUS
  <2>2. ASSUME NEW y \in W
        PROVE  /\ columns(s)[y] = Plus(f[x][y], columns(rest)[y])
               /\ columns(rest)[y] \in V
    <3>1. column(y)[x] = f[x][y]
      BY <2>1 DEF column, IsTransposed
    <3>2. SumOver(zero, column(y), s) = Plus(column(y)[x], SumOver(zero, column(y), rest))
      BY <1>3, Sums
    <3>3. SumOver(zero, column(y), rest) \in V
      BY <1>3, <2>1, Sums
    <3>4. QED
      BY <3>1, <3>2, <3>3
  <2>3. row[x] = SumOver(zero, f[x], W)
    BY <2>1 DEF IsRowSums
  <2>4. SumOver(zero, row, s) = Plus(row[x], SumOver(zero, row, rest))
    BY <1>2, Sums
  <2>5. SumOver(zero, row, rest) = SumOver(zero, columns(rest), W)
    BY <1>5
  <2>6. ValuesIn(columns(rest), W, V) /\ \A y \in W : columns(s)[y] = Plus(f[x][y], columns(rest)[y])
    BY <2>2 DEF ValuesIn
  <2>7. ValuesIn(f[x], W, V)
    BY <2>1
  <2>. DEFINE whole == columns(s)
              g == columns(rest)
              r == f[x]
  <2>. HIDE DEF columns, rest
  <2>8. SumOver(zero, whole, W) = Plus(SumOver(zero, r, W), SumOver(zero, g, W))
    <3>1. ValuesIn(r, W, V) /\ ValuesIn(g, W, V) /\ \A y \in W : whole[y] = Plus(r[y], g[y])
      BY <2>6, <2>7
    <3>. HIDE DEF whole, g, r
    <3>2. QED
      BY <3>1, SumAdd
  <2>9. QED
    BY <2>3, <2>4, <2>5, <2>8
<1>6. GrowsByOne(Good, U)
  BY <1>5 DEF GrowsByOne
<1>. HIDE DEF Good
<1>7. U \in Good
  BY <1>4, <1>6, SubsetInduction
<1>8. SumOver(zero, row, U) = SumOver(zero, columns(U), W)
  BY <1>7 DEF Good
<1>9. SumOver(zero, columns(U), W) = SumOver(zero, col, W)
  <2>. DEFINE c == columns(U)
  <2>1. U \in SUBSET U
    OBVIOUS
  <2>2. ASSUME NEW y \in W
        PROVE  c[y] \in V /\ col[y] = c[y]
    BY <1>3, <2>1, Sums DEF IsRowSums, column
  <2>. HIDE DEF c
  <2>3. ValuesIn(c, W, V)
    BY <2>2 DEF ValuesIn
  <2>4. QED
    BY <2>2, <2>3, SumEqual DEF c
<1>10. QED
  BY <1>8, <1>9

\* Where no value is negative, a sum of zero has only values of zero.
LEMMA NullTerms ==
  ASSUME NEW U, IsFiniteSet(U), NEW f, ValuesIn(f, U, Weight), \A x \in U : f[x][1] >= 0
  PROVE  /\ SumOver(NoWeight, f, U)[1] >= 0
         /\ SumOver(NoWeight, f, U)[1] = 0 => \A x \in U : f[x][1] = 0
<1>. DEFINE sum(s) == SumOver(NoWeight, f, s)
            Good   == {s \in SUBSET U : sum(s)[1] >= 0}
<1>1. IsSpace(Weight, NoWeight)
  BY DEF IsSpace
<1>2. /\ sum({}) = NoWeight
      /\ \A s \in SUBSET U : sum(s) \in Weight
      /\ \A s \in SUBSET U : \A x \in s : sum(s) = Plus(f[x], sum(s \ {x}))
  BY <1>1, Sums
<1>. HIDE DEF sum
<1>3. {} \in Good
  BY <1>2 DEF NoWeight
<1>4. ASSUME NEW s \in SUBSET U, NEW x \in s
      PROVE  sum(s)[1] = f[x][1] + sum(s \ {x})[1] /\ f[x][1] \in Int /\ sum(s \ {x})[1] \in Int
  <2>1. s \ {x} \in SUBSET U /\ f[x] \in Weight
    BY DEF ValuesIn
  <2>2. PICK a, b \in Int : f[x] = <<a, b>>
    BY <2>1, WeightParts
  <2>3. PICK c, d \in Int : sum(s \ {x}) = <<c, d>>
    BY <1>2, <2>1, WeightParts
  <2>4. sum(s) = <<a + c, b + d>>
    BY <1>2, <2>2, <2>3 DEF Plus
  <2>5. QED
    BY <2>2, <2>3, <2>4
<1>5. GrowsByOne(Good, U)
  <2>1. ASSUME NEW s \in SUBSET U, NEW x \in s, s \ {x} \in Good
        PROVE  s \in Good
    <3>1. f[x][1] >= 0 /\ sum(s \ {x})[1] >= 0
      BY <2>1
    <3>2. QED
      BY <1>4, <3>1
  <2>2. QED
    BY <2>1 DEF GrowsByOne
<1>. HIDE DEF Good
<1>6. SUBSET U \subseteq Good
  BY <1>3, <1>5, SubsetInduction
<1>7. \A s \in SUBSET U : sum(s)[1] >= 0
  BY <1>6 DEF Good
<1>8. ASSUME sum(U)[1] = 0, NEW x \in U
      PROVE  f[x][1] = 0
  <2>1. U \in SUBSET U /\ U \ {x} \in SUBSET U
    OBVIOUS
  <2>2. sum(U \ {x})[1] >= 0 /\ f[x][1] >= 0
    BY <1>7, <2>1
  <2>3. sum(U)[1] = f[x][1] + sum(U \ {x})[1] /\ f[x][1] \in Int /\ sum(U \ {x})[1] \in Int
    BY <1>4, <2>1
  <2>4. QED
    BY <1>8, <2>2, <2>3
<1>9. QED
  BY <1>7, <1>8 DEF sum

\* A sum, and what one of its elements adds.
LEMMA SumStep ==
  ASSUME NEW U, IsFiniteSet(U), NEW V, NEW zero, IsSpace(V, zero), NEW f, ValuesIn(f, U, V),
         NEW x \in U
  PROVE  /\ SumOver(zero, f, U) = Plus(f[x], SumOver(zero, f, U \ {x}))
         /\ SumOver(zero, f, U) \in V
         /\ SumOver(zero, f, U \ {x}) \in V
<1>1. U \in SUBSET U /\ U \ {x} \in SUBSET U
  OBVIOUS
<1>2. QED
  BY <1>1, Sums

LEMMA SquaresOfIntegers ==
  ASSUME NEW a \in Int
  PROVE  a * a >= 0 /\ a * a \in Int /\ (a * a = 0 => a = 0)
OBVIOUS

LEMMA NormIsPositive ==
  ASSUME NEW x \in Ring
  PROVE  /\ Norm(x)[1] >= 0
         /\ Norm(x)[1] = 0 => x = Null
         /\ Norm(Conj(x)) = Norm(x)
<1>1. PICK a, b, c, d \in Int : x = <<a, b, c, d>>
  BY RingParts
<1>2. Norm(x)[1] = a*a + b*b + c*c + d*d
  BY <1>1 DEF Norm
<1>3. /\ a*a >= 0 /\ a*a \in Int /\ (a*a = 0 => a = 0)
      /\ b*b >= 0 /\ b*b \in Int /\ (b*b = 0 => b = 0)
      /\ c*c >= 0 /\ c*c \in Int /\ (c*c = 0 => c = 0)
      /\ d*d >= 0 /\ d*d \in Int /\ (d*d = 0 => d = 0)
  BY SquaresOfIntegers
<1>4. Norm(x)[1] >= 0
  BY <1>2, <1>3
<1>5. Norm(x)[1] = 0 => x = Null
  <2>1. Norm(x)[1] = 0 => a*a = 0 /\ b*b = 0 /\ c*c = 0 /\ d*d = 0
    BY <1>2, <1>3
  <2>2. Norm(x)[1] = 0 => a = 0 /\ b = 0 /\ c = 0 /\ d = 0
    BY <1>3, <2>1
  <2>3. QED
    BY <1>1, <2>2 DEF Null
<1>6. Norm(Conj(x)) = Norm(x)
  <2>1. Conj(x) = <<a, -d, -c, -b>>
    BY <1>1 DEF Conj
  <2>2. /\ a*a + (-d)*(-d) + (-c)*(-c) + (-b)*(-b) = a*a + b*b + c*c + d*d
        /\ a*(-d) + (-d)*(-c) + (-c)*(-b) - (-b)*a = a*b + b*c + c*d - d*a
    OBVIOUS
  <2>3. QED
    BY <1>1, <2>1, <2>2 DEF Norm
<1>7. QED
  BY <1>4, <1>5, <1>6

\* The square of the distance of x from an integer.
Distance(x, n) == Norm(<<x[1] - n, x[2], x[3], x[4]>>)

LEMMA DistanceFromInteger ==
  ASSUME NEW x \in Ring, NEW n \in Int
  PROVE  /\ Distance(x, n) \in Weight
         /\ Distance(x, n)[1] = Norm(x)[1] - 2 * n * x[1] + n * n
         /\ Distance(x, n)[1] >= 0
         /\ Distance(x, n)[1] = 0 => x = Real(n)
         /\ x[1] \in Int
<1>1. PICK a, b, c, d \in Int : x = <<a, b, c, d>>
  BY RingParts
<1>. DEFINE y == <<a - n, b, c, d>>
<1>2. Distance(x, n) = Norm(y) /\ y \in Ring
  BY <1>1 DEF Distance, Ring
<1>3. Norm(x)[1] = a*a + b*b + c*c + d*d
  BY <1>1 DEF Norm
<1>4. Norm(y)[1] = (a - n)*(a - n) + b*b + c*c + d*d
  BY DEF Norm
<1>5. (a - n)*(a - n) = a*a - 2*n*a + n*n
  OBVIOUS
<1>6. a*a \in Int /\ b*b \in Int /\ c*c \in Int /\ d*d \in Int /\ 2*n*a \in Int /\ n*n \in Int
  OBVIOUS
<1>7. Norm(y)[1] = Norm(x)[1] - 2*n*a + n*n
  BY <1>3, <1>4, <1>5, <1>6
<1>8. y = Null => x = Real(n)
  <2>1. y = Null => a - n = 0 /\ b = 0 /\ c = 0 /\ d = 0
    BY DEF Null
  <2>2. QED
    BY <1>1, <2>1 DEF Real
<1>. HIDE DEF y
<1>9. Norm(y) \in Weight /\ Norm(y)[1] >= 0 /\ (Norm(y)[1] = 0 => y = Null)
  BY <1>2, NormIsPositive, NormIsSquare
<1>10. x[1] = a
  BY <1>1
<1>11. QED
  BY <1>2, <1>7, <1>8, <1>9, <1>10

\* The rows of a table, as its columns.
Transposed(K, J) == [p \in J \X J |-> K[<<p[2], p[1]>>]]

\* If the columns of a square table are orthogonal and weigh n each, so are the rows and
\* so do they: the distances of the products of rows from what they should be add up,
\* over all pairs, to zero.
LEMMA RowsAndColumns ==
  ASSUME NEW J, IsFiniteSet(J), NEW K, IsKernel(K, J, J), NEW n \in Nat \ {0},
         IsOrthogonal(K, J, J, n)
  PROVE  IsOrthogonal(Transposed(K, J), J, J, n)
<1>. DEFINE a(u)  == [v \in J |-> Conj(K[<<u, v>>])]
            A(u)  == [w \in J |-> Output(K, a(u), J, J, w)]
            f(u)  == [w \in J |-> Norm(A(u)[w])]
            sq    == [u \in J |-> [v \in J |-> Norm(a(u)[v])]]
            wt(u) == SumOver(NoWeight, sq[u], J)
            wts   == [u \in J |-> wt(u)]
            N     == <<n, 0>>
<1>1. IsSpace(Ring, Null) /\ IsSpace(Weight, NoWeight) /\ J \in SUBSET J
       /\ n \in Int
  BY DEF IsSpace
<1>2. ASSUME NEW u \in J
      PROVE  ValuesIn(a(u), J, Ring) /\ ValuesIn(A(u), J, Ring) /\ ValuesIn(f(u), J, Weight)
             /\ ValuesIn(sq[u], J, Weight)
  <2>1. ASSUME NEW v \in J
        PROVE  a(u)[v] \in Ring
    <3>1. K[<<u, v>>] \in Ring
      BY DEF IsKernel
    <3>2. QED
      BY <3>1, ConjRing
  <2>2. ValuesIn(a(u), J, Ring)
    BY <2>1 DEF ValuesIn
  <2>. HIDE DEF a
  <2>3. ASSUME NEW w \in J
        PROVE  A(u)[w] \in Ring
    BY <1>1, <2>2, OutputType
  <2>. HIDE DEF A
  <2>4. ASSUME NEW w \in J
        PROVE  f(u)[w] \in Weight
    BY <2>3, NormIsSquare
  <2>5. ASSUME NEW w \in J
        PROVE  sq[u][w] \in Weight
    BY <2>1, NormIsSquare
  <2>. HIDE DEF f, sq
  <2>6. QED
    BY <2>2, <2>3, <2>4, <2>5 DEF ValuesIn
\* One column of products of rows, by the isometry.
<1>3. ASSUME NEW u \in J
      PROVE  SumOver(NoWeight, f(u), J) = Multiple(n, wt(u)) /\ wt(u) \in Weight
  <2>1. f(u) = [w \in J |-> Norm(Output(K, a(u), J, J, w))]
        /\ sq[u] = [v \in J |-> Norm(a(u)[v])]
    OBVIOUS
  <2>. DEFINE b == a(u)
  <2>. HIDE DEF a, A, f
  <2>2. ValuesIn(b, J, Ring)
    BY <1>2
  <2>3. wt(u) \in Weight
    <3>. HIDE DEF sq
    <3>1. QED
      BY <1>1, <1>2, Sums
  <2>. HIDE DEF b, sq, wt, wts
  <2>4. SumOver(NoWeight, [w \in J |-> Norm(Output(K, b, J, J, w))], J)
          = Multiple(n, SumOver(NoWeight, [v \in J |-> Norm(b[v])], J))
    BY <1>1, <2>2, WeightsMultiplied
  <2>5. QED
    BY <2>1, <2>3, <2>4 DEF b, wt
\* The product of a row with itself is what the row weighs.
<1>4. ASSUME NEW u \in J
      PROVE  A(u)[u] = Embedded(wt(u)) /\ A(u)[u] \in Ring
  <2>. DEFINE t == Terms(K, a(u), J, u)
              s == sq[u]
  <2>1. ASSUME NEW v \in J
        PROVE  t[v] = Embedded(s[v])
    <3>1. K[<<u, v>>] \in Ring /\ Conj(K[<<u, v>>]) \in Ring
      BY ConjRing DEF IsKernel
    <3>2. t[v] = Times(Conj(K[<<u, v>>]), K[<<u, v>>])
      BY DEF Terms
    <3>3. t[v] = Embedded(Norm(K[<<u, v>>]))
      BY <3>1, <3>2, TimesRing, NormIsSquare
    <3>4. s[v] = Norm(Conj(K[<<u, v>>]))
      OBVIOUS
    <3>5. QED
      BY <3>1, <3>3, <3>4, NormIsPositive
  <2>2. A(u)[u] = SumOver(Null, t, J)
    BY DEF Output
  <2>3. ValuesIn(s, J, Weight) /\ ValuesIn(A(u), J, Ring)
    BY <1>2
  <2>4. A(u)[u] \in Ring
    BY <2>3 DEF ValuesIn
  <2>. HIDE DEF t, s
  <2>5. SumOver(Null, t, J) = Embedded(SumOver(NoWeight, s, J))
    BY <2>1, <2>3, SumEmbedded
  <2>6. QED
    BY <2>2, <2>4, <2>5 DEF s
\* All rows weigh together what all columns do.
<1>5. SumOver(NoWeight, wts, J) = SumOver(NoWeight, [v \in J |-> N], J)
  <2>. DEFINE tr  == [v \in J |-> [u \in J |-> sq[u][v]]]
              col == [v \in J |-> N]
  <2>2. ASSUME NEW v \in J
        PROVE  SumOver(NoWeight, tr[v], J) = N
    <3>. DEFINE c == ColumnProducts(K, J, v, v)
                s == tr[v]
    <3>1. ASSUME NEW u \in J
          PROVE  c[u] = Embedded(s[u]) /\ s[u] \in Weight
      <4>1. K[<<u, v>>] \in Ring /\ Conj(K[<<u, v>>]) \in Ring
        BY ConjRing DEF IsKernel
      <4>2. c[u] = Embedded(Norm(K[<<u, v>>])) /\ Norm(K[<<u, v>>]) \in Weight
        BY <4>1, NormIsSquare DEF ColumnProducts
      <4>3. s[u] = Norm(Conj(K[<<u, v>>]))
        OBVIOUS
      <4>4. QED
        BY <4>1, <4>2, <4>3, NormIsPositive
    <3>2. SumOver(Null, c, J) = Real(n)
      BY DEF IsOrthogonal
    <3>. HIDE DEF c, s
    <3>3. ValuesIn(s, J, Weight)
      BY <3>1 DEF ValuesIn
    <3>4. SumOver(Null, c, J) = Embedded(SumOver(NoWeight, s, J))
      BY <3>1, <3>3, SumEmbedded
    <3>5. SumOver(NoWeight, s, J) \in Weight
      BY <1>1, <3>3, Sums
    <3>6. PICK p, q \in Int : SumOver(NoWeight, s, J) = <<p, q>>
      BY <3>5, WeightParts
    <3>7. SumOver(NoWeight, s, J) = N
      <4>1. <<n, 0, 0, 0>> = <<p, q, 0, -q>>
        BY <3>2, <3>4, <3>6 DEF Embedded, Real
      <4>2. p = n /\ q = 0
        BY <4>1
      <4>3. QED
        BY <3>6, <4>2
    <3>8. QED
      BY <3>7 DEF s
  <2>3. \A u \in J : ValuesIn(sq[u], J, Weight)
    BY <1>2
  <2>4. IsTransposed(tr, sq, J, J)
    <3>. HIDE DEF sq
    <3>1. QED
      BY DEF IsTransposed
  <2>5. IsRowSums(wts, NoWeight, sq, J, J)
    <3>. HIDE DEF sq
    <3>1. QED
      BY DEF IsRowSums
  <2>6. IsRowSums(col, NoWeight, tr, J, J)
    <3>. HIDE DEF tr
    <3>1. QED
      BY <2>2 DEF IsRowSums
  <2>. HIDE DEF sq, tr, wts, col
  <2>7. SumOver(NoWeight, wts, J) = SumOver(NoWeight, col, J)
    BY <1>1, <2>3, <2>4, <2>5, <2>6, SumSwapped
  <2>8. QED
    BY <2>7 DEF col
<1>. HIDE DEF a, A, sq
\* One column of distances.
<1>6. ASSUME NEW u \in J
      PROVE  LET g == [w \in J |-> IF w = u THEN Distance(A(u)[u], n) ELSE f(u)[w]]
             IN  /\ ValuesIn(g, J, Weight) /\ \A w \in J : g[w][1] >= 0
                 /\ SumOver(NoWeight, g, J)[1] = n * (n - wt(u)[1])
                 /\ wt(u)[1] \in Int
  <2>. DEFINE g == [w \in J |-> IF w = u THEN Distance(A(u)[u], n) ELSE f(u)[w]]
              F == f(u)
              x == A(u)[u]
  <2>1. x \in Ring /\ x[1] = wt(u)[1] /\ n \in Int
    BY <1>4 DEF Embedded
  <2>2. /\ Distance(x, n) \in Weight /\ Distance(x, n)[1] >= 0 /\ x[1] \in Int
        /\ Distance(x, n)[1] = Norm(x)[1] - 2 * n * x[1] + n * n
    BY <2>1, DistanceFromInteger
  <2>3. ValuesIn(F, J, Weight) /\ \A w \in J : F[w][1] >= 0 /\ F[w] = Norm(A(u)[w])
    <3>1. ASSUME NEW w \in J
          PROVE  F[w][1] >= 0 /\ F[w] = Norm(A(u)[w])
      <4>1. A(u)[w] \in Ring
        BY <1>2 DEF ValuesIn
      <4>2. QED
        BY <4>1, NormIsPositive
    <3>2. QED
      BY <1>2, <3>1
  <2>4. g[u] = Distance(x, n) /\ F[u] = Norm(x)
    BY <2>3
  <2>5. \A w \in J \ {u} : g[w] = F[w]
    OBVIOUS
  <2>. HIDE DEF F
  <2>6. ValuesIn(g, J, Weight) /\ \A w \in J : g[w][1] >= 0
    <3>1. ASSUME NEW w \in J
          PROVE  g[w] \in Weight /\ g[w][1] >= 0
      BY <2>2, <2>3, <2>4, <2>5 DEF ValuesIn
    <3>2. QED
      BY <3>1 DEF ValuesIn
  <2>. HIDE DEF g, x
  <2>7. SumOver(NoWeight, g, J) = Plus(g[u], SumOver(NoWeight, g, J \ {u}))
    BY <1>1, <2>6, SumStep
  <2>8. SumOver(NoWeight, F, J) = Plus(F[u], SumOver(NoWeight, F, J \ {u}))
    BY <1>1, <2>3, SumStep
  <2>9. SumOver(NoWeight, g, J \ {u}) = SumOver(NoWeight, F, J \ {u})
        /\ SumOver(NoWeight, F, J \ {u}) \in Weight
    <3>1. IsFiniteSet(J \ {u}) /\ J \ {u} \in SUBSET J
      BY FS_Subset
    <3>2. ValuesIn(F, J \ {u}, Weight)
      BY <2>3 DEF ValuesIn
    <3>. DEFINE R == J \ {u}
    <3>3. R \in SUBSET J /\ IsFiniteSet(R) /\ ValuesIn(F, R, Weight) /\ \A w \in R : g[w] = F[w]
      BY <2>5, <3>1, <3>2
    <3>. HIDE DEF R
    <3>4. SumOver(NoWeight, g, R) = SumOver(NoWeight, F, R)
      BY <1>1, <3>3, SumEqual
    <3>5. SumOver(NoWeight, F, R) \in Weight
      BY <1>1, <2>3, <3>3, Sums
    <3>6. QED
      BY <3>4, <3>5 DEF R
  <2>10. PICK p, q \in Int : SumOver(NoWeight, F, J \ {u}) = <<p, q>>
    BY <2>9, WeightParts
  <2>11. SumOver(NoWeight, F, J)[1] = n * wt(u)[1]
    BY <1>3 DEF F, Multiple
  <2>12. PICK i, j \in Int : F[u] = <<i, j>>
    BY <2>3, WeightParts DEF ValuesIn
  <2>13. PICK k, l \in Int : g[u] = <<k, l>>
    BY <2>6, WeightParts DEF ValuesIn
  <2>14. SumOver(NoWeight, F, J)[1] = i + p /\ SumOver(NoWeight, g, J)[1] = k + p
    BY <2>7, <2>8, <2>9, <2>10, <2>12, <2>13 DEF Plus
  <2>15. k = i - 2 * n * x[1] + n * n
    BY <2>2, <2>4, <2>12, <2>13
  <2>16. SumOver(NoWeight, g, J)[1] = n * (n - wt(u)[1])
    <3>. DEFINE y == x[1]
    <3>1. y \in Int /\ i + p = n * y /\ k = i - 2 * n * y + n * n
      BY <2>1, <2>2, <2>11, <2>14, <2>15
    <3>. HIDE DEF y
    <3>2. n * y \in Int /\ n * n \in Int /\ 2 * n * y = 2 * (n * y) /\ n * (n - y) = n * n - n * y
      BY <3>1
    <3>3. k + p = n * (n - y)
      BY <3>1, <3>2
    <3>4. QED
      BY <2>1, <2>14, <3>3 DEF y
  <2>17. wt(u)[1] \in Int
    BY <2>1, <2>2
  <2>18. QED
    BY <2>6, <2>16, <2>17 DEF g, x, F
<1>. HIDE DEF f, wt
\* Each row weighs at most n, and all of them n times their number.
<1>7. ASSUME NEW u \in J
      PROVE  wt(u)[1] = n
  <2>. DEFINE lack == [y \in J |-> <<n - wt(y)[1], -wt(y)[2]>>]
              NN   == [y \in J |-> N]
  <2>1. ASSUME NEW y \in J
        PROVE  /\ lack[y] \in Weight /\ lack[y][1] >= 0 /\ wts[y] \in Weight
               /\ NN[y] = Plus(wts[y], lack[y])
    <3>1. PICK b, c \in Int : wt(y) = <<b, c>>
      BY <1>3, WeightParts
    <3>2. n * (n - b) >= 0
      <4>. DEFINE g == [w \in J |-> IF w = y THEN Distance(A(y)[y], n) ELSE f(y)[w]]
      <4>1. ValuesIn(g, J, Weight) /\ (\A w \in J : g[w][1] >= 0)
            /\ SumOver(NoWeight, g, J)[1] = n * (n - wt(y)[1])
        BY <1>6
      <4>. HIDE DEF g
      <4>2. SumOver(NoWeight, g, J)[1] >= 0
        BY <4>1, NullTerms
      <4>3. QED
        BY <3>1, <4>1, <4>2
    <3>3. n - b >= 0
      BY <3>2
    <3>4. lack[y] = <<n - b, -c>> /\ wts[y] = <<b, c>> /\ NN[y] = <<n, 0>>
      BY <3>1
    <3>5. Plus(<<b, c>>, <<n - b, -c>>) = <<b + (n - b), c + (-c)>>
      BY DEF Plus
    <3>6. b + (n - b) = n /\ c + (-c) = 0
      OBVIOUS
    <3>7. <<n - b, -c>> \in Weight /\ <<b, c>> \in Weight /\ <<n - b, -c>>[1] = n - b
      BY DEF Weight
    <3>. HIDE DEF lack, wts, NN
    <3>8. QED
      BY <3>3, <3>4, <3>5, <3>6, <3>7
  <2>2. NN = [v \in J |-> N]
    OBVIOUS
  <2>3. lack[u] = <<n - wt(u)[1], -wt(u)[2]>>
    OBVIOUS
  <2>. HIDE DEF lack, NN, wts
  <2>4. ValuesIn(lack, J, Weight) /\ ValuesIn(wts, J, Weight) /\ \A y \in J : lack[y][1] >= 0
    BY <2>1 DEF ValuesIn
  <2>5. SumOver(NoWeight, NN, J)
          = Plus(SumOver(NoWeight, wts, J), SumOver(NoWeight, lack, J))
    <3>1. \A y \in J : NN[y] = Plus(wts[y], lack[y])
      BY <2>1
    <3>2. QED
      BY <1>1, <2>4, <3>1, SumAdd
  <2>6. SumOver(NoWeight, NN, J) = SumOver(NoWeight, wts, J)
    BY <1>5, <2>2
  <2>7. SumOver(NoWeight, lack, J) \in Weight /\ SumOver(NoWeight, wts, J) \in Weight
    BY <1>1, <2>4, Sums
  <2>8. SumOver(NoWeight, lack, J)[1] = 0
    <3>1. PICK b, c \in Int : SumOver(NoWeight, wts, J) = <<b, c>>
      BY <2>7, WeightParts
    <3>2. PICK d, e \in Int : SumOver(NoWeight, lack, J) = <<d, e>>
      BY <2>7, WeightParts
    <3>3. <<b, c>> = <<b + d, c + e>>
      BY <2>5, <2>6, <3>1, <3>2 DEF Plus
    <3>4. b = b + d
      BY <3>3
    <3>5. QED
      BY <3>2, <3>4
  <2>9. lack[u][1] = 0
    BY <2>4, <2>8, NullTerms
  <2>10. PICK b, c \in Int : wt(u) = <<b, c>>
    BY <1>3, WeightParts
  <2>11. lack[u] = <<n - b, -c>>
    BY <2>3, <2>10
  <2>12. n - b = 0
    BY <2>9, <2>11
  <2>13. QED
    BY <2>10, <2>12
<1>8. ASSUME NEW v \in J, NEW u \in J
      PROVE  A(u)[v] = IF v = u THEN Real(n) ELSE Null
  <2>. DEFINE g == [w \in J |-> IF w = u THEN Distance(A(u)[u], n) ELSE f(u)[w]]
  <2>1. ValuesIn(g, J, Weight) /\ (\A w \in J : g[w][1] >= 0)
        /\ SumOver(NoWeight, g, J)[1] = n * (n - wt(u)[1])
    BY <1>6
  <2>2. n * (n - wt(u)[1]) = 0
    BY <1>7
  <2>3. g[v] = IF v = u THEN Distance(A(u)[u], n) ELSE f(u)[v]
    OBVIOUS
  <2>. HIDE DEF g
  <2>4. g[v][1] = 0
    BY <2>1, <2>2, NullTerms
  <2>5. A(u)[v] \in Ring
    BY <1>2 DEF ValuesIn
  <2>6. CASE v = u
    BY <2>3, <2>4, <2>5, <2>6, DistanceFromInteger
  <2>7. CASE v # u
    <3>1. f(u)[v] = Norm(A(u)[v])
      BY DEF f
    <3>2. QED
      BY <2>3, <2>4, <2>5, <2>7, <3>1, NormIsPositive
  <2>8. QED
    BY <2>6, <2>7
\* The products of rows are the products of the transposed table's columns.
<1>9. ASSUME NEW v \in J, NEW u \in J
      PROVE  SumOver(Null, ColumnProducts(Transposed(K, J), J, v, u), J)
               = IF v = u THEN Real(n) ELSE Null
  <2>. DEFINE c == ColumnProducts(Transposed(K, J), J, v, u)
              t == Terms(K, a(u), J, v)
  <2>1. ASSUME NEW w \in J
        PROVE  c[w] = t[w] /\ t[w] \in Ring
    <3>1. c[w] = Times(K[<<v, w>>], Conj(K[<<u, w>>]))
      BY DEF ColumnProducts, Transposed
    <3>2. t[w] = Times(Conj(K[<<u, w>>]), K[<<v, w>>])
      BY DEF Terms, a
    <3>3. K[<<v, w>>] \in Ring /\ K[<<u, w>>] \in Ring /\ Conj(K[<<u, w>>]) \in Ring
      BY ConjRing DEF IsKernel
    <3>4. QED
      BY <3>1, <3>2, <3>3, TimesRing
  <2>2. A(u)[v] = SumOver(Null, t, J)
    BY DEF A, Output
  <2>. HIDE DEF c, t
  <2>3. ValuesIn(t, J, Ring) /\ \A w \in J : c[w] = t[w]
    BY <2>1 DEF ValuesIn
  <2>4. SumOver(Null, c, J) = SumOver(Null, t, J)
    BY <1>1, <2>3, SumEqual
  <2>5. QED
    BY <1>8, <2>2, <2>4 DEF c
<1>10. QED
  BY <1>9 DEF IsOrthogonal

-----------------------------------------------------------------------------
(* Square roots.                                                           *)

\* A power of sqrt(2) is an element of the ring, and its square is a power of two.
LEMMA RootSquared ==
  ASSUME NEW h \in Nat
  PROVE  /\ Root2Power(h) \in Ring /\ 2^h \in Nat \ {0}
         /\ Times(Root2Power(h), Root2Power(h)) = Real(2^h)
<1>. DEFINE c == 2^(h \div 2)
            r == Root2Power(h)
<1>1. r \in Ring /\ 2^h \in Nat \ {0} /\ c \in Int
  <2>1. h \div 2 \in Nat
    OBVIOUS
  <2>2. QED
    BY <2>1, Root2Powers, PowersOfTwo
<1>2. /\ h % 2 = 0 => r = Real(c) /\ 2^h = c * c
      /\ h % 2 # 0 => r = <<0, c, 0, -c>> /\ 2^h = 2 * (c * c)
  BY Root2Powers
<1>. HIDE DEF c, r
<1>3. CASE h % 2 = 0
  <2>1. Times(Real(c), Real(c)) = <<c * c, c * 0, c * 0, c * 0>>
    BY <1>1, RealTimes DEF Real
  <2>2. QED
    BY <1>1, <1>2, <1>3, <2>1 DEF Real, r
<1>4. CASE h % 2 # 0
  <2>1. Times(r, r) = Convolution(r, r)
    BY <1>1, TimesConvolutes
  <2>2. Convolution(<<0, c, 0, -c>>, <<0, c, 0, -c>>) = <<2 * (c * c), 0, 0, 0>>
    <3>1. 0*0 - c*(-c) - 0*0 - (-c)*c = 2 * (c * c)
      BY <1>1
    <3>2. 0*c + c*0 - 0*(-c) - (-c)*0 = 0 /\ 0*0 + c*c + 0*0 - (-c)*(-c) = 0 /\ 0*(-c) + c*0 + 0*c + (-c)*0 = 0
      BY <1>1
    <3>3. QED
      BY <3>1, <3>2 DEF Convolution
  <2>3. QED
    BY <1>1, <1>2, <1>4, <2>1, <2>2 DEF Real, r
<1>5. QED
  BY <1>3, <1>4

\* Multiplication by an integer can be undone.
LEMMA RealCancels ==
  ASSUME NEW n \in Nat \ {0}, NEW x \in Ring, NEW y \in Ring, Times(x, Real(n)) = Times(y, Real(n))
  PROVE  x = y
<1>1. PICK a, b, c, d \in Int : x = <<a, b, c, d>>
  BY RingParts
<1>2. PICK e, f, g, h \in Int : y = <<e, f, g, h>>
  BY RingParts
<1>3. Times(x, Real(n)) = <<n * a, n * b, n * c, n * d>>
  BY <1>1, RealTimes
<1>4. Times(y, Real(n)) = <<n * e, n * f, n * g, n * h>>
  BY <1>2, RealTimes
<1>5. n * a = n * e /\ n * b = n * f /\ n * c = n * g /\ n * d = n * h
  <2>1. <<n * a, n * b, n * c, n * d>> = <<n * e, n * f, n * g, n * h>>
    BY <1>3, <1>4
  <2>2. \A x1, x2, x3, x4, y1, y2, y3, y4 :
          <<x1, x2, x3, x4>> = <<y1, y2, y3, y4>> => x1 = y1 /\ x2 = y2 /\ x3 = y3 /\ x4 = y4
    OBVIOUS
  <2>3. QED
    BY <2>1, <2>2, Zenon
<1>6. \A u, v \in Int : n * u = n * v => u = v
  OBVIOUS
<1>7. a = e /\ b = f /\ c = g /\ d = h
  BY <1>5, <1>6
<1>8. QED
  BY <1>1, <1>2, <1>7

\* Multiplication by a power of sqrt(2) can be undone.
LEMMA RootCancels ==
  ASSUME NEW h \in Nat, NEW x \in Ring, NEW y \in Ring, Times(Root2Power(h), x) = Times(Root2Power(h), y)
  PROVE  x = y
<1>. DEFINE r == Root2Power(h)
            n == 2^h
<1>1. r \in Ring /\ n \in Nat \ {0} /\ Times(r, r) = Real(n) /\ Real(n) \in Ring
  BY RootSquared, RealTimes
<1>. HIDE DEF r, n
<1>2. Times(r, Times(r, x)) = Times(Real(n), x) /\ Times(r, Times(r, y)) = Times(Real(n), y)
  BY <1>1, TimesAssociates
<1>3. Times(Real(n), x) = Times(x, Real(n)) /\ Times(Real(n), y) = Times(y, Real(n))
  BY <1>1, TimesRing
<1>4. Times(r, x) = Times(r, y)
  BY DEF r
<1>5. Times(x, Real(n)) = Times(y, Real(n))
  BY <1>2, <1>3, <1>4
<1>6. QED
  BY <1>1, <1>5, RealCancels

\* Dividing by a power of sqrt(2), where the ring allows it, undoes a multiplication by it.
LEMMA DivideIs ==
  ASSUME NEW z \in Ring, NEW h \in Nat, Divisible(z, h)
  PROVE  Divide(z, h) \in Ring /\ Times(Root2Power(h), Divide(z, h)) = z
<1>. DEFINE r == Root2Power(h)
            n == 2^h
            p == Times(z, r)
            q == Divide(z, h)
<1>1. r \in Ring /\ n \in Nat \ {0} /\ Times(r, r) = Real(n) /\ Real(n) \in Ring
  BY RootSquared, RealTimes
<1>2. p \in Ring
  BY <1>1, TimesRing
<1>3. PICK a, b, c, d \in Int : p = <<a, b, c, d>>
  BY <1>2, RingParts
<1>4. q = [j \in 1..4 |-> p[j] \div n] /\ \A j \in 1..4 : p[j] % n = 0
  BY DEF Divide, Divisible
<1>5. q \in Ring
  BY NormOfQuotient
<1>. HIDE DEF p, q, n, r
<1>6. q = <<a \div n, b \div n, c \div n, d \div n>>
  BY <1>1, <1>3, <1>4
<1>7. a % n = 0 /\ b % n = 0 /\ c % n = 0 /\ d % n = 0
  BY <1>3, <1>4
<1>8. n * (a \div n) = a /\ n * (b \div n) = b /\ n * (c \div n) = c /\ n * (d \div n) = d
  BY <1>1, <1>7
<1>9. Times(q, Real(n)) = <<n * q[1], n * q[2], n * q[3], n * q[4]>>
  BY <1>1, <1>5, RealTimes
<1>10. Times(q, Real(n)) = p
  BY <1>3, <1>6, <1>8, <1>9
<1>11. Times(r, q) \in Ring /\ Times(Times(r, q), Real(n)) = Times(r, Times(q, Real(n)))
  BY <1>1, <1>5, TimesRing, TimesAssociates
<1>12. Times(r, p) = Times(z, Real(n))
  <2>1. p = Times(r, z)
    BY <1>1, TimesRing DEF p
  <2>2. Times(r, Times(r, z)) = Times(Times(r, r), z)
    BY <1>1, TimesAssociates
  <2>3. QED
    BY <1>1, <2>1, <2>2, TimesRing
<1>13. Times(r, q) = z
  BY <1>1, <1>10, <1>11, <1>12, RealCancels
<1>14. QED
  BY <1>5, <1>13 DEF q, r

\* The square root of two is not a ratio of integers.
LEMMA RootOfTwoIsIrrational ==
  ASSUME NEW s \in Nat, NEW t \in Nat, s * s = 2 * (t * t)
  PROVE  s = 0
<1>. DEFINE Good == {n \in Nat : \A x, y \in Nat : x <= n /\ x * x = 2 * (y * y) => x = 0}
<1>1. 0 \in Good
  OBVIOUS
<1>2. ASSUME NEW n \in Good
      PROVE  n + 1 \in Good
  <2>1. n \in Nat /\ \A x, y \in Nat : x <= n /\ x * x = 2 * (y * y) => x = 0
    OBVIOUS
  <2>. HIDE DEF Good
  <2>2. ASSUME NEW x \in Nat, NEW y \in Nat, x <= n + 1, x * x = 2 * (y * y), x # 0
        PROVE  FALSE
    <3>1. y \in Int /\ y * y \in Int
      OBVIOUS
    <3>2. PICK k \in Nat : x = 2 * k \/ x = 2 * k + 1
      <4>1. x \div 2 \in Nat /\ (x = 2 * (x \div 2) \/ x = 2 * (x \div 2) + 1)
        OBVIOUS
      <4>2. QED
        BY <4>1
    <3>3. x = 2 * k
      <4>1. ASSUME x = 2 * k + 1
            PROVE  FALSE
        <5>1. x * x = 2 * (2 * (k * k) + 2 * k) + 1
          BY <4>1
        <5>. DEFINE a == 2 * (k * k) + 2 * k
                    b == y * y
        <5>2. a \in Int /\ b \in Int /\ 2 * a + 1 = 2 * b
          BY <2>2, <5>1
        <5>. HIDE DEF a, b
        <5>3. QED
          BY <5>2
      <4>2. QED
        BY <3>2, <4>1
    <3>4. y * y = 2 * (k * k)
      <4>1. x * x = 4 * (k * k)
        BY <3>3
      <4>. DEFINE a == k * k
                  b == y * y
      <4>2. a \in Int /\ b \in Int /\ 4 * a = 2 * b
        BY <2>2, <4>1
      <4>. HIDE DEF a, b
      <4>3. b = 2 * a
        BY <4>2
      <4>4. QED
        BY <4>3 DEF a, b
    <3>5. y <= n
      <4>1. k >= 1
        BY <2>2, <3>3
      <4>2. y < x
        <5>1. ASSUME y >= x
              PROVE  FALSE
          <6>1. y * y >= x * x /\ x * x >= 1
            BY <2>2, <5>1
          <6>. DEFINE a == x * x
                      b == y * y
          <6>2. a \in Int /\ b \in Int /\ a = 2 * b /\ b >= a /\ a >= 1
            BY <2>2, <6>1
          <6>. HIDE DEF a, b
          <6>3. QED
            BY <6>2
        <5>2. QED
          BY <5>1
      <4>3. QED
        BY <2>1, <2>2, <4>2
    <3>6. y = 0
      BY <2>1, <3>4, <3>5
    <3>7. x * x = 0
      BY <2>2, <3>6
    <3>8. QED
      BY <2>2, <3>7
  <2>3. QED
    BY <2>1, <2>2 DEF Good
<1>3. Good = Nat
  <2>1. Good \in SUBSET Nat
    OBVIOUS
  <2>. HIDE DEF Good
  <2>2. QED
    BY <1>1, <1>2, <2>1, Induction
<1>4. s \in Good
  BY <1>3
<1>5. QED
  BY <1>4

\* A square of the magnitude of an amplitude that is not null is positive, also for the
\* negative square root of two.
LEMMA NormIsTotallyPositive ==
  ASSUME NEW z \in Ring, z # Null
  PROVE  Norm(z)[1] > 0 /\ Norm(z)[1] * Norm(z)[1] > 2 * (Norm(z)[2] * Norm(z)[2])
<1>1. PICK a, b, c, d \in Int : z = <<a, b, c, d>>
  BY RingParts
<1>. DEFINE s == a*a + b*b + c*c + d*d
            t == a*b + b*c + c*d - d*a
            p == a*a + c*c
            q == b*b + d*d
            e == b*(c - a) - d*(a + c)
<1>2. Norm(z)[1] = s /\ Norm(z)[2] = t
  BY <1>1 DEF Norm
<1>3. s > 0
  <2>1. Norm(z)[1] >= 0 /\ Norm(z)[1] # 0 /\ Norm(z) \in Weight
    BY NormIsPositive, NormIsSquare
  <2>2. s \in Int
    OBVIOUS
  <2>. HIDE DEF s, t
  <2>3. QED
    BY <1>2, <2>1, <2>2
<1>4. s * s - 2 * (t * t) = (p - q) * (p - q) + 2 * (e * e)
  OBVIOUS
<1>5. s \in Int /\ t \in Int /\ p \in Int /\ q \in Int /\ e \in Int
  OBVIOUS
<1>. HIDE DEF s, t, p, q, e
<1>6. (p - q) * (p - q) >= 0 /\ e * e >= 0 /\ (p - q) * (p - q) \in Int /\ e * e \in Int /\ s * s \in Int /\ t * t \in Int
  BY <1>5, SquaresOfIntegers
<1>7. s * s >= 2 * (t * t)
  BY <1>4, <1>6
<1>8. s * s # 2 * (t * t)
  <2>1. ASSUME s * s = 2 * (t * t)
        PROVE  FALSE
    <3>. DEFINE u == IF t >= 0 THEN t ELSE -t
    <3>1. u \in Nat /\ u * u = t * t /\ s \in Nat
      BY <1>3, <1>5
    <3>. HIDE DEF u
    <3>2. s = 0
      BY <2>1, <3>1, RootOfTwoIsIrrational
    <3>3. QED
      BY <1>3, <3>2
  <2>2. QED
    BY <2>1
<1>9. QED
  BY <1>2, <1>3, <1>6, <1>7, <1>8

\* What a normalized amplitude is of the amplitude before: a positive real multiple.
LEMMA RatioIsPositive ==
  ASSUME NEW z \in Ring, z # Null, NEW j \in Nat,
         NEW ratio, ratio = Times(Times(z, Root2Power(j)), Conj(z))
  PROVE  ratio[3] = 0 /\ ratio[2] = -ratio[4] /\ Positive(<<ratio[1], ratio[2]>>)
<1>. DEFINE R == Root2Power(j)
            c == 2^(j \div 2)
<1>1. PICK s, t \in Int : Norm(z) = <<s, t>>
  BY NormIsSquare, WeightParts
<1>2. s > 0 /\ s * s > 2 * (t * t)
  BY <1>1, NormIsTotallyPositive
<1>3. j \div 2 \in Nat
  OBVIOUS
<1>4. c \in Nat \ {0}
  BY <1>3, PowersOfTwo
<1>5. R \in Ring /\ Conj(z) \in Ring /\ Embedded(Norm(z)) \in Ring
  BY Root2Powers, ConjRing, NormIsSquare, EmbeddedLaws
<1>6. ratio = Times(R, Embedded(Norm(z)))
  <2>1. Times(z, R) = Times(R, z)
    BY <1>5, TimesRing
  <2>2. Times(Times(R, z), Conj(z)) = Times(R, Times(z, Conj(z)))
    BY <1>5, TimesAssociates
  <2>3. QED
    BY <2>1, <2>2, NormIsSquare
<1>7. Embedded(Norm(z)) = <<s, t, 0, -t>>
  BY <1>1 DEF Embedded
<1>8. /\ j % 2 = 0 => R = <<c, 0, 0, 0>>
      /\ j % 2 # 0 => R = <<0, c, 0, -c>>
  BY Root2Powers DEF Real
<1>9. ratio = Convolution(R, <<s, t, 0, -t>>)
  BY <1>5, <1>6, <1>7, TimesConvolutes
<1>. HIDE DEF R, c
<1>10. CASE j % 2 = 0
  <2>1. ratio = <<c * s, c * t, 0, -(c * t)>>
    BY <1>4, <1>8, <1>9, <1>10 DEF Convolution
  <2>2. Positive(<<c * s, c * t>>)
    <3>1. c * s > 0 /\ c * s \in Int /\ c * t \in Int
      BY <1>2, <1>4
    <3>2. (c * s) * (c * s) > 2 * (c * t) * (c * t)
      <4>1. (c * s) * (c * s) - 2 * (c * t) * (c * t) = (c * c) * (s * s - 2 * (t * t))
        BY <1>4
      <4>2. c * c > 0 /\ s * s - 2 * (t * t) > 0 /\ c * c \in Int /\ s * s - 2 * (t * t) \in Int
        BY <1>2, <1>4
      <4>3. (c * c) * (s * s - 2 * (t * t)) > 0
        <5>. DEFINE x == c * c
                    y == s * s - 2 * (t * t)
        <5>1. x > 0 /\ y > 0 /\ x \in Int /\ y \in Int
          BY <4>2
        <5>. HIDE DEF x, y
        <5>2. x * y > 0
          BY <5>1
        <5>3. QED
          BY <5>2 DEF x, y
      <4>4. (c * s) * (c * s) \in Int /\ 2 * (c * t) * (c * t) \in Int
        BY <1>4
      <4>5. QED
        BY <4>1, <4>3, <4>4
    <3>3. QED
      BY <3>1, <3>2 DEF Positive, NoWeight
  <2>3. QED
    BY <1>4, <2>1, <2>2
<1>11. CASE j % 2 # 0
  <2>1. ratio = <<2 * (c * t), c * s, 0, -(c * s)>>
    BY <1>4, <1>8, <1>9, <1>11 DEF Convolution
  <2>2. Positive(<<2 * (c * t), c * s>>)
    <3>1. c * s > 0 /\ c * s \in Int /\ c * t \in Int
      BY <1>2, <1>4
    <3>2. (2 * (c * t)) * (2 * (c * t)) < 2 * (c * s) * (c * s)
      <4>1. 2 * (c * s) * (c * s) - (2 * (c * t)) * (2 * (c * t)) = (2 * (c * c)) * (s * s - 2 * (t * t))
        BY <1>4
      <4>2. (2 * (c * c)) * (s * s - 2 * (t * t)) > 0
        <5>. DEFINE x == 2 * (c * c)
                    y == s * s - 2 * (t * t)
        <5>1. x > 0 /\ y > 0 /\ x \in Int /\ y \in Int
          BY <1>2, <1>4
        <5>. HIDE DEF x, y
        <5>2. x * y > 0
          BY <5>1
        <5>3. QED
          BY <5>2 DEF x, y
      <4>3. (2 * (c * t)) * (2 * (c * t)) \in Int /\ 2 * (c * s) * (c * s) \in Int
        BY <1>4
      <4>4. QED
        BY <4>1, <4>2, <4>3
    <3>3. QED
      BY <3>1, <3>2 DEF Positive, NoWeight
  <2>3. QED
    BY <1>4, <2>1, <2>2
<1>12. QED
  BY <1>10, <1>11


-----------------------------------------------------------------------------
(* Unitary matrices.                                                       *)

IsSquare(m, n) == m \in [halvings : Nat, rows : [1..n -> [1..n -> Ring]]]

\* The rows are orthogonal, and each one's squared magnitudes add up to 2^halvings.
RowProducts(m, n, r, c) == [j \in 1..n |-> Times(m.rows[r][j], Conj(m.rows[c][j]))]
HasOrthogonalRows(m, n) ==
  \A r, c \in 1..n :
    SumOver(Null, RowProducts(m, n, r, c), 1..n) = IF r = c THEN Real(2^m.halvings) ELSE Null

IsGate(m, n) == IsSquare(m, n) /\ HasOrthogonalRows(m, n)

\* The rows of a matrix are the columns of a table.
RowTable(m, n) == [p \in (1..n) \X (1..n) |-> m.rows[p[2]][p[1]]]

LEMMA FiniteRows ==
  ASSUME NEW n \in Nat
  PROVE  IsFiniteSet(1..n) /\ IsSpace(Ring, Null) /\ Null \in Ring /\ One \in Ring
<1>1. IsFiniteSet(1..n)
  BY FS_Interval
<1>2. Null \in Ring /\ One \in Ring
  BY DEF Null, One, Real, Ring
<1>3. QED
  BY <1>1, <1>2 DEF IsSpace

LEMMA SquareType ==
  ASSUME NEW n \in Nat, NEW m, IsSquare(m, n)
  PROVE  /\ SizeOf(m) = n /\ m.halvings \in Nat
         /\ \A r, c \in 1..n : m.rows[r][c] \in Ring /\ Conj(m.rows[r][c]) \in Ring
<1>1. SizeOf(m) = n /\ m.halvings \in Nat
  BY DEF IsSquare, SizeOf
<1>2. \A r, c \in 1..n : m.rows[r][c] \in Ring
  BY DEF IsSquare
<1>3. QED
  BY <1>1, <1>2, ConjRing

\* A matrix from its entries.
IsTable(f, n) == \A r, c \in 1..n : f[<<r, c>>] \in Ring
IsFrom(m, h, f, n) == m = Matrix(h, [r \in 1..n |-> [c \in 1..n |-> f[<<r, c>>]]])

LEMMA SquareFrom ==
  ASSUME NEW n \in Nat, NEW h \in Nat, NEW f, IsTable(f, n), NEW m, IsFrom(m, h, f, n)
  PROVE  /\ IsSquare(m, n) /\ m.halvings = h
         /\ \A r, c \in 1..n : m.rows[r][c] = f[<<r, c>>]
  BY DEF IsSquare, Matrix, IsTable, IsFrom

\* A sum with one term that is not null.
LEMMA OneTerm ==
  ASSUME NEW J, IsFiniteSet(J), NEW f, ValuesIn(f, J, Ring), NEW x \in J,
         \A y \in J \ {x} : f[y] = Null
  PROVE  SumOver(Null, f, J) = f[x]
<1>. DEFINE rest == J \ {x}
<1>1. IsSpace(Ring, Null) /\ J \in SUBSET J /\ IsFiniteSet(rest) /\ \A y \in rest : f[y] = Null
  BY FS_Subset DEF IsSpace
<1>2. SumOver(Null, f, J) = Plus(f[x], SumOver(Null, f, rest))
  BY <1>1, Sums
<1>. HIDE DEF rest
<1>3. SumOver(Null, f, rest) = Null
  BY <1>1, SumNull
<1>4. f[x] \in Ring
  BY DEF ValuesIn
<1>5. Plus(f[x], Null) = f[x]
  BY <1>4, PlusRing
<1>6. QED
  BY <1>2, <1>3, <1>5

LEMMA RowsAreColumns ==
  ASSUME NEW n \in Nat, NEW m, IsSquare(m, n)
  PROVE  /\ IsKernel(RowTable(m, n), 1..n, 1..n)
         /\ \A r, c \in 1..n : ColumnProducts(RowTable(m, n), 1..n, r, c) = RowProducts(m, n, r, c)
         /\ \A r, c \in 1..n : ValuesIn(RowProducts(m, n, r, c), 1..n, Ring)
         /\ \A r, c \in 1..n : SumOver(Null, RowProducts(m, n, r, c), 1..n) \in Ring
         /\ HasOrthogonalRows(m, n) <=> IsOrthogonal(RowTable(m, n), 1..n, 1..n, 2^m.halvings)
<1>. DEFINE J == 1..n
            K == RowTable(m, n)
<1>1. IsFiniteSet(J) /\ IsSpace(Ring, Null) /\ J \in SUBSET J
  BY FiniteRows
<1>2. \A r, j \in J : K[<<j, r>>] = m.rows[r][j] /\ K[<<j, r>>] \in Ring /\ Conj(m.rows[r][j]) \in Ring
  BY SquareType DEF RowTable
<1>. HIDE DEF K
<1>3. IsKernel(K, J, J)
  BY <1>2 DEF IsKernel
<1>4. ASSUME NEW r \in J, NEW c \in J
      PROVE  /\ ColumnProducts(K, J, r, c) = RowProducts(m, n, r, c)
             /\ ValuesIn(RowProducts(m, n, r, c), J, Ring)
             /\ SumOver(Null, RowProducts(m, n, r, c), J) \in Ring
  <2>1. ColumnProducts(K, J, r, c) = RowProducts(m, n, r, c)
    BY <1>2 DEF ColumnProducts, RowProducts
  <2>2. ValuesIn(RowProducts(m, n, r, c), J, Ring)
    BY <1>2, TimesRing DEF ValuesIn, RowProducts
  <2>. HIDE DEF J
  <2>3. SumOver(Null, RowProducts(m, n, r, c), J) \in Ring
    BY <1>1, <2>2, Sums
  <2>4. QED
    BY <2>1, <2>2, <2>3
<1>5. HasOrthogonalRows(m, n) <=> IsOrthogonal(K, J, J, 2^m.halvings)
  BY <1>4 DEF HasOrthogonalRows, IsOrthogonal
<1>6. QED
  BY <1>3, <1>4, <1>5 DEF K

\* The factor between a matrix and one with more halvings.
LEMMA FactorOfProduct ==
  ASSUME NEW h \in Nat
  PROVE  Root2Power(0) = Real(1) /\ Root2Power(h + h) = Real(2^h) /\ Real(2^h) \in Ring
<1>1. 2^h \in Nat /\ 2^0 = 1
  BY PowersOfTwo
<1>2. 0 % 2 = 0 /\ 0 \div 2 = 0 /\ 0 \in Nat
  OBVIOUS
<1>3. (h + h) % 2 = 0 /\ (h + h) \div 2 = h /\ h + h \in Nat
  OBVIOUS
<1>4. Root2Power(0) = Real(2^0)
  BY <1>2, Root2Powers
<1>5. Root2Power(h + h) = Real(2^h)
  BY <1>3, Root2Powers
<1>6. Real(2^h) \in Ring
  BY <1>1 DEF Real, Ring
<1>7. QED
  BY <1>1, <1>4, <1>5, <1>6

\* The entries of the results of the operations on matrices.
EntryTerms(m, k, n, r, c) == [j \in 1..n |-> Times(m.rows[r][j], k.rows[j][c])]

LEMMA ProductIs ==
  ASSUME NEW n \in Nat, NEW m, IsSquare(m, n), NEW k, IsSquare(k, n)
  PROVE  /\ Product(m, k).halvings = m.halvings + k.halvings
         /\ IsSquare(Product(m, k), n)
         /\ \A r, c \in 1..n :
              Product(m, k).rows[r][c] = SumOver(Null, EntryTerms(m, k, n, r, c), 1..n)
<1>. DEFINE f == [p \in (1..n) \X (1..n) |-> SumOver(Null, EntryTerms(m, k, n, p[1], p[2]), 1..n)]
<1>1. SizeOf(m) = n /\ m.halvings + k.halvings \in Nat
  BY SquareType
<1>2. ASSUME NEW r \in 1..n, NEW c \in 1..n
      PROVE  /\ SumOf(Null, [j \in 1..n |-> Times(m.rows[r][j], k.rows[j][c])]) = f[<<r, c>>]
             /\ f[<<r, c>>] \in Ring
  <2>. DEFINE J == 1..n
              t == EntryTerms(m, k, n, r, c)
  <2>1. f[<<r, c>>] = SumOver(Null, t, J)
    OBVIOUS
  <2>2. DOMAIN t = J /\ t = [j \in 1..n |-> Times(m.rows[r][j], k.rows[j][c])]
    BY DEF EntryTerms
  <2>3. ValuesIn(t, J, Ring)
    BY SquareType, TimesRing DEF ValuesIn, EntryTerms
  <2>4. IsFiniteSet(J) /\ IsSpace(Ring, Null) /\ J \in SUBSET J
    BY FiniteRows
  <2>. HIDE DEF t, J, f
  <2>5. SumOver(Null, t, J) \in Ring
    BY <2>3, <2>4, Sums
  <2>6. QED
    BY <2>1, <2>2, <2>5, SumOfIsSum
<1>3. IsFrom(Product(m, k), m.halvings + k.halvings, f, n) /\ IsTable(f, n)
  <2>. HIDE DEF f
  <2>1. QED
    BY <1>1, <1>2 DEF Product, IsFrom, IsTable
<1>4. \A r, c \in 1..n : f[<<r, c>>] = SumOver(Null, EntryTerms(m, k, n, r, c), 1..n)
  OBVIOUS
<1>. HIDE DEF f
<1>5. IsSquare(Product(m, k), n) /\ Product(m, k).halvings = m.halvings + k.halvings
      /\ \A r, c \in 1..n : Product(m, k).rows[r][c] = f[<<r, c>>]
  BY <1>1, <1>2, <1>3, SquareFrom
<1>6. QED
  BY <1>4, <1>5

LEMMA DaggerIs ==
  ASSUME NEW n \in Nat, NEW m, IsSquare(m, n)
  PROVE  /\ dagger(m).halvings = m.halvings
         /\ IsSquare(dagger(m), n)
         /\ \A r, c \in 1..n : dagger(m).rows[r][c] = Conj(m.rows[c][r])
<1>. DEFINE f == [p \in (1..n) \X (1..n) |-> Conj(m.rows[p[2]][p[1]])]
<1>1. SizeOf(m) = n /\ m.halvings \in Nat
  BY SquareType
<1>2. \A r, c \in 1..n : f[<<r, c>>] = Conj(m.rows[c][r]) /\ f[<<r, c>>] \in Ring
  BY SquareType
<1>. HIDE DEF f
<1>3. IsFrom(dagger(m), m.halvings, f, n) /\ IsTable(f, n)
  BY <1>1, <1>2 DEF dagger, IsFrom, IsTable
<1>4. IsSquare(dagger(m), n) /\ dagger(m).halvings = m.halvings
      /\ \A r, c \in 1..n : dagger(m).rows[r][c] = f[<<r, c>>]
  BY <1>1, <1>2, <1>3, SquareFrom
<1>5. QED
  BY <1>2, <1>4

LEMMA IdentityIs ==
  ASSUME NEW n \in Nat
  PROVE  /\ identity(n).halvings = 0
         /\ IsSquare(identity(n), n)
         /\ \A r, c \in 1..n : identity(n).rows[r][c] = IF r = c THEN One ELSE Null
<1>. DEFINE f == [p \in (1..n) \X (1..n) |-> IF p[1] = p[2] THEN One ELSE Null]
<1>1. /\ \A r, c \in 1..n : f[<<r, c>>] = IF r = c THEN One ELSE Null
      /\ \A r, c \in 1..n : f[<<r, c>>] \in Ring
  BY FiniteRows
<1>2. 0 \in Nat
  OBVIOUS
<1>. HIDE DEF f
<1>3. IsFrom(identity(n), 0, f, n) /\ IsTable(f, n)
  BY <1>1 DEF identity, IsFrom, IsTable
<1>4. IsSquare(identity(n), n) /\ identity(n).halvings = 0
      /\ \A r, c \in 1..n : identity(n).rows[r][c] = f[<<r, c>>]
  BY <1>1, <1>2, <1>3, SquareFrom
<1>5. \A r, c \in 1..n : identity(n).rows[r][c] = IF r = c THEN One ELSE Null
  <2>. DEFINE I == identity(n)
  <2>1. \A r, c \in 1..n : I.rows[r][c] = f[<<r, c>>]
    BY <1>4
  <2>. HIDE DEF I
  <2>2. ASSUME NEW r \in 1..n, NEW c \in 1..n
        PROVE  I.rows[r][c] = IF r = c THEN One ELSE Null
    <3>1. f[<<r, c>>] = IF r = c THEN One ELSE Null
      BY <1>1
    <3>2. I.rows[r][c] = f[<<r, c>>]
      BY <2>1
    <3>3. QED
      BY <3>1, <3>2
  <2>3. QED
    BY <2>2 DEF I
<1>6. QED
  BY <1>4, <1>5

LEMMA SameIs ==
  ASSUME NEW n \in Nat, NEW m, IsSquare(m, n), NEW k, IsSquare(k, n)
  PROVE  Same(m, k) <=>
           \A r, c \in 1..n : Times(m.rows[r][c], Root2Power(k.halvings))
                                = Times(k.rows[r][c], Root2Power(m.halvings))
<1>. DEFINE left  == [r \in 1..n |-> [c \in 1..n |-> Times(m.rows[r][c], Root2Power(k.halvings))]]
            right == [r \in 1..n |-> [c \in 1..n |-> Times(k.rows[r][c], Root2Power(m.halvings))]]
<1>1. SizeOf(m) = n /\ SizeOf(k) = n
  BY SquareType
<1>2. Same(m, k) <=> left = right
  BY <1>1 DEF Same, Rescaled, Matrix
<1>3. \A r, c \in 1..n : /\ left[r][c] = Times(m.rows[r][c], Root2Power(k.halvings))
                         /\ right[r][c] = Times(k.rows[r][c], Root2Power(m.halvings))
  OBVIOUS
<1>4. left = right <=> \A r \in 1..n : left[r] = right[r]
  OBVIOUS
<1>5. ASSUME NEW r \in 1..n
      PROVE  left[r] = right[r] <=> \A c \in 1..n : left[r][c] = right[r][c]
  OBVIOUS
<1>. HIDE DEF left, right
<1>6. QED
  BY <1>2, <1>3, <1>4, <1>5

\* The constructor's check, that the product with the dagger is the identity, says that
\* the rows are orthogonal.
LEMMA UnitaryIsOrthogonal ==
  ASSUME NEW n \in Nat, NEW m, IsSquare(m, n)
  PROVE  IsUnitary(m) <=> HasOrthogonalRows(m, n)
<1>. DEFINE h == m.halvings
            d == dagger(m)
            P == Product(m, d)
            I == identity(n)
            sum(r, c) == SumOver(Null, RowProducts(m, n, r, c), 1..n)
<1>1. h \in Nat /\ SizeOf(m) = n
  BY SquareType
<1>2. d.halvings = h /\ IsSquare(d, n)
  BY DaggerIs
<1>3. P.halvings = h + h /\ IsSquare(P, n)
  <2>. HIDE DEF d
  <2>1. QED
    BY <1>2, ProductIs
<1>4. ASSUME NEW r \in 1..n, NEW c \in 1..n
      PROVE  P.rows[r][c] = sum(r, c) /\ sum(r, c) \in Ring
  <2>1. EntryTerms(m, d, n, r, c) = RowProducts(m, n, r, c)
    <3>1. \A j \in 1..n : d.rows[j][c] = Conj(m.rows[c][j])
      BY DaggerIs
    <3>. HIDE DEF d
    <3>2. QED
      BY <3>1 DEF EntryTerms, RowProducts
  <2>2. P.rows[r][c] = SumOver(Null, EntryTerms(m, d, n, r, c), 1..n)
    <3>. HIDE DEF d
    <3>1. QED
      BY <1>2, ProductIs
  <2>3. sum(r, c) \in Ring
    BY RowsAreColumns
  <2>. HIDE DEF P, d
  <2>4. QED
    BY <2>1, <2>2, <2>3
<1>5. I.halvings = 0 /\ IsSquare(I, n) /\ \A r, c \in 1..n : I.rows[r][c] = IF r = c THEN One ELSE Null
  BY IdentityIs
<1>6. IsUnitary(m) <=> Same(P, I)
  BY <1>1 DEF IsUnitary
<1>. HIDE DEF P, I, sum, d
<1>7. IsUnitary(m) <=> \A r, c \in 1..n : Times(P.rows[r][c], Root2Power(0))
                                            = Times(I.rows[r][c], Root2Power(h + h))
  BY <1>3, <1>5, <1>6, SameIs
<1>8. ASSUME NEW r \in 1..n, NEW c \in 1..n
      PROVE  /\ Times(P.rows[r][c], Root2Power(0)) = sum(r, c)
             /\ Times(I.rows[r][c], Root2Power(h + h)) = IF r = c THEN Real(2^h) ELSE Null
  <2>. DEFINE R == Real(2^h)
  <2>1. Root2Power(0) = Real(1) /\ Root2Power(h + h) = R /\ R \in Ring
    BY <1>1, FactorOfProduct
  <2>. HIDE DEF R
  <2>2. sum(r, c) \in Ring /\ P.rows[r][c] = sum(r, c)
    BY <1>4
  <2>3. Times(sum(r, c), Real(1)) = sum(r, c)
    BY <2>2, TimesRing
  <2>4. Times(One, R) = R /\ Times(Null, R) = Null
    BY <2>1, TimesRing DEF One
  <2>5. I.rows[r][c] = IF r = c THEN One ELSE Null
    BY <1>5
  <2>6. QED
    BY <2>1, <2>2, <2>3, <2>4, <2>5 DEF R
<1>9. IsUnitary(m) <=> \A r, c \in 1..n : sum(r, c) = IF r = c THEN Real(2^h) ELSE Null
  BY <1>7, <1>8
<1>10. QED
  BY <1>9 DEF HasOrthogonalRows, sum

\* A matrix with one entry in each row and column, of magnitude one, is a gate.
IsUnit(z) == z \in Ring /\ Times(z, Conj(z)) = One
IsMonomial(m, n, place, z) ==
  /\ IsSquare(m, n) /\ m.halvings = 0
  /\ place \in [1..n -> 1..n] /\ IsInjective(place)
  /\ \A r \in 1..n : IsUnit(z[r])
  /\ \A r, c \in 1..n : m.rows[r][c] = IF c = place[r] THEN z[r] ELSE Null

LEMMA MonomialIsGate ==
  ASSUME NEW n \in Nat, NEW m, NEW place, NEW z, IsMonomial(m, n, place, z)
  PROVE  IsGate(m, n)
<1>1. /\ IsSquare(m, n) /\ m.halvings = 0
      /\ \A r, c \in 1..n : m.rows[r][c] = IF c = place[r] THEN z[r] ELSE Null
      /\ \A r \in 1..n : place[r] \in 1..n /\ z[r] \in Ring /\ Times(z[r], Conj(z[r])) = One
      /\ \A r, c \in 1..n : place[r] = place[c] => r = c
  BY DEF IsMonomial, IsInjective, IsUnit
<1>2. ASSUME NEW r \in 1..n, NEW c \in 1..n
      PROVE  SumOver(Null, RowProducts(m, n, r, c), 1..n) = IF r = c THEN Real(2^0) ELSE Null
  <2>. DEFINE J == 1..n
              f == RowProducts(m, n, r, c)
              p == place[r]
  <2>1. IsFiniteSet(J) /\ IsSpace(Ring, Null) /\ ValuesIn(f, J, Ring) /\ p \in J
    BY <1>1, FiniteRows, RowsAreColumns
  <2>2. ASSUME NEW j \in J
        PROVE  f[j] = IF j = p /\ r = c THEN One ELSE Null
    <3>1. f[j] = Times(m.rows[r][j], Conj(m.rows[c][j]))
      BY DEF RowProducts
    <3>2. /\ m.rows[r][j] = (IF j = p THEN z[r] ELSE Null)
          /\ m.rows[c][j] = (IF j = place[c] THEN z[c] ELSE Null)
      BY <1>1
    <3>3. Conj(Null) = Null /\ z[r] \in Ring /\ Conj(z[c]) \in Ring /\ Null \in Ring
      BY <1>1, FiniteRows, ConjNull, ConjRing
    <3>4. Times(z[r], Null) = Null /\ Times(Null, Conj(z[c])) = Null /\ Times(Null, Null) = Null
      BY <3>3, TimesRing
    <3>5. r = c => Times(z[r], Conj(z[c])) = One
      BY <1>1
    <3>6. j = p /\ j = place[c] => r = c
      BY <1>1
    <3>. HIDE DEF f
    <3>7. QED
      BY <3>1, <3>2, <3>3, <3>4, <3>5, <3>6
  <2>3. CASE r = c
    <3>1. \A j \in J \ {p} : f[j] = Null
      BY <2>2
    <3>2. f[p] = One
      BY <2>1, <2>2, <2>3
    <3>. HIDE DEF f, J, p
    <3>3. SumOver(Null, f, J) = f[p]
      BY <2>1, <3>1, OneTerm
    <3>4. One = Real(2^0)
      BY PowersOfTwo DEF One
    <3>5. QED
      BY <2>3, <3>2, <3>3, <3>4 DEF f, J
  <2>4. CASE r # c
    <3>1. \A j \in J : f[j] = Null
      BY <2>2, <2>4
    <3>. HIDE DEF f, J
    <3>2. SumOver(Null, f, J) = Null
      BY <2>1, <3>1, SumNull
    <3>3. QED
      BY <2>4, <3>2 DEF f, J
  <2>5. QED
    BY <2>3, <2>4
<1>3. QED
  BY <1>1, <1>2 DEF IsGate, HasOrthogonalRows

LEMMA TimesInterchange ==
  ASSUME NEW x \in Ring, NEW y \in Ring, NEW a \in Ring, NEW b \in Ring
  PROVE  Times(Times(x, y), Times(a, b)) = Times(Times(x, a), Times(y, b))
<1>1. Times(a, b) \in Ring /\ Times(y, b) \in Ring
  BY TimesRing
<1>2. Times(Times(x, y), Times(a, b)) = Times(x, Times(y, Times(a, b)))
  BY <1>1, TimesAssociates
<1>3. Times(Times(x, a), Times(y, b)) = Times(x, Times(a, Times(y, b)))
  BY <1>1, TimesAssociates
<1>4. Times(y, Times(a, b)) = Times(a, Times(y, b))
  BY TimesSwap
<1>5. QED
  BY <1>2, <1>3, <1>4

LEMMA OneIsUnit == IsUnit(One) /\ One \in Ring /\ Null \in Ring
<1>1. One \in Ring /\ Null \in Ring
  BY DEF One, Real, Null, Ring
<1>2. Conj(One) = One
  BY ConjReal DEF One
<1>3. Times(One, One) = One
  BY <1>1, TimesRing DEF One
<1>4. QED
  BY <1>1, <1>2, <1>3 DEF IsUnit

LEMMA IdentityIsGate ==
  ASSUME NEW n \in Nat
  PROVE  IsGate(identity(n), n)
<1>. DEFINE place == [r \in 1..n |-> r]
            z     == [r \in 1..n |-> One]
<1>1. /\ identity(n).halvings = 0 /\ IsSquare(identity(n), n)
      /\ \A r, c \in 1..n : identity(n).rows[r][c] = IF r = c THEN One ELSE Null
  BY IdentityIs
<1>2. IsMonomial(identity(n), n, place, z)
  BY <1>1, OneIsUnit DEF IsMonomial, IsInjective
<1>3. QED
  BY <1>2, MonomialIsGate

LEMMA DaggerIsGate ==
  ASSUME NEW n \in Nat, NEW m, IsGate(m, n)
  PROVE  IsGate(dagger(m), n)
<1>. DEFINE K == RowTable(m, n)
            size == 2^m.halvings
            d == dagger(m)
<1>1. IsSquare(m, n) /\ m.halvings \in Nat /\ IsFiniteSet(1..n)
  BY SquareType, FiniteRows DEF IsGate
<1>2. d.halvings = m.halvings /\ IsSquare(d, n) /\ \A r, c \in 1..n : d.rows[r][c] = Conj(m.rows[c][r])
  BY <1>1, DaggerIs
<1>3. size \in Nat \ {0}
  BY <1>1, PowersOfTwo
<1>4. IsKernel(K, 1..n, 1..n) /\ IsOrthogonal(K, 1..n, 1..n, size)
  BY <1>1, RowsAreColumns DEF IsGate
<1>5. IsOrthogonal(Transposed(K, 1..n), 1..n, 1..n, size)
  <2>. DEFINE J == 1..n
  <2>. HIDE DEF J, K, size
  <2>1. IsFiniteSet(J) /\ IsKernel(K, J, J) /\ IsOrthogonal(K, J, J, size)
    BY <1>1, <1>4 DEF J
  <2>2. IsOrthogonal(Transposed(K, J), J, J, size)
    BY <1>3, <2>1, RowsAndColumns
  <2>3. QED
    BY <2>2 DEF J
<1>6. ASSUME NEW r \in 1..n, NEW c \in 1..n
      PROVE  SumOver(Null, RowProducts(d, n, r, c), 1..n) = IF r = c THEN Real(size) ELSE Null
  <2>1. ASSUME NEW j \in 1..n
        PROVE  RowProducts(d, n, r, c)[j] = ColumnProducts(Transposed(K, 1..n), 1..n, c, r)[j]
    <3>1. Transposed(K, 1..n)[<<j, c>>] = m.rows[j][c] /\ Transposed(K, 1..n)[<<j, r>>] = m.rows[j][r]
      BY DEF Transposed, RowTable
    <3>2. m.rows[j][c] \in Ring /\ m.rows[j][r] \in Ring /\ Conj(m.rows[j][r]) \in Ring
      BY <1>1, SquareType
    <3>3. d.rows[r][j] = Conj(m.rows[j][r]) /\ d.rows[c][j] = Conj(m.rows[j][c])
      BY <1>2
    <3>. HIDE DEF d, K
    <3>4. RowProducts(d, n, r, c)[j] = Times(Conj(m.rows[j][r]), Conj(Conj(m.rows[j][c])))
      BY <3>3 DEF RowProducts
    <3>5. ColumnProducts(Transposed(K, 1..n), 1..n, c, r)[j] = Times(m.rows[j][c], Conj(m.rows[j][r]))
      BY <3>1 DEF ColumnProducts
    <3>6. Conj(Conj(m.rows[j][c])) = m.rows[j][c]
      BY <3>2, ConjRing
    <3>7. QED
      BY <3>2, <3>4, <3>5, <3>6, TimesRing
  <2>. HIDE DEF d, K, size
  <2>2. RowProducts(d, n, r, c) = ColumnProducts(Transposed(K, 1..n), 1..n, c, r)
    BY <2>1 DEF RowProducts, ColumnProducts
  <2>3. QED
    BY <1>5, <2>2 DEF IsOrthogonal
<1>7. QED
  BY <1>2, <1>6 DEF IsGate, HasOrthogonalRows

LEMMA ProductIsGate ==
  ASSUME NEW n \in Nat, NEW m, IsGate(m, n), NEW k, IsGate(k, n)
  PROVE  IsGate(Product(m, k), n)
<1>. DEFINE P == Product(m, k)
            J == 1..n
            K == RowTable(k, n)
            row(r) == [j \in J |-> m.rows[r][j]]
            size == 2^k.halvings
<1>1. IsSquare(m, n) /\ IsSquare(k, n) /\ IsFiniteSet(J) /\ m.halvings \in Nat /\ k.halvings \in Nat
  BY SquareType, FiniteRows DEF IsGate
<1>2. P.halvings = m.halvings + k.halvings /\ IsSquare(P, n)
  BY <1>1, ProductIs
<1>3. IsKernel(K, J, J) /\ IsOrthogonal(K, J, J, size) /\ size \in Int
  BY <1>1, RowsAreColumns, PowersOfTwo DEF IsGate
<1>4. \A r \in J : ValuesIn(row(r), J, Ring)
  BY <1>1, SquareType DEF ValuesIn
<1>5. ASSUME NEW r \in J, NEW c \in J
      PROVE  P.rows[r][c] = Output(K, row(r), J, J, c)
  <2>1. P.rows[r][c] = SumOver(Null, EntryTerms(m, k, n, r, c), J)
    BY <1>1, ProductIs
  <2>2. EntryTerms(m, k, n, r, c) = Terms(K, row(r), J, c)
    BY DEF EntryTerms, Terms, RowTable
  <2>3. QED
    BY <2>1, <2>2 DEF Output
<1>6. ASSUME NEW r \in J, NEW c \in J
      PROVE  SumOver(Null, RowProducts(P, n, r, c), J)
               = IF r = c THEN Real(2^(m.halvings + k.halvings)) ELSE Null
  <2>. DEFINE a == row(r)
              b == row(c)
  <2>1. RowProducts(P, n, r, c) = [w \in J |-> Times(Output(K, a, J, J, w), Conj(Output(K, b, J, J, w)))]
    <3>. HIDE DEF P, K, row
    <3>1. QED
      BY <1>5 DEF RowProducts
  <2>2. RowProducts(m, n, r, c) = [v \in J |-> Times(a[v], Conj(b[v]))]
    BY DEF RowProducts
  <2>3. SumOver(Null, RowProducts(m, n, r, c), J) = IF r = c THEN Real(2^m.halvings) ELSE Null
    BY DEF IsGate, HasOrthogonalRows
  <2>4. ValuesIn(a, J, Ring) /\ ValuesIn(b, J, Ring)
    BY <1>4
  <2>. HIDE DEF a, b, P, K, J, row, size
  <2>5. SumOver(Null, RowProducts(P, n, r, c), J)
          = Times(Real(size), SumOver(Null, RowProducts(m, n, r, c), J))
    BY <1>1, <1>3, <2>1, <2>2, <2>4, ProductsScaled
  <2>6. Times(Real(size), Null) = Null
    BY <1>3, RealTimes, FiniteRows, TimesRing
  <2>7. Times(Real(size), Real(2^m.halvings)) = Real(2^(m.halvings + k.halvings))
    <3>1. 2^m.halvings \in Int /\ 2^(m.halvings + k.halvings) = 2^m.halvings * size
      <4>1. m.halvings \in Nat /\ k.halvings \in Nat
        BY <1>1
      <4>2. 2^m.halvings \in Nat
        BY <4>1, PowersOfTwo
      <4>3. 2^(m.halvings + k.halvings) = 2^m.halvings * 2^k.halvings
        BY <4>1, PowersMultiply
      <4>4. QED
        BY <4>2, <4>3 DEF size
    <3>2. \A x, y \in Int : Times(Real(x), Real(y)) = Real(y * x)
      <4>1. ASSUME NEW x \in Int, NEW y \in Int
            PROVE  Times(Real(x), Real(y)) = Real(y * x)
        <5>1. Real(x) \in Ring
          BY RealTimes, FiniteRows
        <5>2. Times(Real(x), Real(y)) = <<y * Real(x)[1], y * Real(x)[2], y * Real(x)[3], y * Real(x)[4]>>
          BY <5>1, RealTimes
        <5>3. y * 0 = 0
          OBVIOUS
        <5>4. QED
          BY <5>2, <5>3 DEF Real
      <4>2. QED
        BY <4>1
    <3>3. Times(Real(size), Real(2^m.halvings)) = Real(2^m.halvings * size)
      BY <1>3, <3>1, <3>2
    <3>4. QED
      BY <3>1, <3>3
  <2>8. QED
    BY <2>3, <2>5, <2>6, <2>7
<1>7. QED
  BY <1>2, <1>6 DEF IsGate, HasOrthogonalRows


-----------------------------------------------------------------------------
(* The default gates.                                                      *)

\* The sum of two terms.
LEMMA TwoTerms ==
  ASSUME NEW f, f[1] \in Ring, f[2] \in Ring
  PROVE  SumOver(Null, f, 1..2) = Plus(f[1], f[2])
<1>. DEFINE J == 1..2
            rest == {2}
<1>1. IsFiniteSet(J) /\ IsSpace(Ring, Null) /\ Null \in Ring /\ J = {1, 2}
  <2>1. 2 \in Nat /\ J = {1, 2}
    OBVIOUS
  <2>2. QED
    BY <2>1, FiniteRows
<1>2. ValuesIn(f, J, Ring) /\ J \in SUBSET J /\ rest \in SUBSET J /\ J \ {1} = rest /\ rest \ {2} = {}
  BY <1>1 DEF ValuesIn
<1>3. 1 \in J /\ 2 \in rest
  OBVIOUS
<1>. HIDE DEF J, rest
<1>4. SumOver(Null, f, J) = Plus(f[1], SumOver(Null, f, J \ {1}))
  BY <1>1, <1>2, <1>3, Sums
<1>5. SumOver(Null, f, rest) = Plus(f[2], SumOver(Null, f, rest \ {2})) /\ SumOver(Null, f, {}) = Null
  BY <1>1, <1>2, <1>3, Sums
<1>6. Plus(f[2], Null) = f[2]
  BY <1>1, PlusRing
<1>7. QED
  BY <1>2, <1>4, <1>5, <1>6 DEF J

\* A matrix of two rows.
LEMMA TwoRowsAreGate ==
  ASSUME NEW h \in Nat, NEW a \in Ring, NEW b \in Ring, NEW c \in Ring, NEW d \in Ring,
         Plus(Times(a, Conj(a)), Times(b, Conj(b))) = Real(2^h),
         Plus(Times(c, Conj(c)), Times(d, Conj(d))) = Real(2^h),
         Plus(Times(a, Conj(c)), Times(b, Conj(d))) = Null
  PROVE  IsGate(Matrix(h, <<<<a, b>>, <<c, d>>>>), 2)
<1>. DEFINE m == Matrix(h, <<<<a, b>>, <<c, d>>>>)
            products(r, k) == RowProducts(m, 2, r, k)
            inner(w, x, y, z) == Plus(Times(w, Conj(y)), Times(x, Conj(z)))
<1>1. IsSquare(m, 2) /\ m.halvings = h
  BY DEF IsSquare, Matrix
<1>2. m.rows[1][1] = a /\ m.rows[1][2] = b /\ m.rows[2][1] = c /\ m.rows[2][2] = d
  BY DEF Matrix
<1>. HIDE DEF m
<1>3. Conj(a) \in Ring /\ Conj(b) \in Ring /\ Conj(c) \in Ring /\ Conj(d) \in Ring
  BY ConjRing
<1>4. ASSUME NEW r \in 1..2, NEW k \in 1..2, NEW w \in Ring, NEW x \in Ring, NEW y \in Ring, NEW z \in Ring,
             m.rows[r][1] = w, m.rows[r][2] = x, m.rows[k][1] = y, m.rows[k][2] = z
      PROVE  SumOver(Null, products(r, k), 1..2) = inner(w, x, y, z)
  <2>1. products(r, k)[1] = Times(w, Conj(y)) /\ products(r, k)[2] = Times(x, Conj(z))
    BY <1>4 DEF RowProducts
  <2>2. Times(w, Conj(y)) \in Ring /\ Times(x, Conj(z)) \in Ring
    BY ConjRing, TimesRing
  <2>. HIDE DEF products
  <2>3. QED
    BY <2>1, <2>2, TwoTerms
<1>5. inner(c, d, a, b) = Null
  <2>1. Times(a, Conj(c)) \in Ring /\ Times(b, Conj(d)) \in Ring
    BY <1>3, TimesRing
  <2>2. Conj(Times(a, Conj(c))) = Times(Conj(a), c) /\ Conj(Times(b, Conj(d))) = Times(Conj(b), d)
    BY <1>3, ConjRing
  <2>3. Times(Conj(a), c) = Times(c, Conj(a)) /\ Times(Conj(b), d) = Times(d, Conj(b))
    BY <1>3, TimesRing
  <2>4. Conj(Plus(Times(a, Conj(c)), Times(b, Conj(d)))) = Plus(Conj(Times(a, Conj(c))), Conj(Times(b, Conj(d))))
    BY <2>1, ConjRing
  <2>5. QED
    BY <2>2, <2>3, <2>4, ConjNull
<1>. HIDE DEF products
<1>6. /\ SumOver(Null, products(1, 1), 1..2) = Real(2^h)
      /\ SumOver(Null, products(1, 2), 1..2) = Null
      /\ SumOver(Null, products(2, 1), 1..2) = Null
      /\ SumOver(Null, products(2, 2), 1..2) = Real(2^h)
  BY <1>2, <1>4, <1>5
<1>7. \A r, k \in 1..2 : SumOver(Null, products(r, k), 1..2) = IF r = k THEN Real(2^h) ELSE Null
  <2>1. ASSUME NEW r \in 1..2, NEW k \in 1..2
        PROVE  SumOver(Null, products(r, k), 1..2) = IF r = k THEN Real(2^h) ELSE Null
    <3>1. r = 1 \/ r = 2
      OBVIOUS
    <3>2. k = 1 \/ k = 2
      OBVIOUS
    <3>3. QED
      BY <1>6, <3>1, <3>2
  <2>2. QED
    BY <2>1
<1>8. QED
  BY <1>1, <1>7 DEF IsGate, HasOrthogonalRows, products, m

\* The product and the sum of numbers that are given by their parts.
LEMMA Parts ==
  ASSUME NEW a \in Int, NEW b \in Int, NEW c \in Int, NEW d \in Int,
         NEW e \in Int, NEW f \in Int, NEW g \in Int, NEW h \in Int
  PROVE  /\ <<a, b, c, d>> \in Ring /\ Conj(<<a, b, c, d>>) = <<a, -d, -c, -b>>
         /\ Minus(<<a, b, c, d>>) = <<-a, -b, -c, -d>>
         /\ Plus(<<a, b, c, d>>, <<e, f, g, h>>) = <<a + e, b + f, c + g, d + h>>
         /\ Times(<<a, b, c, d>>, <<e, f, g, h>>)
              = << a*e - b*h - c*g - d*f, a*f + b*e - c*h - d*g,
                   a*g + b*f + c*e - d*h, a*h + b*g + c*f + d*e >>
<1>. DEFINE x == <<a, b, c, d>>
            y == <<e, f, g, h>>
<1>1. x \in Ring /\ y \in Ring
  BY DEF Ring
<1>2. Times(x, y) = Convolution(x, y)
  BY <1>1, TimesConvolutes
<1>3. QED
  BY <1>1, <1>2 DEF Conj, Minus, Plus, Convolution

LEMMA SmallPowers == 2^0 = 1 /\ 2^1 = 2 /\ 2^2 = 4 /\ 2^3 = 8
<1>1. /\ 0 \in Nat /\ 1 \in Nat /\ 2 \in Nat
      /\ 0 + 1 = 1 /\ 1 + 1 = 2 /\ 2 + 1 = 3
  OBVIOUS
<1>2. 2^0 = 1 /\ 2^(0 + 1) = 2 * 2^0 /\ 2^(1 + 1) = 2 * 2^1 /\ 2^(2 + 1) = 2 * 2^2
  BY <1>1, PowersOfTwo
<1>3. QED
  BY <1>1, <1>2

LEMMA MinusMinusOne == -(-1) = 1
<1>1. \A k \in Int : k + 1 = 0 => -k = 1
  OBVIOUS
<1>2. -1 \in Int /\ (-1) + 1 = 0
  OBVIOUS
<1>3. QED
  BY <1>1, <1>2

\* The numbers that gates are made of.
LEMMA Units ==
  /\ IsUnit(One) /\ IsUnit(Imag) /\ IsUnit(Omega)
  /\ IsUnit(Minus(One)) /\ IsUnit(Minus(Imag))
<1>1. One = <<1, 0, 0, 0>> /\ Imag = <<0, 0, 1, 0>> /\ Omega = <<0, 1, 0, 0>>
  BY DEF One, Imag, Omega, Real
<1>2. Minus(One) = <<-1, 0, 0, 0>> /\ Minus(Imag) = <<0, 0, -1, 0>>
  BY <1>1, Parts, MinusZero
<1>3. /\ <<1, 0, 0, 0>> \in Ring /\ <<0, 0, 1, 0>> \in Ring /\ <<0, 1, 0, 0>> \in Ring
      /\ <<-1, 0, 0, 0>> \in Ring /\ <<0, 0, -1, 0>> \in Ring
  BY DEF Ring
<1>4. /\ Conj(<<1, 0, 0, 0>>) = <<1, 0, 0, 0>> /\ Conj(<<0, 0, 1, 0>>) = <<0, 0, -1, 0>>
      /\ Conj(<<0, 1, 0, 0>>) = <<0, 0, 0, -1>>
      /\ Conj(<<-1, 0, 0, 0>>) = <<-1, 0, 0, 0>> /\ Conj(<<0, 0, -1, 0>>) = <<0, 0, 1, 0>>
  BY MinusZero, MinusMinusOne DEF Conj
<1>5. /\ Times(<<1, 0, 0, 0>>, <<1, 0, 0, 0>>) = <<1, 0, 0, 0>>
      /\ Times(<<0, 0, 1, 0>>, <<0, 0, -1, 0>>) = <<1, 0, 0, 0>>
      /\ Times(<<0, 1, 0, 0>>, <<0, 0, 0, -1>>) = <<1, 0, 0, 0>>
      /\ Times(<<-1, 0, 0, 0>>, <<-1, 0, 0, 0>>) = <<1, 0, 0, 0>>
      /\ Times(<<0, 0, -1, 0>>, <<0, 0, 1, 0>>) = <<1, 0, 0, 0>>
  BY DEF Times, Null
<1>6. QED
  BY <1>1, <1>2, <1>3, <1>4, <1>5 DEF IsUnit

LEMMA UnitTimes ==
  ASSUME NEW x, IsUnit(x), NEW y, IsUnit(y)
  PROVE  IsUnit(Times(x, y))
<1>1. /\ x \in Ring /\ y \in Ring /\ Conj(x) \in Ring /\ Conj(y) \in Ring /\ Times(x, y) \in Ring
      /\ One \in Ring
  BY ConjRing, TimesRing, OneIsUnit DEF IsUnit
<1>2. Conj(Times(x, y)) = Times(Conj(x), Conj(y))
  BY <1>1, ConjRing
<1>3. Times(Times(x, y), Times(Conj(x), Conj(y))) = Times(Times(x, Conj(x)), Times(y, Conj(y)))
  BY <1>1, TimesInterchange
<1>4. Times(One, One) = One
  BY <1>1, TimesRing DEF One
<1>5. QED
  BY <1>1, <1>2, <1>3, <1>4 DEF IsUnit

\* exp(i*k*pi/4) for the eight residues of k.
PhaseOf(r) ==
  <<<<1, 0, 0, 0>>, <<0, 1, 0, 0>>, <<0, 0, 1, 0>>, <<0, 0, 0, 1>>,
    <<-1, 0, 0, 0>>, <<0, -1, 0, 0>>, <<0, 0, -1, 0>>, <<0, 0, 0, -1>>>>[r + 1]

LEMMA PhaseIs ==
  ASSUME NEW k \in Int
  PROVE  Phase(k) = PhaseOf(k % 8) /\ IsUnit(Phase(k))
<1>. DEFINE IsExp(e) == e = [n \in 0..7 |-> IF n = 0 THEN One ELSE Times(Omega, e[n - 1])]
            exp == CHOOSE e : IsExp(e)
            table == [n \in 0..7 |-> PhaseOf(n)]
<1>1. Phase(k) = exp[k % 8] /\ k % 8 \in 0..7
  BY DEF Phase
<1>2. /\ PhaseOf(0) = One
      /\ \A n \in 1..7 : PhaseOf(n) = Times(Omega, PhaseOf(n - 1))
  <2>1. PhaseOf(0) = One
    BY DEF PhaseOf, One, Real
  <2>2. ASSUME NEW n \in 1..7
        PROVE  PhaseOf(n) = Times(Omega, PhaseOf(n - 1))
    <3>1. n = 1 \/ n = 2 \/ n = 3 \/ n = 4 \/ n = 5 \/ n = 6 \/ n = 7
      OBVIOUS
    <3>2. QED
      BY <3>1 DEF PhaseOf, Omega, Times, Null
  <2>3. QED
    BY <2>1, <2>2
<1>3. IsExp(table)
  <2>1. ASSUME NEW n \in 0..7
        PROVE  table[n] = IF n = 0 THEN One ELSE Times(Omega, table[n - 1])
    <3>1. CASE n = 0
      BY <1>2, <3>1
    <3>2. CASE n # 0
      <4>1. n \in 1..7 /\ n - 1 \in 0..7
        BY <3>2
      <4>. HIDE DEF PhaseOf
      <4>2. QED
        BY <1>2, <3>2, <4>1
    <3>3. QED
      BY <3>1, <3>2
  <2>. HIDE DEF PhaseOf
  <2>2. QED
    BY <2>1
<1>4. exp = [n \in 0..7 |-> IF n = 0 THEN One ELSE Times(Omega, exp[n - 1])]
  <2>. HIDE DEF IsExp, table
  <2>1. IsExp(exp)
    BY <1>3
  <2>2. QED
    BY <2>1 DEF IsExp
<1>. HIDE DEF exp
<1>5. exp[0] = One /\ \A n \in 0..6 : exp[n + 1] = Times(Omega, exp[n])
  BY <1>4
<1>. DEFINE Good == {n \in Nat : n \in 0..7 => exp[n] = PhaseOf(n) /\ IsUnit(exp[n])}
<1>6. 0 \in Good
  BY <1>2, <1>5, Units
<1>7. ASSUME NEW n \in Good
      PROVE  n + 1 \in Good
  <2>. SUFFICES ASSUME n + 1 \in 0..7
                PROVE  exp[n + 1] = PhaseOf(n + 1) /\ IsUnit(exp[n + 1])
    OBVIOUS
  <2>1. n \in 0..6 /\ n \in 0..7 /\ n + 1 \in 1..7 /\ (n + 1) - 1 = n
    OBVIOUS
  <2>2. exp[n + 1] = Times(Omega, exp[n])
    BY <1>5, <2>1
  <2>3. exp[n] = PhaseOf(n) /\ IsUnit(exp[n])
    BY <2>1
  <2>4. PhaseOf(n + 1) = Times(Omega, PhaseOf(n))
    BY <1>2, <2>1
  <2>5. QED
    BY <2>2, <2>3, <2>4, Units, UnitTimes
<1>8. Good = Nat
  <2>1. Good \in SUBSET Nat
    OBVIOUS
  <2>. HIDE DEF Good
  <2>2. QED
    BY <1>6, <1>7, <2>1, Induction
<1>9. k % 8 \in Good /\ k % 8 \in 0..7
  BY <1>1, <1>8
<1>10. exp[k % 8] = PhaseOf(k % 8) /\ IsUnit(exp[k % 8])
  BY <1>9
<1>11. QED
  BY <1>1, <1>10

\* sqrt(2) times the cosine of r*pi/4.
CosineOf(r) ==
  <<<<0, 1, 0, -1>>, <<1, 0, 0, 0>>, <<0, 0, 0, 0>>, <<-1, 0, 0, 0>>,
    <<0, -1, 0, 1>>, <<-1, 0, 0, 0>>, <<0, 0, 0, 0>>, <<1, 0, 0, 0>>>>[r + 1]

LEMMA CosineIs ==
  ASSUME NEW k \in Int
  PROVE  Cosine(k) = CosineOf(k % 8)
<1>. DEFINE r == k % 8
            z == Plus(Phase(k), Phase(-k))
<1>1. r \in 0..7 /\ (-k) % 8 = (IF r = 0 THEN 0 ELSE 8 - r) /\ -k \in Int
  OBVIOUS
<1>2. Phase(k) = PhaseOf(r) /\ Phase(-k) = PhaseOf(IF r = 0 THEN 0 ELSE 8 - r)
  BY <1>1, PhaseIs
<1>3. Root2Power(1) = Root2
  <2>1. 1 % 2 = 1 /\ 1 % 2 # 0 /\ 1 \div 2 = 0 /\ 1 \in Nat
    OBVIOUS
  <2>2. Root2Power(1) = <<0, 2^0, 0, -(2^0)>>
    BY <2>1, Root2Powers
  <2>3. QED
    BY <2>2, SmallPowers DEF Root2
<1>4. Cosine(k) = [j \in 1..4 |-> Times(z, Root2)[j] \div 2]
  BY <1>3, SmallPowers DEF Cosine, Divide
<1>. HIDE DEF r
<1>5. z = << <<2, 0, 0, 0>>, <<0, 1, 0, -1>>, <<0, 0, 0, 0>>, <<0, -1, 0, 1>>,
             <<-2, 0, 0, 0>>, <<0, -1, 0, 1>>, <<0, 0, 0, 0>>, <<0, 1, 0, -1>> >>[r + 1]
  <2>1. r = 0 \/ r = 1 \/ r = 2 \/ r = 3 \/ r = 4 \/ r = 5 \/ r = 6 \/ r = 7
    BY <1>1
  <2>2. QED
    BY <1>2, <2>1 DEF PhaseOf, Plus
<1>. HIDE DEF z
<1>6. Times(z, Root2) = << <<0, 2, 0, -2>>, <<2, 0, 0, 0>>, <<0, 0, 0, 0>>, <<-2, 0, 0, 0>>,
                           <<0, -2, 0, 2>>, <<-2, 0, 0, 0>>, <<0, 0, 0, 0>>, <<2, 0, 0, 0>> >>[r + 1]
  <2>1. r = 0 \/ r = 1 \/ r = 2 \/ r = 3 \/ r = 4 \/ r = 5 \/ r = 6 \/ r = 7
    BY <1>1
  <2>2. QED
    BY <1>5, <2>1 DEF Times, Null, Root2
<1>7. Cosine(k) = CosineOf(r)
  <2>1. r = 0 \/ r = 1 \/ r = 2 \/ r = 3 \/ r = 4 \/ r = 5 \/ r = 6 \/ r = 7
    BY <1>1
  <2>2. 2 \div 2 = 1 /\ 0 \div 2 = 0 /\ (-2) \div 2 = -1
    OBVIOUS
  <2>. DEFINE t == Times(z, Root2)
  <2>3. Cosine(k) = <<t[1] \div 2, t[2] \div 2, t[3] \div 2, t[4] \div 2>>
    BY <1>4
  <2>4. t = << <<0, 2, 0, -2>>, <<2, 0, 0, 0>>, <<0, 0, 0, 0>>, <<-2, 0, 0, 0>>,
               <<0, -2, 0, 2>>, <<-2, 0, 0, 0>>, <<0, 0, 0, 0>>, <<2, 0, 0, 0>> >>[r + 1]
    BY <1>6
  <2>. HIDE DEF t
  <2>5. QED
    BY <2>1, <2>2, <2>3, <2>4 DEF CosineOf
<1>8. QED
  BY <1>7 DEF r

LEMMA CosineAndSine ==
  ASSUME NEW k \in Int
  PROVE  /\ Cosine(k) \in Ring /\ Conj(Cosine(k)) = Cosine(k)
         /\ Sine(k) \in Ring /\ Conj(Sine(k)) = Sine(k)
         /\ Plus(Times(Cosine(k), Cosine(k)), Times(Sine(k), Sine(k))) = Real(2)
<1>. DEFINE r == k % 8
<1>1. r \in 0..7 /\ (k - 2) % 8 = (IF r < 2 THEN r + 6 ELSE r - 2) /\ k - 2 \in Int
  OBVIOUS
<1>2. Cosine(k) = CosineOf(r) /\ Sine(k) = CosineOf(IF r < 2 THEN r + 6 ELSE r - 2)
  BY <1>1, CosineIs DEF Sine
<1>. HIDE DEF r
<1>3. \A j \in 0..7 : CosineOf(j) \in Ring /\ Conj(CosineOf(j)) = CosineOf(j)
  <2>1. ASSUME NEW j \in 0..7
        PROVE  CosineOf(j) \in Ring /\ Conj(CosineOf(j)) = CosineOf(j)
    <3>1. j = 0 \/ j = 1 \/ j = 2 \/ j = 3 \/ j = 4 \/ j = 5 \/ j = 6 \/ j = 7
      OBVIOUS
    <3>2. CosineOf(j) \in Ring
      BY <3>1 DEF CosineOf, Ring
    <3>3. Conj(CosineOf(j)) = CosineOf(j)
      BY <3>1, MinusZero DEF CosineOf, Conj
    <3>4. QED
      BY <3>2, <3>3
  <2>2. QED
    BY <2>1
<1>4. \A j \in 0..7 : Times(CosineOf(j), CosineOf(j)) =
        <<<<2, 0, 0, 0>>, <<1, 0, 0, 0>>, <<0, 0, 0, 0>>, <<1, 0, 0, 0>>,
          <<2, 0, 0, 0>>, <<1, 0, 0, 0>>, <<0, 0, 0, 0>>, <<1, 0, 0, 0>>>>[j + 1]
  <2>1. ASSUME NEW j \in 0..7
        PROVE  Times(CosineOf(j), CosineOf(j)) =
        <<<<2, 0, 0, 0>>, <<1, 0, 0, 0>>, <<0, 0, 0, 0>>, <<1, 0, 0, 0>>,
          <<2, 0, 0, 0>>, <<1, 0, 0, 0>>, <<0, 0, 0, 0>>, <<1, 0, 0, 0>>>>[j + 1]
    <3>1. j = 0 \/ j = 1 \/ j = 2 \/ j = 3 \/ j = 4 \/ j = 5 \/ j = 6 \/ j = 7
      OBVIOUS
    <3>2. QED
      BY <3>1 DEF CosineOf, Times, Null
  <2>2. QED
    BY <2>1
<1>5. Plus(Times(Cosine(k), Cosine(k)), Times(Sine(k), Sine(k))) = Real(2)
  <2>1. r = 0 \/ r = 1 \/ r = 2 \/ r = 3 \/ r = 4 \/ r = 5 \/ r = 6 \/ r = 7
    BY <1>1
  <2>2. \/ Times(Cosine(k), Cosine(k)) = <<2, 0, 0, 0>> /\ Times(Sine(k), Sine(k)) = <<0, 0, 0, 0>>
        \/ Times(Cosine(k), Cosine(k)) = <<1, 0, 0, 0>> /\ Times(Sine(k), Sine(k)) = <<1, 0, 0, 0>>
        \/ Times(Cosine(k), Cosine(k)) = <<0, 0, 0, 0>> /\ Times(Sine(k), Sine(k)) = <<2, 0, 0, 0>>
    BY <1>2, <1>4, <2>1
  <2>3. QED
    BY <2>2 DEF Plus, Real
<1>6. QED
  BY <1>1, <1>2, <1>3, <1>5

\* A diagonal matrix, and one with its entries elsewhere, of two rows.
LEMMA PhasesAreGate ==
  ASSUME NEW u, IsUnit(u), NEW v, IsUnit(v)
  PROVE  /\ IsGate(Matrix(0, <<<<u, Null>>, <<Null, v>>>>), 2)
         /\ IsGate(Matrix(0, <<<<Null, u>>, <<v, Null>>>>), 2)
<1>1. /\ u \in Ring /\ v \in Ring /\ Conj(u) \in Ring /\ Conj(v) \in Ring /\ Null \in Ring
      /\ Times(u, Conj(u)) = One /\ Times(v, Conj(v)) = One /\ One \in Ring /\ 0 \in Nat
  BY OneIsUnit, ConjRing DEF IsUnit
<1>2. /\ Conj(Null) = Null /\ Times(Null, Null) = Null
      /\ Times(u, Null) = Null /\ Times(Null, Conj(v)) = Null /\ Times(Null, Conj(u)) = Null /\ Times(v, Null) = Null
  BY <1>1, ConjNull, TimesRing
<1>3. Plus(One, Null) = One /\ Plus(Null, One) = One /\ Plus(Null, Null) = Null
  BY <1>1, PlusRing
<1>4. One = Real(2^0)
  BY SmallPowers DEF One
<1>5. IsGate(Matrix(0, <<<<u, Null>>, <<Null, v>>>>), 2)
  BY <1>1, <1>2, <1>3, <1>4, TwoRowsAreGate
<1>6. IsGate(Matrix(0, <<<<Null, u>>, <<v, Null>>>>), 2)
  BY <1>1, <1>2, <1>3, <1>4, TwoRowsAreGate
<1>7. QED
  BY <1>5, <1>6

LEMMA FixedOfTwoRows ==
  /\ IsGate(IDENTITY, 2) /\ IsGate(X, 2) /\ IsGate(Y, 2) /\ IsGate(Z, 2) /\ IsGate(S, 2)
  /\ IsGate(T, 2) /\ IsGate(SDAG, 2) /\ IsGate(TDAG, 2)
<1>1. IsGate(X, 2) /\ IsGate(Y, 2)
  BY Units, PhasesAreGate DEF X, Y
<1>2. IsGate(Z, 2) /\ IsGate(S, 2) /\ IsGate(T, 2)
  BY Units, PhasesAreGate DEF Z, S, T, Diagonal
<1>3. 2 \in Nat
  OBVIOUS
<1>4. IsGate(IDENTITY, 2)
  BY <1>3, IdentityIsGate DEF IDENTITY
<1>5. IsGate(SDAG, 2) /\ IsGate(TDAG, 2)
  BY <1>2, <1>3, DaggerIsGate DEF SDAG, TDAG
<1>6. QED
  BY <1>1, <1>2, <1>4, <1>5

\* A matrix of two rows whose entries all have the magnitude of w.
LEMMA FixedDense ==
  IsGate(H, 2) /\ IsGate(X90, 2) /\ IsGate(MX90, 2) /\ IsGate(Y90, 2) /\ IsGate(MY90, 2)
<1>1. IsGate(H, 2)
  <2>. DEFINE a == <<1, 0, 0, 0>>
              d == <<-1, 0, 0, 0>>
  <2>1. One = a /\ Minus(One) = d /\ a \in Ring /\ d \in Ring /\ 1 \in Nat
    BY MinusZero DEF One, Real, Minus, Ring
  <2>2. Conj(a) = a /\ Conj(d) = d
    BY MinusZero DEF Conj
  <2>3. Times(a, a) = a /\ Times(d, d) = a /\ Times(a, d) = d
    BY DEF Times, Null
  <2>4. Plus(a, a) = Real(2^1) /\ Plus(a, d) = Null
    BY SmallPowers DEF Plus, Real, Null
  <2>. HIDE DEF a, d
  <2>5. QED
    BY <2>1, <2>2, <2>3, <2>4, TwoRowsAreGate DEF H
<1>2. /\ IsGate(X90, 2) /\ IsGate(MX90, 2) /\ IsGate(Y90, 2) /\ IsGate(MY90, 2)
  <2>. DEFINE a == <<1, 0, 1, 0>>
              b == <<1, 0, -1, 0>>
              c == <<-1, 0, -1, 0>>
              d == <<-1, 0, 1, 0>>
              x == <<2, 0, 0, 0>>
              y == <<0, 0, 2, 0>>
              z == <<0, 0, -2, 0>>
              w == <<-2, 0, 0, 0>>
  <2>1. /\ Complex(1, 1) = a /\ Complex(1, -1) = b /\ Complex(-1, -1) = c /\ Complex(-1, 1) = d
        /\ a \in Ring /\ b \in Ring /\ c \in Ring /\ d \in Ring /\ 2 \in Nat
    BY DEF Complex, Ring
  <2>2. Conj(a) = b /\ Conj(b) = a /\ Conj(c) = d /\ Conj(d) = c
    BY MinusZero, MinusMinusOne DEF Conj
  <2>3. /\ Times(a, b) = x /\ Times(b, a) = x /\ Times(c, d) = x /\ Times(d, c) = x
        /\ Times(a, a) = y /\ Times(b, b) = z /\ Times(c, b) = w /\ Times(b, c) = w
    BY DEF Times, Null
  <2>4. Plus(x, x) = Real(2^2) /\ Plus(y, z) = Null /\ Plus(z, y) = Null /\ Plus(x, w) = Null /\ Plus(w, x) = Null
    BY SmallPowers DEF Plus, Real, Null
  <2>. HIDE DEF a, b, c, d, x, y, z, w
  <2>5. QED
    BY <2>1, <2>2, <2>3, <2>4, TwoRowsAreGate DEF X90, MX90, Y90, MY90
<1>3. QED
  BY <1>1, <1>2

LEMMA MinusLaws ==
  ASSUME NEW x \in Ring
  PROVE  Minus(x) \in Ring /\ Minus(x) = Times(Minus(One), x) /\ Plus(x, Minus(x)) = Null
<1>1. PICK a, b, c, d \in Int : x = <<a, b, c, d>>
  BY RingParts
<1>2. Minus(x) = <<-a, -b, -c, -d>> /\ Minus(x) \in Ring
  BY <1>1 DEF Minus, Ring
<1>3. Minus(One) = <<-1, 0, 0, 0>> /\ Minus(One) \in Ring
  BY MinusZero DEF Minus, One, Real, Ring
<1>4. Times(Minus(One), x) = Convolution(Minus(One), x)
  BY <1>3, TimesConvolutes
<1>5. Convolution(<<-1, 0, 0, 0>>, x) = <<-a, -b, -c, -d>>
  BY <1>1 DEF Convolution
<1>6. Plus(x, Minus(x)) = Null
  BY <1>1, <1>2 DEF Plus, Null
<1>7. QED
  BY <1>2, <1>3, <1>4, <1>5, <1>6

\* A real number times a unit has the square of the real number.
LEMMA UnitTimesReal ==
  ASSUME NEW u, IsUnit(u), NEW s \in Ring, Conj(s) = s
  PROVE  /\ Times(u, s) \in Ring /\ Conj(Times(u, s)) = Times(Conj(u), s)
         /\ Times(Times(u, s), Times(Conj(u), s)) = Times(s, s)
<1>1. u \in Ring /\ Conj(u) \in Ring /\ Times(u, Conj(u)) = One /\ Times(u, s) \in Ring /\ Times(s, s) \in Ring
  BY ConjRing, TimesRing DEF IsUnit
<1>2. Conj(Times(u, s)) = Times(Conj(u), s)
  BY <1>1, ConjRing
<1>3. Times(Times(u, s), Times(Conj(u), s)) = Times(Times(u, Conj(u)), Times(s, s))
  BY <1>1, TimesInterchange
<1>4. Times(One, Times(s, s)) = Times(s, s)
  BY <1>1, OneIsUnit, TimesRing DEF One
<1>5. QED
  BY <1>1, <1>2, <1>3, <1>4

LEMMA Rotations ==
  ASSUME NEW k \in Int
  PROVE  IsGate(RX(k), 2) /\ IsGate(RY(k), 2) /\ IsGate(RZ(k), 2)
<1>. DEFINE c == Cosine(k)
            s == Sine(k)
            u == Minus(Imag)
            us == Times(u, s)
<1>1. /\ c \in Ring /\ Conj(c) = c /\ s \in Ring /\ Conj(s) = s
      /\ Plus(Times(c, c), Times(s, s)) = Real(2)
  BY CosineAndSine
<1>2. /\ u \in Ring /\ Conj(u) \in Ring /\ Times(u, Conj(u)) = One /\ One \in Ring
      /\ us \in Ring /\ Times(c, c) \in Ring /\ Times(s, s) \in Ring /\ Times(c, s) \in Ring
      /\ Minus(s) \in Ring /\ 1 \in Nat
  <2>1. IsUnit(u)
    BY Units
  <2>2. u \in Ring /\ Conj(u) \in Ring /\ Times(u, Conj(u)) = One /\ One \in Ring
    BY <2>1, OneIsUnit, ConjRing DEF IsUnit
  <2>3. Minus(s) \in Ring
    BY <1>1, MinusLaws
  <2>. HIDE DEF u, s, c
  <2>4. QED
    BY <1>1, <2>2, <2>3, TimesRing
<1>3. Times(us, Conj(us)) = Times(s, s) /\ Conj(us) = Times(Conj(u), s)
  <2>. HIDE DEF u, s
  <2>1. IsUnit(u)
    BY Units DEF u
  <2>2. QED
    BY <1>1, <2>1, UnitTimesReal
<1>4. Plus(Times(c, Conj(us)), Times(us, Conj(c))) = Null
  <2>1. Plus(u, Conj(u)) = Null
    <3>1. u = <<0, 0, -1, 0>> /\ Conj(<<0, 0, -1, 0>>) = <<0, 0, 1, 0>>
      BY MinusZero, MinusMinusOne DEF Imag, Minus, Conj
    <3>2. QED
      BY <3>1 DEF Plus, Null
  <2>. HIDE DEF u, s, c
  <2>3. Times(c, Times(Conj(u), s)) = Times(Conj(u), Times(c, s))
    BY <1>1, <1>2, TimesSwap
  <2>4. Times(us, c) = Times(u, Times(c, s))
    <3>1. Times(us, c) = Times(c, us)
      BY <1>1, <1>2, TimesRing
    <3>2. QED
      BY <1>1, <1>2, <3>1, TimesSwap
  <2>5. Times(Plus(Conj(u), u), Times(c, s)) = Plus(Times(Conj(u), Times(c, s)), Times(u, Times(c, s)))
    BY <1>1, <1>2, TimesDistributesLeft, TimesDistributes
  <2>6. Plus(Conj(u), u) = Null
    BY <1>2, <2>1, PlusRing
  <2>7. Times(Null, Times(c, s)) = Null
    BY <1>2, TimesRing
  <2>8. QED
    BY <1>1, <1>3, <2>3, <2>4, <2>5, <2>6, <2>7
<1>5. Real(2^1) = Real(2)
  BY SmallPowers
<1>6. Plus(Times(s, s), Times(c, c)) = Real(2)
  BY <1>1, <1>2, PlusRing
<1>7. IsGate(RX(k), 2)
  <2>. HIDE DEF us, c, s
  <2>1. IsGate(Matrix(1, <<<<c, us>>, <<us, c>>>>), 2)
    BY <1>1, <1>2, <1>3, <1>4, <1>5, <1>6, TwoRowsAreGate
  <2>2. RX(k) = Matrix(1, <<<<c, us>>, <<us, c>>>>)
    BY DEF RX, c, s, us, u
  <2>3. QED
    BY <2>1, <2>2
<1>8. IsGate(RY(k), 2)
  <2>. DEFINE ms == Minus(s)
              m == Minus(One)
  <2>. HIDE DEF c, s
  <2>1. IsUnit(m) /\ Conj(m) = m
    <3>1. m = <<-1, 0, 0, 0>>
      BY MinusZero DEF Minus, One, Real
    <3>2. Conj(<<-1, 0, 0, 0>>) = <<-1, 0, 0, 0>>
      BY MinusZero DEF Conj
    <3>3. QED
      BY <3>1, <3>2, Units
  <2>2. ms = Times(m, s) /\ Plus(Times(c, s), Minus(Times(c, s))) = Null
        /\ Minus(Times(c, s)) = Times(m, Times(c, s))
    BY <1>1, <1>2, MinusLaws
  <2>. HIDE DEF m
  <2>3. m \in Ring
    BY <2>1 DEF IsUnit
  <2>4. Conj(ms) = ms
    BY <1>1, <2>1, <2>2, UnitTimesReal
  <2>5. Times(ms, ms) = Times(s, s)
    BY <1>1, <2>1, <2>2, UnitTimesReal
  <2>6. Plus(Times(c, s), Times(ms, c)) = Null
    <3>1. Times(ms, c) = Times(c, ms)
      BY <1>1, <1>2, TimesRing
    <3>2. Times(c, Times(m, s)) = Times(m, Times(c, s))
      BY <1>1, <2>3, TimesSwap
    <3>3. QED
      BY <2>2, <3>1, <3>2
  <2>. HIDE DEF ms
  <2>7. IsGate(Matrix(1, <<<<c, ms>>, <<s, c>>>>), 2)
    BY <1>1, <1>2, <1>5, <1>6, <2>4, <2>5, <2>6, TwoRowsAreGate DEF ms
  <2>8. RY(k) = Matrix(1, <<<<c, ms>>, <<s, c>>>>)
    BY DEF RY, c, s, ms
  <2>9. QED
    BY <2>7, <2>8
<1>9. IsGate(RZ(k), 2)
  <2>1. IsUnit(Phase(-k)) /\ IsUnit(Phase(k))
    BY PhaseIs
  <2>2. QED
    BY <2>1, PhasesAreGate DEF RZ
<1>10. QED
  BY <1>7, <1>8, <1>9

\* A matrix of four rows that has one entry in each row and column.
LEMMA FourRowsAreGate ==
  ASSUME NEW rows \in [1..4 -> [1..4 -> Ring]], NEW z, IsUnit(z), NEW place \in [1..4 -> 1..4],
         IsInjective(place),
         \A r, c \in 1..4 : rows[r][c] = IF c # place[r] THEN Null ELSE IF r = 4 THEN z ELSE One
  PROVE  IsGate(Matrix(0, rows), 4)
<1>. DEFINE m == Matrix(0, rows)
            units == [r \in 1..4 |-> IF r = 4 THEN z ELSE One]
<1>1. IsSquare(m, 4) /\ m.halvings = 0 /\ m.rows = rows
  BY DEF IsSquare, Matrix
<1>2. \A r \in 1..4 : IsUnit(units[r])
  BY OneIsUnit
<1>3. \A r, c \in 1..4 : m.rows[r][c] = IF c = place[r] THEN units[r] ELSE Null
  <2>1. ASSUME NEW r \in 1..4, NEW c \in 1..4
        PROVE  rows[r][c] = IF c = place[r] THEN units[r] ELSE Null
    <3>1. units[r] = IF r = 4 THEN z ELSE One
      OBVIOUS
    <3>. HIDE DEF units
    <3>2. QED
      BY <3>1
  <2>2. QED
    BY <1>1, <2>1
<1>. HIDE DEF m, units
<1>4. IsMonomial(m, 4, place, units)
  BY <1>1, <1>2, <1>3 DEF IsMonomial
<1>5. QED
  BY <1>4, MonomialIsGate DEF m

LEMMA LastPhaseIsGate ==
  ASSUME NEW z, IsUnit(z)
  PROVE  IsGate(LastPhase(z), 4)
<1>. DEFINE rows  == <<<<One, Null, Null, Null>>, <<Null, One, Null, Null>>,
                       <<Null, Null, One, Null>>, <<Null, Null, Null, z>>>>
            place == [r \in 1..4 |-> r]
<1>1. One \in Ring /\ Null \in Ring /\ z \in Ring
  BY OneIsUnit DEF IsUnit
<1>2. rows \in [1..4 -> [1..4 -> Ring]]
  BY <1>1
<1>3. ASSUME NEW r \in 1..4, NEW c \in 1..4
      PROVE  rows[r][c] = IF c # place[r] THEN Null ELSE IF r = 4 THEN z ELSE One
  <2>1. r = 1 \/ r = 2 \/ r = 3 \/ r = 4
    OBVIOUS
  <2>2. c = 1 \/ c = 2 \/ c = 3 \/ c = 4
    OBVIOUS
  <2>3. QED
    BY <2>1, <2>2
<1>4. place \in [1..4 -> 1..4] /\ IsInjective(place)
  BY DEF IsInjective
<1>. HIDE DEF rows, place
<1>5. IsGate(Matrix(0, rows), 4)
  BY <1>2, <1>3, <1>4, FourRowsAreGate
<1>6. QED
  BY <1>5 DEF LastPhase, rows

LEMMA FixedOfFourRows == IsGate(CNOT, 4) /\ IsGate(SWAP, 4)
<1>. DEFINE cnot == <<<<One, Null, Null, Null>>, <<Null, One, Null, Null>>,
                      <<Null, Null, Null, One>>, <<Null, Null, One, Null>>>>
            swap == <<<<One, Null, Null, Null>>, <<Null, Null, One, Null>>,
                      <<Null, One, Null, Null>>, <<Null, Null, Null, One>>>>
            cnots == <<1, 2, 4, 3>>
            swaps == <<1, 3, 2, 4>>
<1>1. One \in Ring /\ Null \in Ring /\ IsUnit(One)
  BY OneIsUnit
<1>2. cnot \in [1..4 -> [1..4 -> Ring]] /\ swap \in [1..4 -> [1..4 -> Ring]]
  BY <1>1
<1>3. ASSUME NEW r \in 1..4, NEW c \in 1..4
      PROVE  /\ cnot[r][c] = IF c # cnots[r] THEN Null ELSE IF r = 4 THEN One ELSE One
             /\ swap[r][c] = IF c # swaps[r] THEN Null ELSE IF r = 4 THEN One ELSE One
  <2>1. r = 1 \/ r = 2 \/ r = 3 \/ r = 4
    OBVIOUS
  <2>2. c = 1 \/ c = 2 \/ c = 3 \/ c = 4
    OBVIOUS
  <2>3. QED
    BY <2>1, <2>2
<1>4. /\ cnots \in [1..4 -> 1..4] /\ IsInjective(cnots)
      /\ swaps \in [1..4 -> 1..4] /\ IsInjective(swaps)
  BY DEF IsInjective
<1>. HIDE DEF cnot, swap, cnots, swaps
<1>5. IsGate(Matrix(0, cnot), 4)
  BY <1>1, <1>2, <1>3, <1>4, FourRowsAreGate
<1>6. IsGate(Matrix(0, swap), 4)
  BY <1>1, <1>2, <1>3, <1>4, FourRowsAreGate
<1>7. QED
  BY <1>5, <1>6 DEF CNOT, SWAP, cnot, swap

LEMMA PhasesOfFourRows ==
  ASSUME NEW k \in Int
  PROVE  IsGate(CZ, 4) /\ IsGate(CR(k), 4)
  BY Units, PhaseIs, LastPhaseIsGate DEF CZ, CR

LEMMA ToffoliIsGate == IsGate(TOFFOLI, 8)
<1>. DEFINE place == [r \in 1..8 |-> IF r = 7 THEN 8 ELSE IF r = 8 THEN 7 ELSE r]
            units == [r \in 1..8 |-> One]
<1>1. One \in Ring /\ Null \in Ring /\ IsUnit(One) /\ 8 \in Nat
  BY OneIsUnit
<1>2. IsSquare(TOFFOLI, 8) /\ TOFFOLI.halvings = 0
  BY <1>1 DEF IsSquare, TOFFOLI, Matrix
<1>3. \A r, c \in 1..8 : TOFFOLI.rows[r][c] = IF c = place[r] THEN units[r] ELSE Null
  BY DEF TOFFOLI, Matrix
<1>4. place \in [1..8 -> 1..8] /\ IsInjective(place) /\ \A r \in 1..8 : IsUnit(units[r])
  BY <1>1 DEF IsInjective
<1>. HIDE DEF place, units
<1>5. IsMonomial(TOFFOLI, 8, place, units)
  BY <1>2, <1>3, <1>4 DEF IsMonomial
<1>6. QED
  BY <1>1, <1>5, MonomialIsGate

LEMMA Root2PowerSquared ==
  ASSUME NEW h \in Nat
  PROVE  /\ Root2Power(h) \in Ring
         /\ Times(Root2Power(h), Conj(Root2Power(h))) = Real(2^h)
<1>. DEFINE R == Root2Power(h)
            p == 2^h
<1>1. R \in Ring /\ One \in Ring /\ p \in Int
  BY OneIsUnit, Root2Powers, PowersOfTwo
<1>2. Times(One, R) = R
  BY <1>1, TimesRing DEF One
<1>3. Norm(One) = <<1, 0>>
  BY DEF Norm, One, Real
<1>4. Norm(R) = <<p * Norm(One)[1], p * Norm(One)[2]>>
  BY <1>1, <1>2, NormOfRoot2Power
<1>5. Times(R, Conj(R)) = Embedded(Norm(R))
  BY <1>1, NormIsSquare
<1>. HIDE DEF R, p
<1>6. p * 1 = p /\ p * 0 = 0
  BY <1>1
<1>7. Norm(R) = <<p, 0>>
  BY <1>3, <1>4, <1>6
<1>8. Embedded(<<p, 0>>) = Real(p)
  BY <1>1, MinusZero DEF Embedded, Real
<1>9. QED
  BY <1>1, <1>5, <1>7, <1>8 DEF R, p

\* The controlled gate: nothing happens to the first half of the rows.
LEMMA ControlIs ==
  ASSUME NEW n \in Nat, NEW m, IsSquare(m, n)
  PROVE  /\ IsSquare(control(m), 2 * n) /\ control(m).halvings = m.halvings
         /\ \A r, c \in 1..(2 * n) :
              control(m).rows[r][c] = IF r > n /\ c > n THEN m.rows[r - n][c - n]
                                      ELSE IF r = c THEN Root2Power(m.halvings) ELSE Null
<1>. DEFINE h == m.halvings
            entry(r, c) == IF r > n /\ c > n THEN m.rows[r - n][c - n]
                           ELSE IF r = c THEN Root2Power(h) ELSE Null
            f == [p \in (1..(2 * n)) \X (1..(2 * n)) |-> entry(p[1], p[2])]
<1>1. SizeOf(m) = n /\ h \in Nat /\ 2 * n \in Nat
  BY SquareType
<1>2. ASSUME NEW r \in 1..(2 * n), NEW c \in 1..(2 * n)
      PROVE  f[<<r, c>>] = entry(r, c) /\ entry(r, c) \in Ring
  <2>1. r > n /\ c > n => r - n \in 1..n /\ c - n \in 1..n
    OBVIOUS
  <2>2. Root2Power(h) \in Ring /\ Null \in Ring
    BY <1>1, OneIsUnit, Root2PowerSquared
  <2>3. r > n /\ c > n => m.rows[r - n][c - n] \in Ring
    BY <2>1, SquareType
  <2>4. QED
    BY <2>2, <2>3
<1>3. \A r \in 1..(2 * n) : r \in (n + 1)..(n + n) <=> r > n
  OBVIOUS
<1>4. IsFrom(control(m), h, f, 2 * n) /\ IsTable(f, 2 * n)
  <2>. HIDE DEF f
  <2>1. \A r, c \in 1..(2 * n) : f[<<r, c>>] =
          IF r \in (n + 1)..(n + n) /\ c \in (n + 1)..(n + n) THEN m.rows[r - n][c - n]
          ELSE IF r = c THEN Root2Power(h) ELSE Null
    BY <1>2, <1>3
  <2>2. IsTable(f, 2 * n)
    BY <1>2 DEF IsTable
  <2>. DEFINE g(r, c) == IF r \in (n + 1)..(n + n) /\ c \in (n + 1)..(n + n)
                         THEN m.rows[r - n][c - n]
                         ELSE IF r = c THEN Root2Power(h) ELSE Null
  <2>3. control(m) = Matrix(h, [r \in 1..(2 * n) |-> [c \in 1..(2 * n) |-> g(r, c)]])
    BY <1>1 DEF control, WithQuarter
  <2>4. \A r, c \in 1..(2 * n) : f[<<r, c>>] = g(r, c)
    BY <2>1
  <2>. HIDE DEF g
  <2>5. [r \in 1..(2 * n) |-> [c \in 1..(2 * n) |-> g(r, c)]]
          = [r \in 1..(2 * n) |-> [c \in 1..(2 * n) |-> f[<<r, c>>]]]
    BY <2>4
  <2>6. IsFrom(control(m), h, f, 2 * n)
    BY <2>3, <2>5 DEF IsFrom
  <2>7. QED
    BY <2>2, <2>6
<1>. HIDE DEF f
<1>5. /\ IsSquare(control(m), 2 * n) /\ control(m).halvings = h
      /\ \A r, c \in 1..(2 * n) : control(m).rows[r][c] = f[<<r, c>>]
  BY <1>1, <1>4, SquareFrom
<1>6. \A r, c \in 1..(2 * n) : control(m).rows[r][c] = entry(r, c)
  <2>. HIDE DEF entry
  <2>1. QED
    BY <1>2, <1>5
<1>7. QED
  BY <1>5, <1>6

LEMMA ControlIsGate ==
  ASSUME NEW n \in Nat, NEW m, IsGate(m, n)
  PROVE  IsGate(control(m), 2 * n)
<1>. DEFINE C == control(m)
            h == m.halvings
            R == Root2Power(h)
            J == 1..(2 * n)
<1>1. IsSquare(m, n) /\ h \in Nat /\ 2 * n \in Nat
  BY SquareType DEF IsGate
<1>2. /\ IsSquare(C, 2 * n) /\ C.halvings = h
      /\ \A r, c \in J : C.rows[r][c] = IF r > n /\ c > n THEN m.rows[r - n][c - n]
                                        ELSE IF r = c THEN R ELSE Null
  BY <1>1, ControlIs
<1>3. R \in Ring /\ Times(R, Conj(R)) = Real(2^h) /\ Conj(Null) = Null /\ Null \in Ring
  BY <1>1, Root2PowerSquared, ConjNull, OneIsUnit
<1>. HIDE DEF C, h, R
<1>4. ASSUME NEW r \in J, NEW c \in J
      PROVE  SumOver(Null, RowProducts(C, 2 * n, r, c), J) = IF r = c THEN Real(2^h) ELSE Null
  <2>. DEFINE f == RowProducts(C, 2 * n, r, c)
  <2>1. /\ IsFiniteSet(J) /\ IsSpace(Ring, Null) /\ ValuesIn(f, J, Ring)
        /\ \A j \in J : f[j] = Times(C.rows[r][j], Conj(C.rows[c][j]))
    <3>1. IsFiniteSet(J) /\ IsSpace(Ring, Null)
      BY <1>1, FiniteRows
    <3>2. ValuesIn(f, J, Ring)
      BY <1>1, <1>2, RowsAreColumns
    <3>3. \A j \in J : f[j] = Times(C.rows[r][j], Conj(C.rows[c][j]))
      BY DEF RowProducts
    <3>4. QED
      BY <3>1, <3>2, <3>3
  <2>2. \A j \in J : C.rows[r][j] \in Ring /\ C.rows[c][j] \in Ring /\ Conj(C.rows[c][j]) \in Ring
    BY <1>1, <1>2, SquareType
  <2>3. ASSUME NEW j \in J, C.rows[r][j] = Null \/ C.rows[c][j] = Null
        PROVE  f[j] = Null
    BY <1>3, <2>1, <2>2, <2>3, TimesRing
  <2>. HIDE DEF f
  <2>4. CASE r <= n /\ r = c
    <3>1. \A j \in J \ {r} : f[j] = Null
      BY <1>2, <2>3, <2>4
    <3>2. f[r] = Real(2^h)
      BY <1>2, <1>3, <2>1, <2>4
    <3>. HIDE DEF J
    <3>3. SumOver(Null, f, J) = f[r]
      BY <2>1, <3>1, OneTerm
    <3>4. QED
      BY <2>4, <3>2, <3>3 DEF f
  <2>5. CASE ~(r > n /\ c > n) /\ r # c
    <3>1. \A j \in J : f[j] = Null
      BY <1>2, <2>3, <2>5
    <3>. HIDE DEF J
    <3>2. SumOver(Null, f, J) = Null
      BY <2>1, <3>1, SumNull
    <3>3. QED
      BY <2>5, <3>2 DEF f
  <2>6. CASE r > n /\ c > n
    <3>. DEFINE K == (n + 1)..(2 * n)
                b == [j \in K |-> j - n]
                g == RowProducts(m, n, r - n, c - n)
    <3>1. r - n \in 1..n /\ c - n \in 1..n /\ K \in SUBSET J /\ IsFiniteSet(K)
      BY <2>6, FS_Interval
    <3>2. \A j \in J \ K : f[j] = Null
      <4>1. ASSUME NEW j \in J \ K
            PROVE  f[j] = Null
        <5>1. j \in J /\ ~(j > n) /\ j # r
          BY <2>6
        <5>2. QED
          BY <1>2, <2>3, <5>1
      <4>2. QED
        BY <4>1
    <3>3. b \in Bijection(K, 1..n)
      <4>1. b \in [K -> 1..n] /\ \A x, y \in K : b[x] = b[y] => x = y
        OBVIOUS
      <4>2. \A y \in 1..n : y + n \in K /\ b[y + n] = y
        OBVIOUS
      <4>3. b \in Surjection(K, 1..n)
        <5>1. \A y \in 1..n : \E x \in K : b[x] = y
          BY <4>2
        <5>. HIDE DEF b, K
        <5>2. QED
          BY <4>1, <5>1 DEF Surjection
      <4>4. b \in Injection(K, 1..n)
        <5>. HIDE DEF b, K
        <5>1. QED
          BY <4>1 DEF Injection, IsInjective
      <4>5. QED
        BY <4>3, <4>4 DEF Bijection
    <3>4. \A j \in K : f[j] = g[b[j]]
      <4>1. ASSUME NEW j \in K
            PROVE  f[j] = g[b[j]]
        <5>1. j \in J /\ j > n /\ b[j] = j - n /\ j - n \in 1..n
          OBVIOUS
        <5>2. C.rows[r][j] = m.rows[r - n][j - n] /\ C.rows[c][j] = m.rows[c - n][j - n]
          BY <1>2, <2>6, <5>1
        <5>3. g[j - n] = Times(m.rows[r - n][j - n], Conj(m.rows[c - n][j - n]))
          BY <5>1 DEF RowProducts
        <5>4. f[j] = Times(C.rows[r][j], Conj(C.rows[c][j]))
          BY <2>1, <5>1
        <5>. HIDE DEF b, g
        <5>5. QED
          BY <5>1, <5>2, <5>3, <5>4
      <4>2. QED
        BY <4>1
    <3>5. ValuesIn(g, 1..n, Ring)
      BY <1>1, <3>1, RowsAreColumns
    <3>6. SumOver(Null, g, 1..n) = IF r - n = c - n THEN Real(2^h) ELSE Null
      BY <3>1 DEF IsGate, HasOrthogonalRows, h
    <3>. DEFINE N == 1..n
    <3>. HIDE DEF J, K, b, g, N
    <3>7. SumOver(Null, f, J) = SumOver(Null, f, K)
      BY <2>1, <3>1, <3>2, SumSupport
    <3>8. SumOver(Null, f, K) = SumOver(Null, g, N)
      <4>1. b \in Bijection(K, N) /\ ValuesIn(g, N, Ring)
        BY <3>3, <3>5 DEF N
      <4>2. QED
        BY <2>1, <3>1, <3>4, <4>1, SumReindexed
    <3>9. r - n = c - n <=> r = c
      BY DEF J
    <3>10. QED
      BY <3>6, <3>7, <3>8, <3>9 DEF f, N
  <2>7. QED
    BY <2>4, <2>5, <2>6
<1>5. QED
  BY <1>2, <1>4 DEF IsGate, HasOrthogonalRows, C, h

-----------------------------------------------------------------------------
(* Powers.                                                                 *)

\* The first n repetitions of F, and all of them.
IsRepeated(g, zero, F, n) == g[0] = zero /\ \A k \in 1..n : g[k] = F[g[k - 1]]
IsAllRepeated(f, zero, F) == f[0] = zero /\ \A k \in Nat : f[k + 1] = F[f[k]]

LEMMA RepetitionExists ==
  ASSUME NEW zero, NEW F
  PROVE  \E f : IsAllRepeated(f, zero, F)
<1>. DEFINE Good == {n \in Nat : \E g : IsRepeated(g, zero, F, n)}
<1>1. 0 \in Good
  <2>1. IsRepeated([j \in {0} |-> zero], zero, F, 0)
    BY DEF IsRepeated
  <2>2. QED
    BY <2>1
<1>2. ASSUME NEW n \in Good
      PROVE  n + 1 \in Good
  <2>1. PICK g : IsRepeated(g, zero, F, n)
    OBVIOUS
  <2>. DEFINE last == F[g[n]]
              h    == [j \in 0..(n + 1) |-> IF j = n + 1 THEN last ELSE g[j]]
  <2>2. n \in Nat /\ n + 1 \in Nat
    OBVIOUS
  <2>. HIDE DEF last, Good
  <2>3. h[n + 1] = last /\ \A j \in 0..n : h[j] = g[j]
    BY <2>2
  <2>. HIDE DEF h
  <2>4. h[0] = zero
    BY <2>1, <2>2, <2>3 DEF IsRepeated
  <2>5. ASSUME NEW k \in 1..(n + 1)
        PROVE  h[k] = F[h[k - 1]]
    <3>1. k - 1 \in 0..n /\ h[k - 1] = g[k - 1]
      BY <2>2, <2>3
    <3>2. CASE k = n + 1
      <4>1. k - 1 = n
        BY <2>2, <3>2
      <4>2. QED
        BY <2>3, <3>1, <3>2, <4>1 DEF last
    <3>3. CASE k # n + 1
      <4>1. k \in 1..n /\ k \in 0..n
        BY <2>2, <3>3
      <4>2. QED
        BY <2>1, <2>3, <3>1, <4>1 DEF IsRepeated
    <3>4. QED
      BY <3>2, <3>3
  <2>6. IsRepeated(h, zero, F, n + 1)
    BY <2>4, <2>5 DEF IsRepeated
  <2>7. QED
    BY <2>2, <2>6 DEF Good
<1>3. Good = Nat
  <2>1. Good \in SUBSET Nat
    OBVIOUS
  <2>. HIDE DEF Good
  <2>2. QED
    BY <1>1, <1>2, <2>1, Induction
<1>. DEFINE first(n) == CHOOSE g : IsRepeated(g, zero, F, n)
            f == [n \in Nat |-> first(n)[n]]
<1>4. \A n \in Nat : IsRepeated(first(n), zero, F, n)
  BY <1>3
<1>. HIDE DEF Good, first
<1>5. ASSUME NEW n \in Nat
      PROVE  first(n + 1)[n] = first(n)[n]
  <2>. DEFINE a == first(n)
              b == first(n + 1)
              Agree(k) == k <= n => b[k] = a[k]
              Equal == {k \in Nat : Agree(k)}
  <2>1. IsRepeated(a, zero, F, n) /\ IsRepeated(b, zero, F, n + 1)
    BY <1>4
  <2>. HIDE DEF a, b
  <2>2. 0 \in Equal
    BY <2>1 DEF IsRepeated
  <2>3. ASSUME NEW k \in Equal
        PROVE  k + 1 \in Equal
    <3>1. k \in Nat /\ k + 1 \in Nat /\ (k + 1) - 1 = k
      OBVIOUS
    <3>2. ASSUME k + 1 <= n
          PROVE  b[k + 1] = a[k + 1]
      <4>1. k + 1 \in 1..n /\ k + 1 \in 1..(n + 1) /\ k <= n
        BY <3>1, <3>2
      <4>2. b[k] = a[k]
        BY <4>1
      <4>3. a[k + 1] = F[a[k]] /\ b[k + 1] = F[b[k]]
        BY <2>1, <3>1, <4>1 DEF IsRepeated
      <4>4. QED
        BY <4>2, <4>3
    <3>3. QED
      BY <3>1, <3>2
  <2>4. Equal = Nat
    <3>1. Equal \in SUBSET Nat
      OBVIOUS
    <3>. HIDE DEF Equal
    <3>2. QED
      BY <2>2, <2>3, <3>1, Induction
  <2>5. QED
    BY <2>4 DEF a, b
<1>6. f[0] = zero
  BY <1>4 DEF IsRepeated
<1>7. ASSUME NEW k \in Nat
      PROVE  f[k + 1] = F[f[k]]
  <2>1. k + 1 \in Nat /\ k + 1 \in 1..(k + 1) /\ (k + 1) - 1 = k
    OBVIOUS
  <2>2. f[k + 1] = first(k + 1)[k + 1] /\ f[k] = first(k)[k]
    BY <2>1
  <2>3. first(k + 1)[k + 1] = F[first(k + 1)[k]]
    BY <1>4, <2>1 DEF IsRepeated
  <2>4. QED
    BY <1>5, <2>2, <2>3
<1>8. QED
  BY <1>6, <1>7 DEF IsAllRepeated

\* The gates of a size.
GatesOf(n) == {m \in [halvings : Nat, rows : [1..n -> [1..n -> Ring]]] : HasOrthogonalRows(m, n)}

LEMMA GatesAre ==
  ASSUME NEW n, NEW m
  PROVE  m \in GatesOf(n) <=> IsGate(m, n)
  BY DEF GatesOf, IsGate, IsSquare

\* A power is a repeated product.
PowerBase(m, e) == IF e < 0 THEN dagger(m) ELSE m
PowerCount(e)   == IF e < 0 THEN -e ELSE e
ArePowers(P, base, n) == P[0] = identity(n) /\ \A k \in Nat : P[k + 1] = Product(P[k], base)

LEMMA PowerRepeats ==
  ASSUME NEW n \in Nat, NEW m, IsGate(m, n), NEW e \in Int
  PROVE  \E P : power(m, e) = P[PowerCount(e)] /\ ArePowers(P, PowerBase(m, e), n)
<1>. DEFINE base == PowerBase(m, e)
            times == PowerCount(e)
            zero == identity(n)
            F == [v \in GatesOf(n) |-> Product(v, base)]
            IsPower(P) == P = [k \in Nat |-> IF k = 0 THEN identity(SizeOf(m)) ELSE Product(P[k - 1], base)]
            Powers == CHOOSE P : IsPower(P)
<1>1. IsGate(base, n) /\ SizeOf(m) = n /\ times \in Nat
  BY DaggerIsGate, SquareType DEF IsGate, PowerBase, PowerCount
<1>2. power(m, e) = Powers[times]
  BY DEF power, PowerBase, PowerCount
<1>. HIDE DEF base, times
<1>3. zero \in GatesOf(n)
  BY IdentityIsGate, GatesAre
<1>4. \A v \in GatesOf(n) : F[v] = Product(v, base) /\ F[v] \in GatesOf(n)
  BY <1>1, ProductIsGate, GatesAre
<1>5. PICK f : IsAllRepeated(f, zero, F)
  <2>. HIDE DEF zero, F
  <2>1. QED
    BY RepetitionExists
<1>6. \A k \in Nat : f[k] \in GatesOf(n)
  <2>. DEFINE Good == {k \in Nat : f[k] \in GatesOf(n)}
  <2>. HIDE DEF zero, F
  <2>1. 0 \in Good /\ Good \in SUBSET Nat
    BY <1>3, <1>5 DEF IsAllRepeated
  <2>2. ASSUME NEW k \in Good
        PROVE  k + 1 \in Good
    <3>1. k \in Nat /\ k + 1 \in Nat /\ f[k] \in GatesOf(n)
      OBVIOUS
    <3>2. f[k + 1] = F[f[k]]
      BY <1>5, <3>1 DEF IsAllRepeated
    <3>3. QED
      BY <1>4, <3>1, <3>2
  <2>3. Good = Nat
    <3>. HIDE DEF Good
    <3>1. QED
      BY <2>1, <2>2, Induction
  <2>4. QED
    BY <2>3
<1>7. IsPower([k \in Nat |-> f[k]])
  <2>. DEFINE P == [k \in Nat |-> f[k]]
  <2>1. f[0] = zero
    BY <1>5 DEF IsAllRepeated
  <2>2. ASSUME NEW k \in Nat, k # 0
        PROVE  f[k] = Product(f[k - 1], base)
    <3>1. k - 1 \in Nat /\ (k - 1) + 1 = k
      BY <2>2
    <3>2. f[k] = F[f[k - 1]]
      <4>. HIDE DEF F, zero
      <4>1. f[(k - 1) + 1] = F[f[k - 1]]
        BY <1>5, <3>1 DEF IsAllRepeated
      <4>2. QED
        BY <3>1, <4>1
    <3>. HIDE DEF F
    <3>3. QED
      BY <1>4, <1>6, <3>1, <3>2
  <2>3. ASSUME NEW k \in Nat
        PROVE  f[k] = IF k = 0 THEN zero ELSE Product(P[k - 1], base)
    <3>1. k # 0 => k - 1 \in Nat /\ P[k - 1] = f[k - 1]
      OBVIOUS
    <3>. HIDE DEF zero, P
    <3>2. QED
      BY <2>1, <2>2, <3>1
  <2>. HIDE DEF zero
  <2>4. P = [k \in Nat |-> IF k = 0 THEN zero ELSE Product(P[k - 1], base)]
    BY <2>3
  <2>5. QED
    BY <1>1, <2>4 DEF zero
<1>8. IsPower(Powers)
  <2>. HIDE DEF IsPower
  <2>1. QED
    BY <1>7
<1>. HIDE DEF Powers
<1>9. Powers[0] = identity(n)
  BY <1>1, <1>8
<1>10. ASSUME NEW k \in Nat
       PROVE  Powers[k + 1] = Product(Powers[k], base)
  <2>1. k + 1 \in Nat /\ k + 1 # 0 /\ (k + 1) - 1 = k
    OBVIOUS
  <2>2. QED
    BY <1>8, <2>1
<1>11. ArePowers(Powers, base, n)
  BY <1>9, <1>10 DEF ArePowers
<1>12. QED
  BY <1>2, <1>11 DEF base, times

LEMMA PowerIsGate ==
  ASSUME NEW n \in Nat, NEW m, IsGate(m, n), NEW e \in Int
  PROVE  IsGate(power(m, e), n)
<1>. DEFINE base == PowerBase(m, e)
<1>1. IsGate(base, n) /\ PowerCount(e) \in Nat
  BY DaggerIsGate DEF PowerBase, PowerCount
<1>2. PICK P : power(m, e) = P[PowerCount(e)] /\ ArePowers(P, base, n)
  BY PowerRepeats
<1>. HIDE DEF base
<1>3. \A k \in Nat : IsGate(P[k], n)
  <2>. DEFINE Good == {k \in Nat : IsGate(P[k], n)}
  <2>1. 0 \in Good /\ Good \in SUBSET Nat
    BY <1>2, IdentityIsGate DEF ArePowers
  <2>2. ASSUME NEW k \in Good
        PROVE  k + 1 \in Good
    <3>1. k \in Nat /\ k + 1 \in Nat /\ IsGate(P[k], n)
      OBVIOUS
    <3>2. P[k + 1] = Product(P[k], base)
      BY <1>2, <3>1 DEF ArePowers
    <3>3. IsGate(P[k + 1], n)
      BY <1>1, <3>1, <3>2, ProductIsGate
    <3>4. QED
      BY <3>1, <3>3
  <2>3. Good = Nat
    <3>. HIDE DEF Good
    <3>1. QED
      BY <2>1, <2>2, Induction
  <2>4. QED
    BY <2>3
<1>4. QED
  BY <1>1, <1>2, <1>3

-----------------------------------------------------------------------------
(* Modifiers.                                                              *)

IsModifier(d) == d.name \in {"inv", "pow", "ctrl"} /\ (d.name = "pow" => d.exponent \in Int)
AreModifiers(modifiers, n) == DOMAIN modifiers = 1..n /\ \A i \in 1..n : IsModifier(modifiers[i])

LEMMA ModifiedIsGate ==
  ASSUME NEW k \in Nat, NEW m, IsGate(m, 2^k), NEW d, IsModifier(d)
  PROVE  IsGate(Modified(d, m), 2^(k + IF d.name = "ctrl" THEN 1 ELSE 0))
<1>1. 2^k \in Nat /\ 2^(k + 1) = 2 * 2^k /\ k + 0 = k
  BY PowersOfTwo
<1>2. CASE d.name = "inv"
  BY <1>1, <1>2, DaggerIsGate DEF Modified
<1>3. CASE d.name = "pow"
  BY <1>1, <1>3, PowerIsGate DEF Modified, IsModifier
<1>4. CASE d.name = "ctrl"
  <2>1. IsGate(control(m), 2 * 2^k)
    BY <1>1, ControlIsGate
  <2>2. Modified(d, m) = control(m)
    BY <1>4 DEF Modified
  <2>3. QED
    BY <1>1, <1>4, <2>1, <2>2
<1>5. QED
  BY <1>2, <1>3, <1>4 DEF IsModifier

LEMMA Minimum ==
  ASSUME NEW n \in Nat, NEW s \in SUBSET (1..n), s # {}
  PROVE  Min(s) \in s
<1>. DEFINE HasMin(t) == \E x \in t : \A y \in t : x =< y
            Good == {k \in Nat : \A t \in SUBSET (1..k) : t # {} => HasMin(t)}
<1>1. 0 \in Good
  <2>1. 1..0 = {}
    OBVIOUS
  <2>2. QED
    BY <2>1
<1>2. ASSUME NEW k \in Good
      PROVE  k + 1 \in Good
  <2>. SUFFICES ASSUME NEW t \in SUBSET (1..(k + 1)), t # {}
                PROVE  HasMin(t)
    OBVIOUS
  <2>1. CASE t \subseteq {k + 1}
    <3>1. k + 1 \in t /\ \A y \in t : k + 1 =< y
      BY <2>1
    <3>2. QED
      BY <3>1
  <2>2. CASE ~(t \subseteq {k + 1})
    <3>. DEFINE rest == t \ {k + 1}
    <3>1. rest \in SUBSET (1..k) /\ rest # {}
      BY <2>2
    <3>2. PICK x \in rest : \A y \in rest : x =< y
      BY <3>1
    <3>3. x \in t /\ x =< k + 1
      BY <3>1
    <3>4. QED
      BY <3>2, <3>3
  <2>3. QED
    BY <2>1, <2>2
<1>3. Good = Nat
  <2>1. Good \in SUBSET Nat
    OBVIOUS
  <2>. HIDE DEF Good
  <2>2. QED
    BY <1>1, <1>2, <2>1, Induction
<1>4. \E x \in s : \A y \in s : x =< y
  BY <1>3
<1>5. QED
  BY <1>4 DEF Min

\* The modifiers, from the innermost to the outermost, make a gate of a gate, that has
\* one more operand for each control.
ControlsIn(modifiers, s) == {i \in s : modifiers[i].name = "ctrl"}

LEMMA ModifiersMakeGate ==
  ASSUME NEW k \in Nat, NEW base, IsGate(base, 2^k),
         NEW n \in Nat, NEW modifiers, AreModifiers(modifiers, n)
  PROVE  IsGate(FoldRight(Modified, modifiers, base), 2^(k + Cardinality(ControlsIn(modifiers, 1..n))))
<1>. DEFINE All == UNION {GatesOf(2^j) : j \in Nat}
            F == [p \in (1..n) \X All |-> Modified(modifiers[p[1]], p[2])]
            choice == [s \in SUBSET (1..n) |-> Min(s)]
            IsIter(h) == h = [s \in SUBSET DOMAIN modifiers |->
                IF s = {} THEN base ELSE Modified(modifiers[Min(s)], h[s \ {Min(s)}])]
            iter == CHOOSE h : IsIter(h)
            count(s) == Cardinality(ControlsIn(modifiers, s))
<1>1. /\ IsFiniteSet(1..n) /\ DOMAIN modifiers = 1..n
      /\ \A i \in 1..n : IsModifier(modifiers[i])
  BY FiniteRows DEF AreModifiers
<1>2. \A m : m \in All <=> \E j \in Nat : IsGate(m, 2^j)
  BY GatesAre
<1>. HIDE DEF All
<1>3. base \in All
  BY <1>2
<1>4. ASSUME NEW i \in 1..n, NEW m \in All
      PROVE  Modified(modifiers[i], m) \in All
  <2>1. PICK j \in Nat : IsGate(m, 2^j)
    BY <1>2
  <2>2. IsGate(Modified(modifiers[i], m), 2^(j + IF modifiers[i].name = "ctrl" THEN 1 ELSE 0))
    BY <1>1, <2>1, ModifiedIsGate
  <2>3. QED
    BY <1>2, <2>2
<1>5. /\ IsOperation(F, 1..n, All)
      /\ \A i \in 1..n : \A m \in All : F[<<i, m>>] = Modified(modifiers[i], m)
  BY <1>4 DEF IsOperation
<1>6. IsChoice(choice, 1..n)
  BY Minimum DEF IsChoice
<1>7. \A s \in SUBSET (1..n) : choice[s] = Min(s)
  OBVIOUS
<1>. HIDE DEF F, choice
<1>8. PICK g : IsFold(g, 1..n, All, base, F, choice)
  BY <1>1, <1>3, <1>5, <1>6, FoldExists
<1>9. IsIter(g)
  <2>1. g \in [SUBSET (1..n) -> All] /\ g = [s \in SUBSET (1..n) |-> g[s]]
    BY <1>8 DEF IsFold
  <2>2. ASSUME NEW s \in SUBSET (1..n)
        PROVE  g[s] = IF s = {} THEN base ELSE Modified(modifiers[Min(s)], g[s \ {Min(s)}])
    <3>1. g[s] = IF s = {} THEN base ELSE F[<<Min(s), g[s \ {Min(s)}]>>]
      BY <1>7, <1>8 DEF IsFold
    <3>2. s # {} => Min(s) \in 1..n /\ g[s \ {Min(s)}] \in All
      BY <2>1, Minimum
    <3>3. QED
      BY <1>5, <3>1, <3>2
  <2>3. QED
    BY <1>1, <2>1, <2>2
<1>10. IsIter(iter)
  <2>. HIDE DEF IsIter
  <2>1. QED
    BY <1>9
<1>11. FoldRight(Modified, modifiers, base) = iter[1..n]
  BY <1>1 DEF FoldRight, MapThenFoldSet
<1>. HIDE DEF iter
<1>. DEFINE Good == {s \in SUBSET (1..n) : IsGate(iter[s], 2^(k + count(s)))}
<1>12. {} \in Good
  <2>1. iter[{}] = base
    BY <1>10
  <2>2. count({}) = 0 /\ k + 0 = k
    BY FS_EmptySet DEF ControlsIn
  <2>3. QED
    BY <2>1, <2>2
<1>13. GrowsByOne(Good, 1..n)
  <2>. SUFFICES ASSUME NEW s \in SUBSET (1..n), s # {}
                PROVE  \E x \in s : s \ {x} \in Good => s \in Good
    BY DEF GrowsByOne
  <2>. DEFINE x == Min(s)
              rest == s \ {x}
              d == modifiers[x]
  <2>1. x \in s /\ rest \in SUBSET (1..n) /\ IsModifier(d)
    BY <1>1, Minimum
  <2>2. iter[s] = Modified(d, iter[rest])
    BY <1>1, <1>10
  <2>. HIDE DEF x, rest
  <2>3. count(rest) \in Nat /\ count(s) = count(rest) + IF d.name = "ctrl" THEN 1 ELSE 0
    <3>. DEFINE old == ControlsIn(modifiers, rest)
    <3>1. IsFiniteSet(old) /\ x \notin old
      <4>1. old \in SUBSET (1..n) /\ x \notin old
        BY <2>1 DEF ControlsIn, rest
      <4>2. QED
        BY <1>1, <4>1, FS_Subset
    <3>2. ControlsIn(modifiers, s) = IF d.name = "ctrl" THEN old \union {x} ELSE old
      BY <2>1 DEF ControlsIn, rest
    <3>. HIDE DEF old
    <3>3. Cardinality(old) \in Nat /\ Cardinality(old \union {x}) = Cardinality(old) + 1
      BY <3>1, FS_CardinalityType, FS_AddElement
    <3>4. d.name # "ctrl" => Cardinality(ControlsIn(modifiers, s)) = Cardinality(old) + 0
      BY <3>2, <3>3
    <3>5. QED
      BY <3>2, <3>3, <3>4 DEF old
  <2>. HIDE DEF count
  <2>4. ASSUME rest \in Good
        PROVE  s \in Good
    <3>. DEFINE j == k + count(rest)
                more == IF d.name = "ctrl" THEN 1 ELSE 0
    <3>1. j \in Nat /\ IsGate(iter[rest], 2^j) /\ k + count(s) = j + more
      BY <2>3, <2>4
    <3>. HIDE DEF j
    <3>2. IsGate(Modified(d, iter[rest]), 2^(j + more))
      BY <2>1, <3>1, ModifiedIsGate
    <3>3. QED
      BY <2>2, <3>1, <3>2
  <2>5. QED
    BY <2>1, <2>4 DEF rest
<1>14. 1..n \in Good
  <2>. DEFINE J == 1..n
  <2>. HIDE DEF Good
  <2>1. IsFiniteSet(J) /\ GrowsByOne(Good, J)
    BY <1>1, <1>13
  <2>. HIDE DEF J
  <2>2. SUBSET J \subseteq Good
    BY <1>12, <2>1, SubsetInduction
  <2>3. QED
    BY <2>2 DEF J
<1>15. QED
  BY <1>11, <1>14

\* A default gate is unitary, and as large as its name says.
DefaultNames == DOMAIN fixed_gates \union {"Rx", "Ry", "Rz", "CR", "CRk"}
OfThreeQubits == {"TOFFOLI"}
OfTwoQubits   == {"CNOT", "CZ", "CR", "CRk", "SWAP"}

LEMMA DefaultGateIsGate ==
  ASSUME NEW name \in DefaultNames, NEW k \in Int, name = "CRk" => k <= 3
  PROVE  IsGate(default_gates(name, k),
                IF name \in OfThreeQubits THEN 8 ELSE IF name \in OfTwoQubits THEN 4 ELSE 2)
<1>. DEFINE m == default_gates(name, k)
            size == IF name \in OfThreeQubits THEN 8 ELSE IF name \in OfTwoQubits THEN 4 ELSE 2
<1>2. CASE name \in {"Rx", "Ry", "Rz"}
  <2>1. size = 2
    BY <1>2 DEF OfThreeQubits, OfTwoQubits
  <2>2. IsGate(m, 2)
    BY <1>2, Rotations DEF default_gates
  <2>3. QED
    BY <2>1, <2>2
<1>3. CASE name \in {"CR", "CRk"}
  <2>1. size = 4
    BY <1>3 DEF OfThreeQubits, OfTwoQubits
  <2>2. name = "CRk" => AngleOfCRk(k) \in Int
    <3>1. name = "CRk" => 3 - k \in Nat
      OBVIOUS
    <3>2. QED
      BY <3>1, PowersOfTwo DEF AngleOfCRk
  <2>3. IsGate(m, 4)
    BY <1>3, <2>2, PhasesOfFourRows DEF default_gates
  <2>4. QED
    BY <2>1, <2>3
<1>4. CASE name \in DOMAIN fixed_gates
  <2>1. name \in {"CNOT", "CZ", "H", "I", "mX90", "mY90", "S", "Sdag", "SWAP", "T", "Tdag",
                  "TOFFOLI", "X", "X90", "Y", "Y90", "Z"}
    BY <1>4 DEF fixed_gates
  <2>2. m = fixed_gates[name]
    BY <2>1 DEF default_gates
  <2>3. CASE name = "TOFFOLI"
    <3>1. size = 8 /\ m = TOFFOLI
      BY <2>2, <2>3 DEF OfThreeQubits, fixed_gates
    <3>2. QED
      BY <3>1, ToffoliIsGate
  <2>4. CASE name \in {"CNOT", "CZ", "SWAP"}
    <3>1. size = 4 /\ m \in {CNOT, CZ, SWAP}
      BY <2>2, <2>4 DEF OfThreeQubits, OfTwoQubits, fixed_gates
    <3>2. IsGate(m, 4)
      BY <3>1, FixedOfFourRows, PhasesOfFourRows
    <3>3. QED
      BY <3>1, <3>2
  <2>5. CASE name \notin {"TOFFOLI", "CNOT", "CZ", "SWAP"}
    <3>1. size = 2
      BY <2>1, <2>5 DEF OfThreeQubits, OfTwoQubits
    <3>2. m \in {H, IDENTITY, MX90, MY90, S, SDAG, T, TDAG, X, X90, Y, Y90, Z}
      BY <2>1, <2>2, <2>5 DEF fixed_gates
    <3>3. IsGate(m, 2)
      BY <3>2, FixedOfTwoRows, FixedDense
    <3>4. QED
      BY <3>1, <3>3
  <2>6. QED
    BY <2>3, <2>4, <2>5
<1>5. QED
  BY <1>2, <1>3, <1>4 DEF DefaultNames

\* With modifiers it is so too, with twice the rows for each control.
LEMMA ModifiedGateFits ==
  ASSUME NEW gate, NEW k \in Nat, IsGate(default_gates(gate.name, gate.parameter), 2^k),
         NEW length \in Nat, AreModifiers(gate.modifiers, length),
         NEW n, n = k + Cardinality(ControlsIn(gate.modifiers, 1..length))
  PROVE  /\ n \in Nat /\ IsSquare(MatrixOf(gate), 2^n)
         /\ SizeOf(MatrixOf(gate)) = 2^n /\ IsUnitary(MatrixOf(gate))
<1>. DEFINE modifiers == gate.modifiers
            base      == default_gates(gate.name, gate.parameter)
            m         == MatrixOf(gate)
            size      == 2^n
<1>1. Cardinality(ControlsIn(modifiers, 1..length)) \in Nat
  <2>1. IsFiniteSet(1..length) /\ ControlsIn(modifiers, 1..length) \in SUBSET (1..length)
    BY FS_Interval DEF ControlsIn
  <2>2. QED
    BY <2>1, FS_Subset, FS_CardinalityType
<1>2. IsGate(m, 2^n)
  <2>. HIDE DEF modifiers, base
  <2>1. IsGate(FoldRight(Modified, modifiers, base), 2^n)
    BY ModifiersMakeGate DEF modifiers, base
  <2>2. QED
    BY <2>1 DEF MatrixOf, modifiers, base
<1>3. n \in Nat /\ size \in Nat
  <2>1. n \in Nat
    BY <1>1
  <2>2. QED
    BY <2>1, PowersOfTwo
<1>. HIDE DEF m
<1>4. IsSquare(m, 2^n) /\ HasOrthogonalRows(m, 2^n)
  BY <1>2 DEF IsGate
<1>5. IsSquare(m, size) /\ HasOrthogonalRows(m, size)
  BY <1>4
<1>. HIDE DEF size
<1>6. SizeOf(m) = size /\ IsUnitary(m)
  BY <1>3, <1>5, SquareType, UnitaryIsOrthogonal
<1>7. QED
  BY <1>3, <1>4, <1>6 DEF m, size

-----------------------------------------------------------------------------
(* The gates as turns about an axis, by their eigenvectors.                *)

\* The first powers of sqrt(2).
LEMMA SmallRoots ==
  Root2Power(0) = <<1, 0, 0, 0>> /\ Root2Power(1) = <<0, 1, 0, -1>> /\ Root2Power(2) = <<2, 0, 0, 0>>
<1>1. /\ 0 % 2 = 0 /\ 0 \div 2 = 0 /\ 1 % 2 # 0 /\ 1 \div 2 = 0 /\ 2 % 2 = 0 /\ 2 \div 2 = 1
      /\ 0 \in Nat /\ 1 \in Nat /\ 2 \in Nat
  OBVIOUS
<1>2. Root2Power(0) = Real(2^0) /\ Root2Power(1) = <<0, 2^0, 0, -(2^0)>> /\ Root2Power(2) = Real(2^1)
  BY <1>1, Root2Powers
<1>3. QED
  BY <1>2, SmallPowers DEF Real

\* The numbers that the default gates are written with, as tuples.
LEMMA Tuples ==
  /\ One = <<1, 0, 0, 0>> /\ Imag = <<0, 0, 1, 0>> /\ Minus(One) = <<-1, 0, 0, 0>>
  /\ Minus(Imag) = <<0, 0, -1, 0>> /\ Null = <<0, 0, 0, 0>>
  /\ One \in Ring /\ Imag \in Ring /\ Minus(One) \in Ring /\ Minus(Imag) \in Ring /\ Null \in Ring
<1>1. One = <<1, 0, 0, 0>> /\ Imag = <<0, 0, 1, 0>> /\ Null = <<0, 0, 0, 0>>
  BY DEF One, Imag, Real, Null
<1>2. Minus(One) = <<-1, 0, 0, 0>> /\ Minus(Imag) = <<0, 0, -1, 0>>
  BY <1>1, Parts, MinusZero
<1>3. QED
  BY <1>1, <1>2 DEF Ring

\* The two rows of b, as they are applied to the amplitudes of two basis vectors.
RowApplied(b, i, zero, one) == Plus(Times(zero, b.rows[i][1]), Times(one, b.rows[i][2]))

\* The combination p of two values.
Component(p, zero, one) == Plus(Times(p[1], zero), Times(p[2], one))

\* The combination p of the two rows of b is an eigenvector, with e as its eigenvalue.
IsTurnedBy(b, p, e) ==
  /\ p[1] \in Ring /\ p[2] \in Ring /\ e \in Ring
  /\ \A c \in 1..2 : Component(p, b.rows[1][c], b.rows[2][c])
                       = Times(Root2Power(b.halvings), Times(e, p[c]))

\* A combination is an element of the ring, and may be multiplied term by term.
LEMMA ComponentType ==
  ASSUME NEW p, p[1] \in Ring, p[2] \in Ring, NEW x \in Ring, NEW y \in Ring, NEW z \in Ring
  PROVE  /\ Component(p, x, y) \in Ring
         /\ Times(z, Component(p, x, y)) = Component(p, Times(z, x), Times(z, y))
<1>1. /\ Times(p[1], x) \in Ring /\ Times(p[2], y) \in Ring
  BY TimesRing
<1>2. Component(p, x, y) \in Ring
  BY <1>1, PlusRing DEF Component
<1>3. Times(z, Component(p, x, y)) = Plus(Times(z, Times(p[1], x)), Times(z, Times(p[2], y)))
  BY <1>1, TimesDistributes DEF Component
<1>4. Times(z, Times(p[1], x)) = Times(p[1], Times(z, x)) /\ Times(z, Times(p[2], y)) = Times(p[2], Times(z, y))
  BY TimesSwap
<1>5. QED
  BY <1>2, <1>3, <1>4 DEF Component

\* A combination of sums is the sum of the combinations.
LEMMA ComponentOfSum ==
  ASSUME NEW p, p[1] \in Ring, p[2] \in Ring,
         NEW x \in Ring, NEW y \in Ring, NEW u \in Ring, NEW v \in Ring
  PROVE  Component(p, Plus(x, y), Plus(u, v)) = Plus(Component(p, x, u), Component(p, y, v))
<1>1. /\ Times(p[1], x) \in Ring /\ Times(p[1], y) \in Ring
      /\ Times(p[2], u) \in Ring /\ Times(p[2], v) \in Ring
  BY TimesRing
<1>2. /\ Times(p[1], Plus(x, y)) = Plus(Times(p[1], x), Times(p[1], y))
      /\ Times(p[2], Plus(u, v)) = Plus(Times(p[2], u), Times(p[2], v))
  BY TimesDistributes
<1>3. Plus(Plus(Times(p[1], x), Times(p[1], y)), Plus(Times(p[2], u), Times(p[2], v)))
        = Plus(Plus(Times(p[1], x), Times(p[2], u)), Plus(Times(p[1], y), Times(p[2], v)))
  BY <1>1, Spaces, PlusInterchange
<1>4. QED
  BY <1>2, <1>3 DEF Component

\* A component of two amplitudes is turned by its eigenvalue.
LEMMA ComponentTurned ==
  ASSUME NEW b, IsSquare(b, 2), NEW p, NEW e, IsTurnedBy(b, p, e),
         NEW a0 \in Ring, NEW a1 \in Ring, NEW c0 \in Ring, NEW c1 \in Ring,
         Times(Root2Power(b.halvings), c0) = RowApplied(b, 1, a0, a1),
         Times(Root2Power(b.halvings), c1) = RowApplied(b, 2, a0, a1)
  PROVE  Component(p, c0, c1) = Times(e, Component(p, a0, a1))
<1>. DEFINE h == b.halvings
            R == Root2Power(h)
            x == b.rows[1][1]
            y == b.rows[1][2]
            u == b.rows[2][1]
            v == b.rows[2][2]
<1>1. h \in Nat /\ x \in Ring /\ y \in Ring /\ u \in Ring /\ v \in Ring /\ R \in Ring
  <2>1. 1 \in 1..2 /\ 2 \in 1..2 /\ 2 \in Nat
    OBVIOUS
  <2>2. QED
    BY <2>1, SquareType, RootSquared
<1>2. p[1] \in Ring /\ p[2] \in Ring /\ e \in Ring
  BY DEF IsTurnedBy
<1>3. Component(p, x, u) = Times(R, Times(e, p[1])) /\ Component(p, y, v) = Times(R, Times(e, p[2]))
  <2>1. 1 \in 1..2 /\ 2 \in 1..2
    OBVIOUS
  <2>2. QED
    BY <2>1 DEF IsTurnedBy
<1>4. /\ Times(R, c0) = Plus(Times(a0, x), Times(a1, y))
      /\ Times(R, c1) = Plus(Times(a0, u), Times(a1, v))
  BY DEF RowApplied
<1>. HIDE DEF R, x, y, u, v, h
<1>5. /\ Times(a0, x) \in Ring /\ Times(a1, y) \in Ring /\ Times(a0, u) \in Ring /\ Times(a1, v) \in Ring
      /\ Times(e, p[1]) \in Ring /\ Times(e, p[2]) \in Ring
      /\ Component(p, x, u) \in Ring /\ Component(p, y, v) \in Ring
  BY <1>1, <1>2, TimesRing, ComponentType
<1>6. Times(R, Component(p, c0, c1)) = Component(p, Times(R, c0), Times(R, c1))
  BY <1>1, <1>2, ComponentType
<1>7. Component(p, Times(R, c0), Times(R, c1))
        = Plus(Component(p, Times(a0, x), Times(a0, u)), Component(p, Times(a1, y), Times(a1, v)))
  BY <1>2, <1>4, <1>5, ComponentOfSum
<1>8. /\ Component(p, Times(a0, x), Times(a0, u)) = Times(a0, Times(R, Times(e, p[1])))
      /\ Component(p, Times(a1, y), Times(a1, v)) = Times(a1, Times(R, Times(e, p[2])))
  BY <1>1, <1>2, <1>3, ComponentType
<1>9. /\ Times(a0, Times(R, Times(e, p[1]))) = Times(R, Times(e, Times(p[1], a0)))
      /\ Times(a1, Times(R, Times(e, p[2]))) = Times(R, Times(e, Times(p[2], a1)))
  <2>1. ASSUME NEW a \in Ring, NEW z \in Ring
        PROVE  Times(a, Times(R, Times(e, z))) = Times(R, Times(e, Times(z, a)))
    <3>1. Times(e, z) \in Ring
      BY <1>2, TimesRing
    <3>2. Times(a, Times(R, Times(e, z))) = Times(R, Times(a, Times(e, z)))
      BY <1>1, <3>1, TimesSwap
    <3>3. Times(a, Times(e, z)) = Times(e, Times(a, z))
      BY <1>2, TimesSwap
    <3>4. Times(a, z) = Times(z, a)
      BY TimesRing
    <3>5. QED
      BY <3>2, <3>3, <3>4
  <2>2. QED
    BY <1>2, <2>1
<1>10. /\ Times(p[1], a0) \in Ring /\ Times(p[2], a1) \in Ring
       /\ Times(e, Times(p[1], a0)) \in Ring /\ Times(e, Times(p[2], a1)) \in Ring
       /\ Component(p, a0, a1) \in Ring /\ Component(p, c0, c1) \in Ring
       /\ Times(e, Component(p, a0, a1)) \in Ring
  BY <1>2, TimesRing, ComponentType
<1>11. Times(R, Times(e, Component(p, a0, a1)))
         = Plus(Times(R, Times(e, Times(p[1], a0))), Times(R, Times(e, Times(p[2], a1))))
  <2>1. Times(e, Component(p, a0, a1)) = Plus(Times(e, Times(p[1], a0)), Times(e, Times(p[2], a1)))
    BY <1>2, <1>10, TimesDistributes DEF Component
  <2>2. QED
    BY <1>1, <1>10, <2>1, TimesDistributes
<1>12. Times(R, Component(p, c0, c1)) = Times(R, Times(e, Component(p, a0, a1)))
  BY <1>6, <1>7, <1>8, <1>9, <1>11
<1>13. QED
  BY <1>1, <1>10, <1>12, RootCancels DEF R

\* The eigenvectors of an axis.
FirstOf(axis) ==
  CASE axis = "x" -> <<One, One>>
    [] axis = "y" -> <<One, Minus(Imag)>>
    [] axis = "z" -> <<One, Null>>
SecondOf(axis) ==
  CASE axis = "x" -> <<One, Minus(One)>>
    [] axis = "y" -> <<One, Imag>>
    [] axis = "z" -> <<Null, One>>

\* The matrix turns the components of an axis by eighths of a circle.
IsTurn(b, axis, first, second) ==
  /\ IsSquare(b, 2) /\ first \in Int /\ second \in Int
  /\ IsTurnedBy(b, FirstOf(axis), PhaseOf(first % 8))
  /\ IsTurnedBy(b, SecondOf(axis), PhaseOf(second % 8))

\* Two rows that turn a combination of them, entry by entry.
LEMMA TurnOfRows ==
  ASSUME NEW h \in Nat, NEW x \in Ring, NEW y \in Ring, NEW u \in Ring, NEW v \in Ring,
         NEW p, p[1] \in Ring, p[2] \in Ring, NEW e \in Ring,
         Component(p, x, u) = Times(Root2Power(h), Times(e, p[1])),
         Component(p, y, v) = Times(Root2Power(h), Times(e, p[2]))
  PROVE  /\ IsSquare(Matrix(h, <<<<x, y>>, <<u, v>>>>), 2)
         /\ IsTurnedBy(Matrix(h, <<<<x, y>>, <<u, v>>>>), p, e)
<1>. DEFINE b == Matrix(h, <<<<x, y>>, <<u, v>>>>)
<1>1. /\ b.halvings = h /\ b.rows[1][1] = x /\ b.rows[1][2] = y /\ b.rows[2][1] = u /\ b.rows[2][2] = v
  BY DEF Matrix
<1>2. IsSquare(b, 2)
  BY DEF IsSquare, Matrix
<1>3. \A c \in 1..2 : c = 1 \/ c = 2
  OBVIOUS
<1>. HIDE DEF b
<1>4. IsTurnedBy(b, p, e)
  BY <1>1, <1>3 DEF IsTurnedBy
<1>5. QED
  BY <1>2, <1>4 DEF b

\* A phase is an element of the ring.
LEMMA PhaseType ==
  ASSUME NEW r \in 0..7
  PROVE  PhaseOf(r) \in Ring
<1>1. r = 0 \/ r = 1 \/ r = 2 \/ r = 3 \/ r = 4 \/ r = 5 \/ r = 6 \/ r = 7
  OBVIOUS
<1>2. QED
  BY <1>1 DEF PhaseOf, Ring

\* The eigenvectors are made of elements of the ring.
LEMMA AxisType ==
  ASSUME NEW axis \in {"x", "y", "z"}
  PROVE  /\ FirstOf(axis)[1] \in Ring /\ FirstOf(axis)[2] \in Ring
         /\ SecondOf(axis)[1] \in Ring /\ SecondOf(axis)[2] \in Ring
  BY Tuples DEF FirstOf, SecondOf

\* The entries of two rows turn with a combination p of the rows.
EntriesTurn(h, x, y, u, v, p, e) ==
  /\ Component(p, x, u) = Times(Root2Power(h), Times(e, p[1]))
  /\ Component(p, y, v) = Times(Root2Power(h), Times(e, p[2]))

\* Two rows that turn the two components of an axis.
LEMMA TurnOfBoth ==
  ASSUME NEW h \in Nat, NEW x \in Ring, NEW y \in Ring, NEW u \in Ring, NEW v \in Ring,
         NEW axis \in {"x", "y", "z"}, NEW first \in Int, NEW second \in Int,
         EntriesTurn(h, x, y, u, v, FirstOf(axis), PhaseOf(first % 8)),
         EntriesTurn(h, x, y, u, v, SecondOf(axis), PhaseOf(second % 8))
  PROVE  IsTurn(Matrix(h, <<<<x, y>>, <<u, v>>>>), axis, first, second)
<1>. DEFINE b == Matrix(h, <<<<x, y>>, <<u, v>>>>)
            p == FirstOf(axis)
            q == SecondOf(axis)
            d == PhaseOf(first % 8)
            e == PhaseOf(second % 8)
<1>1. first % 8 \in 0..7 /\ second % 8 \in 0..7
  OBVIOUS
<1>2. d \in Ring /\ e \in Ring
  BY <1>1, PhaseType
<1>3. p[1] \in Ring /\ p[2] \in Ring /\ q[1] \in Ring /\ q[2] \in Ring
  BY AxisType
<1>4. EntriesTurn(h, x, y, u, v, p, d) /\ EntriesTurn(h, x, y, u, v, q, e)
  OBVIOUS
<1>. HIDE DEF p, q, d, e
<1>5. IsSquare(b, 2) /\ IsTurnedBy(b, p, d)
  BY <1>2, <1>3, <1>4, TurnOfRows DEF EntriesTurn
<1>6. IsTurnedBy(b, q, e)
  BY <1>2, <1>3, <1>4, TurnOfRows DEF EntriesTurn
<1>7. QED
  BY <1>5, <1>6 DEF IsTurn, p, q, d, e

\* A diagonal matrix of phases turns the two components of the z axis.
LEMMA DiagonalTurns ==
  ASSUME NEW first \in Int, NEW second \in Int
  PROVE  IsTurn(Matrix(0, <<<<PhaseOf(first % 8), Null>>, <<Null, PhaseOf(second % 8)>>>>), "z", first, second)
<1>. DEFINE d == PhaseOf(first % 8)
            e == PhaseOf(second % 8)
<1>1. first % 8 \in 0..7 /\ second % 8 \in 0..7 /\ 0 \in Nat
  OBVIOUS
<1>2. d \in Ring /\ e \in Ring /\ One \in Ring /\ Null \in Ring
  BY <1>1, PhaseType, Tuples
<1>3. Root2Power(0) = One
  BY SmallRoots, Tuples
<1>4. \A z \in Ring : /\ Times(One, z) = z /\ Times(z, One) = z /\ Times(Null, z) = Null /\ Times(z, Null) = Null
                      /\ Plus(z, Null) = z /\ Plus(Null, z) = z
  BY TimesRing, PlusRing DEF One
<1>5. FirstOf("z") = <<One, Null>> /\ SecondOf("z") = <<Null, One>>
  BY DEF FirstOf, SecondOf
<1>. HIDE DEF d, e
<1>6. /\ Component(<<One, Null>>, d, Null) = d /\ Component(<<One, Null>>, Null, e) = Null
      /\ Component(<<Null, One>>, d, Null) = Null /\ Component(<<Null, One>>, Null, e) = e
  BY <1>2, <1>4 DEF Component
<1>7. /\ Times(One, Times(d, One)) = d /\ Times(One, Times(d, Null)) = Null
      /\ Times(One, Times(e, Null)) = Null /\ Times(One, Times(e, One)) = e
  BY <1>2, <1>4
<1>8. <<One, Null>>[1] = One /\ <<One, Null>>[2] = Null /\ <<Null, One>>[1] = Null /\ <<Null, One>>[2] = One
  OBVIOUS
<1>. DEFINE p == <<One, Null>>
            q == <<Null, One>>
<1>9. /\ Component(p, d, Null) = Times(One, Times(d, p[1])) /\ Component(p, Null, e) = Times(One, Times(d, p[2]))
      /\ Component(q, d, Null) = Times(One, Times(e, q[1])) /\ Component(q, Null, e) = Times(One, Times(e, q[2]))
  BY <1>6, <1>7, <1>8
<1>. HIDE DEF p, q
<1>10. "z" \in {"x", "y", "z"} /\ p = FirstOf("z") /\ q = SecondOf("z")
  BY <1>5 DEF p, q
<1>11. EntriesTurn(0, d, Null, Null, e, p, d) /\ EntriesTurn(0, d, Null, Null, e, q, e)
  BY <1>3, <1>9 DEF EntriesTurn
<1>12. d = PhaseOf(first % 8) /\ e = PhaseOf(second % 8)
  BY DEF d, e
<1>. DEFINE h == 0
            axis == "z"
<1>13. /\ h \in Nat /\ axis \in {"x", "y", "z"}
       /\ EntriesTurn(h, d, Null, Null, e, FirstOf(axis), PhaseOf(first % 8))
       /\ EntriesTurn(h, d, Null, Null, e, SecondOf(axis), PhaseOf(second % 8))
  BY <1>1, <1>10, <1>11, <1>12
<1>. HIDE DEF h, axis
<1>14. IsTurn(Matrix(h, <<<<d, Null>>, <<Null, e>>>>), axis, first, second)
  BY <1>2, <1>13, TurnOfBoth
<1>15. QED
  BY <1>12, <1>14 DEF h, axis

\* The second entry of the first eigenvector of an axis; the second one has its opposite.
Ratio(axis) == IF axis = "x" THEN One ELSE Minus(Imag)

\* The eigenvectors of the x and y axes, with their ratios.
LEMMA RatioOf ==
  ASSUME NEW axis \in {"x", "y"}
  PROVE  /\ Ratio(axis) \in Ring /\ Minus(Ratio(axis)) \in Ring
         /\ FirstOf(axis) = <<One, Ratio(axis)>> /\ SecondOf(axis) = <<One, Minus(Ratio(axis))>>
<1>1. Minus(<<0, 0, -1, 0>>) = <<0, 0, 1, 0>>
  BY Parts, MinusZero, MinusMinusOne
<1>2. QED
  BY <1>1, Tuples DEF Ratio, FirstOf, SecondOf

\* An eigenvector of a matrix with equal entries on its diagonal.
LEMMA EigenTurn ==
  ASSUME NEW h \in Nat, NEW a \in Ring, NEW b \in Ring, NEW j \in Ring, NEW d \in Ring,
         Plus(a, Times(j, b)) = Times(Root2Power(h), d), NEW y, y = Times(j, Times(j, b))
  PROVE  /\ Component(<<One, j>>, a, b) = Times(Root2Power(h), Times(d, One))
         /\ Component(<<One, j>>, y, a) = Times(Root2Power(h), Times(d, j))
<1>. DEFINE R == Root2Power(h)
<1>1. R \in Ring /\ One \in Ring /\ Times(j, b) \in Ring /\ Times(j, a) \in Ring /\ y \in Ring
  BY RootSquared, Tuples, TimesRing
<1>2. \A z \in Ring : Times(One, z) = z /\ Times(z, One) = z
  BY TimesRing DEF One
<1>. HIDE DEF R
<1>3. Component(<<One, j>>, a, b) = Plus(a, Times(j, b))
  BY <1>2 DEF Component
<1>4. Component(<<One, j>>, y, a) = Plus(y, Times(j, a))
  BY <1>1, <1>2 DEF Component
<1>5. Times(j, Plus(a, Times(j, b))) = Plus(Times(j, a), y)
  BY <1>1, TimesDistributes
<1>6. Plus(y, Times(j, a)) = Plus(Times(j, a), y)
  BY <1>1, PlusRing
<1>7. Times(j, Times(R, d)) = Times(R, Times(j, d)) /\ Times(j, d) = Times(d, j)
  BY <1>1, TimesSwap, TimesRing
<1>8. QED
  BY <1>2, <1>3, <1>4, <1>5, <1>6, <1>7 DEF R

\* A matrix with equal entries on its diagonal turns about x if the others are equal, and
\* about y if they are opposite.
LEMMA AxisTurns ==
  ASSUME NEW h \in Nat, NEW a \in Ring, NEW b \in Ring, NEW axis \in {"x", "y"},
         NEW first \in Int, NEW second \in Int, NEW y, y = (IF axis = "x" THEN b ELSE Minus(b)),
         Plus(a, Times(Ratio(axis), b)) = Times(Root2Power(h), PhaseOf(first % 8)),
         Plus(a, Times(Minus(Ratio(axis)), b)) = Times(Root2Power(h), PhaseOf(second % 8))
  PROVE  IsTurn(Matrix(h, <<<<a, y>>, <<b, a>>>>), axis, first, second)
<1>. DEFINE j == Ratio(axis)
            k == Minus(j)
            d == PhaseOf(first % 8)
            e == PhaseOf(second % 8)
<1>1. first % 8 \in 0..7 /\ second % 8 \in 0..7
  OBVIOUS
<1>2. d \in Ring /\ e \in Ring /\ j \in Ring /\ k \in Ring
  BY <1>1, PhaseType, RatioOf
<1>3. FirstOf(axis) = <<One, j>> /\ SecondOf(axis) = <<One, k>>
  BY RatioOf
<1>4. y \in Ring /\ Times(j, Times(j, b)) = y /\ Times(k, Times(k, b)) = y
  <2>1. Times(One, b) = b /\ Times(Minus(One), b) = Minus(b) /\ Minus(b) \in Ring
    BY TimesRing, MinusLaws DEF One
  <2>2. /\ Times(j, Times(j, b)) = Times(Times(j, j), b)
        /\ Times(k, Times(k, b)) = Times(Times(k, k), b)
    BY <1>2, TimesAssociates
  <2>3. CASE axis = "x"
    <3>1. j = <<1, 0, 0, 0>> /\ k = <<-1, 0, 0, 0>>
      BY <2>3, Tuples DEF Ratio
    <3>2. Times(<<1, 0, 0, 0>>, <<1, 0, 0, 0>>) = <<1, 0, 0, 0>>
      BY DEF Times, Null
    <3>3. Times(<<-1, 0, 0, 0>>, <<-1, 0, 0, 0>>) = <<1, 0, 0, 0>>
      BY DEF Times, Null
    <3>4. QED
      BY <2>1, <2>2, <2>3, <3>1, <3>2, <3>3, Tuples
  <2>4. CASE axis = "y"
    <3>1. j = <<0, 0, -1, 0>>
      BY <2>4, Tuples DEF Ratio
    <3>2. k = <<0, 0, 1, 0>>
      BY <3>1, Parts, MinusZero, MinusMinusOne
    <3>3. Times(<<0, 0, -1, 0>>, <<0, 0, -1, 0>>) = <<-1, 0, 0, 0>>
      BY DEF Times, Null
    <3>4. Times(<<0, 0, 1, 0>>, <<0, 0, 1, 0>>) = <<-1, 0, 0, 0>>
      BY DEF Times, Null
    <3>5. QED
      BY <2>1, <2>2, <2>4, <3>1, <3>2, <3>3, <3>4, Tuples
  <2>5. QED
    BY <2>3, <2>4
<1>5. Plus(a, Times(j, b)) = Times(Root2Power(h), d) /\ Plus(a, Times(k, b)) = Times(Root2Power(h), e)
  OBVIOUS
<1>. HIDE DEF j, k, d, e
<1>6. /\ Component(<<One, j>>, a, b) = Times(Root2Power(h), Times(d, One))
      /\ Component(<<One, j>>, y, a) = Times(Root2Power(h), Times(d, j))
  BY <1>2, <1>4, <1>5, EigenTurn
<1>7. /\ Component(<<One, k>>, a, b) = Times(Root2Power(h), Times(e, One))
      /\ Component(<<One, k>>, y, a) = Times(Root2Power(h), Times(e, k))
  BY <1>2, <1>4, <1>5, EigenTurn
<1>8. axis \in {"x", "y", "z"}
  OBVIOUS
<1>9. <<One, j>>[1] = One /\ <<One, j>>[2] = j /\ <<One, k>>[1] = One /\ <<One, k>>[2] = k
  OBVIOUS
<1>. DEFINE p == FirstOf(axis)
            q == SecondOf(axis)
<1>10. /\ Component(p, a, b) = Times(Root2Power(h), Times(d, p[1]))
       /\ Component(p, y, a) = Times(Root2Power(h), Times(d, p[2]))
       /\ Component(q, a, b) = Times(Root2Power(h), Times(e, q[1]))
       /\ Component(q, y, a) = Times(Root2Power(h), Times(e, q[2]))
  BY <1>3, <1>6, <1>7, <1>9
<1>11. p = FirstOf(axis) /\ q = SecondOf(axis) /\ d = PhaseOf(first % 8) /\ e = PhaseOf(second % 8)
  BY DEF d, e
<1>. HIDE DEF p, q
<1>12. EntriesTurn(h, a, y, b, a, p, d) /\ EntriesTurn(h, a, y, b, a, q, e)
  BY <1>10 DEF EntriesTurn
<1>13. /\ EntriesTurn(h, a, y, b, a, FirstOf(axis), PhaseOf(first % 8))
       /\ EntriesTurn(h, a, y, b, a, SecondOf(axis), PhaseOf(second % 8))
  BY <1>11, <1>12
<1>14. QED
  BY <1>4, <1>8, <1>13, TurnOfBoth

\* The residues of the angles of a rotation.
LEMMA Residues ==
  ASSUME NEW k \in Int
  PROVE  /\ k % 8 \in 0..7 /\ -k \in Int
         /\ (-k) % 8 = IF k % 8 = 0 THEN 0 ELSE 8 - (k % 8)
         /\ (k - 2) % 8 = IF k % 8 < 2 THEN (k % 8) + 6 ELSE (k % 8) - 2
OBVIOUS

\* A turn by an angle of the first or the second eigenvector, given as a number.
LEMMA FixedTurns ==
  /\ IsTurn(X, "x", 0, 4) /\ IsTurn(X90, "x", 0, 2) /\ IsTurn(MX90, "x", 0, -2)
  /\ IsTurn(Y, "y", 0, 4) /\ IsTurn(Y90, "y", 0, 2) /\ IsTurn(MY90, "y", 0, -2)
<1>1. 0 % 8 = 0 /\ 4 % 8 = 4 /\ 2 % 8 = 2 /\ 0 \in Int /\ 4 \in Int /\ 2 \in Int /\ 0 \in Nat /\ 2 \in Nat
  OBVIOUS
<1>2. -2 \in Int /\ (-2) % 8 = 6
  <2>1. 2 \in Int /\ 2 % 8 = 2 /\ 8 - 2 = 6
    OBVIOUS
  <2>2. QED
    BY <2>1, Residues
<1>3. /\ PhaseOf(0) = <<1, 0, 0, 0>> /\ PhaseOf(2) = <<0, 0, 1, 0>>
      /\ PhaseOf(4) = <<-1, 0, 0, 0>> /\ PhaseOf(6) = <<0, 0, -1, 0>>
  BY DEF PhaseOf
<1>4. /\ Ratio("x") = <<1, 0, 0, 0>> /\ Minus(Ratio("x")) = <<-1, 0, 0, 0>>
      /\ Ratio("y") = <<0, 0, -1, 0>> /\ Minus(Ratio("y")) = <<0, 0, 1, 0>>
  BY Tuples, Parts, MinusZero, MinusMinusOne DEF Ratio
<1>5. /\ Complex(1, 1) = <<1, 0, 1, 0>> /\ Complex(1, -1) = <<1, 0, -1, 0>>
      /\ Complex(-1, 1) = <<-1, 0, 1, 0>> /\ Complex(-1, -1) = <<-1, 0, -1, 0>>
      /\ Complex(1, 1) \in Ring /\ Complex(1, -1) \in Ring
      /\ Complex(-1, 1) \in Ring /\ Complex(-1, -1) \in Ring
  BY DEF Complex, Ring
<1>6. Minus(<<1, 0, 1, 0>>) = <<-1, 0, -1, 0>> /\ Minus(<<-1, 0, 1, 0>>) = <<1, 0, -1, 0>>
  BY Parts, MinusZero, MinusMinusOne
<1>. DEFINE Sum(a, j, b) == Plus(a, Times(j, b))
<1>7. /\ Sum(<<0, 0, 0, 0>>, <<1, 0, 0, 0>>, <<1, 0, 0, 0>>) = Times(<<1, 0, 0, 0>>, <<1, 0, 0, 0>>)
      /\ Sum(<<0, 0, 0, 0>>, <<-1, 0, 0, 0>>, <<1, 0, 0, 0>>) = Times(<<1, 0, 0, 0>>, <<-1, 0, 0, 0>>)
  BY DEF Plus, Times, Null
<1>8. /\ Sum(<<0, 0, 0, 0>>, <<0, 0, -1, 0>>, <<0, 0, 1, 0>>) = Times(<<1, 0, 0, 0>>, <<1, 0, 0, 0>>)
      /\ Sum(<<0, 0, 0, 0>>, <<0, 0, 1, 0>>, <<0, 0, 1, 0>>) = Times(<<1, 0, 0, 0>>, <<-1, 0, 0, 0>>)
  BY DEF Plus, Times, Null
<1>9. /\ Sum(<<1, 0, 1, 0>>, <<1, 0, 0, 0>>, <<1, 0, -1, 0>>) = Times(<<2, 0, 0, 0>>, <<1, 0, 0, 0>>)
      /\ Sum(<<1, 0, 1, 0>>, <<-1, 0, 0, 0>>, <<1, 0, -1, 0>>) = Times(<<2, 0, 0, 0>>, <<0, 0, 1, 0>>)
  BY DEF Plus, Times, Null
<1>10. /\ Sum(<<1, 0, -1, 0>>, <<1, 0, 0, 0>>, <<1, 0, 1, 0>>) = Times(<<2, 0, 0, 0>>, <<1, 0, 0, 0>>)
       /\ Sum(<<1, 0, -1, 0>>, <<-1, 0, 0, 0>>, <<1, 0, 1, 0>>) = Times(<<2, 0, 0, 0>>, <<0, 0, -1, 0>>)
  BY DEF Plus, Times, Null
<1>11. /\ Sum(<<1, 0, 1, 0>>, <<0, 0, -1, 0>>, <<1, 0, 1, 0>>) = Times(<<2, 0, 0, 0>>, <<1, 0, 0, 0>>)
       /\ Sum(<<1, 0, 1, 0>>, <<0, 0, 1, 0>>, <<1, 0, 1, 0>>) = Times(<<2, 0, 0, 0>>, <<0, 0, 1, 0>>)
  BY DEF Plus, Times, Null
<1>12. /\ Sum(<<1, 0, -1, 0>>, <<0, 0, -1, 0>>, <<-1, 0, 1, 0>>) = Times(<<2, 0, 0, 0>>, <<1, 0, 0, 0>>)
       /\ Sum(<<1, 0, -1, 0>>, <<0, 0, 1, 0>>, <<-1, 0, 1, 0>>) = Times(<<2, 0, 0, 0>>, <<0, 0, -1, 0>>)
  BY DEF Plus, Times, Null
<1>13. IsTurn(X, "x", 0, 4)
  <2>1. Plus(Null, Times(Ratio("x"), One)) = Times(Root2Power(0), PhaseOf(0 % 8))
    BY <1>1, <1>3, <1>4, <1>5, <1>7, Tuples, SmallRoots
  <2>2. Plus(Null, Times(Minus(Ratio("x")), One)) = Times(Root2Power(0), PhaseOf(4 % 8))
    BY <1>1, <1>2, <1>3, <1>4, <1>5, <1>7, Tuples, SmallRoots
  <2>3. Null \in Ring /\ One \in Ring /\ "x" \in {"x", "y"}
    BY <1>5, Tuples
  <2>4. One = IF "x" = "x" THEN One ELSE Minus(One)
    BY <1>5, <1>6
  <2>5. IsTurn(Matrix(0, <<<<Null, One>>, <<One, Null>>>>), "x", 0, 4)
    BY <1>1, <1>2, <2>1, <2>2, <2>3, <2>4, AxisTurns
  <2>6. QED
    BY <2>5 DEF X
<1>14. IsTurn(Y, "y", 0, 4)
  <2>1. Plus(Null, Times(Ratio("y"), Imag)) = Times(Root2Power(0), PhaseOf(0 % 8))
    BY <1>1, <1>3, <1>4, <1>5, <1>8, Tuples, SmallRoots
  <2>2. Plus(Null, Times(Minus(Ratio("y")), Imag)) = Times(Root2Power(0), PhaseOf(4 % 8))
    BY <1>1, <1>2, <1>3, <1>4, <1>5, <1>8, Tuples, SmallRoots
  <2>3. Null \in Ring /\ Imag \in Ring /\ "y" \in {"x", "y"}
    BY <1>5, Tuples
  <2>4. Minus(Imag) = IF "y" = "x" THEN Imag ELSE Minus(Imag)
    BY <1>5, <1>6
  <2>5. IsTurn(Matrix(0, <<<<Null, Minus(Imag)>>, <<Imag, Null>>>>), "y", 0, 4)
    BY <1>1, <1>2, <2>1, <2>2, <2>3, <2>4, AxisTurns
  <2>6. QED
    BY <2>5 DEF Y
<1>15. IsTurn(X90, "x", 0, 2)
  <2>1. Plus(Complex(1, 1), Times(Ratio("x"), Complex(1, -1))) = Times(Root2Power(2), PhaseOf(0 % 8))
    BY <1>1, <1>3, <1>4, <1>5, <1>9, Tuples, SmallRoots
  <2>2. Plus(Complex(1, 1), Times(Minus(Ratio("x")), Complex(1, -1))) = Times(Root2Power(2), PhaseOf(2 % 8))
    BY <1>1, <1>2, <1>3, <1>4, <1>5, <1>9, Tuples, SmallRoots
  <2>3. Complex(1, 1) \in Ring /\ Complex(1, -1) \in Ring /\ "x" \in {"x", "y"}
    BY <1>5, Tuples
  <2>4. Complex(1, -1) = IF "x" = "x" THEN Complex(1, -1) ELSE Minus(Complex(1, -1))
    BY <1>5, <1>6
  <2>5. IsTurn(Matrix(2, <<<<Complex(1, 1), Complex(1, -1)>>, <<Complex(1, -1), Complex(1, 1)>>>>), "x", 0, 2)
    BY <1>1, <1>2, <2>1, <2>2, <2>3, <2>4, AxisTurns
  <2>6. QED
    BY <2>5 DEF X90
<1>16. IsTurn(MX90, "x", 0, -2)
  <2>1. Plus(Complex(1, -1), Times(Ratio("x"), Complex(1, 1))) = Times(Root2Power(2), PhaseOf(0 % 8))
    BY <1>1, <1>3, <1>4, <1>5, <1>10, Tuples, SmallRoots
  <2>2. Plus(Complex(1, -1), Times(Minus(Ratio("x")), Complex(1, 1))) = Times(Root2Power(2), PhaseOf((-2) % 8))
    BY <1>1, <1>2, <1>3, <1>4, <1>5, <1>10, Tuples, SmallRoots
  <2>3. Complex(1, -1) \in Ring /\ Complex(1, 1) \in Ring /\ "x" \in {"x", "y"}
    BY <1>5, Tuples
  <2>4. Complex(1, 1) = IF "x" = "x" THEN Complex(1, 1) ELSE Minus(Complex(1, 1))
    BY <1>5, <1>6
  <2>5. IsTurn(Matrix(2, <<<<Complex(1, -1), Complex(1, 1)>>, <<Complex(1, 1), Complex(1, -1)>>>>), "x", 0, -2)
    BY <1>1, <1>2, <2>1, <2>2, <2>3, <2>4, AxisTurns
  <2>6. QED
    BY <2>5 DEF MX90
<1>17. IsTurn(Y90, "y", 0, 2)
  <2>1. Plus(Complex(1, 1), Times(Ratio("y"), Complex(1, 1))) = Times(Root2Power(2), PhaseOf(0 % 8))
    BY <1>1, <1>3, <1>4, <1>5, <1>11, Tuples, SmallRoots
  <2>2. Plus(Complex(1, 1), Times(Minus(Ratio("y")), Complex(1, 1))) = Times(Root2Power(2), PhaseOf(2 % 8))
    BY <1>1, <1>2, <1>3, <1>4, <1>5, <1>11, Tuples, SmallRoots
  <2>3. Complex(1, 1) \in Ring /\ Complex(1, 1) \in Ring /\ "y" \in {"x", "y"}
    BY <1>5, Tuples
  <2>4. Complex(-1, -1) = IF "y" = "x" THEN Complex(1, 1) ELSE Minus(Complex(1, 1))
    BY <1>5, <1>6
  <2>5. IsTurn(Matrix(2, <<<<Complex(1, 1), Complex(-1, -1)>>, <<Complex(1, 1), Complex(1, 1)>>>>), "y", 0, 2)
    BY <1>1, <1>2, <2>1, <2>2, <2>3, <2>4, AxisTurns
  <2>6. QED
    BY <2>5 DEF Y90
<1>18. IsTurn(MY90, "y", 0, -2)
  <2>1. Plus(Complex(1, -1), Times(Ratio("y"), Complex(-1, 1))) = Times(Root2Power(2), PhaseOf(0 % 8))
    BY <1>1, <1>3, <1>4, <1>5, <1>12, Tuples, SmallRoots
  <2>2. Plus(Complex(1, -1), Times(Minus(Ratio("y")), Complex(-1, 1))) = Times(Root2Power(2), PhaseOf((-2) % 8))
    BY <1>1, <1>2, <1>3, <1>4, <1>5, <1>12, Tuples, SmallRoots
  <2>3. Complex(1, -1) \in Ring /\ Complex(-1, 1) \in Ring /\ "y" \in {"x", "y"}
    BY <1>5, Tuples
  <2>4. Complex(1, -1) = IF "y" = "x" THEN Complex(-1, 1) ELSE Minus(Complex(-1, 1))
    BY <1>5, <1>6
  <2>5. IsTurn(Matrix(2, <<<<Complex(1, -1), Complex(1, -1)>>, <<Complex(-1, 1), Complex(1, -1)>>>>), "y", 0, -2)
    BY <1>1, <1>2, <2>1, <2>2, <2>3, <2>4, AxisTurns
  <2>6. QED
    BY <2>5 DEF MY90
<1>19. QED
  BY <1>13, <1>14, <1>15, <1>16, <1>17, <1>18

\* sqrt(2) times the sine, and the four numbers that the components of a rotation are.
SineOf(r) == CosineOf(IF r < 2 THEN r + 6 ELSE r - 2)
OppositeOf(r) == PhaseOf(IF r = 0 THEN 0 ELSE 8 - r)

\* The sum of a cosine and i times a sine is a phase, and so is their difference.
LEMMA Euler ==
  ASSUME NEW r \in 0..7, NEW c, c = CosineOf(r), NEW s, s = SineOf(r)
  PROVE  /\ c \in Ring /\ s \in Ring
         /\ Plus(c, Times(Minus(Imag), s)) = Times(Root2Power(1), OppositeOf(r))
         /\ Plus(c, Times(Imag, s)) = Times(Root2Power(1), PhaseOf(r))
<1>1. r = 0 \/ r = 1 \/ r = 2 \/ r = 3 \/ r = 4 \/ r = 5 \/ r = 6 \/ r = 7
  OBVIOUS
<1>2. /\ c = <<<<0, 1, 0, -1>>, <<1, 0, 0, 0>>, <<0, 0, 0, 0>>, <<-1, 0, 0, 0>>,
               <<0, -1, 0, 1>>, <<-1, 0, 0, 0>>, <<0, 0, 0, 0>>, <<1, 0, 0, 0>>>>[r + 1]
      /\ s = <<<<0, 0, 0, 0>>, <<1, 0, 0, 0>>, <<0, 1, 0, -1>>, <<1, 0, 0, 0>>,
               <<0, 0, 0, 0>>, <<-1, 0, 0, 0>>, <<0, -1, 0, 1>>, <<-1, 0, 0, 0>>>>[r + 1]
  <2>. DEFINE e == IF r < 2 THEN r + 6 ELSE r - 2
  <2>1. e + 1 = <<7, 8, 1, 2, 3, 4, 5, 6>>[r + 1]
    BY <1>1
  <2>2. s = CosineOf(e) /\ c = CosineOf(r)
    BY DEF SineOf
  <2>. HIDE DEF e
  <2>3. c = <<<<0, 1, 0, -1>>, <<1, 0, 0, 0>>, <<0, 0, 0, 0>>, <<-1, 0, 0, 0>>,
              <<0, -1, 0, 1>>, <<-1, 0, 0, 0>>, <<0, 0, 0, 0>>, <<1, 0, 0, 0>>>>[r + 1]
    BY <2>2 DEF CosineOf
  <2>4. s = <<<<0, 0, 0, 0>>, <<1, 0, 0, 0>>, <<0, 1, 0, -1>>, <<1, 0, 0, 0>>,
              <<0, 0, 0, 0>>, <<-1, 0, 0, 0>>, <<0, -1, 0, 1>>, <<-1, 0, 0, 0>>>>[r + 1]
    BY <1>1, <2>1, <2>2 DEF CosineOf
  <2>5. QED
    BY <2>3, <2>4
<1>3. c \in Ring /\ s \in Ring
  BY <1>1, <1>2 DEF Ring
<1>. DEFINE i == Times(<<0, 0, 1, 0>>, s)
            j == Times(<<0, 0, -1, 0>>, s)
<1>4. PICK s1, s2, s3, s4 \in Int : s = <<s1, s2, s3, s4>>
  BY <1>3, RingParts
<1>5. i = <<- s3, - s4, s1, s2>> /\ j = <<s3, s4, - s1, - s2>>
  BY <1>4 DEF Times, Null
<1>. HIDE DEF i, j
<1>6. i = <<<<0, 0, 0, 0>>, <<0, 0, 1, 0>>, <<0, 1, 0, 1>>, <<0, 0, 1, 0>>,
          <<0, 0, 0, 0>>, <<0, 0, -1, 0>>, <<0, -1, 0, -1>>, <<0, 0, -1, 0>>>>[r + 1]
  BY <1>4, <1>1, <1>2, <1>5
<1>7. j = <<<<0, 0, 0, 0>>, <<0, 0, -1, 0>>, <<0, -1, 0, -1>>, <<0, 0, -1, 0>>,
          <<0, 0, 0, 0>>, <<0, 0, 1, 0>>, <<0, 1, 0, 1>>, <<0, 0, 1, 0>>>>[r + 1]
  BY <1>4, <1>1, <1>2, <1>5
<1>8. Times(<<0, 1, 0, -1>>, PhaseOf(r))
      = <<<<0, 1, 0, -1>>, <<1, 0, 1, 0>>, <<0, 1, 0, 1>>, <<-1, 0, 1, 0>>,
          <<0, -1, 0, 1>>, <<-1, 0, -1, 0>>, <<0, -1, 0, -1>>, <<1, 0, -1, 0>>>>[r + 1]
  BY <1>1 DEF Times, Null, PhaseOf
<1>9. Times(<<0, 1, 0, -1>>, OppositeOf(r))
      = <<<<0, 1, 0, -1>>, <<1, 0, -1, 0>>, <<0, -1, 0, -1>>, <<-1, 0, -1, 0>>,
          <<0, -1, 0, 1>>, <<-1, 0, 1, 0>>, <<0, 1, 0, 1>>, <<1, 0, 1, 0>>>>[r + 1]
  BY <1>1 DEF Times, Null, PhaseOf, OppositeOf
<1>10. Plus(c, i) = Times(<<0, 1, 0, -1>>, PhaseOf(r))
  <2>1. /\ Plus(<<0, 1, 0, -1>>, <<0, 0, 0, 0>>) = <<0, 1, 0, -1>>
        /\ Plus(<<1, 0, 0, 0>>, <<0, 0, 1, 0>>) = <<1, 0, 1, 0>>
        /\ Plus(<<0, 0, 0, 0>>, <<0, 1, 0, 1>>) = <<0, 1, 0, 1>>
        /\ Plus(<<-1, 0, 0, 0>>, <<0, 0, 1, 0>>) = <<-1, 0, 1, 0>>
        /\ Plus(<<0, -1, 0, 1>>, <<0, 0, 0, 0>>) = <<0, -1, 0, 1>>
        /\ Plus(<<-1, 0, 0, 0>>, <<0, 0, -1, 0>>) = <<-1, 0, -1, 0>>
        /\ Plus(<<0, 0, 0, 0>>, <<0, -1, 0, -1>>) = <<0, -1, 0, -1>>
        /\ Plus(<<1, 0, 0, 0>>, <<0, 0, -1, 0>>) = <<1, 0, -1, 0>>
    BY DEF Plus
  <2>. DEFINE t == Times(<<0, 1, 0, -1>>, PhaseOf(r))
  <2>2. t = <<<<0, 1, 0, -1>>, <<1, 0, 1, 0>>, <<0, 1, 0, 1>>, <<-1, 0, 1, 0>>,
          <<0, -1, 0, 1>>, <<-1, 0, -1, 0>>, <<0, -1, 0, -1>>, <<1, 0, -1, 0>>>>[r + 1]
    BY <1>8
  <2>. SUFFICES t = Plus(c, i)
    OBVIOUS
  <2>. HIDE DEF t
  <2>3. CASE r = 0
    BY <1>2, <1>6, <2>1, <2>2, <2>3
  <2>4. CASE r = 1
    BY <1>2, <1>6, <2>1, <2>2, <2>4
  <2>5. CASE r = 2
    BY <1>2, <1>6, <2>1, <2>2, <2>5
  <2>6. CASE r = 3
    BY <1>2, <1>6, <2>1, <2>2, <2>6
  <2>7. CASE r = 4
    BY <1>2, <1>6, <2>1, <2>2, <2>7
  <2>8. CASE r = 5
    BY <1>2, <1>6, <2>1, <2>2, <2>8
  <2>9. CASE r = 6
    BY <1>2, <1>6, <2>1, <2>2, <2>9
  <2>10. CASE r = 7
    BY <1>2, <1>6, <2>1, <2>2, <2>10
  <2>11. QED
    BY <1>1, <2>3, <2>4, <2>5, <2>6, <2>7, <2>8, <2>9, <2>10
<1>11. Plus(c, j) = Times(<<0, 1, 0, -1>>, OppositeOf(r))
  <2>1. /\ Plus(<<0, 1, 0, -1>>, <<0, 0, 0, 0>>) = <<0, 1, 0, -1>>
        /\ Plus(<<1, 0, 0, 0>>, <<0, 0, -1, 0>>) = <<1, 0, -1, 0>>
        /\ Plus(<<0, 0, 0, 0>>, <<0, -1, 0, -1>>) = <<0, -1, 0, -1>>
        /\ Plus(<<-1, 0, 0, 0>>, <<0, 0, -1, 0>>) = <<-1, 0, -1, 0>>
        /\ Plus(<<0, -1, 0, 1>>, <<0, 0, 0, 0>>) = <<0, -1, 0, 1>>
        /\ Plus(<<-1, 0, 0, 0>>, <<0, 0, 1, 0>>) = <<-1, 0, 1, 0>>
        /\ Plus(<<0, 0, 0, 0>>, <<0, 1, 0, 1>>) = <<0, 1, 0, 1>>
        /\ Plus(<<1, 0, 0, 0>>, <<0, 0, 1, 0>>) = <<1, 0, 1, 0>>
    BY DEF Plus
  <2>. DEFINE t == Times(<<0, 1, 0, -1>>, OppositeOf(r))
  <2>2. t = <<<<0, 1, 0, -1>>, <<1, 0, -1, 0>>, <<0, -1, 0, -1>>, <<-1, 0, -1, 0>>,
              <<0, -1, 0, 1>>, <<-1, 0, 1, 0>>, <<0, 1, 0, 1>>, <<1, 0, 1, 0>>>>[r + 1]
    BY <1>9
  <2>. SUFFICES t = Plus(c, j)
    OBVIOUS
  <2>. HIDE DEF t
  <2>3. CASE r = 0
    BY <1>2, <1>7, <2>1, <2>2, <2>3
  <2>4. CASE r = 1
    BY <1>2, <1>7, <2>1, <2>2, <2>4
  <2>5. CASE r = 2
    BY <1>2, <1>7, <2>1, <2>2, <2>5
  <2>6. CASE r = 3
    BY <1>2, <1>7, <2>1, <2>2, <2>6
  <2>7. CASE r = 4
    BY <1>2, <1>7, <2>1, <2>2, <2>7
  <2>8. CASE r = 5
    BY <1>2, <1>7, <2>1, <2>2, <2>8
  <2>9. CASE r = 6
    BY <1>2, <1>7, <2>1, <2>2, <2>9
  <2>10. CASE r = 7
    BY <1>2, <1>7, <2>1, <2>2, <2>10
  <2>11. QED
    BY <1>1, <2>3, <2>4, <2>5, <2>6, <2>7, <2>8, <2>9, <2>10
<1>12. QED
  BY <1>3, <1>10, <1>11, Tuples, SmallRoots DEF i, j

\* A rotation turns the first component back and the second one on.
LEMMA RotationTurns ==
  ASSUME NEW k \in Int
  PROVE  IsTurn(RX(k), "x", -k, k) /\ IsTurn(RY(k), "y", -k, k) /\ IsTurn(RZ(k), "z", -k, k)
<1>. DEFINE r == k % 8
            c == CosineOf(r)
            s == SineOf(r)
<1>1. r \in 0..7 /\ -k \in Int /\ k - 2 \in Int /\ 1 \in Nat /\ PhaseOf((-k) % 8) = OppositeOf(r)
  BY Residues DEF OppositeOf
<1>2. Cosine(k) = c /\ Sine(k) = s
  <2>1. Cosine(k - 2) = CosineOf((k - 2) % 8)
    BY <1>1, CosineIs
  <2>2. QED
    BY <2>1, CosineIs, Residues DEF Sine, SineOf
<1>3. Phase(k) = PhaseOf(r) /\ Phase(-k) = PhaseOf((-k) % 8)
  BY <1>1, PhaseIs
<1>. HIDE DEF c, s
<1>4. /\ c \in Ring /\ s \in Ring
      /\ Plus(c, Times(Minus(Imag), s)) = Times(Root2Power(1), OppositeOf(r))
      /\ Plus(c, Times(Imag, s)) = Times(Root2Power(1), PhaseOf(r))
  BY <1>1, Euler DEF c, s
<1>5. Ratio("x") = One /\ Ratio("y") = Minus(Imag) /\ Minus(Minus(Imag)) = Imag
  BY Tuples, Parts, MinusZero, MinusMinusOne DEF Ratio
<1>6. IsTurn(RX(k), "x", -k, k)
  <2>. DEFINE b == Times(Minus(Imag), s)
  <2>1. b \in Ring /\ Times(One, b) = b
    BY <1>4, Tuples, TimesRing DEF One
  <2>2. Times(Minus(One), b) = Times(Imag, s)
    <3>1. Times(Minus(One), b) = Times(Times(Minus(One), Minus(Imag)), s)
      BY <1>4, Tuples, TimesAssociates
    <3>2. Times(<<-1, 0, 0, 0>>, <<0, 0, -1, 0>>) = <<0, 0, 1, 0>>
      BY DEF Times, Null
    <3>3. QED
      BY <3>1, <3>2, Tuples
  <2>. HIDE DEF b, r
  <2>3. Plus(c, Times(Ratio("x"), b)) = Times(Root2Power(1), PhaseOf((-k) % 8))
    BY <1>1, <1>4, <1>5, <2>1 DEF b
  <2>4. Plus(c, Times(Minus(Ratio("x")), b)) = Times(Root2Power(1), PhaseOf(k % 8))
    BY <1>4, <1>5, <2>2 DEF r
  <2>5. "x" \in {"x", "y"} /\ b = IF "x" = "x" THEN b ELSE Minus(b)
    OBVIOUS
  <2>6. IsTurn(Matrix(1, <<<<c, b>>, <<b, c>>>>), "x", -k, k)
    BY <1>1, <1>4, <2>1, <2>3, <2>4, <2>5, AxisTurns
  <2>7. QED
    BY <1>2, <2>6 DEF RX, b
<1>7. IsTurn(RY(k), "y", -k, k)
  <2>. HIDE DEF r
  <2>1. Plus(c, Times(Ratio("y"), s)) = Times(Root2Power(1), PhaseOf((-k) % 8))
    BY <1>1, <1>4, <1>5
  <2>2. Plus(c, Times(Minus(Ratio("y")), s)) = Times(Root2Power(1), PhaseOf(k % 8))
    BY <1>4, <1>5 DEF r
  <2>3. "y" \in {"x", "y"} /\ Minus(s) = IF "y" = "x" THEN s ELSE Minus(s)
    OBVIOUS
  <2>4. IsTurn(Matrix(1, <<<<c, Minus(s)>>, <<s, c>>>>), "y", -k, k)
    BY <1>1, <1>4, <2>1, <2>2, <2>3, AxisTurns
  <2>5. QED
    BY <1>2, <2>4 DEF RY
<1>8. IsTurn(RZ(k), "z", -k, k)
  BY <1>1, <1>3, DiagonalTurns DEF RZ
<1>9. QED
  BY <1>6, <1>7, <1>8

\* A matrix with the same entries turns the same components.
LEMMA SameTurn ==
  ASSUME NEW n, NEW axis, NEW first, NEW second, IsTurn(n, axis, first, second),
         NEW b, IsSquare(b, 2), b.halvings = n.halvings,
         \A r, c \in 1..2 : b.rows[r][c] = n.rows[r][c]
  PROVE  IsTurn(b, axis, first, second)
<1>1. \A p, e : IsTurnedBy(n, p, e) => IsTurnedBy(b, p, e)
  <2>. SUFFICES ASSUME NEW p, NEW e, IsTurnedBy(n, p, e)
                PROVE  IsTurnedBy(b, p, e)
    OBVIOUS
  <2>1. \A c \in 1..2 : b.rows[1][c] = n.rows[1][c] /\ b.rows[2][c] = n.rows[2][c]
    <3>1. 1 \in 1..2 /\ 2 \in 1..2
      OBVIOUS
    <3>2. QED
      BY <3>1
  <2>2. QED
    BY <2>1 DEF IsTurnedBy
<1>2. QED
  BY <1>1 DEF IsTurn

\* A phase gate turns the second component of the z axis.
LEMMA DiagonalPhases ==
  ASSUME NEW k \in Int
  PROVE  IsTurn(Diagonal(PhaseOf(k % 8)), "z", 0, k)
<1>1. 0 \in Int /\ 0 % 8 = 0
  OBVIOUS
<1>2. PhaseOf(0) = One
  BY Tuples DEF PhaseOf
<1>3. QED
  BY <1>1, <1>2, DiagonalTurns DEF Diagonal

\* The fixed gates about the z axis.
LEMMA DiagonalGates ==
  /\ IsTurn(Z, "z", 0, 4) /\ IsTurn(S, "z", 0, 2) /\ IsTurn(T, "z", 0, 1)
  /\ IsTurn(SDAG, "z", 0, -2) /\ IsTurn(TDAG, "z", 0, -1) /\ IsTurn(IDENTITY, "z", 0, 0)
<1>1. /\ 4 % 8 = 4 /\ 2 % 8 = 2 /\ 1 % 8 = 1 /\ 0 % 8 = 0
      /\ 4 \in Int /\ 2 \in Int /\ 1 \in Int /\ 0 \in Int /\ 8 - 2 = 6 /\ 8 - 1 = 7
  OBVIOUS
<1>2. (-2) % 8 = 6 /\ (-1) % 8 = 7 /\ -2 \in Int /\ -1 \in Int
  BY <1>1, Residues
<1>3. /\ PhaseOf(0) = One /\ PhaseOf(4) = Minus(One) /\ PhaseOf(2) = Imag /\ PhaseOf(1) = Omega
      /\ PhaseOf(6) = Minus(Imag) /\ PhaseOf(7) = <<0, 0, 0, -1>>
  BY Tuples DEF PhaseOf, Omega
<1>4. IsTurn(Z, "z", 0, 4) /\ IsTurn(S, "z", 0, 2) /\ IsTurn(T, "z", 0, 1)
  <2>1. /\ IsTurn(Diagonal(PhaseOf(4 % 8)), "z", 0, 4) /\ IsTurn(Diagonal(PhaseOf(2 % 8)), "z", 0, 2)
        /\ IsTurn(Diagonal(PhaseOf(1 % 8)), "z", 0, 1)
    BY <1>1, DiagonalPhases
  <2>2. QED
    BY <1>1, <1>3, <2>1 DEF Z, S, T
<1>5. /\ IsTurn(Diagonal(Minus(Imag)), "z", 0, -2) /\ IsTurn(Diagonal(<<0, 0, 0, -1>>), "z", 0, -1)
      /\ IsTurn(Diagonal(One), "z", 0, 0)
  <2>1. /\ IsTurn(Diagonal(PhaseOf((-2) % 8)), "z", 0, -2) /\ IsTurn(Diagonal(PhaseOf((-1) % 8)), "z", 0, -1)
        /\ IsTurn(Diagonal(PhaseOf(0 % 8)), "z", 0, 0)
    BY <1>1, <1>2, DiagonalPhases
  <2>2. QED
    BY <1>1, <1>2, <1>3, <2>1
<1>6. \A z : /\ Diagonal(z).halvings = 0
             /\ Diagonal(z).rows[1][1] = One /\ Diagonal(z).rows[1][2] = Null
             /\ Diagonal(z).rows[2][1] = Null /\ Diagonal(z).rows[2][2] = z
  BY DEF Diagonal, Matrix
<1>7. Conj(One) = One /\ Conj(Null) = Null /\ Conj(Imag) = Minus(Imag) /\ Conj(Omega) = <<0, 0, 0, -1>>
  BY Tuples, MinusZero DEF Conj, Omega
<1>8. \A c \in 1..2 : c = 1 \/ c = 2
  OBVIOUS
<1>9. 1 \in 1..2 /\ 2 \in 1..2 /\ 2 \in Nat
  OBVIOUS
<1>10. ASSUME NEW z \in Ring, NEW n, IsTurn(Diagonal(Conj(z)), "z", 0, n)
       PROVE  IsTurn(dagger(Diagonal(z)), "z", 0, n)
  <2>. DEFINE b == dagger(Diagonal(z))
              e == Diagonal(Conj(z))
  <2>1. IsSquare(Diagonal(z), 2)
    BY Tuples DEF IsSquare, Diagonal, Matrix
  <2>2. /\ b.halvings = 0 /\ IsSquare(b, 2)
        /\ \A r, c \in 1..2 : b.rows[r][c] = Conj(Diagonal(z).rows[c][r])
    BY <1>6, <1>9, <2>1, DaggerIs
  <2>. HIDE DEF b
  <2>3. /\ b.rows[1][1] = One /\ b.rows[1][2] = Null /\ b.rows[2][1] = Null /\ b.rows[2][2] = Conj(z)
    BY <1>6, <1>7, <1>9, <2>2
  <2>4. \A r, c \in 1..2 : b.rows[r][c] = e.rows[r][c]
    BY <1>6, <1>8, <2>3
  <2>5. IsTurn(b, "z", 0, n)
    BY <1>6, <1>10, <2>2, <2>4, SameTurn
  <2>6. QED
    BY <2>5 DEF b
<1>11. IsTurn(SDAG, "z", 0, -2)
  BY <1>5, <1>7, <1>10, Tuples DEF SDAG, S
<1>12. IsTurn(TDAG, "z", 0, -1)
  <2>1. Omega \in Ring
    BY DEF Omega, Ring
  <2>2. QED
    BY <1>5, <1>7, <1>10, <2>1 DEF TDAG, T
<1>13. IsTurn(IDENTITY, "z", 0, 0)
  <2>1. /\ IDENTITY.halvings = 0 /\ IsSquare(IDENTITY, 2)
        /\ \A r, c \in 1..2 : IDENTITY.rows[r][c] = IF r = c THEN One ELSE Null
    BY <1>9, IdentityIs DEF IDENTITY
  <2>2. \A r, c \in 1..2 : IDENTITY.rows[r][c] = Diagonal(One).rows[r][c]
    BY <1>6, <1>8, <2>1
  <2>3. QED
    BY <1>5, <1>6, <2>1, <2>2, SameTurn
<1>14. QED
  BY <1>4, <1>11, <1>12, <1>13

-----------------------------------------------------------------------------
(* The gates as blocks, and the gates without modifiers.                   *)

\* A sum with two terms that are not null.
LEMMA TwoOfTerms ==
  ASSUME NEW J, IsFiniteSet(J), NEW f, ValuesIn(f, J, Ring), NEW x \in J, NEW y \in J, x # y,
         \A z \in J : z # x /\ z # y => f[z] = Null
  PROVE  SumOver(Null, f, J) = Plus(f[x], f[y])
<1>. DEFINE rest == J \ {x}
<1>1. IsFiniteSet(rest) /\ y \in rest /\ ValuesIn(f, rest, Ring) /\ \A z \in rest \ {y} : f[z] = Null
  BY FS_Subset DEF ValuesIn
<1>2. SumOver(Null, f, J) = Plus(f[x], SumOver(Null, f, rest))
  BY Spaces, SumStep
<1>. HIDE DEF rest
<1>3. SumOver(Null, f, rest) = f[y]
  BY <1>1, OneTerm
<1>4. QED
  BY <1>2, <1>3

\* The identity, but for the last two rows and columns.
IsBlock(m, b, k) ==
  /\ IsSquare(b, 2) /\ b.halvings = m.halvings
  /\ \A r, c \in 1..2^k :
       m.rows[r][c] = IF r > 2^k - 2 /\ c > 2^k - 2
                      THEN b.rows[r - (2^k - 2)][c - (2^k - 2)]
                      ELSE IF r = c THEN Root2Power(m.halvings) ELSE Null

\* A matrix of two rows is its own block.
LEMMA SingleBlock ==
  ASSUME NEW b, IsSquare(b, 2)
  PROVE  IsBlock(b, b, 1)
<1>1. 2^1 = 2 /\ 2 - 2 = 0
  BY SmallPowers
<1>2. \A r \in 1..2 : r > 0 /\ r - 0 = r
  OBVIOUS
<1>3. QED
  BY <1>1, <1>2 DEF IsBlock

\* A matrix of four rows that begins like the identity.
LEMMA FourRowBlock ==
  ASSUME NEW b, IsSquare(b, 2), b.halvings = 0, NEW x, NEW y, NEW u, NEW v,
         b.rows[1][1] = x, b.rows[1][2] = y, b.rows[2][1] = u, b.rows[2][2] = v,
         NEW m, m = Matrix(0, <<<<One, Null, Null, Null>>, <<Null, One, Null, Null>>,
                                <<Null, Null, x, y>>, <<Null, Null, u, v>>>>)
  PROVE  IsBlock(m, b, 2)
<1>1. 2^2 = 4 /\ Root2Power(0) = One
  BY SmallPowers, SmallRoots, Tuples
<1>2. m.halvings = 0 /\ m.rows = <<<<One, Null, Null, Null>>, <<Null, One, Null, Null>>,
                                   <<Null, Null, x, y>>, <<Null, Null, u, v>>>>
  BY DEF Matrix
<1>3. \A r \in 1..4 : r = 1 \/ r = 2 \/ r = 3 \/ r = 4
  OBVIOUS
<1>4. 4 - 2 = 2 /\ 3 - 2 = 1 /\ 3 > 2 /\ 4 > 2 /\ ~(1 > 2) /\ ~(2 > 2)
  OBVIOUS
<1>. DEFINE Entry(r, c) == IF r > 2 /\ c > 2 THEN b.rows[r - 2][c - 2] ELSE IF r = c THEN One ELSE Null
<1>5. /\ Entry(3, 3) = x /\ Entry(3, 4) = y /\ Entry(4, 3) = u /\ Entry(4, 4) = v
  BY <1>4
<1>6. \A r, c \in 1..4 : m.rows[r][c] = Entry(r, c)
  <2>1. ASSUME NEW r \in 1..2
        PROVE  \A c \in 1..4 : m.rows[r][c] = Entry(r, c)
    BY <1>2, <1>3
  <2>2. ASSUME NEW c \in 1..4
        PROVE  m.rows[3][c] = Entry(3, c) /\ m.rows[4][c] = Entry(4, c)
    BY <1>2, <1>3, <1>5
  <2>3. QED
    BY <1>3, <2>1, <2>2
<1>7. \A r, c \in 1..4 :
        m.rows[r][c] = IF r > 2 /\ c > 2 THEN b.rows[r - 2][c - 2] ELSE IF r = c THEN One ELSE Null
  BY <1>6
<1>8. QED
  BY <1>1, <1>2, <1>4, <1>7 DEF IsBlock

\* The controlled default gates have their single-qubit gates as blocks.
LEMMA Blocks ==
  ASSUME NEW k \in Int
  PROVE  /\ IsBlock(CNOT, X, 2) /\ IsBlock(CZ, Z, 2) /\ IsBlock(TOFFOLI, X, 3)
         /\ IsBlock(CR(k), Diagonal(PhaseOf(k % 8)), 2)
<1>1. IsSquare(X, 2) /\ IsSquare(Z, 2) /\ IsSquare(Diagonal(PhaseOf(k % 8)), 2)
  BY FixedTurns, DiagonalGates, DiagonalPhases DEF IsTurn
<1>2. /\ X.halvings = 0 /\ X.rows[1][1] = Null /\ X.rows[1][2] = One /\ X.rows[2][1] = One /\ X.rows[2][2] = Null
  BY DEF X, Matrix
<1>3. \A z : /\ Diagonal(z).halvings = 0
             /\ Diagonal(z).rows[1][1] = One /\ Diagonal(z).rows[1][2] = Null
             /\ Diagonal(z).rows[2][1] = Null /\ Diagonal(z).rows[2][2] = z
  BY DEF Diagonal, Matrix
<1>4. IsBlock(CNOT, X, 2)
  BY <1>1, <1>2, FourRowBlock DEF CNOT
<1>5. IsBlock(CZ, Z, 2)
  BY <1>1, <1>3, FourRowBlock DEF CZ, LastPhase, Z
<1>6. IsBlock(CR(k), Diagonal(PhaseOf(k % 8)), 2)
  <2>1. CR(k) = LastPhase(PhaseOf(k % 8))
    BY PhaseIs DEF CR
  <2>2. QED
    BY <1>1, <1>3, <2>1, FourRowBlock DEF LastPhase
<1>7. IsBlock(TOFFOLI, X, 3)
  <2>. DEFINE Column(r) == IF r = 7 THEN 8 ELSE IF r = 8 THEN 7 ELSE r
  <2>1. 2^3 = 8 /\ Root2Power(0) = One /\ 8 - 2 = 6
    BY SmallPowers, SmallRoots, Tuples
  <2>2. TOFFOLI.halvings = 0
        /\ \A r, c \in 1..8 : TOFFOLI.rows[r][c] = IF c = Column(r) THEN One ELSE Null
    BY DEF TOFFOLI, Matrix
  <2>3. \A r \in 1..8 : r > 6 => r = 7 \/ r = 8
    OBVIOUS
  <2>4. 7 - 6 = 1 /\ 8 - 6 = 2 /\ 7 > 6 /\ 8 > 6 /\ 7 \in 1..8 /\ 8 \in 1..8 /\ 7 # 8
    OBVIOUS
  <2>5. \A r, c \in 1..8 : r > 6 /\ c > 6 => TOFFOLI.rows[r][c] = X.rows[r - 6][c - 6]
    BY <1>2, <2>2, <2>3, <2>4
  <2>6. \A r, c \in 1..8 : ~(r > 6 /\ c > 6) => (c = Column(r) <=> r = c)
    OBVIOUS
  <2>. HIDE DEF Column
  <2>7. \A r, c \in 1..8 :
          TOFFOLI.rows[r][c] = IF r > 6 /\ c > 6 THEN X.rows[r - 6][c - 6] ELSE IF r = c THEN One ELSE Null
    BY <2>2, <2>5, <2>6
  <2>8. QED
    BY <1>1, <1>2, <2>1, <2>2, <2>7 DEF IsBlock
<1>8. QED
  BY <1>4, <1>5, <1>6, <1>7

\* A gate without modifiers, and the parameters for which its matrix is in the ring.
IsPlainGate(g) ==
  /\ g.modifiers = <<>>
  /\ g.name \in DOMAIN fixed_gates \union {"Rx", "Ry", "Rz", "CR", "CRk"}
  /\ g.name \in {"Rx", "Ry", "Rz", "CR"} => g.parameter \in Int
  /\ g.name = "CRk" => g.parameter \in 1..3

\* Folding no modifiers returns the matrix as it is.
LEMMA NoModifiers ==
  ASSUME NEW base
  PROVE  FoldRight(Modified, <<>>, base) = base
<1>. DEFINE none == <<>>
            D == DOMAIN none
            IsIter(h) == h = [s \in SUBSET D |->
                IF s = {} THEN base ELSE Modified(none[Min(s)], h[s \ {Min(s)}])]
            iter == CHOOSE h : IsIter(h)
            g == [s \in SUBSET D |-> base]
<1>1. D = {}
  OBVIOUS
<1>2. IsIter(g)
  BY <1>1
<1>3. IsIter(iter)
  <2>. HIDE DEF IsIter
  <2>1. QED
    BY <1>2
<1>4. iter[{}] = base
  BY <1>1, <1>3
<1>5. FoldRight(Modified, none, base) = iter[D]
  BY DEF FoldRight, MapThenFoldSet
<1>6. QED
  BY <1>1, <1>4, <1>5

\* The names of the fixed default gates and their matrices.
LEMMA FixedNames ==
  /\ DOMAIN fixed_gates = {"CNOT", "CZ", "H", "I", "mX90", "mY90", "S", "Sdag", "SWAP", "T", "Tdag",
                           "TOFFOLI", "X", "X90", "Y", "Y90", "Z"}
  /\ fixed_gates["CNOT"] = CNOT /\ fixed_gates["CZ"] = CZ /\ fixed_gates["H"] = H
  /\ fixed_gates["I"] = IDENTITY /\ fixed_gates["mX90"] = MX90 /\ fixed_gates["mY90"] = MY90
  /\ fixed_gates["S"] = S /\ fixed_gates["Sdag"] = SDAG /\ fixed_gates["SWAP"] = SWAP
  /\ fixed_gates["T"] = T /\ fixed_gates["Tdag"] = TDAG /\ fixed_gates["TOFFOLI"] = TOFFOLI
  /\ fixed_gates["X"] = X /\ fixed_gates["X90"] = X90 /\ fixed_gates["Y"] = Y
  /\ fixed_gates["Y90"] = Y90 /\ fixed_gates["Z"] = Z
  BY DEF fixed_gates

\* The names that a plain gate may have.
LEMMA PlainNames ==
  ASSUME NEW g, IsPlainGate(g)
  PROVE  \/ g.name \in {"X", "CNOT", "TOFFOLI"} \/ g.name = "X90" \/ g.name = "mX90" \/ g.name = "Rx"
         \/ g.name = "Y" \/ g.name = "Y90" \/ g.name = "mY90" \/ g.name = "Ry" \/ g.name = "I"
         \/ g.name \in {"Z", "CZ"} \/ g.name = "S" \/ g.name = "Sdag" \/ g.name = "T" \/ g.name = "Tdag"
         \/ g.name = "Rz" \/ g.name = "CR" \/ g.name = "CRk" \/ g.name = "H" \/ g.name = "SWAP"
  BY FixedNames DEF IsPlainGate

\* The matrix of a plain gate is the default gate of its name.
LEMMA PlainMatrix ==
  ASSUME NEW g, IsPlainGate(g), NEW name, name = g.name
  PROVE  /\ name \in {"CNOT", "CZ", "H", "I", "mX90", "mY90", "S", "Sdag", "SWAP", "T", "Tdag", "TOFFOLI",
                      "X", "X90", "Y", "Y90", "Z"} => MatrixOf(g) = fixed_gates[name]
         /\ name = "Rx" => MatrixOf(g) = RX(g.parameter) /\ g.parameter \in Int
         /\ name = "Ry" => MatrixOf(g) = RY(g.parameter) /\ g.parameter \in Int
         /\ name = "Rz" => MatrixOf(g) = RZ(g.parameter) /\ g.parameter \in Int
         /\ name = "CR" => MatrixOf(g) = CR(g.parameter) /\ g.parameter \in Int
         /\ name = "CRk" => MatrixOf(g) = CR(2^(3 - g.parameter)) /\ 2^(3 - g.parameter) \in Int
<1>. DEFINE k == g.parameter
<1>1. MatrixOf(g) = default_gates(name, k)
  BY NoModifiers DEF MatrixOf, IsPlainGate
<1>2. name = "CRk" => 2^(3 - k) \in Int
  <2>1. ASSUME name = "CRk"
        PROVE  3 - k \in Nat
    BY <2>1 DEF IsPlainGate
  <2>2. QED
    BY <2>1, PowersOfTwo
<1>. HIDE DEF k
<1>3. /\ name = "Rx" => default_gates(name, k) = RX(k)
      /\ name = "Ry" => default_gates(name, k) = RY(k)
      /\ name = "Rz" => default_gates(name, k) = RZ(k)
      /\ name = "CR" => default_gates(name, k) = CR(k)
      /\ name = "CRk" => default_gates(name, k) = CR(2^(3 - k))
  BY DEF default_gates, AngleOfCRk
<1>4. name \in {"CNOT", "CZ", "H", "I", "mX90", "mY90", "S", "Sdag", "SWAP", "T", "Tdag", "TOFFOLI",
                "X", "X90", "Y", "Y90", "Z"} => default_gates(name, k) = fixed_gates[name]
  BY DEF default_gates
<1>5. name \in {"Rx", "Ry", "Rz", "CR"} => k \in Int
  BY DEF IsPlainGate, k
<1>6. QED
  BY <1>1, <1>2, <1>3, <1>4, <1>5 DEF k

-----------------------------------------------------------------------------
(* Lists, and sequences one after the other.                               *)

IsList(list) == Len(list) \in Nat /\ list = [j \in 1..Len(list) |-> list[j]]

\* The first sequence, the first two together, and so on.
IsFlat(g, seqs, n) ==
  g[1] = seqs[1] /\ \A j \in 1..(n - 1) : g[j + 1] = g[j] \o seqs[j + 1]

LEMMA FlatExists ==
  ASSUME NEW n \in Nat \ {0}, NEW seqs
  PROVE  \E g : IsFlat(g, seqs, n)
<1>. DEFINE Good == {j \in Nat : \E g : IsFlat(g, seqs, j + 1)}
<1>1. 0 \in Good
  <2>1. IsFlat([j \in {1} |-> seqs[1]], seqs, 0 + 1)
    BY DEF IsFlat
  <2>2. QED
    BY <2>1
<1>2. ASSUME NEW j \in Good
      PROVE  j + 1 \in Good
  <2>1. PICK g : IsFlat(g, seqs, j + 1)
    OBVIOUS
  <2>. DEFINE last == g[j + 1] \o seqs[j + 2]
              h    == [i \in 1..(j + 2) |-> IF i = j + 2 THEN last ELSE g[i]]
  <2>2. j \in Nat /\ (j + 1) + 1 = j + 2 /\ ((j + 1) + 1) - 1 = j + 1
    OBVIOUS
  <2>. HIDE DEF last, Good
  <2>3. h[j + 2] = last /\ \A i \in 1..(j + 1) : h[i] = g[i]
    BY <2>2
  <2>. HIDE DEF h
  <2>4. ASSUME NEW i \in 1..(j + 1)
        PROVE  h[i + 1] = h[i] \o seqs[i + 1]
    <3>1. CASE i = j + 1
      <4>1. h[i] = g[j + 1] /\ h[i + 1] = last
        BY <2>2, <2>3, <3>1
      <4>2. QED
        BY <2>2, <3>1, <4>1 DEF last
    <3>2. CASE i # j + 1
      <4>1. i \in 1..((j + 1) - 1) /\ i + 1 \in 1..(j + 1)
        BY <2>2, <3>2
      <4>2. g[i + 1] = g[i] \o seqs[i + 1]
        BY <2>1, <4>1 DEF IsFlat
      <4>3. QED
        BY <2>3, <4>1, <4>2
    <3>3. QED
      BY <3>1, <3>2
  <2>5. h[1] = seqs[1]
    BY <2>1, <2>2, <2>3 DEF IsFlat
  <2>6. IsFlat(h, seqs, (j + 1) + 1)
    BY <2>2, <2>4, <2>5 DEF IsFlat
  <2>7. QED
    BY <2>2, <2>6 DEF Good
<1>3. Good \in SUBSET Nat /\ n - 1 \in Nat /\ (n - 1) + 1 = n
  OBVIOUS
<1>. HIDE DEF Good
<1>4. n - 1 \in Good
  BY <1>1, <1>2, <1>3, Induction
<1>5. QED
  BY <1>3, <1>4 DEF Good

LEMMA FlatUnique ==
  ASSUME NEW n \in Nat \ {0}, NEW seqs, NEW g, IsFlat(g, seqs, n), NEW h, IsFlat(h, seqs, n)
  PROVE  g[n] = h[n]
<1>. DEFINE Good == {j \in Nat : j + 1 <= n => g[j + 1] = h[j + 1]}
<1>1. 0 \in Good
  BY DEF IsFlat
<1>2. ASSUME NEW j \in Good
      PROVE  j + 1 \in Good
  <2>. SUFFICES ASSUME (j + 1) + 1 <= n
                PROVE  g[(j + 1) + 1] = h[(j + 1) + 1]
    OBVIOUS
  <2>1. j + 1 \in 1..(n - 1) /\ j + 1 <= n
    OBVIOUS
  <2>2. g[j + 1] = h[j + 1]
    BY <2>1
  <2>3. QED
    BY <2>1, <2>2 DEF IsFlat
<1>3. Good \in SUBSET Nat /\ n - 1 \in Nat /\ (n - 1) + 1 = n
  OBVIOUS
<1>. HIDE DEF Good
<1>4. n - 1 \in Good
  BY <1>1, <1>2, <1>3, Induction
<1>5. g[(n - 1) + 1] = h[(n - 1) + 1]
  BY <1>3, <1>4 DEF Good
<1>6. QED
  BY <1>3, <1>5

LEMMA FlattenIs ==
  ASSUME NEW n \in Nat \ {0}, NEW seqs, Len(seqs) = n, NEW g, IsFlat(g, seqs, n)
  PROVE  FlattenSeq(seqs) = g[n]
<1>. DEFINE IsRecursion(f) ==
              f = [i \in 1..Len(seqs) |-> IF i = 1 THEN seqs[i] ELSE f[i - 1] \o seqs[i]]
            flatten == CHOOSE f : IsRecursion(f)
<1>1. FlattenSeq(seqs) = flatten[n]
  BY DEF FlattenSeq
<1>2. IsRecursion([i \in 1..n |-> g[i]])
  <2>. DEFINE f == [i \in 1..n |-> g[i]]
  <2>1. ASSUME NEW i \in 1..n
        PROVE  f[i] = IF i = 1 THEN seqs[i] ELSE f[i - 1] \o seqs[i]
    <3>1. CASE i = 1
      BY <3>1 DEF IsFlat
    <3>2. CASE i # 1
      <4>1. i - 1 \in 1..(n - 1) /\ (i - 1) + 1 = i /\ i - 1 \in 1..n
        BY <3>2
      <4>2. g[(i - 1) + 1] = g[i - 1] \o seqs[(i - 1) + 1]
        BY <4>1 DEF IsFlat
      <4>3. QED
        BY <3>2, <4>1, <4>2
    <3>3. QED
      BY <3>1, <3>2
  <2>2. QED
    BY <2>1
<1>3. IsRecursion(flatten)
  <2>. HIDE DEF IsRecursion
  <2>1. QED
    BY <1>2
<1>4. flatten = [i \in 1..n |-> IF i = 1 THEN seqs[i] ELSE flatten[i - 1] \o seqs[i]]
  BY <1>3
<1>. HIDE DEF flatten
<1>5. IsFlat(flatten, seqs, n)
  <2>1. flatten[1] = seqs[1]
    BY <1>4
  <2>2. ASSUME NEW j \in 1..(n - 1)
        PROVE  flatten[j + 1] = flatten[j] \o seqs[j + 1]
    <3>1. j + 1 \in 1..n /\ j + 1 # 1 /\ (j + 1) - 1 = j
      OBVIOUS
    <3>2. QED
      BY <1>4, <3>1
  <2>3. QED
    BY <2>1, <2>2 DEF IsFlat
<1>6. QED
  BY <1>1, <1>5, FlatUnique

\* Flattening one more sequence appends it.
LEMMA FlattenExtended ==
  ASSUME NEW n \in Nat, NEW s, Len(s) = n, s = [j \in 1..n |-> s[j]],
         NEW t, Len(t) = n + 1, \A j \in 1..n : t[j] = s[j],
         NEW V, t[n + 1] \in Seq(V)
  PROVE  FlattenSeq(t) = FlattenSeq(s) \o t[n + 1]
<1>1. n + 1 \in Nat \ {0}
  OBVIOUS
<1>2. PICK g : IsFlat(g, t, n + 1)
  BY <1>1, FlatExists
<1>3. FlattenSeq(t) = g[n + 1]
  BY <1>1, <1>2, FlattenIs
<1>4. CASE n = 0
  <2>1. FlattenSeq(s) = <<>>
    BY <1>4 DEF FlattenSeq
  <2>2. <<>> \o t[n + 1] = t[n + 1]
    OBVIOUS
  <2>3. g[1] = t[1]
    BY <1>2 DEF IsFlat
  <2>4. QED
    BY <1>3, <1>4, <2>1, <2>2, <2>3
<1>5. CASE n # 0
  <2>1. n \in Nat \ {0} /\ n \in 1..((n + 1) - 1) /\ 1 \in 1..n
    BY <1>5
  <2>2. IsFlat(g, s, n)
    <3>1. g[1] = s[1]
      BY <1>2, <2>1 DEF IsFlat
    <3>2. ASSUME NEW j \in 1..(n - 1)
          PROVE  g[j + 1] = g[j] \o s[j + 1]
      <4>1. j \in 1..((n + 1) - 1) /\ j + 1 \in 1..n
        OBVIOUS
      <4>2. QED
        BY <1>2, <4>1 DEF IsFlat
    <3>3. QED
      BY <3>1, <3>2 DEF IsFlat
  <2>3. FlattenSeq(s) = g[n]
    BY <2>1, <2>2, FlattenIs
  <2>4. g[n + 1] = g[n] \o t[n + 1]
    BY <1>2, <2>1 DEF IsFlat
  <2>5. QED
    BY <1>3, <2>3, <2>4
<1>6. QED
  BY <1>4, <1>5

LEMMA ListType ==
  ASSUME NEW a, IsList(a), NEW V, \A j \in 1..Len(a) : a[j] \in V
  PROVE  a \in Seq(V)
<1>1. PICK n \in Nat : n = Len(a)
  BY DEF IsList
<1>2. a = [j \in 1..n |-> a[j]] /\ \A j \in 1..n : a[j] \in V
  BY <1>1 DEF IsList
<1>3. a \in [1..n -> V]
  BY <1>2
<1>4. QED
  BY <1>1, <1>3

=============================================================================
