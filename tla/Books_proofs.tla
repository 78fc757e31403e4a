---------------------------- MODULE Books_proofs ----------------------------
(***************************************************************************)
(* Proofs about sums over books: the open risk of the alpha journal and of *)
(* its replay, the notional that the futures bot may still open, the       *)
(* stakes of the prediction market bot, and what the portfolio ledger      *)
(* tells of its records.                                                   *)
(*                                                                         *)
(* MapThenSumSet takes out one chosen element at a time, so its value is a *)
(* function on the subsets of a set, given by what it is of each subset    *)
(* without its chosen element.  That there is such a function, and what it *)
(* sums to, is shown by smallest counterexample: a set of subsets that has *)
(* none is empty.                                                          *)
(***************************************************************************)
EXTENDS PortfolioLedger, AlphaJournal, FuturesBot, PolymarketPaper, Evidence,
        FiniteSetTheorems, SequenceTheorems, WellFoundedInduction, TLAPS

Total(w, S) == MapThenSumSet(LAMBDA x : w[x], S)

Pick(s) == CHOOSE x \in s : TRUE
Step(w, s, g) == IF s = {} THEN 0 ELSE w[Pick(s)] + g[s \ {Pick(s)}]
IsFold(w, D, g) == g = [s \in D |-> Step(w, s, g)]
Fold(w, S) == CHOOSE g : IsFold(w, SUBSET S, g)
Upto(S, n) == {s \in SUBSET S : Cardinality(s) <= n}

\* MapThenSumSet is the fold that takes out one picked element at a time.
LEMMA TotalFold ==
  ASSUME NEW w, NEW S
  PROVE  Total(w, S) = Fold(w, S)[S]
  BY DEF Total, MapThenSumSet, MapThenFoldSet, Fold, IsFold, Step, Pick

\* A set of numbers has a least one.
LEMMA LeastNat ==
    ASSUME NEW N, N \subseteq Nat, N # {}
    PROVE  \E n \in N : \A m \in N : n <= m
  <1>1. IsWellFoundedOn(OpToRel(<, Nat), Nat)
    BY Zenon, NatLessThanWellFounded
  <1>2. PICK n \in N : \A m \in N : ~(<<m, n>> \in OpToRel(<, Nat))
    BY Zenon, <1>1, WFMin
  <1>3. \A m \in N : ~(m < n)
    BY <1>2 DEF OpToRel
  <1> QED
    BY <1>3

\* The picked element is one of the set.
LEMMA PickIn == ASSUME NEW s, s # {} PROVE Pick(s) \in s
  BY DEF Pick

\* A part of a finite set without one element is one smaller.
LEMMA Smaller ==
    ASSUME NEW S, IsFiniteSet(S), NEW s \in SUBSET S, NEW x \in s
    PROVE  /\ IsFiniteSet(s) /\ s \ {x} \in SUBSET S
           /\ Cardinality(s) \in Nat /\ Cardinality(s \ {x}) = Cardinality(s) - 1
           /\ Cardinality(s \ {x}) \in Nat
  <1>1. IsFiniteSet(s)
    BY FS_Subset
  <1>2. Cardinality(s) \in Nat /\ Cardinality(s \ {x}) = Cardinality(s) - 1
    BY <1>1, FS_CardinalityType, FS_RemoveElement
  <1>3. IsFiniteSet(s \ {x})
    BY <1>1, FS_Subset, s \ {x} \subseteq s
  <1> QED
    BY <1>1, <1>2, <1>3, FS_CardinalityType

\* There is a fold on the parts of at most k elements, whatever k.
LEMMA FoldUpto ==
    ASSUME NEW w, NEW S, IsFiniteSet(S), NEW k \in Nat
    PROVE  \E g : IsFold(w, Upto(S, k), g)
  <1> DEFINE Bad == {n \in Nat : ~\E g : IsFold(w, Upto(S, n), g)}
  <1> SUFFICES ASSUME Bad # {} PROVE FALSE
    OBVIOUS
  <1>1. PICK n \in Bad : \A m \in Bad : n <= m
    BY LeastNat
  <1>2. n \in Nat /\ ~\E g : IsFold(w, Upto(S, n), g)
    BY <1>1
  <1>3. CASE n = 0
    <2> DEFINE g == [s \in Upto(S, 0) |-> 0]
    <2> HIDE DEF g
    <2>1. \A s \in Upto(S, 0) : s = {}
      <3> SUFFICES ASSUME NEW s \in Upto(S, 0) PROVE s = {}
        OBVIOUS
      <3>1. s \in SUBSET S /\ Cardinality(s) <= 0
        BY DEF Upto
      <3>2. IsFiniteSet(s) /\ Cardinality(s) \in Nat
        BY <3>1, FS_Subset, FS_CardinalityType
      <3>3. Cardinality(s) = 0
        BY <3>1, <3>2
      <3> QED
        BY <3>2, <3>3, FS_EmptySet
    <2>2. ASSUME NEW s \in Upto(S, 0) PROVE Step(w, s, g) = 0
      BY <2>1 DEF Step
    <2>3. [s \in Upto(S, 0) |-> Step(w, s, g)] = [s \in Upto(S, 0) |-> 0]
      BY <2>2
    <2>4. IsFold(w, Upto(S, 0), g)
      BY <2>3 DEF IsFold, g
    <2> QED
      BY <1>2, <1>3, <2>4
  <1>4. CASE n # 0
    <2>1. n - 1 \in Nat /\ n - 1 \notin Bad
      BY <1>1, <1>2, <1>4
    <2>2. PICK g : IsFold(w, Upto(S, n - 1), g)
      BY <2>1
    <2> DEFINE h == [s \in Upto(S, n) |-> Step(w, s, g)]
    <2>3. ASSUME NEW s \in Upto(S, n), s # {}
          PROVE  s \ {Pick(s)} \in Upto(S, n - 1) /\ s \ {Pick(s)} \in Upto(S, n)
      BY <1>2, <2>3, PickIn, Smaller DEF Upto
    <2>4. ASSUME NEW s \in Upto(S, n - 1) PROVE g[s] = Step(w, s, g)
      BY <2>2 DEF IsFold
    <2>5. ASSUME NEW s \in Upto(S, n), s # {} PROVE h[s \ {Pick(s)}] = g[s \ {Pick(s)}]
      BY <2>3, <2>4, <2>5
    <2>6. ASSUME NEW s \in Upto(S, n) PROVE Step(w, s, g) = Step(w, s, h)
      BY <2>5 DEF Step
    <2>7. IsFold(w, Upto(S, n), h)
      BY <2>6 DEF IsFold
    <2> QED
      BY <1>2, <2>7
  <1> QED
    BY <1>3, <1>4

\* So the chosen fold unfolds one picked element at a time.
LEMMA FoldSteps ==
    ASSUME NEW w, NEW S, IsFiniteSet(S), NEW s \in SUBSET S
    PROVE  Fold(w, S)[s] = Step(w, s, Fold(w, S))
  <1>1. Cardinality(S) \in Nat
    BY FS_CardinalityType
  <1>2. Upto(S, Cardinality(S)) = SUBSET S
    <2>1. ASSUME NEW t \in SUBSET S PROVE t \in Upto(S, Cardinality(S))
      BY FS_Subset DEF Upto
    <2>2. Upto(S, Cardinality(S)) \subseteq SUBSET S
      BY DEF Upto
    <2> QED
      BY <2>1, <2>2
  <1>3. \E g : IsFold(w, SUBSET S, g)
    <2>1. \E g : IsFold(w, Upto(S, Cardinality(S)), g)
      BY <1>1, FoldUpto
    <2> QED
      BY Zenon, <2>1, <1>2
  <1>4. IsFold(w, SUBSET S, Fold(w, S))
    BY <1>3 DEF Fold
  <1> DEFINE F == Fold(w, S)
  <1> HIDE DEF F
  <1>5. F = [t \in SUBSET S |-> Step(w, t, F)]
    BY <1>4 DEF IsFold, F
  <1>6. F[s] = Step(w, s, F)
    BY <1>5
  <1> QED
    BY <1>6 DEF F

\* Of some parts of a finite set one is smallest.
LEMMA LeastSubset ==
    ASSUME NEW S, IsFiniteSet(S), NEW Bad, Bad \subseteq SUBSET S, Bad # {}
    PROVE  \E s \in Bad : \A t \in Bad : Cardinality(s) <= Cardinality(t)
  <1> DEFINE N == {Cardinality(s) : s \in Bad}
  <1>1. \A s \in Bad : Cardinality(s) \in Nat
    BY FS_Subset, FS_CardinalityType
  <1>2. N \subseteq Nat /\ N # {}
    BY <1>1
  <1>3. PICK n \in N : \A m \in N : n <= m
    BY <1>2, LeastNat
  <1> QED
    BY <1>3

\* What holds of a set when it holds of the set without the picked element holds
\* of every finite set: Bad are the subsets it fails for.
LEMMA NoneFails ==
    ASSUME NEW S, IsFiniteSet(S), NEW Bad, Bad \subseteq SUBSET S, {} \notin Bad,
           \A s \in SUBSET S : s # {} /\ s \ {Pick(s)} \notin Bad => s \notin Bad
    PROVE  Bad = {}
  <1> SUFFICES ASSUME Bad # {} PROVE FALSE
    OBVIOUS
  <1>1. PICK s \in Bad : \A t \in Bad : Cardinality(s) <= Cardinality(t)
    BY LeastSubset
  <1>2. s \in SUBSET S /\ s # {} /\ Pick(s) \in s
    BY PickIn
  <1>3. s \ {Pick(s)} \in Bad
    BY <1>2
  <1>4. Cardinality(s) \in Nat /\ Cardinality(s \ {Pick(s)}) = Cardinality(s) - 1
    BY <1>2, Smaller
  <1> QED
    BY <1>1, <1>3, <1>4

\* The fold of a part is the fold of the whole, restricted to it.
LEMMA FoldsAgree ==
    ASSUME NEW w, NEW S, IsFiniteSet(S), NEW T \in SUBSET S
    PROVE  \A s \in SUBSET T : Fold(w, T)[s] = Fold(w, S)[s]
  <1> DEFINE Bad == {s \in SUBSET T : Fold(w, T)[s] # Fold(w, S)[s]}
  <1>1. IsFiniteSet(T) /\ SUBSET T \subseteq SUBSET S
    BY FS_Subset
  <1>2. \A s \in SUBSET T : /\ Fold(w, T)[s] = Step(w, s, Fold(w, T))
                            /\ Fold(w, S)[s] = Step(w, s, Fold(w, S))
    BY <1>1, FoldSteps
  <1>3. {} \notin Bad
    BY <1>2 DEF Step
  <1>4. ASSUME NEW s \in SUBSET T, s # {}, s \ {Pick(s)} \notin Bad PROVE s \notin Bad
    <2>1. s \ {Pick(s)} \in SUBSET T
      OBVIOUS
    <2>2. Fold(w, T)[s \ {Pick(s)}] = Fold(w, S)[s \ {Pick(s)}]
      BY <1>4, <2>1
    <2> QED
      BY <1>2, <2>2 DEF Step
  <1>5. Bad = {}
    BY <1>1, <1>3, <1>4, NoneFails
  <1> QED
    BY <1>5

\* Nothing sums to zero.
LEMMA TotalEmpty == ASSUME NEW w PROVE Total(w, {}) = 0
  BY FS_EmptySet, TotalFold, FoldSteps DEF Step

\* A sum is the picked weight and the sum of the rest.
LEMMA TotalPick ==
    ASSUME NEW w, NEW S, IsFiniteSet(S), S # {}
    PROVE  Total(w, S) = w[Pick(S)] + Total(w, S \ {Pick(S)})
  <1> DEFINE T == S \ {Pick(S)}
  <1>1. T \in SUBSET S /\ T \in SUBSET T /\ S \in SUBSET S
    OBVIOUS
  <1>2. Fold(w, S)[S] = w[Pick(S)] + Fold(w, S)[T]
    BY <1>1, FoldSteps DEF Step
  <1> HIDE DEF T
  <1>3. Fold(w, T)[T] = Fold(w, S)[T]
    BY <1>1, FoldsAgree
  <1>4. Total(w, S) = Fold(w, S)[S] /\ Total(w, T) = Fold(w, T)[T]
    BY TotalFold
  <1> QED
    BY <1>2, <1>3, <1>4 DEF T

\* A sum of integers is one.
LEMMA TotalType ==
    ASSUME NEW w, NEW S, IsFiniteSet(S), \A x \in S : w[x] \in Int
    PROVE  Total(w, S) \in Int
  <1> DEFINE Bad == {s \in SUBSET S : Total(w, s) \notin Int}
  <1>1. {} \notin Bad
    BY TotalEmpty
  <1>2. ASSUME NEW s \in SUBSET S, s # {}, s \ {Pick(s)} \notin Bad PROVE s \notin Bad
    <2>1. IsFiniteSet(s) /\ Pick(s) \in s /\ s \ {Pick(s)} \in SUBSET S
      BY <1>2, PickIn, FS_Subset
    <2>2. Total(w, s) = w[Pick(s)] + Total(w, s \ {Pick(s)})
      BY <1>2, <2>1, TotalPick
    <2>3. Total(w, s \ {Pick(s)}) \in Int /\ w[Pick(s)] \in Int
      BY <1>2, <2>1
    <2> QED
      BY <2>2, <2>3
  <1>3. Bad = {}
    BY <1>1, <1>2, NoneFails
  <1> QED
    BY <1>3

\* A sum of naturals is one.
LEMMA TotalNat ==
    ASSUME NEW w, NEW S, IsFiniteSet(S), \A x \in S : w[x] \in Nat
    PROVE  Total(w, S) \in Nat
  <1> DEFINE Bad == {s \in SUBSET S : Total(w, s) \notin Nat}
  <1>1. {} \notin Bad
    BY TotalEmpty
  <1>2. ASSUME NEW s \in SUBSET S, s # {}, s \ {Pick(s)} \notin Bad PROVE s \notin Bad
    <2>1. IsFiniteSet(s) /\ Pick(s) \in s /\ s \ {Pick(s)} \in SUBSET S
      BY <1>2, PickIn, FS_Subset
    <2>2. Total(w, s) = w[Pick(s)] + Total(w, s \ {Pick(s)})
      BY <1>2, <2>1, TotalPick
    <2>3. Total(w, s \ {Pick(s)}) \in Nat /\ w[Pick(s)] \in Nat
      BY <1>2, <2>1
    <2> QED
      BY <2>2, <2>3
  <1>3. Bad = {}
    BY <1>1, <1>2, NoneFails
  <1> QED
    BY <1>3

\* The total does not depend on which element is taken out.
LEMMA TotalWithout ==
    ASSUME NEW w, NEW S, IsFiniteSet(S), \A x \in S : w[x] \in Int, NEW x \in S
    PROVE  Total(w, S) = w[x] + Total(w, S \ {x})
  <1> DEFINE Bad == {s \in SUBSET S : \E y \in s : Total(w, s) # w[y] + Total(w, s \ {y})}
  <1> SUFFICES ASSUME Bad # {} PROVE FALSE
    OBVIOUS
  <1>1. PICK s \in Bad : \A t \in Bad : Cardinality(s) <= Cardinality(t)
    BY LeastSubset
  <1>2. PICK y \in s : Total(w, s) # w[y] + Total(w, s \ {y})
    BY <1>1
  <1> DEFINE p == Pick(s)
  <1>3. s \in SUBSET S /\ s # {} /\ p \in s /\ y \in S /\ p \in S
    BY <1>1, <1>2, PickIn
  <1> HIDE DEF p
  <1>4. \A z \in s : /\ IsFiniteSet(s) /\ s \ {z} \in SUBSET S
                     /\ Cardinality(s) \in Nat /\ Cardinality(s \ {z}) = Cardinality(s) - 1
    <2> SUFFICES ASSUME NEW z \in s
                 PROVE  /\ IsFiniteSet(s) /\ s \ {z} \in SUBSET S
                        /\ Cardinality(s) \in Nat /\ Cardinality(s \ {z}) = Cardinality(s) - 1
      OBVIOUS
    <2> QED
      BY <1>3, Smaller
  <1>5. ASSUME NEW z \in s PROVE s \ {z} \notin Bad
    <2> HIDE DEF Bad
    <2>1. Cardinality(s) \in Nat /\ Cardinality(s \ {z}) = Cardinality(s) - 1
      BY <1>4
    <2>2. ~(Cardinality(s) <= Cardinality(s \ {z}))
      BY <2>1
    <2> QED
      BY Zenon, <1>1, <2>2
  <1>6. Total(w, s) = w[p] + Total(w, s \ {p})
    BY <1>3, <1>4, TotalPick DEF p
  <1>7. y # p
    BY <1>2, <1>6
  <1>8. Total(w, s \ {p}) = w[y] + Total(w, (s \ {p}) \ {y})
    BY <1>3, <1>4, <1>5, <1>7
  <1>9. Total(w, s \ {y}) = w[p] + Total(w, (s \ {y}) \ {p})
    BY <1>3, <1>4, <1>5, <1>7
  <1>10. (s \ {p}) \ {y} = (s \ {y}) \ {p}
    OBVIOUS
  <1>11. Total(w, (s \ {y}) \ {p}) \in Int
    <2>1. IsFiniteSet((s \ {y}) \ {p}) /\ (s \ {y}) \ {p} \subseteq S
      BY <1>3, FS_Subset
    <2> QED
      BY <2>1, TotalType
  <1>12. w[p] \in Int /\ w[y] \in Int
    BY <1>3
  <1> DEFINE sp == s \ {p}
             sy == s \ {y}
             rest == (s \ {y}) \ {p}
  <1>13. /\ Total(w, s) = w[p] + Total(w, sp) /\ Total(w, s) # w[y] + Total(w, sy)
         /\ Total(w, sp) = w[y] + Total(w, rest) /\ Total(w, sy) = w[p] + Total(w, rest)
         /\ Total(w, rest) \in Int
    BY <1>2, <1>6, <1>8, <1>9, <1>10, <1>11
  <1> HIDE DEF Bad, sp, sy, rest
  <1> QED
    BY <1>12, <1>13

\* A new element adds its weight.
LEMMA TotalWith ==
    ASSUME NEW w, NEW S, IsFiniteSet(S), NEW x, x \notin S,
           \A y \in S \cup {x} : w[y] \in Int
    PROVE  Total(w, S \cup {x}) = Total(w, S) + w[x]
  <1>1. IsFiniteSet(S \cup {x}) /\ (S \cup {x}) \ {x} = S
    BY FS_AddElement
  <1>2. Total(w, S \cup {x}) = w[x] + Total(w, S)
    BY <1>1, TotalWithout
  <1>3. Total(w, S) \in Int
    BY TotalType
  <1> QED
    BY <1>2, <1>3

\* Only the weights of the elements count.
LEMMA TotalSame ==
    ASSUME NEW w, NEW v, NEW S, IsFiniteSet(S), \A x \in S : w[x] = v[x]
    PROVE  Total(w, S) = Total(v, S)
  <1> DEFINE Bad == {s \in SUBSET S : Total(w, s) # Total(v, s)}
  <1>1. {} \notin Bad
    BY TotalEmpty
  <1>2. ASSUME NEW s \in SUBSET S, s # {}, s \ {Pick(s)} \notin Bad PROVE s \notin Bad
    <2>1. IsFiniteSet(s) /\ Pick(s) \in s /\ s \ {Pick(s)} \in SUBSET S
      BY <1>2, PickIn, FS_Subset
    <2>2. /\ Total(w, s) = w[Pick(s)] + Total(w, s \ {Pick(s)})
          /\ Total(v, s) = v[Pick(s)] + Total(v, s \ {Pick(s)})
      BY <1>2, <2>1, TotalPick
    <2>3. Total(w, s \ {Pick(s)}) = Total(v, s \ {Pick(s)}) /\ w[Pick(s)] = v[Pick(s)]
      BY <1>2, <2>1
    <2> QED
      BY <2>2, <2>3
  <1>3. Bad = {}
    BY <1>1, <1>2, NoneFails
  <1> QED
    BY <1>3

\* A part of a set of naturals sums to no more than the whole.
LEMMA TotalPart ==
    ASSUME NEW w, NEW S, IsFiniteSet(S), \A x \in S : w[x] \in Nat, NEW T \in SUBSET S
    PROVE  Total(w, T) <= Total(w, S)
  <1> DEFINE Bad == {s \in SUBSET S : ~(Total(w, s \cap T) <= Total(w, s))}
  <1>0. \A s \in SUBSET S : Total(w, s) \in Nat
    BY FS_Subset, TotalNat
  <1>1. {} \notin Bad
    BY TotalEmpty
  <1>2. ASSUME NEW s \in SUBSET S, s # {}, s \ {Pick(s)} \notin Bad PROVE s \notin Bad
    <2> SUFFICES Total(w, s \cap T) <= Total(w, s)
      OBVIOUS
    <2> DEFINE p == Pick(s)
    <2>1. IsFiniteSet(s) /\ p \in s /\ p \in S /\ s \ {p} \in SUBSET S
      BY <1>2, PickIn, FS_Subset
    <2> HIDE DEF p
    <2>2. Total(w, s) = w[p] + Total(w, s \ {p})
      BY <1>2, <2>1, TotalPick DEF p
    <2>3. Total(w, (s \ {p}) \cap T) <= Total(w, s \ {p})
      BY <1>2, <2>1 DEF p
    <2> DEFINE less == s \ {p}
               both == (s \ {p}) \cap T
    <2>6. Total(w, less) \in Nat /\ w[p] \in Nat /\ Total(w, both) \in Nat
      BY <1>0, <2>1
    <2>7. Total(w, s) = w[p] + Total(w, less) /\ Total(w, both) <= Total(w, less)
      BY <2>2, <2>3
    <2>4. CASE p \notin T
      <3>1. s \cap T = both
        BY <2>4
      <3>2. Total(w, both) <= Total(w, s)
        <4> HIDE DEF less, both, Bad
        <4> QED
          BY <2>6, <2>7
      <3> QED
        BY Zenon, <3>1, <3>2
    <2>5. CASE p \in T
      <3>1. (s \cap T) \ {p} = both /\ p \in s \cap T
        BY <2>1, <2>5
      <3>2. IsFiniteSet(s \cap T) /\ \A x \in s \cap T : w[x] \in Int
        BY FS_Subset
      <3>3. Total(w, s \cap T) = w[p] + Total(w, (s \cap T) \ {p})
        BY <3>1, <3>2, TotalWithout
      <3>4. Total(w, s \cap T) = w[p] + Total(w, both)
        BY <3>1, <3>3
      <3>5. Total(w, s \cap T) <= Total(w, s)
        <4> HIDE DEF less, both, Bad
        <4> QED
          BY <2>6, <2>7, <3>4
      <3> QED
        BY <3>5
    <2> QED
      BY <2>4, <2>5
  <1>3. Bad = {}
    BY <1>1, <1>2, NoneFails
  <1>4. S \notin Bad /\ S \cap T = T
    BY <1>3
  <1> QED
    BY <1>4

\* The images of a finite set are finitely many.
LEMMA ImageFinite ==
    ASSUME NEW f, NEW S, IsFiniteSet(S)
    PROVE  IsFiniteSet({f[x] : x \in S})
  <1> DEFINE T == {f[x] : x \in S}
             g == [x \in S |-> f[x]]
  <1>1. g \in Surjection(S, T)
    BY DEF Surjection
  <1> HIDE DEF T, g
  <1>2. IsFiniteSet(T)
    BY <1>1, FS_Surjection
  <1> QED
    BY <1>2 DEF T

\* A sum over the distinct images of a set is a sum over the set.
LEMMA TotalMap ==
    ASSUME NEW w, NEW f, NEW S, IsFiniteSet(S), \A x \in S : w[f[x]] \in Int,
           \A x, y \in S : f[x] = f[y] => x = y
    PROVE  Total(w, {f[x] : x \in S}) = Total([x \in S |-> w[f[x]]], S)
  <1> DEFINE v == [x \in S |-> w[f[x]]]
             Image(s) == {f[x] : x \in s}
             Bad == {s \in SUBSET S : Total(w, Image(s)) # Total(v, s)}
  <1>1. {} \notin Bad
    <2>1. Image({}) = {}
      OBVIOUS
    <2>2. Total(w, {}) = 0 /\ Total(v, {}) = 0
      BY TotalEmpty
    <2> HIDE DEF Image, v
    <2> QED
      BY <2>1, <2>2
  <1>2. ASSUME NEW s \in SUBSET S, s # {}, s \ {Pick(s)} \notin Bad PROVE s \notin Bad
    <2> DEFINE p == Pick(s)
               rest == s \ {Pick(s)}
    <2>1. IsFiniteSet(s) /\ p \in s /\ p \in S /\ rest \in SUBSET S /\ IsFiniteSet(rest)
      BY <1>2, PickIn, FS_Subset
    <2>2. Total(v, s) = v[p] + Total(v, rest)
      <3> HIDE DEF v, Bad
      <3> QED
        BY <1>2, <2>1, TotalPick
    <2>3. Total(w, Image(rest)) = Total(v, rest)
      BY <1>2, <2>1
    <2>4. IsFiniteSet(Image(rest))
      BY <2>1, ImageFinite
    <2>5. Image(s) = Image(rest) \cup {f[p]} /\ f[p] \notin Image(rest)
      BY <2>1
    <2>6. \A y \in Image(rest) \cup {f[p]} : w[y] \in Int
      BY <2>1
    <2>7. v[p] = w[f[p]]
      BY <2>1
    <2> DEFINE image == Image(rest)
               all == Image(s)
    <2>8. Total(w, image \cup {f[p]}) = Total(w, image) + w[f[p]]
      <3>1. f[p] \notin image /\ IsFiniteSet(image) /\ \A y \in image \cup {f[p]} : w[y] \in Int
        BY <2>4, <2>5, <2>6
      <3> HIDE DEF image, p
      <3> QED
        BY <3>1, TotalWith
    <2>9. w[f[p]] \in Int /\ Total(v, rest) \in Int
      <3>1. \A x \in rest : v[x] \in Int
        BY <2>1
      <3> HIDE DEF v
      <3> QED
        BY <2>1, <3>1, TotalType
    <2>10. Total(w, all) = Total(v, s)
      <3>1. all = image \cup {f[p]} /\ Total(w, image) = Total(v, rest)
        BY <2>3, <2>5
      <3> HIDE DEF all, image, v, p, rest, Bad
      <3> QED
        BY <2>2, <2>7, <2>8, <2>9, <3>1
    <2> QED
      BY <2>10
  <1>3. Bad = {}
    <2> HIDE DEF Bad
    <2>1. Bad \subseteq SUBSET S
      BY DEF Bad
    <2> QED
      BY <1>1, <1>2, <2>1, NoneFails
  <1>4. S \notin Bad
    BY <1>3
  <1> QED
    BY <1>4

-----------------------------------------------------------------------------
(* The risks of rows and of records. *)

Risks(S) == MapThenSumSet(LAMBDA r : r.risk, S)
RiskTable(S) == [r \in S |-> r.risk]
RiskFold(S, g) == [s \in SUBSET S |-> IF s = {} THEN 0 ELSE Pick(s).risk + g[s \ {Pick(s)}]]

\* A sum of risks is a sum of weights.
LEMMA RisksTotal ==
    ASSUME NEW S
    PROVE  Risks(S) = Total(RiskTable(S), S)
  <1> DEFINE w == RiskTable(S)
             WFold(g) == [s \in SUBSET S |-> Step(w, s, g)]
  <1>1. ASSUME NEW g PROVE RiskFold(S, g) = WFold(g)
    <2>1. ASSUME NEW s \in SUBSET S, s # {} PROVE Pick(s).risk = w[Pick(s)]
      BY <2>1, PickIn DEF RiskTable
    <2> QED
      BY <2>1 DEF RiskFold, Step
  <1>2. Risks(S) = (CHOOSE g : g = RiskFold(S, g))[S]
    BY DEF Risks, MapThenSumSet, MapThenFoldSet, Pick, RiskFold
  <1> HIDE DEF w
  <1>3. Total(w, S) = (CHOOSE g : g = WFold(g))[S]
    BY TotalFold DEF Fold, IsFold
  <1> HIDE DEF WFold
  <1>4. (CHOOSE g : g = RiskFold(S, g)) = (CHOOSE g : g = WFold(g))
    BY <1>1
  <1> QED
    BY <1>2, <1>3, <1>4 DEF w

\* No trade, no risk.
LEMMA RisksEmpty == Risks({}) = 0
  BY RisksTotal, TotalEmpty

\* Risks that are natural sum to a natural.
LEMMA RisksNat ==
    ASSUME NEW S, IsFiniteSet(S), \A r \in S : r.risk \in Nat
    PROVE  Risks(S) \in Nat
  BY RisksTotal, TotalNat DEF RiskTable

\* A new trade adds its risk.
LEMMA RisksWith ==
    ASSUME NEW S, IsFiniteSet(S), NEW x, x \notin S, \A r \in S \cup {x} : r.risk \in Nat
    PROVE  Risks(S \cup {x}) = Risks(S) + x.risk
  <1> DEFINE T == S \cup {x}
             w == RiskTable(T)
  <1>1. \A r \in T : w[r] = r.risk
    BY DEF RiskTable
  <1>2. \A r \in S : w[r] = RiskTable(S)[r]
    BY DEF RiskTable
  <1>3. x \in T /\ \A r \in T : w[r] \in Int
    BY <1>1
  <1> HIDE DEF w
  <1>4. Total(w, T) = Total(w, S) + w[x]
    BY <1>3, TotalWith
  <1>5. Total(w, S) = Total(RiskTable(S), S)
    BY <1>2, TotalSame
  <1> HIDE DEF T
  <1>6. Risks(T) = Total(w, T) /\ Risks(S) = Total(RiskTable(S), S)
    BY RisksTotal DEF w
  <1>7. w[x] = x.risk
    BY <1>1, <1>3
  <1>8. Risks(T) = Risks(S) + x.risk
    BY <1>4, <1>5, <1>6, <1>7
  <1> QED
    BY <1>8 DEF T

\* A part of the trades risks no more than all of them.
LEMMA RisksPart ==
    ASSUME NEW S, IsFiniteSet(S), \A r \in S : r.risk \in Nat, NEW T \in SUBSET S
    PROVE  Risks(T) <= Risks(S)
  <1>1. Total(RiskTable(S), T) <= Total(RiskTable(S), S)
    BY TotalPart DEF RiskTable
  <1>2. IsFiniteSet(T) /\ \A r \in T : RiskTable(S)[r] = RiskTable(T)[r]
    BY FS_Subset DEF RiskTable
  <1>3. Total(RiskTable(S), T) = Total(RiskTable(T), T)
    BY <1>2, TotalSame
  <1> QED
    BY <1>1, <1>3, RisksTotal

-----------------------------------------------------------------------------
(* The durable journal. *)

(* A valid thesis risks a natural amount: a price from 0 to 100, a cost that is
   known or not, a positive number of units. *)
LEMMA RiskIsNat ==
    ASSUME NEW t \in ValidTerms
    PROVE  RiskOf(t) \in Nat
  <1>1. /\ {t.price, t.cost, t.units} \subseteq Int
        /\ t.units > 0 /\ t.price \in 0 .. 100 /\ t.cost >= Unknown
    BY AlphaAmounts DEF ValidTerms, ThesisValid, ObservationValid
  <1>2. UnitCost(t) \in Nat
    BY <1>1 DEF UnitCost, Unknown
  <1>3. t.units \in Nat
    BY <1>1
  <1> QED
    BY <1>2, <1>3 DEF RiskOf

Rows == [request : Requests, action : {"TRADE_PAPER", "WATCH", "WAIT"},
         payout : Payouts \cup {Unknown}, pnl : Int, risk : Nat]

JournalInv == /\ IsFiniteSet(journal) /\ journal \subseteq Rows
              /\ ExposureBudgeted

\* The open rows of an account are finitely many and their risk is a number.
LEMMA OpenRowsFit ==
    ASSUME JournalInv, NEW a
    PROVE  /\ IsFiniteSet(OpenRows(a)) /\ \A r \in OpenRows(a) : r.risk \in Nat
           /\ OpenExposure(a) = Risks(OpenRows(a)) /\ Risks(OpenRows(a)) \in Nat
           /\ Cardinality(OpenRows(a)) \in Nat
  <1>1. OpenRows(a) \subseteq journal /\ \A r \in OpenRows(a) : r.risk \in Nat
    BY DEF OpenRows, JournalInv, Rows
  <1>2. IsFiniteSet(OpenRows(a))
    BY <1>1, FS_Subset DEF JournalInv
  <1>3. OpenExposure(a) = Risks(OpenRows(a))
    BY DEF OpenExposure, Risks
  <1> QED
    BY <1>1, <1>2, <1>3, RisksNat, FS_CardinalityType

\* The same of the next state.
LEMMA OpenExposureNext ==
    ASSUME NEW a
    PROVE  OpenExposure(a)' = Risks(OpenRows(a)')
  BY DEF OpenExposure, Risks, MapThenSumSet, MapThenFoldSet, OpenRows

\* A review reserves only what the budget has left, and no instrument twice.
LEMMA ReviewKeepsBudget ==
    ASSUME JournalInv, BudgetValid, NEW req \in Requests, NEW pol, Review(req, pol)
    PROVE  JournalInv'
  <1> DEFINE open == OpenRows(req.account)
  <1>1. PICK act, new :
          /\ act = IF Reserved(req) THEN "WAIT"
                   ELSE Evaluate(req.terms, OpenExposure(req.account), Cardinality(open))
          /\ new = [request |-> req, action |-> act, payout |-> Unknown, pnl |-> 0,
                    risk |-> IF act = "TRADE_PAPER" THEN RiskOf(req.terms) ELSE 0]
          /\ journal' = journal \cup {new}
    BY DEF Review
  <1>2. req.terms \in ValidTerms /\ RiskOf(req.terms) \in Nat
    BY RiskIsNat DEF Requests
  <1>3. act \in {"TRADE_PAPER", "WATCH", "WAIT"}
    BY <1>1 DEF Evaluate
  <1>4. new \in Rows /\ new.request = req /\ new.action = act /\ new.payout = Unknown
        /\ (act = "TRADE_PAPER" => new.risk = RiskOf(req.terms))
    BY <1>1, <1>2, <1>3 DEF Rows
  <1>5. IsFiniteSet(journal') /\ journal' \subseteq Rows
    BY <1>1, <1>4, FS_AddElement DEF JournalInv
  <1>6. \A r \in journal : r.request # req
    BY DEF Review, Known
  <1>7. new \notin journal
    BY <1>4, <1>6
  <1>8. ASSUME NEW a \in AlphaAccounts
        PROVE  /\ OpenExposure(a)' <= MaxTotalRisk
               /\ Cardinality(OpenRows(a)') <= MaxAlphaOpen
               /\ \A r, s \in OpenRows(a)' : r.request.instrument = s.request.instrument => r = s
    <2>1. /\ OpenExposure(a) <= MaxTotalRisk /\ Cardinality(OpenRows(a)) <= MaxAlphaOpen
          /\ \A r, s \in OpenRows(a) : r.request.instrument = s.request.instrument => r = s
      BY DEF JournalInv, ExposureBudgeted
    <2>2. CASE ~(act = "TRADE_PAPER" /\ a = req.account)
      <3>1. OpenRows(a)' = OpenRows(a)
        BY <1>1, <1>4, <2>2 DEF OpenRows
      <3>2. OpenExposure(a)' = OpenExposure(a)
        BY <2>1, <3>1, OpenExposureNext, OpenRowsFit
      <3> QED
        BY <2>1, <3>1, <3>2
    <2>3. CASE act = "TRADE_PAPER" /\ a = req.account
      <3>1. OpenRows(a)' = open \cup {new} /\ new \notin open
        BY <1>1, <1>4, <1>7, <2>3 DEF OpenRows
      <3>2. ~Hard(req.terms, OpenExposure(a), Cardinality(open)) /\ ~Reserved(req)
        BY <1>1, <2>3 DEF Evaluate
      <3>3. /\ ~(OpenExposure(a) + RiskOf(req.terms) > MaxTotalRisk)
            /\ ~(Cardinality(open) >= MaxAlphaOpen)
        BY <3>2 DEF Hard
      <3>4. /\ IsFiniteSet(open) /\ \A r \in open : r.risk \in Nat
            /\ OpenExposure(a) = Risks(open) /\ Risks(open) \in Nat
            /\ Cardinality(open) \in Nat
        BY <2>3, OpenRowsFit
      <3>5. new.risk = RiskOf(req.terms) /\ new.risk \in Nat
        BY <1>2, <1>4, <2>3
      <3> HIDE DEF open
      <3>6. Risks(open \cup {new}) = Risks(open) + new.risk
        BY <3>1, <3>4, <3>5, RisksWith
      <3>7. OpenExposure(a)' = Risks(open \cup {new})
        BY <3>1, OpenExposureNext
      <3>8. OpenExposure(a)' <= MaxTotalRisk
        BY <1>2, <3>3, <3>4, <3>5, <3>6, <3>7, AlphaAmounts
      <3>9. Cardinality(OpenRows(a)') <= MaxAlphaOpen
        <4>1. Cardinality(open \cup {new}) = Cardinality(open) + 1
          BY <3>1, <3>4, FS_AddElement
        <4> QED
          BY <3>1, <3>3, <3>4, <4>1, AlphaAmounts
      <3>10. \A r \in open : r.request.instrument # req.instrument
        BY <3>2 DEF Reserved, open
      <3>11. ASSUME NEW r \in open \cup {new}, NEW s \in open \cup {new},
                    r.request.instrument = s.request.instrument
             PROVE  r = s
        BY <1>4, <2>1, <2>3, <3>10, <3>11 DEF open
      <3> QED
        BY <3>1, <3>8, <3>9, <3>11
    <2> QED
      BY <2>2, <2>3
  <1> QED
    BY <1>5, <1>8 DEF JournalInv, ExposureBudgeted

\* A settlement takes an open row out of the reserve and adds none.
LEMMA SettleKeepsBudget ==
    ASSUME JournalInv, NEW r \in journal, NEW payout \in Payouts, NEW e, Settle(r, payout, e)
    PROVE  JournalInv'
  <1>1. PICK new : /\ new = [r EXCEPT !.payout = payout, !.pnl = RealizedPnl(r.request.terms, payout)]
                   /\ journal' = (journal \ {r}) \cup {new}
    BY DEF Settle
  <1>2. r \in Rows /\ r.request.terms \in ValidTerms
    BY DEF JournalInv, Rows, Requests
  <1>3. RealizedPnl(r.request.terms, payout) \in Int
    <2> DEFINE t == r.request.terms
    <2>1. {t.price, t.cost, t.units} \subseteq Int
      BY <1>2, AlphaAmounts DEF ValidTerms
    <2>2. UnitCost(t) \in Int /\ t.units \in Int /\ payout \in Int
      BY <2>1 DEF UnitCost, Payouts
    <2> QED
      BY <2>2 DEF RealizedPnl
  <1>4. new \in Rows /\ new.payout = payout
    BY <1>1, <1>2, <1>3 DEF Rows, Payouts
  <1>5. payout # Unknown
    BY DEF Payouts, Unknown
  <1>6. IsFiniteSet(journal') /\ journal' \subseteq Rows
    <2>1. IsFiniteSet(journal \ {r})
      BY FS_Subset DEF JournalInv
    <2> QED
      BY <1>1, <1>4, <2>1, FS_AddElement DEF JournalInv
  <1>7. ASSUME NEW a \in AlphaAccounts
        PROVE  /\ OpenExposure(a)' <= MaxTotalRisk
               /\ Cardinality(OpenRows(a)') <= MaxAlphaOpen
               /\ \A p, q \in OpenRows(a)' : p.request.instrument = q.request.instrument => p = q
    <2> DEFINE open == OpenRows(a)
               left == OpenRows(a)'
    <2>1. /\ OpenExposure(a) <= MaxTotalRisk /\ Cardinality(open) <= MaxAlphaOpen
          /\ \A p, q \in open : p.request.instrument = q.request.instrument => p = q
      BY DEF JournalInv, ExposureBudgeted
    <2>2. left \subseteq open
      BY <1>1, <1>4, <1>5 DEF OpenRows
    <2>3. /\ IsFiniteSet(open) /\ \A p \in open : p.risk \in Nat
          /\ OpenExposure(a) = Risks(open) /\ Risks(open) \in Nat
          /\ Cardinality(open) \in Nat
      BY OpenRowsFit
    <2>4. OpenExposure(a)' = Risks(left)
      BY OpenExposureNext
    <2> HIDE DEF open, left
    <2>5. Risks(left) <= Risks(open) /\ Cardinality(left) <= Cardinality(open)
          /\ IsFiniteSet(left) /\ \A p \in left : p.risk \in Nat
      BY <2>2, <2>3, RisksPart, FS_Subset
    <2>6. Risks(left) \in Nat /\ Cardinality(left) \in Nat
      BY <2>5, RisksNat, FS_CardinalityType
    <2>7. Risks(left) <= MaxTotalRisk /\ Cardinality(left) <= MaxAlphaOpen
      BY <2>1, <2>3, <2>5, <2>6, AlphaAmounts
    <2>8. \A p, q \in left : p.request.instrument = q.request.instrument => p = q
      BY <2>1, <2>2
    <2> QED
      BY <2>4, <2>7, <2>8 DEF left
  <1> QED
    BY <1>6, <1>7 DEF JournalInv, ExposureBudgeted

\* Whatever the accounts, theses and capitals, and whatever the order of
\* reviews, retries and settlements: open risk and positions stay within the
\* budget and an instrument is reserved once (alpha_journal.py, BEGIN IMMEDIATE).
THEOREM ExposureBudgetedHolds == AlphaSpec => []ExposureBudgeted
  <1> DEFINE Inv == JournalInv /\ BudgetValid
  <1>1. AlphaInit => Inv
    <2> SUFFICES ASSUME AlphaInit PROVE Inv
      OBVIOUS
    <2>1. journal = {} /\ BudgetValid
      BY DEF AlphaInit
    <2>2. \A a : OpenRows(a) = {}
      BY <2>1 DEF OpenRows
    <2>3. \A a : OpenExposure(a) = Risks({})
      BY <2>2 DEF OpenExposure, Risks
    <2>4. ExposureBudgeted
      BY <2>2, <2>3, RisksEmpty, FS_EmptySet, AlphaAmounts DEF ExposureBudgeted
    <2> QED
      BY <2>1, <2>4, FS_EmptySet DEF JournalInv
  <1>2. Inv /\ [JournalNext \/ ReplayNext]_alphaVars => Inv'
    <2> SUFFICES ASSUME Inv, [JournalNext \/ ReplayNext]_alphaVars PROVE Inv'
      OBVIOUS
    <2>1. BudgetValid'
      BY DEF BudgetValid
    <2>2. CASE JournalNext
      BY <2>1, <2>2, ReviewKeepsBudget, SettleKeepsBudget DEF JournalNext
    <2>3. CASE ReplayNext \/ UNCHANGED alphaVars
      <3>1. journal' = journal
        BY <2>3 DEF ReplayNext, Decide, Abort, Report, alphaVars
      <3>2. \A a : OpenRows(a)' = OpenRows(a)
        BY <3>1 DEF OpenRows
      <3>3. \A a : OpenExposure(a)' = OpenExposure(a)
        BY <3>2, OpenExposureNext, OpenRowsFit
      <3> QED
        BY <2>1, <3>1, <3>2, <3>3 DEF JournalInv, ExposureBudgeted
    <2> QED
      BY <2>2, <2>3
  <1>3. Inv => ExposureBudgeted
    BY DEF JournalInv
  <1> QED
    BY <1>1, <1>2, <1>3, PTL DEF AlphaSpec

-----------------------------------------------------------------------------
(* The replay. *)

Actions == {"TRADE_PAPER", "WATCH", "WAIT"}
Records == [id : Instruments \X Times, terms : ValidTerms, risk : Nat, action : Actions,
            riskBefore : Nat, openBefore : Nat, settled : Times \cup {Unknown}]
Entries == [id : Instruments \X Times, settled : Times \cup {Unknown}]
Replays == [status : {"running", "conflict", "reported"}, last : Times, cases : Nat,
            forward : Nat, active : SUBSET Entries, records : SUBSET Records,
            verdict : {"none", "cases", "trades", "settlements", "review"}]

\* The trades that were open at a moment.
OpenAt(records, t) == {d \in records : d.id[2] <= t /\ d.action = "TRADE_PAPER" /\ ~Due(d, t)}

\* What a decision leaves running beside its own trade.
Others(active, t, i) == {a \in active : ~Due(a, t) /\ a.id # i}

Recorded(records, last) ==
    /\ IsFiniteSet(records)
    /\ \A d, e \in records : d.id = e.id => d = e
    /\ \A d \in records : d.id[2] <= last

Budgeted(records) == \A t \in Times : Risks(OpenAt(records, t)) <= MaxTotalRisk

(* While the replay runs, its active trades are recorded ones, each once; none
   is missing that a settlement has not ended; and a decision of the last moment
   still has beside it as many as it counted. *)
Tracked(active, records, last) ==
    /\ IsFiniteSet(active)
    /\ \A a \in active : \E d \in records : d.id = a.id
    /\ \A a, b \in active : a.id = b.id => a = b
    /\ \A d \in records : d.action = "TRADE_PAPER" /\ ~Due(d, last)
                            => [id |-> d.id, settled |-> d.settled] \in active
    /\ \A d \in records : d.id[2] = last
                            => d.openBefore <= Cardinality(Others(active, last, d.id))

ReplayInv ==
    /\ replay \in Replays
    /\ Recorded(replay.records, replay.last)
    /\ Budgeted(replay.records)
    /\ replay.status = "running" => Tracked(replay.active, replay.records, replay.last)

\* Relabelling trades does not change what they risk.
LEMMA RisksImage ==
    ASSUME NEW f, NEW S, IsFiniteSet(S), \A x \in S : f[x].risk = x.risk /\ x.risk \in Nat,
           \A x, y \in S : f[x] = f[y] => x = y
    PROVE  Risks({f[x] : x \in S}) = Risks(S)
  <1> DEFINE T == {f[x] : x \in S}
             w == RiskTable(T)
             v == [x \in S |-> w[f[x]]]
  <1>1. \A x \in S : w[f[x]] = x.risk /\ v[x] = x.risk /\ w[f[x]] \in Int
    BY DEF RiskTable
  <1>2. Total(w, T) = Total(v, S)
    <2> HIDE DEF w
    <2> QED
      BY <1>1, TotalMap
  <1>3. \A x \in S : v[x] = RiskTable(S)[x]
    BY <1>1 DEF RiskTable
  <1> HIDE DEF v, w
  <1>4. Total(v, S) = Total(RiskTable(S), S)
    BY <1>3, TotalSame
  <1> HIDE DEF T
  <1>5. Risks(T) = Total(w, T) /\ Risks(S) = Total(RiskTable(S), S)
    BY RisksTotal DEF w
  <1>6. Risks(T) = Risks(S)
    BY <1>2, <1>4, <1>5
  <1> QED
    BY <1>6 DEF T

\* Times are natural, and no time is unknown.
LEMMA TimesNat == Times \subseteq Nat /\ Unknown \notin Times
  BY AlphaAmounts DEF Times, Unknown

\* What is not due at a moment is hidden from its slice.
LEMMA NotDue ==
    ASSUME NEW a, a.settled \in Times \cup {Unknown}, NEW t \in Times
    PROVE  /\ ~Due(a, t) <=> a.settled = Unknown \/ a.settled > t
           /\ ~Due(a, t) <=> (IF a.settled > t THEN Unknown ELSE a.settled) = Unknown
  <1> DEFINE s == a.settled
  <1>1. t \in Nat /\ (s = Unknown \/ s \in Nat)
    BY TimesNat
  <1>2. Unknown \in Int /\ Unknown < 0
    BY DEF Unknown
  <1> HIDE DEF s
  <1>3. (s # Unknown /\ s <= t) <=> ~(s = Unknown \/ s > t)
    BY <1>1, <1>2
  <1>4. (s # Unknown /\ s <= t) <=> ~((IF s > t THEN Unknown ELSE s) = Unknown)
    BY <1>1, <1>2
  <1>5. Due(a, t) <=> (s # Unknown /\ s <= t)
    BY DEF Due, s
  <1>6. /\ ~Due(a, t) <=> s = Unknown \/ s > t
        /\ ~Due(a, t) <=> (IF s > t THEN Unknown ELSE s) = Unknown
    BY <1>3, <1>4, <1>5
  <1> QED
    BY <1>6 DEF s

\* The slice of a moment shows, open, the trades that were open then.
LEMMA AsOfOpen ==
    ASSUME ReplayInv, NEW t \in Times
    PROVE  Risks({d \in AsOf(t) : d.action = "TRADE_PAPER" /\ d.settled = Unknown})
             = Risks(OpenAt(replay.records, t))
  <1> DEFINE R == replay.records
             S == OpenAt(R, t)
             f == [d \in R |-> [d EXCEPT !.settled = Unknown]]
             shown == {d \in AsOf(t) : d.action = "TRADE_PAPER" /\ d.settled = Unknown}
  <1>1. R \subseteq Records /\ IsFiniteSet(R) /\ \A d, e \in R : d.id = e.id => d = e
    BY DEF ReplayInv, Recorded, Replays
  <1>2. S \subseteq R /\ IsFiniteSet(S)
    <2>1. S \subseteq R
      BY DEF OpenAt
    <2> QED
      BY <1>1, <2>1, FS_Subset
  <1>3. \A d \in R : /\ f[d].risk = d.risk /\ f[d].id = d.id /\ d.risk \in Nat
                     /\ f[d].action = d.action
    BY <1>1 DEF Records
  <1>4. \A x, y \in S : f[x] = f[y] => x = y
    <2> HIDE DEF f, S
    <2> QED
      BY <1>1, <1>2, <1>3
  <1>5. shown \subseteq {f[x] : x \in S}
    <2> SUFFICES ASSUME NEW d \in shown PROVE d \in {f[x] : x \in S}
      OBVIOUS
    <2>1. PICK x \in R : x.id[2] <= t
                          /\ d = [x EXCEPT !.settled = IF @ > t THEN Unknown ELSE @]
      BY DEF AsOf
    <2>2. x \in Records /\ x.settled \in Times \cup {Unknown}
      BY <1>1 DEF Records
    <2>3. d.action = x.action /\ d.settled = IF x.settled > t THEN Unknown ELSE x.settled
      BY <2>1, <2>2 DEF Records
    <2>4. x.settled = Unknown \/ x.settled > t
      BY <2>3
    <2>5. ~Due(x, t)
      BY <2>2, <2>4, NotDue
    <2>6. d = f[x]
      BY <2>1, <2>3
    <2> QED
      BY <2>1, <2>3, <2>5, <2>6 DEF OpenAt
  <1>6. {f[x] : x \in S} \subseteq shown
    <2> SUFFICES ASSUME NEW x \in S PROVE f[x] \in shown
      OBVIOUS
    <2>1. x \in R /\ x.id[2] <= t /\ x.action = "TRADE_PAPER" /\ ~Due(x, t)
      BY DEF OpenAt
    <2>2. x \in Records /\ x.settled \in Times \cup {Unknown}
      BY <1>1, <2>1 DEF Records
    <2>3. (IF x.settled > t THEN Unknown ELSE x.settled) = Unknown
      BY <2>1, <2>2, NotDue
    <2>4. f[x] = [x EXCEPT !.settled = IF @ > t THEN Unknown ELSE @]
      BY <2>1, <2>2, <2>3
    <2>5. f[x] \in AsOf(t)
      BY <2>1, <2>4 DEF AsOf
    <2>6. f[x].action = "TRADE_PAPER" /\ f[x].settled = Unknown
      BY <2>1, <2>2 DEF Records
    <2> QED
      BY <2>5, <2>6
  <1>7. shown = {f[x] : x \in S}
    BY <1>5, <1>6
  <1> HIDE DEF shown, f, S, R
  <1>8. Risks({f[x] : x \in S}) = Risks(S)
    BY <1>2, <1>3, <1>4, RisksImage
  <1>9. Risks(shown) = Risks(S)
    BY <1>7, <1>8
  <1> QED
    BY <1>9 DEF shown, S, R

(* The exposure a decision reads. *)
ActiveFold(A, g) ==
    [s \in SUBSET A |-> IF s = {} THEN 0 ELSE DecisionOf(Pick(s).id).risk + g[s \ {Pick(s)}]]
ActiveTable(A) == [a \in A |-> DecisionOf(a.id).risk]
DecisionsOf(A) == {[b \in A |-> DecisionOf(b.id)][a] : a \in A}

\* The exposure of running trades is a sum of weights.
LEMMA ActiveTotal ==
    ASSUME NEW A
    PROVE  ActiveRisk(A) = Total(ActiveTable(A), A)
  <1> DEFINE w == ActiveTable(A)
             WFold(g) == [s \in SUBSET A |-> Step(w, s, g)]
  <1>1. ASSUME NEW g PROVE ActiveFold(A, g) = WFold(g)
    <2>1. ASSUME NEW s \in SUBSET A, s # {} PROVE DecisionOf(Pick(s).id).risk = w[Pick(s)]
      BY <2>1, PickIn DEF ActiveTable
    <2> QED
      BY <2>1 DEF ActiveFold, Step
  <1>2. ActiveRisk(A) = (CHOOSE g : g = ActiveFold(A, g))[A]
    BY DEF ActiveRisk, MapThenSumSet, MapThenFoldSet, Pick, ActiveFold
  <1> HIDE DEF w
  <1>3. Total(w, A) = (CHOOSE g : g = WFold(g))[A]
    BY TotalFold DEF Fold, IsFold
  <1> HIDE DEF WFold
  <1>4. (CHOOSE g : g = ActiveFold(A, g)) = (CHOOSE g : g = WFold(g))
    BY <1>1
  <1> QED
    BY <1>2, <1>3, <1>4 DEF w

\* A decision is found by its id.
LEMMA DecisionOfIs ==
    ASSUME Recorded(replay.records, replay.last), NEW d \in replay.records
    PROVE  DecisionOf(d.id) = d
  BY DEF DecisionOf, Recorded

\* Active trades are recorded once each, so their exposure is what their
\* decisions risk.
LEMMA ActiveRisks ==
    ASSUME replay \in Replays, Recorded(replay.records, replay.last),
           Tracked(replay.active, replay.records, replay.last), NEW A \in SUBSET replay.active
    PROVE  /\ ActiveRisk(A) = Risks(DecisionsOf(A)) /\ ActiveRisk(A) \in Nat
           /\ IsFiniteSet(A) /\ IsFiniteSet(DecisionsOf(A)) /\ DecisionsOf(A) \subseteq replay.records
  <1> DEFINE f == [a \in A |-> DecisionOf(a.id)]
             T == {f[a] : a \in A}
             w == RiskTable(T)
             v == [a \in A |-> w[f[a]]]
  <1>1. ASSUME NEW a \in A PROVE f[a] \in replay.records /\ f[a].id = a.id
    <2>1. PICK d \in replay.records : d.id = a.id
      BY DEF Tracked
    <2>2. DecisionOf(a.id) = d
      BY <2>1, DecisionOfIs
    <2> QED
      BY <2>1, <2>2
  <1>2. \A a, b \in A : f[a] = f[b] => a = b
    <2>1. \A a, b \in A : a.id = b.id => a = b
      BY DEF Tracked
    <2> HIDE DEF f
    <2> QED
      BY <1>1, <2>1
  <1>3. \A a \in A : f[a].risk \in Nat
    BY <1>1 DEF Replays, Records
  <1>4. IsFiniteSet(A)
    BY FS_Subset DEF Tracked
  <1>5. T \subseteq replay.records /\ IsFiniteSet(T)
    BY <1>1, <1>4, ImageFinite
  <1>6. \A a \in A : w[f[a]] = f[a].risk /\ w[f[a]] \in Int /\ v[a] = f[a].risk
    BY <1>3 DEF RiskTable
  <1>7. Total(w, T) = Total(v, A)
    <2> HIDE DEF w, f
    <2> QED
      BY <1>2, <1>4, <1>6, TotalMap
  <1>8. \A a \in A : v[a] = ActiveTable(A)[a]
    BY <1>6 DEF ActiveTable
  <1>9. Total(v, A) = Total(ActiveTable(A), A)
    <2> HIDE DEF v
    <2> QED
      BY <1>4, <1>8, TotalSame
  <1>10. T = DecisionsOf(A)
    BY DEF DecisionsOf
  <1> HIDE DEF T, v, w, f
  <1>11. ActiveRisk(A) = Risks(T)
    BY <1>7, <1>9, ActiveTotal, RisksTotal DEF w
  <1>12. \A d \in T : d.risk \in Nat
    BY <1>3 DEF T
  <1>13. ActiveRisk(A) \in Nat
    BY <1>5, <1>11, <1>12, RisksNat
  <1> QED
    BY <1>4, <1>5, <1>10, <1>11, <1>13

\* No trade that a later moment shows open escaped the decision.
LEMMA OpenIsActive ==
    ASSUME replay \in Replays, Recorded(replay.records, replay.last),
           Tracked(replay.active, replay.records, replay.last),
           NEW at \in Times, NEW t \in Times, replay.last <= at, at <= t
    PROVE  OpenAt(replay.records, t) \subseteq DecisionsOf(StillActive(at))
  <1> SUFFICES ASSUME NEW d \in OpenAt(replay.records, t)
               PROVE  d \in DecisionsOf(StillActive(at))
    OBVIOUS
  <1> DEFINE e == [id |-> d.id, settled |-> d.settled]
  <1>1. d \in replay.records /\ d.action = "TRADE_PAPER" /\ ~Due(d, t)
    BY DEF OpenAt
  <1>2. d.settled \in Times \cup {Unknown} /\ replay.last \in Times
    BY <1>1 DEF Replays, Records
  <1>3. ~Due(d, replay.last) /\ ~Due(d, at)
    <2> DEFINE s == d.settled
    <2>1. s = Unknown \/ s > t
      BY <1>1, <1>2, NotDue
    <2>2. at \in Nat /\ t \in Nat /\ replay.last \in Nat /\ (s = Unknown \/ s \in Nat)
      BY <1>2, TimesNat
    <2> HIDE DEF s
    <2>3. s = Unknown \/ (s > replay.last /\ s > at)
      BY <2>1, <2>2
    <2> QED
      BY <1>2, <2>3, NotDue DEF s
  <1>4. e \in replay.active
    BY <1>1, <1>3 DEF Tracked
  <1>5. e \in StillActive(at)
    BY <1>3, <1>4 DEF StillActive, Due
  <1>6. DecisionOf(e.id) = d
    BY <1>1, DecisionOfIs
  <1> QED
    BY <1>5, <1>6 DEF DecisionsOf

\* A decision that is repeated finds its trade settled: one still running would
\* be one more open trade than the record says.
LEMMA NoneRunning ==
    ASSUME replay \in Replays, Recorded(replay.records, replay.last),
           Tracked(replay.active, replay.records, replay.last),
           NEW at \in Times, replay.last <= at, NEW i, i[2] = at,
           \A d \in replay.records : d.id = i => d.openBefore = Cardinality(StillActive(at))
    PROVE  \A a \in StillActive(at) : a.id # i
  <1> SUFFICES ASSUME NEW a \in StillActive(at), a.id = i
               PROVE  FALSE
    OBVIOUS
  <1> DEFINE A == StillActive(at)
             O == Others(replay.active, replay.last, i)
  <1>1. a \in replay.active /\ A \subseteq replay.active
    BY DEF StillActive
  <1>2. PICK d \in replay.records : d.id = i
    BY <1>1 DEF Tracked
  <1>3. at = replay.last
    <2>1. d.id[2] <= replay.last
      BY DEF Recorded
    <2>2. at \in Nat /\ replay.last \in Nat
      BY TimesNat DEF Replays
    <2> QED
      BY <1>2, <2>1, <2>2
  <1>4. d.openBefore <= Cardinality(O) /\ d.openBefore = Cardinality(A)
    BY <1>2, <1>3 DEF Tracked
  <1>5. O \subseteq A \ {a}
    BY <1>3 DEF Others, StillActive
  <1>6. IsFiniteSet(A)
    BY <1>1, FS_Subset DEF Tracked
  <1> HIDE DEF A, O
  <1>7. a \in A
    BY DEF A
  <1>8. Cardinality(A) \in Nat /\ Cardinality(A \ {a}) = Cardinality(A) - 1
        /\ IsFiniteSet(A \ {a})
    BY <1>6, <1>7, FS_CardinalityType, FS_RemoveElement
  <1>9. Cardinality(O) <= Cardinality(A \ {a}) /\ Cardinality(O) \in Nat
    BY <1>5, <1>8, FS_Subset, FS_CardinalityType
  <1> QED
    BY <1>4, <1>8, <1>9

\* A new trade is decided knowing every trade that is open with it.
LEMMA NewTradeFits ==
    ASSUME ReplayInv, replay.status = "running", NEW at \in Times, replay.last <= at,
           NEW rec \in Records, rec.id[2] = at, rec \notin replay.records,
           rec.action = "TRADE_PAPER" => ActiveRisk(StillActive(at)) + rec.risk <= MaxTotalRisk
    PROVE  Budgeted(replay.records \cup {rec})
  <1> DEFINE R == replay.records
             A == StillActive(at)
  <1> SUFFICES ASSUME NEW t \in Times
               PROVE  Risks(OpenAt(R \cup {rec}, t)) <= MaxTotalRisk
    BY DEF Budgeted
  <1> DEFINE S == OpenAt(R, t)
             new == OpenAt(R \cup {rec}, t)
  <1>1. Risks(S) <= MaxTotalRisk
    BY DEF ReplayInv, Budgeted
  <1>2. CASE ~(at <= t /\ rec.action = "TRADE_PAPER" /\ ~Due(rec, t))
    <2>1. new = S
      BY <1>2 DEF OpenAt
    <2> HIDE DEF new, S
    <2>2. Risks(new) <= MaxTotalRisk
      BY <1>1, <2>1
    <2> QED
      BY <2>2 DEF new
  <1>3. CASE at <= t /\ rec.action = "TRADE_PAPER" /\ ~Due(rec, t)
    <2>1. new = S \cup {rec} /\ rec \notin S
      BY <1>3 DEF OpenAt
    <2>2. A \subseteq replay.active
      BY DEF StillActive
    <2>3. /\ replay \in Replays /\ Recorded(replay.records, replay.last)
          /\ Tracked(replay.active, replay.records, replay.last)
      BY DEF ReplayInv
    <2>4. /\ ActiveRisk(A) = Risks(DecisionsOf(A)) /\ ActiveRisk(A) \in Nat
          /\ IsFiniteSet(DecisionsOf(A)) /\ DecisionsOf(A) \subseteq R
      BY <2>2, <2>3, ActiveRisks
    <2>5. S \subseteq DecisionsOf(A)
      BY <1>3, <2>3, OpenIsActive
    <2>6. \A d \in DecisionsOf(A) : d.risk \in Nat
      BY <2>3, <2>4 DEF Replays, Records
    <2>7. rec.risk \in Nat
      BY DEF Records
    <2>8. ActiveRisk(A) + rec.risk <= MaxTotalRisk
      BY <1>3
    <2> HIDE DEF R, A, S, new
    <2>9. Risks(S) <= Risks(DecisionsOf(A)) /\ IsFiniteSet(S) /\ \A d \in S : d.risk \in Nat
      BY <2>4, <2>5, <2>6, RisksPart, FS_Subset
    <2>10. Risks(S) \in Nat
      BY <2>9, RisksNat
    <2>11. Risks(S \cup {rec}) = Risks(S) + rec.risk
      BY <2>1, <2>7, <2>9, RisksWith
    <2>12. Risks(new) <= MaxTotalRisk
      BY <2>1, <2>4, <2>7, <2>8, <2>9, <2>10, <2>11, AlphaAmounts
    <2> QED
      BY <2>12 DEF new, R
  <1> QED
    BY <1>2, <1>3

\* What runs after a decision.
LEMMA StillTracked ==
    ASSUME replay \in Replays, Recorded(replay.records, replay.last),
           Tracked(replay.active, replay.records, replay.last),
           NEW at \in Times, replay.last <= at,
           NEW rec \in Records, rec.id[2] = at,
           rec.openBefore = Cardinality(StillActive(at)),
           \A a \in StillActive(at) : a.id # rec.id,
           NEW records,
           \/ records = replay.records \cup {rec}
           \/ records = replay.records /\ \E d \in records : d.id = rec.id,
           NEW added, added \subseteq {[id |-> rec.id, settled |-> rec.settled]},
           rec.action = "TRADE_PAPER" => added # {}
    PROVE  Tracked({a \in StillActive(at) : a.id # rec.id} \cup added, records, at)
  <1> DEFINE A == StillActive(at)
             e == [id |-> rec.id, settled |-> rec.settled]
             active == {a \in StillActive(at) : a.id # rec.id} \cup added
  <1>1. active = A \cup added /\ A \subseteq replay.active
    BY DEF StillActive
  <1>2. IsFiniteSet(A) /\ IsFiniteSet(active)
    <2>1. IsFiniteSet(A)
      BY <1>1, FS_Subset DEF Tracked
    <2>2. added = {} \/ added = {e}
      OBVIOUS
    <2>3. CASE added = {}
      BY <1>1, <2>1, <2>3
    <2>4. CASE added = {e}
      <3> HIDE DEF A, active, e
      <3>1. IsFiniteSet(A \cup {e})
        BY <2>1, FS_AddElement
      <3> QED
        BY <1>1, <2>1, <2>4, <3>1
    <2> QED
      BY <2>2, <2>3, <2>4
  <1>3. ASSUME NEW a \in active PROVE \E d \in records : d.id = a.id
    <2>1. CASE a \in A
      BY <1>1, <2>1 DEF Tracked
    <2>2. CASE a \in added
      BY <2>2
    <2> QED
      BY <1>1, <2>1, <2>2
  <1>4. ASSUME NEW a \in active, NEW b \in active, a.id = b.id PROVE a = b
    <2>1. \A x, y \in A : x.id = y.id => x = y
      BY <1>1 DEF Tracked
    <2>2. \A x \in A : x.id # rec.id
      OBVIOUS
    <2>3. \A x \in added : x = e /\ x.id = rec.id
      OBVIOUS
    <2> HIDE DEF A, active, e
    <2> QED
      BY <1>1, <1>4, <2>1, <2>2, <2>3
  <1>5. replay.last \in Nat /\ at \in Nat
    BY TimesNat DEF Replays
  <1>6. ASSUME NEW d \in records, d.action = "TRADE_PAPER", ~Due(d, at)
        PROVE  [id |-> d.id, settled |-> d.settled] \in active
    <2>1. CASE d = rec
      BY <1>6, <2>1
    <2>2. CASE d # rec
      <3>1. d \in replay.records /\ d.settled \in Times \cup {Unknown} /\ replay.last \in Times
        BY <2>2 DEF Replays, Records
      <3>2. ~Due(d, replay.last)
        <4> DEFINE s == d.settled
        <4>1. (s = Unknown \/ s > at) /\ (s = Unknown \/ s \in Nat)
          BY <1>6, <3>1, NotDue, TimesNat
        <4> HIDE DEF s
        <4>2. s = Unknown \/ s > replay.last
          BY <1>5, <4>1
        <4> QED
          BY <3>1, <4>2, NotDue DEF s
      <3>3. [id |-> d.id, settled |-> d.settled] \in replay.active
        BY <1>6, <3>1, <3>2 DEF Tracked
      <3>4. [id |-> d.id, settled |-> d.settled] \in A
        BY <1>6, <3>3 DEF StillActive, Due
      <3> QED
        BY <1>1, <3>4
    <2> QED
      BY <2>1, <2>2
  <1>7. ASSUME NEW d \in records, d.id[2] = at
        PROVE  d.openBefore <= Cardinality(Others(active, at, d.id))
    <2> DEFINE O == Others(active, at, d.id)
               P == Others(replay.active, replay.last, d.id)
    <2>1. IsFiniteSet(O)
      <3>1. O \subseteq active
        BY DEF Others
      <3> HIDE DEF O, active
      <3> QED
        BY <1>2, <3>1, FS_Subset
    <2>2. \A a \in A : ~Due(a, at)
      BY DEF StillActive
    <2>3. CASE d = rec
      <3>1. A \subseteq O
        BY <1>1, <2>2, <2>3 DEF Others
      <3> HIDE DEF A, O
      <3>2. Cardinality(A) <= Cardinality(O)
        BY <2>1, <3>1, FS_Subset
      <3> QED
        BY <2>3, <3>2 DEF A, O
    <2>4. CASE d # rec
      <3>1. d \in replay.records
        BY <2>4
      <3>2. d.id[2] <= replay.last
        BY <3>1 DEF Recorded
      <3>3. at = replay.last
        BY <1>5, <1>7, <3>2
      <3>4. d.openBefore <= Cardinality(P)
        BY <1>7, <3>1, <3>3 DEF Tracked
      <3>5. P \subseteq O
        BY <1>1, <3>3 DEF Others, StillActive
      <3>6. d.openBefore \in Nat
        BY <3>1 DEF Replays, Records
      <3> HIDE DEF P, O
      <3>7. Cardinality(P) <= Cardinality(O) /\ Cardinality(P) \in Nat /\ Cardinality(O) \in Nat
        BY <2>1, <3>5, FS_Subset, FS_CardinalityType
      <3>8. d.openBefore <= Cardinality(O)
        BY <3>4, <3>6, <3>7
      <3> QED
        BY <3>8 DEF O
    <2> QED
      BY <2>3, <2>4
  <1> HIDE DEF active
  <1>8. Tracked(active, records, at)
    BY <1>2, <1>3, <1>4, <1>6, <1>7 DEF Tracked
  <1> QED
    BY <1>8 DEF active

\* A decision keeps the budget of every moment and the account of what runs.
LEMMA DecideKeeps ==
    ASSUME ReplayInv, BudgetValid, NEW c \in Cases, Decide(c)
    PROVE  ReplayInv'
  <1> DEFINE A == StillActive(c.at)
             act == Evaluate(c.terms, ActiveRisk(A), Cardinality(A))
             rec == [id |-> <<c.thesis, c.at>>, terms |-> c.terms, risk |-> RiskOf(c.terms),
                     action |-> act, riskBefore |-> ActiveRisk(A), openBefore |-> Cardinality(A),
                     settled |-> c.settled]
             added == IF rec.action = "TRADE_PAPER"
                      THEN {[id |-> rec.id, settled |-> c.settled]} ELSE {}
             records == IF \E d \in replay.records : d.id = rec.id
                        THEN replay.records ELSE replay.records \cup {rec}
             active == {a \in A : a.id # rec.id} \cup added
  <1>1. /\ replay.status = "running" /\ c.at >= replay.last
        /\ \A d \in replay.records : d.id = rec.id => d.openBefore = Cardinality(A)
        /\ replay' = [replay EXCEPT
              !.last = c.at, !.cases = @ + 1,
              !.forward = IF c.at >= ForwardStart THEN @ + 1 ELSE @,
              !.records = records, !.active = active]
    <2>1. /\ replay.status = "running" /\ c.at >= replay.last
          /\ \A d \in replay.records : d.id = rec.id => d.openBefore = Cardinality(A)
      BY DEF Decide
    <2>2. replay' = [replay EXCEPT
              !.last = c.at, !.cases = @ + 1,
              !.forward = IF c.at >= ForwardStart THEN @ + 1 ELSE @,
              !.records = records, !.active = active]
      BY DEF Decide
    <2> QED
      BY <2>1, <2>2
  <1>2. /\ replay \in Replays /\ Recorded(replay.records, replay.last)
        /\ Budgeted(replay.records) /\ Tracked(replay.active, replay.records, replay.last)
    BY <1>1 DEF ReplayInv
  <1>3. c.thesis \in Instruments /\ c.terms \in ValidTerms /\ c.at \in Times
        /\ c.settled \in Times \cup {Unknown}
    BY DEF Cases
  <1>4. A \subseteq replay.active
    BY DEF StillActive
  <1>5. ActiveRisk(A) \in Nat /\ IsFiniteSet(A) /\ Cardinality(A) \in Nat
    BY <1>2, <1>4, ActiveRisks, FS_CardinalityType
  <1>6. act \in Actions
    BY DEF Evaluate, Actions
  <1>7. RiskOf(c.terms) \in Nat
    BY <1>3, RiskIsNat
  <1>8. rec \in Records
    BY <1>3, <1>5, <1>6, <1>7 DEF Records
  <1>9. /\ rec.id = <<c.thesis, c.at>> /\ rec.id[2] = c.at /\ rec.action = act
        /\ rec.openBefore = Cardinality(A) /\ rec.settled = c.settled /\ rec.risk = RiskOf(c.terms)
    OBVIOUS
  <1> HIDE DEF A, act, rec
  <1>10. added \in {{}, {[id |-> rec.id, settled |-> rec.settled]}}
         /\ (rec.action = "TRADE_PAPER" => added # {})
    BY <1>9
  <1>11. added \subseteq Entries
    BY <1>3, <1>9, <1>10 DEF Entries
  <1> HIDE DEF added, records, active
  <1>12. /\ replay'.last = c.at /\ replay'.records = records /\ replay'.active = active
         /\ replay'.status = "running"
    BY <1>1, <1>2 DEF Replays
  <1>13. \/ records = replay.records /\ \E d \in records : d.id = rec.id
         \/ records = replay.records \cup {rec} /\ ~\E d \in replay.records : d.id = rec.id
    BY DEF records
  <1>14. records \in SUBSET Records /\ active \in SUBSET Entries
    <2>1. replay.records \subseteq Records /\ replay.active \subseteq Entries
      BY <1>2 DEF Replays
    <2>2. records \subseteq Records
      BY <1>8, <1>13, <2>1
    <2>3. active \subseteq Entries
      BY <1>4, <1>11, <2>1 DEF active
    <2> QED
      BY <2>2, <2>3
  <1>15. replay' \in Replays
    <2>1. replay.cases + 1 \in Nat /\ replay.forward + 1 \in Nat /\ replay.forward \in Nat
      BY <1>2 DEF Replays
    <2> QED
      BY <1>1, <1>2, <1>3, <1>14, <2>1 DEF Replays
  <1>16. c.at >= replay.last /\ c.at \in Nat /\ replay.last \in Nat /\ replay.last <= c.at
    BY <1>1, <1>2, <1>3, TimesNat DEF Replays
  <1>17. Recorded(records, c.at)
    <2>1. IsFiniteSet(records)
      BY <1>2, <1>13, FS_AddElement DEF Recorded
    <2>2. \A d, e \in records : d.id = e.id => d = e
      BY <1>2, <1>13 DEF Recorded
    <2>3. ASSUME NEW d \in records PROVE d.id[2] <= c.at
      <3>1. CASE d \in replay.records
        <4>1. d.id \in Instruments \X Times
          BY <1>2, <3>1 DEF Replays, Records
        <4>2. d.id[2] <= replay.last /\ d.id[2] \in Nat
          BY <1>2, <3>1, <4>1, TimesNat DEF Recorded
        <4> DEFINE t == d.id[2]
        <4> HIDE DEF t
        <4>3. t <= c.at
          BY <1>16, <4>2 DEF t
        <4> QED
          BY <4>3 DEF t
      <3>2. CASE d = rec
        BY <1>9, <1>16, <3>2
      <3> QED
        BY <1>13, <3>1, <3>2
    <2> QED
      BY <2>1, <2>2, <2>3 DEF Recorded
  <1>18. \A a \in A : a.id # rec.id
    BY <1>1, <1>2, <1>3, <1>9, <1>16, NoneRunning DEF A
  <1>19. Tracked(active, records, c.at)
    <2>1. \/ records = replay.records \cup {rec}
          \/ records = replay.records /\ \E d \in records : d.id = rec.id
      BY <1>13
    <2>2. added \subseteq {[id |-> rec.id, settled |-> rec.settled]}
      BY <1>10
    <2>3. Tracked({a \in StillActive(c.at) : a.id # rec.id} \cup added, records, c.at)
      BY <1>2, <1>3, <1>8, <1>9, <1>10, <1>16, <1>18, <2>1, <2>2, StillTracked DEF A
    <2> QED
      BY <2>3 DEF active, A
  <1>20. Budgeted(records)
    <2>1. CASE \E d \in replay.records : d.id = rec.id
      BY <1>2, <1>13, <2>1
    <2>2. CASE ~\E d \in replay.records : d.id = rec.id
      <3>1. rec \notin replay.records /\ records = replay.records \cup {rec}
        BY <1>8, <1>13, <2>2
      <3>2. ASSUME rec.action = "TRADE_PAPER" PROVE ActiveRisk(A) + rec.risk <= MaxTotalRisk
        <4>1. ~Hard(c.terms, ActiveRisk(A), Cardinality(A))
          BY <1>9, <3>2 DEF Evaluate, act
        <4>2. ~(ActiveRisk(A) + RiskOf(c.terms) > MaxTotalRisk)
          BY <4>1 DEF Hard
        <4>3. MaxTotalRisk \in Nat
          BY AlphaAmounts
        <4> QED
          BY <1>5, <1>7, <1>9, <4>2, <4>3
      <3> QED
        BY <1>1, <1>3, <1>8, <1>9, <1>16, <3>1, <3>2, NewTradeFits DEF A
    <2> QED
      BY <2>1, <2>2
  <1> QED
    BY <1>12, <1>15, <1>17, <1>19, <1>20 DEF ReplayInv

\* So does every step.
LEMMA ReplayStep ==
    ASSUME ReplayInv, BudgetValid, [JournalNext \/ ReplayNext]_alphaVars
    PROVE  ReplayInv'
  <1>1. CASE \E c \in Cases : Decide(c)
    BY <1>1, DecideKeeps
  <1>2. CASE \E c \in Cases : Abort(c)
    <2>1. replay' = [replay EXCEPT !.status = "conflict"]
      BY <1>2 DEF Abort
    <2>2. /\ replay' \in Replays /\ replay'.records = replay.records /\ replay'.last = replay.last
          /\ replay'.status # "running"
      BY <2>1 DEF ReplayInv, Replays
    <2> QED
      BY <2>2 DEF ReplayInv
  <1>3. CASE Report
    <2>1. PICK verdict \in {"none", "cases", "trades", "settlements", "review"} :
            replay' = [replay EXCEPT !.status = "reported",
                                     !.active = {a \in @ : a.settled = Unknown},
                                     !.verdict = verdict]
      BY <1>3 DEF Report
    <2>2. /\ replay' \in Replays /\ replay'.records = replay.records /\ replay'.last = replay.last
          /\ replay'.status # "running"
      BY <2>1 DEF ReplayInv, Replays
    <2> QED
      BY <2>2 DEF ReplayInv
  <1>4. CASE JournalNext \/ UNCHANGED alphaVars
    <2>1. replay' = replay
      BY <1>4 DEF JournalNext, Review, Settle, alphaVars
    <2> QED
      BY <2>1 DEF ReplayInv
  <1> QED
    BY <1>1, <1>2, <1>3, <1>4 DEF ReplayNext

\* Whatever the cases, their settlements and their order, repeats included: the
\* trades that were open at any moment fitted the budget together
\* (alpha_research.py, run_alpha_research and _settle_due).
THEOREM NoHindsightHolds == AlphaSpec => []NoHindsight
  <1> DEFINE Inv == ReplayInv /\ BudgetValid
  <1>1. AlphaInit => Inv
    <2> SUFFICES ASSUME AlphaInit PROVE Inv
      OBVIOUS
    <2>1. replay = FreshReplay /\ BudgetValid
      BY DEF AlphaInit
    <2>2. 0 \in Times
      BY AlphaAmounts DEF Times
    <2>3. replay \in Replays
      BY <2>1, <2>2 DEF FreshReplay, Replays
    <2>4. replay.records = {} /\ replay.active = {}
      BY <2>1 DEF FreshReplay
    <2>5. Recorded({}, replay.last) /\ Tracked({}, {}, replay.last)
      BY FS_EmptySet DEF Recorded, Tracked
    <2>6. \A t : OpenAt({}, t) = {}
      BY DEF OpenAt
    <2>7. Budgeted({})
      BY <2>6, RisksEmpty, AlphaAmounts DEF Budgeted
    <2> QED
      BY <2>1, <2>3, <2>4, <2>5, <2>7 DEF ReplayInv
  <1>2. Inv /\ [JournalNext \/ ReplayNext]_alphaVars => Inv'
    <2>1. BudgetValid => BudgetValid'
      BY DEF BudgetValid
    <2> QED
      BY <2>1, ReplayStep
  <1>3. Inv => NoHindsight
    <2> SUFFICES ASSUME Inv, NEW t \in Times
                 PROVE  MapThenSumSet(LAMBDA d : d.risk,
                           {d \in AsOf(t) : d.action = "TRADE_PAPER" /\ d.settled = Unknown})
                          <= MaxTotalRisk
      BY DEF NoHindsight
    <2>1. Risks(OpenAt(replay.records, t)) <= MaxTotalRisk
      BY DEF ReplayInv, Budgeted
    <2>2. Risks({d \in AsOf(t) : d.action = "TRADE_PAPER" /\ d.settled = Unknown}) <= MaxTotalRisk
      BY <2>1, AsOfOpen
    <2> QED
      BY <2>2 DEF Risks
  <1> QED
    BY <1>1, <1>2, <1>3, PTL DEF AlphaSpec

-----------------------------------------------------------------------------
(* The futures bot. *)

FutSteps == {"idle", "judge", "order", "reconcile", "stop", "take",
             "emergency", "close", "cancel", "save"}
Positions == [amt : Int, algos : SUBSET Nat]
BotStates == [amt : Int, stop : Nat, take : Nat, halted : BOOLEAN]
Standings == [at : FutSteps, amt : Int, stop : Nat, halts : BOOLEAN]

\* A symbol about to enter is flat on the exchange, by what it read last.
Flat(position, state, step) ==
    /\ Magnitude(position.amt) <= FutSize
    /\ step.at = "judge" /\ state.amt = 0 => position.amt = 0
    /\ step.at = "order" => position.amt = 0 /\ Magnitude(step.amt) <= FutSize

FutTyped ==
    /\ futExchange \in [FutSymbols -> Positions]
    /\ futState \in [FutSymbols -> BotStates]
    /\ futSaved \in [FutSymbols -> BotStates]
    /\ futStep \in [FutSymbols -> Standings]
    /\ futUsed \in [ids : Nat, crashes : Nat]

FutInv == FutTyped /\ \A s \in FutSymbols : Flat(futExchange[s], futState[s], futStep[s])

\* A magnitude is natural.
LEMMA MagnitudeNat == ASSUME NEW n \in Int PROVE Magnitude(n) \in Nat
  BY DEF Magnitude

(* What the other symbols hold is a number, so the entry is bounded by the
   configured size. *)
HeldFold(S, g) ==
    [T \in SUBSET S |-> IF T = {} THEN 0
                        ELSE Magnitude(futState[Pick(T)].amt) + g[T \ {Pick(T)}]]
HeldBy(S) == MapThenFoldSet(+, 0, LAMBDA t : Magnitude(futState[t].amt),
                            LAMBDA T : CHOOSE t \in T : TRUE, S)

\* What some symbols hold is natural.
LEMMA HeldNat ==
    ASSUME FutTyped, NEW S \in SUBSET FutSymbols
    PROVE  HeldBy(S) \in Nat
  <1> DEFINE w == [t \in S |-> Magnitude(futState[t].amt)]
             WFold(g) == [T \in SUBSET S |-> Step(w, T, g)]
  <1>1. ASSUME NEW g PROVE HeldFold(S, g) = WFold(g)
    <2>1. ASSUME NEW T \in SUBSET S, T # {} PROVE Magnitude(futState[Pick(T)].amt) = w[Pick(T)]
      BY <2>1, PickIn
    <2> QED
      BY <2>1 DEF HeldFold, Step
  <1>2. HeldBy(S) = (CHOOSE g : g = HeldFold(S, g))[S]
    BY DEF HeldBy, MapThenFoldSet, Pick, HeldFold
  <1>3. \A t \in S : w[t] \in Nat
    BY MagnitudeNat DEF FutTyped, BotStates
  <1>4. IsFiniteSet(S)
    BY FutAmounts, FS_Subset
  <1> HIDE DEF w
  <1>5. Total(w, S) = (CHOOSE g : g = WFold(g))[S]
    BY TotalFold DEF Fold, IsFold
  <1>6. Total(w, S) \in Nat
    BY <1>3, <1>4, TotalNat
  <1> HIDE DEF WFold
  <1>7. (CHOOSE g : g = HeldFold(S, g)) = (CHOOSE g : g = WFold(g))
    BY <1>1
  <1> QED
    BY <1>2, <1>5, <1>6, <1>7

\* calculate_notional, within the headroom.
LEMMA QuantityFits ==
    ASSUME FutTyped, NEW s \in FutSymbols
    PROVE  Quantity(s) \in Nat /\ Quantity(s) <= FutSize
  <1> DEFINE others == {t \in FutSymbols \ {s} : futState[t].amt # 0}
             open == HeldBy(others)
  <1>1. others \in SUBSET FutSymbols
    OBVIOUS
  <1>2. Headroom(s) = IF FutTotal > open THEN FutTotal - open ELSE 0
    BY DEF Headroom, HeldBy
  <1> HIDE DEF others
  <1>3. open \in Nat
    BY <1>1, HeldNat
  <1> HIDE DEF open
  <1>4. Headroom(s) \in Nat
    BY <1>2, <1>3, FutAmounts
  <1> QED
    BY <1>4, FutAmounts DEF Quantity

\* A step of one symbol leaves the others as they are.
LEMMA OneSymbol ==
    ASSUME FutInv, NEW s \in FutSymbols, NEW x \in Positions, NEW st \in BotStates,
           NEW p \in Standings, Flat(x, st, p),
           futExchange' = [futExchange EXCEPT ![s] = x],
           futState' = [futState EXCEPT ![s] = st],
           futStep' = [futStep EXCEPT ![s] = p],
           futSaved' \in [FutSymbols -> BotStates], futUsed' \in [ids : Nat, crashes : Nat]
    PROVE  FutInv'
  <1>1. FutTyped'
    BY DEF FutInv, FutTyped
  <1>2. ASSUME NEW t \in FutSymbols PROVE Flat(futExchange'[t], futState'[t], futStep'[t])
    <2>1. CASE t = s
      BY <2>1 DEF FutInv, FutTyped
    <2>2. CASE t # s
      BY <2>2 DEF FutInv, FutTyped
    <2> QED
      BY <2>1, <2>2
  <1> QED
    BY <1>1, <1>2 DEF FutInv

\* What a symbol's coroutine has, and what stays when it does not touch it.
LEMMA SymbolTypes ==
    ASSUME FutInv, NEW s \in FutSymbols
    PROVE  /\ futExchange[s] \in Positions /\ futState[s] \in BotStates
           /\ futStep[s] \in Standings /\ Flat(futExchange[s], futState[s], futStep[s])
           /\ Magnitude(futExchange[s].amt) <= FutSize
           /\ futSaved \in [FutSymbols -> BotStates] /\ futUsed \in [ids : Nat, crashes : Nat]
           /\ futExchange = [futExchange EXCEPT ![s] = futExchange[s]]
           /\ futState = [futState EXCEPT ![s] = futState[s]]
           /\ futStep = [futStep EXCEPT ![s] = futStep[s]]
  BY DEF FutInv, FutTyped, Flat

\* Nothing is entered from any other place of the cycle.
LEMMA Elsewhere ==
    ASSUME FutInv, NEW s \in FutSymbols, NEW x \in Positions, NEW st \in BotStates,
           NEW p \in Standings, p.at \notin {"judge", "order"}, Magnitude(x.amt) <= FutSize,
           futExchange' = [futExchange EXCEPT ![s] = x],
           futState' = [futState EXCEPT ![s] = st],
           futStep' = [futStep EXCEPT ![s] = p],
           futSaved' \in [FutSymbols -> BotStates], futUsed' \in [ids : Nat, crashes : Nat]
    PROVE  FutInv'
  BY OneSymbol DEF Flat

\* Any other place of the cycle is reached with nothing to carry.
LEMMA RestingStands ==
    ASSUME NEW at \in FutSteps
    PROVE  /\ [Resting EXCEPT !.at = at] \in Standings /\ [Resting EXCEPT !.at = at].at = at
           /\ \A halts \in BOOLEAN :
                 /\ [Resting EXCEPT !.at = at, !.halts = halts] \in Standings
                 /\ [Resting EXCEPT !.at = at, !.halts = halts].at = at
           /\ \A n \in Int : /\ [Resting EXCEPT !.at = at, !.amt = n] \in Standings
                            /\ [Resting EXCEPT !.at = at, !.amt = n].at = at
                            /\ [Resting EXCEPT !.at = at, !.amt = n].amt = n
  <1>1. Resting \in Standings
    BY DEF Resting, Standings, FutSteps
  <1> QED
    BY <1>1 DEF Standings

\* An error halts the symbol.
LEMMA RaiseKeeps ==
    ASSUME FutInv, NEW s \in FutSymbols, NEW x \in Positions, NEW st \in BotStates,
           Magnitude(x.amt) <= FutSize, futExchange' = [futExchange EXCEPT ![s] = x],
           Raise(s, st), UNCHANGED <<futSaved, futUsed>>
    PROVE  FutInv'
  <1> DEFINE halted == [st EXCEPT !.halted = TRUE]
             p == [Resting EXCEPT !.at = "save"]
  <1>1. futState' = [futState EXCEPT ![s] = halted] /\ futStep' = [futStep EXCEPT ![s] = p]
    BY DEF Raise, Goto
  <1>2. halted \in BotStates /\ p \in Standings /\ p.at = "save"
    BY RestingStands DEF BotStates, FutSteps
  <1> HIDE DEF halted, p
  <1> QED
    BY <1>1, <1>2, SymbolTypes, Elsewhere

\* An order, or a close, sets the amount.
LEMMA PositionedIs ==
    ASSUME FutInv, NEW s \in FutSymbols, NEW n \in Int, Positioned(s, n)
    PROVE  /\ [futExchange[s] EXCEPT !.amt = n] \in Positions
           /\ [futExchange[s] EXCEPT !.amt = n].amt = n
           /\ futExchange' = [futExchange EXCEPT ![s] = [futExchange[s] EXCEPT !.amt = n]]
  BY SymbolTypes DEF Positioned, Positions

\* The position is read before anything is judged.
LEMMA ReadKeeps ==
    ASSUME FutInv, NEW s \in FutSymbols, ReadPosition(s)
    PROVE  FutInv'
  <1>1. UNCHANGED <<futExchange, futSaved, futUsed>>
    BY DEF ReadPosition
  <1>2. CASE Raise(s, futState[s])
    BY <1>1, <1>2, SymbolTypes, RaiseKeeps
  <1>3. CASE ~Raise(s, futState[s])
    <2> DEFINE st == Synced(s)
               p == IF Unprotected(st) THEN [Resting EXCEPT !.at = "close", !.halts = TRUE]
                                       ELSE [Resting EXCEPT !.at = "judge"]
    <2>1. futState' = [futState EXCEPT ![s] = st] /\ futStep' = [futStep EXCEPT ![s] = p]
      BY <1>3 DEF ReadPosition, Goto
    <2>2. st \in BotStates /\ st.amt = futExchange[s].amt
      BY SymbolTypes DEF Synced, BotStates, Positions
    <2>3. p \in Standings /\ p.at \in {"close", "judge"}
      BY RestingStands DEF FutSteps
    <2> HIDE DEF st, p
    <2>4. Flat(futExchange[s], st, p)
      BY <2>2, <2>3, SymbolTypes DEF Flat
    <2> QED
      BY <1>1, <2>1, <2>2, <2>3, <2>4, SymbolTypes, OneSymbol
  <1> QED
    BY <1>2, <1>3

\* An entry is judged on a flat symbol, for at most the configured size.
LEMMA JudgeKeeps ==
    ASSUME FutInv, NEW s \in FutSymbols, Judge(s)
    PROVE  FutInv'
  <1>1. UNCHANGED <<futExchange, futSaved, futUsed>>
    BY DEF Judge
  <1>2. CASE Raise(s, futState[s])
    BY <1>1, <1>2, SymbolTypes, RaiseKeeps
  <1>3. CASE Goto(s, [Resting EXCEPT !.at = "save"]) /\ UNCHANGED futState
    <2> DEFINE p == [Resting EXCEPT !.at = "save"]
    <2>1. p \in Standings /\ p.at = "save"
      BY RestingStands DEF FutSteps
    <2>2. futStep' = [futStep EXCEPT ![s] = p]
      BY <1>3 DEF Goto
    <2> HIDE DEF p
    <2> QED
      BY <1>1, <1>3, <2>1, <2>2, SymbolTypes, Elsewhere
  <1>4. CASE (\E breached \in BOOLEAN :
                Goto(s, [Resting EXCEPT !.at = "close", !.halts = breached])) /\ UNCHANGED futState
    <2>1. PICK breached \in BOOLEAN :
             Goto(s, [Resting EXCEPT !.at = "close", !.halts = breached])
      BY <1>4
    <2> DEFINE p == [Resting EXCEPT !.at = "close", !.halts = breached]
    <2>2. p \in Standings /\ p.at = "close"
      <3>1. "close" \in FutSteps
        BY DEF FutSteps
      <3> QED
        BY <3>1, RestingStands
    <2>3. futStep' = [futStep EXCEPT ![s] = p]
      BY <2>1 DEF Goto
    <2> HIDE DEF p
    <2> QED
      BY <1>1, <1>4, <2>2, <2>3, SymbolTypes, Elsewhere
  <1>5. CASE /\ At(s, "judge") /\ futState[s].amt = 0 /\ UNCHANGED futState
             /\ \E side \in {-1, 1} :
                   Goto(s, [Resting EXCEPT !.at = "order", !.amt = side * Quantity(s)])
    <2>1. PICK side \in {-1, 1} :
             Goto(s, [Resting EXCEPT !.at = "order", !.amt = side * Quantity(s)])
      BY <1>5
    <2> DEFINE q == Quantity(s)
               n == side * q
               p == [Resting EXCEPT !.at = "order", !.amt = n]
    <2>2. q \in Nat /\ q <= FutSize
      BY QuantityFits DEF FutInv
    <2> HIDE DEF q
    <2>3. n \in Int /\ Magnitude(n) <= FutSize
      BY <2>2, FutAmounts DEF Magnitude
    <2>4. futStep' = [futStep EXCEPT ![s] = p]
      BY <2>1 DEF Goto, q
    <2> HIDE DEF n
    <2>5. p \in Standings /\ p.at = "order" /\ p.amt = n
      <3>1. "order" \in FutSteps /\ n \in Int
        BY <2>3 DEF FutSteps
      <3> QED
        BY <3>1, RestingStands
    <2>6. futExchange[s].amt = 0
      BY <1>5, SymbolTypes DEF At, Flat
    <2> HIDE DEF p
    <2>7. Flat(futExchange[s], futState[s], p)
      BY <2>3, <2>5, <2>6, SymbolTypes DEF Flat
    <2> QED
      BY <1>1, <1>5, <2>4, <2>5, <2>7, SymbolTypes, OneSymbol
  <1> QED
    BY <1>2, <1>3, <1>4, <1>5 DEF Judge

\* The entry goes from flat to one position.
LEMMA EntryKeeps ==
    ASSUME FutInv, NEW s \in FutSymbols, OrderEntry(s)
    PROVE  FutInv'
  <1> DEFINE n == futExchange[s].amt + futStep[s].amt
             x == [futExchange[s] EXCEPT !.amt = n]
  <1>1. UNCHANGED <<futSaved, futUsed>> /\ At(s, "order")
    BY DEF OrderEntry
  <1>2. n \in Int /\ Magnitude(n) <= FutSize
    <2>1. futExchange[s].amt = 0 /\ Magnitude(futStep[s].amt) <= FutSize /\ futStep[s].amt \in Int
      BY <1>1, SymbolTypes DEF At, Flat, Standings
    <2>2. n = futStep[s].amt
      BY <2>1
    <2> QED
      BY <2>1, <2>2
  <1> HIDE DEF n
  <1>3. ASSUME Positioned(s, n)
        PROVE  x \in Positions /\ x.amt = n /\ futExchange' = [futExchange EXCEPT ![s] = x]
    BY <1>2, <1>3, PositionedIs
  <1>4. CASE Raise(s, futState[s]) /\ UNCHANGED futExchange
    BY <1>1, <1>4, SymbolTypes, RaiseKeeps
  <1> HIDE DEF x
  <1>5. CASE Raise(s, futState[s]) /\ Positioned(s, n)
    BY <1>1, <1>2, <1>3, <1>5, SymbolTypes, RaiseKeeps
  <1>6. CASE /\ Positioned(s, n) /\ Goto(s, [futStep[s] EXCEPT !.at = "reconcile"])
             /\ UNCHANGED futState
    <2> DEFINE p == [futStep[s] EXCEPT !.at = "reconcile"]
    <2>1. p \in Standings /\ p.at = "reconcile"
      BY SymbolTypes DEF Standings, FutSteps
    <2>2. futStep' = [futStep EXCEPT ![s] = p]
      BY <1>6 DEF Goto
    <2> HIDE DEF p
    <2> QED
      BY <1>1, <1>2, <1>3, <1>6, <2>1, <2>2, SymbolTypes, Elsewhere
  <1> QED
    BY <1>4, <1>5, <1>6 DEF OrderEntry, n

\* What follows the entry leaves the exchange alone or closes the position.
LEMMA ReconcileKeeps ==
    ASSUME FutInv, NEW s \in FutSymbols, Reconcile(s)
    PROVE  FutInv'
  <1>1. UNCHANGED <<futExchange, futSaved, futUsed>>
    BY DEF Reconcile
  <1>2. CASE Raise(s, futState[s])
    BY <1>1, <1>2, SymbolTypes, RaiseKeeps
  <1>3. CASE ~Raise(s, futState[s])
    <2> DEFINE st == Synced(s)
               p == [futStep[s] EXCEPT !.at = "stop"]
    <2>1. futState' = [futState EXCEPT ![s] = st] /\ futStep' = [futStep EXCEPT ![s] = p]
      BY <1>3 DEF Reconcile, Goto
    <2>2. st \in BotStates
      BY SymbolTypes DEF Synced, BotStates, Positions
    <2>3. p \in Standings /\ p.at = "stop"
      BY SymbolTypes DEF Standings, FutSteps
    <2> HIDE DEF st, p
    <2> QED
      BY <1>1, <2>1, <2>2, <2>3, SymbolTypes, Elsewhere
  <1> QED
    BY <1>2, <1>3

\* The requests of the protection leave the position alone.
LEMMA AlgosKeep ==
    ASSUME FutInv, NEW s \in FutSymbols, NEW x \in Positions, x.amt = futExchange[s].amt,
           futExchange' = [futExchange EXCEPT ![s] = x],
           NEW p \in Standings, p.at \notin {"judge", "order"}, Goto(s, p),
           NEW st \in BotStates, futState' = [futState EXCEPT ![s] = st],
           futUsed' \in [ids : Nat, crashes : Nat], UNCHANGED futSaved
    PROVE  FutInv'
  <1>1. futStep' = [futStep EXCEPT ![s] = p]
    BY DEF Goto
  <1> QED
    BY <1>1, SymbolTypes, Elsewhere

\* An algo order is a new id, and no position.
LEMMA CreatedIs ==
    ASSUME FutInv, NEW s \in FutSymbols, Created(s)
    PROVE  /\ futUsed' \in [ids : Nat, crashes : Nat]
           /\ \E x \in Positions : /\ x.amt = futExchange[s].amt
                                   /\ futExchange' = [futExchange EXCEPT ![s] = x]
  <1>1. futUsed' = [futUsed EXCEPT !.ids = @ + 1] /\ futUsed.ids + 1 \in Nat
    BY SymbolTypes DEF Created
  <1>2. futUsed' \in [ids : Nat, crashes : Nat]
    BY <1>1, SymbolTypes
  <1> DEFINE x == [futExchange[s] EXCEPT !.algos = futExchange[s].algos \cup {futUsed.ids + 1}]
  <1>3. x \in Positions /\ x.amt = futExchange[s].amt
    BY <1>1, SymbolTypes DEF Positions
  <1>4. futExchange' = [futExchange EXCEPT ![s] = x]
    BY SymbolTypes DEF Created
  <1> HIDE DEF x
  <1> QED
    BY <1>2, <1>3, <1>4

\* The stop.
LEMMA StopKeeps ==
    ASSUME FutInv, NEW s \in FutSymbols, PlaceStop(s)
    PROVE  FutInv'
  <1>1. UNCHANGED <<futState, futSaved>>
    BY DEF PlaceStop
  <1>2. PICK p \in Standings : p.at \in {"emergency", "take"} /\ Goto(s, p)
    <2>1. CASE Goto(s, [futStep[s] EXCEPT !.at = "emergency"])
      <3> DEFINE p == [futStep[s] EXCEPT !.at = "emergency"]
      <3>1. p \in Standings /\ p.at = "emergency"
        BY SymbolTypes DEF Standings, FutSteps
      <3> QED
        BY <2>1, <3>1
    <2>2. CASE Created(s) /\ Goto(s, [futStep[s] EXCEPT !.at = "take", !.stop = futUsed'.ids])
      <3> DEFINE p == [futStep[s] EXCEPT !.at = "take", !.stop = futUsed'.ids]
      <3>1. futUsed'.ids \in Nat
        BY <2>2, CreatedIs
      <3>2. p \in Standings /\ p.at = "take"
        BY <3>1, SymbolTypes DEF Standings, FutSteps
      <3> QED
        BY <2>2, <3>2
    <2> QED
      BY <2>1, <2>2 DEF PlaceStop
  <1>3. PICK x \in Positions : /\ x.amt = futExchange[s].amt
                               /\ futExchange' = [futExchange EXCEPT ![s] = x]
                               /\ futUsed' \in [ids : Nat, crashes : Nat]
    BY SymbolTypes, CreatedIs DEF PlaceStop
  <1> QED
    BY <1>1, <1>2, <1>3, SymbolTypes, AlgosKeep

\* The take-profit that fails.
LEMMA TakeFailsKeeps ==
    ASSUME FutInv, NEW s \in FutSymbols, PlaceTakeFails(s)
    PROVE  FutInv'
  <1> DEFINE p == [futStep[s] EXCEPT !.at = "emergency"]
             x == [futExchange[s] EXCEPT !.algos = futExchange[s].algos \ {futStep[s].stop}]
  <1>1. Goto(s, p) /\ UNCHANGED <<futState, futSaved, futUsed>>
    BY DEF PlaceTakeFails
  <1>2. p \in Standings /\ p.at = "emergency"
    BY SymbolTypes DEF Standings, FutSteps
  <1>3. x \in Positions /\ x.amt = futExchange[s].amt
    BY SymbolTypes DEF Positions
  <1>4. futExchange' = futExchange \/ futExchange' = [futExchange EXCEPT ![s] = x]
    BY DEF PlaceTakeFails
  <1> HIDE DEF p, x
  <1> QED
    BY <1>1, <1>2, <1>3, <1>4, SymbolTypes, AlgosKeep

\* The take-profit.
LEMMA TakeKeeps ==
    ASSUME FutInv, NEW s \in FutSymbols, PlaceTake(s)
    PROVE  FutInv'
  <1> DEFINE st == [futState[s] EXCEPT !.stop = futStep[s].stop, !.take = futUsed'.ids]
             p == [Resting EXCEPT !.at = "save"]
  <1>1. Created(s) /\ Goto(s, p) /\ UNCHANGED futSaved
    BY DEF PlaceTake
  <1>2. futUsed' \in [ids : Nat, crashes : Nat]
    BY <1>1, CreatedIs
  <1>3. st \in BotStates
    BY <1>2, SymbolTypes DEF BotStates, Standings
  <1>4. futState' = [futState EXCEPT ![s] = st]
    BY SymbolTypes DEF PlaceTake
  <1>5. p \in Standings /\ p.at = "save"
    BY RestingStands DEF FutSteps
  <1> HIDE DEF st, p
  <1> QED
    BY <1>1, <1>2, <1>3, <1>4, <1>5, CreatedIs, AlgosKeep

\* A reduce-only order leaves a position or nothing.
LEMMA NothingFits == 0 \in Int /\ Magnitude(0) <= FutSize
  BY FutAmounts DEF Magnitude

\* The close after a protection that failed.
LEMMA EmergencyKeeps ==
    ASSUME FutInv, NEW s \in FutSymbols, EmergencyClose(s)
    PROVE  FutInv'
  <1>1. UNCHANGED <<futSaved, futUsed>>
    BY DEF EmergencyClose
  <1>2. CASE Raise(s, futState[s]) /\ UNCHANGED futExchange
    BY <1>1, <1>2, SymbolTypes, RaiseKeeps
  <1>3. ASSUME Positioned(s, 0), NEW st \in BotStates, Raise(s, st) PROVE FutInv'
    <2>1. PICK x \in Positions : x.amt = 0 /\ futExchange' = [futExchange EXCEPT ![s] = x]
      BY <1>3, NothingFits, PositionedIs
    <2> QED
      BY <1>1, <1>3, <2>1, NothingFits, RaiseKeeps
  <1>4. [futState[s] EXCEPT !.amt = 0] \in BotStates /\ futState[s] \in BotStates
    BY SymbolTypes DEF BotStates
  <1> QED
    BY <1>2, <1>3, <1>4 DEF EmergencyClose

\* The close that a breach or a reversal asks for.
LEMMA CloseKeeps ==
    ASSUME FutInv, NEW s \in FutSymbols, CloseOrder(s)
    PROVE  FutInv'
  <1>1. UNCHANGED <<futSaved, futUsed>>
    BY DEF CloseOrder
  <1>2. CASE Raise(s, futState[s]) /\ UNCHANGED futExchange
    BY <1>1, <1>2, SymbolTypes, RaiseKeeps
  <1>3. CASE Positioned(s, 0)
    <2>1. PICK x \in Positions : x.amt = 0 /\ futExchange' = [futExchange EXCEPT ![s] = x]
      BY <1>3, NothingFits, PositionedIs
    <2>2. CASE Raise(s, futState[s])
      BY <1>1, <2>1, <2>2, NothingFits, SymbolTypes, RaiseKeeps
    <2>3. CASE Goto(s, [futStep[s] EXCEPT !.at = "cancel"]) /\ UNCHANGED futState
      <3> DEFINE p == [futStep[s] EXCEPT !.at = "cancel"]
      <3>1. p \in Standings /\ p.at = "cancel"
        BY SymbolTypes DEF Standings, FutSteps
      <3>2. futStep' = [futStep EXCEPT ![s] = p]
        BY <2>3 DEF Goto
      <3> HIDE DEF p
      <3> QED
        BY <1>1, <2>1, <2>3, <3>1, <3>2, NothingFits, SymbolTypes, Elsewhere
    <2> QED
      BY <1>3, <2>2, <2>3, <1>2 DEF CloseOrder
  <1> QED
    BY <1>2, <1>3 DEF CloseOrder

\* The cancellation of the protection.
LEMMA CancelKeeps ==
    ASSUME FutInv, NEW s \in FutSymbols, CancelProtection(s)
    PROVE  FutInv'
  <1> DEFINE st == [FreshState EXCEPT !.halted = futState[s].halted \/ futStep[s].halts]
             p == [Resting EXCEPT !.at = "save"]
  <1>1. /\ futState' = [futState EXCEPT ![s] = st] /\ Goto(s, p)
        /\ UNCHANGED <<futSaved, futUsed>>
    BY DEF CancelProtection
  <1>2. PICK gone : futExchange' = [futExchange EXCEPT ![s].algos = @ \ gone]
    BY DEF CancelProtection
  <1> DEFINE x == [futExchange[s] EXCEPT !.algos = futExchange[s].algos \ gone]
  <1>3. x \in Positions /\ x.amt = futExchange[s].amt
    BY SymbolTypes DEF Positions
  <1>4. futExchange' = [futExchange EXCEPT ![s] = x]
    BY <1>2
  <1>5. st \in BotStates
    <2>1. FreshState \in BotStates
      BY DEF FreshState, BotStates
    <2>2. (futState[s].halted \/ futStep[s].halts) \in BOOLEAN
      OBVIOUS
    <2> QED
      BY <2>1, <2>2 DEF BotStates
  <1>6. p \in Standings /\ p.at = "save"
    BY RestingStands DEF FutSteps
  <1> HIDE DEF st, p, x
  <1> QED
    BY <1>1, <1>3, <1>4, <1>5, <1>6, SymbolTypes, AlgosKeep

\* The save.
LEMMA SaveKeeps ==
    ASSUME FutInv, NEW s \in FutSymbols, SaveState(s)
    PROVE  FutInv'
  <1>1. UNCHANGED <<futExchange, futState, futUsed>> /\ Goto(s, Resting)
        /\ futSaved' \in {futSaved, [futSaved EXCEPT ![s] = futState[s]]}
    BY DEF SaveState
  <1>2. futSaved' \in [FutSymbols -> BotStates]
    BY <1>1, SymbolTypes
  <1>3. Resting \in Standings /\ Resting.at = "idle"
    BY DEF Resting, Standings, FutSteps
  <1>4. futStep' = [futStep EXCEPT ![s] = Resting]
    BY <1>1 DEF Goto
  <1> QED
    BY <1>1, <1>2, <1>3, <1>4, SymbolTypes, Elsewhere

\* An algo order that triggers only closes.
LEMMA TriggerKeeps ==
    ASSUME FutInv, NEW s \in FutSymbols, AlgoTriggers(s)
    PROVE  FutInv'
  <1>1. UNCHANGED <<futState, futSaved, futStep, futUsed>>
    BY DEF AlgoTriggers
  <1>2. PICK left \in SUBSET Nat : futExchange' = [futExchange EXCEPT ![s] = [amt |-> 0, algos |-> left]]
    BY SymbolTypes DEF AlgoTriggers, Positions
  <1> DEFINE x == [amt |-> 0, algos |-> left]
  <1>3. x \in Positions /\ x.amt = 0
    BY DEF Positions
  <1>4. futExchange' = [futExchange EXCEPT ![s] = x]
    BY <1>2
  <1> HIDE DEF x
  <1>5. Flat(x, futState[s], futStep[s])
    BY <1>3, NothingFits, SymbolTypes DEF Flat
  <1>6. /\ futState' = [futState EXCEPT ![s] = futState[s]] /\ futState[s] \in BotStates
        /\ futStep' = [futStep EXCEPT ![s] = futStep[s]] /\ futStep[s] \in Standings
    BY <1>1, SymbolTypes
  <1>7. futSaved' \in [FutSymbols -> BotStates] /\ futUsed' \in [ids : Nat, crashes : Nat]
    BY <1>1, SymbolTypes
  <1> QED
    BY <1>3, <1>4, <1>5, <1>6, <1>7, OneSymbol

\* A restart begins every symbol with a reading of its position.
LEMMA RestartKeeps ==
    ASSUME FutInv, FutRestart
    PROVE  FutInv'
  <1>1. /\ futSaved' \in {futSaved, futState} /\ futState' = futSaved'
        /\ futStep' = [s \in FutSymbols |-> Resting] /\ UNCHANGED futExchange
        /\ futUsed' = [futUsed EXCEPT !.crashes = @ + 1]
    BY DEF FutRestart
  <1>2. Resting \in Standings /\ Resting.at = "idle"
    BY DEF Resting, Standings, FutSteps
  <1>3. FutTyped'
    BY <1>1, <1>2 DEF FutInv, FutTyped
  <1>4. ASSUME NEW s \in FutSymbols PROVE Flat(futExchange'[s], futState'[s], futStep'[s])
    BY <1>1, <1>2, SymbolTypes DEF Flat
  <1> QED
    BY <1>3, <1>4 DEF FutInv

\* Whatever the symbols, the size and the total, and whatever requests fail or
\* take effect unanswered, saves fail and crashes hit: a symbol never holds more
\* than one position of its configured size (futures_bot.py, _cycle, _sync_state
\* and _open_position).
THEOREM OnePositionPerSymbolHolds == FutSpec => []OnePositionPerSymbol
  <1>1. FutInit => FutInv
    <2> SUFFICES ASSUME FutInit PROVE FutInv
      OBVIOUS
    <2>1. Resting \in Standings /\ Resting.at = "idle" /\ FreshState \in BotStates
      BY DEF Resting, Standings, FutSteps, FreshState, BotStates
    <2>2. [amt |-> 0, algos |-> {}] \in Positions /\ [ids |-> 0, crashes |-> 0] \in [ids : Nat, crashes : Nat]
      BY DEF Positions
    <2>3. FutTyped
      BY <2>1, <2>2 DEF FutInit, FutTyped
    <2>4. ASSUME NEW s \in FutSymbols PROVE Flat(futExchange[s], futState[s], futStep[s])
      <3>1. futExchange[s].amt = 0 /\ futStep[s] = Resting
        BY DEF FutInit
      <3> QED
        BY <2>1, <3>1, NothingFits DEF Flat
    <2> QED
      BY <2>3, <2>4 DEF FutInv
  <1>2. FutInv /\ [FutNext]_futVars => FutInv'
    <2> SUFFICES ASSUME FutInv, [FutNext]_futVars PROVE FutInv'
      OBVIOUS
    <2>1. CASE UNCHANGED futVars
      BY <2>1 DEF futVars, FutInv, FutTyped
    <2>2. CASE FutRestart
      BY <2>2, RestartKeeps
    <2>3. ASSUME NEW s \in FutSymbols,
                 \/ ReadPosition(s) \/ Judge(s) \/ OrderEntry(s) \/ Reconcile(s)
                 \/ PlaceStop(s) \/ PlaceTake(s) \/ PlaceTakeFails(s) \/ EmergencyClose(s)
                 \/ CloseOrder(s) \/ CancelProtection(s) \/ SaveState(s) \/ AlgoTriggers(s)
          PROVE  FutInv'
      BY <2>3, ReadKeeps, JudgeKeeps, EntryKeeps, ReconcileKeeps, StopKeeps, TakeKeeps,
         TakeFailsKeeps, EmergencyKeeps, CloseKeeps, CancelKeeps, SaveKeeps, TriggerKeeps
    <2> QED
      BY <2>1, <2>2, <2>3 DEF FutNext
  <1>3. FutInv => OnePositionPerSymbol
    BY DEF FutInv, Flat, OnePositionPerSymbol
  <1> QED
    BY <1>1, <1>2, <1>3, PTL DEF FutSpec

-----------------------------------------------------------------------------
(***************************************************************************)
(* The prediction market bot: a sum of stakes is a sum over a book, and a  *)
(* close, a new price and an entry each leave what cash and stakes make.   *)
(***************************************************************************)

Stakes(S) == MapThenSumSet(LAMBDA p : p.size, S)
StakeTable(S) == [p \in S |-> p.size]
StakeFold(S, g) == [s \in SUBSET S |-> IF s = {} THEN 0 ELSE Pick(s).size + g[s \ {Pick(s)}]]

\* A sum of stakes is a sum of weights.
LEMMA StakesTotal ==
    ASSUME NEW S
    PROVE  Stakes(S) = Total(StakeTable(S), S)
  <1> DEFINE w == StakeTable(S)
             WFold(g) == [s \in SUBSET S |-> Step(w, s, g)]
  <1>1. ASSUME NEW g PROVE StakeFold(S, g) = WFold(g)
    <2>1. ASSUME NEW s \in SUBSET S, s # {} PROVE Pick(s).size = w[Pick(s)]
      BY <2>1, PickIn DEF StakeTable
    <2> QED
      BY <2>1 DEF StakeFold, Step
  <1>2. Stakes(S) = (CHOOSE g : g = StakeFold(S, g))[S]
    BY DEF Stakes, MapThenSumSet, MapThenFoldSet, Pick, StakeFold
  <1> HIDE DEF w
  <1>3. Total(w, S) = (CHOOSE g : g = WFold(g))[S]
    BY TotalFold DEF Fold, IsFold
  <1> HIDE DEF WFold
  <1>4. (CHOOSE g : g = StakeFold(S, g)) = (CHOOSE g : g = WFold(g))
    BY <1>1
  <1> QED
    BY <1>2, <1>3, <1>4 DEF w

LEMMA StakesType ==
    ASSUME NEW S, IsFiniteSet(S), \A p \in S : p.size \in Nat
    PROVE  Stakes(S) \in Int
  <1>1. \A p \in S : StakeTable(S)[p] \in Int
    BY DEF StakeTable
  <1> QED
    BY <1>1, StakesTotal, TotalType

\* A new position adds its stake.
LEMMA StakesWith ==
    ASSUME NEW S, IsFiniteSet(S), NEW x, x \notin S, \A p \in S \cup {x} : p.size \in Nat
    PROVE  Stakes(S \cup {x}) = Stakes(S) + x.size
  <1> DEFINE T == S \cup {x}
             w == StakeTable(T)
  <1>1. \A r \in T : w[r] = r.size
    BY DEF StakeTable
  <1>2. \A r \in S : w[r] = StakeTable(S)[r]
    BY DEF StakeTable
  <1>3. x \in T /\ \A r \in T : w[r] \in Int
    BY <1>1
  <1> HIDE DEF w
  <1>4. Total(w, T) = Total(w, S) + w[x]
    BY <1>3, TotalWith
  <1>5. Total(w, S) = Total(StakeTable(S), S)
    BY <1>2, TotalSame
  <1> HIDE DEF T
  <1>6. Stakes(T) = Total(w, T) /\ Stakes(S) = Total(StakeTable(S), S)
    BY StakesTotal DEF w
  <1>7. w[x] = x.size
    BY <1>1, <1>3
  <1>8. Stakes(T) = Stakes(S) + x.size
    BY <1>4, <1>5, <1>6, <1>7
  <1> QED
    BY <1>8 DEF T

\* A position that goes takes its stake out.
LEMMA StakesWithout ==
    ASSUME NEW S, IsFiniteSet(S), NEW x \in S, \A p \in S : p.size \in Nat
    PROVE  /\ Stakes(S) = Stakes(S \ {x}) + x.size /\ IsFiniteSet(S \ {x})
           /\ Stakes(S \ {x}) \in Int
  <1> DEFINE T == S \ {x}
  <1>1. IsFiniteSet(T) /\ x \notin T /\ T \cup {x} = S /\ \A p \in T : p.size \in Nat
    BY FS_Subset
  <1> HIDE DEF T
  <1>2. Stakes(T \cup {x}) = Stakes(T) + x.size /\ Stakes(T) \in Int
    BY <1>1, StakesWith, StakesType
  <1>3. Stakes(S) = Stakes(T) + x.size /\ IsFiniteSet(T) /\ Stakes(T) \in Int
    BY <1>1, <1>2
  <1> QED
    BY <1>3 DEF T

PolyBook(b) == {"open", "realized", "trades", "cash", "peak", "killed", "dayPnl", "date",
                "losses", "failures"} \subseteq DOMAIN b

StakeShape(p) ==
    /\ {"id", "market", "side", "entry", "price", "size"} \subseteq DOMAIN p
    /\ p.size \in Nat /\ p.entry \in Nat \ {0} /\ p.price \in Nat

\* A book adds up, and each of its open positions has a number and a market of
\* its own.
AddsUp(b) ==
    /\ PolyBook(b)
    /\ IsFiniteSet(b.open)
    /\ b.trades \in Nat /\ b.cash \in Int /\ b.realized \in Int
    /\ \A p \in b.open : StakeShape(p) /\ p.id \in Nat /\ p.id <= b.trades
    /\ \A p, q \in b.open : p.id = q.id \/ p.market = q.market => p = q
    /\ b.cash + Stakes(b.open) = PolyBankroll + b.realized

\* The feed has a reading of each position a scan has to look at.
ScanSound ==
    /\ {"at", "feed", "todo", "counts"} \subseteq DOMAIN polyScan
    /\ \A m \in DOMAIN polyScan.feed : polyScan.feed[m] \in PolyReadings
    /\ polyScan.at # "exits" => polyScan.todo = {}
    /\ \A p \in poly.open : p.id \in polyScan.todo => p.market \in DOMAIN polyScan.feed

PolyInv == AddsUp(poly) /\ AddsUp(polySaved) /\ ScanSound

\* Fields that are no part of the sum may change.
LEMMA SameSum ==
    ASSUME NEW b, NEW c, AddsUp(b), PolyBook(c),
           c.open = b.open, c.trades = b.trades, c.cash = b.cash, c.realized = b.realized
    PROVE  AddsUp(c)
  BY DEF AddsUp

\* A closed position pays back its stake and what it won.
LEMMA ClosingAddsUp ==
    ASSUME NEW b, NEW c, AddsUp(b), PolyBook(c), NEW p \in b.open, NEW won \in Int,
           c.open = b.open \ {p}, c.trades = b.trades,
           c.cash = b.cash + p.size + won, c.realized = b.realized + won
    PROVE  AddsUp(c)
  <1>1. \A q \in b.open : q.size \in Nat
    BY DEF AddsUp, StakeShape
  <1>2. /\ Stakes(b.open) = Stakes(c.open) + p.size /\ IsFiniteSet(c.open)
        /\ Stakes(c.open) \in Int
    <2>1. IsFiniteSet(b.open)
      BY DEF AddsUp
    <2>2. /\ Stakes(b.open) = Stakes(b.open \ {p}) + p.size /\ IsFiniteSet(b.open \ {p})
          /\ Stakes(b.open \ {p}) \in Int
      BY <1>1, <2>1, StakesWithout
    <2> QED BY <2>2
  <1>3. /\ b.cash \in Int /\ b.realized \in Int /\ p.size \in Int /\ PolyBankroll \in Int
        /\ b.cash + Stakes(b.open) = PolyBankroll + b.realized
    BY <1>1, PolyAmounts DEF AddsUp
  <1>4. c.cash + Stakes(c.open) = PolyBankroll + c.realized
    BY <1>2, <1>3
  <1>5. c.cash \in Int /\ c.realized \in Int
    BY <1>3
  <1> QED
    BY <1>2, <1>4, <1>5 DEF AddsUp

\* A new price of a position leaves its stake, its number and its market.
LEMMA RepricingAddsUp ==
    ASSUME NEW b, NEW c, AddsUp(b), PolyBook(c), NEW p \in b.open, NEW n,
           StakeShape(n), n.id = p.id, n.market = p.market, n.size = p.size,
           c.open = (b.open \ {p}) \cup {n}, c.trades = b.trades,
           c.cash = b.cash, c.realized = b.realized
    PROVE  AddsUp(c)
  <1> DEFINE rest == b.open \ {p}
  <1>1. \A q \in b.open : q.size \in Nat
    BY DEF AddsUp, StakeShape
  <1>2. Stakes(b.open) = Stakes(rest) + p.size /\ IsFiniteSet(rest)
    <2>1. IsFiniteSet(b.open)
      BY DEF AddsUp
    <2> QED BY <1>1, <2>1, StakesWithout
  <1>3. \A q \in rest : q.id # p.id /\ q.market # p.market
    BY DEF AddsUp
  <1>4. n \notin rest
    BY <1>3
  <1>5. \A q \in rest \cup {n} : q.size \in Nat
    BY <1>1 DEF StakeShape
  <1>6. Stakes(rest \cup {n}) = Stakes(rest) + n.size
    <2> HIDE DEF rest
    <2> QED
      BY <1>2, <1>4, <1>5, StakesWith
  <1>7. IsFiniteSet(rest \cup {n})
    BY <1>2, FS_AddElement
  <1>8. Stakes(c.open) = Stakes(b.open)
    BY <1>2, <1>6
  <1>9. \A q \in c.open : StakeShape(q) /\ q.id \in Nat /\ q.id <= c.trades
    BY DEF AddsUp
  <1>10. \A q, r \in c.open : q.id = r.id \/ q.market = r.market => q = r
    BY <1>3 DEF AddsUp
  <1> QED
    BY <1>7, <1>8, <1>9, <1>10 DEF AddsUp

\* A new position takes its stake out of the cash.
LEMMA EntryAddsUp ==
    ASSUME NEW b, NEW c, AddsUp(b), PolyBook(c), NEW n, StakeShape(n),
           n.id = b.trades + 1, \A q \in b.open : q.market # n.market,
           c.open = b.open \cup {n}, c.trades = b.trades + 1,
           c.cash = b.cash - n.size, c.realized = b.realized
    PROVE  AddsUp(c)
  <1>1. \A q \in b.open \cup {n} : q.size \in Nat
    BY DEF AddsUp, StakeShape
  <1>2. b.trades \in Nat /\ \A q \in b.open : q.id \in Nat /\ q.id <= b.trades
    BY DEF AddsUp
  <1>3. n \notin b.open /\ \A q \in b.open : q.id # n.id
    BY <1>2
  <1>4. Stakes(c.open) = Stakes(b.open) + n.size /\ Stakes(b.open) \in Int /\ IsFiniteSet(c.open)
    BY <1>1, <1>3, StakesWith, StakesType, FS_AddElement DEF AddsUp
  <1>5. n.size \in Int /\ b.cash \in Int /\ b.realized \in Int /\ PolyBankroll \in Int
        /\ b.cash + Stakes(b.open) = PolyBankroll + b.realized
    BY PolyAmounts DEF AddsUp, StakeShape
  <1>6. c.cash + Stakes(c.open) = PolyBankroll + c.realized
    BY <1>4, <1>5
  <1>7. c.cash \in Int /\ c.trades \in Nat
    BY <1>2, <1>5
  <1>8. \A q \in c.open : StakeShape(q) /\ q.id \in Nat /\ q.id <= c.trades
    BY <1>2 DEF AddsUp
  <1>9. \A q, r \in c.open : q.id = r.id \/ q.market = r.market => q = r
    BY <1>3 DEF AddsUp
  <1> QED
    BY <1>4, <1>5, <1>6, <1>7, <1>8, <1>9 DEF AddsUp

\* Whatever a reading says is a price.
LEMMA PricesAreNat ==
    ASSUME NEW r \in PolyReadings, NEW side
    PROVE  PriceOf(r, side) \in Nat
  BY PolyAmounts DEF PriceOf

LEMMA PnlIsInt ==
    ASSUME NEW p, StakeShape(p)
    PROVE  Pnl(p) \in Int
  <1>1. p.entry \in Nat /\ p.entry > 0 /\ (p.price - p.entry) * p.size \in Int
    BY DEF StakeShape
  <1> QED
    BY <1>1 DEF Pnl

LEMMA PolyInitially == PolyInit => PolyInv
  <1> SUFFICES ASSUME PolyInit PROVE PolyInv
    OBVIOUS
  <1>1. Stakes({}) = 0
    BY StakesTotal, TotalEmpty
  <1>2. AddsUp(poly) /\ polySaved = poly
    BY <1>1, FS_EmptySet, PolyAmounts DEF PolyInit, AddsUp, PolyBook
  <1>3. ScanSound
    BY DEF PolyInit, NoScan, ScanSound
  <1> QED
    BY <1>2, <1>3 DEF PolyInv

\* A scan that begins, fails, ends or saves, a day, a reset and a restart open
\* and close nothing.
LEMMA ScanKeeps ==
    ASSUME PolyInv, BeginScan \/ FetchFails \/ EndScan \/ SavePoly \/ RestartPoly
    PROVE  PolyInv'
  <1>1. ScanSound'
    BY DEF BeginScan, FetchFails, EndScan, SavePoly, RestartPoly, NoScan, ScanSound, PolyInv
  <1>2. AddsUp(poly)'
    <2>1. CASE BeginScan \/ FetchFails
      <3>1. /\ PolyBook(poly') /\ poly'.open = poly.open /\ poly'.trades = poly.trades
            /\ poly'.cash = poly.cash /\ poly'.realized = poly.realized
        BY <2>1 DEF BeginScan, FetchFails, PolyInv, AddsUp, PolyBook
      <3> QED
        BY <3>1, SameSum DEF PolyInv
    <2>2. CASE EndScan \/ SavePoly \/ RestartPoly
      BY <2>2 DEF EndScan, SavePoly, RestartPoly, PolyInv
    <2> QED
      BY <2>1, <2>2
  <1>3. AddsUp(polySaved)'
    BY DEF BeginScan, FetchFails, EndScan, SavePoly, RestartPoly, PolyInv
  <1> QED
    BY <1>1, <1>2, <1>3 DEF PolyInv

LEMMA FetchKeeps ==
    ASSUME PolyInv, FetchEvents
    PROVE  PolyInv'
  <1>0. PICK listed \in SUBSET PolyMarkets : \E feed \in [listed -> PolyReadings] :
           polyScan' = [at |-> "exits", feed |-> feed, counts |-> Counts,
                        todo |-> {p.id : p \in {q \in poly.open : q.market \in listed}}]
    BY DEF FetchEvents
  <1>1. PICK feed \in [listed -> PolyReadings] :
           polyScan' = [at |-> "exits", feed |-> feed, counts |-> Counts,
                        todo |-> {p.id : p \in {q \in poly.open : q.market \in listed}}]
    BY <1>0
  <1>2. /\ PolyBook(poly') /\ poly'.open = poly.open /\ poly'.trades = poly.trades
        /\ poly'.cash = poly.cash /\ poly'.realized = poly.realized
    BY DEF FetchEvents, PolyInv, AddsUp, PolyBook
  <1>3. AddsUp(poly)'
    BY <1>2, SameSum DEF PolyInv
  <1>4. AddsUp(polySaved)'
    BY DEF FetchEvents, PolyInv
  <1>5. ASSUME NEW p \in poly'.open, p.id \in polyScan'.todo
        PROVE  p.market \in DOMAIN polyScan'.feed
    <2>1. PICK q \in poly.open : q.market \in listed /\ q.id = p.id
      BY <1>1, <1>5
    <2>2. q = p
      BY <1>2, <2>1 DEF PolyInv, AddsUp
    <2> QED
      BY <1>1, <2>1, <2>2
  <1>6. ScanSound'
    BY <1>1, <1>5 DEF ScanSound
  <1> QED
    BY <1>3, <1>4, <1>6 DEF PolyInv

\* Each position is looked at with the reading of its market.
LEMMA UpdateKeeps ==
    ASSUME PolyInv, NEW p \in poly.open, UpdatePosition(p)
    PROVE  PolyInv'
  <1> DEFINE reading == polyScan.feed[p.market]
             n == [p EXCEPT !.price = PriceOf(reading, p.side)]
             rest == [poly EXCEPT !.open = @ \ {p}]
             closes == reading.resolved \/ ShouldExit(n)
  <1>1. /\ p.id \in polyScan.todo /\ polyScan.at = "exits"
        /\ polyScan' = [polyScan EXCEPT !.todo = @ \ {p.id}]
        /\ poly' = IF closes THEN Closed(rest, n) ELSE [rest EXCEPT !.open = @ \cup {n}]
        /\ polySaved' = polySaved
    BY DEF UpdatePosition
  <1>2. p.market \in DOMAIN polyScan.feed /\ reading \in PolyReadings
    BY <1>1 DEF PolyInv, ScanSound
  <1>3. PriceOf(reading, p.side) \in Nat
    BY <1>2, PricesAreNat
  <1>4. StakeShape(n) /\ n.id = p.id /\ n.market = p.market /\ n.size = p.size
    <2>1. StakeShape(p)
      BY DEF PolyInv, AddsUp
    <2> QED
      BY <1>3, <2>1 DEF StakeShape
  <1>5. PolyBook(poly) /\ AddsUp(poly)
    BY DEF PolyInv, AddsUp
  <1>6. /\ PolyBook(rest) /\ rest.open = poly.open \ {p} /\ rest.trades = poly.trades
        /\ rest.cash = poly.cash /\ rest.realized = poly.realized
    BY <1>5 DEF PolyBook
  <1>7. Pnl(n) \in Int
    BY <1>4, PnlIsInt
  <1> HIDE DEF n, rest, closes
  <1>8. ASSUME closes
        PROVE  AddsUp(poly') /\ poly'.open \subseteq (poly.open \ {p}) \cup {n}
    <2>1. poly' = Closed(rest, n)
      BY <1>1, <1>8
    <2>2. /\ PolyBook(poly') /\ poly'.open = rest.open /\ poly'.trades = rest.trades
          /\ poly'.cash = rest.cash + n.size + Pnl(n) /\ poly'.realized = rest.realized + Pnl(n)
      BY <1>6, <2>1 DEF Closed, PolyBook
    <2>3. /\ poly'.open = poly.open \ {p} /\ poly'.trades = poly.trades
          /\ poly'.cash = poly.cash + p.size + Pnl(n) /\ poly'.realized = poly.realized + Pnl(n)
      BY <1>4, <1>6, <2>2
    <2>4. AddsUp(poly')
      BY <1>5, <1>7, <2>2, <2>3, ClosingAddsUp
    <2> QED
      BY <2>3, <2>4
  <1>9. ASSUME ~closes
        PROVE  AddsUp(poly') /\ poly'.open \subseteq (poly.open \ {p}) \cup {n}
    <2>1. poly' = [rest EXCEPT !.open = @ \cup {n}]
      BY <1>1, <1>9
    <2>2. /\ PolyBook(poly') /\ poly'.open = rest.open \cup {n} /\ poly'.trades = rest.trades
          /\ poly'.cash = rest.cash /\ poly'.realized = rest.realized
      BY <1>6, <2>1 DEF PolyBook
    <2>3. /\ poly'.open = (poly.open \ {p}) \cup {n} /\ poly'.trades = poly.trades
          /\ poly'.cash = poly.cash /\ poly'.realized = poly.realized
      BY <1>6, <2>2
    <2>4. AddsUp(poly')
      BY <1>4, <1>5, <2>2, <2>3, RepricingAddsUp
    <2> QED
      BY <2>3, <2>4
  <1>10. AddsUp(poly') /\ poly'.open \subseteq (poly.open \ {p}) \cup {n}
    BY <1>4, <1>8, <1>9
  <1>11. ScanSound'
    <2>1. /\ {"at", "feed", "todo", "counts"} \subseteq DOMAIN polyScan'
          /\ polyScan'.at = "exits" /\ polyScan'.feed = polyScan.feed
          /\ polyScan'.todo = polyScan.todo \ {p.id}
      BY <1>1 DEF PolyInv, ScanSound
    <2>2. ASSUME NEW q \in poly'.open, q.id \in polyScan'.todo
          PROVE  q.market \in DOMAIN polyScan'.feed
      <3>1. q \in poly.open /\ q.id \in polyScan.todo
        BY <1>4, <1>10, <2>1, <2>2
      <3> QED
        BY <2>1, <3>1 DEF PolyInv, ScanSound
    <2> QED
      BY <2>1, <2>2 DEF PolyInv, ScanSound
  <1>12. AddsUp(polySaved)'
    BY <1>1 DEF PolyInv
  <1>13. AddsUp(poly)'
    BY <1>10
  <1> QED
    BY <1>11, <1>12, <1>13 DEF PolyInv

LEMMA EnterKeeps ==
    ASSUME PolyInv, NEW o \in Opportunities, EnterPosition(o)
    PROVE  PolyInv'
  <1> DEFINE price == PriceOf(polyScan.feed[o.market], o.side)
  <1>1. o.market \in DOMAIN polyScan.feed
    BY DEF Opportunities
  <1>2. price \in Nat \ {0}
    <2>1. polyScan.feed[o.market] \in PolyReadings
      BY <1>1 DEF PolyInv, ScanSound
    <2>2. <<o.primary, o.side>> \in Signals(polyScan.feed[o.market])
      BY DEF EnterPosition, IsOpportunity
    <2> QED
      BY <2>1, <2>2, PolyAmounts, PricesAreNat
  <1> HIDE DEF price
  <1>3. PICK size \in Kelly :
           poly' = [poly EXCEPT !.cash = @ - size, !.trades = @ + 1,
              !.open = @ \cup {[id |-> poly.trades + 1, market |-> o.market,
                 side |-> o.side, entry |-> price, price |-> price, size |-> size,
                 signals |-> Agreeing(o), day |-> polyDay]}]
    BY DEF EnterPosition, price
  <1> DEFINE n == [id |-> poly.trades + 1, market |-> o.market,
                   side |-> o.side, entry |-> price, price |-> price, size |-> size,
                   signals |-> Agreeing(o), day |-> polyDay]
  <1>4. size \in Nat
    BY PolyAmounts DEF Kelly
  <1>5. StakeShape(n) /\ n.id = poly.trades + 1 /\ n.market = o.market /\ n.size = size
    BY <1>2, <1>4 DEF StakeShape
  <1>6. \A q \in poly.open : q.market # o.market
    BY DEF EnterPosition, MayEnter
  <1>7. poly' = [poly EXCEPT !.cash = @ - size, !.trades = @ + 1, !.open = @ \cup {n}]
    BY <1>3
  <1> HIDE DEF n
  <1>8. /\ PolyBook(poly') /\ poly'.open = poly.open \cup {n}
        /\ poly'.trades = poly.trades + 1 /\ poly'.cash = poly.cash - n.size
        /\ poly'.realized = poly.realized
    BY <1>5, <1>7 DEF PolyInv, AddsUp, PolyBook
  <1>9. AddsUp(poly')
    BY <1>5, <1>6, <1>8, EntryAddsUp DEF PolyInv
  <1>10. /\ polyScan.at = "entries" /\ polyScan.todo = {}
         /\ {"at", "feed", "todo", "counts"} \subseteq DOMAIN polyScan'
         /\ polyScan'.at = "entries" /\ polyScan'.feed = polyScan.feed /\ polyScan'.todo = {}
    BY DEF EnterPosition, PolyInv, ScanSound
  <1>11. ScanSound'
    BY <1>10 DEF PolyInv, ScanSound
  <1>12. AddsUp(polySaved)'
    BY DEF EnterPosition, PolyInv
  <1>13. AddsUp(poly)'
    BY <1>9
  <1> QED
    BY <1>11, <1>12, <1>13 DEF PolyInv

\* What is left changes no amount and no scan.
LEMMA RestKeeps ==
    ASSUME PolyInv, PositionsDone \/ ResetKill \/ NextDay \/ UNCHANGED polyVars
    PROVE  PolyInv'
  <1>1. CASE ResetKill
    <2>1. /\ PolyBook(poly') /\ poly'.open = poly.open /\ poly'.trades = poly.trades
          /\ poly'.cash = poly.cash /\ poly'.realized = poly.realized
      BY <1>1 DEF ResetKill, PolyInv, AddsUp, PolyBook
    <2>2. AddsUp(poly')
      BY <2>1, SameSum DEF PolyInv
    <2>3. polySaved' = polySaved \/ polySaved' = poly'
      BY <1>1 DEF ResetKill
    <2>4. AddsUp(polySaved)' /\ AddsUp(poly)'
      BY <2>2, <2>3 DEF PolyInv
    <2>5. ScanSound'
      BY <1>1, <2>1 DEF ResetKill, PolyInv, ScanSound
    <2> QED
      BY <2>4, <2>5 DEF PolyInv
  <1>2. CASE PositionsDone \/ NextDay \/ UNCHANGED polyVars
    <2>1. UNCHANGED <<poly, polySaved>>
      BY <1>2 DEF PositionsDone, NextDay, polyVars
    <2>2. ScanSound'
      BY <1>2 DEF PositionsDone, NextDay, polyVars, PolyInv, ScanSound
    <2> QED
      BY <2>1, <2>2 DEF PolyInv
  <1> QED
    BY <1>1, <1>2

\* For any markets, readings, stakes and number of trades: what the bot has in
\* cash and in open positions is what it began with and what it won, in memory and
\* in Redis, and no market is bet on twice at once (_maybe_enter, _close_position,
\* _resolve_position, _save_state).
THEOREM StakesConservedHolds == PolySpec => []StakesConserved
  <1>1. PolyInv /\ [PolyNext]_polyVars => PolyInv'
    BY ScanKeeps, FetchKeeps, UpdateKeeps, EnterKeeps, RestKeeps DEF PolyNext
  <1>2. PolyInv => StakesConserved
    <2> SUFFICES ASSUME PolyInv, NEW b \in {poly, polySaved}
                 PROVE  /\ b.cash + MapThenSumSet(LAMBDA p : p.size, b.open)
                             = PolyBankroll + b.realized
                        /\ \A p, q \in b.open : p.market = q.market => p = q
      BY DEF StakesConserved
    <2>1. AddsUp(b)
      BY DEF PolyInv
    <2>2. b.cash + Stakes(b.open) = PolyBankroll + b.realized
      BY <2>1 DEF AddsUp
    <2> QED
      BY <2>1, <2>2 DEF AddsUp, Stakes
  <1> QED
    BY PolyInitially, <1>1, <1>2, PTL DEF PolySpec
(***************************************************************************)
(* The portfolio ledger.  Projections and snapshot add up the same amounts *)
(* over differently chosen records, and nothing in the ledger is younger   *)
(* than the snapshot's moment.                                             *)
(***************************************************************************)
\* Elements of weight zero may be left out of a sum.
LEMMA TotalSupport ==
    ASSUME NEW w, NEW v, NEW S, IsFiniteSet(S), NEW T \in SUBSET S,
           \A x \in S : w[x] \in Int, \A x \in T : v[x] = w[x], \A x \in S \ T : w[x] = 0
    PROVE  Total(w, S) = Total(v, T)
  <1> DEFINE Bad == {s \in SUBSET S : Total(w, s) # Total(w, s \cap T)}
  <1>1. {} \notin Bad
    OBVIOUS
  <1>2. ASSUME NEW s \in SUBSET S, s # {}, s \ {Pick(s)} \notin Bad PROVE s \notin Bad
    <2> DEFINE p == Pick(s)
    <2>1. IsFiniteSet(s) /\ p \in s /\ p \in S /\ s \ {p} \in SUBSET S
      BY <1>2, PickIn, FS_Subset
    <2>2. Total(w, s) = w[p] + Total(w, s \ {p})
      BY <1>2, <2>1, TotalPick
    <2>3. Total(w, s \ {p}) = Total(w, (s \ {p}) \cap T)
      BY <1>2, <2>1
    <2> HIDE DEF p
    <2>4. Total(w, (s \ {p}) \cap T) \in Int
      <3>1. IsFiniteSet((s \ {p}) \cap T)
        BY <2>1, FS_Subset, (s \ {p}) \cap T \subseteq s
      <3> QED BY <3>1, TotalType
    <2>5. CASE p \in T
      <3>1. (s \cap T) \ {p} = (s \ {p}) \cap T /\ p \in s \cap T
        BY <2>1, <2>5
      <3>2. IsFiniteSet(s \cap T) /\ \A x \in s \cap T : w[x] \in Int
        BY <2>1, FS_Subset
      <3>3. Total(w, s \cap T) = w[p] + Total(w, (s \cap T) \ {p})
        BY <3>1, <3>2, TotalWithout
      <3> QED BY <2>2, <2>3, <3>1, <3>3
    <2>6. CASE p \notin T
      <3>1. s \cap T = (s \ {p}) \cap T /\ w[p] = 0
        BY <2>1, <2>6
      <3>2. Total(w, s) = Total(w, (s \ {p}) \cap T)
        <4> DEFINE rest == Total(w, (s \ {p}) \cap T)
        <4>1. rest \in Int /\ Total(w, s) = 0 + rest
          BY <2>2, <2>3, <2>4, <3>1
        <4> HIDE DEF rest
        <4>2. Total(w, s) = rest
          BY <4>1
        <4> QED BY <4>2 DEF rest
      <3> QED BY <3>1, <3>2
    <2> QED BY <2>5, <2>6
  <1>3. Bad = {}
    BY <1>1, <1>2, NoneFails
  <1>4. Total(w, S) = Total(w, T)
    <2>1. S \cap T = T
      OBVIOUS
    <2> QED BY <1>3, <2>1
  <1>5. IsFiniteSet(T)
    BY FS_Subset
  <1>6. Total(v, T) = Total(w, T)
    BY <1>5, TotalSame
  <1> QED
    BY <1>4, <1>6

LEMMA SumIsTotal == ASSUME NEW w PROVE SumOf(w) = Total(w, DOMAIN w)
  BY DEF SumOf, Total

\* Amounts are integers, and days natural numbers or unknown.
TradeShape(t) ==
    /\ t.quantity \in Int /\ t.entry \in Int /\ t.exit \in Int
    /\ t.fee \in Int /\ t.direction \in Int
    /\ t.opened \in Nat /\ t.closed \in Nat \cup {NoValue}

RowShape(row) ==
    /\ row.estimated \in Int /\ row.realized \in Int /\ row.cost \in Int
    /\ row.created \in Nat \cup {NoValue} /\ row.updated \in Nat \cup {NoValue}

ResultShape(r) ==
    /\ r.units \in Int /\ r.price \in Int /\ r.payout \in Int /\ r.cost \in Int
    /\ r.observed \in Nat /\ r.settled \in Nat

LedgerConstants ==
    /\ Tasks \in Nat
    /\ \A t \in Trades : TradeShape(t)
    /\ \A r \in AlphaResults : ResultShape(r)
    /\ \A row \in TaskStates : RowShape(row)
    /\ \A a \in Accounts : a.starting \in Int

\* What is recorded happened before now, and closed no earlier than it opened.
TradeSound(t) ==
    /\ TradeShape(t)
    /\ t.opened <= today /\ t.closed <= today
    /\ t.status = "closed" => t.closed # NoValue
    /\ t.closed # NoValue => t.opened <= t.closed

RewardSound(r) ==
    /\ r.estimated \in Int /\ r.realized \in Int /\ r.cost \in Int
    /\ r.updated \in Nat /\ r.updated <= today

LedgerInv ==
    /\ today \in Nat
    /\ DOMAIN tracker = 1 .. Tasks
    /\ \A i \in 1 .. Tasks : RowShape(tracker[i]) /\ Dated(tracker[i])
    /\ IsFiniteSet(DOMAIN trades) /\ \A i \in DOMAIN trades : TradeSound(trades[i])
    /\ IsFiniteSet(DOMAIN rewards) /\ \A i \in DOMAIN rewards : RewardSound(rewards[i])
    /\ \A a \in Range(accounts) : a.starting \in Int

LEMMA LedgerStarts == LedgerConstants /\ LedgerInit => LedgerInv
  <1> SUFFICES ASSUME LedgerConstants, LedgerInit PROVE LedgerInv
    OBVIOUS
  <1>1. DOMAIN trades = {} /\ DOMAIN rewards = {} /\ DOMAIN accounts = {}
    BY DEF LedgerInit
  <1>2. IsFiniteSet(DOMAIN trades) /\ IsFiniteSet(DOMAIN rewards)
    BY <1>1, FS_EmptySet
  <1>3. DOMAIN tracker = 1 .. Tasks /\ \A i \in 1 .. Tasks : RowShape(tracker[i]) /\ Dated(tracker[i])
    BY DEF LedgerInit, LedgerConstants
  <1> QED
    BY <1>1, <1>2, <1>3 DEF LedgerInv, LedgerInit, Range

LEMMA RecordKeeps ==
    ASSUME LedgerInv, NEW t, TradeShape(t), RecordTrade(t)
    PROVE  LedgerInv'
  <1>1. TradeSound(t)
    BY DEF RecordTrade, TradeSound, ValidTrade, TradeShape, NoValue, LedgerInv
  <1>2. /\ IsFiniteSet(DOMAIN trades')
        /\ \A i \in DOMAIN trades' : TradeSound(trades'[i])
    <2>1. trades' = With(trades, t.id, t)
      BY DEF RecordTrade
    <2>2. /\ DOMAIN trades' = DOMAIN trades \cup {t.id}
          /\ \A i \in DOMAIN trades' : trades'[i] = IF i = t.id THEN t ELSE trades[i]
      BY <2>1 DEF With
    <2>3. \A i \in DOMAIN trades : TradeSound(trades[i])
      BY DEF LedgerInv
    <2> QED BY <1>1, <2>2, <2>3, FS_AddElement DEF LedgerInv
  <1> QED
    BY <1>2 DEF RecordTrade, LedgerInv, TradeSound, RewardSound, Dated

LEMMA AlphaKeeps ==
    ASSUME LedgerInv, NEW r, ResultShape(r), RecordAlpha(r)
    PROVE  LedgerInv'
  <1>1. TradeShape(AlphaTrade(r))
    <2>1. r.cost * r.units \in Int
      BY DEF ResultShape
    <2> QED BY <2>1 DEF AlphaTrade, ResultShape, TradeShape
  <1> QED
    BY <1>1, RecordKeeps DEF RecordAlpha

LEMMA RegisterKeeps ==
    ASSUME LedgerInv, NEW a, a.starting \in Int, RegisterAccount(a)
    PROVE  LedgerInv'
  <1>1. \A b \in Range(accounts') : b.starting \in Int
    BY DEF RegisterAccount, With, LedgerInv, Range
  <1> QED
    BY <1>1 DEF RegisterAccount, LedgerInv, TradeSound, RewardSound, Dated

LEMMA SyncKeeps == ASSUME LedgerConstants, LedgerInv, SyncTracker PROVE LedgerInv'
  <1>1. \A i \in InSync : i \in 1 .. Tasks /\ RewardSound(TaskToReward(tracker[i]))
    BY DEF InSync, TaskToReward, RewardSound, LedgerInv, RowShape, Dated, NoValue
  <1>2. IsFiniteSet(InSync \cup DOMAIN rewards)
    <2>1. IsFiniteSet(1 .. Tasks)
      BY FS_Interval DEF LedgerConstants
    <2>2. IsFiniteSet(InSync)
      BY <2>1, <1>1, FS_Subset
    <2> QED BY <2>2, FS_Union DEF LedgerInv
  <1>3. /\ DOMAIN rewards' = InSync \cup DOMAIN rewards
        /\ \A i \in DOMAIN rewards' : RewardSound(rewards'[i])
    BY <1>1 DEF SyncTracker, LedgerInv
  <1> QED
    BY <1>2, <1>3 DEF SyncTracker, LedgerInv, TradeSound, RewardSound, Dated

LEMMA MovesKeep ==
    ASSUME LedgerInv, NEW i \in 1 .. Tasks, NEW row, RowShape(row), TaskMoves(i, row)
    PROVE  LedgerInv'
  BY DEF TaskMoves, LedgerInv, TradeSound, RewardSound, Dated

LEMMA DayKeeps == ASSUME LedgerInv, LedgerDay PROVE LedgerInv'
  <1>1. today \in Nat /\ today' = today + 1
    BY DEF LedgerDay, LedgerInv
  <1>2. ASSUME NEW d \in Nat \cup {NoValue}, d <= today PROVE d <= today'
    BY <1>1, <1>2 DEF NoValue
  <1>3. \A i \in 1 .. Tasks : RowShape(tracker[i]) /\ Dated(tracker[i])'
    BY <1>2 DEF LedgerDay, LedgerInv, RowShape, Dated
  <1>4. \A i \in DOMAIN trades : TradeSound(trades[i])'
    BY <1>2 DEF LedgerDay, LedgerInv, TradeSound, TradeShape
  <1>5. \A i \in DOMAIN rewards : RewardSound(rewards[i])'
    BY <1>2 DEF LedgerDay, LedgerInv, RewardSound
  <1> QED
    BY <1>1, <1>3, <1>4, <1>5 DEF LedgerDay, LedgerInv

\* What is read back is what was exported.
LEMMA ParsedIs ==
    /\ DOMAIN Parsed("paper_trade") = DOMAIN trades
    /\ \A i \in DOMAIN trades : Parsed("paper_trade")[i] = trades[i]
    /\ DOMAIN Parsed("reward") = DOMAIN rewards
    /\ \A i \in DOMAIN rewards : Parsed("reward")[i] = rewards[i]
  <1> DEFINE told == {e \in Exported : e.type = "paper_trade"}
             earned == {e \in Exported : e.type = "reward"}
  <1>0. ASSUME NEW e \in Exported
        PROVE  \/ e.type = "paper_trade" /\ e.id \in DOMAIN trades /\ e.record = trades[e.id]
               \/ e.type = "reward" /\ e.id \in DOMAIN rewards /\ e.record = rewards[e.id]
    BY DEF Exported
  <1>1. \A e \in told : e.id \in DOMAIN trades /\ e.record = trades[e.id]
    BY <1>0
  <1>2. ASSUME NEW i \in DOMAIN trades PROVE \E e \in told : e.id = i
    <2> DEFINE e == [type |-> "paper_trade", id |-> i, record |-> trades[i]]
    <2>1. e \in Exported
      BY DEF Exported
    <2>2. e.type = "paper_trade" /\ e.id = i
      OBVIOUS
    <2> QED BY <2>1, <2>2
  <1>3. \A e \in earned : e.id \in DOMAIN rewards /\ e.record = rewards[e.id]
    BY <1>0
  <1>4. ASSUME NEW i \in DOMAIN rewards PROVE \E e \in earned : e.id = i
    <2> DEFINE e == [type |-> "reward", id |-> i, record |-> rewards[i]]
    <2>1. e \in Exported
      BY DEF Exported
    <2>2. e.type = "reward" /\ e.id = i
      OBVIOUS
    <2> QED BY <2>1, <2>2
  <1>5. /\ Parsed("paper_trade") = [i \in {e.id : e \in told} |-> (CHOOSE e \in told : e.id = i).record]
        /\ Parsed("reward") = [i \in {e.id : e \in earned} |-> (CHOOSE e \in earned : e.id = i).record]
    BY DEF Parsed
  <1> HIDE DEF told, earned
  <1>6. {e.id : e \in told} = DOMAIN trades /\ {e.id : e \in earned} = DOMAIN rewards
    BY <1>1, <1>2, <1>3, <1>4
  <1>7. ASSUME NEW i \in DOMAIN trades PROVE (CHOOSE e \in told : e.id = i).record = trades[i]
    BY <1>1, <1>2
  <1>8. ASSUME NEW i \in DOMAIN rewards PROVE (CHOOSE e \in earned : e.id = i).record = rewards[i]
    BY <1>3, <1>4
  <1> QED
    BY <1>5, <1>6, <1>7, <1>8

LEMMA ReplayKeeps == ASSUME LedgerInv, Replay PROVE LedgerInv'
  <1>1. Range(accounts') = {}
    BY DEF Replay, Range
  <1>2. /\ DOMAIN trades' = DOMAIN trades /\ \A i \in DOMAIN trades : trades'[i] = trades[i]
        /\ DOMAIN rewards' = DOMAIN rewards /\ \A i \in DOMAIN rewards : rewards'[i] = rewards[i]
    BY ParsedIs DEF Replay
  <1>3. UNCHANGED <<today, tracker>>
    BY DEF Replay
  <1> QED
    BY <1>1, <1>2, <1>3 DEF LedgerInv, TradeSound, RewardSound, Dated

LEMMA LedgerKeeps ==
    ASSUME LedgerConstants, LedgerInv, LedgerNext \/ UNCHANGED ledgerVars
    PROVE  LedgerInv'
  <1>1. CASE UNCHANGED ledgerVars
    BY <1>1 DEF ledgerVars, LedgerInv, TradeSound, RewardSound, Dated
  <1>2. ASSUME NEW t \in Trades, RecordTrade(t) PROVE LedgerInv'
    BY <1>2, RecordKeeps DEF LedgerConstants
  <1>3. ASSUME NEW r \in AlphaResults, RecordAlpha(r) PROVE LedgerInv'
    BY <1>3, AlphaKeeps DEF LedgerConstants
  <1>4. ASSUME NEW a \in Accounts, RegisterAccount(a) PROVE LedgerInv'
    BY <1>4, RegisterKeeps DEF LedgerConstants
  <1>5. ASSUME NEW i \in 1 .. Tasks, NEW row \in TaskStates, TaskMoves(i, row) PROVE LedgerInv'
    BY <1>5, MovesKeep DEF LedgerConstants
  <1> QED
    BY <1>1, <1>2, <1>3, <1>4, <1>5, SyncKeeps, ReplayKeeps, DayKeeps DEF LedgerNext
\* The snapshot is taken at the last event, which none is younger than.
LEMMA LatestCovers ==
    ASSUME LedgerInv
    PROVE  /\ LatestEvent \in Nat
           /\ \A i \in DOMAIN trades : /\ trades[i].opened <= LatestEvent
                                       /\ trades[i].closed <= LatestEvent
           /\ \A i \in DOMAIN rewards : rewards[i].updated <= LatestEvent
  <1> DEFINE E == {0} \cup EventDays
             U == {u \in Nat : \A d \in E : d <= u}
  <1>1. \A d \in EventDays : d \in Nat /\ d <= today
    <2>1. \A t \in AllTrades : TradeSound(t)
      BY DEF AllTrades, Range, LedgerInv
    <2>2. \A r \in AllRewards : RewardSound(r)
      BY DEF AllRewards, Range, LedgerInv
    <2>3. ASSUME NEW t \in AllTrades
          PROVE  LET d == IF t.closed = NoValue THEN t.opened ELSE t.closed
                 IN  d \in Nat /\ d <= today
      BY <2>1, <2>3 DEF TradeSound, TradeShape
    <2>4. ASSUME NEW r \in AllRewards PROVE r.updated \in Nat /\ r.updated <= today
      BY <2>2, <2>4 DEF RewardSound
    <2> QED BY <2>3, <2>4 DEF EventDays
  <1>2. today \in Nat
    BY DEF LedgerInv
  <1>3. 0 \in E /\ \A d \in E : d \in Nat /\ d <= today
    BY <1>1, <1>2
  <1>4. LatestEvent = Max(E)
    BY DEF LatestEvent
  <1> HIDE DEF E
  <1>5. U \subseteq Nat /\ today \in U
    BY <1>2, <1>3
  <1>6. PICK u \in U : \A v \in U : u <= v
    BY <1>5, LeastNat
  <1>7. u \in E
    <2> SUFFICES ASSUME u \notin E PROVE FALSE
      OBVIOUS
    <2>1. u \in Nat /\ u # 0 /\ \A d \in E : d <= u /\ d # u
      BY <1>3
    <2>2. u - 1 \in Nat /\ \A d \in E : d <= u - 1
      BY <2>1, <1>3
    <2>3. u - 1 \in U
      BY <2>2
    <2> QED BY <2>1, <2>3, <1>6
  <1>8. \E x \in E : \A y \in E : x >= y
    BY <1>3, <1>6, <1>7
  <1>9. Max(E) \in E /\ \A y \in E : Max(E) >= y
    BY <1>8 DEF Max
  <1>10. \A i \in DOMAIN trades : trades[i] \in AllTrades
    BY DEF AllTrades, Range
  <1>11. \A i \in DOMAIN rewards : rewards[i] \in AllRewards
    BY DEF AllRewards, Range
  <1>12. LatestEvent \in Nat /\ \A y \in E : y <= LatestEvent
    BY <1>3, <1>4, <1>9
  <1>13. ASSUME NEW i \in DOMAIN trades
         PROVE  trades[i].opened <= LatestEvent /\ trades[i].closed <= LatestEvent
    <2> DEFINE t == trades[i]
    <2>1. (IF t.closed = NoValue THEN t.opened ELSE t.closed) \in E
      BY <1>10 DEF E, EventDays
    <2>2. TradeSound(t)
      BY DEF LedgerInv
    <2>3. CASE t.closed = NoValue
      <3>1. t.opened <= LatestEvent
        BY <2>1, <2>3, <1>12
      <3>2. t.closed <= LatestEvent
        BY <2>3, <1>12 DEF NoValue
      <3> QED BY <3>1, <3>2
    <2>4. CASE t.closed # NoValue
      <3>1. t.closed <= LatestEvent
        BY <2>1, <2>4, <1>12
      <3>2. t.closed \in Nat /\ t.opened \in Nat /\ t.opened <= t.closed
        BY <2>2, <2>4 DEF TradeSound, TradeShape
      <3>3. t.opened <= LatestEvent
        <4> HIDE DEF t
        <4> QED BY <3>1, <3>2, <1>12
      <3> QED BY <3>1, <3>3
    <2> QED BY <2>3, <2>4
  <1>14. ASSUME NEW i \in DOMAIN rewards PROVE rewards[i].updated <= LatestEvent
    BY <1>11, <1>12 DEF E, EventDays
  <1> QED
    BY <1>12, <1>13, <1>14
\* What the records contribute to the sums is a number.
LEMMA AmountsType ==
    ASSUME LedgerInv
    PROVE  /\ \A i \in DOMAIN trades : NetPnl(trades[i]) \in Int /\ Reserve(trades[i]) \in Int
           /\ \A i \in DOMAIN rewards : /\ RealizedNet(rewards[i]) \in Int
                                        /\ rewards[i].estimated \in Int
  <1>1. ASSUME NEW q \in Int, NEW e \in Int, NEW x \in Int, NEW f \in Int, NEW d \in Int
        PROVE  (x - e) * q * d - f \in Int /\ q * e + f \in Int
    <2>1. (x - e) * q \in Int /\ q * e \in Int
      OBVIOUS
    <2>2. (x - e) * q * d \in Int
      BY <2>1
    <2> QED BY <2>1, <2>2
  <1>2. ASSUME NEW i \in DOMAIN trades
        PROVE  NetPnl(trades[i]) \in Int /\ Reserve(trades[i]) \in Int
    <2> DEFINE t == trades[i]
    <2>1. t.quantity \in Int /\ t.entry \in Int /\ t.exit \in Int /\ t.fee \in Int
          /\ t.direction \in Int
      BY DEF LedgerInv, TradeSound, TradeShape
    <2>2. NetPnl(t) = (t.exit - t.entry) * t.quantity * t.direction - t.fee
          /\ Reserve(t) = t.quantity * t.entry + t.fee
      BY DEF NetPnl, GrossPnl, Cost, Reserve, Notional
    <2> QED BY <2>1, <2>2, <1>1
  <1>3. ASSUME NEW i \in DOMAIN rewards
        PROVE  RealizedNet(rewards[i]) \in Int /\ rewards[i].estimated \in Int
    BY DEF LedgerInv, RewardSound, RealizedNet
  <1> QED BY <1>2, <1>3

\* Sums over functions on a set.
LEMMA SumSupport ==
    ASSUME NEW w, NEW v, IsFiniteSet(DOMAIN w), DOMAIN v \subseteq DOMAIN w,
           \A x \in DOMAIN w : w[x] \in Int, \A x \in DOMAIN v : v[x] = w[x],
           \A x \in DOMAIN w \ DOMAIN v : w[x] = 0
    PROVE  SumOf(w) = SumOf(v)
  <1>1. Total(w, DOMAIN w) = Total(v, DOMAIN v)
    BY TotalSupport
  <1> QED BY <1>1, SumIsTotal

LEMMA SumType ==
    ASSUME NEW w, IsFiniteSet(DOMAIN w), \A x \in DOMAIN w : w[x] \in Int
    PROVE  SumOf(w) \in Int
  BY SumIsTotal, TotalType

\* No closed trade of a currency is too young for the snapshot, and none counts
\* as pending.
LEMMA TradesAgree ==
    ASSUME LedgerInv, NEW c
    PROVE  LET m == Metrics(LatestEvent, 0, {r \in AllRecords : r.currency = c})
               closed == {i \in DOMAIN trades : trades[i].status = "closed"} IN
           /\ m.realized =
                SumOf([i \in closed |-> AmountIf(TradeProjection(trades[i]), c, "realized")])
           /\ SumOf([i \in closed |-> AmountIf(TradeProjection(trades[i]), c, "pending")]) = 0
           /\ m.realized \in Int
  <1> DEFINE group == {r \in AllRecords : r.currency = c}
             seen == {i \in DOMAIN trades : trades[i] \in group /\ trades[i].opened <= LatestEvent}
             mine == {i \in seen : IsClosed(trades[i], LatestEvent)}
             closed == {i \in DOMAIN trades : trades[i].status = "closed"}
             v == [i \in mine |-> NetPnl(trades[i])]
             w == [i \in closed |-> AmountIf(TradeProjection(trades[i]), c, "realized")]
             z == [i \in closed |-> AmountIf(TradeProjection(trades[i]), c, "pending")]
  <1>1. Metrics(LatestEvent, 0, group).realized = SumOf(v)
    BY DEF Metrics
  <1>2. \A i \in DOMAIN trades : trades[i] \in group <=> trades[i].currency = c
    BY DEF AllRecords, AllTrades, Range
  <1> HIDE DEF group
  <1>3. \A i \in closed : i \in mine <=> trades[i].currency = c
    BY <1>2, LatestCovers DEF IsClosed
  <1>4. mine \subseteq closed
    BY DEF IsClosed
  <1>5. IsFiniteSet(closed)
    BY FS_Subset DEF LedgerInv
  <1>6. \A i \in closed : w[i] = IF trades[i].currency = c THEN NetPnl(trades[i]) ELSE 0
    BY DEF AmountIf, TradeProjection
  <1>7. \A i \in closed : z[i] = 0
    BY DEF AmountIf, TradeProjection
  <1>8. \A i \in closed : NetPnl(trades[i]) \in Int
    BY AmountsType
  <1>9. DOMAIN v = mine /\ DOMAIN w = closed /\ DOMAIN z = closed
    OBVIOUS
  <1>10. \A i \in mine : v[i] = NetPnl(trades[i])
    OBVIOUS
  <1> HIDE DEF v, w, z, seen, mine, closed
  <1>11. SumOf(w) = SumOf(v)
    BY <1>3, <1>4, <1>5, <1>6, <1>8, <1>9, <1>10, SumSupport
  <1>12. SumOf(z) = 0
    <2> DEFINE none == [i \in {} |-> 0]
    <2>1. DOMAIN none = {}
      OBVIOUS
    <2> HIDE DEF none
    <2>2. SumOf(none) = 0
      BY <2>1, SumIsTotal, TotalEmpty
    <2>3. SumOf(z) = SumOf(none)
      BY <1>5, <1>7, <1>9, <2>1, SumSupport
    <2> QED BY <2>2, <2>3
  <1>13. SumOf(v) \in Int
    <2>1. IsFiniteSet(mine)
      BY <1>4, <1>5, FS_Subset
    <2> QED BY <2>1, <1>4, <1>8, <1>9, <1>10, SumType
  <1> QED
    BY <1>1, <1>11, <1>12, <1>13 DEF w, z, closed, group

\* The same of the rewards, realized and pending.
LEMMA RewardsAgree ==
    ASSUME LedgerInv, NEW c
    PROVE  LET m == Metrics(LatestEvent, 0, {r \in AllRecords : r.currency = c}) IN
           /\ m.rewardsNet = SumOf([i \in DOMAIN rewards |->
                                      AmountIf(RewardProjection(rewards[i]), c, "realized")])
           /\ m.pending = SumOf([i \in DOMAIN rewards |->
                                   AmountIf(RewardProjection(rewards[i]), c, "pending")])
           /\ m.rewardsNet \in Int /\ m.pending \in Int
  <1> DEFINE group == {r \in AllRecords : r.currency = c}
             gained == {i \in DOMAIN rewards : rewards[i] \in group
                                               /\ rewards[i].updated <= LatestEvent}
             got == {i \in gained : IsRealized(rewards[i])}
             due == {i \in gained : IsEstimated(rewards[i])}
             g == [i \in got |-> RealizedNet(rewards[i])]
             d == [i \in due |-> rewards[i].estimated]
             w == [i \in DOMAIN rewards |-> AmountIf(RewardProjection(rewards[i]), c, "realized")]
             z == [i \in DOMAIN rewards |-> AmountIf(RewardProjection(rewards[i]), c, "pending")]
  <1>1. /\ Metrics(LatestEvent, 0, group).rewardsNet = SumOf(g)
        /\ Metrics(LatestEvent, 0, group).pending = SumOf(d)
    BY DEF Metrics
  <1>2. \A i \in DOMAIN rewards : rewards[i] \in group <=> rewards[i].currency = c
    BY DEF AllRecords, AllRewards, Range
  <1> HIDE DEF group
  <1>3. \A i \in DOMAIN rewards :
           /\ i \in got <=> rewards[i].currency = c /\ IsRealized(rewards[i])
           /\ i \in due <=> rewards[i].currency = c /\ IsEstimated(rewards[i])
    BY <1>2, LatestCovers
  <1>4. got \subseteq DOMAIN rewards /\ due \subseteq DOMAIN rewards
    OBVIOUS
  <1>5. IsFiniteSet(DOMAIN rewards)
    BY DEF LedgerInv
  <1>6. \A i \in DOMAIN rewards : w[i] = IF i \in got THEN RealizedNet(rewards[i]) ELSE 0
    <2> HIDE DEF got
    <2> QED BY <1>3 DEF AmountIf, RewardProjection
  <1>7. \A r : ~(IsRealized(r) /\ IsEstimated(r))
    BY DEF IsRealized, IsEstimated, IsPending
  <1>8. \A i \in DOMAIN rewards : z[i] = IF i \in due THEN rewards[i].estimated ELSE 0
    <2> HIDE DEF due
    <2> QED BY <1>3, <1>7 DEF AmountIf, RewardProjection
  <1>9. \A i \in DOMAIN rewards : RealizedNet(rewards[i]) \in Int /\ rewards[i].estimated \in Int
    BY AmountsType
  <1>10. /\ DOMAIN g = got /\ DOMAIN d = due
         /\ DOMAIN w = DOMAIN rewards /\ DOMAIN z = DOMAIN rewards
         /\ \A i \in got : g[i] = RealizedNet(rewards[i])
         /\ \A i \in due : d[i] = rewards[i].estimated
    OBVIOUS
  <1> HIDE DEF g, d, w, z, got, due, gained
  <1>11. SumOf(w) = SumOf(g)
    BY <1>4, <1>5, <1>6, <1>9, <1>10, SumSupport
  <1>12. SumOf(z) = SumOf(d)
    BY <1>4, <1>5, <1>8, <1>9, <1>10, SumSupport
  <1>13. IsFiniteSet(got) /\ IsFiniteSet(due)
    BY <1>4, <1>5, FS_Subset
  <1>14. SumOf(g) \in Int
    BY <1>13, <1>4, <1>9, <1>10, SumType
  <1>15. SumOf(d) \in Int
    BY <1>13, <1>4, <1>9, <1>10, SumType
  <1> QED
    BY <1>1, <1>11, <1>12, <1>14, <1>15 DEF w, z, group

LEMMA CurrenciesAgree == ASSUME LedgerInv, NEW c PROVE CurrencyAgrees(c)
  <1> DEFINE m == Metrics(LatestEvent, 0, {r \in AllRecords : r.currency = c})
             closed == {i \in DOMAIN trades : trades[i].status = "closed"}
             sold(v) == SumOf([i \in closed |-> AmountIf(TradeProjection(trades[i]), c, v)])
             earned(v) == SumOf([i \in DOMAIN rewards |->
                                   AmountIf(RewardProjection(rewards[i]), c, v)])
  <1>1. m.realized = sold("realized") /\ sold("pending") = 0 /\ m.realized \in Int
    BY TradesAgree
  <1>2. m.rewardsNet = earned("realized") /\ m.pending = earned("pending") /\ m.pending \in Int
    BY RewardsAgree
  <1>3. \A v : Projected(c, v) = sold(v) + earned(v)
    BY DEF Projected
  <1>4. CurrencyAgrees(c) <=> /\ Projected(c, "realized") = m.realized + m.rewardsNet
                              /\ Projected(c, "pending") = m.pending
    BY DEF CurrencyAgrees
  <1> HIDE DEF m, sold, earned
  <1> QED
    BY <1>1, <1>2, <1>3, <1>4

\* What an account has is free or in its open trades.
LEMMA AccountsAgree ==
    ASSUME LedgerInv, NEW a, a.starting \in Int, MatchesAll(a)
    PROVE  AccountAgrees(a)
  <1> DEFINE L == LatestEvent
             group == {r \in AllRecords : r.scope = a.scope}
             open == {i \in DOMAIN trades : trades[i].scope = a.scope /\ IsOpen(trades[i], L)}
             seen == {i \in DOMAIN trades : trades[i] \in group /\ trades[i].opened <= L}
             scoped == {i \in DOMAIN trades : /\ trades[i].scope = a.scope
                                              /\ trades[i].currency = a.currency
                                              /\ trades[i].opened <= L}
             sold == {i \in scoped : IsClosed(trades[i], L)}
             reserved == {i \in scoped : IsOpen(trades[i], L)}
             R == SumOf([i \in sold |-> NetPnl(trades[i])])
             V == SumOf([i \in reserved |-> Reserve(trades[i])])
  <1>1. \A i \in DOMAIN trades : trades[i] \in AllTrades
    BY DEF AllTrades, Range
  <1>2. \A i \in DOMAIN trades : trades[i].scope = a.scope => trades[i].currency = a.currency
    BY <1>1 DEF MatchesAll
  <1>3. reserved = open
    BY <1>2 DEF IsOpen
  <1>4. \A i \in DOMAIN trades : trades[i] \in group <=> trades[i].scope = a.scope
    BY <1>1 DEF AllRecords
  <1>5. seen = scoped
    BY <1>2, <1>4
  <1>6. Capital(a, L).realized = R /\ Capital(a, L).reserved = V
    BY DEF Capital
  <1>7. Metrics(L, 0, group).realized = SumOf([i \in {j \in seen : IsClosed(trades[j], L)} |->
                                                 NetPnl(trades[i])])
    BY DEF Metrics
  <1>8. Metrics(L, 0, group).realized = R
    BY <1>5, <1>7
  <1>9. sold \subseteq DOMAIN trades /\ reserved \subseteq DOMAIN trades
    OBVIOUS
  <1>10. IsFiniteSet(sold) /\ IsFiniteSet(reserved)
    BY <1>9, FS_Subset DEF LedgerInv
  <1> HIDE DEF sold, reserved, scoped, seen
  <1>11. R \in Int
    BY <1>9, <1>10, AmountsType, SumType
  <1>12. V \in Int
    BY <1>9, <1>10, AmountsType, SumType
  <1>13. SumOf([i \in open |-> Reserve(trades[i])]) = V
    BY <1>3
  <1>14. Available(a, L) = a.starting + R - V
    BY <1>6 DEF Available
  <1>15. AccountAgrees(a) <=> Available(a, L) + SumOf([i \in open |-> Reserve(trades[i])])
                                = a.starting + Metrics(L, 0, group).realized
    BY DEF AccountAgrees
  <1> HIDE DEF R, V, open, group, L
  <1> QED
    BY <1>8, <1>11, <1>12, <1>13, <1>14, <1>15

\* No ledger's projections and snapshot disagree, for any trades, alpha results,
\* accounts and tracker rows, recorded, synchronized and replayed in any order.
THEOREM BooksAgreeHolds ==
    ASSUME LedgerConstants
    PROVE  LedgerSpec => []BooksAgree
  <1>1. LedgerInit => LedgerInv
    BY LedgerStarts
  <1>2. LedgerInv /\ [LedgerNext]_ledgerVars => LedgerInv'
    BY LedgerKeeps
  <1>3. LedgerInv => BooksAgree
    BY CurrenciesAgree, AccountsAgree DEF BooksAgree, LedgerInv
  <1> QED
    BY <1>1, <1>2, <1>3, PTL DEF LedgerSpec
(***************************************************************************)
(* What a decision is shown.  The clusters of wallets are sums again.      *)
(***************************************************************************)
\* Among finitely many numbers one is the greatest.
LEMMA GreatestNat ==
    ASSUME NEW S, IsFiniteSet(S), S # {}, NEW w, \A x \in S : w[x] \in Nat
    PROVE  \E m \in S : Max({w[x] : x \in S}) = w[m] /\ \A x \in S : w[x] <= w[m]
  <1> DEFINE Topped(s) == s = {} \/ \E m \in s : \A x \in s : w[x] <= w[m]
             Untopped == {s \in SUBSET S : ~Topped(s)}
  <1>1. {} \notin Untopped
    OBVIOUS
  <1>2. ASSUME NEW s \in SUBSET S, s # {}, s \ {Pick(s)} \notin Untopped PROVE s \notin Untopped
    <2> DEFINE p == Pick(s)
               rest == s \ {p}
    <2>1. p \in s
      BY <1>2, PickIn
    <2>2. Topped(rest)
      BY <1>2
    <2> HIDE DEF p
    <2>3. w[p] \in Nat /\ s = rest \cup {p} /\ \A x \in rest : w[x] \in Nat
      BY <2>1
    <2>4. CASE rest = {}
      <3>1. p \in s /\ \A x \in s : w[x] <= w[p]
        BY <2>3, <2>4
      <3> QED BY <3>1
    <2>5. CASE rest # {}
      <3>1. PICK m \in rest : \A x \in rest : w[x] <= w[m]
        BY <2>2, <2>5
      <3>2. w[m] \in Nat
        BY <2>3
      <3>3. CASE w[p] <= w[m]
        BY <3>1, <3>3, <2>3
      <3>4. CASE ~(w[p] <= w[m])
        <4>1. \A x \in rest : w[x] <= w[p]
          BY <3>1, <3>2, <3>4, <2>3
        <4>2. \A x \in s : w[x] <= w[p]
          BY <4>1, <2>3
        <4> QED BY <4>2, <2>1
      <3> QED BY <3>3, <3>4
    <2> QED BY <2>4, <2>5
  <1>3. Untopped = {}
    <2>1. Untopped \subseteq SUBSET S
      OBVIOUS
    <2> HIDE DEF Untopped
    <2>2. \A s \in SUBSET S : s # {} /\ s \ {Pick(s)} \notin Untopped => s \notin Untopped
      BY <1>2
    <2> QED BY <1>1, <2>1, <2>2, NoneFails
  <1>4. PICK m \in S : \A x \in S : w[x] <= w[m]
    BY <1>3
  <1> DEFINE values == {w[x] : x \in S}
  <1>5. w[m] \in values /\ values \subseteq Nat /\ \A v \in values : w[m] >= v
    BY <1>4
  <1>6. Max(values) = w[m]
    <2> DEFINE most == Max(values)
    <2>1. most \in values /\ \A v \in values : most >= v
      BY <1>5 DEF Max
    <2>2. most \in Nat /\ w[m] \in Nat /\ most >= w[m] /\ w[m] >= most
      <3> HIDE DEF most, values
      <3> QED BY <1>5, <2>1
    <2>3. most = w[m]
      <3> HIDE DEF most
      <3> QED BY <2>2
    <2> QED BY <2>3
  <1> QED BY <1>4, <1>6

\* The sum over two sets that share nothing.
LEMMA TotalUnion ==
    ASSUME NEW w, NEW S, NEW T, IsFiniteSet(S), IsFiniteSet(T), S \cap T = {},
           \A x \in S \cup T : w[x] \in Int
    PROVE  Total(w, S \cup T) = Total(w, S) + Total(w, T)
  <1> DEFINE Bad == {s \in SUBSET T : Total(w, S \cup s) # Total(w, S) + Total(w, s)}
  <1>1. {} \notin Bad
    <2>1. S \cup {} = S /\ Total(w, {}) = 0 /\ Total(w, S) \in Int
      BY TotalEmpty, TotalType
    <2> QED BY <2>1
  <1>2. ASSUME NEW s \in SUBSET T, s # {}, s \ {Pick(s)} \notin Bad PROVE s \notin Bad
    <2> DEFINE p == Pick(s)
               rest == s \ {p}
    <2>1. p \in s /\ IsFiniteSet(s)
      BY <1>2, PickIn, FS_Subset
    <2>2. IsFiniteSet(rest) /\ IsFiniteSet(S \cup rest)
      BY <2>1, FS_Subset, FS_Union
    <2>3. Total(w, s) = w[p] + Total(w, rest)
      BY <1>2, <2>1, TotalPick
    <2>4. Total(w, S \cup rest) = Total(w, S) + Total(w, rest)
      BY <1>2
    <2> HIDE DEF p
    <2>5. S \cup s = (S \cup rest) \cup {p} /\ p \notin S \cup rest
      BY <2>1
    <2>6. \A x \in (S \cup rest) \cup {p} : w[x] \in Int
      BY <2>1
    <2>7. Total(w, S \cup s) = Total(w, S \cup rest) + w[p]
      <3> DEFINE both == S \cup rest
      <3>1. IsFiniteSet(both) /\ p \notin both /\ \A y \in both \cup {p} : w[y] \in Int
        BY <2>2, <2>5, <2>6
      <3> HIDE DEF both
      <3>2. Total(w, both \cup {p}) = Total(w, both) + w[p]
        BY <3>1, TotalWith
      <3> QED BY <2>5, <3>2 DEF both
    <2>8. Total(w, S) \in Int /\ Total(w, rest) \in Int /\ w[p] \in Int
      BY <2>1, <2>2, TotalType
    <2>9. Total(w, S \cup s) = Total(w, S) + Total(w, s)
      <3> HIDE DEF rest, Bad
      <3> QED BY <2>3, <2>4, <2>7, <2>8
    <2> QED BY <2>9
  <1>3. Bad = {}
    BY <1>1, <1>2, NoneFails
  <1>4. T \notin Bad
    BY <1>3
  <1> QED BY <1>4

GroupsOf(group, T) == {group[x] : x \in T}
Fellows(group, T, x) == {y \in T : group[y] = group[x]}

\* Groups that each contain their members' share hold at least what the members do.
LEMMA GroupsCover ==
    ASSUME NEW h, NEW T, IsFiniteSet(T), NEW group, NEW b,
           \A x \in T : h[x] \in Nat,
           \A x \in T : b[group[x]] \in Nat,
           \A x \in T : Total(h, Fellows(group, T, x)) <= b[group[x]]
    PROVE  Total(h, T) <= Total(b, GroupsOf(group, T))
  <1> DEFINE G == {group[x] : x \in T}
             Of(K) == {x \in T : group[x] \in K}
             Bad == {K \in SUBSET G : ~(Total(h, Of(K)) <= Total(b, K))}
  <1>0. IsFiniteSet(G) /\ \A K : IsFiniteSet(Of(K))
    <2>1. IsFiniteSet(G)
      BY ImageFinite
    <2>2. \A K : Of(K) \subseteq T
      OBVIOUS
    <2> QED BY <2>1, <2>2, FS_Subset
  <1>1. {} \notin Bad
    <2>1. Of({}) = {} /\ Total(h, {}) = 0 /\ Total(b, {}) = 0
      BY TotalEmpty
    <2> QED BY <2>1
  <1>2. ASSUME NEW K \in SUBSET G, K # {}, K \ {Pick(K)} \notin Bad PROVE K \notin Bad
    <2> DEFINE p == Pick(K)
               rest == K \ {p}
               own == {x \in T : group[x] = p}
               others == Of(rest)
    <2>1. p \in K /\ IsFiniteSet(K) /\ IsFiniteSet(rest)
      BY <1>0, <1>2, PickIn, FS_Subset
    <2>2. Total(b, K) = b[p] + Total(b, rest)
      BY <1>2, <2>1, TotalPick
    <2>3. Total(h, others) <= Total(b, rest)
      BY <1>2
    <2> HIDE DEF p
    <2>4. Of(K) = others \cup own /\ others \cap own = {} /\ own \subseteq T /\ others \subseteq T
      BY <2>1
    <2>5. IsFiniteSet(own) /\ IsFiniteSet(others)
      BY <2>4, FS_Subset
    <2>6. Total(h, others \cup own) = Total(h, others) + Total(h, own)
      <3>1. \A x \in others \cup own : h[x] \in Int
        BY <2>4
      <3>2. others \cap own = {}
        BY <2>4
      <3> HIDE DEF others, own
      <3> QED BY <2>5, <3>1, <3>2, TotalUnion
    <2>7. Total(h, own) <= b[p]
      <3>1. PICK x \in T : group[x] = p
        BY <2>1
      <3>2. Fellows(group, T, x) = own
        BY <3>1 DEF Fellows
      <3> QED BY <3>1, <3>2
    <2>8. Total(h, own) \in Nat /\ Total(h, others) \in Nat
      BY <2>4, <2>5, TotalNat
    <2>9. Total(b, rest) \in Nat /\ b[p] \in Nat
      <3>1. \A q \in K : b[q] \in Nat
        OBVIOUS
      <3> QED BY <2>1, <3>1, TotalNat
    <2>10. Total(h, Of(K)) <= Total(b, K)
      <3>1. Total(h, Of(K)) = Total(h, others) + Total(h, own)
        BY <2>4, <2>6
      <3> DEFINE all == Of(K)
      <3>2. Total(h, all) = Total(h, others) + Total(h, own)
        BY <3>1
      <3> HIDE DEF others, own, rest, Bad, all
      <3>3. Total(h, all) <= Total(b, K)
        BY <2>2, <2>3, <3>2, <2>7, <2>8, <2>9
      <3> QED BY <3>3 DEF all
    <2> QED BY <2>10
  <1>3. Bad = {}
    BY <1>0, <1>1, <1>2, NoneFails
  <1>4. G \notin Bad /\ Of(G) = T
    BY <1>3
  <1> QED BY <1>4 DEF GroupsOf

\* Every wallet has a natural balance, a feed names each transaction once, and a
\* window and its queue have room for one event.
SellConstants ==
    /\ IsFiniteSet(Wallets) /\ \A w \in Wallets : Holdings[w] \in Nat
    /\ TopHolders \in Nat
    /\ \A txs \in Feeds : \A t, u \in txs : t.tx = u.tx => t = u
    /\ SellWindow \in Nat /\ MaxPerKey \in Nat \ {0}

Balances(S) == [g \in S |-> Balance(g)]
BalanceFold(S, g) == [s \in SUBSET S |-> IF s = {} THEN 0 ELSE Balance(Pick(s)) + g[s \ {Pick(s)}]]

\* A sum of balances is a sum of weights, and a balance is one itself.
LEMMA BalancesTotal ==
    ASSUME NEW S
    PROVE  MapThenSumSet(Balance, S) = Total(Balances(S), S)
  <1> DEFINE w == Balances(S)
             WFold(g) == [s \in SUBSET S |-> Step(w, s, g)]
  <1>1. ASSUME NEW g PROVE BalanceFold(S, g) = WFold(g)
    <2>1. ASSUME NEW s \in SUBSET S, s # {} PROVE Balance(Pick(s)) = w[Pick(s)]
      BY <2>1, PickIn DEF Balances
    <2> QED
      BY <2>1 DEF BalanceFold, Step
  <1>2. MapThenSumSet(Balance, S) = (CHOOSE g : g = BalanceFold(S, g))[S]
    BY DEF MapThenSumSet, MapThenFoldSet, Pick, BalanceFold
  <1> HIDE DEF w
  <1>3. Total(w, S) = (CHOOSE g : g = WFold(g))[S]
    BY TotalFold DEF Fold, IsFold
  <1> HIDE DEF WFold
  <1>4. (CHOOSE g : g = BalanceFold(S, g)) = (CHOOSE g : g = WFold(g))
    BY <1>1
  <1> QED
    BY <1>2, <1>3, <1>4 DEF w

LEMMA BalanceIs == ASSUME NEW g PROVE Balance(g) = Total(Holdings, g)
  BY DEF Balance, Total

\* A wallet is in its cluster.
LEMMA OwnCluster ==
    ASSUME NEW known, NEW w \in Wallets
    PROVE  w \in ClusterOf(known, w) /\ ClusterOf(known, w) \subseteq Wallets
  BY DEF ClusterOf

\* What a number of largest holders have, of groups of wallets.
LEMMA TopHas ==
    ASSUME SellConstants, NEW groups, groups \subseteq SUBSET Wallets, IsFiniteSet(groups)
    PROVE  LET few == {top \in SUBSET groups : Cardinality(top) <= TopHolders} IN
           /\ \E top \in few : TopBalance(groups) = Total(Balances(top), top)
           /\ \A top \in few : Total(Balances(top), top) <= TopBalance(groups)
  <1> DEFINE few == {top \in SUBSET groups : Cardinality(top) <= TopHolders}
             sums == {MapThenSumSet(Balance, top) : top \in few}
             amount == [top \in few |-> MapThenSumSet(Balance, top)]
  <1>1. IsFiniteSet(few)
    <2>1. IsFiniteSet(SUBSET groups)
      BY FS_SUBSET
    <2> QED BY <2>1, FS_Subset
  <1>2. sums = {amount[top] : top \in few}
    OBVIOUS
  <1>4. ASSUME NEW top \in few
        PROVE  MapThenSumSet(Balance, top) = Total(Balances(top), top)
               /\ Total(Balances(top), top) \in Nat
    <2>1. \A g \in top : Balances(top)[g] \in Nat
      <3> SUFFICES ASSUME NEW g \in top PROVE Balances(top)[g] \in Nat
        OBVIOUS
      <3>1. g \subseteq Wallets /\ IsFiniteSet(g)
        BY FS_Subset DEF SellConstants
      <3>2. Total(Holdings, g) \in Nat
        BY <3>1, TotalNat DEF SellConstants
      <3> QED BY <3>2, BalanceIs DEF Balances
    <2>2. IsFiniteSet(top)
      BY FS_Subset
    <2> QED BY <2>1, <2>2, TotalNat, BalancesTotal
  <1>5. {} \in few
    BY FS_EmptySet DEF SellConstants
  <1>6. sums \subseteq Nat /\ sums # {}
    BY <1>4, <1>5
  <1>7. \E m \in few : Max(sums) = amount[m] /\ \A top \in few : amount[top] <= amount[m]
    <2>1. \A top \in few : amount[top] \in Nat
      BY <1>4
    <2>2. few # {}
      BY <1>5
    <2> HIDE DEF amount, few, sums
    <2> QED BY <1>1, <1>2, <2>1, <2>2, GreatestNat
  <1>8. TopBalance(groups) = Max(sums)
    BY DEF TopBalance
  <1> QED BY <1>4, <1>7, <1>8

\* The top wallets' clusters hold at least what they do.
LEMMA ClustersHold ==
    ASSUME SellConstants, NEW known
    PROVE  ClusterTop(known) >= RawTop
  <1> DEFINE singles == {{w} : w \in Wallets}
             cluster == [w \in Wallets |-> ClusterOf(known, w)]
             single == [w \in Wallets |-> {w}]
  <1>1. singles \subseteq SUBSET Wallets /\ IsFiniteSet(singles)
    <2>1. singles = {single[w] : w \in Wallets}
      OBVIOUS
    <2>2. IsFiniteSet({single[w] : w \in Wallets})
      <3> HIDE DEF single
      <3> QED BY ImageFinite DEF SellConstants
    <2> QED BY <2>1, <2>2
  <1>2. Clusters(known) \subseteq SUBSET Wallets /\ IsFiniteSet(Clusters(known))
    <2>1. Clusters(known) = {cluster[w] : w \in Wallets}
      BY DEF Clusters
    <2>2. IsFiniteSet({cluster[w] : w \in Wallets})
      <3> HIDE DEF cluster
      <3> QED BY ImageFinite DEF SellConstants
    <2> QED BY <2>1, <2>2, OwnCluster DEF Clusters
  <1>3. PICK top \in SUBSET singles : /\ Cardinality(top) <= TopHolders
                                      /\ RawTop = Total(Balances(top), top)
    <2> HIDE DEF singles
    <2>1. TopBalance(singles) = RawTop
      BY DEF RawTop, singles
    <2> QED BY <1>1, <2>1, TopHas
  <1> DEFINE T == {w \in Wallets : {w} \in top}
             G == {cluster[w] : w \in T}
  <1>4. IsFiniteSet(T) /\ IsFiniteSet(top)
    BY <1>1, FS_Subset DEF SellConstants
  <1>5. top = {single[w] : w \in T} /\ \A x, y \in T : single[x] = single[y] => x = y
    OBVIOUS
  <1>6. Total(Balances(top), top) = Total(Holdings, T)
    <2> DEFINE b == Balances(top)
               v == [w \in T |-> b[single[w]]]
    <2>1. ASSUME NEW w \in T PROVE v[w] = Holdings[w] /\ Holdings[w] \in Int /\ b[single[w]] = Holdings[w]
      <3>1. b[single[w]] = Total(Holdings, {w})
        BY BalanceIs DEF Balances
      <3>2. Holdings[w] \in Nat
        BY DEF SellConstants
      <3>3. Total(Holdings, {} \cup {w}) = Total(Holdings, {}) + Holdings[w]
        <4> DEFINE none == {}
        <4>1. IsFiniteSet(none) /\ w \notin none /\ \A y \in none \cup {w} : Holdings[y] \in Int
          BY <3>2, FS_EmptySet
        <4> HIDE DEF none
        <4>2. Total(Holdings, none \cup {w}) = Total(Holdings, none) + Holdings[w]
          BY <4>1, TotalWith
        <4> QED BY <4>2 DEF none
      <3>4. {} \cup {w} = {w} /\ Total(Holdings, {}) = 0
        BY TotalEmpty
      <3>5. Total(Holdings, {w}) = Holdings[w]
        BY <3>2, <3>3, <3>4
      <3> QED BY <3>1, <3>2, <3>5
    <2>2. Total(b, {single[w] : w \in T}) = Total(v, T)
      <3>1. \A x \in T : b[single[x]] \in Int
        BY <2>1
      <3> HIDE DEF b, T, single
      <3> QED BY <1>4, <1>5, <3>1, TotalMap
    <2>3. Total(v, T) = Total(Holdings, T)
      <3>1. \A x \in T : v[x] = Holdings[x]
        BY <2>1
      <3> HIDE DEF v, T
      <3> QED BY <1>4, <3>1, TotalSame
    <2> QED BY <1>5, <2>2, <2>3
  <1>7. G \subseteq Clusters(known) /\ IsFiniteSet(G)
    <2>1. G \subseteq Clusters(known)
      BY DEF Clusters
    <2> QED BY <1>2, <2>1, FS_Subset
  <1>8. Cardinality(G) <= TopHolders
    <2>1. Cardinality(G) <= Cardinality(T)
      <3> DEFINE f == [w \in T |-> cluster[w]]
      <3>1. f \in Surjection(T, G)
        BY DEF Surjection
      <3> HIDE DEF f, G, T
      <3> QED BY <1>4, <3>1, FS_Surjection
    <2>2. Cardinality(T) <= Cardinality(top)
      <3> DEFINE f == [w \in T |-> single[w]]
      <3>1. f \in Injection(T, top)
        BY DEF Injection, IsInjective
      <3> HIDE DEF f, T
      <3> QED BY <1>4, <3>1, FS_Injection
    <2>3. Cardinality(G) \in Nat /\ Cardinality(T) \in Nat /\ Cardinality(top) \in Nat
      BY <1>4, <1>7, FS_CardinalityType
    <2> HIDE DEF G, T
    <2> QED BY <1>3, <2>1, <2>2, <2>3 DEF SellConstants
  <1>9. Total(Holdings, T) <= Total(Balances(G), G)
    <2> DEFINE b == Balances(G)
    <2>1. ASSUME NEW w \in T
          PROVE  /\ b[cluster[w]] \in Nat
                 /\ Total(Holdings, {y \in T : cluster[y] = cluster[w]}) <= b[cluster[w]]
      <3>1. b[cluster[w]] = Total(Holdings, cluster[w])
        BY BalanceIs DEF Balances
      <3>2. cluster[w] \subseteq Wallets /\ IsFiniteSet(cluster[w])
        BY OwnCluster, FS_Subset DEF SellConstants
      <3>3. {y \in T : cluster[y] = cluster[w]} \subseteq cluster[w]
        BY OwnCluster
      <3>4. \A x \in cluster[w] : Holdings[x] \in Nat
        BY <3>2 DEF SellConstants
      <3> DEFINE own == {y \in T : cluster[y] = cluster[w]}
                 all == cluster[w]
      <3>5. own \in SUBSET all /\ IsFiniteSet(all) /\ \A x \in all : Holdings[x] \in Nat
        BY <3>2, <3>3, <3>4
      <3> HIDE DEF own, all
      <3>6. Total(Holdings, own) <= Total(Holdings, all) /\ Total(Holdings, all) \in Nat
        BY <3>5, TotalPart, TotalNat
      <3> QED BY <3>1, <3>6 DEF own, all
    <2>2. \A w \in T : Holdings[w] \in Nat
      BY DEF SellConstants
    <2>6. G = GroupsOf(cluster, T)
      BY DEF GroupsOf
    <2> HIDE DEF b, T, cluster, G
    <2>3. \A w \in T : b[cluster[w]] \in Nat
      BY <2>1
    <2>4. \A w \in T : Total(Holdings, Fellows(cluster, T, w)) <= b[cluster[w]]
      BY <2>1 DEF Fellows
    <2>5. Total(Holdings, T) <= Total(b, GroupsOf(cluster, T))
      BY <1>4, <2>2, <2>3, <2>4, GroupsCover
    <2> QED BY <2>5, <2>6 DEF b
  <1>10. Total(Balances(G), G) <= ClusterTop(known)
    <2>1. G \in SUBSET Clusters(known)
      BY <1>7
    <2> HIDE DEF G
    <2>2. Total(Balances(G), G) <= TopBalance(Clusters(known))
      BY <1>2, <1>8, <2>1, TopHas
    <2> QED BY <2>2 DEF ClusterTop
  <1>11. RawTop \in Nat /\ ClusterTop(known) \in Nat /\ Total(Balances(G), G) \in Nat
    <2>1. ASSUME NEW S, S \subseteq SUBSET Wallets, IsFiniteSet(S) PROVE Total(Balances(S), S) \in Nat
      <3>1. \A g \in S : Balances(S)[g] \in Nat
        <4> SUFFICES ASSUME NEW g \in S PROVE Balances(S)[g] \in Nat
          OBVIOUS
        <4>1. g \subseteq Wallets /\ IsFiniteSet(g)
          BY <2>1, FS_Subset DEF SellConstants
        <4>2. Total(Holdings, g) \in Nat
          BY <4>1, TotalNat DEF SellConstants
        <4> QED BY <4>2, BalanceIs DEF Balances
      <3> QED BY <2>1, <3>1, TotalNat
    <2>2. top \subseteq SUBSET Wallets /\ G \subseteq SUBSET Wallets
      BY <1>1, <1>2, <1>7
    <2>3. Total(Balances(top), top) \in Nat /\ Total(Balances(G), G) \in Nat
      <3> HIDE DEF G
      <3> QED BY <1>4, <1>7, <2>1, <2>2
    <2>4. PICK most \in SUBSET Clusters(known) : ClusterTop(known) = Total(Balances(most), most)
      BY <1>2, TopHas DEF ClusterTop
    <2>5. most \subseteq SUBSET Wallets /\ IsFiniteSet(most)
      BY <1>2, FS_Subset
    <2>6. Total(Balances(most), most) \in Nat
      BY <2>1, <2>5
    <2> QED BY <1>3, <2>3, <2>4, <2>6
  <1>12. Total(Holdings, T) = RawTop
    BY <1>3, <1>6
  <1> HIDE DEF T, G
  <1> QED BY <1>9, <1>10, <1>11, <1>12

-----------------------------------------------------------------------------
\* Besides: the word for no collection is no chain, the registry lists finitely many
\* endpoints, and a step of the walk-forward is at least a test long, as by default:
\* with a shorter one the windows' tests overlap.
EvidenceConstants ==
    /\ SellConstants
    /\ "none" \notin EvmChains /\ IsFiniteSet(DOMAIN Endpoints)
    /\ TrainBars \in Nat /\ TestBars \in Nat /\ StepBars \in Nat \ {0} /\ TestBars <= StepBars

\* A transaction is one of the chain's, and lands in a slot, final or not.
ChainSound(chain) ==
    /\ \A t, u \in DOMAIN chain : t.tx = u.tx => t = u
    /\ \A t \in DOMAIN chain : chain[t] = [slot |-> chain[t].slot, finality |-> chain[t].finality]

\* A sell is final where it landed.
FinalOn(chain, e) ==
    \E t \in DOMAIN chain : t.tx = e.tx /\ chain[t] = [slot |-> e.slot, finality |-> "finalized"]

EventFields == {"chain", "tx", "at", "index", "slot", "wallet", "amount", "usd", "observed",
                "finality", "reorg"}

\* A held event is of a watched transaction, and eligible only where that is final.
EventSound(chain, e) ==
    /\ DOMAIN e = EventFields /\ e.observed \in Nat
    /\ \E t \in DOMAIN chain : t.tx = e.tx
    /\ MonitorEligible(e) => FinalOn(chain, e)

\* A window is a sequence of events of its chain, no two of one key, each final there.
WindowSound(chain, c, events) ==
    /\ Len(events) \in 1 .. MaxPerKey
    /\ events = [i \in 1 .. Len(events) |-> events[i]]
    /\ \A i \in DOMAIN events : /\ events[i].chain = c[1] /\ events[i].observed \in Nat
                                /\ FinalOn(chain, events[i])
    /\ \A i, j \in DOMAIN events : EventKey(events[i]) = EventKey(events[j]) => i = j
    /\ Len(events) < MaxPerKey =>
          events[Len(events)].observed - events[1].observed <= SellWindow

SellInv ==
    /\ sellClock \in Nat /\ ChainSound(onChain)
    /\ \A i \in DOMAIN held : EventSound(onChain, held[i])
    /\ \A c \in DOMAIN window : WindowSound(onChain, c, window[c])

\* Between two collections the evidence is what the calls of the last one told.
EvmInv ==
    /\ ingestor \notin {"empty", "ready"} => asked = "none" /\ evidence = NoEvidence
    /\ asked # "none" => asked \in EvmChains /\ DOMAIN calls = Active(asked)
    /\ asked = "none" => \A i \in DOMAIN calls : calls[i].outcome # "pending"
    /\ asked = "none" /\ evidence # NoEvidence =>
          \E chain \in EvmChains : DOMAIN calls = Active(chain) /\ evidence = Told(chain)

\* An open pair is of a ticker not settled, and a closed one of a ticker settled later.
WReplayInv ==
    /\ frame \in Nat
    /\ \A t \in WorldTickers : settledAt[t] # Absent => settledAt[t] \in 1 .. frame
    /\ \A t \in DOMAIN book : /\ t \in WorldTickers /\ settledAt[t] = Absent
                              /\ book[t].entered \in 1 .. frame
    /\ \A d \in paired : /\ d.ticker \in WorldTickers /\ d.entered \in Nat
                         /\ d.entered < d.resolved /\ settledAt[d.ticker] = d.resolved

\* A report is of the windows of the bars there are.
ResearchInv ==
    /\ history \in Seq(Bars)
    /\ report.windows = <<>> \/ report.windows = MakeWindows(Len(history))

EvidenceInv == SellInv /\ EvmInv /\ WReplayInv /\ ResearchInv

\* A report is written with the windows of the bars of that moment.
LEMMA ResearchStarts == ResearchInit => ResearchInv
  BY DEF ResearchInit, ResearchInv, NoReport

LEMMA ResearchKeeps == ResearchInv /\ [ResearchNext]_researchVars => ResearchInv'
  <1> SUFFICES ASSUME ResearchInv, [ResearchNext]_researchVars PROVE ResearchInv'
    OBVIOUS
  <1>1. CASE LoadBar
    <2>1. report'.windows = <<>>
      BY <1>1 DEF LoadBar, NoReport
    <2>2. history' \in Seq(Bars)
      BY <1>1 DEF LoadBar, ResearchInv
    <2> QED BY <2>1, <2>2 DEF ResearchInv
  <1>2. CASE RunFixed
    <2>1. report'.windows = MakeWindows(Len(history)) /\ history' = history
      BY <1>2 DEF RunFixed, Reported
    <2> QED BY <2>1 DEF ResearchInv
  <1>3. CASE RunSelect
    <2>1. report'.windows = MakeWindows(Len(history)) /\ history' = history
      BY <1>3 DEF RunSelect, Reported
    <2> QED BY <2>1 DEF ResearchInv
  <1>4. CASE UNCHANGED researchVars
    BY <1>4 DEF researchVars, ResearchInv
  <1> QED BY <1>1, <1>2, <1>3, <1>4 DEF ResearchNext

\* Fewer steps are no longer, and a quotient's steps are no longer than what they divide.
LEMMA StepsGrow ==
    ASSUME NEW a \in Nat, NEW b \in Nat, NEW s \in Nat, a <= b
    PROVE  a * s <= b * s
  OBVIOUS

LEMMA StepsFit ==
    ASSUME NEW room \in Nat, NEW s \in Nat \ {0}
    PROVE  room \div s \in Nat /\ (room \div s) * s <= room
  OBVIOUS

\* The tests of successive windows of the walk-forward neither overlap nor end late.
LEMMA WindowsApart ==
    ASSUME EvidenceConstants, NEW bars \in Nat, NEW j \in DOMAIN MakeWindows(bars),
           NEW k \in DOMAIN MakeWindows(bars)
    PROVE  LET w == MakeWindows(bars) IN
           /\ w[j].to <= bars
           /\ w[k].trained - w[k].from + 1 = TrainBars
           /\ j <= k => w[j].trained < w[k].trained + 1
           /\ j < k => w[j].to <= w[k].trained
  <1> DEFINE room == bars - TrainBars - TestBars
             n == IF room < 0 THEN 0 ELSE room \div StepBars + 1
             from(i) == (i - 1) * StepBars + 1
             trained(i) == (i - 1) * StepBars + TrainBars
             to(i) == (i - 1) * StepBars + TrainBars + TestBars
             w == MakeWindows(bars)
             started(i) == (i - 1) * StepBars
  <1>1. w = [i \in 1 .. n |-> [from |-> from(i), trained |-> trained(i), to |-> to(i)]]
    BY DEF MakeWindows
  <1>2. room \in Int /\ TrainBars \in Nat /\ TestBars \in Nat /\ StepBars \in Nat \ {0} /\ TestBars <= StepBars
    BY DEF EvidenceConstants
  <1>3. room >= 0 /\ n = room \div StepBars + 1
    <2>1. j \in 1 .. n
      BY <1>1
    <2>2. CASE room < 0
      BY <2>1, <2>2
    <2> QED BY <1>2, <2>2
  <1>4. room \div StepBars \in Nat /\ (room \div StepBars) * StepBars <= room
    <2> HIDE DEF room
    <2> QED BY <1>2, <1>3, StepsFit
  <1>5. n \in Nat /\ j \in 1 .. n /\ k \in 1 .. n
    BY <1>1, <1>3, <1>4
  <1>6. \A i \in 1 .. n : w[i].from = started(i) + 1 /\ w[i].trained = started(i) + TrainBars
                          /\ w[i].to = started(i) + TrainBars + TestBars
    BY <1>1
  <1>7. started(j) \in Nat /\ started(k) \in Nat
    BY <1>2, <1>5
  <1>8. started(j) <= room
    <2>1. j - 1 \in Nat /\ j - 1 <= room \div StepBars
      <3> HIDE DEF room
      <3> QED BY <1>3, <1>4, <1>5
    <2>2. started(j) <= (room \div StepBars) * StepBars
      <3> HIDE DEF room
      <3> QED BY <1>2, <1>4, <2>1, StepsGrow
    <2>3. (room \div StepBars) * StepBars \in Nat
      <3> DEFINE q == room \div StepBars
      <3>1. q \in Nat
        BY <1>4
      <3> HIDE DEF q
      <3> QED BY <1>2, <3>1 DEF q
    <2> DEFINE fit == (room \div StepBars) * StepBars
    <2> HIDE DEF started, room, fit
    <2> QED BY <1>2, <1>4, <1>7, <2>2, <2>3 DEF fit
  <1>9. j < k => started(j) + StepBars <= started(k)
    <2> SUFFICES ASSUME j < k PROVE started(j) + StepBars <= started(k)
      OBVIOUS
    <2>1. j \in Nat /\ k - 1 \in Nat /\ j <= k - 1
      BY <1>5
    <2>2. j * StepBars <= (k - 1) * StepBars
      BY <1>2, <2>1, StepsGrow
    <2>3. j * StepBars = started(j) + StepBars
      BY <1>2, <2>1
    <2> QED BY <2>2, <2>3
  <1> HIDE DEF n, w, started
  <1>10. w[j].to <= bars
    BY <1>2, <1>5, <1>6, <1>7, <1>8
  <1>11. w[k].trained - w[k].from + 1 = TrainBars
    BY <1>2, <1>5, <1>6, <1>7
  <1>12. j < k => w[j].to <= w[k].trained
    BY <1>2, <1>5, <1>6, <1>7, <1>9
  <1>13. j <= k => w[j].trained < w[k].trained + 1
    <2>1. CASE j = k
      BY <1>2, <1>5, <1>6, <1>7, <2>1
    <2>2. CASE j < k
      BY <1>2, <1>5, <1>6, <1>7, <1>9, <2>2
    <2> QED BY <1>5, <2>1, <2>2
  <1> QED BY <1>10, <1>11, <1>12, <1>13 DEF w

LEMMA TestsUnseen ==
    ASSUME EvidenceConstants, ResearchInv
    PROVE  TestsAreUnseen
  <1>1. Len(history) \in Nat
    BY DEF ResearchInv
  <1>2. CASE report.windows = <<>>
    BY <1>2 DEF TestsAreUnseen
  <1>3. CASE report.windows = MakeWindows(Len(history))
    BY <1>1, <1>3, WindowsApart DEF TestsAreUnseen
  <1> QED BY <1>2, <1>3 DEF ResearchInv

\* A pair closes at the frame that settles its ticker, which was not settled before.
LEMMA WReplayStarts == WReplayInit => WReplayInv
  BY DEF WReplayInit, WReplayInv

LEMMA WReplayKeeps == WReplayInv /\ [WReplayNext]_replayVars => WReplayInv'
  <1> SUFFICES ASSUME WReplayInv, [WReplayNext]_replayVars PROVE WReplayInv'
    OBVIOUS
  <1>1. CASE UNCHANGED <<frame, replayClock, book, settledAt, paired>>
    BY <1>1 DEF WReplayInv
  <1>2. ASSUME NEW at, NEW quotes, NEW settlements, DOMAIN quotes \subseteq WorldTickers,
               Frame(at, quotes, settlements)
        PROVE  WReplayInv'
    <2> DEFINE n == frame + 1
               kept == Restrict(book, DOMAIN book \ DOMAIN settlements)
               known == SettledBy(frame) \cup DOMAIN settlements
               wanted == {t \in DOMAIN quotes : CanEnter(t, quotes[t], kept, known)}
               closing == {[ticker |-> t, entered |-> book[t].entered, resolved |-> n, cost |-> book[t].cost,
                            payout |-> settlements[t] * book[t].units] : t \in DOMAIN settlements \cap DOMAIN book}
    <2>1. frame \in Nat /\ n \in Nat /\ frame' = n
      BY <1>2 DEF Frame, WReplayInv
    <2>2. PICK a \in SUBSET wanted :
             book' = [t \in DOMAIN kept \cup a |-> IF t \in a THEN Pair(quotes[t], n) ELSE kept[t]]
      BY <1>2 DEF Frame
    <2>3. DOMAIN kept = DOMAIN book \ DOMAIN settlements /\ \A t \in DOMAIN kept : kept[t] = book[t]
      BY DEF Restrict
    <2>4. paired' = paired \cup closing
      BY <1>2 DEF Frame
    <2>5. settledAt' = [t \in WorldTickers |->
             IF t \in DOMAIN settlements /\ settledAt[t] = Absent THEN n ELSE settledAt[t]]
      BY <1>2 DEF Frame
    <2>6. \A t \in WorldTickers : settledAt'[t] # Absent => settledAt'[t] \in 1 .. frame'
      <3> SUFFICES ASSUME NEW t \in WorldTickers, settledAt'[t] # Absent PROVE settledAt'[t] \in 1 .. n
        BY <2>1
      <3>1. CASE settledAt'[t] = n
        BY <2>1, <3>1
      <3>2. CASE settledAt'[t] = settledAt[t]
        <4>1. settledAt[t] \in 1 .. frame
          BY <3>2 DEF WReplayInv
        <4> QED BY <2>1, <3>2, <4>1
      <3> QED BY <2>5, <3>1, <3>2
    <2>7. ASSUME NEW t \in DOMAIN book'
          PROVE  t \in WorldTickers /\ settledAt'[t] = Absent /\ book'[t].entered \in 1 .. frame'
      <3>1. CASE t \in a
        <4>1. t \notin known /\ t \in WorldTickers
          BY <1>2, <2>2, <3>1 DEF CanEnter
        <4>2. settledAt[t] = Absent
          <5>1. settledAt[t] # Absent => settledAt[t] <= frame
            BY <4>1 DEF WReplayInv
          <5> QED BY <4>1, <5>1 DEF SettledBy
        <4>3. book'[t].entered = n
          BY <2>2, <3>1 DEF Pair
        <4> QED BY <2>1, <2>5, <4>1, <4>2, <4>3
      <3>2. CASE t \notin a
        <4>1. t \in DOMAIN book /\ t \notin DOMAIN settlements /\ book'[t] = book[t]
          BY <2>2, <2>3, <2>7, <3>2
        <4>2. t \in WorldTickers /\ settledAt[t] = Absent /\ book[t].entered \in 1 .. frame
          BY <4>1 DEF WReplayInv
        <4> QED BY <2>1, <2>5, <4>1, <4>2
      <3> QED BY <3>1, <3>2
    <2>8. ASSUME NEW d \in paired'
          PROVE  /\ d.ticker \in WorldTickers /\ d.entered \in Nat
                 /\ d.entered < d.resolved /\ settledAt'[d.ticker] = d.resolved
      <3>1. CASE d \in paired
        <4>1. /\ d.ticker \in WorldTickers /\ d.entered \in Nat
              /\ d.entered < d.resolved /\ settledAt[d.ticker] = d.resolved
          BY <3>1 DEF WReplayInv
        <4>2. settledAt[d.ticker] # Absent
          <5>1. d.resolved \in 1 .. frame \/ d.resolved = Absent
            BY <4>1 DEF WReplayInv
          <5> QED BY <4>1, <5>1 DEF Absent
        <4> QED BY <2>5, <4>1, <4>2
      <3>2. CASE d \in closing
        <4>1. PICK t \in DOMAIN settlements \cap DOMAIN book :
                d = [ticker |-> t, entered |-> book[t].entered, resolved |-> n, cost |-> book[t].cost,
                     payout |-> settlements[t] * book[t].units]
          BY <3>2
        <4>2. t \in WorldTickers /\ settledAt[t] = Absent /\ book[t].entered \in 1 .. frame
          BY <4>1 DEF WReplayInv
        <4>3. d.ticker = t /\ d.entered = book[t].entered /\ d.resolved = n
          BY <4>1
        <4>4. settledAt'[t] = n
          BY <2>5, <4>1, <4>2
        <4> QED BY <2>1, <4>2, <4>3, <4>4
      <3> QED BY <2>4, <3>1, <3>2
    <2> QED BY <2>1, <2>6, <2>7, <2>8 DEF WReplayInv
  <1> QED
    <2>1. CASE WReplayNext
      <3>1. PICK at \in 0 .. LastFrame, observed \in SUBSET WorldTickers, closed \in SUBSET WorldTickers :
               \E quotes \in [observed -> WorldQuotes], settlements \in [closed -> {0, 100}] :
                 \/ UNCHANGED <<frame, replayClock, book, settledAt, paired>>
                 \/ Frame(at, quotes, settlements)
        BY <2>1 DEF WReplayNext, ReplayFrame
      <3>2. PICK quotes \in [observed -> WorldQuotes], settlements \in [closed -> {0, 100}] :
                 \/ UNCHANGED <<frame, replayClock, book, settledAt, paired>>
                 \/ Frame(at, quotes, settlements)
        BY <3>1
      <3>3. DOMAIN quotes \subseteq WorldTickers
        OBVIOUS
      <3> QED BY <1>1, <1>2, <3>2, <3>3
    <2>2. CASE UNCHANGED replayVars
      BY <1>1, <2>2 DEF replayVars
    <2> QED BY <2>1, <2>2

LEMMA NoLookahead == WReplayInv => LookaheadSafe
  BY DEF WReplayInv, LookaheadSafe

LEMMA EvmStarts == EvmInit => EvmInv
  BY DEF EvmInit, EvmInv

\* What was told is read from the calls alone, and which are asked from the ingestor.
LEMMA SameTold ==
    ASSUME UNCHANGED <<calls, ingestor>>, NEW CONSTANT chain
    PROVE  Told(chain)' = Told(chain) /\ Active(chain)' = Active(chain)
  BY DEF Told, Active, Configured, Supports, Answered, MergeObservations, Observation, Incomplete

LEMMA EvmKeeps ==
    ASSUME EvidenceConstants, EvmInv, [EvmNext]_evmVars
    PROVE  EvmInv'
  <1>1. CASE BuildIngestor
    <2>1. asked = "none" /\ evidence = NoEvidence /\ UNCHANGED <<asked, calls, evidence>>
      BY <1>1 DEF BuildIngestor, EvmInv
    <2>2. \A i \in DOMAIN calls : calls[i].outcome # "pending"
      BY <2>1 DEF EvmInv
    <2> QED BY <2>1, <2>2 DEF EvmInv
  <1>2. ASSUME NEW chain \in EvmChains, Collect(chain) PROVE EvmInv'
    <2>1. asked' = chain /\ chain # "none" /\ ingestor' = ingestor /\ ingestor \in {"empty", "ready"}
      BY <1>2 DEF Collect, EvidenceConstants
    <2>2. Active(chain)' = Active(chain)
      BY <2>1 DEF Active, Configured, Supports
    <2>3. DOMAIN calls' = Active(chain)
      BY <1>2 DEF Collect
    <2>4. DOMAIN calls' = Active(asked)'
      BY <2>1, <2>2, <2>3 DEF Active, Configured, Supports
    <2> QED BY <2>1, <2>4 DEF EvmInv
  <1>3. ASSUME NEW i \in DOMAIN calls, RequestRetries(i) \/ RequestFails(i) \/ RequestAnswers(i)
        PROVE  EvmInv'
    <2>1. asked # "none"
      BY <1>3 DEF RequestRetries, RequestFails, RequestAnswers, EvmInv
    <2>2. UNCHANGED <<ingestor, asked, evidence>> /\ DOMAIN calls' = DOMAIN calls
      BY <1>3 DEF RequestRetries, RequestFails, RequestAnswers, Returned
    <2>3. ingestor \in {"empty", "ready"}
      BY <2>1 DEF EvmInv
    <2>4. asked \in EvmChains /\ DOMAIN calls = Active(asked)
      BY <2>1 DEF EvmInv
    <2>5. asked' \in EvmChains /\ DOMAIN calls' = Active(asked)'
      BY <2>2, <2>4 DEF Active, Configured, Supports
    <2> QED BY <2>1, <2>2, <2>3, <2>5 DEF EvmInv
  <1>4. CASE Gathered
    <2>1. asked # "none" /\ asked' = "none" /\ UNCHANGED <<ingestor, calls>> /\ evidence' = Told(asked)
      BY <1>4 DEF Gathered
    <2>2. ingestor \in {"empty", "ready"} /\ asked \in EvmChains /\ DOMAIN calls = Active(asked)
      BY <2>1 DEF EvmInv
    <2>3. \A i \in DOMAIN calls' : calls'[i].outcome # "pending"
      BY <1>4, <2>1 DEF Gathered
    <2>5. PICK chain \in EvmChains : chain = asked
      BY <2>2
    <2>6. DOMAIN calls' = Active(chain)' /\ evidence' = Told(chain)'
      BY <2>1, <2>2, <2>5, SameTold
    <2> QED BY <2>1, <2>2, <2>3, <2>6 DEF EvmInv
  <1>5. CASE UNCHANGED evmVars
    <2>1. UNCHANGED <<ingestor, asked, calls, evidence>>
      BY <1>5 DEF evmVars
    <2>2. Active(asked)' = Active(asked)
      BY <2>1 DEF Active, Configured, Supports
    <2>3. asked = "none" /\ evidence # NoEvidence =>
          \E chain \in EvmChains : DOMAIN calls' = Active(chain)' /\ evidence' = Told(chain)'
      <3> SUFFICES ASSUME asked = "none", evidence # NoEvidence
                   PROVE \E chain \in EvmChains : DOMAIN calls' = Active(chain)' /\ evidence' = Told(chain)'
        OBVIOUS
      <3>1. PICK chain \in EvmChains : DOMAIN calls = Active(chain) /\ evidence = Told(chain)
        BY DEF EvmInv
      <3> QED BY <2>1, <3>1, SameTold
    <2> QED BY <2>1, <2>2, <2>3 DEF EvmInv
  <1> QED BY <1>1, <1>2, <1>3, <1>4, <1>5 DEF EvmNext

\* What every section said stands, or the sections are disputed.
LEMMA SaidStands ==
    ASSUME NEW section, NEW i \in DOMAIN section, NEW k \in DOMAIN section[i], ~Disputed(section)
    PROVE  MergeSection(section)[k] = section[i][k]
  BY DEF Disputed

LEMMA NothingHidden ==
    ASSUME EvidenceConstants, EvmInv
    PROVE  EvidenceHidesNothing
  <1> SUFFICES ASSUME evidence # NoEvidence, asked = "none"
               PROVE  /\ (\E i \in evidence.answered : SaysUnsellable(i)) =>
                            evidence.merged.conflict \/ evidence.merged.simulation.status = "failed"
                      /\ evidence.merged.independent <=
                            Cardinality({Observation(i).group : i \in evidence.answered})
                      /\ ~evidence.incomplete =>
                            RequiredOf(Active(evidence.chain)) \subseteq evidence.answered
    BY DEF EvidenceHidesNothing
  <1>1. PICK chain \in EvmChains : DOMAIN calls = Active(chain) /\ evidence = Told(chain)
    BY DEF EvmInv
  <1> DEFINE answered == {i \in DOMAIN calls : Answered(i)}
             simulation == [i \in answered |-> Observation(i).said.simulation]
             groups == {Observation(i).group : i \in answered}
  <1>2. /\ evidence.answered = answered
        /\ evidence.merged = IF answered = {} THEN Bare ELSE MergeObservations(answered)
        /\ evidence.chain = chain
        /\ evidence.incomplete = Incomplete(DOMAIN calls, answered)
    BY <1>1 DEF Told
  <1>3. ASSUME NEW i \in answered, SaysUnsellable(i)
        PROVE  evidence.merged.conflict \/ evidence.merged.simulation.status = "failed"
    <2>1. evidence.merged = MergeObservations(answered)
      BY <1>2, <1>3
    <2>2. /\ evidence.merged.simulation = MergeSection(simulation)
          /\ Disputed(simulation) => evidence.merged.conflict
      BY <2>1 DEF MergeObservations
    <2>3. i \in DOMAIN simulation /\ "status" \in DOMAIN simulation[i] /\ simulation[i].status = "failed"
      BY <1>3 DEF SaysUnsellable, Observation
    <2>4. ~Disputed(simulation) => MergeSection(simulation)["status"] = simulation[i]["status"]
      <3> HIDE DEF simulation
      <3> QED BY <2>3, SaidStands
    <2> QED BY <2>2, <2>3, <2>4
  <1>4. evidence.merged.independent <= Cardinality(groups)
    <2>1. IsFiniteSet(answered)
      <3>1. answered \subseteq DOMAIN Endpoints
        BY <1>1 DEF Active, Configured
      <3> QED BY <3>1, FS_Subset DEF EvidenceConstants
    <2>2. IsFiniteSet(groups)
      <3> DEFINE f == [i \in answered |-> Observation(i).group]
      <3>1. groups = {f[i] : i \in answered}
        OBVIOUS
      <3> HIDE DEF f, answered, groups
      <3> QED BY <2>1, <3>1, ImageFinite
    <2>3. Cardinality(groups) \in Nat
      BY <2>2, FS_CardinalityType
    <2>4. CASE answered = {}
      <3>1. evidence.merged.independent = 0
        BY <1>2, <2>4 DEF Bare
      <3> HIDE DEF groups
      <3> QED BY <2>3, <3>1
    <2>5. CASE answered # {}
      <3>1. evidence.merged.independent = Cardinality(groups)
        BY <1>2, <2>5 DEF MergeObservations
      <3> HIDE DEF groups
      <3> QED BY <2>3, <3>1
    <2> QED BY <2>4, <2>5
  <1>5. ASSUME ~evidence.incomplete PROVE RequiredOf(Active(chain)) \subseteq answered
    <2>1. RequiredOf(DOMAIN calls \ answered) = {}
      BY <1>2, <1>5 DEF Incomplete
    <2> HIDE DEF answered
    <2> QED BY <1>1, <2>1 DEF RequiredOf
  <1> QED BY <1>2, <1>3, <1>4, <1>5
\* The greatest of some numbers up to one, and of two numbers.
LEMMA GreatestUpTo ==
    ASSUME NEW n \in Nat, NEW S, S \subseteq 0 .. n, S # {}
    PROVE  Max(S) \in S /\ \A x \in S : x <= Max(S)
  <1> DEFINE w == [x \in S |-> x]
  <1>1. IsFiniteSet(S)
    <2> DEFINE upTo == 0 .. n
    <2>1. IsFiniteSet(upTo) /\ S \subseteq upTo
      BY FS_Interval
    <2> HIDE DEF upTo
    <2> QED BY <2>1, FS_Subset
  <1>2. {w[x] : x \in S} = S /\ \A x \in S : w[x] = x /\ w[x] \in Nat
    <2>1. \A x \in S : x \in Nat
      OBVIOUS
    <2>2. \A x \in S : w[x] = x
      OBVIOUS
    <2> HIDE DEF w
    <2>3. {w[x] : x \in S} = S
      BY <2>2
    <2> QED BY <2>1, <2>2, <2>3
  <1> HIDE DEF w
  <1>3. PICK m \in S : Max({w[x] : x \in S}) = w[m] /\ \A x \in S : w[x] <= w[m]
    BY <1>1, <1>2, GreatestNat
  <1>4. Max(S) = m
    BY <1>2, <1>3
  <1> QED BY <1>2, <1>3, <1>4

LEMMA GreaterOf ==
    ASSUME NEW a \in Int, NEW b \in Int
    PROVE  Max({a, b}) = IF a >= b THEN a ELSE b
  <1> DEFINE top == IF a >= b THEN a ELSE b
             most == Max({a, b})
  <1>1. top \in {a, b} /\ \A y \in {a, b} : top >= y
    OBVIOUS
  <1>2. most \in {a, b} /\ \A y \in {a, b} : most >= y
    BY <1>1 DEF Max
  <1>3. most = top
    <2> HIDE DEF most
    <2> QED BY <1>2
  <1> QED BY <1>3

\* What leaves a window at its front: the sells too old, and no later one.
LEMMA UnexpiredIs ==
    ASSUME NEW S, NEW old \in Seq(S), \A i \in DOMAIN old : old[i].observed \in Nat,
           SellWindow \in Nat, NEW now \in Nat
    PROVE  \E m \in 0 .. Len(old) :
              /\ Unexpired(old, now) \in Seq(S) /\ Len(Unexpired(old, now)) = Len(old) - m
              /\ \A i \in 1 .. Len(old) - m : Unexpired(old, now)[i] = old[m + i]
              /\ m < Len(old) => now - old[m + 1].observed <= SellWindow
  <1> DEFINE stale == {n \in 0 .. Len(old) : \A i \in 1 .. n : old[i].observed < now - SellWindow}
             m == Max(stale)
             rest == SubSeq(old, m + 1, Len(old))
             L == Len(old)
  <1>1. L \in Nat /\ DOMAIN old = 1 .. L
    BY LenProperties
  <1>2. 0 \in stale
    BY <1>1
  <1>3. m \in stale /\ \A x \in stale : x <= m
    <2>1. stale \subseteq 0 .. L
      OBVIOUS
    <2> HIDE DEF stale, L
    <2> QED BY <1>1, <1>2, <2>1, GreatestUpTo
  <1>4. m \in 0 .. L
    BY <1>3
  <1>5. Unexpired(old, now) = rest
    BY DEF Unexpired
  <1>6. m < L => ~(old[m + 1].observed < now - SellWindow)
    <2> SUFFICES ASSUME m < L, old[m + 1].observed < now - SellWindow PROVE FALSE
      OBVIOUS
    <2>1. \A i \in 1 .. m : old[i].observed < now - SellWindow
      BY <1>3
    <2> HIDE DEF m
    <2>2. m + 1 \in 0 .. L /\ \A i \in 1 .. m + 1 : i \in 1 .. m \/ i = m + 1
      BY <1>1, <1>4
    <2>3. m + 1 \in stale
      BY <2>1, <2>2
    <2> HIDE DEF stale
    <2> QED BY <1>1, <1>3, <1>4, <2>3
  <1> HIDE DEF m
  <1>7. /\ rest \in Seq(S)
        /\ Len(rest) = IF m + 1 <= L THEN L - (m + 1) + 1 ELSE 0
        /\ \A i \in 1 .. L - (m + 1) + 1 : rest[i] = old[(m + 1) + i - 1]
    <2>1. m + 1 \in Int /\ L \in Int /\ \A i \in m + 1 .. L : old[i] \in S
      BY <1>1, <1>4, ElementOfSeq
    <2> QED BY <2>1, SubSeqProperties
  <1>8. Len(rest) = L - m
    <2> HIDE DEF rest, L
    <2> QED BY <1>1, <1>4, <1>7
  <1>9. \A i \in 1 .. L - m : rest[i] = old[m + i]
    <2> SUFFICES ASSUME NEW i \in 1 .. L - m PROVE rest[i] = old[m + i]
      OBVIOUS
    <2>1. i \in 1 .. L - (m + 1) + 1 /\ (m + 1) + i - 1 = m + i
      BY <1>1, <1>4
    <2>2. rest[i] = old[(m + 1) + i - 1]
      BY <1>7, <2>1
    <2> HIDE DEF rest
    <2> QED BY <2>1, <2>2
  <1>10. m < L => now - old[m + 1].observed <= SellWindow
    <2> SUFFICES ASSUME m < L PROVE now - old[m + 1].observed <= SellWindow
      OBVIOUS
    <2>1. old[m + 1].observed \in Nat
      BY <1>1, <1>4
    <2> QED BY <1>6, <2>1
  <1> HIDE DEF rest
  <1> QED BY <1>4, <1>5, <1>7, <1>8, <1>9, <1>10

\* What ingesting makes of a window: some of its last events, and the new one.
Ingested(S, old, e, new) ==
    /\ new \in Seq(S) /\ Len(new) \in 1 .. MaxPerKey /\ new[Len(new)] = e
    /\ \E shift \in Nat : /\ Len(new) - 1 + shift = Len(old)
                          /\ \A i \in 1 .. Len(new) - 1 : new[i] = old[i + shift]
    /\ Len(new) < MaxPerKey => new[Len(new)].observed - new[1].observed <= SellWindow

LEMMA IngestIs ==
    ASSUME NEW S, NEW old \in Seq(S), NEW e \in S, \A i \in DOMAIN old : old[i].observed \in Nat,
           e.observed \in Nat, SellWindow \in Nat, MaxPerKey \in Nat \ {0}
    PROVE  Ingested(S, old, e, Capped(Append(Unexpired(old, e.observed), e)))
  <1> DEFINE new == Capped(Append(Unexpired(old, e.observed), e))
             u == Unexpired(old, e.observed)
             a == Append(u, e)
             L == Len(old)
             K == Len(a)
             s == Max({1, K - MaxPerKey + 1})
  <1>1. L \in Nat /\ DOMAIN old = 1 .. L
    BY LenProperties
  <1>2. PICK m \in 0 .. L :
          /\ u \in Seq(S) /\ Len(u) = L - m
          /\ \A i \in 1 .. L - m : u[i] = old[m + i]
          /\ m < L => e.observed - old[m + 1].observed <= SellWindow
    BY UnexpiredIs
  <1> HIDE DEF u
  <1>3. /\ a \in Seq(S) /\ K = Len(u) + 1
        /\ \A i \in 1 .. Len(u) : a[i] = u[i]
        /\ a[Len(u) + 1] = e
    <2>1. u \in Seq(S) /\ e \in S
      BY <1>2
    <2>2. Append(u, e) \in Seq(S)
      BY <2>1, AppendProperties
    <2>3. Len(Append(u, e)) = Len(u) + 1
      BY <2>1, AppendProperties
    <2>4. \A i \in 1 .. Len(u) : Append(u, e)[i] = u[i]
      BY <2>1, AppendProperties
    <2>5. Append(u, e)[Len(u) + 1] = e
      BY <2>1, AppendProperties
    <2> QED BY <2>2, <2>3, <2>4, <2>5
  <1>4. new = SubSeq(a, s, K)
    BY DEF Capped, u
  <1> HIDE DEF a, new
  <1>5. K = L - m + 1 /\ K \in Nat /\ K >= 1
    BY <1>1, <1>2, <1>3
  <1>6. s = IF 1 >= K - MaxPerKey + 1 THEN 1 ELSE K - MaxPerKey + 1
    <2> DEFINE b == K - MaxPerKey + 1
    <2>1. b \in Int
      BY <1>5
    <2> HIDE DEF b, K
    <2>2. Max({1, b}) = IF 1 >= b THEN 1 ELSE b
      BY <2>1, GreaterOf
    <2> QED BY <2>2 DEF b
  <1>7. s \in 1 .. K /\ K - s + 1 \in 1 .. MaxPerKey /\ (K - s + 1 < MaxPerKey => s = 1)
    <2> HIDE DEF K, s
    <2> QED BY <1>5, <1>6
  <1>8. /\ new \in Seq(S)
        /\ Len(new) = IF s <= K THEN K - s + 1 ELSE 0
        /\ \A i \in 1 .. K - s + 1 : new[i] = a[s + i - 1]
    <2>1. s \in Int /\ K \in Int
      BY <1>5, <1>7
    <2>2. \A i \in s .. K : a[i] \in S
      BY <1>3, <1>5, <1>7, ElementOfSeq
    <2> HIDE DEF s, K
    <2> QED BY <1>4, <2>1, <2>2, SubSeqProperties
  <1> HIDE DEF s, K
  <1>9. Len(new) = K - s + 1
    BY <1>5, <1>7, <1>8
  <1>10. \A i \in 1 .. Len(new) - 1 : new[i] = old[i + (m + s - 1)]
    <2> SUFFICES ASSUME NEW i \in 1 .. Len(new) - 1 PROVE new[i] = old[i + (m + s - 1)]
      OBVIOUS
    <2>1. i \in 1 .. K - s + 1 /\ s + i - 1 \in 1 .. Len(u) /\ s + i - 1 \in 1 .. L - m
      BY <1>1, <1>2, <1>5, <1>7, <1>9
    <2>2. new[i] = a[s + i - 1]
      BY <1>8, <2>1
    <2>3. a[s + i - 1] = u[s + i - 1]
      BY <1>3, <2>1
    <2>4. u[s + i - 1] = old[m + (s + i - 1)]
      BY <1>2, <2>1
    <2>5. m + (s + i - 1) = i + (m + s - 1)
      BY <1>2, <1>7, <2>1
    <2> QED BY <2>2, <2>3, <2>4, <2>5
  <1>11. new[Len(new)] = e
    <2>1. K - s + 1 \in 1 .. K - s + 1 /\ s + (K - s + 1) - 1 = K /\ K = Len(u) + 1
      BY <1>3, <1>5, <1>7 DEF K
    <2>2. new[K - s + 1] = a[s + (K - s + 1) - 1]
      BY <1>8, <2>1
    <2> QED BY <1>3, <1>9, <2>1, <2>2
  <1>12. m + s - 1 \in Nat /\ Len(new) - 1 + (m + s - 1) = L
    BY <1>1, <1>2, <1>5, <1>7, <1>9
  <1>13. ASSUME Len(new) < MaxPerKey PROVE e.observed - new[1].observed <= SellWindow
    <2>1. s = 1
      BY <1>7, <1>9, <1>13
    <2>2. 1 \in 1 .. K - s + 1 /\ s + 1 - 1 = 1
      BY <1>5, <2>1
    <2>3. new[1] = a[1]
      BY <1>8, <2>1, <2>2
    <2>4. CASE m = L
      <3>1. a[1] = e
        BY <1>1, <1>2, <1>3, <2>4
      <3> QED BY <2>3, <3>1
    <2>5. CASE m < L
      <3>1. 1 \in 1 .. Len(u) /\ 1 \in 1 .. L - m
        BY <1>1, <1>2, <2>5
      <3>2. a[1] = u[1] /\ u[1] = old[m + 1]
        BY <1>2, <1>3, <3>1
      <3> QED BY <1>2, <2>3, <2>5, <3>2
    <2> QED BY <1>2, <2>4, <2>5
  <1>14. Len(new) \in 1 .. MaxPerKey
    BY <1>7, <1>9
  <1> HIDE DEF L
  <1>15. Ingested(S, old, e, new)
    BY <1>8, <1>10, <1>11, <1>12, <1>13, <1>14 DEF Ingested, L
  <1> QED BY <1>15 DEF new
\* An ingested window is sound where the old one and the event were.
LEMMA IngestSound ==
    ASSUME SellConstants, NEW chain, NEW c, NEW old, NEW e, NEW new,
           old = <<>> \/ WindowSound(chain, c, old),
           e.chain = c[1], e.observed \in Nat, FinalOn(chain, e),
           \A i \in DOMAIN old : EventKey(e) # EventKey(old[i]),
           new = Capped(Append(Unexpired(old, e.observed), e))
    PROVE  WindowSound(chain, c, new)
  <1> DEFINE S == {old[i] : i \in DOMAIN old} \cup {e}
  <1>1. /\ old \in Seq(S)
        /\ \A i \in DOMAIN old : /\ old[i].chain = c[1] /\ old[i].observed \in Nat
                                 /\ FinalOn(chain, old[i])
        /\ \A i, j \in DOMAIN old : EventKey(old[i]) = EventKey(old[j]) => i = j
    <2>1. CASE old = <<>>
      <3>1. DOMAIN old = {}
        BY <2>1
      <3>2. old \in Seq(S)
        <4> HIDE DEF S
        <4> QED BY <2>1
      <3> QED BY <3>1, <3>2
    <2>2. CASE WindowSound(chain, c, old)
      <3>1. Len(old) \in Nat /\ old = [i \in 1 .. Len(old) |-> old[i]]
        BY <2>2 DEF WindowSound
      <3>2. DOMAIN old = 1 .. Len(old)
        BY <3>1
      <3>3. \A i \in 1 .. Len(old) : old[i] \in S
        BY <3>2
      <3>4. old \in [1 .. Len(old) -> S]
        <4> HIDE DEF S
        <4> QED BY <3>1, <3>3
      <3>5. old \in Seq(S)
        <4> HIDE DEF S
        <4> QED BY <3>1, <3>4, SeqDef
      <3> QED BY <2>2, <3>5 DEF WindowSound
    <2> QED BY <2>1, <2>2
  <1>2. e \in S
    OBVIOUS
  <1> HIDE DEF S
  <1>3. DOMAIN old = 1 .. Len(old) /\ Len(old) \in Nat
    BY <1>1, LenProperties
  <1>4. /\ new \in Seq(S) /\ Len(new) \in 1 .. MaxPerKey /\ new[Len(new)] = e
        /\ \E shift \in Nat : /\ Len(new) - 1 + shift = Len(old)
                              /\ \A i \in 1 .. Len(new) - 1 : new[i] = old[i + shift]
        /\ Len(new) < MaxPerKey => new[Len(new)].observed - new[1].observed <= SellWindow
    <2>1. SellWindow \in Nat /\ MaxPerKey \in Nat \ {0}
      BY DEF SellConstants
    <2>2. old \in Seq(S) /\ e \in S /\ \A i \in DOMAIN old : old[i].observed \in Nat
      BY <1>1, <1>2
    <2>3. Ingested(S, old, e, Capped(Append(Unexpired(old, e.observed), e)))
      BY <2>1, <2>2, IngestIs
    <2>4. Ingested(S, old, e, new)
      BY <2>3
    <2> QED BY <2>4 DEF Ingested
  <1>5. PICK shift \in Nat : /\ Len(new) - 1 + shift = Len(old)
                             /\ \A i \in 1 .. Len(new) - 1 : new[i] = old[i + shift]
    BY <1>4
  <1> DEFINE n == Len(new)
  <1>6. n \in Nat /\ n >= 1 /\ DOMAIN new = 1 .. n /\ new \in [1 .. n -> S]
    BY <1>4, LenProperties
  <1>7. new = [i \in 1 .. n |-> new[i]]
    BY <1>6
  <1>8. \A i \in 1 .. n - 1 : i + shift \in DOMAIN old /\ new[i] = old[i + shift]
    <2> HIDE DEF n
    <2> QED BY <1>3, <1>5, <1>6 DEF n
  <1>9. \A i \in 1 .. n : i = n \/ i \in 1 .. n - 1
    BY <1>6
  <1>10. \A i \in 1 .. n : /\ new[i].chain = c[1] /\ new[i].observed \in Nat
                           /\ FinalOn(chain, new[i])
    BY <1>1, <1>4, <1>8, <1>9
  <1>11. ASSUME NEW i \in 1 .. n, NEW j \in 1 .. n, EventKey(new[i]) = EventKey(new[j]) PROVE i = j
    <2>1. CASE i \in 1 .. n - 1 /\ j \in 1 .. n - 1
      <3>1. i + shift = j + shift
        BY <1>1, <1>8, <1>11, <2>1
      <3> QED BY <1>6, <3>1
    <2>2. CASE i = n /\ j \in 1 .. n - 1
      BY <1>4, <1>8, <1>11, <2>2
    <2>3. CASE j = n /\ i \in 1 .. n - 1
      BY <1>4, <1>8, <1>11, <2>3
    <2> QED BY <1>9, <2>1, <2>2, <2>3
  <1> QED BY <1>4, <1>6, <1>7, <1>10, <1>11 DEF WindowSound

\* What is final stays so, and what rests on it.
LEMMA LaterSound ==
    ASSUME NEW chain, NEW later, DOMAIN later = DOMAIN chain,
           \A e : FinalOn(chain, e) => FinalOn(later, e)
    PROVE  /\ \A e : EventSound(chain, e) => EventSound(later, e)
           /\ \A c, events : WindowSound(chain, c, events) => WindowSound(later, c, events)
  BY DEF EventSound, WindowSound

LEMMA ChainKeeps ==
    ASSUME NEW t \in DOMAIN onChain, ChainSound(onChain), ChainMoves(t)
    PROVE  /\ ChainSound(onChain') /\ DOMAIN onChain' = DOMAIN onChain
           /\ \A e : FinalOn(onChain, e) => FinalOn(onChain', e)
  <1>1. DOMAIN onChain' = DOMAIN onChain /\ \A u \in DOMAIN onChain : u # t => onChain'[u] = onChain[u]
    BY DEF ChainMoves
  <1>2. onChain'[t] = [slot |-> onChain'[t].slot, finality |-> onChain'[t].finality]
    <2>1. onChain[t] = [slot |-> onChain[t].slot, finality |-> onChain[t].finality]
      BY DEF ChainSound
    <2>2. CASE onChain' = [onChain EXCEPT ![t].finality = "finalized"]
      BY <2>1, <2>2
    <2>3. CASE onChain' = [onChain EXCEPT ![t] = [slot |-> @.slot + 1, finality |-> "unfinal"]]
      BY <2>3
    <2> QED BY <2>2, <2>3 DEF ChainMoves
  <1>3. ChainSound(onChain')
    BY <1>1, <1>2 DEF ChainSound
  <1>4. ASSUME NEW e, FinalOn(onChain, e) PROVE FinalOn(onChain', e)
    <2>1. PICK u \in DOMAIN onChain :
             u.tx = e.tx /\ onChain[u] = [slot |-> e.slot, finality |-> "finalized"]
      BY <1>4 DEF FinalOn
    <2>2. u # t
      BY <2>1 DEF ChainMoves
    <2> QED BY <1>1, <2>1, <2>2 DEF FinalOn
  <1> QED BY <1>1, <1>3, <1>4

\* A normalized event is sound where its transaction stands.
LEMMA NormalizedSound ==
    ASSUME SellInv, NEW t \in DOMAIN onChain,
           NEW e \in Events(t, onChain[t].slot, Truth(t, onChain[t].slot).finality,
                            Truth(t, onChain[t].slot).reorg, sellClock)
    PROVE  EventSound(onChain, e)
  <1> DEFINE now == Truth(t, onChain[t].slot)
  <1>1. PICK log : e = SellEvent(t, log, onChain[t].slot, now.finality, now.reorg, sellClock)
    BY DEF Events, NormalizedSolana, NormalizedEvm, Sold
  <1>2. /\ DOMAIN e = EventFields /\ e.observed = sellClock /\ e.tx = t.tx /\ e.slot = onChain[t].slot
        /\ e.finality = now.finality
    BY <1>1 DEF SellEvent, EventFields
  <1>3. now.finality = onChain[t].finality
    BY DEF Truth
  <1>4. ASSUME MonitorEligible(e) PROVE FinalOn(onChain, e)
    <2>1. onChain[t].finality = "finalized"
      BY <1>2, <1>3, <1>4 DEF MonitorEligible
    <2>2. onChain[t] = [slot |-> e.slot, finality |-> "finalized"]
      BY <1>2, <2>1 DEF SellInv, ChainSound
    <2> QED BY <1>2, <2>2 DEF FinalOn
  <1> QED BY <1>2, <1>4 DEF EventSound, SellInv

\* A revised event is sound as well: it is eligible where the caller finds it final.
LEMMA RevisedSound ==
    ASSUME SellInv, NEW e, EventSound(onChain, e), NEW now,
           now = Truth(CHOOSE t \in DOMAIN onChain : t.tx = e.tx, e.slot)
    PROVE  EventSound(onChain, [e EXCEPT !.finality = now.finality, !.reorg = now.reorg])
  <1> DEFINE t == CHOOSE u \in DOMAIN onChain : u.tx = e.tx
             new == [e EXCEPT !.finality = now.finality, !.reorg = now.reorg]
  <1>1. t \in DOMAIN onChain /\ t.tx = e.tx
    BY DEF EventSound
  <1>2. now = Truth(t, e.slot)
    OBVIOUS
  <1> HIDE DEF t
  <1>3. DOMAIN e = EventFields
    BY DEF EventSound
  <1>4. /\ DOMAIN new = EventFields /\ new.observed = e.observed /\ new.tx = e.tx /\ new.slot = e.slot
        /\ new.finality = now.finality /\ new.reorg = now.reorg
    BY <1>3 DEF EventFields
  <1>5. ASSUME MonitorEligible(new) PROVE FinalOn(onChain, new)
    <2>1. now.finality = "finalized" /\ now.reorg = "canonical"
      BY <1>4, <1>5 DEF MonitorEligible
    <2>2. onChain[t].slot = e.slot /\ onChain[t].finality = "finalized"
      BY <1>2, <2>1 DEF Truth
    <2>3. onChain[t] = [slot |-> new.slot, finality |-> "finalized"]
      BY <1>1, <1>4, <2>2 DEF SellInv, ChainSound
    <2> QED BY <1>1, <1>4, <2>3 DEF FinalOn
  <1> HIDE DEF new
  <1>6. EventSound(onChain, new)
    BY <1>1, <1>4, <1>5 DEF EventSound
  <1> QED BY <1>6 DEF new
LEMMA SellStarts == SellConstants /\ SellInit => SellInv
  <1> SUFFICES ASSUME SellConstants, SellInit PROVE SellInv
    OBVIOUS
  <1>1. PICK txs \in Feeds : onChain = [t \in txs |-> [slot |-> 1, finality |-> "unfinal"]]
    BY DEF SellInit
  <1>2. ChainSound(onChain)
    BY <1>1 DEF ChainSound, SellConstants
  <1>3. sellClock = 0 /\ DOMAIN held = {} /\ DOMAIN window = {}
    BY DEF SellInit
  <1> QED BY <1>2, <1>3 DEF SellInv

\* What an adapter takes from the held events keeps every window sound.
LEMMA AdapterKeeps ==
    ASSUME SellConstants, SellInv, NEW i \in DOMAIN held, NEW supplied, AdapterIngest(i, supplied)
    PROVE  \A c \in DOMAIN window' : WindowSound(onChain, c, window'[c])
  <1> DEFINE e == held[i]
             name == <<e.chain, ClusterOf(ties, e.wallet)>>
             old == IF name \in DOMAIN window THEN window[name] ELSE <<>>
             new == Capped(Append(Unexpired(old, e.observed), e))
  <1>1. MonitorEligible(e) /\ MonitorIngest(name, e)
    BY DEF AdapterIngest
  <1>2. EventSound(onChain, e)
    BY DEF SellInv
  <1>3. e.observed \in Nat /\ FinalOn(onChain, e) /\ e.chain = name[1]
    BY <1>1, <1>2 DEF EventSound
  <1> HIDE DEF e, name
  <1>4. \A c \in DOMAIN window : WindowSound(onChain, c, window[c])
    BY DEF SellInv
  <1>5. CASE EventKey(e) \in SeenEvents(name)
    <2>1. window' = window
      BY <1>1, <1>5 DEF MonitorIngest
    <2> QED BY <1>4, <2>1
  <1>6. CASE EventKey(e) \notin SeenEvents(name)
    <2>1. window' = [d \in DOMAIN window \cup {name} |-> IF d = name THEN new ELSE window[d]]
      BY <1>1, <1>6 DEF MonitorIngest
    <2>2. old = <<>> \/ WindowSound(onChain, name, old)
      BY <1>4
    <2>3. \A j \in DOMAIN old : EventKey(e) # EventKey(old[j])
      <3>1. CASE name \in DOMAIN window
        BY <1>6, <3>1 DEF SeenEvents
      <3>2. CASE name \notin DOMAIN window
        <4>1. DOMAIN old = {}
          BY <3>2
        <4> QED BY <4>1
      <3> QED BY <3>1, <3>2
    <2> HIDE DEF old
    <2>4. WindowSound(onChain, name, new)
      <3>1. WindowSound(onChain, name, new)
        BY <1>3, <2>2, <2>3, IngestSound
      <3> QED BY <3>1
    <2> HIDE DEF new
    <2> QED BY <1>4, <2>1, <2>4
  <1> QED BY <1>5, <1>6

LEMMA SellKeeps ==
    ASSUME SellConstants, SellInv, [SellNext]_sellVars
    PROVE  SellInv'
  <1>1. ASSUME NEW t \in DOMAIN onChain, ChainMoves(t) PROVE SellInv'
    <2>1. UNCHANGED <<held, window, sellClock>>
      BY <1>1 DEF ChainMoves
    <2>2. /\ ChainSound(onChain') /\ DOMAIN onChain' = DOMAIN onChain
          /\ \A e : FinalOn(onChain, e) => FinalOn(onChain', e)
      BY <1>1, ChainKeeps DEF SellInv
    <2>3. /\ \A e : EventSound(onChain, e) => EventSound(onChain', e)
          /\ \A c, events : WindowSound(onChain, c, events) => WindowSound(onChain', c, events)
      BY <2>2, LaterSound
    <2> QED BY <2>1, <2>2, <2>3 DEF SellInv
  <1>2. ASSUME NEW t \in DOMAIN onChain, Normalize(t) PROVE SellInv'
    <2> DEFINE now == Truth(t, onChain[t].slot)
               found == Events(t, onChain[t].slot, now.finality, now.reorg, sellClock)
    <2>1. UNCHANGED <<onChain, window, sellClock>>
      BY <1>2 DEF Normalize
    <2>2. held' = [i \in DOMAIN held \cup {EventId(e) : e \in found} |->
                     IF \E e \in found : EventId(e) = i THEN CHOOSE e \in found : EventId(e) = i
                     ELSE held[i]]
      BY <1>2 DEF Normalize
    <2>3. \A e \in found : EventSound(onChain, e)
      BY NormalizedSound
    <2> HIDE DEF found
    <2>4. ASSUME NEW i \in DOMAIN held' PROVE EventSound(onChain, held'[i])
      <3>1. CASE \E e \in found : EventId(e) = i
        <4>1. held'[i] = CHOOSE e \in found : EventId(e) = i
          BY <2>2, <2>4, <3>1
        <4>2. held'[i] \in found
          BY <3>1, <4>1
        <4> QED BY <2>3, <4>2
      <3>2. CASE ~\E e \in found : EventId(e) = i
        <4>1. i \in DOMAIN held /\ held'[i] = held[i]
          BY <2>2, <2>4, <3>2
        <4> QED BY <4>1 DEF SellInv
      <3> QED BY <3>1, <3>2
    <2> QED BY <2>1, <2>4 DEF SellInv
  <1>3. ASSUME NEW i \in DOMAIN held, AppendStatusRevision(i) PROVE SellInv'
    <2> DEFINE now == Truth(CHOOSE t \in DOMAIN onChain : t.tx = held[i].tx, held[i].slot)
               revised == [held[i] EXCEPT !.finality = now.finality, !.reorg = now.reorg]
    <2>1. UNCHANGED <<onChain, window, sellClock>>
      BY <1>3 DEF AppendStatusRevision
    <2>2. held' = [held EXCEPT ![i].finality = now.finality, ![i].reorg = now.reorg]
      BY <1>3 DEF AppendStatusRevision
    <2>3. EventSound(onChain, held[i])
      BY DEF SellInv
    <2>4. EventSound(onChain, revised)
      BY <2>3, RevisedSound
    <2> HIDE DEF now
    <2>5. DOMAIN held' = DOMAIN held /\ held'[i] = revised /\ \A j \in DOMAIN held : j # i => held'[j] = held[j]
      BY <2>2
    <2> HIDE DEF revised
    <2> QED BY <2>1, <2>4, <2>5 DEF SellInv
  <1>4. ASSUME NEW i \in DOMAIN held, NEW supplied, AdapterIngest(i, supplied) PROVE SellInv'
    <2>1. UNCHANGED <<onChain, held, sellClock>>
      BY <1>4 DEF AdapterIngest
    <2>2. \A c \in DOMAIN window' : WindowSound(onChain, c, window'[c])
      BY <1>4, AdapterKeeps
    <2> QED BY <2>1, <2>2 DEF SellInv
  <1>5. ASSUME UNCHANGED <<onChain, held, window>>, sellClock' \in {sellClock, sellClock + 1} PROVE SellInv'
    BY <1>5 DEF SellInv
  <1> QED
    <2>1. CASE \E r \in Ties : LearnTie(r)
      BY <1>5, <2>1 DEF LearnTie
    <2>2. CASE NewAdapter
      BY <1>5, <2>2 DEF NewAdapter
    <2>3. CASE SellTick
      BY <1>5, <2>3 DEF SellTick
    <2>4. CASE UNCHANGED sellVars
      BY <1>5, <2>4 DEF sellVars
    <2> QED BY <1>1, <1>2, <1>3, <1>4, <2>1, <2>2, <2>3, <2>4 DEF SellNext

\* Of what is final on chain one sale is seen in one place.
LEMMA WindowsHold == SellInv => WindowsAreSound
  <1> SUFFICES ASSUME SellInv, NEW c \in DOMAIN window
               PROVE  LET events == window[c] IN
                      /\ \A i, j \in DOMAIN events : Position(events[i]) = Position(events[j]) => i = j
                      /\ \A i \in DOMAIN events : \E t \in DOMAIN onChain :
                            t.tx = events[i].tx /\ onChain[t] = [slot |-> events[i].slot, finality |-> "finalized"]
                      /\ Len(events) < MaxPerKey =>
                            events[Len(events)].observed - events[1].observed <= SellWindow
    BY DEF WindowsAreSound
  <1> DEFINE events == window[c]
  <1>1. WindowSound(onChain, c, events) /\ ChainSound(onChain)
    BY DEF SellInv
  <1> HIDE DEF events
  <1>2. \A i \in DOMAIN events : FinalOn(onChain, events[i])
    BY <1>1 DEF WindowSound
  <1>3. ASSUME NEW i \in DOMAIN events, NEW j \in DOMAIN events,
               Position(events[i]) = Position(events[j])
        PROVE  i = j
    <2>1. events[i].chain = c[1] /\ events[j].chain = c[1]
      BY <1>1 DEF WindowSound
    <2>2. /\ events[i].tx = events[j].tx
          /\ c[1] = "solana" => events[i].index = events[j].index
          /\ c[1] # "solana" => events[i].at = events[j].at
      BY <1>3, <2>1 DEF Position, SolanaPosition, EvmPosition
    <2>3. PICK t \in DOMAIN onChain : t.tx = events[i].tx
                                      /\ onChain[t] = [slot |-> events[i].slot, finality |-> "finalized"]
      BY <1>2 DEF FinalOn
    <2>4. PICK u \in DOMAIN onChain : u.tx = events[j].tx
                                      /\ onChain[u] = [slot |-> events[j].slot, finality |-> "finalized"]
      BY <1>2 DEF FinalOn
    <2>5. t = u
      BY <1>1, <2>2, <2>3, <2>4 DEF ChainSound
    <2>6. events[i].slot = events[j].slot
      BY <2>3, <2>4, <2>5
    <2>7. EventKey(events[i]) = EventKey(events[j])
      BY <2>1, <2>2, <2>6 DEF EventKey
    <2> QED BY <1>1, <2>7 DEF WindowSound
  <1> QED BY <1>1, <1>2, <1>3 DEF WindowSound, FinalOn, events

\* A step of one of the four leaves the others as they are.
LEMMA EvidenceKeeps ==
    ASSUME EvidenceConstants, EvidenceInv,
           [EvidenceNext]_<<sellVars, evmVars, replayVars, researchVars>>
    PROVE  EvidenceInv'
  <1>1. [SellNext]_sellVars /\ [EvmNext]_evmVars /\ [WReplayNext]_replayVars /\ [ResearchNext]_researchVars
    BY DEF EvidenceNext
  <1>2. SellInv'
    BY <1>1, SellKeeps DEF EvidenceInv, EvidenceConstants
  <1>3. EvmInv'
    BY <1>1, EvmKeeps DEF EvidenceInv
  <1>4. WReplayInv'
    BY <1>1, WReplayKeeps DEF EvidenceInv
  <1>5. ResearchInv'
    BY <1>1, ResearchKeeps DEF EvidenceInv
  <1> QED BY <1>2, <1>3, <1>4, <1>5 DEF EvidenceInv

\* Whatever reorganizations, restarts, late deliveries, failing providers, frames and
\* bars there are, for any feeds, wallets, endpoints, markets and variants: the windows
\* of the sell monitor, the clusters of wallets, the evidence of an EVM chain, the
\* replayed pairs and the walk-forward's windows are sound.
THEOREM EvidenceIsSoundHolds ==
    ASSUME EvidenceConstants
    PROVE  EvidenceSpec => []EvidenceIsSound
  <1>1. EvidenceInit => EvidenceInv
    BY SellStarts, EvmStarts, WReplayStarts, ResearchStarts DEF EvidenceInit, EvidenceInv, EvidenceConstants
  <1>2. EvidenceInv /\ [EvidenceNext]_<<sellVars, evmVars, replayVars, researchVars>> => EvidenceInv'
    BY EvidenceKeeps
  <1>3. EvidenceInv => EvidenceIsSound
    <2> SUFFICES ASSUME EvidenceInv PROVE EvidenceIsSound
      OBVIOUS
    <2>1. WindowsAreSound
      BY WindowsHold DEF EvidenceInv
    <2>2. ClustersConcentrate
      BY ClustersHold DEF ClustersConcentrate, EvidenceConstants
    <2>3. EvidenceHidesNothing
      BY NothingHidden DEF EvidenceInv
    <2>4. LookaheadSafe /\ TestsAreUnseen
      BY NoLookahead, TestsUnseen DEF EvidenceInv
    <2> QED BY <2>1, <2>2, <2>3, <2>4 DEF EvidenceIsSound
  <1> QED
    BY <1>1, <1>2, <1>3, PTL DEF EvidenceSpec
=============================================================================
