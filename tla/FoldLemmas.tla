----------------------------- MODULE FoldLemmas -----------------------------
(***************************************************************************)
(* What the proofs need to know of minimal elements and of folds: those of *)
(* the community modules unfold as their definition says, and a sum does   *)
(* not depend on the order in which it takes the elements.                 *)
(***************************************************************************)
EXTENDS Functions, FiniteSetsExt, FiniteSetTheorems, WellFoundedInduction, TLAPS

-----------------------------------------------------------------------------
(* Minimal elements                                                        *)

LEMMA MinimalNat ==
    ASSUME NEW T, T \subseteq Nat, T # {}
    PROVE  \E n \in T : \A m \in T : n <= m
<1>1. PICK n \in T : \A m \in T : <<m, n>> \notin OpToRel(<, Nat)
  BY NatLessThanWellFounded, WFMin
<1>2. \A m \in T : ~(m < n)
  BY <1>1 DEF OpToRel
<1>3. QED
  BY <1>2

LEMMA MinimalFiniteSet ==
    ASSUME NEW D, NEW T, T \subseteq FiniteSubsetsOf(D), T # {}
    PROVE  \E s \in T : \A r \in T : r \subseteq s => r = s
<1>1. PICK s \in T : \A r \in T : <<r, s>> \notin StrictSubsetOrdering(D)
  BY FS_StrictSubsetOrderingWellFounded, WFMin
<1>2. QED
  BY <1>1 DEF StrictSubsetOrdering, FiniteSubsetsOf

-----------------------------------------------------------------------------
(* Sums                                                                    *)

Pick(s) == CHOOSE x \in s : TRUE

\* g is what the fold's recursive function is meant to be on the subsets of S.
Sums(f, S, g) ==
    g = [s \in SUBSET S |-> IF s = {} THEN 0 ELSE f[Pick(s)] + g[s \ {Pick(s)}]]

LEMMA SumIsFold ==
    ASSUME NEW f, NEW S
    PROVE  SumFunctionOnSet(f, S) = (CHOOSE g : Sums(f, S, g))[S]
BY DEF SumFunctionOnSet, FoldFunctionOnSet, MapThenFoldSet, Sums, Pick

Total(f, S) == (CHOOSE g : Sums(f, S, g))[S]

\* Two such functions agree wherever both are defined.
LEMMA SumsAgree ==
    ASSUME NEW f, NEW S, NEW T, NEW g, NEW h, Sums(f, S, g), Sums(f, T, h),
           NEW s, s \subseteq S, s \subseteq T, IsFiniteSet(s)
    PROVE  g[s] = h[s]
<1> DEFINE Differ == {r \in SUBSET s : g[r] # h[r]}
<1>1. ASSUME g[s] # h[s]
      PROVE  FALSE
  <2>1. Differ # {}
    BY <1>1
  <2>2. Differ \subseteq FiniteSubsetsOf(s)
    BY FS_Subset DEF FiniteSubsetsOf
  <2>3. PICK r \in Differ : \A q \in Differ : q \subseteq r => q = r
    <3> HIDE DEF Differ
    <3>1. QED
      BY <2>1, <2>2, MinimalFiniteSet
  <2>4. r \in SUBSET S /\ r \in SUBSET T
    OBVIOUS
  <2>5. /\ g[r] = IF r = {} THEN 0 ELSE f[Pick(r)] + g[r \ {Pick(r)}]
        /\ h[r] = IF r = {} THEN 0 ELSE f[Pick(r)] + h[r \ {Pick(r)}]
    BY <2>4 DEF Sums
  <2>6. r # {}
    BY <2>5
  <2>7. Pick(r) \in r
    BY <2>6 DEF Pick
  <2>8. r \ {Pick(r)} \notin Differ
    BY <2>3, <2>7
  <2>9. QED
    BY <2>5, <2>8
<1>2. QED
  BY <1>1

\* There is such a function on every finite set, and it gives the totals of the subsets.
LEMMA SumsExist ==
    ASSUME NEW f, NEW S, IsFiniteSet(S)
    PROVE  \E g : Sums(f, S, g)
<1> DEFINE Without == {s \in SUBSET S : ~\E g : Sums(f, s, g)}
<1>1. ASSUME ~\E g : Sums(f, S, g)
      PROVE  FALSE
  <2>1. Without # {}
    BY <1>1
  <2>2. Without \subseteq FiniteSubsetsOf(S)
    BY FS_Subset DEF FiniteSubsetsOf
  <2>3. PICK s \in Without : \A q \in Without : q \subseteq s => q = s
    <3> HIDE DEF Without
    <3>1. QED
      BY <2>1, <2>2, MinimalFiniteSet
  <2> DEFINE Rest(r) == r \ {Pick(r)}
             g == [r \in SUBSET s |-> IF r = {} THEN 0 ELSE f[Pick(r)] + Total(f, Rest(r))]
  <2>4. ASSUME NEW q, q \subseteq s, q # s
        PROVE  Sums(f, q, CHOOSE h : Sums(f, q, h))
    <3>1. q \notin Without /\ q \in SUBSET S
      BY <2>3, <2>4
    <3>2. QED
      BY <3>1
  <2>5. ASSUME NEW q, q \subseteq s, q # s
        PROVE  Total(f, q) = IF q = {} THEN 0 ELSE f[Pick(q)] + Total(f, Rest(q))
    <3>1. Sums(f, q, CHOOSE h : Sums(f, q, h))
      BY <2>4, <2>5
    <3>2. CASE q = {}
      BY <3>1, <3>2 DEF Total, Sums
    <3>3. CASE q # {}
      <4>1. Pick(q) \in q
        BY <3>3 DEF Pick
      <4>2. Total(f, q) = f[Pick(q)] + (CHOOSE h : Sums(f, q, h))[Rest(q)]
        BY <3>1, <3>3 DEF Total, Sums
      <4>3. Sums(f, Rest(q), CHOOSE h : Sums(f, Rest(q), h))
        <5>1. Rest(q) \subseteq s /\ Rest(q) # s
          BY <2>5, <4>1
        <5>2. QED
          BY <2>4, <5>1
      <4>4. IsFiniteSet(Rest(q))
        <5>1. Rest(q) \in SUBSET S
          BY <2>5
        <5>2. QED
          BY <5>1, FS_Subset
      <4>5. (CHOOSE h : Sums(f, q, h))[Rest(q)] = Total(f, Rest(q))
        <5>1. Rest(q) \subseteq q
          OBVIOUS
        <5>2. QED
          BY <3>1, <4>3, <4>4, <5>1, SumsAgree DEF Total
      <4>6. QED
        BY <3>3, <4>2, <4>5
    <3>4. QED
      BY <3>2, <3>3
  <2>6. ASSUME NEW r \in SUBSET s
        PROVE  g[r] = IF r = {} THEN 0 ELSE f[Pick(r)] + g[Rest(r)]
    <3>1. CASE r = {}
      BY <3>1
    <3>2. CASE r # {}
      <4>1. Pick(r) \in r
        BY <3>2 DEF Pick
      <4>2. Rest(r) \in SUBSET s /\ Rest(r) # s
        BY <4>1
      <4>3. Total(f, Rest(r)) = g[Rest(r)]
        BY <2>5, <4>2
      <4>4. g[r] = f[Pick(r)] + Total(f, Rest(r))
        BY <3>2
      <4>5. QED
        BY <3>2, <4>3, <4>4
    <3>3. QED
      BY <3>1, <3>2
  <2>7. g = [r \in SUBSET s |-> IF r = {} THEN 0 ELSE f[Pick(r)] + g[Rest(r)]]
    <3>1. DOMAIN g = SUBSET s
      OBVIOUS
    <3>2. g = [r \in SUBSET s |-> g[r]]
      OBVIOUS
    <3> HIDE DEF g
    <3>3. QED
      BY <2>6, <3>2
  <2>8. Sums(f, s, g)
    <3> HIDE DEF g
    <3>1. QED
      BY <2>7 DEF Sums
  <2>9. QED
    BY <2>8, <2>3
<1>2. QED
  BY <1>1

\* The definition unfolds.
LEMMA SumUnfolds ==
    ASSUME NEW f, NEW S, IsFiniteSet(S)
    PROVE  SumFunctionOnSet(f, S) =
             IF S = {} THEN 0 ELSE f[Pick(S)] + SumFunctionOnSet(f, S \ {Pick(S)})
<1>1. Sums(f, S, CHOOSE g : Sums(f, S, g))
  BY SumsExist
<1>2. CASE S = {}
  BY <1>1, <1>2, SumIsFold DEF Sums
<1>3. CASE S # {}
  <2> DEFINE R == S \ {Pick(S)}
  <2>1. R \subseteq S /\ IsFiniteSet(R)
    BY FS_Subset
  <2>2. Sums(f, R, CHOOSE g : Sums(f, R, g))
    BY <2>1, SumsExist
  <2>3. (CHOOSE g : Sums(f, S, g))[R] = (CHOOSE g : Sums(f, R, g))[R]
    BY <1>1, <2>1, <2>2, SumsAgree
  <2>4. (CHOOSE g : Sums(f, S, g))[S] = f[Pick(S)] + (CHOOSE g : Sums(f, S, g))[R]
    BY <1>1, <1>3 DEF Sums
  <2>5. /\ SumFunctionOnSet(f, S) = (CHOOSE g : Sums(f, S, g))[S]
        /\ SumFunctionOnSet(f, R) = (CHOOSE g : Sums(f, R, g))[R]
    BY SumIsFold
  <2>6. SumFunctionOnSet(f, S) = f[Pick(S)] + SumFunctionOnSet(f, R)
    BY <2>3, <2>4, <2>5
  <2>7. QED
    BY <1>3, <2>6
<1>4. QED
  BY <1>2, <1>3

LEMMA SumEmpty == ASSUME NEW f PROVE SumFunctionOnSet(f, {}) = 0
BY SumUnfolds, FS_EmptySet

LEMMA SumType ==
    ASSUME NEW D, NEW f \in [D -> Int], NEW S \in SUBSET D, IsFiniteSet(S)
    PROVE  SumFunctionOnSet(f, S) \in Int
<1> DEFINE Bad == {s \in SUBSET S : SumFunctionOnSet(f, s) \notin Int}
<1>1. ASSUME SumFunctionOnSet(f, S) \notin Int
      PROVE  FALSE
  <2>1. Bad # {}
    BY <1>1
  <2>2. Bad \subseteq FiniteSubsetsOf(S)
    BY FS_Subset DEF FiniteSubsetsOf
  <2>3. PICK s \in Bad : \A r \in Bad : r \subseteq s => r = s
    <3> HIDE DEF Bad
    <3>1. QED
      BY <2>1, <2>2, MinimalFiniteSet
  <2>4. s \in SUBSET S /\ IsFiniteSet(s)
    BY <2>2 DEF FiniteSubsetsOf
  <2>5. SumFunctionOnSet(f, s) =
          IF s = {} THEN 0 ELSE f[Pick(s)] + SumFunctionOnSet(f, s \ {Pick(s)})
    BY <2>4, SumUnfolds
  <2>6. s # {}
    BY <2>5
  <2>7. Pick(s) \in s
    BY <2>6 DEF Pick
  <2>8. s \ {Pick(s)} \in SUBSET S /\ s \ {Pick(s)} \notin Bad
    BY <2>3, <2>7
  <2>9. f[Pick(s)] \in Int
    BY <2>4, <2>7
  <2>10. QED
    BY <2>5, <2>6, <2>8, <2>9
<1>2. QED
  BY <1>1

\* Any element may be taken first.
LEMMA SumRemove ==
    ASSUME NEW D, NEW f \in [D -> Int], NEW S \in SUBSET D, IsFiniteSet(S), NEW x \in S
    PROVE  SumFunctionOnSet(f, S) = f[x] + SumFunctionOnSet(f, S \ {x})
<1> DEFINE Sum(s) == SumFunctionOnSet(f, s)
           Bad == {s \in SUBSET S : \E y \in s : Sum(s) # f[y] + Sum(s \ {y})}
<1>1. ASSUME Sum(S) # f[x] + Sum(S \ {x})
      PROVE  FALSE
  <2>1. Bad # {}
    BY <1>1
  <2>2. Bad \subseteq FiniteSubsetsOf(S)
    BY FS_Subset DEF FiniteSubsetsOf
  <2>3. PICK s \in Bad : \A r \in Bad : r \subseteq s => r = s
    <3> HIDE DEF Bad
    <3>1. QED
      BY <2>1, <2>2, MinimalFiniteSet
  <2>4. s \in SUBSET S /\ IsFiniteSet(s)
    BY <2>2 DEF FiniteSubsetsOf
  <2>5. PICK y \in s : Sum(s) # f[y] + Sum(s \ {y})
    BY <2>3
  <2> DEFINE p == Pick(s)
  <2>6. p \in s
    BY <2>5 DEF Pick
  <2>7. Sum(s) = f[p] + Sum(s \ {p})
    BY <2>4, <2>6, SumUnfolds
  <2> HIDE DEF p
  <2>8. p # y
    BY <2>5, <2>7
  <2>9. s \ {p} \notin Bad /\ s \ {y} \notin Bad
    BY <2>3, <2>5, <2>6
  <2>10. Sum(s \ {p}) = f[y] + Sum((s \ {p}) \ {y})
    BY <2>4, <2>5, <2>8, <2>9
  <2>11. Sum(s \ {y}) = f[p] + Sum((s \ {y}) \ {p})
    BY <2>4, <2>6, <2>8, <2>9
  <2>12. (s \ {p}) \ {y} = (s \ {y}) \ {p}
    OBVIOUS
  <2>13. Sum((s \ {y}) \ {p}) \in Int
    <3>1. (s \ {y}) \ {p} \in SUBSET D /\ IsFiniteSet((s \ {y}) \ {p})
      BY <2>4, FS_Subset
    <3>2. QED
      BY <3>1, SumType
  <2>14. f[y] \in Int /\ f[p] \in Int
    BY <2>4, <2>5, <2>6
  <2> DEFINE rest == Sum((s \ {y}) \ {p})
  <2>15. f[p] + (f[y] + rest) = f[y] + (f[p] + rest)
    <3>1. rest \in Int
      BY <2>13
    <3> HIDE DEF rest
    <3>2. QED
      BY <2>14, <3>1
  <2>16. QED
    BY <2>5, <2>7, <2>10, <2>11, <2>12, <2>15
<1>2. QED
  BY <1>1

\* What a function adds to another on a subset B is added to the sum.
LEMMA SumPlus ==
    ASSUME NEW S, IsFiniteSet(S), NEW B \in SUBSET S,
           NEW f \in [S -> Int], NEW g \in [B -> Int], NEW h \in [S -> Int],
           \A x \in S : h[x] = IF x \in B THEN f[x] + g[x] ELSE f[x]
    PROVE  SumFunctionOnSet(h, S) = SumFunctionOnSet(f, S) + SumFunctionOnSet(g, B)
<1> DEFINE F(s) == SumFunctionOnSet(f, s)
           G(s) == SumFunctionOnSet(g, s)
           H(s) == SumFunctionOnSet(h, s)
           Bad == {s \in SUBSET S : H(s) # F(s) + G(s \cap B)}
<1>1. ASSUME H(S) # F(S) + G(B)
      PROVE  FALSE
  <2>1. Bad # {}
    <3>1. S \cap B = B
      OBVIOUS
    <3>2. QED
      BY <1>1, <3>1
  <2>2. Bad \subseteq FiniteSubsetsOf(S)
    BY FS_Subset DEF FiniteSubsetsOf
  <2>3. PICK s \in Bad : \A r \in Bad : r \subseteq s => r = s
    <3> HIDE DEF Bad
    <3>1. QED
      BY <2>1, <2>2, MinimalFiniteSet
  <2>4. s \in SUBSET S /\ IsFiniteSet(s) /\ H(s) # F(s) + G(s \cap B)
    BY <2>2 DEF FiniteSubsetsOf
  <2>5. s # {}
    <3>1. {} \cap B = {}
      OBVIOUS
    <3>2. H({}) = 0 /\ F({}) = 0 /\ G({}) = 0
      BY SumEmpty
    <3>3. QED
      BY <2>4, <3>1, <3>2
  <2>6. PICK x \in s : TRUE
    BY <2>5
  <2> DEFINE r == s \ {x}
  <2>7. r \in SUBSET S /\ r \notin Bad /\ IsFiniteSet(r) /\ IsFiniteSet(r \cap B)
    <3>1. IsFiniteSet(r)
      BY <2>4, FS_Subset
    <3>2. IsFiniteSet(r \cap B)
      BY <3>1, FS_Subset
    <3>3. QED
      BY <2>3, <2>4, <2>6, <3>1, <3>2
  <2>8. H(r) = F(r) + G(r \cap B)
    BY <2>7
  <2>9. H(s) = h[x] + H(r) /\ F(s) = f[x] + F(r)
    BY <2>4, <2>6, SumRemove
  <2>10. F(r) \in Int /\ G(r \cap B) \in Int
    BY <2>7, SumType
  <2>11. f[x] \in Int /\ h[x] \in Int
    BY <2>4, <2>6
  <2>12. CASE x \in B
    <3>1. s \cap B \in SUBSET B /\ IsFiniteSet(s \cap B) /\ x \in s \cap B
      BY <2>4, <2>6, <2>12, FS_Subset
    <3>2. G(s \cap B) = g[x] + G((s \cap B) \ {x})
      BY <3>1, SumRemove
    <3>3. (s \cap B) \ {x} = r \cap B
      OBVIOUS
    <3>4. g[x] \in Int /\ h[x] = f[x] + g[x]
      BY <2>4, <2>6, <2>12
    <3>5. (f[x] + g[x]) + (F(r) + G(r \cap B)) = (f[x] + F(r)) + (g[x] + G(r \cap B))
      BY <2>10, <2>11, <3>4
    <3>6. QED
      BY <2>4, <2>8, <2>9, <3>2, <3>3, <3>4, <3>5
  <2>13. CASE x \notin B
    <3>1. s \cap B = r \cap B
      BY <2>13
    <3>2. h[x] = f[x]
      BY <2>4, <2>6, <2>13
    <3>3. f[x] + (F(r) + G(r \cap B)) = (f[x] + F(r)) + G(r \cap B)
      BY <2>10, <2>11
    <3>4. QED
      BY <2>4, <2>8, <2>9, <3>1, <3>2, <3>3
  <2>14. QED
    BY <2>12, <2>13
<1>2. QED
  BY <1>1

\* A sum of numbers that are not negative is none.
LEMMA SumNat ==
    ASSUME NEW D, NEW f \in [D -> Nat], NEW S \in SUBSET D, IsFiniteSet(S)
    PROVE  SumFunctionOnSet(f, S) \in Nat
<1> DEFINE Bad == {s \in SUBSET S : SumFunctionOnSet(f, s) \notin Nat}
<1>1. ASSUME SumFunctionOnSet(f, S) \notin Nat
      PROVE  FALSE
  <2>1. Bad # {}
    BY <1>1
  <2>2. Bad \subseteq FiniteSubsetsOf(S)
    BY FS_Subset DEF FiniteSubsetsOf
  <2>3. PICK s \in Bad : \A r \in Bad : r \subseteq s => r = s
    <3> HIDE DEF Bad
    <3>1. QED
      BY <2>1, <2>2, MinimalFiniteSet
  <2>4. s \in SUBSET S /\ IsFiniteSet(s)
    BY <2>2 DEF FiniteSubsetsOf
  <2>5. SumFunctionOnSet(f, s) =
          IF s = {} THEN 0 ELSE f[Pick(s)] + SumFunctionOnSet(f, s \ {Pick(s)})
    BY <2>4, SumUnfolds
  <2>6. s # {}
    BY <2>5
  <2>7. Pick(s) \in s
    BY <2>6 DEF Pick
  <2>8. s \ {Pick(s)} \in SUBSET S /\ s \ {Pick(s)} \notin Bad
    BY <2>3, <2>7
  <2>9. f[Pick(s)] \in Nat
    BY <2>4, <2>7
  <2>10. QED
    BY <2>5, <2>6, <2>8, <2>9
<1>2. QED
  BY <1>1

\* Two functions that agree on a set have the same sum over it.
LEMMA SumEqual ==
    ASSUME NEW S, IsFiniteSet(S), NEW f \in [S -> Int], NEW D, NEW h \in [D -> Int],
           S \subseteq D, \A x \in S : h[x] = f[x]
    PROVE  SumFunctionOnSet(h, S) = SumFunctionOnSet(f, S)
<1> DEFINE F(s) == SumFunctionOnSet(f, s)
           H(s) == SumFunctionOnSet(h, s)
           Bad == {s \in SUBSET S : H(s) # F(s)}
<1>1. ASSUME H(S) # F(S)
      PROVE  FALSE
  <2>1. Bad # {}
    BY <1>1
  <2>2. Bad \subseteq FiniteSubsetsOf(S)
    BY FS_Subset DEF FiniteSubsetsOf
  <2>3. PICK s \in Bad : \A r \in Bad : r \subseteq s => r = s
    <3> HIDE DEF Bad
    <3>1. QED
      BY <2>1, <2>2, MinimalFiniteSet
  <2>4. s \in SUBSET S /\ IsFiniteSet(s) /\ H(s) # F(s)
    BY <2>2 DEF FiniteSubsetsOf
  <2>5. s # {}
    BY <2>4, SumEmpty
  <2>6. PICK x \in s : TRUE
    BY <2>5
  <2>7. s \ {x} \in SUBSET S /\ s \ {x} \notin Bad
    BY <2>3, <2>6
  <2>8. H(s) = h[x] + H(s \ {x}) /\ F(s) = f[x] + F(s \ {x})
    BY <2>4, <2>6, SumRemove
  <2>9. h[x] = f[x]
    BY <2>4, <2>6
  <2>10. QED
    BY <2>4, <2>7, <2>8, <2>9
<1>2. QED
  BY <1>1

\* One element more.
LEMMA SumExtend ==
    ASSUME NEW S, IsFiniteSet(S), NEW f \in [S -> Int], NEW x, x \notin S,
           NEW g \in [S \cup {x} -> Int], \A y \in S : g[y] = f[y]
    PROVE  SumFunctionOnSet(g, S \cup {x}) = g[x] + SumFunctionOnSet(f, S)
<1> DEFINE T == S \cup {x}
<1>1. IsFiniteSet(T) /\ x \in T /\ T \ {x} = S
  <2>1. IsFiniteSet({x})
    BY FS_Singleton
  <2>2. IsFiniteSet(S \cup {x})
    BY <2>1, FS_Union
  <2>3. QED
    BY <2>2
<1>2. SumFunctionOnSet(g, S) = SumFunctionOnSet(f, S)
  <2>1. S \subseteq T
    OBVIOUS
  <2>2. QED
    BY <2>1, SumEqual
<1> HIDE DEF T
<1>3. g \in [T -> Int]
  BY DEF T
<1>4. SumFunctionOnSet(g, T) = g[x] + SumFunctionOnSet(g, T \ {x})
  BY <1>1, <1>3, SumRemove
<1>5. QED
  BY <1>1, <1>2, <1>4 DEF T


-----------------------------------------------------------------------------
(* Folds from the left                                                     *)

LEMMA UpwardSet ==
    ASSUME NEW N \in Nat, NEW T, 0 \in T, \A n \in 1..N : n - 1 \in T => n \in T
    PROVE  \A n \in 0..N : n \in T
<1> DEFINE Bad == {n \in 0..N : n \notin T}
<1>1. ASSUME Bad # {}
      PROVE  FALSE
  <2>1. PICK n \in Bad : \A m \in Bad : n <= m
    <3>1. Bad \subseteq Nat
      OBVIOUS
    <3> HIDE DEF Bad
    <3>2. QED
      BY <1>1, <3>1, MinimalNat
  <2>2. n \in 1..N /\ n - 1 \in 0..N /\ n - 1 \notin Bad
    BY <2>1
  <2>3. QED
    BY <2>1, <2>2
<1>2. QED
  BY <1>1

LEMMA TopOf ==
    ASSUME NEW n \in Nat, NEW s, s \subseteq 1..n, n \in s
    PROVE  Max(s) = n
<1>1. \A m \in s : n >= m
  OBVIOUS
<1>2. \A m \in s : (\A k \in s : m >= k) => m = n
  BY <1>1
<1>3. QED
  BY <1>1, <1>2 DEF Max

LEMMA TopIn ==
    ASSUME NEW N \in Nat, NEW s \in SUBSET (1..N), s # {}
    PROVE  Max(s) \in s
<1> DEFINE Over == {N - n : n \in s}
<1>1. Over \subseteq Nat /\ Over # {}
  <2>1. \A n \in s : n \in 1..N /\ N - n \in Nat
    OBVIOUS
  <2>2. QED
    BY <2>1
<1>2. PICK k \in Over : \A m \in Over : k <= m
  <2> HIDE DEF Over
  <2>1. QED
    BY <1>1, MinimalNat
<1>3. PICK n \in s : k = N - n
  BY <1>2
<1>4. \A m \in s : n >= m
  <2>1. ASSUME NEW m \in s
        PROVE  n >= m
    <3>1. k <= N - m
      BY <1>2
    <3>2. QED
      BY <1>3, <3>1
  <2>2. QED
    BY <2>1
<1>5. QED
  BY <1>4 DEF Max

\* g is what the fold of step over the positions 1..n is meant to be on their subsets.
Steps(base, step, n, g) ==
    g = [s \in SUBSET (1..n) |-> IF s = {} THEN base
                                 ELSE step[<<g[s \ {Max(s)}], Max(s)>>]]

\* There is such a function for any number of steps, and it stays where the steps stay.
LEMMA StepsExist ==
    ASSUME NEW A, NEW base \in A, NEW N \in Nat, NEW step \in [A \X (1..N) -> A]
    PROVE  \E g \in [SUBSET (1..N) -> A] : Steps(base, step, N, g)
<1> DEFINE T == {n \in 0..N : \E g \in [SUBSET (1..n) -> A] : Steps(base, step, n, g)}
<1>1. 0 \in T
  <2> DEFINE g == [s \in SUBSET (1..0) |-> base]
  <2>1. \A s \in SUBSET (1..0) : s = {}
    OBVIOUS
  <2>2. g \in [SUBSET (1..0) -> A] /\ Steps(base, step, 0, g)
    BY <2>1 DEF Steps
  <2>3. QED
    BY <2>2
<1>2. ASSUME NEW n \in 1..N, n - 1 \in T
      PROVE  n \in T
  <2>1. PICK h \in [SUBSET (1..n - 1) -> A] : Steps(base, step, n - 1, h)
    BY <1>2
  <2> DEFINE g == [s \in SUBSET (1..n) |->
                    IF n \in s THEN step[<<h[s \ {n}], n>>] ELSE h[s]]
  <2>2. \A s \in SUBSET (1..n) : /\ s \ {n} \in SUBSET (1..n - 1)
                                 /\ n \notin s => s \in SUBSET (1..n - 1)
    OBVIOUS
  <2>3. g \in [SUBSET (1..n) -> A]
    <3>1. ASSUME NEW s \in SUBSET (1..n)
          PROVE  g[s] \in A
      <4>1. CASE n \in s
        <5>1. h[s \ {n}] \in A
          BY <2>2
        <5>2. <<h[s \ {n}], n>> \in A \X (1..N)
          BY <5>1
        <5>3. QED
          BY <4>1, <5>2
      <4>2. CASE n \notin s
        BY <2>2, <4>2
      <4>3. QED
        BY <4>1, <4>2
    <3>2. QED
      BY <3>1
  <2>4. ASSUME NEW s \in SUBSET (1..n)
        PROVE  g[s] = IF s = {} THEN base ELSE step[<<g[s \ {Max(s)}], Max(s)>>]
    <3>1. CASE n \in s
      <4>1. Max(s) = n
        <5>1. n \in Nat /\ s \subseteq 1..n
          OBVIOUS
        <5>2. QED
          BY <3>1, <5>1, TopOf
      <4>2. g[s \ {n}] = h[s \ {n}]
        BY <2>2
      <4>3. QED
        BY <3>1, <4>1, <4>2
    <3>2. CASE n \notin s /\ s # {}
      <4>1. s \in SUBSET (1..n - 1) /\ g[s] = h[s]
        BY <2>2, <3>2
      <4>2. g[s \ {Max(s)}] = h[s \ {Max(s)}]
        <5>1. s \ {Max(s)} \in SUBSET (1..n) /\ n \notin s \ {Max(s)}
          BY <3>2
        <5>2. QED
          BY <5>1
      <4>3. h[s] = step[<<h[s \ {Max(s)}], Max(s)>>]
        BY <2>1, <3>2, <4>1 DEF Steps
      <4>4. QED
        BY <3>2, <4>1, <4>2, <4>3
    <3>3. CASE s = {}
      <4>1. {} \in SUBSET (1..n - 1) /\ h[{}] = base
        BY <2>1 DEF Steps
      <4>2. g[{}] = h[{}]
        OBVIOUS
      <4>3. QED
        BY <3>3, <4>1, <4>2
    <3>4. QED
      BY <3>1, <3>2, <3>3
  <2>5. Steps(base, step, n, g)
    <3>1. g = [s \in SUBSET (1..n) |-> g[s]]
      OBVIOUS
    <3> HIDE DEF g
    <3>2. QED
      BY <2>4, <3>1 DEF Steps
  <2>6. n \in 0..N
    OBVIOUS
  <2> HIDE DEF g
  <2>7. QED
    BY <2>3, <2>5, <2>6
<1>3. N \in T
  <2> HIDE DEF T
  <2>1. QED
    BY <1>1, <1>2, UpwardSet
<1>4. QED
  BY <1>3

LEMMA Initials ==
    ASSUME NEW N \in Nat, NEW n \in 1..N
    PROVE  /\ 1..n \in SUBSET (1..N) /\ 1..n # {} /\ 1..n - 1 \in SUBSET (1..N)
           /\ Max(1..n) = n /\ (1..n) \ {Max(1..n)} = 1..n - 1
<1>1. Max(1..n) = n
  <2>1. n \in Nat /\ 1..n \subseteq 1..n /\ n \in 1..n
    OBVIOUS
  <2>2. QED
    BY <2>1, TopOf
<1>2. (1..n) \ {n} = 1..n - 1
  OBVIOUS
<1>3. QED
  BY <1>1, <1>2

LEMMA SumUpTo ==
    ASSUME NEW N \in Nat, NEW f \in [1..N -> Int], NEW n \in 1..N
    PROVE  /\ SumFunctionOnSet(f, 1..(n - 1)) \in Int
           /\ SumFunctionOnSet(f, 1..n) = f[n] + SumFunctionOnSet(f, 1..(n - 1))
<1>1. n \in 1..n /\ 1..n \in SUBSET (1..N) /\ 1..(n - 1) \in SUBSET (1..N)
  OBVIOUS
<1>2. (1..n) \ {n} = 1..(n - 1)
  <2>1. \A m : m \in (1..n) \ {n} <=> m \in 1..(n - 1)
    OBVIOUS
  <2>2. QED
    BY <2>1
<1>3. IsFiniteSet(1..n) /\ IsFiniteSet(1..(n - 1))
  BY FS_Interval
<1>4. SumFunctionOnSet(f, 1..n) = f[n] + SumFunctionOnSet(f, (1..n) \ {n})
  BY <1>1, <1>3, SumRemove
<1>5. QED
  BY <1>1, <1>2, <1>3, <1>4, SumType

LEMMA StepWithin ==
    ASSUME NEW n \in Nat, NEW B \in Nat, NEW s \in Int, NEW t \in Int, NEW a \in Int, NEW b \in Int,
           2 * (t - s) \in -((n - 1) * B)..(n - 1) * B, 2 * (b - a) \in -B..B
    PROVE  2 * ((b + t) - (a + s)) \in -(n * B)..n * B
<1> DEFINE part == (n - 1) * B
           all == n * B
<1>1. part \in Int /\ all = part + B
  OBVIOUS
<1>2. 2 * (t - s) \in -part..part
  OBVIOUS
<1> HIDE DEF part, all
<1>3. 2 * ((b + t) - (a + s)) \in -all..all
  BY <1>1, <1>2
<1>4. QED
  BY <1>3 DEF all

\* Two functions that are nowhere further apart than half of B have sums that are
\* no further apart than half of B for each of what is summed.
LEMMA SumWithin ==
    ASSUME NEW N \in Nat, NEW B \in Nat, NEW f \in [1..N -> Int], NEW h \in [1..N -> Int],
           \A n \in 1..N : 2 * (h[n] - f[n]) \in -B..B
    PROVE  2 * (SumFunctionOnSet(h, 1..N) - SumFunctionOnSet(f, 1..N)) \in -(N * B)..N * B
<1> DEFINE F(n) == SumFunctionOnSet(f, 1..n)
           H(n) == SumFunctionOnSet(h, 1..n)
           T == {n \in 0..N : 2 * (H(n) - F(n)) \in -(n * B)..n * B}
<1>1. 0 \in T
  <2>1. 1..0 = {}
    OBVIOUS
  <2>2. F(0) = 0 /\ H(0) = 0
    BY <2>1, SumEmpty
  <2>3. 0 * B = 0
    OBVIOUS
  <2> HIDE DEF F, H
  <2>4. 2 * (H(0) - F(0)) \in -(0 * B)..0 * B
    BY <2>2, <2>3
  <2>5. QED
    BY <2>4
<1>2. ASSUME NEW n \in 1..N, n - 1 \in T
      PROVE  n \in T
  <2>1. F(n) = f[n] + F(n - 1) /\ F(n - 1) \in Int
    BY SumUpTo
  <2>2. H(n) = h[n] + H(n - 1) /\ H(n - 1) \in Int
    BY SumUpTo
  <2>3. 2 * (H(n - 1) - F(n - 1)) \in -((n - 1) * B)..(n - 1) * B
    BY <1>2
  <2>4. f[n] \in Int /\ h[n] \in Int /\ 2 * (h[n] - f[n]) \in -B..B
    OBVIOUS
  <2> HIDE DEF F, H
  <2>5. 2 * (H(n) - F(n)) \in -(n * B)..n * B
    <3>1. n \in Nat
      OBVIOUS
    <3>2. 2 * ((h[n] + H(n - 1)) - (f[n] + F(n - 1))) \in -(n * B)..n * B
      BY <3>1, <2>1, <2>2, <2>3, <2>4, StepWithin
    <3>3. QED
      BY <3>2, <2>1, <2>2
  <2>6. QED
    BY <2>5
<1> HIDE DEF T
<1>3. \A n \in 0..N : n \in T
  BY <1>1, <1>2, UpwardSet
<1>4. N \in T
  BY <1>3
<1>5. QED
  BY <1>4 DEF T
=============================================================================
