---------------------------- MODULE SumTheorems -----------------------------
(*****************************************************************************)
(* Sums of functions over finite sets, as FiniteSetsExt defines them.  The   *)
(* library proves nothing of them, and its induction over finite sets takes  *)
(* an operator; the proofs go by a minimal counterexample instead: the sets  *)
(* for which a statement fails form a set of subsets, which has a minimal    *)
(* element if it is not empty, and taking one element away refutes it.       *)
(*****************************************************************************)
EXTENDS FiniteSetsExt, FiniteSetTheorems, TLAPS

\* Subsets of a finite set with some property have a minimal one among them.
LEMMA MinimalSubset ==
  ASSUME NEW S, IsFiniteSet(S), NEW D \in SUBSET SUBSET S, D # {}
  PROVE  \E T \in D : \A x \in T : T \ {x} \notin D
<1>1. IsWellFoundedOn(StrictSubsetOrdering(S), SUBSET S)
  BY FS_StrictSubsetOrderingWellFounded, FS_FiniteSubsetsOfFinite
<1>2. PICK T \in D : \A y \in D : ~(<<y, T>> \in StrictSubsetOrdering(S))
  BY <1>1, WFMin
<1>3. ASSUME NEW x \in T PROVE T \ {x} \notin D
  <2>1. /\ T \ {x} \in SUBSET S /\ T \in SUBSET S
        /\ T \ {x} \subseteq T /\ T \ {x} # T
    OBVIOUS
  <2>2. <<T \ {x}, T>> \in StrictSubsetOrdering(S)
    BY <2>1 DEF StrictSubsetOrdering
  <2> QED
    BY <1>2, <2>2
<1> QED
  BY <1>3

Pick(s) == CHOOSE y \in s : TRUE

Unfolds(f, T, g) ==
  g = [s \in SUBSET T |-> IF s = {} THEN 0 ELSE f[Pick(s)] + g[s \ {Pick(s)}]]

\* One unfolding of the recursive function behind a sum.
LEMMA UnfoldsOnce ==
  ASSUME NEW f, NEW T, NEW g, Unfolds(f, T, g), NEW s \in SUBSET T
  PROVE  g[s] = IF s = {} THEN 0 ELSE f[Pick(s)] + g[s \ {Pick(s)}]
<1> DEFINE h == [r \in SUBSET T |-> IF r = {} THEN 0 ELSE f[Pick(r)] + g[r \ {Pick(r)}]]
<1>1. g = h
  BY DEF Unfolds
<1>2. h[s] = IF s = {} THEN 0 ELSE f[Pick(s)] + g[s \ {Pick(s)}]
  OBVIOUS
<1> QED
  BY <1>1, <1>2

\* The element a sum takes first is in the set.
LEMMA PickIn ==
  ASSUME NEW s, s # {}
  PROVE  Pick(s) \in s
BY DEF Pick

\* Two such functions agree wherever both are defined.
LEMMA UnfoldsAgree ==
  ASSUME NEW f, NEW S, IsFiniteSet(S), NEW T, S \subseteq T, NEW U, S \subseteq U,
         NEW g, Unfolds(f, T, g), NEW h, Unfolds(f, U, h)
  PROVE  g[S] = h[S]
<1> DEFINE D == {s \in SUBSET S : g[s] # h[s]}
<1>1. SUFFICES ASSUME D # {} PROVE FALSE
  OBVIOUS
<1>2. PICK s \in D : \A x \in s : s \ {x} \notin D
  <2>1. D \in SUBSET SUBSET S
    OBVIOUS
  <2> HIDE DEF D
  <2> QED
    BY <1>1, <2>1, MinimalSubset
<1>3. s \in SUBSET T /\ s \in SUBSET U
  OBVIOUS
<1>4. /\ g[s] = IF s = {} THEN 0 ELSE f[Pick(s)] + g[s \ {Pick(s)}]
      /\ h[s] = IF s = {} THEN 0 ELSE f[Pick(s)] + h[s \ {Pick(s)}]
  BY <1>3, UnfoldsOnce
<1>5. s # {}
  BY <1>4
<1>6. Pick(s) \in s
  BY <1>5, PickIn
<1>7. g[s \ {Pick(s)}] = h[s \ {Pick(s)}]
  BY <1>2, <1>6
<1> QED
  BY <1>4, <1>5, <1>7

\* There is such a function on the subsets of every finite set.
LEMMA UnfoldsExists ==
  ASSUME NEW f, NEW S, IsFiniteSet(S)
  PROVE  \E g : Unfolds(f, S, g)
<1> DEFINE D == {T \in SUBSET S : ~ \E g : Unfolds(f, T, g)}
<1>1. SUFFICES ASSUME D # {} PROVE FALSE
  OBVIOUS
<1>2. PICK T \in D : \A x \in T : T \ {x} \notin D
  <2>1. D \in SUBSET SUBSET S
    OBVIOUS
  <2> HIDE DEF D
  <2> QED
    BY <1>1, <2>1, MinimalSubset
<1> DEFINE G(y) == CHOOSE g : Unfolds(f, T \ {y}, g)
           h == [s \in SUBSET T |-> IF s = T THEN (IF T = {} THEN 0 ELSE f[Pick(T)] + G(Pick(T))[T \ {Pick(T)}]) ELSE G(Pick(T \ s))[s]]
<1>3. ASSUME NEW y \in T PROVE Unfolds(f, T \ {y}, G(y))
  BY <1>2
<1>4. IsFiniteSet(T)
  BY FS_Subset
<1>5. ASSUME NEW s \in SUBSET T, NEW y \in T \ s PROVE  s # T /\ h[s] = G(y)[s]
  <2>1. s # T
    OBVIOUS
  <2> DEFINE z == Pick(T \ s)
  <2>2. z \in T /\ z \notin s
    BY PickIn
  <2>3. h[s] = G(z)[s]
    BY <2>1
  <2>4. IsFiniteSet(s) /\ s \subseteq T \ {y} /\ s \subseteq T \ {z}
    BY <1>4, <2>2, FS_Subset
  <2>5. Unfolds(f, T \ {y}, G(y)) /\ Unfolds(f, T \ {z}, G(z))
    BY <1>3, <2>2
  <2> HIDE DEF G, h, z
  <2>6. G(z)[s] = G(y)[s]
    BY <2>4, <2>5, UnfoldsAgree
  <2> QED
    BY <2>1, <2>3, <2>6
<1>6. ASSUME NEW s \in SUBSET T
      PROVE  h[s] = IF s = {} THEN 0 ELSE f[Pick(s)] + h[s \ {Pick(s)}]
  <2>1. CASE s = T /\ T = {}
    BY <2>1
  <2>2. CASE s = T /\ T # {}
    <3>1. Pick(T) \in T /\ T \ {Pick(T)} \in SUBSET T /\ Pick(T) \in T \ (T \ {Pick(T)})
      BY <2>2, PickIn
    <3>2. h[T \ {Pick(T)}] = G(Pick(T))[T \ {Pick(T)}]
      BY <1>5, <3>1
    <3>3. h[s] = f[Pick(T)] + G(Pick(T))[T \ {Pick(T)}]
      BY <2>2
    <3> QED
      BY <2>2, <3>2, <3>3
  <2>3. CASE s # T
    <3>1. PICK y : y \in T \ s
      BY <2>3
    <3>2. h[s] = G(y)[s] /\ Unfolds(f, T \ {y}, G(y)) /\ s \in SUBSET (T \ {y})
      BY <1>3, <1>5, <3>1
    <3>3. G(y)[s] = IF s = {} THEN 0 ELSE f[Pick(s)] + G(y)[s \ {Pick(s)}]
      <4> DEFINE k == G(y)
      <4>1. Unfolds(f, T \ {y}, k)
        BY <3>2
      <4> HIDE DEF k
      <4>2. k[s] = IF s = {} THEN 0 ELSE f[Pick(s)] + k[s \ {Pick(s)}]
        BY <3>2, <4>1, UnfoldsOnce
      <4> QED
        BY <4>2 DEF k
    <3>4. s \ {Pick(s)} \in SUBSET T /\ y \in T \ (s \ {Pick(s)})
      BY <3>1
    <3>5. h[s \ {Pick(s)}] = G(y)[s \ {Pick(s)}]
      BY <1>5, <3>4
    <3> HIDE DEF G, h
    <3> QED
      BY <3>2, <3>3, <3>5
  <2> QED
    BY <2>1, <2>2, <2>3
<1>7. Unfolds(f, T, h)
  <2>1. h = [s \in SUBSET T |-> h[s]]
    OBVIOUS
  <2> HIDE DEF h
  <2> QED
    BY <1>6, <2>1 DEF Unfolds
<1> QED
  BY <1>7

\* The sum over a finite set is the value of such a function.
LEMMA SumIs ==
  ASSUME NEW f, NEW S, IsFiniteSet(S)
  PROVE  \E g : Unfolds(f, S, g) /\ SumFunctionOnSet(f, S) = g[S]
<1> DEFINE g == CHOOSE g : Unfolds(f, S, g)
<1>1. SumFunctionOnSet(f, S) = g[S]
  BY DEF SumFunctionOnSet, FoldFunctionOnSet, MapThenFoldSet, Unfolds, Pick
<1>2. Unfolds(f, S, g)
  BY UnfoldsExists
<1> QED
  BY <1>1, <1>2

\* The sum over no element is 0.
LEMMA SumEmpty ==
  ASSUME NEW f
  PROVE  SumFunctionOnSet(f, {}) = 0
<1>1. PICK g : Unfolds(f, {}, g) /\ SumFunctionOnSet(f, {}) = g[{}]
  BY SumIs, FS_EmptySet
<1>2. g[{}] = 0
  BY <1>1, UnfoldsOnce
<1> QED
  BY <1>1, <1>2

\* The sum over a set is its first element and the sum over the others.
LEMMA SumPick ==
  ASSUME NEW f, NEW S, IsFiniteSet(S), S # {}
  PROVE  SumFunctionOnSet(f, S) = f[Pick(S)] + SumFunctionOnSet(f, S \ {Pick(S)})
<1>1. PICK g : Unfolds(f, S, g) /\ SumFunctionOnSet(f, S) = g[S]
  BY SumIs
<1>2. IsFiniteSet(S \ {Pick(S)})
  BY FS_Subset
<1>3. PICK h : /\ Unfolds(f, S \ {Pick(S)}, h)
               /\ SumFunctionOnSet(f, S \ {Pick(S)}) = h[S \ {Pick(S)}]
  BY <1>2, SumIs
<1>4. g[S] = f[Pick(S)] + g[S \ {Pick(S)}]
  BY <1>1, UnfoldsOnce
<1>5. g[S \ {Pick(S)}] = h[S \ {Pick(S)}]
  <2> DEFINE R == S \ {Pick(S)}
  <2>1. IsFiniteSet(R) /\ R \subseteq S /\ Unfolds(f, R, h)
    BY <1>2, <1>3
  <2> HIDE DEF R
  <2>2. g[R] = h[R]
    BY <1>1, <2>1, UnfoldsAgree
  <2> QED
    BY <2>2 DEF R
<1> QED
  BY <1>1, <1>3, <1>4, <1>5

\* A sum of integers is an integer.
LEMMA SumInt ==
  ASSUME NEW f, NEW S, IsFiniteSet(S), \A x \in S : f[x] \in Int
  PROVE  SumFunctionOnSet(f, S) \in Int
<1> DEFINE D == {T \in SUBSET S : SumFunctionOnSet(f, T) \notin Int}
<1>1. SUFFICES ASSUME D # {} PROVE FALSE
  OBVIOUS
<1>2. PICK T \in D : \A x \in T : T \ {x} \notin D
  <2>1. D \in SUBSET SUBSET S
    OBVIOUS
  <2> HIDE DEF D
  <2> QED
    BY <1>1, <2>1, MinimalSubset
<1>3. T # {}
  BY SumEmpty
<1>4. Pick(T) \in T /\ f[Pick(T)] \in Int
  BY <1>3, PickIn
<1>5. SumFunctionOnSet(f, T \ {Pick(T)}) \in Int
  BY <1>2, <1>4
<1>6. SumFunctionOnSet(f, T) = f[Pick(T)] + SumFunctionOnSet(f, T \ {Pick(T)})
  BY <1>3, SumPick, FS_Subset
<1> QED
  BY <1>4, <1>5, <1>6

\* Any element may be taken out first: the order does not matter.
LEMMA SumRemove ==
  ASSUME NEW f, NEW S, IsFiniteSet(S), \A x \in S : f[x] \in Int, NEW x \in S
  PROVE  SumFunctionOnSet(f, S) = f[x] + SumFunctionOnSet(f, S \ {x})
<1> DEFINE D == {T \in SUBSET S : \E y \in T :
                    SumFunctionOnSet(f, T) # f[y] + SumFunctionOnSet(f, T \ {y})}
<1>1. SUFFICES ASSUME D # {} PROVE FALSE
  OBVIOUS
<1>2. PICK T \in D : \A y \in T : T \ {y} \notin D
  <2>1. D \in SUBSET SUBSET S
    OBVIOUS
  <2> HIDE DEF D
  <2> QED
    BY <1>1, <2>1, MinimalSubset
<1>3. PICK y \in T : SumFunctionOnSet(f, T) # f[y] + SumFunctionOnSet(f, T \ {y})
  OBVIOUS
<1> DEFINE p == Pick(T)
<1>4. p \in T
  BY PickIn
<1>5. SumFunctionOnSet(f, T) = f[p] + SumFunctionOnSet(f, T \ {p})
  BY SumPick, FS_Subset
<1>6. p # y
  BY <1>3, <1>5
<1>7. SumFunctionOnSet(f, T \ {p}) = f[y] + SumFunctionOnSet(f, (T \ {p}) \ {y})
  BY <1>2, <1>4, <1>6
<1>8. SumFunctionOnSet(f, T \ {y}) = f[p] + SumFunctionOnSet(f, (T \ {y}) \ {p})
  BY <1>2, <1>4, <1>6
<1>9. (T \ {y}) \ {p} = (T \ {p}) \ {y}
  OBVIOUS
<1> DEFINE r == SumFunctionOnSet(f, (T \ {p}) \ {y})
<1>10. r \in Int
  BY SumInt, FS_Subset
<1>11. f[p] \in Int /\ f[y] \in Int
  BY <1>4
<1>12. /\ SumFunctionOnSet(f, T) = f[p] + (f[y] + r)
       /\ SumFunctionOnSet(f, T \ {y}) = f[p] + r
  BY <1>5, <1>7, <1>8, <1>9
<1> HIDE DEF D, p, r
<1>13. f[p] + (f[y] + r) = f[y] + (f[p] + r)
  BY <1>10, <1>11
<1> QED
  BY <1>3, <1>12, <1>13

\* Functions that agree on a set have the same sum over it.
LEMMA SumEqual ==
  ASSUME NEW S, IsFiniteSet(S), NEW f, NEW g, \A x \in S : f[x] = g[x]
  PROVE  SumFunctionOnSet(f, S) = SumFunctionOnSet(g, S)
<1> DEFINE D == {T \in SUBSET S : SumFunctionOnSet(f, T) # SumFunctionOnSet(g, T)}
<1>1. SUFFICES ASSUME D # {} PROVE FALSE
  OBVIOUS
<1>2. PICK T \in D : \A x \in T : T \ {x} \notin D
  <2>1. D \in SUBSET SUBSET S
    OBVIOUS
  <2> HIDE DEF D
  <2> QED
    BY <1>1, <2>1, MinimalSubset
<1>3. T # {}
  BY SumEmpty
<1> DEFINE p == Pick(T)
<1>4. p \in T
  BY <1>3, PickIn
<1>5. /\ SumFunctionOnSet(f, T) = f[p] + SumFunctionOnSet(f, T \ {p})
      /\ SumFunctionOnSet(g, T) = g[p] + SumFunctionOnSet(g, T \ {p})
  BY <1>3, SumPick, FS_Subset
<1>6. SumFunctionOnSet(f, T \ {p}) = SumFunctionOnSet(g, T \ {p})
  BY <1>2, <1>4
<1> QED
  BY <1>4, <1>5, <1>6

\* Larger terms make no smaller sum.
LEMMA SumMonotone ==
  ASSUME NEW S, IsFiniteSet(S), NEW f, NEW g,
         \A x \in S : f[x] \in Int /\ g[x] \in Int /\ f[x] <= g[x]
  PROVE  SumFunctionOnSet(f, S) <= SumFunctionOnSet(g, S)
<1> DEFINE D == {T \in SUBSET S : ~(SumFunctionOnSet(f, T) <= SumFunctionOnSet(g, T))}
<1>1. SUFFICES ASSUME D # {} PROVE FALSE
  OBVIOUS
<1>2. PICK T \in D : \A x \in T : T \ {x} \notin D
  <2>1. D \in SUBSET SUBSET S
    OBVIOUS
  <2> HIDE DEF D
  <2> QED
    BY <1>1, <2>1, MinimalSubset
<1>3. T # {}
  BY SumEmpty
<1> DEFINE p == Pick(T)
           F == SumFunctionOnSet(f, T \ {p})
           G == SumFunctionOnSet(g, T \ {p})
<1>4. p \in T /\ IsFiniteSet(T) /\ IsFiniteSet(T \ {p})
  BY <1>3, PickIn, FS_Subset
<1>5. /\ SumFunctionOnSet(f, T) = f[p] + F
      /\ SumFunctionOnSet(g, T) = g[p] + G
  BY <1>3, <1>4, SumPick
<1>6. F <= G
  BY <1>2, <1>4
<1>7. F \in Int /\ G \in Int
  BY <1>4, SumInt
<1>8. f[p] \in Int /\ g[p] \in Int /\ f[p] <= g[p]
  BY <1>4
<1>9. ~(f[p] + F <= g[p] + G)
  BY <1>5
<1> HIDE DEF D, p, F, G
<1> QED
  BY <1>6, <1>7, <1>8, <1>9

\* The sum of sums, term by term.
LEMMA SumAdd ==
  ASSUME NEW S, IsFiniteSet(S), NEW f, NEW g, NEW h,
         \A x \in S : f[x] \in Int /\ g[x] \in Int /\ h[x] = f[x] + g[x]
  PROVE  SumFunctionOnSet(h, S) = SumFunctionOnSet(f, S) + SumFunctionOnSet(g, S)
<1> DEFINE D == {T \in SUBSET S : SumFunctionOnSet(h, T) # SumFunctionOnSet(f, T) + SumFunctionOnSet(g, T)}
<1>1. SUFFICES ASSUME D # {} PROVE FALSE
  OBVIOUS
<1>2. PICK T \in D : \A x \in T : T \ {x} \notin D
  <2>1. D \in SUBSET SUBSET S
    OBVIOUS
  <2> HIDE DEF D
  <2> QED
    BY <1>1, <2>1, MinimalSubset
<1>3. T # {}
  <2>1. \A k : SumFunctionOnSet(k, {}) = 0
    BY SumEmpty
  <2>2. SumFunctionOnSet(h, {}) = SumFunctionOnSet(f, {}) + SumFunctionOnSet(g, {})
    BY <2>1
  <2> QED
    BY <2>2
<1> DEFINE p == Pick(T)
           F == SumFunctionOnSet(f, T \ {p})
           G == SumFunctionOnSet(g, T \ {p})
<1>4. p \in T /\ IsFiniteSet(T) /\ IsFiniteSet(T \ {p})
  BY <1>3, PickIn, FS_Subset
<1>5. /\ SumFunctionOnSet(f, T) = f[p] + F
      /\ SumFunctionOnSet(g, T) = g[p] + G
      /\ SumFunctionOnSet(h, T) = h[p] + SumFunctionOnSet(h, T \ {p})
  BY <1>3, <1>4, SumPick
<1>6. SumFunctionOnSet(h, T \ {p}) = F + G
  BY <1>2, <1>4
<1>7. F \in Int /\ G \in Int
  BY <1>4, SumInt
<1>8. f[p] \in Int /\ g[p] \in Int /\ h[p] = f[p] + g[p]
  BY <1>4
<1>9. (f[p] + g[p]) + (F + G) # (f[p] + F) + (g[p] + G)
  BY <1>5, <1>6, <1>8
<1> HIDE DEF D, p, F, G
<1> QED
  BY <1>7, <1>8, <1>9

\* Zeros add up to 0.
LEMMA SumZero ==
  ASSUME NEW S, IsFiniteSet(S), NEW f, \A x \in S : f[x] = 0
  PROVE  SumFunctionOnSet(f, S) = 0
<1> DEFINE D == {T \in SUBSET S : SumFunctionOnSet(f, T) # 0}
<1>1. SUFFICES ASSUME D # {} PROVE FALSE
  OBVIOUS
<1>2. PICK T \in D : \A x \in T : T \ {x} \notin D
  <2>1. D \in SUBSET SUBSET S
    OBVIOUS
  <2> HIDE DEF D
  <2> QED
    BY <1>1, <2>1, MinimalSubset
<1>3. T # {}
  BY SumEmpty
<1> DEFINE p == Pick(T)
<1>4. p \in T /\ f[p] = 0
  BY <1>3, PickIn
<1>5. SumFunctionOnSet(f, T) = f[p] + SumFunctionOnSet(f, T \ {p})
  BY <1>3, SumPick, FS_Subset
<1>6. SumFunctionOnSet(f, T \ {p}) = 0
  BY <1>2, <1>4
<1> QED
  BY <1>4, <1>5, <1>6

DiffersAt(f, g, S, x) ==
    \A y \in S : f[y] \in Int /\ g[y] \in Int /\ (y # x => g[y] = f[y])

\* Where two functions differ at one place, so do their sums.
LEMMA SumUpdate ==
  ASSUME NEW S, IsFiniteSet(S), NEW f, NEW g, NEW x \in S,
         DiffersAt(f, g, S, x)
  PROVE  SumFunctionOnSet(g, S) = SumFunctionOnSet(f, S) + (g[x] - f[x])
<1> DEFINE R == SumFunctionOnSet(f, S \ {x})
<1>0. \A y \in S : f[y] \in Int /\ g[y] \in Int /\ (y # x => g[y] = f[y])
  BY DEF DiffersAt
<1>1. IsFiniteSet(S \ {x})
  BY FS_Subset
<1>2. SumFunctionOnSet(f, S) = f[x] + R
  BY <1>0, SumRemove
<1>3. SumFunctionOnSet(g, S) = g[x] + SumFunctionOnSet(g, S \ {x})
  BY <1>0, SumRemove
<1>4. SumFunctionOnSet(g, S \ {x}) = R
  BY <1>0, <1>1, SumEqual
<1>5. R \in Int /\ f[x] \in Int /\ g[x] \in Int
  BY <1>0, <1>1, SumInt
<1> HIDE DEF R
<1> QED
  BY <1>2, <1>3, <1>4, <1>5

\* A sum of naturals is a natural.
LEMMA SumNat ==
  ASSUME NEW S, IsFiniteSet(S), NEW f, \A x \in S : f[x] \in Nat
  PROVE  SumFunctionOnSet(f, S) \in Nat
<1> DEFINE z == [x \in S |-> 0]
<1>1. SumFunctionOnSet(z, S) = 0
  BY SumZero
<1>2. SumFunctionOnSet(f, S) \in Int
  BY SumInt
<1>3. SumFunctionOnSet(z, S) <= SumFunctionOnSet(f, S)
  BY SumMonotone
<1> QED
  BY <1>1, <1>2, <1>3

\* No natural is larger than a sum it belongs to.
LEMMA SumMember ==
  ASSUME NEW S, IsFiniteSet(S), NEW f, \A y \in S : f[y] \in Nat, NEW x \in S
  PROVE  f[x] <= SumFunctionOnSet(f, S)
<1>1. IsFiniteSet(S \ {x})
  BY FS_Subset
<1>2. SumFunctionOnSet(f, S) = f[x] + SumFunctionOnSet(f, S \ {x})
  BY SumRemove
<1>3. SumFunctionOnSet(f, S \ {x}) \in Nat
  BY <1>1, SumNat
<1>4. f[x] \in Nat
  OBVIOUS
<1> QED
  BY <1>2, <1>3, <1>4

\* Fewer naturals make no larger sum.
LEMMA SumSubset ==
  ASSUME NEW S, IsFiniteSet(S), NEW f, \A x \in S : f[x] \in Nat, NEW T \in SUBSET S
  PROVE  SumFunctionOnSet(f, T) <= SumFunctionOnSet(f, S)
<1> DEFINE D == {U \in SUBSET S : T \subseteq U /\ ~(SumFunctionOnSet(f, T) <= SumFunctionOnSet(f, U))}
<1>1. SUFFICES ASSUME D # {} PROVE FALSE
  OBVIOUS
<1>2. PICK U \in D : \A x \in U : U \ {x} \notin D
  <2>1. D \in SUBSET SUBSET S
    OBVIOUS
  <2> HIDE DEF D
  <2> QED
    BY <1>1, <2>1, MinimalSubset
<1>3. IsFiniteSet(T) /\ IsFiniteSet(U)
  BY FS_Subset
<1>4. SumFunctionOnSet(f, T) \in Nat
  BY <1>3, SumNat
<1>5. PICK x \in U : x \notin T
  <2>1. U # T
    BY <1>4
  <2> QED
    BY <2>1
<1>6. U \ {x} \in SUBSET S /\ T \subseteq U \ {x} /\ IsFiniteSet(U \ {x})
  BY <1>3, <1>5, FS_Subset
<1>7. SumFunctionOnSet(f, T) <= SumFunctionOnSet(f, U \ {x})
  BY <1>2, <1>6
<1>8. SumFunctionOnSet(f, U) = f[x] + SumFunctionOnSet(f, U \ {x})
  BY <1>3, SumRemove
<1>9. SumFunctionOnSet(f, U \ {x}) \in Nat /\ f[x] \in Nat
  BY <1>6, SumNat
<1>10. ~(SumFunctionOnSet(f, T) <= SumFunctionOnSet(f, U))
  OBVIOUS
<1> QED
  BY <1>4, <1>7, <1>8, <1>9, <1>10

\* A common factor may be taken out.
LEMMA SumScale ==
  ASSUME NEW S, IsFiniteSet(S), NEW c \in Int, NEW f, NEW h,
         \A x \in S : f[x] \in Int /\ h[x] = c * f[x]
  PROVE  SumFunctionOnSet(h, S) = c * SumFunctionOnSet(f, S)
<1> DEFINE D == {T \in SUBSET S : SumFunctionOnSet(h, T) # c * SumFunctionOnSet(f, T)}
<1>1. SUFFICES ASSUME D # {} PROVE FALSE
  OBVIOUS
<1>2. PICK T \in D : \A x \in T : T \ {x} \notin D
  <2>1. D \in SUBSET SUBSET S
    OBVIOUS
  <2> HIDE DEF D
  <2> QED
    BY <1>1, <2>1, MinimalSubset
<1>3. T # {}
  <2>1. \A k : SumFunctionOnSet(k, {}) = 0
    BY SumEmpty
  <2>2. c * 0 = 0
    OBVIOUS
  <2>3. SumFunctionOnSet(h, {}) = c * SumFunctionOnSet(f, {})
    BY <2>1, <2>2
  <2> QED
    BY <2>3
<1> DEFINE p == Pick(T)
           F == SumFunctionOnSet(f, T \ {p})
<1>4. p \in T /\ IsFiniteSet(T) /\ IsFiniteSet(T \ {p})
  BY <1>3, PickIn, FS_Subset
<1>5. /\ SumFunctionOnSet(f, T) = f[p] + F
      /\ SumFunctionOnSet(h, T) = h[p] + SumFunctionOnSet(h, T \ {p})
  BY <1>3, <1>4, SumPick
<1>6. SumFunctionOnSet(h, T \ {p}) = c * F
  BY <1>2, <1>4
<1>7. F \in Int
  BY <1>4, SumInt
<1>8. f[p] \in Int /\ h[p] = c * f[p]
  BY <1>4
<1>9. c * f[p] + c * F # c * (f[p] + F)
  BY <1>5, <1>6, <1>8
<1> HIDE DEF D, p, F
<1> QED
  BY <1>7, <1>8, <1>9

\* A table adds up to the same by rows and by columns.
LEMMA SumExchange ==
  ASSUME NEW U, IsFiniteSet(U), NEW V, IsFiniteSet(V), NEW p,
         \A u \in U, v \in V : p[u][v] \in Int
  PROVE  SumFunctionOnSet([u \in U |-> SumFunctionOnSet(p[u], V)], U)
           = SumFunctionOnSet([v \in V |-> SumFunctionOnSet([u \in U |-> p[u][v]], U)], V)
<1> DEFINE row == [u \in U |-> SumFunctionOnSet(p[u], V)]
           line(v) == [u \in U |-> p[u][v]]
           cols(T) == [v \in V |-> SumFunctionOnSet(line(v), T)]
           D == {T \in SUBSET U : SumFunctionOnSet(row, T) # SumFunctionOnSet(cols(T), V)}
<1>1. SUFFICES ASSUME D # {} PROVE FALSE
  OBVIOUS
<1>2. PICK T \in D : \A x \in T : T \ {x} \notin D
  <2>1. D \in SUBSET SUBSET U
    OBVIOUS
  <2> HIDE DEF D
  <2> QED
    BY <1>1, <2>1, MinimalSubset
<1>3. T # {}
  <2>1. \A v \in V : cols({})[v] = 0
    BY SumEmpty
  <2>2. SumFunctionOnSet(cols({}), V) = 0
    <3> HIDE DEF cols
    <3> QED
      BY <2>1, SumZero
  <2>3. SumFunctionOnSet(row, {}) = 0
    BY SumEmpty
  <2> HIDE DEF row, cols
  <2> QED
    BY <2>2, <2>3
<1>4. PICK z : z \in T
  BY <1>3
<1> DEFINE R == T \ {z}
<1>5. /\ z \in U /\ IsFiniteSet(T) /\ IsFiniteSet(R) /\ T \subseteq U /\ R \subseteq U
  BY <1>4, FS_Subset
<1>6. SumFunctionOnSet(row, R) = SumFunctionOnSet(cols(R), V)
  BY <1>2, <1>4, <1>5
<1>7. \A u \in U : row[u] \in Int
  <2>1. TAKE u \in U
  <2>2. SumFunctionOnSet(p[u], V) \in Int
    <3> DEFINE f == p[u]
    <3>1. \A v \in V : f[v] \in Int
      OBVIOUS
    <3> HIDE DEF f
    <3>2. SumFunctionOnSet(f, V) \in Int
      BY <3>1, SumInt
    <3> QED
      BY <3>2 DEF f
  <2> QED
    BY <2>2
<1>8. SumFunctionOnSet(row, T) = row[z] + SumFunctionOnSet(row, R)
  <2> HIDE DEF row
  <2> QED
    BY <1>4, <1>5, <1>7, SumRemove
<1>9. \A v \in V : /\ p[z][v] \in Int /\ cols(R)[v] \in Int
                   /\ cols(T)[v] = p[z][v] + cols(R)[v]
  <2>1. TAKE v \in V
  <2> DEFINE f == line(v)
  <2>2. \A u \in U : f[u] \in Int
    OBVIOUS
  <2>3. f[z] = p[z][v]
    BY <1>5
  <2> HIDE DEF f
  <2>4. SumFunctionOnSet(f, T) = f[z] + SumFunctionOnSet(f, R)
    BY <1>4, <1>5, <2>2, SumRemove
  <2>5. SumFunctionOnSet(f, R) \in Int
    BY <1>5, <2>2, SumInt
  <2> QED
    BY <1>5, <2>3, <2>4, <2>5 DEF f
<1>10. SumFunctionOnSet(cols(T), V) = SumFunctionOnSet(p[z], V) + SumFunctionOnSet(cols(R), V)
  <2> DEFINE f == p[z]
             g == cols(R)
             h == cols(T)
  <2>1. \A v \in V : f[v] \in Int /\ g[v] \in Int /\ h[v] = f[v] + g[v]
    BY <1>9
  <2> HIDE DEF f, g, h
  <2>2. SumFunctionOnSet(h, V) = SumFunctionOnSet(f, V) + SumFunctionOnSet(g, V)
    BY <2>1, SumAdd
  <2> QED
    BY <2>2 DEF f, g, h
<1>11. row[z] = SumFunctionOnSet(p[z], V)
  BY <1>5
<1>12. SumFunctionOnSet(row, T) # SumFunctionOnSet(cols(T), V)
  OBVIOUS
<1> HIDE DEF row, cols, D, R
<1> QED
  BY <1>6, <1>8, <1>10, <1>11, <1>12

Superadditive(g) == \A a, b \in Nat : g[a] + g[b] <= g[a + b]

\* What a superadditive rate pays on parts is at most what it pays on their sum.
LEMMA SumSuperadditive ==
  ASSUME NEW S, IsFiniteSet(S), NEW f, \A x \in S : f[x] \in Nat,
         NEW g \in [Nat -> Nat], Superadditive(g)
  PROVE  SumFunctionOnSet([x \in S |-> g[f[x]]], S) <= g[SumFunctionOnSet(f, S)]
<1> DEFINE h == [x \in S |-> g[f[x]]]
           D == {T \in SUBSET S : ~(SumFunctionOnSet(h, T) <= g[SumFunctionOnSet(f, T)])}
<1>1. SUFFICES ASSUME D # {} PROVE FALSE
  OBVIOUS
<1>2. PICK T \in D : \A x \in T : T \ {x} \notin D
  <2>1. D \in SUBSET SUBSET S
    OBVIOUS
  <2> HIDE DEF D
  <2> QED
    BY <1>1, <2>1, MinimalSubset
<1>3. T # {}
  <2>1. SumFunctionOnSet(h, {}) = 0 /\ SumFunctionOnSet(f, {}) = 0
    BY SumEmpty
  <2>2. g[0] \in Nat
    OBVIOUS
  <2>3. SumFunctionOnSet(h, {}) <= g[SumFunctionOnSet(f, {})]
    BY <2>1, <2>2
  <2> QED
    BY <2>3
<1>4. PICK z : z \in T
  BY <1>3
<1> DEFINE R == T \ {z}
           F == SumFunctionOnSet(f, R)
           H == SumFunctionOnSet(h, R)
<1>5. z \in S /\ IsFiniteSet(T) /\ IsFiniteSet(R) /\ T \subseteq S /\ R \subseteq S
  BY <1>4, FS_Subset
<1>6. H <= g[F]
  BY <1>2, <1>4, <1>5
<1>7. \A x \in S : h[x] \in Nat
  OBVIOUS
<1>8. F \in Nat /\ H \in Nat
  <2> HIDE DEF h
  <2> QED
    BY <1>5, <1>7, SumNat
<1>9. SumFunctionOnSet(f, T) = f[z] + F
  <2>1. \A x \in T : f[x] \in Int
    BY <1>5
  <2> HIDE DEF D
  <2> QED
    BY <1>4, <1>5, <2>1, SumRemove
<1>10. SumFunctionOnSet(h, T) = h[z] + H
  <2>1. \A x \in T : h[x] \in Int
    BY <1>5, <1>7
  <2> HIDE DEF D, h
  <2> QED
    BY <1>4, <1>5, <2>1, SumRemove
<1>11. f[z] \in Nat /\ h[z] = g[f[z]] /\ g[f[z]] \in Nat /\ g[F] \in Nat /\ g[f[z] + F] \in Nat
  <2>1. f[z] \in Nat /\ h[z] = g[f[z]]
    BY <1>5
  <2> HIDE DEF F, h
  <2>2. f[z] + F \in Nat
    BY <1>8, <2>1
  <2> QED
    BY <1>8, <2>1, <2>2
<1>12. g[f[z]] + g[F] <= g[f[z] + F]
  BY <1>8, <1>11 DEF Superadditive
<1>13. ~(SumFunctionOnSet(h, T) <= g[SumFunctionOnSet(f, T)])
  OBVIOUS
<1> HIDE DEF h, D, R, F, H
<1> QED
  BY <1>6, <1>8, <1>9, <1>10, <1>11, <1>12, <1>13
\* A function that is 0 but at one place, or but at two places.
LEMMA SumOfOne ==
    ASSUME NEW S, IsFiniteSet(S), NEW f, NEW x \in S, f[x] \in Nat,
           \A y \in S \ {x} : f[y] = 0
    PROVE  SumFunctionOnSet(f, S) = f[x]
<1>1. \A y \in S : f[y] \in Int
    OBVIOUS
<1>2. SumFunctionOnSet(f, S) = f[x] + SumFunctionOnSet(f, S \ {x})
    BY <1>1, SumRemove
<1>3. IsFiniteSet(S \ {x})
    BY FS_RemoveElement
<1>4. SumFunctionOnSet(f, S \ {x}) = 0
    BY <1>3, SumZero
<1> QED BY <1>2, <1>4

\* A function that is 0 but at two places.
LEMMA SumOfTwo ==
    ASSUME NEW S, IsFiniteSet(S), NEW f, NEW x \in S, NEW y \in S \ {x},
           f[x] \in Nat, f[y] \in Nat, \A z \in S \ {x, y} : f[z] = 0
    PROVE  SumFunctionOnSet(f, S) = f[x] + f[y]
<1>1. \A z \in S : f[z] \in Int
    OBVIOUS
<1>2. SumFunctionOnSet(f, S) = f[x] + SumFunctionOnSet(f, S \ {x})
    BY <1>1, SumRemove
<1>3. IsFiniteSet(S \ {x})
    BY FS_RemoveElement
<1>4. y \in S \ {x} /\ \A z \in (S \ {x}) \ {y} : f[z] = 0
    OBVIOUS
<1>5. SumFunctionOnSet(f, S \ {x}) = f[y]
    BY <1>3, <1>4, SumOfOne
<1> QED BY <1>2, <1>5

\* The sum over a set is the sum over a part of it and over the rest.
LEMMA SumSplit ==
  ASSUME NEW S, IsFiniteSet(S), NEW f, \A x \in S : f[x] \in Int, NEW T \in SUBSET S
  PROVE  SumFunctionOnSet(f, S) = SumFunctionOnSet(f, T) + SumFunctionOnSet(f, S \ T)
<1> DEFINE D == {U \in SUBSET S :
             ~(SumFunctionOnSet(f, S) = SumFunctionOnSet(f, U) + SumFunctionOnSet(f, S \ U))}
<1>1. SUFFICES ASSUME D # {} PROVE FALSE
  OBVIOUS
<1>2. PICK U \in D : \A x \in U : U \ {x} \notin D
  <2>1. D \in SUBSET SUBSET S
    OBVIOUS
  <2> HIDE DEF D
  <2> QED
    BY <1>1, <2>1, MinimalSubset
<1>3. SumFunctionOnSet(f, S) \in Int
  BY SumInt
<1>4. PICK x \in U : TRUE
  <2>1. ASSUME U = {} PROVE FALSE
    <3>1. S \ U = S /\ SumFunctionOnSet(f, U) = 0
      BY <2>1, SumEmpty
    <3>2. SumFunctionOnSet(f, S \ U) = SumFunctionOnSet(f, S)
      BY <3>1
    <3>3. ~(SumFunctionOnSet(f, S) = SumFunctionOnSet(f, U) + SumFunctionOnSet(f, S \ U))
      OBVIOUS
    <3> HIDE DEF D
    <3> QED
      BY <1>3, <3>1, <3>2, <3>3
  <2> QED
    BY <2>1
<1> DEFINE V == U \ {x}
           W == S \ U
<1>5. /\ V \in SUBSET S /\ V \notin D
      /\ IsFiniteSet(U) /\ IsFiniteSet(V) /\ IsFiniteSet(W) /\ IsFiniteSet(S \ V)
      /\ x \in S \ V /\ (S \ V) \ {x} = W
  BY <1>2, <1>4, FS_Subset
<1>6. SumFunctionOnSet(f, S) = SumFunctionOnSet(f, V) + SumFunctionOnSet(f, S \ V)
  BY <1>5
<1>7. SumFunctionOnSet(f, U) = f[x] + SumFunctionOnSet(f, V)
  BY <1>5, SumRemove
<1>8. SumFunctionOnSet(f, S \ V) = f[x] + SumFunctionOnSet(f, W)
  <2>1. \A y \in S \ V : f[y] \in Int
    OBVIOUS
  <2> HIDE DEF V, W
  <2> QED
    BY <1>5, <2>1, SumRemove
<1>9. f[x] \in Int /\ SumFunctionOnSet(f, V) \in Int /\ SumFunctionOnSet(f, W) \in Int
  BY <1>5, SumInt
<1>10. ~(SumFunctionOnSet(f, S) = SumFunctionOnSet(f, U) + SumFunctionOnSet(f, W))
  OBVIOUS
<1> HIDE DEF D, V, W
<1> QED
  BY <1>6, <1>7, <1>8, <1>9, <1>10

\* What is 0 outside of a part adds up to the sum over the part.
LEMMA SumPart ==
  ASSUME NEW S, IsFiniteSet(S), NEW f, NEW h, NEW T \in SUBSET S,
         \A x \in T : f[x] \in Int /\ h[x] = f[x],
         \A x \in S \ T : h[x] = 0
  PROVE  SumFunctionOnSet(h, S) = SumFunctionOnSet(f, T)
<1>1. \A x \in S : h[x] \in Int
  OBVIOUS
<1>2. SumFunctionOnSet(h, S) = SumFunctionOnSet(h, T) + SumFunctionOnSet(h, S \ T)
  BY <1>1, SumSplit
<1>3. IsFiniteSet(T) /\ IsFiniteSet(S \ T)
  BY FS_Subset
<1>4. SumFunctionOnSet(h, T) = SumFunctionOnSet(f, T)
  BY <1>3, SumEqual
<1>5. SumFunctionOnSet(h, S \ T) = 0
  BY <1>3, SumZero
<1>6. SumFunctionOnSet(f, T) \in Int
  BY <1>3, SumInt
<1> QED
  BY <1>2, <1>4, <1>5, <1>6

=============================================================================
