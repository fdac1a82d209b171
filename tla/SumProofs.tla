------------------------------ MODULE SumProofs ------------------------------
(* Sums over finite sets: what the community operator SumFunctionOnSet adds  *)
(* up to when a summand changes, over a part or an image of the set, and of  *)
(* squares.  The induction is over the subsets of the set, as a set of good  *)
(* ones.                                                                     *)
EXTENDS Integers, FiniteSets, FiniteSetTheorems, FiniteSetsExt, TLAPS

Pick(s) == CHOOSE x \in s : TRUE

Solves(g, f, S) ==
  g = [s \in SUBSET S |-> IF s = {} THEN 0 ELSE f[Pick(s)] + g[s \ {Pick(s)}]]

SumStep(f, s) == IF s = {} THEN 0 ELSE f[Pick(s)] + SumFunctionOnSet(f, s \ {Pick(s)})

\* Induction over the subsets of a finite set: the good ones are all, if a subset is
\* good whenever the smaller ones are.
LEMMA SubsetInduction ==
  ASSUME NEW S, IsFiniteSet(S), NEW Good,
         ASSUME NEW T \in SUBSET S, \A U \in SUBSET T : U # T => U \in Good
         PROVE  T \in Good
  PROVE  SUBSET S \subseteq Good
<1> DEFINE Bad == (SUBSET S) \ Good
<1>1. SUFFICES ASSUME Bad # {} PROVE FALSE
  OBVIOUS
<1>2. IsWellFoundedOn(StrictSubsetOrdering(S), SUBSET S)
  BY FS_StrictSubsetOrderingWellFounded, FS_FiniteSubsetsOfFinite
<1>3. PICK T \in Bad : \A U \in Bad : ~ (<<U, T>> \in StrictSubsetOrdering(S))
  <2>1. Bad \subseteq SUBSET S
    OBVIOUS
  <2> HIDE DEF Bad
  <2>2. QED
    BY <1>1, <1>2, <2>1, WFMin
<1>4. \A U \in SUBSET T : U # T => U \in Good
  <2>1. SUFFICES ASSUME NEW U \in SUBSET T, U # T, U \notin Good PROVE FALSE
    OBVIOUS
  <2>2. U \in Bad /\ <<U, T>> \in StrictSubsetOrdering(S)
    BY <2>1, <1>3 DEF StrictSubsetOrdering
  <2>3. QED
    BY <2>2, <1>3
<1>5. QED
  BY <1>3, <1>4

LEMMA SumChosen ==
  ASSUME NEW f, NEW S
  PROVE  SumFunctionOnSet(f, S) = (CHOOSE g : Solves(g, f, S))[S]
BY DEF SumFunctionOnSet, FoldFunctionOnSet, MapThenFoldSet, Solves, Pick

\* The recursive definition of the sum has a solution on every finite set, and the sum
\* satisfies it.
LEMMA SumUnfolds ==
  ASSUME NEW f, NEW S, IsFiniteSet(S)
  PROVE  SumFunctionOnSet(f, S) = SumStep(f, S)
<1> DEFINE Good == {T \in SUBSET S : SumFunctionOnSet(f, T) = SumStep(f, T)}
<1>1. ASSUME NEW T \in SUBSET S, \A U \in SUBSET T : U # T => U \in Good
      PROVE  T \in Good
  <2> DEFINE g == [s \in SUBSET T |-> SumStep(f, s)]
             h == CHOOSE k : Solves(k, f, T)
  <2>1. \A s \in SUBSET T : s # {} => Pick(s) \in s
    BY DEF Pick
  <2>2. Solves(g, f, T)
    <3>1. ASSUME NEW s \in SUBSET T, s # {}
          PROVE  g[s] = f[Pick(s)] + g[s \ {Pick(s)}]
      <4>1. s \ {Pick(s)} \in SUBSET T /\ s \ {Pick(s)} # T
        BY <2>1, <3>1
      <4>2. g[s \ {Pick(s)}] = SumFunctionOnSet(f, s \ {Pick(s)})
        BY <4>1, <1>1
      <4>3. QED
        BY <4>2, <3>1 DEF SumStep
    <3>2. g[{}] = 0
      BY DEF SumStep
    <3>3. \A s \in SUBSET T : g[s] = IF s = {} THEN 0 ELSE f[Pick(s)] + g[s \ {Pick(s)}]
      BY <3>1, <3>2
    <3>4. QED
      BY <3>3 DEF Solves
  <2>3. Solves(h, f, T)
    BY <2>2
  <2> HIDE DEF g, h
  <2>4. SUBSET T \subseteq {s \in SUBSET T : h[s] = g[s]}
    <3>1. IsFiniteSet(T)
      BY FS_Subset
    <3>2. ASSUME NEW s \in SUBSET T,
                 \A U \in SUBSET s : U # s => U \in {r \in SUBSET T : h[r] = g[r]}
          PROVE  s \in {r \in SUBSET T : h[r] = g[r]}
      <4>1. CASE s = {}
        BY <4>1, <2>2, <2>3 DEF Solves
      <4>2. CASE s # {}
        <5>1. s \ {Pick(s)} \in SUBSET s /\ s \ {Pick(s)} # s
          BY <2>1, <4>2
        <5>2. h[s \ {Pick(s)}] = g[s \ {Pick(s)}]
          BY <5>1, <3>2
        <5>3. QED
          BY <5>2, <4>2, <2>2, <2>3 DEF Solves
      <4>3. QED
        BY <4>1, <4>2
    <3> DEFINE Same == {s \in SUBSET T : h[s] = g[s]}
    <3>3. ASSUME NEW s \in SUBSET T, \A U \in SUBSET s : U # s => U \in Same
          PROVE  s \in Same
      BY <3>2, <3>3
    <3> HIDE DEF Same
    <3>4. SUBSET T \subseteq Same
      BY <3>1, <3>3, SubsetInduction
    <3>5. QED
      BY <3>4 DEF Same
  <2>5. SumFunctionOnSet(f, T) = h[T]
    BY SumChosen DEF h
  <2>6. h[T] = g[T] /\ g[T] = SumStep(f, T)
    BY <2>4 DEF g
  <2>7. QED
    BY <2>5, <2>6
<1> HIDE DEF Good
<1>2. SUBSET S \subseteq Good
  BY <1>1, SubsetInduction
<1>3. S \in Good
  BY <1>2
<1>4. QED
  BY <1>3 DEF Good

LEMMA SumEmpty == ASSUME NEW f PROVE SumFunctionOnSet(f, {}) = 0
BY SumUnfolds, FS_EmptySet DEF SumStep

\* A sum of integers is one.
LEMMA SumInt ==
  ASSUME NEW f, NEW S, IsFiniteSet(S), \A x \in S : f[x] \in Int
  PROVE  SumFunctionOnSet(f, S) \in Int
<1> DEFINE Good == {T \in SUBSET S : SumFunctionOnSet(f, T) \in Int}
<1>1. ASSUME NEW T \in SUBSET S, \A U \in SUBSET T : U # T => U \in Good
      PROVE  T \in Good
  <2>1. IsFiniteSet(T)
    BY FS_Subset
  <2>2. CASE T = {}
    BY <2>2, SumEmpty
  <2>3. CASE T # {}
    <3>1. Pick(T) \in T
      BY <2>3 DEF Pick
    <3>2. T \ {Pick(T)} \in SUBSET T /\ T \ {Pick(T)} # T
      BY <3>1
    <3>3. SumFunctionOnSet(f, T \ {Pick(T)}) \in Int
      BY <3>2, <1>1
    <3>4. QED
      BY <2>1, <2>3, <3>1, <3>3, SumUnfolds DEF SumStep
  <2>4. QED
    BY <2>2, <2>3
<1> HIDE DEF Good
<1>2. SUBSET S \subseteq Good
  BY <1>1, SubsetInduction
<1>3. S \in Good
  BY <1>2
<1>4. QED
  BY <1>3 DEF Good

\* The order of the summands does not matter: any may be taken out first.
LEMMA SumRemove ==
  ASSUME NEW f, NEW S, IsFiniteSet(S), \A x \in S : f[x] \in Int, NEW x \in S
  PROVE  SumFunctionOnSet(f, S) = f[x] + SumFunctionOnSet(f, S \ {x})
<1> DEFINE Good == {T \in SUBSET S : \A y \in T :
                     SumFunctionOnSet(f, T) = f[y] + SumFunctionOnSet(f, T \ {y})}
<1>1. ASSUME NEW T \in SUBSET S, \A U \in SUBSET T : U # T => U \in Good
      PROVE  T \in Good
  <2>1. SUFFICES ASSUME NEW y \in T
                 PROVE  SumFunctionOnSet(f, T) = f[y] + SumFunctionOnSet(f, T \ {y})
    OBVIOUS
  <2> DEFINE c == Pick(T)
  <2>2. IsFiniteSet(T) /\ \A U \in SUBSET T : IsFiniteSet(U)
    BY FS_Subset
  <2>3. c \in T
    BY DEF Pick
  <2>4. SumFunctionOnSet(f, T) = f[c] + SumFunctionOnSet(f, T \ {c})
    BY <2>2, SumUnfolds DEF SumStep
  <2>5. CASE y = c
    BY <2>4, <2>5
  <2>6. CASE y # c
    <3> HIDE DEF c
    <3>1. /\ T \ {c} \in Good /\ y \in T \ {c}
          /\ T \ {y} \in Good /\ c \in T \ {y}
      BY <2>3, <2>6, <1>1
    <3>2. SumFunctionOnSet(f, T \ {c}) = f[y] + SumFunctionOnSet(f, (T \ {c}) \ {y})
      BY <3>1
    <3>3. SumFunctionOnSet(f, T \ {y}) = f[c] + SumFunctionOnSet(f, (T \ {y}) \ {c})
      BY <3>1
    <3>4. SumFunctionOnSet(f, (T \ {y}) \ {c}) = SumFunctionOnSet(f, (T \ {c}) \ {y})
      <4>1. (T \ {y}) \ {c} = (T \ {c}) \ {y}
        OBVIOUS
      <4>2. QED
        BY <4>1, Zenon
    <3>5. SumFunctionOnSet(f, (T \ {c}) \ {y}) \in Int
      <4>1. IsFiniteSet((T \ {c}) \ {y}) /\ \A z \in (T \ {c}) \ {y} : f[z] \in Int
        BY <2>2
      <4>2. QED
        BY <4>1, SumInt
    <3>6. f[y] \in Int /\ f[c] \in Int
      BY <2>3
    <3>7. QED
      BY <2>4, <3>2, <3>3, <3>4, <3>5, <3>6
  <2>7. QED
    BY <2>5, <2>6
<1> HIDE DEF Good
<1>2. SUBSET S \subseteq Good
  BY <1>1, SubsetInduction
<1>3. S \in Good
  BY <1>2
<1>4. QED
  BY <1>3 DEF Good

\* A sum is not greater than one whose summands are not smaller.
LEMMA SumMonotone ==
  ASSUME NEW f, NEW g, NEW S, IsFiniteSet(S),
         \A x \in S : f[x] \in Int /\ g[x] \in Int /\ f[x] <= g[x]
  PROVE  SumFunctionOnSet(f, S) <= SumFunctionOnSet(g, S)
<1> DEFINE Good == {T \in SUBSET S : SumFunctionOnSet(f, T) <= SumFunctionOnSet(g, T)}
<1>1. ASSUME NEW T \in SUBSET S, \A U \in SUBSET T : U # T => U \in Good
      PROVE  T \in Good
  <2>1. IsFiniteSet(T)
    BY FS_Subset
  <2>2. CASE T = {}
    BY <2>2, SumEmpty
  <2>3. CASE T # {}
    <3>1. PICK x \in T : TRUE
      BY <2>3
    <3>2. T \ {x} \in SUBSET T /\ T \ {x} # T
      BY <3>1
    <3>3. SumFunctionOnSet(f, T \ {x}) <= SumFunctionOnSet(g, T \ {x})
      BY <3>2, <1>1
    <3>4. /\ SumFunctionOnSet(f, T) = f[x] + SumFunctionOnSet(f, T \ {x})
          /\ SumFunctionOnSet(g, T) = g[x] + SumFunctionOnSet(g, T \ {x})
      BY <2>1, SumRemove
    <3>5. SumFunctionOnSet(f, T \ {x}) \in Int /\ SumFunctionOnSet(g, T \ {x}) \in Int
      <4>1. IsFiniteSet(T \ {x})
        BY <2>1, FS_RemoveElement
      <4>2. \A y \in T \ {x} : f[y] \in Int /\ g[y] \in Int
        OBVIOUS
      <4>3. QED
        BY <4>1, <4>2, SumInt
    <3>6. f[x] \in Int /\ g[x] \in Int /\ f[x] <= g[x]
      OBVIOUS
    <3>7. QED
      BY <3>3, <3>4, <3>5, <3>6
  <2>4. QED
    BY <2>2, <2>3
<1> HIDE DEF Good
<1>2. SUBSET S \subseteq Good
  BY <1>1, SubsetInduction
<1>3. S \in Good
  BY <1>2
<1>4. QED
  BY <1>3 DEF Good

\* A sum depends on its summands only.
LEMMA SumSame ==
  ASSUME NEW f, NEW g, NEW S, IsFiniteSet(S), \A x \in S : f[x] \in Int /\ f[x] = g[x]
  PROVE  SumFunctionOnSet(f, S) = SumFunctionOnSet(g, S)
<1>1. SumFunctionOnSet(f, S) <= SumFunctionOnSet(g, S)
  BY SumMonotone
<1>2. SumFunctionOnSet(g, S) <= SumFunctionOnSet(f, S)
  BY SumMonotone
<1>3. SumFunctionOnSet(f, S) \in Int /\ SumFunctionOnSet(g, S) \in Int
  BY SumInt
<1>4. QED
  BY <1>1, <1>2, <1>3

\* When one summand changes, the sum changes by as much.
LEMMA SumChange ==
  ASSUME NEW f, NEW g, NEW S, IsFiniteSet(S), NEW x \in S,
         \A y \in S : f[y] \in Int /\ g[y] \in Int,
         \A y \in S \ {x} : f[y] = g[y]
  PROVE  SumFunctionOnSet(g, S) = SumFunctionOnSet(f, S) - f[x] + g[x]
<1>1. IsFiniteSet(S \ {x})
  BY FS_RemoveElement
<1>2. /\ SumFunctionOnSet(f, S) = f[x] + SumFunctionOnSet(f, S \ {x})
      /\ SumFunctionOnSet(g, S) = g[x] + SumFunctionOnSet(g, S \ {x})
  BY SumRemove
<1>3. SumFunctionOnSet(f, S \ {x}) = SumFunctionOnSet(g, S \ {x})
  BY <1>1, SumSame
<1>4. SumFunctionOnSet(f, S \ {x}) \in Int
  BY <1>1, SumInt
<1>5. QED
  BY <1>2, <1>3, <1>4

\* A sum of naturals is one, and no smaller than any of its summands.
LEMMA SumNat ==
  ASSUME NEW f, NEW S, IsFiniteSet(S), \A x \in S : f[x] \in Nat
  PROVE  /\ SumFunctionOnSet(f, S) \in Nat
         /\ \A x \in S : f[x] <= SumFunctionOnSet(f, S)
<1>1. ASSUME NEW T \in SUBSET S PROVE SumFunctionOnSet(f, T) >= 0 /\ SumFunctionOnSet(f, T) \in Int
  <2>1. IsFiniteSet(T)
    BY FS_Subset
  <2>2. SumFunctionOnSet(f, T) \in Int
    BY <2>1, SumInt
  <2> DEFINE Good == {U \in SUBSET T : SumFunctionOnSet(f, U) >= 0}
  <2>3. ASSUME NEW U \in SUBSET T, \A V \in SUBSET U : V # U => V \in Good
        PROVE  U \in Good
    <3>1. IsFiniteSet(U)
      BY <2>1, FS_Subset
    <3>2. CASE U = {}
      BY <3>2, SumEmpty
    <3>3. CASE U # {}
      <4>1. PICK x \in U : TRUE
        BY <3>3
      <4>2. SumFunctionOnSet(f, U \ {x}) >= 0
        BY <2>3
      <4>3. SumFunctionOnSet(f, U) = f[x] + SumFunctionOnSet(f, U \ {x})
        BY <3>1, SumRemove
      <4>4. IsFiniteSet(U \ {x})
        BY <3>1, FS_RemoveElement
      <4>5. SumFunctionOnSet(f, U \ {x}) \in Int
        BY <4>4, SumInt
      <4>6. QED
        BY <4>2, <4>3, <4>5
    <3>4. QED
      BY <3>2, <3>3
  <2> HIDE DEF Good
  <2>4. SUBSET T \subseteq Good
    BY <2>1, <2>3, SubsetInduction
  <2>5. T \in Good
    BY <2>4
  <2>6. QED
    BY <2>2, <2>5 DEF Good
<1>2. ASSUME NEW x \in S PROVE f[x] <= SumFunctionOnSet(f, S)
  <2>1. SumFunctionOnSet(f, S) = f[x] + SumFunctionOnSet(f, S \ {x})
    BY SumRemove
  <2>2. SumFunctionOnSet(f, S \ {x}) >= 0 /\ SumFunctionOnSet(f, S \ {x}) \in Int
    BY <1>1
  <2>3. QED
    BY <2>1, <2>2
<1>3. QED
  BY <1>1, <1>2

\* Summands left out of a sum may as well be zero.
LEMMA SumFilter ==
  ASSUME NEW f, NEW g, NEW S, IsFiniteSet(S), NEW T \in SUBSET S,
         \A x \in T : f[x] \in Int /\ g[x] = f[x],
         \A x \in S \ T : g[x] = 0
  PROVE  SumFunctionOnSet(f, T) = SumFunctionOnSet(g, S)
<1> DEFINE Good == {U \in SUBSET S : SumFunctionOnSet(f, U \cap T) = SumFunctionOnSet(g, U)}
<1>1. ASSUME NEW U \in SUBSET S, \A V \in SUBSET U : V # U => V \in Good
      PROVE  U \in Good
  <2>1. IsFiniteSet(U) /\ IsFiniteSet(U \cap T)
    BY FS_Subset
  <2>2. CASE U = {}
    <3>1. U \cap T = {}
      BY <2>2
    <3>2. SumFunctionOnSet(f, U \cap T) = 0 /\ SumFunctionOnSet(g, U) = 0
      BY <2>2, <3>1, SumEmpty, Zenon
    <3>3. QED
      BY <3>2
  <2>3. CASE U # {}
    <3>1. PICK x \in U : TRUE
      BY <2>3
    <3>2. U \ {x} \in SUBSET U /\ U \ {x} # U
      BY <3>1
    <3>3. SumFunctionOnSet(f, (U \ {x}) \cap T) = SumFunctionOnSet(g, U \ {x})
      BY <3>2, <1>1
    <3>4. SumFunctionOnSet(g, U) = g[x] + SumFunctionOnSet(g, U \ {x})
      <4>1. \A y \in U : g[y] \in Int
        OBVIOUS
      <4>2. QED
        BY <2>1, <4>1, SumRemove
    <3>5. SumFunctionOnSet(g, U \ {x}) \in Int
      <4>1. IsFiniteSet(U \ {x}) /\ \A y \in U \ {x} : g[y] \in Int
        BY <2>1, FS_RemoveElement
      <4>2. QED
        BY <4>1, SumInt
    <3>6. CASE x \in T
      <4>1. (U \cap T) \ {x} = (U \ {x}) \cap T
        OBVIOUS
      <4>2. SumFunctionOnSet(f, U \cap T) = f[x] + SumFunctionOnSet(f, (U \cap T) \ {x})
        BY <2>1, <3>6, SumRemove
      <4>3. SumFunctionOnSet(f, (U \cap T) \ {x}) = SumFunctionOnSet(f, (U \ {x}) \cap T)
        BY <4>1, Zenon
      <4>4. f[x] = g[x]
        BY <3>6
      <4>5. QED
        BY <3>3, <3>4, <4>2, <4>3, <4>4
    <3>7. CASE x \notin T
      <4>1. U \cap T = (U \ {x}) \cap T
        BY <3>7
      <4>2. SumFunctionOnSet(f, U \cap T) = SumFunctionOnSet(f, (U \ {x}) \cap T)
        BY <4>1, Zenon
      <4>3. g[x] = 0
        BY <3>7
      <4>4. QED
        BY <3>3, <3>4, <3>5, <4>2, <4>3
    <3>8. QED
      BY <3>6, <3>7
  <2>4. QED
    BY <2>2, <2>3
<1> HIDE DEF Good
<1>2. SUBSET S \subseteq Good
  BY <1>1, SubsetInduction
<1>3. S \in Good /\ S \cap T = T
  BY <1>2
<1>4. SumFunctionOnSet(f, S \cap T) = SumFunctionOnSet(f, T)
  BY <1>3, Zenon
<1>5. QED
  BY <1>3, <1>4 DEF Good

\* A sum of zeros is zero.
LEMMA ZeroSum ==
  ASSUME NEW S, IsFiniteSet(S), NEW f, \A x \in S : f[x] = 0
  PROVE  SumFunctionOnSet(f, S) = 0
<1>1. SumFunctionOnSet(f, {}) = SumFunctionOnSet(f, S)
  <2>1. {} \in SUBSET S /\ \A x \in S \ {} : f[x] = 0
    OBVIOUS
  <2>. QED  BY <2>1, SumFilter
<1>. QED  BY <1>1, SumEmpty

\* A sum is no greater with more summands, if none is below zero.
LEMMA SumSubset ==
  ASSUME NEW f, NEW S, IsFiniteSet(S), \A x \in S : f[x] \in Nat, NEW T \in SUBSET S
  PROVE  SumFunctionOnSet(f, T) <= SumFunctionOnSet(f, S)
<1> DEFINE g == [x \in S |-> IF x \in T THEN f[x] ELSE 0]
<1>1. /\ \A x \in T : f[x] \in Int /\ g[x] = f[x]
      /\ \A x \in S \ T : g[x] = 0
      /\ \A x \in S : g[x] \in Int /\ f[x] \in Int /\ g[x] <= f[x]
  OBVIOUS
<1> HIDE DEF g
<1>2. SumFunctionOnSet(f, T) = SumFunctionOnSet(g, S)
  BY <1>1, SumFilter
<1>3. SumFunctionOnSet(g, S) <= SumFunctionOnSet(f, S)
  BY <1>1, SumMonotone
<1>. QED  BY <1>2, <1>3

\* Summands that are found again, each at a place of its own, among those of another
\* sum do not add up to more.
LEMMA SumElsewhere ==
  ASSUME NEW f, NEW S, IsFiniteSet(S), NEW g, NEW R, IsFiniteSet(R), NEW h,
         \A y \in R : g[y] \in Nat,
         \A x \in S : h[x] \in R /\ f[x] = g[h[x]],
         \A x, y \in S : h[x] = h[y] => x = y
  PROVE  SumFunctionOnSet(f, S) <= SumFunctionOnSet(g, R)
<1> DEFINE Image(T) == {h[x] : x \in T}
           Good == {T \in SUBSET S : SumFunctionOnSet(f, T) = SumFunctionOnSet(g, Image(T))}
<1>1. ASSUME NEW T \in SUBSET S, \A U \in SUBSET T : U # T => U \in Good
      PROVE  T \in Good
  <2>1. IsFiniteSet(T) /\ Image(T) \subseteq R
    BY FS_Subset
  <2>2. CASE T = {}
    <3>1. Image(T) = {}
      BY <2>2
    <3>2. SumFunctionOnSet(f, T) = 0 /\ SumFunctionOnSet(g, Image(T)) = 0
      BY <2>2, <3>1, SumEmpty, Zenon
    <3>. QED  BY <3>2
  <2>3. CASE T # {}
    <3>1. PICK x \in T : TRUE
      BY <2>3
    <3>2. PICK U : U = T \ {x}
      OBVIOUS
    <3>3. U \in SUBSET T /\ U # T
      BY <3>1, <3>2
    <3>4. SumFunctionOnSet(f, U) = SumFunctionOnSet(g, Image(U))
      BY <3>3, <1>1
    <3>5. SumFunctionOnSet(f, T) = f[x] + SumFunctionOnSet(f, U)
      <4>1. \A y \in T : f[y] \in Int
        OBVIOUS
      <4>. QED  BY <2>1, <3>1, <3>2, <4>1, SumRemove
    <3>6. h[x] \in Image(T) /\ Image(T) \ {h[x]} = Image(U)
      BY <3>1, <3>2
    <3>7. SumFunctionOnSet(g, Image(T)) = g[h[x]] + SumFunctionOnSet(g, Image(T) \ {h[x]})
      <4>1. PICK I : I = Image(T)
        OBVIOUS
      <4>2. IsFiniteSet(I) /\ (\A y \in I : g[y] \in Int) /\ h[x] \in I
        BY <2>1, <3>6, <4>1, FS_Subset
      <4>3. SumFunctionOnSet(g, I) = g[h[x]] + SumFunctionOnSet(g, I \ {h[x]})
        BY <4>2, SumRemove
      <4>. QED  BY <4>1, <4>3, Zenon
    <3>8. SumFunctionOnSet(g, Image(T) \ {h[x]}) = SumFunctionOnSet(g, Image(U))
      BY <3>6, Zenon
    <3>9. f[x] = g[h[x]]
      BY <3>1
    <3> HIDE DEF Image
    <3>10. SumFunctionOnSet(f, T) = SumFunctionOnSet(g, Image(T))
      BY <3>4, <3>5, <3>7, <3>8, <3>9, Zenon
    <3>. QED  BY <3>10
  <2>. QED  BY <2>2, <2>3
<1>2. SUBSET S \subseteq Good
  <2> HIDE DEF Good
  <2>. QED  BY <1>1, SubsetInduction
<1>3. S \in Good
  BY <1>2
<1>4. SumFunctionOnSet(f, S) = SumFunctionOnSet(g, Image(S))
  BY <1>3
<1>5. PICK I : I = Image(S)
  OBVIOUS
<1>6. I \in SUBSET R
  BY <1>5
<1>7. SumFunctionOnSet(g, I) <= SumFunctionOnSet(g, R)
  BY <1>6, SumSubset
<1> HIDE DEF Image
<1>8. SumFunctionOnSet(g, Image(S)) = SumFunctionOnSet(g, I)
  BY <1>5, Zenon
<1>. QED  BY <1>4, <1>7, <1>8

\* The square of a sum is at most the sum of the squares, times the number of summands.
LEMMA SquareStep ==
  ASSUME NEW n \in Nat, NEW a \in Int, NEW b \in Int, NEW x \in Int,
         a * a <= n * b, n = 0 => a = 0 /\ b = 0
  PROVE  (a + x) * (a + x) <= (n + 1) * (b + x * x)
<1> DEFINE k == b + n * (x * x) - 2 * (a * x)
           y == n * x
<1>1. k \in Int /\ y \in Int
  OBVIOUS
<1>2. (n + 1) * (b + x * x) - (a + x) * (a + x) = (n * b - a * a) + k
  <2>1. (n + 1) * (b + x * x) = n * b + n * (x * x) + b + x * x
    OBVIOUS
  <2>2. (a + x) * (a + x) = a * a + 2 * (a * x) + x * x
    OBVIOUS
  <2>. QED  BY <2>1, <2>2
<1>3. CASE n = 0
  BY <1>3
<1>4. CASE n # 0
  <2>1. n * k = n * b + y * y - 2 * (a * y)
    <3>1. n * (n * (x * x)) = y * y
      OBVIOUS
    <3>2. n * (a * x) = a * y
      OBVIOUS
    <3>3. n * k = n * b + n * (n * (x * x)) - 2 * (n * (a * x))
      OBVIOUS
    <3>. QED  BY <3>1, <3>2, <3>3
  <2>2. (a - y) * (a - y) = a * a + y * y - 2 * (a * y)
    BY <1>1
  <2>3. (a - y) * (a - y) >= 0
    <3>1. \A z \in Int : z * z >= 0
      OBVIOUS
    <3>2. a - y \in Int
      BY <1>1
    <3> HIDE DEF y
    <3>. QED  BY <3>1, <3>2
  <2> HIDE DEF k, y
  <2>4. n * k >= 0
    BY <1>1, <2>1, <2>2, <2>3
  <2>5. k >= 0
    BY <1>1, <1>4, <2>4
  <2>. QED  BY <1>1, <1>2, <2>5
<1>. QED  BY <1>3, <1>4

LEMMA SumSquares ==
  ASSUME NEW f, NEW q, NEW S, IsFiniteSet(S), \A x \in S : f[x] \in Int /\ q[x] = f[x] * f[x]
  PROVE  SumFunctionOnSet(f, S) * SumFunctionOnSet(f, S) <= Cardinality(S) * SumFunctionOnSet(q, S)
<1> DEFINE Good == {T \in SUBSET S : SumFunctionOnSet(f, T) * SumFunctionOnSet(f, T)
                                        <= Cardinality(T) * SumFunctionOnSet(q, T)}
<1>1. ASSUME NEW T \in SUBSET S, \A U \in SUBSET T : U # T => U \in Good
      PROVE  T \in Good
  <2>1. IsFiniteSet(T)
    BY FS_Subset
  <2>2. CASE T = {}
    <3>1. SumFunctionOnSet(f, T) = 0 /\ SumFunctionOnSet(q, T) = 0 /\ Cardinality(T) = 0
      BY <2>2, SumEmpty, FS_EmptySet, Zenon
    <3>. QED  BY <3>1
  <2>3. CASE T # {}
    <3>1. PICK x \in T : TRUE
      BY <2>3
    <3>2. PICK U : U = T \ {x}
      OBVIOUS
    <3>3. U \in SUBSET T /\ U # T
      BY <3>1, <3>2
    <3>4. SumFunctionOnSet(f, U) * SumFunctionOnSet(f, U) <= Cardinality(U) * SumFunctionOnSet(q, U)
      BY <3>3, <1>1
    <3>5. /\ IsFiniteSet(U) /\ Cardinality(U) \in Nat /\ Cardinality(T) = Cardinality(U) + 1
      <4>1. IsFiniteSet(T \ {x}) /\ Cardinality(T \ {x}) = Cardinality(T) - 1
        BY <2>1, <3>1, FS_RemoveElement
      <4>2. IsFiniteSet(U) /\ Cardinality(U) = Cardinality(T) - 1
        BY <4>1, <3>2, Zenon
      <4>3. Cardinality(U) \in Nat /\ Cardinality(T) \in Nat
        BY <2>1, <4>2, FS_CardinalityType, Zenon
      <4>. QED  BY <4>2, <4>3
    <3>6. \A y \in T : f[y] \in Int /\ q[y] \in Int
      OBVIOUS
    <3>7. /\ SumFunctionOnSet(f, T) = f[x] + SumFunctionOnSet(f, U)
          /\ SumFunctionOnSet(q, T) = q[x] + SumFunctionOnSet(q, U)
      <4>1. SumFunctionOnSet(f, T) = f[x] + SumFunctionOnSet(f, T \ {x})
        <5>1. \A y \in T : f[y] \in Int
          BY <3>6
        <5>. QED  BY ONLY <2>1, <3>1, <5>1, SumRemove, SMTT(60)
      <4>2. SumFunctionOnSet(q, T) = q[x] + SumFunctionOnSet(q, T \ {x})
        <5>1. \A y \in T : q[y] \in Int
          BY <3>6
        <5>. QED  BY ONLY <2>1, <3>1, <5>1, SumRemove, SMTT(60)
      <4>. QED  BY <3>2, <4>1, <4>2, Zenon
    <3>8. SumFunctionOnSet(f, U) \in Int /\ SumFunctionOnSet(q, U) \in Int
      BY <3>3, <3>5, <3>6, SumInt
    <3>9. Cardinality(U) = 0 => SumFunctionOnSet(f, U) = 0 /\ SumFunctionOnSet(q, U) = 0
      <4>1. Cardinality(U) = 0 => U = {}
        BY <3>5, FS_EmptySet
      <4>. QED  BY <4>1, SumEmpty, Zenon
    <3>10. PICK n, a, b : /\ n = Cardinality(U) /\ a = SumFunctionOnSet(f, U)
                          /\ b = SumFunctionOnSet(q, U)
      OBVIOUS
    <3>11. /\ n \in Nat /\ a \in Int /\ b \in Int /\ a * a <= n * b /\ (n = 0 => a = 0 /\ b = 0)
      BY <3>4, <3>5, <3>8, <3>9, <3>10
    <3>12. f[x] \in Int /\ q[x] = f[x] * f[x]
      BY <3>1
    <3>13. (a + f[x]) * (a + f[x]) <= (n + 1) * (b + f[x] * f[x])
      BY <3>11, <3>12, SquareStep
    <3>14. /\ SumFunctionOnSet(f, T) = a + f[x] /\ SumFunctionOnSet(q, T) = b + f[x] * f[x]
           /\ Cardinality(T) = n + 1
      BY <3>5, <3>7, <3>10, <3>11, <3>12
    <3>. QED  BY <3>13, <3>14
  <2>. QED  BY <2>2, <2>3
<1> HIDE DEF Good
<1>2. SUBSET S \subseteq Good
  BY <1>1, SubsetInduction
<1>3. S \in Good
  BY <1>2
<1>. QED  BY <1>3 DEF Good
=============================================================================
