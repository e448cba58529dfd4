----------------------------- MODULE Sums_proofs -----------------------------
(* Facts about SumOver.  MapThenSumSet chooses a function that satisfies its *)
(* recursion: there is one, and sums follow by induction, which is the       *)
(* choice of a least set that would be an exception.                         *)
EXTENDS Sums, FiniteSetTheorems, TLAPS

Some(S) == CHOOSE x \in S : TRUE
\* A step of the recursion SumOver is defined by.
Adds(f, g, s) == IF s = {} THEN 0 ELSE f[Some(s)] + g[s \ {Some(s)}]
Adding(f, g, S) == g = [s \in SUBSET S |-> Adds(f, g, s)]

\* A sum is the value of such a function.
LEMMA SumIsChosen ==
  ASSUME NEW f, NEW S
  PROVE  SumOver(f, S) = (CHOOSE g : Adding(f, g, S))[S]
BY DEF SumOver, MapThenSumSet, MapThenFoldSet, Adding, Adds, Some

\* The element a sum begins with.
LEMMA SomeIsIn ==
  ASSUME NEW S, S # {}
  PROVE  Some(S) \in S /\ S \ {Some(S)} \subseteq S /\ S \ {Some(S)} # S
<1>1. Some(S) \in S
  BY DEF Some
<1>. QED
  BY <1>1

\* Sets of finite sets have a least one.
LEMMA Least ==
  ASSUME NEW S, IsFiniteSet(S), NEW T \in SUBSET SUBSET S, T # {}
  PROVE  \E x \in T : \A y \in T : ~(y \subseteq x /\ y # x)
<1>1. IsWellFoundedOn(StrictSubsetOrdering(S), FiniteSubsetsOf(S))
  BY FS_StrictSubsetOrderingWellFounded
<1>2. FiniteSubsetsOf(S) = SUBSET S
  BY FS_FiniteSubsetsOfFinite
<1>3. PICK x \in T : \A y \in SUBSET S : <<y, x>> \in StrictSubsetOrdering(S) => y \notin T
  BY <1>1, <1>2, WFMin
<1>. QED
  BY <1>3 DEF StrictSubsetOrdering

\* Two functions that add agree.
LEMMA AddingAgree ==
  ASSUME NEW f, NEW g, NEW h, NEW S, NEW T, IsFiniteSet(S), T \subseteq S,
         Adding(f, g, S), Adding(f, h, T)
  PROVE  \A s \in SUBSET T : g[s] = h[s]
<1> DEFINE Bad == {s \in SUBSET T : g[s] # h[s]}
<1>1. IsFiniteSet(T)
  BY FS_Subset
<1>2. \A s \in SUBSET T : g[s] = Adds(f, g, s) /\ h[s] = Adds(f, h, s)
  BY DEF Adding
<1> SUFFICES ASSUME Bad # {} PROVE FALSE
  OBVIOUS
<1>3. PICK s \in Bad : \A y \in Bad : ~(y \subseteq s /\ y # s)
  <2>1. Bad \in SUBSET SUBSET T /\ Bad # {}
    OBVIOUS
  <2> HIDE DEF Bad
  <2>. QED
    BY <1>1, <2>1, Least
<1>4. s # {}
  BY <1>2 DEF Adds
<1>5. s \ {Some(s)} \notin Bad
  BY <1>3, <1>4, SomeIsIn
<1>6. g[s \ {Some(s)}] = h[s \ {Some(s)}]
  BY <1>5
<1>. QED
  BY <1>2, <1>4, <1>6 DEF Adds

\* There is a function that adds.
LEMMA AddingExists ==
  ASSUME NEW f, NEW S, IsFiniteSet(S)
  PROVE  \E g : Adding(f, g, S)
<1> DEFINE G(U) == CHOOSE g : Adding(f, g, U)
           Bad == {U \in SUBSET S : ~ \E g : Adding(f, g, U)}
<1> SUFFICES ASSUME Bad # {} PROVE FALSE
  OBVIOUS
<1>1. PICK R \in Bad : \A y \in Bad : ~(y \subseteq R /\ y # R)
  <2>1. Bad \in SUBSET SUBSET S /\ Bad # {}
    OBVIOUS
  <2> HIDE DEF Bad
  <2>. QED
    BY <2>1, Least
<1>2. ASSUME NEW U \in SUBSET R, U # R PROVE Adding(f, G(U), U)
  <2>1. U \notin Bad
    BY <1>1, <1>2
  <2>2. \E g : Adding(f, g, U)
    BY <2>1
  <2>. QED
    BY <2>2
<1> DEFINE Sm(U) == G(U)[U]
           k == [s \in SUBSET R |-> IF s = {} THEN 0 ELSE f[Some(s)] + Sm(s \ {Some(s)})]
<1> HIDE DEF G
<1>3. ASSUME NEW s \in SUBSET R, s # R PROVE k[s] = Sm(s)
  <2>1. Adding(f, G(s), s) /\ IsFiniteSet(s)
    BY <1>2, <1>3, FS_Subset
  <2>2. Sm(s) = Adds(f, G(s), s)
    BY <2>1 DEF Adding
  <2>3. CASE s = {}
    BY <2>2, <2>3 DEF Adds
  <2>4. CASE s # {}
    <3> DEFINE V == s \ {Some(s)}
    <3>1. V \in SUBSET s /\ V # s /\ V \in SUBSET R /\ V # R
      BY <2>4, SomeIsIn
    <3>2. Adding(f, G(V), V)
      BY <3>1, <1>2
    <3>3. G(s)[V] = G(V)[V]
      <4> HIDE DEF V
      <4>. QED
        BY <2>1, <3>1, <3>2, AddingAgree
    <3>. QED
      BY <2>2, <2>4, <3>3 DEF Adds
  <2>. QED
    BY <2>3, <2>4
<1>4. ASSUME NEW s \in SUBSET R PROVE k[s] = Adds(f, k, s)
  <2>1. CASE s = {}
    BY <2>1 DEF Adds
  <2>2. CASE s # {}
    <3>1. s \ {Some(s)} \in SUBSET R /\ s \ {Some(s)} # R
      BY <2>2, SomeIsIn
    <3>2. k[s \ {Some(s)}] = Sm(s \ {Some(s)})
      BY <3>1, <1>3
    <3>3. k[s] = f[Some(s)] + Sm(s \ {Some(s)})
      BY <2>2
    <3> HIDE DEF k, Sm
    <3>. QED
      BY <2>2, <3>2, <3>3 DEF Adds
  <2>. QED
    BY <2>1, <2>2
<1>5. k = [s \in SUBSET R |-> k[s]]
  OBVIOUS
<1> HIDE DEF k
<1>6. Adding(f, k, R)
  BY <1>4, <1>5 DEF Adding
<1>. QED
  BY <1>1, <1>6

\* A sum is that of some element and the rest.
LEMMA SumStep ==
  ASSUME NEW f, NEW S, IsFiniteSet(S)
  PROVE  /\ S = {} => SumOver(f, S) = 0
         /\ S # {} => SumOver(f, S) = f[Some(S)] + SumOver(f, S \ {Some(S)})
<1> DEFINE G(U) == CHOOSE g : Adding(f, g, U)
<1>1. \A U \in SUBSET S : Adding(f, G(U), U) /\ SumOver(f, U) = G(U)[U]
  <2> SUFFICES ASSUME NEW U \in SUBSET S PROVE Adding(f, G(U), U) /\ SumOver(f, U) = G(U)[U]
    OBVIOUS
  <2>1. IsFiniteSet(U)
    BY FS_Subset
  <2>. QED
    BY <2>1, AddingExists, SumIsChosen
<1> HIDE DEF G
<1>2. SumOver(f, S) = Adds(f, G(S), S)
  BY <1>1 DEF Adding
<1>3. CASE S = {}
  BY <1>2, <1>3 DEF Adds
<1>4. CASE S # {}
  <2> DEFINE V == S \ {Some(S)}
  <2>1. V \in SUBSET S
    OBVIOUS
  <2>2. G(S)[V] = G(V)[V]
    <3> HIDE DEF V
    <3>. QED
      BY <1>1, <2>1, AddingAgree
  <2>. QED
    BY <1>1, <1>2, <1>4, <2>1, <2>2 DEF Adds
<1>. QED
  BY <1>3, <1>4

\* A sum of natural numbers is one.
LEMMA SumIsNat ==
  ASSUME NEW D, NEW f \in [D -> Nat], NEW S \in SUBSET D, IsFiniteSet(S)
  PROVE  SumOver(f, S) \in Nat
<1> DEFINE Bad == {U \in SUBSET S : SumOver(f, U) \notin Nat}
<1> SUFFICES ASSUME Bad # {} PROVE FALSE
  OBVIOUS
<1>1. PICK U \in Bad : \A y \in Bad : ~(y \subseteq U /\ y # U)
  <2>1. Bad \in SUBSET SUBSET S /\ Bad # {}
    OBVIOUS
  <2> HIDE DEF Bad
  <2>. QED
    BY <2>1, Least
<1>2. IsFiniteSet(U) /\ SumOver(f, U) \notin Nat
  BY FS_Subset
<1>3. U # {}
  <2>1. SumOver(f, {}) = 0
    BY SumStep, FS_EmptySet
  <2>. QED
    BY <1>2, <2>1
<1>4. SumOver(f, U) = f[Some(U)] + SumOver(f, U \ {Some(U)})
  BY <1>2, <1>3, SumStep
<1>5. U \ {Some(U)} \notin Bad /\ Some(U) \in U
  BY <1>1, <1>3, SomeIsIn
<1>6. SumOver(f, U \ {Some(U)}) \in Nat /\ f[Some(U)] \in Nat
  BY <1>5
<1>. QED
  BY <1>2, <1>4, <1>6

\* A sum is that of any element and the rest.
LEMMA SumAny ==
  ASSUME NEW D, NEW f \in [D -> Nat], NEW S \in SUBSET D, IsFiniteSet(S), NEW x \in S
  PROVE  SumOver(f, S) = f[x] + SumOver(f, S \ {x})
<1> DEFINE Holds(U) == \A z \in U : SumOver(f, U) = f[z] + SumOver(f, U \ {z})
           Bad == {U \in SUBSET S : ~Holds(U)}
<1> SUFFICES ASSUME Bad # {} PROVE FALSE
  OBVIOUS
<1>1. PICK U \in Bad : \A y \in Bad : ~(y \subseteq U /\ y # U)
  <2>1. Bad \in SUBSET SUBSET S /\ Bad # {}
    OBVIOUS
  <2> HIDE DEF Bad
  <2>. QED
    BY <2>1, Least
<1>2. PICK z \in U : SumOver(f, U) # f[z] + SumOver(f, U \ {z})
  OBVIOUS
<1> DEFINE y == Some(U)
<1>3. IsFiniteSet(U) /\ y \in U
  BY <1>2, FS_Subset, SomeIsIn
<1>4. SumOver(f, U) = f[y] + SumOver(f, U \ {y})
  BY <1>3, SumStep
<1>5. z # y
  BY <1>2, <1>4
<1> HIDE DEF y
<1>6. SumOver(f, U \ {y}) = f[z] + SumOver(f, (U \ {y}) \ {z})
  <2>1. U \ {y} \in SUBSET S /\ U \ {y} \notin Bad
    BY <1>1, <1>3
  <2>2. Holds(U \ {y}) /\ z \in U \ {y}
    BY <2>1, <1>2, <1>5
  <2>. QED
    BY <2>2
<1>7. SumOver(f, U \ {z}) = f[y] + SumOver(f, (U \ {z}) \ {y})
  <2>1. U \ {z} \in SUBSET S /\ U \ {z} \notin Bad
    BY <1>1, <1>2
  <2>2. Holds(U \ {z}) /\ y \in U \ {z}
    BY <2>1, <1>3, <1>5
  <2>. QED
    BY <2>2
<1> DEFINE V == (U \ {y}) \ {z}
<1>8. (U \ {z}) \ {y} = V
  OBVIOUS
<1>9. SumOver(f, V) \in Nat /\ f[y] \in Nat /\ f[z] \in Nat
  <2>1. V \in SUBSET D /\ IsFiniteSet(V)
    BY <1>3, FS_Subset
  <2> HIDE DEF V
  <2>. QED
    BY <2>1, <1>2, <1>3, SumIsNat
<1>10. SumOver(f, U) = f[y] + (f[z] + SumOver(f, V))
  BY <1>4, <1>6
<1>11. SumOver(f, U \ {z}) = f[y] + SumOver(f, V)
  BY <1>7, <1>8
<1> HIDE DEF V, Bad
<1>. QED
  BY <1>2, <1>9, <1>10, <1>11

\* An element is added.
LEMMA SumAdd ==
  ASSUME NEW D, NEW f \in [D -> Nat], NEW S \in SUBSET D, IsFiniteSet(S), NEW x \in D \ S
  PROVE  SumOver(f, S \union {x}) = f[x] + SumOver(f, S)
<1>1. S \union {x} \in SUBSET D /\ IsFiniteSet(S \union {x}) /\ (S \union {x}) \ {x} = S
  BY FS_AddElement
<1>2. SumOver(f, S \union {x}) = f[x] + SumOver(f, (S \union {x}) \ {x})
  BY <1>1, SumAny
<1>. QED
  BY <1>1, <1>2

-----------------------------------------------------------------------------
(* Sums by induction                                                       *)

\* A set of subsets of S with the empty one, and with every set the set that has
\* one element more, has S.
LEMMA OneByOne ==
  ASSUME NEW S, IsFiniteSet(S), NEW P, {} \in P,
         \A U \in SUBSET S : \A x \in S \ U : U \in P => U \union {x} \in P
  PROVE  S \in P
<1> DEFINE Bad == {U \in SUBSET S : U \notin P}
<1> SUFFICES ASSUME S \notin P PROVE FALSE
  OBVIOUS
<1>1. PICK U \in Bad : \A y \in Bad : ~(y \subseteq U /\ y # U)
  <2>1. Bad \in SUBSET SUBSET S /\ Bad # {}
    OBVIOUS
  <2> HIDE DEF Bad
  <2>. QED
    BY <2>1, Least
<1>2. PICK x \in U : TRUE
  OBVIOUS
<1> DEFINE V == U \ {x}
<1>3. V \in SUBSET S /\ x \in S \ V /\ V \union {x} = U
  BY <1>2
<1>4. V \in P
  BY <1>1, <1>2
<1>. QED
  BY <1>3, <1>4

\* A sum over nothing.
LEMMA SumNone == ASSUME NEW f PROVE SumOver(f, {}) = 0
  BY SumStep, FS_EmptySet

Agree(f, g, S) == \A x \in S : f[x] = g[x]

\* A sum depends on the values at the elements only.
LEMMA SumAgree ==
  ASSUME NEW D, NEW f \in [D -> Nat], NEW E, NEW g \in [E -> Nat],
         NEW S, S \subseteq D, S \subseteq E, IsFiniteSet(S), Agree(f, g, S)
  PROVE  SumOver(f, S) = SumOver(g, S)
<1> DEFINE P == {U \in SUBSET S : SumOver(f, U) = SumOver(g, U)}
<1>1. {} \in P
  BY SumNone
<1>2. ASSUME NEW U \in SUBSET S, NEW x \in S \ U, U \in P PROVE U \union {x} \in P
  <2>1. IsFiniteSet(U)
    BY FS_Subset
  <2>2. SumOver(f, U \union {x}) = f[x] + SumOver(f, U)
    BY <2>1, SumAdd
  <2>3. SumOver(g, U \union {x}) = g[x] + SumOver(g, U)
    BY <2>1, SumAdd
  <2>4. f[x] = g[x]
    BY DEF Agree
  <2>. QED
    BY <1>2, <2>2, <2>3, <2>4
<1> HIDE DEF P
<1>3. S \in P
  BY <1>1, <1>2, OneByOne
<1>. QED
  BY <1>3 DEF P

\* Of numbers that are all zero.
LEMMA SumZero ==
  ASSUME NEW D, NEW f \in [D -> Nat], NEW S \in SUBSET D, IsFiniteSet(S), \A x \in S : f[x] = 0
  PROVE  SumOver(f, S) = 0
<1> DEFINE P == {U \in SUBSET S : SumOver(f, U) = 0}
<1>1. {} \in P
  BY SumNone
<1>2. ASSUME NEW U \in SUBSET S, NEW x \in S \ U, U \in P PROVE U \union {x} \in P
  <2>1. IsFiniteSet(U)
    BY FS_Subset
  <2>2. SumOver(f, U \union {x}) = f[x] + SumOver(f, U)
    BY <2>1, SumAdd
  <2>. QED
    BY <1>2, <2>2
<1> HIDE DEF P
<1>3. S \in P
  BY <1>1, <1>2, OneByOne
<1>. QED
  BY <1>3 DEF P

\* Over two sets that share nothing.
LEMMA SumUnion ==
  ASSUME NEW D, NEW f \in [D -> Nat], NEW S \in SUBSET D, NEW T \in SUBSET D,
         IsFiniteSet(S), IsFiniteSet(T), S \intersect T = {}
  PROVE  SumOver(f, S \union T) = SumOver(f, S) + SumOver(f, T)
<1> DEFINE P == {U \in SUBSET T : SumOver(f, S \union U) = SumOver(f, S) + SumOver(f, U)}
<1>0. SumOver(f, S) \in Nat
  BY SumIsNat
<1>1. {} \in P
  BY <1>0, SumNone
<1>2. ASSUME NEW U \in SUBSET T, NEW x \in T \ U, U \in P PROVE U \union {x} \in P
  <2>1. IsFiniteSet(U)
    BY FS_Subset
  <2>2. SumOver(f, U \union {x}) = f[x] + SumOver(f, U) /\ SumOver(f, U) \in Nat /\ f[x] \in Nat
    BY <2>1, SumAdd, SumIsNat
  <2> DEFINE W == S \union U
  <2>3. W \in SUBSET D /\ IsFiniteSet(W) /\ x \in D \ W
    BY <2>1, FS_Union
  <2>4. SumOver(f, W \union {x}) = f[x] + SumOver(f, W)
    <3> HIDE DEF W
    <3>. QED
      BY <2>3, SumAdd
  <2>5. S \union (U \union {x}) = W \union {x}
    OBVIOUS
  <2>6. SumOver(f, W) = SumOver(f, S) + SumOver(f, U)
    BY <1>2
  <2>7. SumOver(f, S \union (U \union {x})) = SumOver(f, S) + SumOver(f, U \union {x})
    <3> HIDE DEF W, P
    <3>1. SumOver(f, S \union (U \union {x})) = SumOver(f, W \union {x})
      BY <2>5
    <3>. QED
      BY <1>0, <2>2, <2>4, <2>6, <3>1
  <2>. QED
    BY <2>7
<1> HIDE DEF P
<1>3. T \in P
  BY <1>1, <1>2, OneByOne
<1>. QED
  BY <1>3 DEF P

\* A part is not more than the whole.
LEMMA SumPart ==
  ASSUME NEW D, NEW f \in [D -> Nat], NEW S \in SUBSET D, IsFiniteSet(S), NEW T \in SUBSET S
  PROVE  SumOver(f, T) <= SumOver(f, S)
<1> DEFINE R == S \ T
<1>1. IsFiniteSet(T) /\ IsFiniteSet(R) /\ R \in SUBSET D /\ T \intersect R = {} /\ T \union R = S
  BY FS_Subset
<1> HIDE DEF R
<1>2. SumOver(f, T \union R) = SumOver(f, T) + SumOver(f, R)
  BY <1>1, SumUnion
<1>3. SumOver(f, T) \in Nat /\ SumOver(f, R) \in Nat
  BY <1>1, SumIsNat
<1>4. SumOver(f, S) = SumOver(f, T) + SumOver(f, R)
  BY <1>1, <1>2
<1>. QED
  BY <1>3, <1>4

\* Of two functions at once.
AddsUp(h, f, g, S) == \A x \in S : h[x] = f[x] + g[x]

LEMMA SumPlus ==
  ASSUME NEW D, NEW f \in [D -> Nat], NEW g \in [D -> Nat], NEW h \in [D -> Nat],
         NEW S \in SUBSET D, IsFiniteSet(S), AddsUp(h, f, g, S)
  PROVE  SumOver(h, S) = SumOver(f, S) + SumOver(g, S)
<1> DEFINE P == {U \in SUBSET S : SumOver(h, U) = SumOver(f, U) + SumOver(g, U)}
<1>1. {} \in P
  BY SumNone
<1>2. ASSUME NEW U \in SUBSET S, NEW x \in S \ U, U \in P PROVE U \union {x} \in P
  <2>1. IsFiniteSet(U)
    BY FS_Subset
  <2>2. SumOver(f, U \union {x}) = f[x] + SumOver(f, U) /\ SumOver(f, U) \in Nat /\ f[x] \in Nat
    BY <2>1, SumAdd, SumIsNat
  <2>3. SumOver(g, U \union {x}) = g[x] + SumOver(g, U) /\ SumOver(g, U) \in Nat /\ g[x] \in Nat
    BY <2>1, SumAdd, SumIsNat
  <2>4. SumOver(h, U \union {x}) = h[x] + SumOver(h, U)
    BY <2>1, SumAdd
  <2>5. h[x] = f[x] + g[x]
    BY DEF AddsUp
  <2>. QED
    BY <1>2, <2>2, <2>3, <2>4, <2>5
<1> HIDE DEF P
<1>3. S \in P
  BY <1>1, <1>2, OneByOne
<1>. QED
  BY <1>3 DEF P

\* Of two functions that differ at one element.
LEMMA SumChanged ==
  ASSUME NEW D, NEW f \in [D -> Nat], NEW g \in [D -> Nat], NEW S \in SUBSET D, IsFiniteSet(S),
         NEW x \in S, \A y \in S \ {x} : g[y] = f[y]
  PROVE  SumOver(g, S) + f[x] = SumOver(f, S) + g[x]
<1> DEFINE R == S \ {x}
<1>1. R \in SUBSET D /\ IsFiniteSet(R)
  BY FS_Subset
<1>2. SumOver(f, S) = f[x] + SumOver(f, R) /\ SumOver(g, S) = g[x] + SumOver(g, R)
  BY SumAny
<1> HIDE DEF R
<1>3. SumOver(f, R) = SumOver(g, R)
  <2>1. Agree(f, g, R)
    BY DEF R, Agree
  <2>. QED
    BY <1>1, <2>1, SumAgree
<1>4. SumOver(f, R) \in Nat
  BY <1>1, SumIsNat
<1>. QED
  BY <1>2, <1>3, <1>4

\* The function n gives the elements of S other names, under which g is what f is.
Renames(n, f, S, g, E) ==
  /\ n \in [S -> E]
  /\ \A x, y \in S : n[x] = n[y] => x = y
  /\ \A x \in S : g[n[x]] = f[x]

LEMMA SumRenamed ==
  ASSUME NEW D, NEW f \in [D -> Nat], NEW E, NEW g \in [E -> Nat],
         NEW S \in SUBSET D, IsFiniteSet(S), NEW n, Renames(n, f, S, g, E)
  PROVE  IsFiniteSet({n[x] : x \in S}) /\ SumOver(g, {n[x] : x \in S}) = SumOver(f, S)
<1> DEFINE Image(U) == {n[x] : x \in U}
           P == {U \in SUBSET S : IsFiniteSet(Image(U)) /\ SumOver(g, Image(U)) = SumOver(f, U)}
<1>0. /\ n \in [S -> E] /\ \A x, y \in S : n[x] = n[y] => x = y
      /\ \A x \in S : g[n[x]] = f[x]
  BY DEF Renames
<1>1. {} \in P
  BY SumNone, FS_EmptySet
<1>2. ASSUME NEW U \in SUBSET S, NEW x \in S \ U, U \in P PROVE U \union {x} \in P
  <2>1. IsFiniteSet(U)
    BY FS_Subset
  <2>2. SumOver(f, U \union {x}) = f[x] + SumOver(f, U)
    BY <2>1, SumAdd
  <2> DEFINE V == Image(U)
  <2>3. IsFiniteSet(V) /\ V \in SUBSET E
    BY <1>0, <1>2
  <2>4. n[x] \in E \ V
    BY <1>0
  <2>5. Image(U \union {x}) = V \union {n[x]}
    OBVIOUS
  <2>6. SumOver(g, V \union {n[x]}) = g[n[x]] + SumOver(g, V)
    <3> HIDE DEF V
    <3>. QED
      BY <2>3, <2>4, SumAdd
  <2>7. SumOver(g, V) = SumOver(f, U)
    BY <1>2
  <2>8. SumOver(g, Image(U \union {x})) = SumOver(f, U \union {x})
    <3> HIDE DEF V, P, Image
    <3>. QED
      BY <1>0, <2>2, <2>5, <2>6, <2>7
  <2>9. IsFiniteSet(Image(U \union {x}))
    <3> HIDE DEF V, P, Image
    <3>1. IsFiniteSet(V \union {n[x]})
      BY <2>3, FS_AddElement
    <3>. QED
      BY <2>5, <3>1
  <2>. QED
    BY <2>8, <2>9
<1> HIDE DEF P
<1>3. S \in P
  BY <1>1, <1>2, OneByOne
<1>. QED
  BY <1>3 DEF P

\* By classes: c[i] is the class of i, and t[a] the sum over class a.
Classes(f, S, c, t, A) ==
  /\ c \in [S -> A]
  /\ \A a \in A : t[a] = SumOver(f, {i \in S : c[i] = a})

LEMMA SumByClass ==
  ASSUME NEW D, NEW f \in [D -> Nat], NEW S \in SUBSET D, IsFiniteSet(S),
         NEW A, IsFiniteSet(A), NEW t \in [A -> Nat], NEW c, Classes(f, S, c, t, A)
  PROVE  SumOver(t, A) = SumOver(f, S)
<1> DEFINE In(B) == {i \in S : c[i] \in B}
           P == {B \in SUBSET A : SumOver(t, B) = SumOver(f, In(B))}
<1>0. c \in [S -> A] /\ \A a \in A : t[a] = SumOver(f, {i \in S : c[i] = a})
  BY DEF Classes
<1>1. {} \in P
  <2>1. In({}) = {}
    OBVIOUS
  <2>. QED
    BY <2>1, SumNone
<1>2. ASSUME NEW B \in SUBSET A, NEW a \in A \ B, B \in P PROVE B \union {a} \in P
  <2>1. IsFiniteSet(B)
    BY FS_Subset
  <2>2. SumOver(t, B \union {a}) = t[a] + SumOver(t, B)
    BY <2>1, SumAdd
  <2> DEFINE X == In(B)
             Y == {i \in S : c[i] = a}
  <2>3. X \in SUBSET D /\ Y \in SUBSET D /\ X \intersect Y = {} /\ In(B \union {a}) = X \union Y
    OBVIOUS
  <2>4. IsFiniteSet(X) /\ IsFiniteSet(Y)
    BY FS_Subset
  <2>5. t[a] = SumOver(f, Y) /\ SumOver(t, B) = SumOver(f, X)
    BY <1>0, <1>2
  <2>6. SumOver(t, B \union {a}) = SumOver(f, In(B \union {a}))
    <3> HIDE DEF X, Y, P, In
    <3>1. SumOver(f, X) \in Nat /\ SumOver(f, Y) \in Nat
      BY <2>3, <2>4, SumIsNat
    <3>2. SumOver(f, X \union Y) = SumOver(f, X) + SumOver(f, Y)
      BY <2>3, <2>4, SumUnion
    <3>3. SumOver(f, In(B \union {a})) = SumOver(f, X \union Y)
      BY <2>3
    <3>. QED
      BY <2>2, <2>5, <3>1, <3>2, <3>3
  <2>. QED
    BY <2>6
<1> HIDE DEF P
<1>3. A \in P
  BY <1>1, <1>2, OneByOne
<1>4. In(A) = S
  BY <1>0
<1> HIDE DEF In
<1>. QED
  BY <1>3, <1>4 DEF P
=============================================================================
