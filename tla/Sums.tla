-------------------------------- MODULE Sums --------------------------------
(***************************************************************************)
(* Sums over finite sets, for the proofs of the other modules.  The models *)
(* add up rows with SumFunctionOnSet of the module Functions; here is what *)
(* such a sum is for every function and every finite set.                  *)
(*                                                                         *)
(* The library's induction theorems take the statement to be proved as an  *)
(* operator.  SetInduction takes it as a set instead: the subsets it holds *)
(* of.                                                                     *)
(***************************************************************************)
EXTENDS Integers, FiniteSets, Functions, FiniteSetTheorems, WellFoundedInduction, TLAPS

\* What holds of the empty set, and of a set when it holds of that set less
\* any element, holds of every finite set: T are the subsets it holds of.
LEMMA SetInduction ==
    ASSUME NEW S, IsFiniteSet(S), NEW T, {} \in T,
           \A U \in SUBSET S : U # {} /\ (\A x \in U : U \ {x} \in T) => U \in T
    PROVE  S \in T
  <1> SUFFICES ASSUME S \notin T PROVE FALSE
    OBVIOUS
  <1> DEFINE Bad == {U \in FiniteSubsetsOf(S) : U \notin T}
  <1>1. S \in Bad
    BY DEF FiniteSubsetsOf
  <1>2. IsWellFoundedOn(StrictSubsetOrdering(S), FiniteSubsetsOf(S))
    BY FS_StrictSubsetOrderingWellFounded
  <1>3. Bad \subseteq FiniteSubsetsOf(S) /\ Bad # {}
    BY <1>1
  <1>. HIDE DEF Bad
  <1>4. \E U \in Bad : \A V \in Bad : <<V, U>> \notin StrictSubsetOrdering(S)
    BY <1>2, <1>3, WFMin
  <1>. USE DEF Bad
  <1>5. PICK U \in Bad : \A V \in Bad : <<V, U>> \notin StrictSubsetOrdering(S)
    BY <1>4
  <1>6. U # {} /\ U \in SUBSET S /\ IsFiniteSet(U)
    BY <1>5 DEF FiniteSubsetsOf
  <1>7. ASSUME NEW x \in U PROVE U \ {x} \in T
    <2>1. U \ {x} \in FiniteSubsetsOf(S)
      BY <1>6, FS_RemoveElement DEF FiniteSubsetsOf
    <2>2. <<U \ {x}, U>> \in StrictSubsetOrdering(S)
      BY <1>6, <1>7 DEF StrictSubsetOrdering
    <2>. QED
      BY <1>5, <2>1, <2>2
  <1>. QED
    BY <1>5, <1>6, <1>7

-----------------------------------------------------------------------------
(* The recursion by which the library defines a sum                        *)

Pick(s) == CHOOSE x \in s : TRUE

\* One unfolding of the recursion over the subsets of S.
Unfold(f, S, g) ==
    [s \in SUBSET S |-> IF s = {} THEN 0 ELSE f[Pick(s)] + g[s \ {Pick(s)}]]

Partial(f, S) == CHOOSE g : g = Unfold(f, S, g)

LEMMA SumIsPartial ==
    ASSUME NEW f, NEW S
    PROVE  SumFunctionOnSet(f, S) = Partial(f, S)[S]
  BY DEF SumFunctionOnSet, FoldFunctionOnSet, MapThenFoldSet, Partial, Unfold, Pick

LEMMA PickIn ==
    ASSUME NEW s, s # {}
    PROVE  Pick(s) \in s
  BY DEF Pick

\* Two solutions of the recursion agree on the finite sets they share.
LEMMA PartialUnique ==
    ASSUME NEW f, NEW U, NEW V, NEW g, NEW h, g = Unfold(f, U, g), h = Unfold(f, V, h),
           NEW s, s \subseteq U, s \subseteq V, IsFiniteSet(s)
    PROVE  g[s] = h[s]
  <1> DEFINE T == {r \in SUBSET s : g[r] = h[r]}
  <1>1. \A r \in SUBSET s : r # {} =>
            /\ g[r] = f[Pick(r)] + g[r \ {Pick(r)}]
            /\ h[r] = f[Pick(r)] + h[r \ {Pick(r)}]
    BY DEF Unfold
  <1>2. {} \in T
    BY DEF Unfold
  <1>3. ASSUME NEW r \in SUBSET s, r # {}, \A x \in r : r \ {x} \in T PROVE r \in T
    BY <1>1, <1>3, PickIn
  <1>. HIDE DEF T
  <1>4. s \in T
    BY <1>2, <1>3, SetInduction
  <1>. QED
    BY <1>4 DEF T

\* The recursion has a solution over every finite set.
LEMMA PartialExists ==
    ASSUME NEW f, NEW S, IsFiniteSet(S)
    PROVE  Partial(f, S) = Unfold(f, S, Partial(f, S))
  <1> DEFINE T == {U \in SUBSET S : \A V \in SUBSET U : Partial(f, V) = Unfold(f, V, Partial(f, V))}
  <1>1. ASSUME NEW U \in SUBSET S, NEW g, g = Unfold(f, U, g)
        PROVE  Partial(f, U) = Unfold(f, U, Partial(f, U))
    BY <1>1 DEF Partial
  <1>2. {} \in T
    <2> DEFINE g == [s \in SUBSET {} |-> 0]
    <2>1. g = Unfold(f, {}, g)
      BY DEF Unfold
    <2>. QED
      BY <1>1, <2>1
  <1>3. ASSUME NEW U \in SUBSET S, U # {}, \A x \in U : U \ {x} \in T
        PROVE  U \in T
    <2> DEFINE g == [s \in SUBSET U |->
                        IF s = U THEN f[Pick(U)] + Partial(f, U \ {Pick(U)})[U \ {Pick(U)}]
                        ELSE Partial(f, s)[s]]
    <2>1. \A V \in SUBSET U : V # U =>
              /\ Partial(f, V) = Unfold(f, V, Partial(f, V))
              /\ IsFiniteSet(V)
      <3>1. ASSUME NEW V \in SUBSET U, V # U
            PROVE  Partial(f, V) = Unfold(f, V, Partial(f, V))
        <4>1. PICK x \in U : x \notin V
          BY <3>1
        <4>. QED
          BY <1>3, <4>1
      <3>. QED
        BY <3>1, FS_Subset
    <2>2. ASSUME NEW s \in SUBSET U, s # {}
          PROVE  g[s] = f[Pick(s)] + g[s \ {Pick(s)}]
      <3>1. Pick(s) \in s /\ s \ {Pick(s)} # U /\ s \ {Pick(s)} \in SUBSET U
        BY <2>2, PickIn
      <3>2. CASE s = U
        BY <3>1, <3>2
      <3>3. CASE s # U
        <4> DEFINE r == s \ {Pick(s)}
        <4>1. Partial(f, s)[s] = f[Pick(s)] + Partial(f, s)[r]
          <5>1. Partial(f, s) = Unfold(f, s, Partial(f, s))
            BY <2>1, <3>3
          <5>2. Unfold(f, s, Partial(f, s))[s] = f[Pick(s)] + Partial(f, s)[r]
            BY <2>2 DEF Unfold
          <5>. QED
            BY <5>1, <5>2
        <4>2. Partial(f, s)[r] = Partial(f, r)[r]
          <5>1. /\ Partial(f, s) = Unfold(f, s, Partial(f, s))
                /\ Partial(f, r) = Unfold(f, r, Partial(f, r))
                /\ r \subseteq s /\ r \subseteq r /\ IsFiniteSet(r)
            BY <2>1, <3>1, <3>3
          <5>. HIDE DEF r
          <5>. QED
            BY <5>1, PartialUnique
        <4>. QED
          BY <3>1, <3>3, <4>1, <4>2
      <3>. QED
        BY <3>2, <3>3
    <2>3. g[{}] = 0
      <3>1. {} # U /\ Partial(f, {}) = Unfold(f, {}, Partial(f, {}))
        BY <1>3, <2>1
      <3>2. Unfold(f, {}, Partial(f, {}))[{}] = 0
        BY DEF Unfold
      <3>. QED
        BY <3>1, <3>2
    <2>4. g = Unfold(f, U, g)
      <3>1. \A s \in SUBSET U : g[s] = Unfold(f, U, g)[s]
        <4>. HIDE DEF g
        <4>. QED
          BY <2>2, <2>3 DEF Unfold
      <3>. QED
        BY <3>1 DEF Unfold
    <2>5. Partial(f, U) = Unfold(f, U, Partial(f, U))
      <3>. HIDE DEF g
      <3>. QED
        BY <1>1, <2>4
    <2>. QED
      BY <2>1, <2>5
  <1>. HIDE DEF T
  <1>4. S \in T
    BY <1>2, <1>3, SetInduction
  <1>. QED
    BY <1>4 DEF T

-----------------------------------------------------------------------------
(* What a sum is: from here on the recursion is not opened again           *)

\* Nothing adds up to nothing.
LEMMA SumEmpty ==
    ASSUME NEW f
    PROVE  SumFunctionOnSet(f, {}) = 0
  <1>1. Partial(f, {}) = Unfold(f, {}, Partial(f, {}))
    BY PartialExists, FS_EmptySet
  <1>2. Unfold(f, {}, Partial(f, {}))[{}] = 0
    BY DEF Unfold
  <1>. QED
    BY <1>1, <1>2, SumIsPartial

\* The sum is that of one element, whichever the recursion picks, and the rest.
LEMMA SumPick ==
    ASSUME NEW f, NEW S, IsFiniteSet(S), S # {}
    PROVE  SumFunctionOnSet(f, S) = f[Pick(S)] + SumFunctionOnSet(f, S \ {Pick(S)})
  <1> DEFINE R == S \ {Pick(S)}
  <1>1. R \subseteq S /\ R \subseteq R /\ IsFiniteSet(R)
    BY FS_RemoveElement
  <1>2. /\ Partial(f, S) = Unfold(f, S, Partial(f, S))
        /\ Partial(f, R) = Unfold(f, R, Partial(f, R))
    BY <1>1, PartialExists
  <1>3. Unfold(f, S, Partial(f, S))[S] = f[Pick(S)] + Partial(f, S)[R]
    BY DEF Unfold
  <1>4. Partial(f, S)[R] = Partial(f, R)[R]
    <2>. HIDE DEF R
    <2>. QED
      BY <1>1, <1>2, PartialUnique
  <1>. QED
    BY <1>2, <1>3, <1>4, SumIsPartial

\* Integers add up to an integer.
LEMMA SumInt ==
    ASSUME NEW S, IsFiniteSet(S), NEW f, \A x \in S : f[x] \in Int
    PROVE  SumFunctionOnSet(f, S) \in Int
  <1> DEFINE T == {U \in SUBSET S : SumFunctionOnSet(f, U) \in Int}
  <1>1. {} \in T
    BY SumEmpty
  <1>2. ASSUME NEW U \in SUBSET S, U # {}, \A x \in U : U \ {x} \in T
        PROVE  U \in T
    <2>1. IsFiniteSet(U) /\ Pick(U) \in U
      BY <1>2, FS_Subset, PickIn
    <2>2. SumFunctionOnSet(f, U) = f[Pick(U)] + SumFunctionOnSet(f, U \ {Pick(U)})
      BY <1>2, <2>1, SumPick
    <2>3. f[Pick(U)] \in Int /\ SumFunctionOnSet(f, U \ {Pick(U)}) \in Int
      BY <1>2, <2>1
    <2>. QED
      BY <2>2, <2>3
  <1>. HIDE DEF T
  <1>3. S \in T
    BY <1>1, <1>2, SetInduction
  <1>. QED
    BY <1>3 DEF T

\* The sum is that of any element and the rest.
LEMMA SumRemove ==
    ASSUME NEW S, IsFiniteSet(S), NEW f, \A x \in S : f[x] \in Int, NEW a \in S
    PROVE  SumFunctionOnSet(f, S) = f[a] + SumFunctionOnSet(f, S \ {a})
  <1> DEFINE T == {U \in SUBSET S : \A x \in U :
                      SumFunctionOnSet(f, U) = f[x] + SumFunctionOnSet(f, U \ {x})}
  <1>1. {} \in T
    OBVIOUS
  <1>2. ASSUME NEW U \in SUBSET S, U # {}, \A x \in U : U \ {x} \in T
        PROVE  U \in T
    <2>. SUFFICES ASSUME NEW x \in U
                  PROVE  SumFunctionOnSet(f, U) = f[x] + SumFunctionOnSet(f, U \ {x})
      OBVIOUS
    <2> DEFINE p == Pick(U)
    <2>1. IsFiniteSet(U) /\ p \in U
      BY FS_Subset, PickIn
    <2>2. SumFunctionOnSet(f, U) = f[p] + SumFunctionOnSet(f, U \ {p})
      BY <2>1, SumPick
    <2>3. CASE x = p
      BY <2>2, <2>3
    <2>4. CASE x # p
      <3>1. SumFunctionOnSet(f, U \ {p}) = f[x] + SumFunctionOnSet(f, (U \ {p}) \ {x})
        BY <1>2, <2>1, <2>4
      <3>2. SumFunctionOnSet(f, U \ {x}) = f[p] + SumFunctionOnSet(f, (U \ {x}) \ {p})
        BY <1>2, <2>1, <2>4
      <3>3. (U \ {p}) \ {x} = (U \ {x}) \ {p}
        OBVIOUS
      <3>4. IsFiniteSet((U \ {x}) \ {p}) /\ (U \ {x}) \ {p} \in SUBSET S
        BY FS_Subset, <2>1
      <3>5. SumFunctionOnSet(f, (U \ {x}) \ {p}) \in Int /\ f[x] \in Int /\ f[p] \in Int
        BY <3>4, <2>1, SumInt
      <3>6. SumFunctionOnSet(f, (U \ {p}) \ {x}) = SumFunctionOnSet(f, (U \ {x}) \ {p})
        BY <3>3, Zenon
      <3>. HIDE DEF p, T
      <3>. QED
        BY <2>2, <3>1, <3>2, <3>5, <3>6
    <2>. QED
      BY <2>3, <2>4
  <1>. HIDE DEF T
  <1>3. S \in T
    BY <1>1, <1>2, SetInduction
  <1>. QED
    BY <1>3 DEF T

\* An element that joins adds its own value.
LEMMA SumAdd ==
    ASSUME NEW S, IsFiniteSet(S), NEW a, a \notin S, NEW f, \A x \in S \union {a} : f[x] \in Int
    PROVE  SumFunctionOnSet(f, S \union {a}) = f[a] + SumFunctionOnSet(f, S)
  <1>1. (S \union {a}) \ {a} = S /\ IsFiniteSet(S \union {a})
    BY FS_AddElement
  <1>. QED
    BY <1>1, SumRemove

LEMMA SumOne ==
    ASSUME NEW f, NEW a, f[a] \in Int
    PROVE  SumFunctionOnSet(f, {a}) = f[a]
  <1>1. SumFunctionOnSet(f, {a}) = f[a] + SumFunctionOnSet(f, {a} \ {a})
    BY FS_Singleton, SumRemove
  <1>2. {a} \ {a} = {}
    OBVIOUS
  <1>. QED
    BY <1>1, <1>2, SumEmpty

\* What is at most another at every element adds up to at most its sum.
LEMMA SumAtMost ==
    ASSUME NEW S, IsFiniteSet(S), NEW f, NEW g,
           \A x \in S : f[x] \in Int /\ g[x] \in Int /\ f[x] <= g[x]
    PROVE  SumFunctionOnSet(f, S) <= SumFunctionOnSet(g, S)
  <1> DEFINE T == {U \in SUBSET S : SumFunctionOnSet(f, U) <= SumFunctionOnSet(g, U)}
  <1>1. {} \in T
    BY SumEmpty
  <1>2. ASSUME NEW U \in SUBSET S, U # {}, \A x \in U : U \ {x} \in T
        PROVE  U \in T
    <2>1. PICK x \in U : TRUE
      BY <1>2
    <2>2. IsFiniteSet(U) /\ IsFiniteSet(U \ {x})
      BY FS_Subset, FS_RemoveElement
    <2>3. /\ SumFunctionOnSet(f, U) = f[x] + SumFunctionOnSet(f, U \ {x})
          /\ SumFunctionOnSet(g, U) = g[x] + SumFunctionOnSet(g, U \ {x})
      BY <2>2, SumRemove
    <2>4. SumFunctionOnSet(f, U \ {x}) \in Int /\ SumFunctionOnSet(g, U \ {x}) \in Int
      BY <2>2, SumInt
    <2>5. SumFunctionOnSet(f, U \ {x}) <= SumFunctionOnSet(g, U \ {x})
      BY <1>2
    <2>. QED
      BY <2>3, <2>4, <2>5
  <1>. HIDE DEF T
  <1>3. S \in T
    BY <1>1, <1>2, SetInduction
  <1>. QED
    BY <1>3 DEF T

\* What is the same at every element has the same sum.
LEMMA SumSame ==
    ASSUME NEW S, IsFiniteSet(S), NEW f, NEW g, \A x \in S : f[x] \in Int /\ f[x] = g[x]
    PROVE  SumFunctionOnSet(f, S) = SumFunctionOnSet(g, S)
  <1>1. SumFunctionOnSet(f, S) \in Int /\ SumFunctionOnSet(g, S) \in Int
    BY SumInt
  <1>2. SumFunctionOnSet(f, S) <= SumFunctionOnSet(g, S)
    BY SumAtMost
  <1>3. SumFunctionOnSet(g, S) <= SumFunctionOnSet(f, S)
    BY SumAtMost
  <1>. QED
    BY <1>1, <1>2, <1>3

\* A change at one element changes the sum by as much.
LEMMA SumChange ==
    ASSUME NEW S, IsFiniteSet(S), NEW a \in S, NEW f, NEW g,
           \A x \in S : f[x] \in Int, \A x \in S : g[x] \in Int,
           \A x \in S : x # a => f[x] = g[x]
    PROVE  SumFunctionOnSet(g, S) = SumFunctionOnSet(f, S) - f[a] + g[a]
  <1>1. IsFiniteSet(S \ {a})
    BY FS_RemoveElement
  <1>2. /\ SumFunctionOnSet(f, S) = f[a] + SumFunctionOnSet(f, S \ {a})
        /\ SumFunctionOnSet(g, S) = g[a] + SumFunctionOnSet(g, S \ {a})
    BY SumRemove
  <1>3. SumFunctionOnSet(f, S \ {a}) = SumFunctionOnSet(g, S \ {a})
    BY <1>1, SumSame
  <1>4. SumFunctionOnSet(f, S \ {a}) \in Int
    BY <1>1, SumInt
  <1>. QED
    BY <1>2, <1>3, <1>4

\* A sum that is nowhere less and somewhere greater is greater.
LEMMA SumLess ==
    ASSUME NEW S, IsFiniteSet(S), NEW f, NEW g,
           \A x \in S : f[x] \in Int /\ g[x] \in Int /\ f[x] <= g[x],
           NEW a \in S, f[a] < g[a]
    PROVE  SumFunctionOnSet(f, S) < SumFunctionOnSet(g, S)
  <1> DEFINE R == S \ {a}
  <1>1. IsFiniteSet(R) /\ \A x \in R : f[x] \in Int /\ g[x] \in Int /\ f[x] <= g[x]
    BY FS_RemoveElement
  <1>2. /\ SumFunctionOnSet(f, S) = f[a] + SumFunctionOnSet(f, R)
        /\ SumFunctionOnSet(g, S) = g[a] + SumFunctionOnSet(g, R)
    BY SumRemove
  <1>3. SumFunctionOnSet(f, R) \in Int /\ SumFunctionOnSet(g, R) \in Int
    BY <1>1, SumInt
  <1>4. SumFunctionOnSet(f, R) <= SumFunctionOnSet(g, R)
    BY <1>1, SumAtMost
  <1>. QED
    BY <1>2, <1>3, <1>4

\* Nothing but zeros adds up to zero.
LEMMA SumZeros ==
    ASSUME NEW S, IsFiniteSet(S), NEW f, \A x \in S : f[x] = 0
    PROVE  SumFunctionOnSet(f, S) = 0
  <1> DEFINE T == {U \in SUBSET S : SumFunctionOnSet(f, U) = 0}
  <1>1. {} \in T
    BY SumEmpty
  <1>2. ASSUME NEW U \in SUBSET S, U # {}, \A x \in U : U \ {x} \in T
        PROVE  U \in T
    <2>1. PICK x \in U : TRUE
      BY <1>2
    <2>2. IsFiniteSet(U)
      BY FS_Subset
    <2>3. SumFunctionOnSet(f, U) = f[x] + SumFunctionOnSet(f, U \ {x})
      BY <2>2, SumRemove
    <2>. QED
      BY <1>2, <2>3
  <1>. HIDE DEF T
  <1>3. S \in T
    BY <1>1, <1>2, SetInduction
  <1>. QED
    BY <1>3 DEF T

\* No summand below zero, no sum below zero, nor below any of them.
LEMMA SumNat ==
    ASSUME NEW S, IsFiniteSet(S), NEW f, \A x \in S : f[x] \in Nat
    PROVE  /\ SumFunctionOnSet(f, S) \in Nat
           /\ \A a \in S : f[a] <= SumFunctionOnSet(f, S)
  <1>1. ASSUME NEW U \in SUBSET S PROVE SumFunctionOnSet(f, U) \in Nat
    <2> DEFINE z == [x \in U |-> 0]
    <2>1. IsFiniteSet(U)
      BY FS_Subset
    <2>2. \A x \in U : z[x] = 0
      OBVIOUS
    <2>. HIDE DEF z
    <2>3. SumFunctionOnSet(z, U) = 0
      BY <2>1, <2>2, SumZeros
    <2>4. \A x \in U : z[x] \in Int /\ f[x] \in Int /\ z[x] <= f[x]
      BY <2>2
    <2>5. SumFunctionOnSet(z, U) <= SumFunctionOnSet(f, U)
      BY <2>1, <2>4, SumAtMost
    <2>6. SumFunctionOnSet(f, U) \in Int
      BY <2>1, <2>4, SumInt
    <2>. QED
      BY <2>3, <2>5, <2>6
  <1>2. ASSUME NEW a \in S PROVE f[a] <= SumFunctionOnSet(f, S)
    <2>1. SumFunctionOnSet(f, S) = f[a] + SumFunctionOnSet(f, S \ {a})
      BY SumRemove
    <2>2. SumFunctionOnSet(f, S \ {a}) \in Nat
      BY <1>1
    <2>. QED
      BY <2>1, <2>2
  <1>. QED
    BY <1>1, <1>2

\* The sum over a part and the sum over the rest.
LEMMA SumParts ==
    ASSUME NEW S, IsFiniteSet(S), NEW f, \A x \in S : f[x] \in Int, NEW A \in SUBSET S
    PROVE  SumFunctionOnSet(f, S) = SumFunctionOnSet(f, A) + SumFunctionOnSet(f, S \ A)
  <1> DEFINE T == {U \in SUBSET S : SumFunctionOnSet(f, U) =
                      SumFunctionOnSet(f, U \intersect A) + SumFunctionOnSet(f, U \ A)}
  <1>1. {} \in T
    <2>1. {} \intersect A = {} /\ {} \ A = {}
      OBVIOUS
    <2>. QED
      BY <2>1, SumEmpty
  <1>2. ASSUME NEW U \in SUBSET S, U # {}, \A x \in U : U \ {x} \in T
        PROVE  U \in T
    <2>1. PICK x \in U : TRUE
      BY <1>2
    <2>2. /\ IsFiniteSet(U) /\ IsFiniteSet(U \intersect A) /\ IsFiniteSet(U \ A)
          /\ IsFiniteSet((U \ {x}) \intersect A) /\ IsFiniteSet((U \ {x}) \ A)
      BY FS_Subset
    <2>3. SumFunctionOnSet(f, U) = f[x] + SumFunctionOnSet(f, U \ {x})
      BY <2>2, SumRemove
    <2>4. SumFunctionOnSet(f, U \ {x}) =
              SumFunctionOnSet(f, (U \ {x}) \intersect A) + SumFunctionOnSet(f, (U \ {x}) \ A)
      BY <1>2
    <2>5. /\ SumFunctionOnSet(f, (U \ {x}) \intersect A) \in Int
          /\ SumFunctionOnSet(f, (U \ {x}) \ A) \in Int
          /\ f[x] \in Int
      BY <2>2, SumInt
    <2>6. CASE x \in A
      <3>1. (U \intersect A) \ {x} = (U \ {x}) \intersect A /\ U \ A = (U \ {x}) \ A
        BY <2>6
      <3>2. SumFunctionOnSet(f, U \intersect A) = f[x] + SumFunctionOnSet(f, (U \intersect A) \ {x})
        BY <2>2, <2>6, SumRemove
      <3>3. /\ SumFunctionOnSet(f, (U \intersect A) \ {x}) = SumFunctionOnSet(f, (U \ {x}) \intersect A)
            /\ SumFunctionOnSet(f, U \ A) = SumFunctionOnSet(f, (U \ {x}) \ A)
        BY <3>1, Zenon
      <3>. QED
        BY <2>3, <2>4, <2>5, <3>2, <3>3
    <2>7. CASE x \notin A
      <3>1. (U \ A) \ {x} = (U \ {x}) \ A /\ U \intersect A = (U \ {x}) \intersect A
        BY <2>7
      <3>2. SumFunctionOnSet(f, U \ A) = f[x] + SumFunctionOnSet(f, (U \ A) \ {x})
        BY <2>2, <2>7, SumRemove
      <3>3. /\ SumFunctionOnSet(f, (U \ A) \ {x}) = SumFunctionOnSet(f, (U \ {x}) \ A)
            /\ SumFunctionOnSet(f, U \intersect A) = SumFunctionOnSet(f, (U \ {x}) \intersect A)
        BY <3>1, Zenon
      <3>. QED
        BY <2>3, <2>4, <2>5, <3>2, <3>3
    <2>. QED
      BY <2>6, <2>7
  <1>. HIDE DEF T
  <1>3. S \in T
    BY <1>1, <1>2, SetInduction
  <1>4. S \intersect A = A
    OBVIOUS
  <1>. QED
    BY <1>3, <1>4 DEF T

\* The sum over a part of nonnegative summands is at most the whole sum.
LEMMA SumPart ==
    ASSUME NEW S, IsFiniteSet(S), NEW f, \A x \in S : f[x] \in Nat, NEW A \in SUBSET S
    PROVE  SumFunctionOnSet(f, A) <= SumFunctionOnSet(f, S)
  <1>1. IsFiniteSet(A) /\ IsFiniteSet(S \ A)
    BY FS_Subset
  <1>2. SumFunctionOnSet(f, A) \in Nat /\ SumFunctionOnSet(f, S \ A) \in Nat
    BY <1>1, SumNat
  <1>. QED
    BY <1>2, SumParts

\* A sum over the elements of S is the sum, over the values their group can
\* have, of the sums of the groups.
LEMMA SumGroups ==
    ASSUME NEW S, IsFiniteSet(S), NEW f, \A x \in S : f[x] \in Int,
           NEW K, IsFiniteSet(K), NEW group, \A x \in S : group[x] \in K
    PROVE  SumFunctionOnSet(f, S) =
               SumFunctionOnSet([k \in K |-> SumFunctionOnSet(f, {x \in S : group[x] = k})], K)
  <1> DEFINE G(L) == [k \in K |-> SumFunctionOnSet(f, {x \in S : group[x] = k})]
             T == {L \in SUBSET K : SumFunctionOnSet(f, {x \in S : group[x] \in L}) =
                                    SumFunctionOnSet(G(K), L)}
  <1>0. \A k \in K : G(K)[k] \in Int /\ G(K)[k] = SumFunctionOnSet(f, {x \in S : group[x] = k})
    <2>. SUFFICES ASSUME NEW k \in K PROVE SumFunctionOnSet(f, {x \in S : group[x] = k}) \in Int
      OBVIOUS
    <2>1. IsFiniteSet({x \in S : group[x] = k})
      BY FS_Subset
    <2>. QED
      BY <2>1, SumInt
  <1>. HIDE DEF G
  <1>1. {} \in T
    <2>1. {x \in S : group[x] \in {}} = {}
      OBVIOUS
    <2>. QED
      BY <2>1, SumEmpty
  <1>2. ASSUME NEW L \in SUBSET K, L # {}, \A k \in L : L \ {k} \in T
        PROVE  L \in T
    <2>1. PICK k \in L : TRUE
      BY <1>2
    <2> DEFINE In == {x \in S : group[x] \in L}
               Its == {x \in S : group[x] = k}
    <2>2. IsFiniteSet(In) /\ IsFiniteSet(L) /\ Its \in SUBSET In
      BY FS_Subset
    <2>3. In \ Its = {x \in S : group[x] \in L \ {k}}
      OBVIOUS
    <2>4. \A x \in In : f[x] \in Int
      OBVIOUS
    <2>5. SumFunctionOnSet(f, {x \in S : group[x] \in L \ {k}}) = SumFunctionOnSet(G(K), L \ {k})
      BY <1>2
    <2>6. SumFunctionOnSet(G(K), L) = G(K)[k] + SumFunctionOnSet(G(K), L \ {k})
      BY <1>0, <2>2, SumRemove
    <2>7. G(K)[k] = SumFunctionOnSet(f, Its)
      BY <1>0
    <2>. HIDE DEF In, Its
    <2>8. SumFunctionOnSet(f, In) = SumFunctionOnSet(f, Its) + SumFunctionOnSet(f, In \ Its)
      BY <2>2, <2>4, SumParts
    <2>9. SumFunctionOnSet(f, In) = SumFunctionOnSet(G(K), L)
      BY <2>3, <2>5, <2>6, <2>7, <2>8
    <2>. QED
      BY <2>9 DEF In
  <1>. HIDE DEF T
  <1>3. K \in T
    BY <1>1, <1>2, SetInduction
  <1>4. {x \in S : group[x] \in K} = S
    OBVIOUS
  <1>. QED
    BY <1>3, <1>4 DEF T, G

\* The same, with the sums of the groups given.
Grouped(f, S, h, K, group) ==
    /\ IsFiniteSet(S) /\ IsFiniteSet(K)
    /\ \A x \in S : f[x] \in Int /\ group[x] \in K
    /\ \A k \in K : h[k] = SumFunctionOnSet(f, {x \in S : group[x] = k})

LEMMA SumGrouped ==
    ASSUME NEW f, NEW S, NEW h, NEW K, NEW group, Grouped(f, S, h, K, group)
    PROVE  SumFunctionOnSet(f, S) = SumFunctionOnSet(h, K)
  <1>. USE DEF Grouped
  <1> DEFINE sums == [k \in K |-> SumFunctionOnSet(f, {x \in S : group[x] = k})]
  <1>1. SumFunctionOnSet(f, S) = SumFunctionOnSet(sums, K)
    <2>1. \A x \in S : f[x] \in Int /\ group[x] \in K
      OBVIOUS
    <2>. QED
      BY <2>1, SumGroups
  <1>2. \A k \in K : sums[k] \in Int /\ sums[k] = h[k]
    <2>. SUFFICES ASSUME NEW k \in K PROVE SumFunctionOnSet(f, {x \in S : group[x] = k}) \in Int
      OBVIOUS
    <2>1. IsFiniteSet({x \in S : group[x] = k})
      BY FS_Subset
    <2>. QED
      BY <2>1, SumInt
  <1>. HIDE DEF sums
  <1>3. SumFunctionOnSet(sums, K) = SumFunctionOnSet(h, K)
    BY <1>2, SumSame
  <1>. QED
    BY <1>1, <1>3

\* Rows that stand for some of the groups, none above the sum of its group, add up
\* to no more than the elements do.
Bounded(g, R, f, S, K, group) ==
    /\ IsFiniteSet(S) /\ IsFiniteSet(K) /\ R \subseteq K
    /\ \A x \in S : f[x] \in Nat /\ group[x] \in K
    /\ \A r \in R : g[r] \in Nat /\ g[r] <= SumFunctionOnSet(f, {x \in S : group[x] = r})

LEMMA SumBounded ==
    ASSUME NEW g, NEW R, NEW f, NEW S, NEW K, NEW group, Bounded(g, R, f, S, K, group)
    PROVE  SumFunctionOnSet(g, R) <= SumFunctionOnSet(f, S)
  <1>. USE DEF Bounded
  <1>1. PICK h : h = [k \in K |-> SumFunctionOnSet(f, {x \in S : group[x] = k})]
    OBVIOUS
  <1>2. ASSUME NEW k \in K PROVE h[k] \in Nat
    <2>1. IsFiniteSet({x \in S : group[x] = k})
      BY FS_Subset
    <2>2. \A x \in {x \in S : group[x] = k} : f[x] \in Nat
      OBVIOUS
    <2>3. SumFunctionOnSet(f, {x \in S : group[x] = k}) \in Nat
      BY <2>1, <2>2, SumNat
    <2>. QED
      BY <1>1, <2>3
  <1>3. SumFunctionOnSet(f, S) = SumFunctionOnSet(h, K)
    <2>1. Grouped(f, S, h, K, group)
      BY <1>1 DEF Grouped
    <2>. QED
      BY <2>1, SumGrouped
  <1>4. SumFunctionOnSet(g, R) <= SumFunctionOnSet(h, R)
    <2>1. IsFiniteSet(R)
      BY FS_Subset
    <2>2. \A r \in R : g[r] \in Int /\ h[r] \in Int /\ g[r] <= h[r]
      BY <1>1, <1>2
    <2>. QED
      BY <2>1, <2>2, SumAtMost
  <1>5. SumFunctionOnSet(h, R) <= SumFunctionOnSet(h, K)
    BY <1>2, SumPart
  <1>6. /\ SumFunctionOnSet(h, K) \in Int /\ SumFunctionOnSet(h, R) \in Int
        /\ SumFunctionOnSet(g, R) \in Int
    <2>1. IsFiniteSet(R)
      BY FS_Subset
    <2>2. \A k \in K : h[k] \in Int
      BY <1>2
    <2>3. \A r \in R : h[r] \in Int
      BY <2>2
    <2>4. \A r \in R : g[r] \in Int
      <3>1. ASSUME NEW r \in R PROVE g[r] \in Nat
        BY Zenon
      <3>. QED
        BY <3>1
    <2>. QED
      BY <2>1, <2>2, <2>3, <2>4, SumInt
  <1>. QED
    BY <1>3, <1>4, <1>5, <1>6

\* Two sums are the same whose summands are, one for one, up to zeros.
Matched(f, S, g, K, image) ==
    /\ IsFiniteSet(S) /\ IsFiniteSet(K)
    /\ \A x \in S : image[x] \in K /\ f[x] = g[image[x]]
    /\ \A x, y \in S : image[x] = image[y] => x = y
    /\ \A k \in K : g[k] \in Int /\ (g[k] # 0 => \E x \in S : image[x] = k)

LEMMA SumImage ==
    ASSUME NEW f, NEW S, NEW g, NEW K, NEW image, Matched(f, S, g, K, image)
    PROVE  SumFunctionOnSet(f, S) = SumFunctionOnSet(g, K)
  <1>. USE DEF Matched
  <1> DEFINE h == [k \in K |-> SumFunctionOnSet(f, {x \in S : image[x] = k})]
  <1>1. SumFunctionOnSet(f, S) = SumFunctionOnSet(h, K)
    <2>1. \A x \in S : f[x] \in Int /\ image[x] \in K
      OBVIOUS
    <2>. QED
      BY <2>1, SumGroups
  <1>2. ASSUME NEW k \in K PROVE SumFunctionOnSet(f, {x \in S : image[x] = k}) = g[k]
    <2>1. CASE \E x \in S : image[x] = k
      <3>1. PICK x \in S : image[x] = k
        BY <2>1
      <3>2. {y \in S : image[y] = k} = {x}
        BY <3>1
      <3>3. SumFunctionOnSet(f, {x}) = f[x]
        BY SumOne
      <3>. QED
        BY <3>1, <3>2, <3>3
    <2>2. CASE ~\E x \in S : image[x] = k
      <3>1. {y \in S : image[y] = k} = {} /\ g[k] = 0
        BY <2>2
      <3>. QED
        BY <3>1, SumEmpty
    <2>. QED
      BY <2>1, <2>2
  <1>3. \A k \in K : h[k] \in Int /\ h[k] = g[k]
    BY <1>2
  <1>. HIDE DEF h
  <1>4. SumFunctionOnSet(h, K) = SumFunctionOnSet(g, K)
    BY <1>3, SumSame
  <1>. QED
    BY <1>1, <1>4

\* Counting is adding ones.
LEMMA SumOnes ==
    ASSUME NEW S, IsFiniteSet(S), NEW f, \A x \in S : f[x] = 1
    PROVE  SumFunctionOnSet(f, S) = Cardinality(S)
  <1> DEFINE T == {U \in SUBSET S : SumFunctionOnSet(f, U) = Cardinality(U)}
  <1>1. {} \in T
    BY SumEmpty, FS_EmptySet
  <1>2. ASSUME NEW U \in SUBSET S, U # {}, \A x \in U : U \ {x} \in T
        PROVE  U \in T
    <2>1. PICK x \in U : TRUE
      BY <1>2
    <2>2. IsFiniteSet(U)
      BY FS_Subset
    <2>3. SumFunctionOnSet(f, U) = f[x] + SumFunctionOnSet(f, U \ {x})
      BY <2>2, SumRemove
    <2>4. Cardinality(U) \in Nat /\ Cardinality(U \ {x}) = Cardinality(U) - 1
      BY <2>2, FS_CardinalityType, FS_RemoveElement
    <2>. QED
      BY <1>2, <2>3, <2>4
  <1>. HIDE DEF T
  <1>3. S \in T
    BY <1>1, <1>2, SetInduction
  <1>. QED
    BY <1>3 DEF T

\* Multiples of two functions add up to the multiples of their sums.
LEMMA SumCombine ==
    ASSUME NEW S, IsFiniteSet(S), NEW f, NEW g, NEW h, NEW c \in Int, NEW d \in Int,
           \A x \in S : f[x] \in Int, \A x \in S : g[x] \in Int,
           \A x \in S : h[x] = c * f[x] + d * g[x]
    PROVE  SumFunctionOnSet(h, S) = c * SumFunctionOnSet(f, S) + d * SumFunctionOnSet(g, S)
  <1> DEFINE T == {U \in SUBSET S : SumFunctionOnSet(h, U) =
                       c * SumFunctionOnSet(f, U) + d * SumFunctionOnSet(g, U)}
  <1>0. \A x \in S : h[x] \in Int
    OBVIOUS
  <1>1. {} \in T
    <2>1. c * 0 + d * 0 = 0
      OBVIOUS
    <2>. QED
      BY <2>1, SumEmpty
  <1>2. ASSUME NEW U \in SUBSET S, U # {}, \A x \in U : U \ {x} \in T
        PROVE  U \in T
    <2>1. PICK x \in U : TRUE
      BY <1>2
    <2>2. IsFiniteSet(U) /\ IsFiniteSet(U \ {x})
      BY FS_Subset
    <2>3. /\ SumFunctionOnSet(f, U) = f[x] + SumFunctionOnSet(f, U \ {x})
          /\ SumFunctionOnSet(g, U) = g[x] + SumFunctionOnSet(g, U \ {x})
          /\ SumFunctionOnSet(h, U) = h[x] + SumFunctionOnSet(h, U \ {x})
      BY <1>0, <2>2, SumRemove
    <2>4. PICK m \in Int, n \in Int : /\ m = SumFunctionOnSet(f, U \ {x})
                                     /\ n = SumFunctionOnSet(g, U \ {x})
      <3>1. SumFunctionOnSet(f, U \ {x}) \in Int
        BY <2>2, SumInt
      <3>2. SumFunctionOnSet(g, U \ {x}) \in Int
        BY <2>2, SumInt
      <3>. QED
        BY <3>1, <3>2
    <2>5. SumFunctionOnSet(h, U \ {x}) = c * m + d * n
      BY <1>2, <2>4
    <2>6. PICK k \in Int, l \in Int : k = f[x] /\ l = g[x] /\ h[x] = c * k + d * l
      OBVIOUS
    <2>7. c * k + d * l + (c * m + d * n) = c * (k + m) + d * (l + n)
      OBVIOUS
    <2>. QED
      BY <2>3, <2>4, <2>5, <2>6, <2>7
  <1>. HIDE DEF T
  <1>3. S \in T
    BY <1>1, <1>2, SetInduction
  <1>. QED
    BY <1>3 DEF T

\* Numbers that are all within e of zero add up to within e for each.
LEMMA SumWithin ==
    ASSUME NEW S, IsFiniteSet(S), NEW f, NEW e \in Nat,
           \A x \in S : f[x] \in Int /\ -e <= f[x] /\ f[x] <= e
    PROVE  /\ SumFunctionOnSet(f, S) \in Int
           /\ -(e * Cardinality(S)) <= SumFunctionOnSet(f, S)
           /\ SumFunctionOnSet(f, S) <= e * Cardinality(S)
  <1> DEFINE T == {U \in SUBSET S : /\ SumFunctionOnSet(f, U) \in Int
                                    /\ -(e * Cardinality(U)) <= SumFunctionOnSet(f, U)
                                    /\ SumFunctionOnSet(f, U) <= e * Cardinality(U)}
  <1>1. {} \in T
    <2>1. e * 0 = 0
      OBVIOUS
    <2>. QED
      BY <2>1, SumEmpty, FS_EmptySet
  <1>2. ASSUME NEW U \in SUBSET S, U # {}, \A x \in U : U \ {x} \in T
        PROVE  U \in T
    <2>1. PICK x \in U : TRUE
      BY <1>2
    <2>2. IsFiniteSet(U)
      BY FS_Subset
    <2>3. SumFunctionOnSet(f, U) = f[x] + SumFunctionOnSet(f, U \ {x})
      BY <2>2, SumRemove
    <2>4. PICK n \in Nat : n = Cardinality(U) /\ Cardinality(U \ {x}) = n - 1
      BY <2>2, FS_CardinalityType, FS_RemoveElement
    <2>5. e * (n - 1) = e * n - e /\ e * n \in Int
      BY <2>4
    <2>6. PICK m \in Int : m = SumFunctionOnSet(f, U \ {x}) /\ -(e * (n - 1)) <= m /\ m <= e * (n - 1)
      BY <1>2, <2>4
    <2>7. PICK k \in Int : k = f[x] /\ -e <= k /\ k <= e
      OBVIOUS
    <2>8. k + m \in Int /\ -(e * n) <= k + m /\ k + m <= e * n
      BY <2>5, <2>6, <2>7
    <2>. QED
      BY <2>3, <2>4, <2>6, <2>7, <2>8
  <1>. HIDE DEF T
  <1>3. S \in T
    BY <1>1, <1>2, SetInduction
  <1>. QED
    BY <1>3 DEF T
=============================================================================
