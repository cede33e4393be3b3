----------------------------- MODULE SumTheorems -----------------------------
(***************************************************************************)
(* Induction as facts about sets, which a prover can use where it cannot   *)
(* instantiate an induction theorem over an operator, and with it what the *)
(* proofs need of SumFunctionOnSet, a fold.                                *)
(***************************************************************************)
EXTENDS Integers, FiniteSets, Functions, FiniteSetTheorems, WellFoundedInduction, TLAPS

-----------------------------------------------------------------------------
\* Induction

LEMMA LeastNumber ==
    ASSUME NEW T \in SUBSET Nat, T # {}
    PROVE  \E n \in T : \A m \in T : n <= m
<1> DEFINE R == {x \in Nat \X Nat : x[1] < x[2]}
<1>1. R = OpToRel(<, Nat)
  BY DEF OpToRel
<1>2. IsWellFoundedOn(R, Nat)
  BY <1>1, NatLessThanWellFounded
<1>3. \A m, n \in Nat : m < n => <<m, n>> \in R
  OBVIOUS
<1> HIDE DEF R
<1>4. PICK n \in T : \A m \in T : ~ (<<m, n>> \in R)
  BY <1>2, WFMin
<1>5. \A m \in T : n <= m
  <2>1. TAKE m \in T
  <2>2. m \in Nat /\ n \in Nat /\ ~(m < n)
    BY <1>3, <1>4
  <2>3. QED
    BY <2>2
<1>6. QED
  BY <1>5

\* A set of numbers with zero and with the successors of its members has all.
LEMMA NumberInduction ==
    ASSUME NEW T, 0 \in T, \A n \in Nat : n \in T => n + 1 \in T
    PROVE  Nat \subseteq T
<1> DEFINE B == Nat \ T
<1>1. ASSUME B # {} PROVE FALSE
  <2>1. PICK n \in B : \A m \in B : n <= m
    BY <1>1, LeastNumber
  <2>2. n \in Nat /\ n # 0
    BY <2>1
  <2>3. n - 1 \in Nat /\ ~(n <= n - 1)
    BY <2>2
  <2>4. n - 1 \in T
    BY <2>1, <2>3
  <2>5. (n - 1) + 1 = n
    BY <2>2
  <2>6. QED
    BY <2>1, <2>3, <2>4, <2>5
<1>2. QED
  BY <1>1

\* A function from numbers that is defined by its first value and its steps.
MapsInto(F, D) == F \in [D -> D]
Iterates(f, D, F, a) == f \in [Nat -> D] /\ f[0] = a /\ \A n \in Nat : f[n + 1] = F[f[n]]

LEMMA IterationExists ==
    ASSUME NEW D, NEW F, MapsInto(F, D), NEW a \in D
    PROVE  \E f : Iterates(f, D, F, a)
<1> USE DEF MapsInto
<1> DEFINE Starts(g, n) == /\ g \in [0..n -> D] /\ g[0] = a
                           /\ \A m \in 0..n : m < n => g[m + 1] = F[g[m]]
           T == {n \in Nat : \E g : Starts(g, n)}
           Sol(n) == CHOOSE g : Starts(g, n)
           f == [n \in Nat |-> Sol(n)[n]]
<1>1. 0 \in T
  <2> DEFINE g == [m \in 0..0 |-> a]
  <2>1. Starts(g, 0)
    OBVIOUS
  <2> HIDE DEF g, Starts
  <2>2. QED
    BY <2>1
<1>2. ASSUME NEW n \in Nat, n \in T PROVE n + 1 \in T
  <2>1. PICK g : Starts(g, n)
    BY <1>2
  <2> DEFINE h == [m \in 0..(n + 1) |-> IF m <= n THEN g[m] ELSE F[g[n]]]
  <2>2. h \in [0..(n + 1) -> D] /\ h[0] = a
    BY <2>1
  <2>3. ASSUME NEW m \in 0..(n + 1), m < n + 1 PROVE h[m + 1] = F[h[m]]
    <3>1. m \in 0..n /\ m + 1 \in 0..(n + 1) /\ h[m] = g[m]
      BY <2>3
    <3>2. CASE m < n
      BY <2>1, <3>1, <3>2
    <3>3. CASE m = n
      BY <3>1, <3>3
    <3>4. QED
      BY <3>1, <3>2, <3>3
  <2> HIDE DEF h
  <2>4. Starts(h, n + 1)
    BY <2>2, <2>3
  <2> HIDE DEF Starts
  <2>5. QED
    BY <2>4
<1>3. Nat \subseteq T
  <2> HIDE DEF T
  <2>1. QED
    BY <1>1, <1>2, NumberInduction
<1>4. \A n \in Nat : Starts(Sol(n), n)
  <2> HIDE DEF Starts
  <2>1. QED
    BY <1>3
<1> HIDE DEF Sol
\* Two solutions agree where both are defined.
<1>5. ASSUME NEW n \in Nat PROVE Sol(n + 1)[n] = Sol(n)[n]
  <2> DEFINE g == Sol(n)  h == Sol(n + 1)  A == {k \in Nat : k <= n => g[k] = h[k]}
  <2>1. Starts(g, n) /\ Starts(h, n + 1)
    BY <1>4
  <2> HIDE DEF g, h
  <2>2. 0 \in A
    BY <2>1
  <2>3. ASSUME NEW k \in Nat, k \in A PROVE k + 1 \in A
    <3>1. SUFFICES ASSUME k + 1 <= n PROVE g[k + 1] = h[k + 1]
      OBVIOUS
    <3>2. k \in 0..n /\ k < n /\ k \in 0..(n + 1) /\ k < n + 1
      BY <3>1
    <3>3. g[k + 1] = F[g[k]] /\ h[k + 1] = F[h[k]] /\ g[k] = h[k]
      BY <2>1, <2>3, <3>2
    <3>4. QED
      BY <3>3
  <2>4. Nat \subseteq A
    <3> HIDE DEF A
    <3>1. QED
      BY <2>2, <2>3, NumberInduction
  <2>5. QED
    BY <2>4 DEF g, h
<1>6. f \in [Nat -> D] /\ f[0] = a
  BY <1>4
<1>7. ASSUME NEW n \in Nat PROVE f[n + 1] = F[f[n]]
  <2>1. Starts(Sol(n + 1), n + 1) /\ n \in 0..(n + 1) /\ n < n + 1
    BY <1>4
  <2>2. Sol(n + 1)[n + 1] = F[Sol(n + 1)[n]]
    BY <2>1
  <2>3. QED
    BY <1>5, <2>2
<1>8. QED
  <2> HIDE DEF f
  <2>1. QED
    BY <1>6, <1>7 DEF Iterates

\* A set of subsets of a finite set has all of them if it has each of which it
\* has all the smaller ones.
LEMMA SubsetInduction ==
    ASSUME NEW S, IsFiniteSet(S), NEW G,
           \A T \in SUBSET S : (\A U \in SUBSET T : U # T => U \in G) => T \in G
    PROVE  SUBSET S \subseteq G
<1> DEFINE R == StrictSubsetOrdering(S)
           B == (SUBSET S) \ G
<1>1. IsWellFoundedOn(R, SUBSET S)
  <2>1. SUBSET S = FiniteSubsetsOf(S)
    BY FS_Subset DEF FiniteSubsetsOf
  <2>2. QED
    BY <2>1, FS_StrictSubsetOrderingWellFounded
<1>2. ASSUME B # {} PROVE FALSE
  <2>1. B \subseteq SUBSET S
    OBVIOUS
  <2> HIDE DEF R
  <2>2. PICK T \in B : \A U \in B : ~ (<<U, T>> \in R)
    <3> HIDE DEF B
    <3>1. QED
      BY <1>1, <1>2, <2>1, WFMin
  <2>3. ASSUME NEW U \in SUBSET T, U # T PROVE U \in G
    <3>1. <<U, T>> \in R
      BY <2>1, <2>3 DEF R, StrictSubsetOrdering
    <3>2. QED
      BY <2>1, <2>2, <3>1
  <2>4. QED
    BY <2>2, <2>3
<1>3. QED
  BY <1>2

-----------------------------------------------------------------------------
\* The recursion behind the sums

Chosen(s) == CHOOSE x \in s : TRUE

\* iter is the function of the subsets of S that the fold describes.
Sums(iter, f, S) ==
    iter = [s \in SUBSET S |-> IF s = {} THEN 0 ELSE f[Chosen(s)] + iter[s \ {Chosen(s)}]]

LEMMA SumIsIter ==
    ASSUME NEW f, NEW S
    PROVE  SumFunctionOnSet(f, S) = (CHOOSE iter : Sums(iter, f, S))[S]
  BY DEF SumFunctionOnSet, FoldFunctionOnSet, MapThenFoldSet, Sums, Chosen

LEMMA ChosenIn == \A s : s # {} => Chosen(s) \in s
  BY DEF Chosen

LEMMA SumsAgree ==
    ASSUME NEW f, NEW S, NEW T, IsFiniteSet(T), NEW g, NEW h, Sums(g, f, S), Sums(h, f, T), T \subseteq S
    PROVE  h[T] = g[T]
<1> DEFINE G == {U \in SUBSET T : h[U] = g[U]}
<1>1. ASSUME NEW U \in SUBSET T, \A V \in SUBSET U : V # U => V \in G PROVE U \in G
  <2>1. CASE U = {}
    BY <2>1 DEF Sums
  <2>2. CASE U # {}
    <3>1. Chosen(U) \in U
      BY <2>2, ChosenIn
    <3>2. h[U \ {Chosen(U)}] = g[U \ {Chosen(U)}]
      BY <1>1, <3>1
    <3>3. h[U] = f[Chosen(U)] + h[U \ {Chosen(U)}] /\ g[U] = f[Chosen(U)] + g[U \ {Chosen(U)}]
      BY <2>2 DEF Sums
    <3>4. QED
      BY <3>2, <3>3
  <2>3. QED
    BY <2>1, <2>2
<1>2. SUBSET T \subseteq G
  <2> HIDE DEF G
  <2>1. QED
    BY <1>1, SubsetInduction
<1>3. QED
  BY <1>2

LEMMA SumsExist ==
    ASSUME NEW f, NEW S, IsFiniteSet(S)
    PROVE  \E iter : Sums(iter, f, S)
<1> DEFINE G == {T \in SUBSET S : \E iter : Sums(iter, f, T)}
           Sol(T) == CHOOSE iter : Sums(iter, f, T)
<1>1. ASSUME NEW T \in SUBSET S, \A U \in SUBSET T : U # T => U \in G PROVE T \in G
  <2> DEFINE iter == [s \in SUBSET T |-> IF s = {} THEN 0
                          ELSE f[Chosen(s)] + Sol(s \ {Chosen(s)})[s \ {Chosen(s)}]]
  <2>1. \A U \in SUBSET T : U # T => Sums(Sol(U), f, U)
    BY <1>1
  <2> HIDE DEF G, Sol
  <2>2. ASSUME NEW U \in SUBSET T, U # T PROVE iter[U] = Sol(U)[U]
    <3>1. Sums(Sol(U), f, U)
      BY <2>1, <2>2
    <3>2. CASE U = {}
      BY <3>1, <3>2 DEF Sums
    <3>3. CASE U # {}
      <4> DEFINE V == U \ {Chosen(U)}
      <4>1. V \subseteq U /\ V # U /\ V # T /\ V \in SUBSET T
        BY <3>3, ChosenIn
      <4>2. Sums(Sol(V), f, V) /\ IsFiniteSet(V)
        BY <2>1, <4>1, FS_Subset
      <4>3. Sol(V)[V] = Sol(U)[V]
        <5> HIDE DEF V
        <5>1. QED
          BY <3>1, <4>1, <4>2, SumsAgree
      <4>4. Sol(U)[U] = f[Chosen(U)] + Sol(U)[V]
        BY <3>1, <3>3 DEF Sums
      <4>5. iter[U] = f[Chosen(U)] + Sol(V)[V]
        BY <3>3
      <4>6. QED
        BY <4>3, <4>4, <4>5
    <3>4. QED
      BY <3>2, <3>3
  <2>3. ASSUME NEW s \in SUBSET T, s # {}
        PROVE  iter[s] = f[Chosen(s)] + iter[s \ {Chosen(s)}]
    <3>1. s \ {Chosen(s)} # T /\ s \ {Chosen(s)} \in SUBSET T
      BY <2>3, ChosenIn
    <3>2. iter[s \ {Chosen(s)}] = Sol(s \ {Chosen(s)})[s \ {Chosen(s)}]
      BY <2>2, <3>1
    <3>3. QED
      BY <2>3, <3>2
  <2>4. Sums(iter, f, T)
    <3>1. iter[{}] = 0
      OBVIOUS
    <3>2. iter = [s \in SUBSET T |-> iter[s]]
      OBVIOUS
    <3> HIDE DEF iter
    <3>3. QED
      BY <2>3, <3>1, <3>2 DEF Sums
  <2>5. QED
    BY <2>4 DEF G
<1>2. SUBSET S \subseteq G
  <2> HIDE DEF G
  <2>1. QED
    BY <1>1, SubsetInduction
<1>3. QED
  BY <1>2

-----------------------------------------------------------------------------
\* Sums

\* The function behind the sums over the subsets of S.
LEMMA SumRecursion ==
    ASSUME NEW f, NEW S, IsFiniteSet(S)
    PROVE  /\ SumFunctionOnSet(f, {}) = 0
           /\ S # {} => /\ Chosen(S) \in S
                        /\ SumFunctionOnSet(f, S) = f[Chosen(S)] + SumFunctionOnSet(f, S \ {Chosen(S)})
<1> DEFINE Sol(T) == CHOOSE iter : Sums(iter, f, T)
<1>1. \A T \in SUBSET S : Sums(Sol(T), f, T) /\ SumFunctionOnSet(f, T) = Sol(T)[T]
  <2>1. TAKE T \in SUBSET S
  <2>2. Sums(Sol(T), f, T)
    BY SumsExist, FS_Subset
  <2>3. QED
    BY <2>2, SumIsIter
<1> HIDE DEF Sol
<1>2. SumFunctionOnSet(f, {}) = 0
  BY <1>1 DEF Sums
<1>3. ASSUME S # {}
      PROVE  /\ Chosen(S) \in S
             /\ SumFunctionOnSet(f, S) = f[Chosen(S)] + SumFunctionOnSet(f, S \ {Chosen(S)})
  <2> DEFINE T == S \ {Chosen(S)}
  <2>1. Chosen(S) \in S
    BY <1>3, ChosenIn
  <2>2. Sol(S)[S] = f[Chosen(S)] + Sol(S)[T]
    BY <1>1, <1>3 DEF Sums
  <2>3. Sol(T)[T] = Sol(S)[T]
    <3>1. IsFiniteSet(T) /\ T \subseteq S
      BY FS_Subset
    <3> HIDE DEF T
    <3>2. QED
      BY <1>1, <3>1, SumsAgree
  <2>4. SumFunctionOnSet(f, S) = Sol(S)[S] /\ SumFunctionOnSet(f, T) = Sol(T)[T]
    BY <1>1
  <2>5. QED
    BY <2>1, <2>2, <2>3, <2>4
<1>4. QED
  BY <1>2, <1>3

LEMMA SumEmpty ==
    ASSUME NEW f
    PROVE  SumFunctionOnSet(f, {}) = 0
  BY SumRecursion, FS_EmptySet

LEMMA SumType ==
    ASSUME NEW f, NEW S, IsFiniteSet(S), \A x \in S : f[x] \in Int
    PROVE  SumFunctionOnSet(f, S) \in Int
<1> DEFINE G == {T \in SUBSET S : SumFunctionOnSet(f, T) \in Int}
<1>1. ASSUME NEW T \in SUBSET S, \A U \in SUBSET T : U # T => U \in G PROVE T \in G
  <2>1. CASE T = {}
    BY <2>1, SumEmpty
  <2>2. CASE T # {}
    <3>1. /\ Chosen(T) \in T
          /\ SumFunctionOnSet(f, T) = f[Chosen(T)] + SumFunctionOnSet(f, T \ {Chosen(T)})
      BY <2>2, FS_Subset, SumRecursion
    <3>2. SumFunctionOnSet(f, T \ {Chosen(T)}) \in Int /\ f[Chosen(T)] \in Int
      BY <1>1, <3>1
    <3>3. QED
      BY <3>1, <3>2
  <2>3. QED
    BY <2>1, <2>2
<1>2. SUBSET S \subseteq G
  <2> HIDE DEF G
  <2>1. QED
    BY <1>1, SubsetInduction
<1>3. QED
  BY <1>2

\* A sum is an element and the sum of the others, whichever element it is.
LEMMA SumRemove ==
    ASSUME NEW f, NEW S, IsFiniteSet(S), \A x \in S : f[x] \in Int, NEW y \in S
    PROVE  SumFunctionOnSet(f, S) = f[y] + SumFunctionOnSet(f, S \ {y})
<1> DEFINE G == {T \in SUBSET S : \A x \in T : SumFunctionOnSet(f, T) = f[x] + SumFunctionOnSet(f, T \ {x})}
<1>1. ASSUME NEW T \in SUBSET S, \A U \in SUBSET T : U # T => U \in G PROVE T \in G
  <2> SUFFICES ASSUME NEW x \in T
               PROVE  SumFunctionOnSet(f, T) = f[x] + SumFunctionOnSet(f, T \ {x})
    OBVIOUS
  <2> DEFINE c == Chosen(T)
             d == Chosen(T \ {x})
             rest == SumFunctionOnSet(f, (T \ {x}) \ {c})
  <2>1. IsFiniteSet(T) /\ T # {}
    BY FS_Subset
  <2>2. c \in T /\ SumFunctionOnSet(f, T) = f[c] + SumFunctionOnSet(f, T \ {c})
    BY <2>1, SumRecursion
  <2>3. CASE c = x
    BY <2>2, <2>3
  <2>4. CASE c # x
    <3>1. T \ {c} \in G /\ x \in T \ {c}
      BY <1>1, <2>2, <2>4
    <3>2. SumFunctionOnSet(f, T \ {c}) = f[x] + SumFunctionOnSet(f, (T \ {c}) \ {x})
      BY <3>1
    <3>3. T \ {x} \in G /\ c \in T \ {x}
      BY <1>1, <2>2, <2>4
    <3>4. SumFunctionOnSet(f, T \ {x}) = f[c] + rest
      BY <3>3
    <3>5. (T \ {c}) \ {x} = (T \ {x}) \ {c}
      OBVIOUS
    <3>6. rest \in Int
      <4>1. IsFiniteSet((T \ {x}) \ {c}) /\ \A z \in (T \ {x}) \ {c} : f[z] \in Int
        BY FS_Subset
      <4>2. QED
        BY <4>1, SumType
    <3>7. f[x] \in Int /\ f[c] \in Int
      BY <2>2
    <3>8. SumFunctionOnSet(f, T \ {c}) = f[x] + rest
      BY <3>2, <3>5
    <3> HIDE DEF rest, c
    <3>9. QED
      BY <2>2, <3>4, <3>6, <3>7, <3>8
  <2>5. QED
    BY <2>3, <2>4
<1>2. SUBSET S \subseteq G
  <2> HIDE DEF G
  <2>1. QED
    BY <1>1, SubsetInduction
<1>3. S \in G
  BY <1>2
<1>4. QED
  BY <1>3

\* A sum only depends on the values over its set.
LEMMA SumSame ==
    ASSUME NEW f, NEW g, NEW S, IsFiniteSet(S), \A x \in S : f[x] = g[x]
    PROVE  SumFunctionOnSet(f, S) = SumFunctionOnSet(g, S)
<1> DEFINE G == {T \in SUBSET S : SumFunctionOnSet(f, T) = SumFunctionOnSet(g, T)}
<1>1. ASSUME NEW T \in SUBSET S, \A U \in SUBSET T : U # T => U \in G PROVE T \in G
  <2>1. CASE T = {}
    BY <2>1, SumEmpty
  <2>2. CASE T # {}
    <3>1. /\ Chosen(T) \in T
          /\ SumFunctionOnSet(f, T) = f[Chosen(T)] + SumFunctionOnSet(f, T \ {Chosen(T)})
          /\ SumFunctionOnSet(g, T) = g[Chosen(T)] + SumFunctionOnSet(g, T \ {Chosen(T)})
      BY <2>2, FS_Subset, SumRecursion
    <3>2. SumFunctionOnSet(f, T \ {Chosen(T)}) = SumFunctionOnSet(g, T \ {Chosen(T)})
      BY <1>1, <3>1
    <3>3. QED
      BY <3>1, <3>2
  <2>3. QED
    BY <2>1, <2>2
<1>2. SUBSET S \subseteq G
  <2> HIDE DEF G
  <2>1. QED
    BY <1>1, SubsetInduction
<1>3. QED
  BY <1>2

\* One more element.
LEMMA SumAdd ==
    ASSUME NEW f, NEW S, IsFiniteSet(S), NEW y, y \notin S, \A x \in S \cup {y} : f[x] \in Int
    PROVE  SumFunctionOnSet(f, S \cup {y}) = SumFunctionOnSet(f, S) + f[y]
<1>1. IsFiniteSet(S \cup {y}) /\ (S \cup {y}) \ {y} = S
  BY FS_AddElement
<1>2. SumFunctionOnSet(f, S \cup {y}) = f[y] + SumFunctionOnSet(f, S)
  BY <1>1, SumRemove
<1>3. SumFunctionOnSet(f, S) \in Int
  BY SumType
<1>4. QED
  BY <1>2, <1>3

LEMMA SumZero ==
    ASSUME NEW f, NEW S, IsFiniteSet(S), \A x \in S : f[x] = 0
    PROVE  SumFunctionOnSet(f, S) = 0
<1> DEFINE G == {T \in SUBSET S : SumFunctionOnSet(f, T) = 0}
<1>1. ASSUME NEW T \in SUBSET S, \A U \in SUBSET T : U # T => U \in G PROVE T \in G
  <2>1. CASE T = {}
    BY <2>1, SumEmpty
  <2>2. CASE T # {}
    <3>1. /\ Chosen(T) \in T
          /\ SumFunctionOnSet(f, T) = f[Chosen(T)] + SumFunctionOnSet(f, T \ {Chosen(T)})
      BY <2>2, FS_Subset, SumRecursion
    <3>2. SumFunctionOnSet(f, T \ {Chosen(T)}) = 0 /\ f[Chosen(T)] = 0
      BY <1>1, <3>1
    <3>3. QED
      BY <3>1, <3>2
  <2>3. QED
    BY <2>1, <2>2
<1>2. SUBSET S \subseteq G
  <2> HIDE DEF G
  <2>1. QED
    BY <1>1, SubsetInduction
<1>3. QED
  BY <1>2

\* The value of one element changes.
LEMMA SumChange ==
    ASSUME NEW f, NEW g, NEW S, IsFiniteSet(S), NEW y \in S,
           \A x \in S : f[x] \in Int /\ g[x] \in Int, \A x \in S \ {y} : g[x] = f[x]
    PROVE  SumFunctionOnSet(g, S) = SumFunctionOnSet(f, S) - f[y] + g[y]
<1>1. IsFiniteSet(S \ {y})
  BY FS_Subset
<1>2. SumFunctionOnSet(g, S \ {y}) = SumFunctionOnSet(f, S \ {y})
  BY <1>1, SumSame
<1>3. SumFunctionOnSet(f, S \ {y}) \in Int
  BY <1>1, SumType
<1>4. /\ SumFunctionOnSet(f, S) = f[y] + SumFunctionOnSet(f, S \ {y})
      /\ SumFunctionOnSet(g, S) = g[y] + SumFunctionOnSet(g, S \ {y})
  BY SumRemove
<1>5. QED
  BY <1>2, <1>3, <1>4

\* The sum over a set cut in two.
LEMMA SumUnion ==
    ASSUME NEW f, NEW S, NEW T, IsFiniteSet(S), IsFiniteSet(T), S \cap T = {},
           \A x \in S \cup T : f[x] \in Int
    PROVE  SumFunctionOnSet(f, S \cup T) = SumFunctionOnSet(f, S) + SumFunctionOnSet(f, T)
<1> DEFINE G == {U \in SUBSET T : SumFunctionOnSet(f, S \cup U) = SumFunctionOnSet(f, S) + SumFunctionOnSet(f, U)}
<1>1. ASSUME NEW U \in SUBSET T, \A V \in SUBSET U : V # U => V \in G PROVE U \in G
  <2>1. SumFunctionOnSet(f, S) \in Int
    BY SumType
  <2>2. CASE U = {}
    BY <2>1, <2>2, SumEmpty
  <2>3. CASE U # {}
    <3>1. PICK y \in U : TRUE
      BY <2>3
    <3> DEFINE V == U \ {y}
    <3>2. IsFiniteSet(V) /\ IsFiniteSet(S \cup V) /\ y \notin S /\ y \notin V
      BY <3>1, FS_Subset, FS_Union
    <3>3. SumFunctionOnSet(f, S \cup V) = SumFunctionOnSet(f, S) + SumFunctionOnSet(f, V)
      BY <1>1, <3>1
    <3>4. SumFunctionOnSet(f, V) \in Int /\ f[y] \in Int
      BY <3>2, SumType
    <3>5. V \cup {y} = U /\ (S \cup V) \cup {y} = S \cup U
      BY <3>1
    <3>6. /\ SumFunctionOnSet(f, V \cup {y}) = SumFunctionOnSet(f, V) + f[y]
          /\ SumFunctionOnSet(f, (S \cup V) \cup {y}) = SumFunctionOnSet(f, S \cup V) + f[y]
      BY <3>1, <3>2, SumAdd
    <3> HIDE DEF V, G
    <3>7. SumFunctionOnSet(f, S \cup U) = SumFunctionOnSet(f, S \cup V) + f[y]
      BY <3>5, <3>6
    <3>8. SumFunctionOnSet(f, U) = SumFunctionOnSet(f, V) + f[y]
      BY <3>5, <3>6
    <3>9. SumFunctionOnSet(f, S \cup U) = SumFunctionOnSet(f, S) + SumFunctionOnSet(f, U)
      BY <2>1, <3>3, <3>4, <3>7, <3>8
    <3>10. QED
      BY <3>9 DEF G
  <2>4. QED
    BY <2>2, <2>3
<1>2. SUBSET T \subseteq G
  <2> HIDE DEF G
  <2>1. QED
    BY <1>1, SubsetInduction
<1>3. T \in G
  BY <1>2
<1>4. QED
  BY <1>3

LEMMA SumNat ==
    ASSUME NEW f, NEW S, IsFiniteSet(S), \A x \in S : f[x] \in Nat
    PROVE  SumFunctionOnSet(f, S) \in Nat
<1> DEFINE G == {T \in SUBSET S : SumFunctionOnSet(f, T) \in Nat}
<1>1. ASSUME NEW T \in SUBSET S, \A U \in SUBSET T : U # T => U \in G PROVE T \in G
  <2>1. CASE T = {}
    BY <2>1, SumEmpty
  <2>2. CASE T # {}
    <3>1. /\ Chosen(T) \in T
          /\ SumFunctionOnSet(f, T) = f[Chosen(T)] + SumFunctionOnSet(f, T \ {Chosen(T)})
      BY <2>2, FS_Subset, SumRecursion
    <3>2. SumFunctionOnSet(f, T \ {Chosen(T)}) \in Nat /\ f[Chosen(T)] \in Nat
      BY <1>1, <3>1
    <3>3. QED
      BY <3>1, <3>2
  <2>3. QED
    BY <2>1, <2>2
<1>2. SUBSET S \subseteq G
  <2> HIDE DEF G
  <2>1. QED
    BY <1>1, SubsetInduction
<1>3. QED
  BY <1>2

\* A part of a sum of naturals is no larger.
LEMMA SumPart ==
    ASSUME NEW f, NEW S, IsFiniteSet(S), NEW T \in SUBSET S, \A x \in S : f[x] \in Nat
    PROVE  SumFunctionOnSet(f, T) <= SumFunctionOnSet(f, S)
<1>1. IsFiniteSet(T) /\ IsFiniteSet(S \ T) /\ T \cup (S \ T) = S /\ T \cap (S \ T) = {}
  BY FS_Subset
<1>2. \A x \in T \cup (S \ T) : f[x] \in Int
  OBVIOUS
<1>3. SumFunctionOnSet(f, S) = SumFunctionOnSet(f, T) + SumFunctionOnSet(f, S \ T)
  BY <1>1, <1>2, SumUnion
<1>4. SumFunctionOnSet(f, T) \in Nat /\ SumFunctionOnSet(f, S \ T) \in Nat
  BY <1>1, SumNat
<1>5. QED
  BY <1>3, <1>4

\* The terms of a sum under other names.
LEMMA SumRename ==
    ASSUME NEW f, NEW g, NEW h, NEW S, NEW T, IsFiniteSet(S),
           \A x \in S : h[x] \in T /\ f[x] = g[h[x]],
           \A x, y \in S : h[x] = h[y] => x = y,
           \A z \in T : g[z] \in Int /\ \E x \in S : h[x] = z
    PROVE  SumFunctionOnSet(f, S) = SumFunctionOnSet(g, T)
<1> DEFINE Img(U) == {h[x] : x \in U}
           G == {U \in SUBSET S : IsFiniteSet(Img(U)) /\ SumFunctionOnSet(f, U) = SumFunctionOnSet(g, Img(U))}
<1>1. ASSUME NEW U \in SUBSET S, \A V \in SUBSET U : V # U => V \in G PROVE U \in G
  <2>1. CASE U = {}
    <3>1. Img(U) = {}
      BY <2>1
    <3>2. QED
      BY <2>1, <3>1, SumEmpty, FS_EmptySet
  <2>2. CASE U # {}
    <3>1. PICK y \in U : TRUE
      BY <2>2
    <3> DEFINE V == U \ {y}
    <3>2. V \in G /\ IsFiniteSet(V) /\ y \notin V /\ V \cup {y} = U
      BY <1>1, <3>1, FS_Subset
    <3>3. h[y] \notin Img(V) /\ Img(U) = Img(V) \cup {h[y]}
      BY <3>1
    <3>4. \A x \in V \cup {y} : f[x] \in Int
      BY <3>1
    <3>5. \A z \in Img(V) \cup {h[y]} : g[z] \in Int
      BY <3>1
    <3>6. IsFiniteSet(Img(V)) /\ SumFunctionOnSet(f, V) = SumFunctionOnSet(g, Img(V)) /\ f[y] = g[h[y]]
      BY <3>1, <3>2
    <3> HIDE DEF V, G, Img
    <3>7. SumFunctionOnSet(f, V \cup {y}) = SumFunctionOnSet(f, V) + f[y]
      BY <3>2, <3>4, SumAdd
    <3>8. SumFunctionOnSet(g, Img(V) \cup {h[y]}) = SumFunctionOnSet(g, Img(V)) + g[h[y]]
      BY <3>3, <3>5, <3>6, SumAdd
    <3>9. IsFiniteSet(Img(V) \cup {h[y]})
      BY <3>6, FS_AddElement
    <3>10. QED
      BY <3>2, <3>3, <3>6, <3>7, <3>8, <3>9 DEF G
  <2>3. QED
    BY <2>1, <2>2
<1>2. SUBSET S \subseteq G
  <2> HIDE DEF G
  <2>1. QED
    BY <1>1, SubsetInduction
<1>3. Img(S) = T
  OBVIOUS
<1>4. S \in G
  BY <1>2
<1>5. QED
  BY <1>3, <1>4

-----------------------------------------------------------------------------
\* Sums over intervals

LEMMA SumNext ==
    ASSUME NEW f, NEW n \in Nat, \A i \in 1..(n + 1) : f[i] \in Int
    PROVE  SumFunctionOnSet(f, 1..(n + 1)) = SumFunctionOnSet(f, 1..n) + f[n + 1]
<1>1. 1..(n + 1) = (1..n) \cup {n + 1} /\ n + 1 \notin 1..n
  OBVIOUS
<1>2. n \in Int /\ IsFiniteSet(1..n)
  BY FS_Interval
<1> DEFINE I == 1..n
           k == n + 1
<1>3. \A i \in I \cup {k} : f[i] \in Int
  BY <1>1
<1>4. 1..(n + 1) = I \cup {k} /\ k \notin I /\ IsFiniteSet(I)
  BY <1>1, <1>2
<1> HIDE DEF I, k
<1>5. SumFunctionOnSet(f, I \cup {k}) = SumFunctionOnSet(f, I) + f[k]
  BY <1>3, <1>4, SumAdd
<1>6. QED
  BY <1>4, <1>5 DEF I, k

LEMMA SumSplit ==
    ASSUME NEW f, NEW n \in Nat, NEW m \in Nat, n <= m, \A i \in 1..m : f[i] \in Int
    PROVE  SumFunctionOnSet(f, 1..m) = SumFunctionOnSet(f, 1..n) + SumFunctionOnSet(f, (n + 1)..m)
<1>1. /\ 1..m = (1..n) \cup ((n + 1)..m) /\ (1..n) \cap ((n + 1)..m) = {}
      /\ IsFiniteSet(1..n) /\ IsFiniteSet((n + 1)..m)
  <2>1. 1..m = (1..n) \cup ((n + 1)..m) /\ (1..n) \cap ((n + 1)..m) = {}
    OBVIOUS
  <2>2. n \in Int /\ m \in Int /\ n + 1 \in Int
    OBVIOUS
  <2>3. IsFiniteSet(1..n) /\ IsFiniteSet((n + 1)..m)
    BY <2>2, FS_Interval
  <2>4. QED
    BY <2>1, <2>3
<1>2. \A i \in (1..n) \cup ((n + 1)..m) : f[i] \in Int
  BY <1>1
<1>3. QED
  BY <1>1, <1>2, SumUnion

\* The numbers above n, counted from one.
LEMMA SumShift ==
    ASSUME NEW f, NEW n \in Nat, NEW k \in Nat, \A i \in 1..(n + k) : f[i] \in Int
    PROVE  SumFunctionOnSet([i \in 1..k |-> f[i + n]], 1..k) = SumFunctionOnSet(f, (n + 1)..(n + k))
<1> DEFINE g == [i \in 1..k |-> f[i + n]]
           m == n + k
<1>0. \A i \in 1..k : g[i] = f[i + n]
  OBVIOUS
<1> HIDE DEF g
<1> DEFINE h == [i \in 1..k |-> i + n]
<1>1. \A i \in 1..k : h[i] = i + n /\ h[i] \in (n + 1)..m
  OBVIOUS
<1>2. \A i \in 1..k : h[i] \in (n + 1)..m /\ g[i] = f[h[i]]
  BY <1>0, <1>1
<1>3. \A i, j \in 1..k : h[i] = h[j] => i = j
  BY <1>1
<1>4. \A z \in (n + 1)..m : f[z] \in Int /\ \E i \in 1..k : h[i] = z
  <2>1. TAKE z \in (n + 1)..m
  <2>2. z - n \in 1..k /\ (z - n) + n = z /\ z \in 1..m
    OBVIOUS
  <2>3. h[z - n] = z
    BY <1>1, <2>2
  <2>4. QED
    BY <2>2, <2>3
<1>5. k \in Int /\ IsFiniteSet(1..k)
  BY FS_Interval
<1> DEFINE I == 1..k
           J == (n + 1)..m
<1>6. /\ \A i \in I : h[i] \in J /\ g[i] = f[h[i]]
      /\ \A i, j \in I : h[i] = h[j] => i = j
      /\ \A z \in J : f[z] \in Int /\ \E i \in I : h[i] = z
      /\ IsFiniteSet(I)
  BY <1>2, <1>3, <1>4, <1>5
<1> HIDE DEF h, I, J
<1>7. SumFunctionOnSet(g, I) = SumFunctionOnSet(f, J)
  BY <1>6, SumRename
<1>8. QED
  BY <1>7 DEF I, J, g

\* The numbers without p, counted from one.
LEMMA SumGap ==
    ASSUME NEW f, NEW g, NEW m \in Nat, NEW p \in 1..m, \A i \in 1..m : f[i] \in Int,
           \A i \in 1..(m - 1) : g[i] = f[IF i < p THEN i ELSE i + 1]
    PROVE  SumFunctionOnSet(f, 1..m) = SumFunctionOnSet(g, 1..(m - 1)) + f[p]
<1> DEFINE h == [i \in 1..(m - 1) |-> IF i < p THEN i ELSE i + 1]
<1>1. \A i \in 1..(m - 1) : h[i] = (IF i < p THEN i ELSE i + 1) /\ h[i] \in (1..m) \ {p}
  OBVIOUS
<1>2. \A i \in 1..(m - 1) : h[i] \in (1..m) \ {p} /\ g[i] = f[h[i]]
  BY <1>1
<1>3. \A i, j \in 1..(m - 1) : h[i] = h[j] => i = j
  BY <1>1
<1>4. \A z \in (1..m) \ {p} : f[z] \in Int /\ \E i \in 1..(m - 1) : h[i] = z
  <2>1. TAKE z \in (1..m) \ {p}
  <2>2. CASE z < p
    <3>1. z \in 1..(m - 1)
      BY <2>2
    <3>2. h[z] = z
      BY <1>1, <2>2, <3>1
    <3>3. QED
      BY <3>1, <3>2
  <2>3. CASE ~(z < p)
    <3>1. z - 1 \in 1..(m - 1) /\ ~(z - 1 < p) /\ (z - 1) + 1 = z
      BY <2>3
    <3>2. h[z - 1] = z
      BY <1>1, <3>1
    <3>3. QED
      BY <3>1, <3>2
  <2>4. QED
    BY <2>2, <2>3
<1>5. m - 1 \in Int /\ m \in Int /\ IsFiniteSet(1..(m - 1)) /\ IsFiniteSet(1..m)
  BY FS_Interval
<1> DEFINE I == 1..(m - 1)
           J == 1..m
           K == J \ {p}
<1>6. IsFiniteSet(J) /\ p \in J /\ \A i \in J : f[i] \in Int
  BY <1>5
<1>7. IsFiniteSet(K) /\ \A i \in K : f[i] \in Int
  BY <1>6, FS_Subset
<1>8. /\ IsFiniteSet(I)
      /\ \A i \in I : h[i] \in K /\ g[i] = f[h[i]]
      /\ \A i, j \in I : h[i] = h[j] => i = j
      /\ \A z \in K : f[z] \in Int /\ \E i \in I : h[i] = z
  BY <1>2, <1>3, <1>4, <1>5
<1> HIDE DEF h, I, J
<1>9. SumFunctionOnSet(f, J) = f[p] + SumFunctionOnSet(f, K)
  BY <1>6, SumRemove
<1> HIDE DEF K
<1>10. SumFunctionOnSet(g, I) = SumFunctionOnSet(f, K)
  BY <1>8, SumRename
<1>11. SumFunctionOnSet(f, K) \in Int /\ f[p] \in Int
  BY <1>6, <1>7, SumType
<1>12. QED
  BY <1>9, <1>10, <1>11 DEF I, J

=============================================================================
