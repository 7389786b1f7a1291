---------------------------- MODULE DataTheorems ----------------------------
(* What the proofs need to know of the data the models are made of.
   Sums: SumFunctionOnSet(f, S), a fold in an unspecified order, is 0 on
   the empty set, loses f[x] with an element x whichever it is, and
   depends on f only through its values on S.  Extreme values: a bounded
   set has a Max and a Min.  Sequences: what Tail and Append hold.
   Positions: a set of them can be listed in rising order. *)
EXTENDS Integers, FiniteSetsExt, Functions, Sequences, FiniteSetTheorems,
        SequenceTheorems, TLAPS

\* Induction over the naturals, for a set instead of a predicate.
LEMMA NatSetInduction ==
    ASSUME NEW G, 0 \in G, \A n \in Nat : n \in G => n + 1 \in G
    PROVE  \A n \in Nat : n \in G
<1> SUFFICES ASSUME Nat \ G # {} PROVE FALSE OBVIOUS
<1> DEFINE R == OpToRel(<, Nat)
<1>1. IsWellFoundedOn(R, Nat) BY NatLessThanWellFounded
<1>2. \A m, n \in Nat : m < n => <<m, n>> \in R BY DEF OpToRel
<1> HIDE DEF R
<1>3. PICK n \in Nat \ G : \A m \in Nat \ G : ~(<<m, n>> \in R) BY <1>1, WFMin
<1>4. n # 0 /\ n - 1 \in Nat /\ n - 1 < n BY <1>3
<1>5. n - 1 \in G BY <1>2, <1>3, <1>4
<1> QED BY <1>3, <1>4, <1>5

Chosen(s) == CHOOSE x \in s : TRUE

\* g is a fold of f over the subsets of S, as far as sets of n elements.
Folds(g, f, S, n) ==
    \A s \in SUBSET S : Cardinality(s) <= n =>
        g[s] = IF s = {} THEN 0 ELSE f[Chosen(s)] + g[s \ {Chosen(s)}]

\* g is a fold of f over all the subsets of S.
IsFold(g, f, S) ==
    g = [s \in SUBSET S |->
           IF s = {} THEN 0 ELSE f[Chosen(s)] + g[s \ {Chosen(s)}]]

\* A set without its chosen element is one smaller.
LEMMA ChosenRemoved ==
    ASSUME NEW S, IsFiniteSet(S), S # {}
    PROVE  /\ Chosen(S) \in S /\ IsFiniteSet(S \ {Chosen(S)})
           /\ Cardinality(S) \in Nat
           /\ Cardinality(S \ {Chosen(S)}) = Cardinality(S) - 1
<1>1. Chosen(S) \in S BY DEF Chosen
<1> QED BY <1>1, FS_RemoveElement, FS_CardinalityType

\* The recursion of the fold has a solution.
LEMMA FoldExists ==
    ASSUME NEW S, IsFiniteSet(S), NEW f, \A x \in S : f[x] \in Int
    PROVE  \E g \in [SUBSET S -> Int] : IsFold(g, f, S)
<1> DEFINE G == {n \in Nat : \E g \in [SUBSET S -> Int] : Folds(g, f, S, n)}
<1>0. \A s \in SUBSET S : IsFiniteSet(s) /\ Cardinality(s) \in Nat BY FS_Subset, FS_CardinalityType
<1>1. 0 \in G
  <2> DEFINE g == [s \in SUBSET S |-> 0]
  <2>1. \A s \in SUBSET S : Cardinality(s) <= 0 => s = {} BY <1>0, FS_EmptySet
  <2>2. Folds(g, f, S, 0) BY <2>1 DEF Folds
  <2>3. g \in [SUBSET S -> Int] OBVIOUS
  <2> QED BY <2>2, <2>3
<1>2. ASSUME NEW n \in Nat, n \in G PROVE n + 1 \in G
  <2>1. PICK g \in [SUBSET S -> Int] : Folds(g, f, S, n) BY <1>2
  <2> DEFINE h == [s \in SUBSET S |->
                     IF Cardinality(s) <= n THEN g[s]
                     ELSE f[Chosen(s)] + g[s \ {Chosen(s)}]]
  <2>2. \A s \in SUBSET S : s # {} =>
           /\ Chosen(s) \in S /\ s \ {Chosen(s)} \in SUBSET S
           /\ Cardinality(s \ {Chosen(s)}) = Cardinality(s) - 1
    BY <1>0, ChosenRemoved
  <2>3. h \in [SUBSET S -> Int]
    <3> SUFFICES ASSUME NEW s \in SUBSET S, ~(Cardinality(s) <= n)
                 PROVE  f[Chosen(s)] + g[s \ {Chosen(s)}] \in Int
      BY <2>1
    <3>1. s # {}
      <4>1. s = {} => Cardinality(s) = 0 BY FS_EmptySet, Zenon
      <4> QED BY <4>1
    <3> QED BY <2>2, <3>1
  <2>4. Folds(h, f, S, n + 1)
    <3> SUFFICES ASSUME NEW s \in SUBSET S, Cardinality(s) <= n + 1
                 PROVE  h[s] = IF s = {} THEN 0
                               ELSE f[Chosen(s)] + h[s \ {Chosen(s)}]
      BY DEF Folds
    <3>1. CASE s = {}
      <4>1. Cardinality(s) = 0 BY <3>1, FS_EmptySet
      <4>2. h[s] = g[s] /\ g[s] = 0 BY <2>1, <3>1, <4>1 DEF Folds
      <4> QED BY <3>1, <4>2
    <3>2. CASE s # {}
      <4>1. h[s \ {Chosen(s)}] = g[s \ {Chosen(s)}] BY <1>0, <2>2, <3>2
      <4>2. h[s] = f[Chosen(s)] + g[s \ {Chosen(s)}] BY <2>1, <3>2 DEF Folds
      <4> QED BY <3>2, <4>1, <4>2
    <3> QED BY <3>1, <3>2
  <2> HIDE DEF h
  <2> QED BY <2>3, <2>4
<1>3. Cardinality(S) \in Nat /\ \A s \in SUBSET S : Cardinality(s) <= Cardinality(S)
  BY FS_Subset, FS_CardinalityType
<1> HIDE DEF G
<1>4. Cardinality(S) \in G BY <1>1, <1>2, <1>3, NatSetInduction
<1>5. PICK g \in [SUBSET S -> Int] : Folds(g, f, S, Cardinality(S)) BY <1>4 DEF G
<1>6. \A s \in SUBSET S : g[s] = IF s = {} THEN 0 ELSE f[Chosen(s)] + g[s \ {Chosen(s)}]
  BY <1>3, <1>5 DEF Folds
<1>7. IsFold(g, f, S) BY <1>5, <1>6 DEF IsFold
<1> QED BY <1>5, <1>7

\* Two folds agree on the sets on which the functions they add up agree.
LEMMA FoldUnique ==
    ASSUME NEW A, IsFiniteSet(A), NEW B, IsFiniteSet(B), NEW f, NEW g, NEW h, NEW k,
           IsFold(h, f, A), IsFold(k, g, B),
           NEW S, S \subseteq A, S \subseteq B, \A x \in S : f[x] = g[x]
    PROVE  h[S] = k[S]
<1> DEFINE G == {n \in Nat : \A s \in SUBSET S : Cardinality(s) <= n => h[s] = k[s]}
<1>0. \A s \in SUBSET S : IsFiniteSet(s) /\ Cardinality(s) \in Nat BY FS_Subset, FS_CardinalityType
<1>f. \A s \in SUBSET S :
        /\ h[s] = IF s = {} THEN 0 ELSE f[Chosen(s)] + h[s \ {Chosen(s)}]
        /\ k[s] = IF s = {} THEN 0 ELSE g[Chosen(s)] + k[s \ {Chosen(s)}]
  BY DEF IsFold
<1>1. 0 \in G
  <2>1. \A s \in SUBSET S : Cardinality(s) <= 0 => s = {} BY <1>0, FS_EmptySet
  <2>2. \A s \in SUBSET S : s = {} => h[s] = k[s] BY <1>f, Zenon
  <2> QED BY <2>1, <2>2
<1>2. ASSUME NEW n \in Nat, n \in G PROVE n + 1 \in G
  <2> SUFFICES ASSUME NEW s \in SUBSET S, Cardinality(s) <= n + 1
               PROVE  h[s] = k[s]
    OBVIOUS
  <2>1. CASE s = {} BY <1>f, <2>1, Zenon
  <2>2. CASE s # {}
    <3> DEFINE x == Chosen(s)
    <3>1. x \in s /\ Cardinality(s \ {x}) = Cardinality(s) - 1 BY <1>0, <2>2, ChosenRemoved
    <3>2. h[s \ {x}] = k[s \ {x}] BY <1>0, <1>2, <3>1
    <3>3. h[s] = f[x] + h[s \ {x}] /\ k[s] = g[x] + k[s \ {x}] /\ f[x] = g[x] BY <1>f, <2>2, <3>1
    <3> QED BY <3>2, <3>3
  <2> QED BY <2>1, <2>2
<1> HIDE DEF G
<1>3. Cardinality(S) \in G /\ S \in SUBSET S BY <1>0, <1>1, <1>2, NatSetInduction
<1> QED BY <1>0, <1>3 DEF G

\* SumFunctionOnSet() is that solution, at S.
LEMMA SumIsFold ==
    ASSUME NEW S, IsFiniteSet(S), NEW f, \A x \in S : f[x] \in Int
    PROVE  \E g \in [SUBSET S -> Int] : IsFold(g, f, S) /\ SumFunctionOnSet(f, S) = g[S]
<1> DEFINE iter == CHOOSE g : IsFold(g, f, S)
<1>1. SumFunctionOnSet(f, S) = iter[S]
  BY DEF SumFunctionOnSet, FoldFunctionOnSet, MapThenFoldSet, Chosen, IsFold
<1>2. PICK g \in [SUBSET S -> Int] : IsFold(g, f, S) BY FoldExists
<1>3. IsFold(iter, f, S) BY <1>2
<1> HIDE DEF iter
<1>4. iter[S] = g[S] BY <1>2, <1>3, FoldUnique
<1> QED BY <1>1, <1>2, <1>4

\* The sum over no elements.
THEOREM SumEmpty ==
    ASSUME NEW f
    PROVE  SumFunctionOnSet(f, {}) = 0
<1>1. IsFiniteSet({}) BY FS_EmptySet
<1>2. PICK g \in [SUBSET {} -> Int] : IsFold(g, f, {}) /\ SumFunctionOnSet(f, {}) = g[{}] BY <1>1, SumIsFold
<1> QED BY <1>2 DEF IsFold

\* The sum of integers is an integer.
THEOREM SumType ==
    ASSUME NEW S, IsFiniteSet(S), NEW f, \A x \in S : f[x] \in Int
    PROVE  SumFunctionOnSet(f, S) \in Int
<1>1. PICK g \in [SUBSET S -> Int] : IsFold(g, f, S) /\ SumFunctionOnSet(f, S) = g[S] BY SumIsFold
<1> QED BY <1>1

\* The sum depends on the summands only.
THEOREM SumSame ==
    ASSUME NEW S, IsFiniteSet(S), NEW f, NEW g,
           \A x \in S : f[x] \in Int /\ f[x] = g[x]
    PROVE  SumFunctionOnSet(f, S) = SumFunctionOnSet(g, S)
<1>1. PICK h \in [SUBSET S -> Int] : IsFold(h, f, S) /\ SumFunctionOnSet(f, S) = h[S] BY SumIsFold
<1>2. PICK k \in [SUBSET S -> Int] : IsFold(k, g, S) /\ SumFunctionOnSet(g, S) = k[S] BY SumIsFold
<1> QED BY <1>1, <1>2, FoldUnique

\* The fold takes the chosen element out first.
LEMMA SumChosen ==
    ASSUME NEW S, IsFiniteSet(S), S # {}, NEW f, \A x \in S : f[x] \in Int
    PROVE  SumFunctionOnSet(f, S) = f[Chosen(S)] + SumFunctionOnSet(f, S \ {Chosen(S)})
<1> DEFINE T == S \ {Chosen(S)}
<1>0. Chosen(S) \in S /\ IsFiniteSet(T) /\ T \subseteq S BY ChosenRemoved
<1>1. PICK h \in [SUBSET S -> Int] : IsFold(h, f, S) /\ SumFunctionOnSet(f, S) = h[S] BY SumIsFold
<1>2. PICK k \in [SUBSET T -> Int] : IsFold(k, f, T) /\ SumFunctionOnSet(f, T) = k[T] BY <1>0, SumIsFold
<1>3. h[S] = f[Chosen(S)] + h[T] BY <1>1 DEF IsFold
<1> HIDE DEF T
<1>4. h[T] = k[T] BY <1>0, <1>1, <1>2, FoldUnique
<1> QED BY <1>1, <1>2, <1>3, <1>4 DEF T

\* Any element may be taken out first.
THEOREM SumRemove ==
    ASSUME NEW S, IsFiniteSet(S), NEW f, \A y \in S : f[y] \in Int, NEW x \in S
    PROVE  SumFunctionOnSet(f, S) = f[x] + SumFunctionOnSet(f, S \ {x})
<1> DEFINE G == {n \in Nat : \A s \in SUBSET S : Cardinality(s) <= n =>
                    \A y \in s : SumFunctionOnSet(f, s)
                                   = f[y] + SumFunctionOnSet(f, s \ {y})}
<1>0. \A s \in SUBSET S : IsFiniteSet(s) /\ Cardinality(s) \in Nat BY FS_Subset, FS_CardinalityType
<1>1. 0 \in G
  <2>1. \A s \in SUBSET S : Cardinality(s) <= 0 => s = {} BY <1>0, FS_EmptySet
  <2> QED BY <2>1
<1>2. ASSUME NEW n \in Nat, n \in G PROVE n + 1 \in G
  <2> SUFFICES ASSUME NEW s \in SUBSET S, Cardinality(s) <= n + 1, NEW y \in s
               PROVE  SumFunctionOnSet(f, s) = f[y] + SumFunctionOnSet(f, s \ {y})
    OBVIOUS
  <2> DEFINE c == Chosen(s)
             Rest(z) == s \ {z}
  <2>1. c \in s /\ IsFiniteSet(s) /\ SumFunctionOnSet(f, s) = f[c] + SumFunctionOnSet(f, Rest(c))
    BY <1>0, SumChosen, ChosenRemoved
  <2>2. \A z \in s : /\ IsFiniteSet(Rest(z)) /\ Rest(z) \in SUBSET S
                       /\ Cardinality(Rest(z)) <= n
    BY <1>0, FS_RemoveElement
  <2>3. CASE y = c BY <2>1, <2>3
  <2>4. CASE y # c
    <3> HIDE DEF c
    <3>1. /\ SumFunctionOnSet(f, Rest(c)) = f[y] + SumFunctionOnSet(f, Rest(c) \ {y})
          /\ SumFunctionOnSet(f, Rest(y)) = f[c] + SumFunctionOnSet(f, Rest(y) \ {c})
      BY <1>2, <2>1, <2>2, <2>4
    <3>2. Rest(c) \ {y} = Rest(y) \ {c} OBVIOUS
    <3>3. IsFiniteSet(Rest(c) \ {y}) /\ Rest(c) \ {y} \subseteq S BY <2>1, <2>2, FS_RemoveElement
    <3>4. SumFunctionOnSet(f, Rest(c) \ {y}) \in Int BY <3>3, SumType
    <3>5. f[y] \in Int /\ f[c] \in Int BY <2>1
    <3>6. SumFunctionOnSet(f, Rest(y)) = f[c] + SumFunctionOnSet(f, Rest(c) \ {y}) BY <3>1, <3>2
    <3> QED BY <2>1, <3>1, <3>4, <3>5, <3>6
  <2> QED BY <2>3, <2>4
<1> HIDE DEF G
<1>3. Cardinality(S) \in G /\ S \in SUBSET S BY <1>0, <1>1, <1>2, NatSetInduction
<1> QED BY <1>0, <1>3 DEF G

\* Induction over the subsets of a finite set, one element at a time.
LEMMA SubsetInduction ==
    ASSUME NEW S, IsFiniteSet(S), NEW G, {} \in G,
           \A T \in SUBSET S : \A x \in S \ T : T \in G => T \cup {x} \in G
    PROVE  \A T \in SUBSET S : T \in G
<1> DEFINE N == {n \in Nat : \A T \in SUBSET S : Cardinality(T) <= n => T \in G}
<1>0. \A T \in SUBSET S : IsFiniteSet(T) /\ Cardinality(T) \in Nat BY FS_Subset, FS_CardinalityType
<1>1. 0 \in N
  <2>1. \A T \in SUBSET S : Cardinality(T) <= 0 => T = {} BY <1>0, FS_EmptySet
  <2>2. \A T \in SUBSET S : T = {} => T \in G BY Zenon
  <2> QED BY <2>1, <2>2
<1>2. ASSUME NEW n \in Nat, n \in N PROVE n + 1 \in N
  <2> SUFFICES ASSUME NEW T \in SUBSET S, Cardinality(T) <= n + 1 PROVE T \in G OBVIOUS
  <2>1. CASE T = {} BY <2>1, Zenon
  <2>2. CASE T # {}
    <3> DEFINE x == Chosen(T)
               U == T \ {x}
    <3>1. x \in T /\ Cardinality(U) = Cardinality(T) - 1 BY <1>0, <2>2, ChosenRemoved
    <3>2. U \in SUBSET S /\ x \in S \ U /\ T = U \cup {x} BY <3>1
    <3>3. U \in G BY <1>0, <1>2, <3>1, <3>2
    <3> HIDE DEF x, U
    <3>4. U \cup {x} \in G BY <3>2, <3>3
    <3> QED BY <3>2, <3>4, Zenon
  <2> QED BY <2>1, <2>2
<1> HIDE DEF N
<1>3. \A T \in SUBSET S : Cardinality(T) \in N BY <1>0, <1>1, <1>2, NatSetInduction
<1> QED BY <1>0, <1>3 DEF N

\* Adding an element adds its value.
THEOREM SumAdd ==
    ASSUME NEW S, IsFiniteSet(S), NEW x, x \notin S, NEW f,
           \A y \in S \cup {x} : f[y] \in Int
    PROVE  SumFunctionOnSet(f, S \cup {x}) = f[x] + SumFunctionOnSet(f, S)
<1>1. IsFiniteSet(S \cup {x}) BY FS_AddElement
<1>2. (S \cup {x}) \ {x} = S OBVIOUS
<1>3. SumFunctionOnSet(f, S \cup {x}) = f[x] + SumFunctionOnSet(f, (S \cup {x}) \ {x}) BY <1>1, SumRemove
<1> QED BY <1>2, <1>3

\* A sum of natural numbers is one, and is at least each of its parts.
THEOREM SumNat ==
    ASSUME NEW S, IsFiniteSet(S), NEW f, \A x \in S : f[x] \in Nat
    PROVE  SumFunctionOnSet(f, S) \in Nat
<1> DEFINE G == {T \in SUBSET S : SumFunctionOnSet(f, T) \in Nat}
<1>1. {} \in G BY SumEmpty
<1>2. ASSUME NEW T \in SUBSET S, NEW x \in S \ T, T \in G PROVE T \cup {x} \in G
  <2>1. IsFiniteSet(T) /\ \A y \in T \cup {x} : f[y] \in Int BY FS_Subset
  <2>2. SumFunctionOnSet(f, T \cup {x}) = f[x] + SumFunctionOnSet(f, T) BY <2>1, SumAdd
  <2> QED BY <1>2, <2>2
<1> HIDE DEF G
<1>3. S \in G BY <1>1, <1>2, SubsetInduction
<1> QED BY <1>3 DEF G

\* One value changed.
THEOREM SumUpdate ==
    ASSUME NEW S, IsFiniteSet(S), NEW f, NEW g, NEW x \in S,
           \A y \in S : f[y] \in Int /\ g[y] \in Int,
           \A y \in S : y # x => f[y] = g[y]
    PROVE  SumFunctionOnSet(g, S) = SumFunctionOnSet(f, S) - f[x] + g[x]
<1> DEFINE T == S \ {x}
<1>1. IsFiniteSet(T) /\ T \subseteq S BY FS_RemoveElement
<1>2. SumFunctionOnSet(f, T) \in Int /\ SumFunctionOnSet(f, T) = SumFunctionOnSet(g, T)
  BY <1>1, SumType, SumSame
<1>3. /\ SumFunctionOnSet(f, S) = f[x] + SumFunctionOnSet(f, T)
      /\ SumFunctionOnSet(g, S) = g[x] + SumFunctionOnSet(g, T)
  BY SumRemove
<1>4. f[x] \in Int /\ g[x] \in Int OBVIOUS
<1> QED BY <1>2, <1>3, <1>4

\* The values on D cleared: what is lost is the sum over D.
THEOREM SumClear ==
    ASSUME NEW S, IsFiniteSet(S), NEW f, NEW g, NEW D \in SUBSET S,
           \A y \in S : f[y] \in Int /\ g[y] = IF y \in D THEN 0 ELSE f[y]
    PROVE  SumFunctionOnSet(g, S) = SumFunctionOnSet(f, S) - SumFunctionOnSet(f, D)
<1> DEFINE m(T) == [y \in S |-> IF y \in T THEN 0 ELSE f[y]]
           G == {T \in SUBSET S : SumFunctionOnSet(m(T), S)
                                     = SumFunctionOnSet(f, S) - SumFunctionOnSet(f, T)}
<1>0. SumFunctionOnSet(f, S) \in Int BY SumType
<1>1. {} \in G
  <2>1. SumFunctionOnSet(m({}), S) = SumFunctionOnSet(f, S) BY SumSame
  <2>2. SumFunctionOnSet(f, {}) = 0 BY SumEmpty
  <2> QED BY <1>0, <2>1, <2>2
<1>2. ASSUME NEW T \in SUBSET S, NEW x \in S \ T, T \in G PROVE T \cup {x} \in G
  <2>1. IsFiniteSet(T) /\ \A y \in T \cup {x} : f[y] \in Int BY FS_Subset
  <2>2. SumFunctionOnSet(f, T \cup {x}) = f[x] + SumFunctionOnSet(f, T) BY <2>1, SumAdd
  <2>3. SumFunctionOnSet(f, T) \in Int BY <2>1, SumType
  <2> DEFINE h == m(T)
             k == m(T \cup {x})
  <2>4. /\ \A y \in S : h[y] \in Int /\ k[y] \in Int
        /\ \A y \in S : y # x => h[y] = k[y]
        /\ h[x] = f[x] /\ k[x] = 0
    OBVIOUS
  <2>6. SumFunctionOnSet(h, S) = SumFunctionOnSet(f, S) - SumFunctionOnSet(f, T) BY <1>2
  <2> HIDE DEF h, k
  <2>5. SumFunctionOnSet(k, S) = SumFunctionOnSet(h, S) - f[x]
    <3>1. SumFunctionOnSet(k, S) = SumFunctionOnSet(h, S) - h[x] + k[x]
      <4>1. \A p, q : ((\A y \in S : p[y] \in Int /\ q[y] \in Int)
                        /\ (\A y \in S : y # x => p[y] = q[y]))
                       => SumFunctionOnSet(q, S) = SumFunctionOnSet(p, S) - p[x] + q[x]
        BY SumUpdate
      <4> QED BY <2>4, <4>1, Zenon
    <3>2. SumFunctionOnSet(h, S) \in Int BY <2>4, SumType
    <3> QED BY <2>1, <2>4, <3>1, <3>2
  <2>7. SumFunctionOnSet(k, S) = SumFunctionOnSet(f, S) - SumFunctionOnSet(f, T \cup {x})
    BY <1>0, <2>1, <2>2, <2>3, <2>5, <2>6
  <2> QED BY <2>7 DEF k
<1>4. SumFunctionOnSet(g, S) = SumFunctionOnSet(m(D), S) BY SumSame
<1> HIDE DEF G
<1>3. D \in G BY <1>1, <1>2, SubsetInduction
<1> QED BY <1>3, <1>4 DEF G

(* ---- extreme values and sequences ---- *)

LEMMA Extremes ==
    ASSUME NEW n \in Nat, NEW S \in SUBSET (0..n), S # {}
    PROVE  /\ Max(S) \in S /\ \A y \in S : y <= Max(S)
           /\ Min(S) \in S /\ \A y \in S : Min(S) <= y
<1> DEFINE G == {m \in Nat : \A T \in SUBSET (0..m) : T # {} =>
                   /\ \E x \in T : \A y \in T : x >= y
                   /\ \E x \in T : \A y \in T : x =< y}
<1>1. 0 \in G
  <2>1. 0..0 = {0} OBVIOUS
  <2>2. \A T \in SUBSET (0..0) : T # {} => T = {0} BY <2>1
  <2> QED BY <2>2
<1>2. ASSUME NEW m \in Nat, m \in G PROVE m + 1 \in G
  <2> SUFFICES ASSUME NEW T \in SUBSET (0..m + 1), T # {}
               PROVE  /\ \E x \in T : \A y \in T : x >= y
                      /\ \E x \in T : \A y \in T : x =< y
    BY <1>2
  <2>1. T \ {m + 1} \in SUBSET (0..m) BY <1>2
  <2>2. CASE T \ {m + 1} = {}
    <3>1. T = {m + 1} BY <2>2
    <3> QED BY <3>1
  <2>3. CASE T \ {m + 1} # {}
    <3>1. PICK x \in T \ {m + 1} : \A y \in T \ {m + 1} : x >= y BY <1>2, <2>1, <2>3
    <3>2. PICK z \in T \ {m + 1} : \A y \in T \ {m + 1} : z =< y BY <1>2, <2>1, <2>3
    <3>3. \A y \in T : y \in Int /\ y <= m + 1 OBVIOUS
    <3>4. \A y \in T : z =< y BY <2>1, <3>2, <3>3
    <3>5. \E v \in T : \A y \in T : v >= y
      <4>1. CASE m + 1 \in T BY <3>3, <4>1
      <4>2. CASE m + 1 \notin T BY <3>1, <4>2
      <4> QED BY <4>1, <4>2
    <3> QED BY <3>4, <3>5
  <2> QED BY <2>2, <2>3
<1> HIDE DEF G
<1>3. n \in G BY <1>1, <1>2, NatSetInduction
<1>4. /\ \E x \in S : \A y \in S : x >= y
      /\ \E x \in S : \A y \in S : x =< y
  BY <1>3 DEF G
<1>5. Max(S) \in S /\ \A y \in S : Max(S) >= y BY <1>4 DEF Max
<1>6. Min(S) \in S /\ \A y \in S : Min(S) =< y BY <1>4 DEF Min
<1> QED BY <1>5, <1>6

LEMMA ExtremesAre ==
    ASSUME NEW S \in SUBSET Int, NEW x \in S
    PROVE  /\ (\A y \in S : y <= x) => Max(S) = x
           /\ (\A y \in S : x <= y) => Min(S) = x
<1>1. ASSUME \A y \in S : y <= x PROVE Max(S) = x
  <2>1. Max(S) \in S /\ \A y \in S : Max(S) >= y BY <1>1 DEF Max
  <2>2. x \in Int /\ Max(S) \in Int /\ Max(S) >= x /\ Max(S) <= x BY <1>1, <2>1
  <2> QED BY <2>2
<1>2. ASSUME \A y \in S : x <= y PROVE Min(S) = x
  <2>1. Min(S) \in S /\ \A y \in S : Min(S) =< y BY <1>2 DEF Min
  <2>2. x \in Int /\ Min(S) \in Int /\ Min(S) <= x /\ x <= Min(S) BY <1>2, <2>1
  <2> QED BY <2>2
<1> QED BY <1>1, <1>2

\* The same for places, which are counted from 1.
LEMMA PlaceExtremes ==
    ASSUME NEW n \in Nat, NEW S \in SUBSET (1..n), S # {}
    PROVE  /\ Max(S) \in S /\ \A y \in S : y <= Max(S)
           /\ Min(S) \in S /\ \A y \in S : Min(S) <= y
<1>1. S \in SUBSET (0..n) OBVIOUS
<1> QED BY <1>1, Extremes

\* A nonempty set of naturals has a least element.
LEMMA NatMin ==
    ASSUME NEW S \in SUBSET Nat, S # {}
    PROVE  Min(S) \in S /\ \A y \in S : Min(S) <= y
<1>1. PICK x \in S : TRUE OBVIOUS
<1> DEFINE B == S \cap 0..x
<1>2. B \in SUBSET (0..x) /\ B # {} /\ x \in Nat BY <1>1
<1>3. Min(B) \in B /\ \A y \in B : Min(B) <= y BY <1>2, Extremes
<1>4. Min(B) \in S /\ Min(B) <= x /\ Min(B) \in Nat BY <1>3
<1>5. \A y \in S : y \in B \/ x < y BY <1>1
<1>6. \A y \in S : y \in Nat OBVIOUS
<1> HIDE DEF B
<1>7. \A y \in S : Min(B) <= y BY <1>2, <1>3, <1>4, <1>5, <1>6
<1>8. S \in SUBSET Int OBVIOUS
<1>9. Min(S) = Min(B) BY <1>4, <1>7, <1>8, ExtremesAre
<1> QED BY <1>4, <1>7, <1>9

LEMMA IntervalFinite ==
    ASSUME NEW a \in Int, NEW b \in Int
    PROVE  IsFiniteSet(a..b)
  BY FS_Interval

LEMMA TailFacts ==
    ASSUME NEW S, NEW s \in Seq(S), s # <<>>
    PROVE  /\ Head(s) = s[1] /\ s[1] \in S /\ Tail(s) \in Seq(S)
           /\ Len(s) \in Nat \ {0} /\ DOMAIN s = 1..Len(s)
           /\ Len(Tail(s)) = Len(s) - 1 /\ DOMAIN Tail(s) = 1..(Len(s) - 1)
           /\ \A i \in 1..(Len(s) - 1) : Tail(s)[i] = s[i + 1]
           /\ Range(s) = {s[1]} \cup Range(Tail(s))
<1>1. /\ Tail(s) \in Seq(S) /\ Len(Tail(s)) = Len(s) - 1
      /\ \A i \in 1..Len(Tail(s)) : Tail(s)[i] = s[i + 1]
  BY HeadTailProperties
<1>2. Len(s) \in Nat \ {0} /\ DOMAIN s = 1..Len(s) BY EmptySeq, LenProperties
<1>3. DOMAIN Tail(s) = 1..(Len(s) - 1) BY <1>1, LenProperties
<1>4. Head(s) = s[1] /\ s[1] \in S BY <1>2, ElementOfSeq
<1>5. Range(s) = {s[1]} \cup Range(Tail(s))
  <2>1. ASSUME NEW i \in 1..Len(s) PROVE s[i] \in {s[1]} \cup Range(Tail(s))
    <3>1. CASE i = 1 BY <3>1
    <3>2. CASE i # 1
      <4>1. i - 1 \in 1..(Len(s) - 1) BY <1>2, <3>2
      <4>2. Tail(s)[i - 1] = s[i] BY <1>1, <4>1
      <4> QED BY <1>3, <4>1, <4>2 DEF Range
    <3> QED BY <3>1, <3>2
  <2>2. ASSUME NEW i \in 1..(Len(s) - 1) PROVE Tail(s)[i] \in Range(s)
    <3>1. i + 1 \in 1..Len(s) /\ Tail(s)[i] = s[i + 1] BY <1>1, <1>2
    <3> QED BY <1>2, <3>1 DEF Range
  <2>3. s[1] \in Range(s) BY <1>2 DEF Range
  <2> QED BY <1>2, <1>3, <2>1, <2>2, <2>3 DEF Range
<1> QED BY <1>1, <1>2, <1>3, <1>4, <1>5

LEMMA AppendFacts ==
    ASSUME NEW S, NEW s \in Seq(S), NEW x \in S
    PROVE  /\ Append(s, x) \in Seq(S) /\ Append(s, x) # <<>>
           /\ Len(s) \in Nat /\ DOMAIN s = 1..Len(s)
           /\ Len(Append(s, x)) = Len(s) + 1 /\ DOMAIN Append(s, x) = 1..(Len(s) + 1)
           /\ \A i \in 1..Len(s) : Append(s, x)[i] = s[i]
           /\ Append(s, x)[Len(s) + 1] = x
           /\ Range(Append(s, x)) = Range(s) \cup {x}
<1>1. /\ Append(s, x) \in Seq(S) /\ Append(s, x) # <<>>
      /\ Len(Append(s, x)) = Len(s) + 1
      /\ \A i \in 1..Len(s) : Append(s, x)[i] = s[i]
      /\ Append(s, x)[Len(s) + 1] = x
  BY AppendProperties
<1>2. Len(s) \in Nat /\ DOMAIN s = 1..Len(s) BY LenProperties
<1>3. DOMAIN Append(s, x) = 1..(Len(s) + 1) BY <1>1, LenProperties
<1>4. Range(Append(s, x)) = Range(s) \cup {x}
  <2>1. \A i \in 1..(Len(s) + 1) : i \in 1..Len(s) \/ i = Len(s) + 1 BY <1>2
  <2>2. 1..Len(s) \subseteq 1..(Len(s) + 1) /\ Len(s) + 1 \in 1..(Len(s) + 1) BY <1>2
  <2> QED BY <1>1, <1>2, <1>3, <2>1, <2>2 DEF Range
<1> QED BY <1>1, <1>2, <1>3, <1>4

\* The first c values of e rise.
Rises(e, c) == \A a, b \in 1..c : a < b => e[a] < e[b]

\* A set of positions has an enumeration in rising order.
LEMMA RisingExists ==
    ASSUME NEW n \in Nat, NEW K \in SUBSET (1..n)
    PROVE  /\ IsFiniteSet(K) /\ Cardinality(K) \in Nat
           /\ \E e \in [1..Cardinality(K) -> K] : Rises(e, Cardinality(K))
<1> DEFINE G == {m \in Nat : \A S \in SUBSET (1..m) :
                   \E e \in [1..Cardinality(S) -> S] : Rises(e, Cardinality(S))}
<1>0. \A m \in Nat : \A S \in SUBSET (1..m) : IsFiniteSet(S) /\ Cardinality(S) \in Nat
  <2> TAKE m \in Nat
  <2>1. IsFiniteSet(1..m) BY FS_Interval
  <2> QED BY <2>1, FS_Subset, FS_CardinalityType
<1>1. 0 \in G
  <2> SUFFICES ASSUME NEW S \in SUBSET (1..0)
               PROVE  \E e \in [1..Cardinality(S) -> S] : Rises(e, Cardinality(S))
    OBVIOUS
  <2>1. S = {} OBVIOUS
  <2>2. Cardinality(S) = 0 BY <2>1, FS_EmptySet
  <2>3. [i \in {} |-> 0] \in [1..0 -> S] OBVIOUS
  <2>4. Rises([i \in {} |-> 0], 0) BY DEF Rises
  <2> QED BY <2>2, <2>3, <2>4
<1>2. ASSUME NEW m \in Nat, m \in G PROVE m + 1 \in G
  <2> SUFFICES ASSUME NEW S \in SUBSET (1..m + 1)
               PROVE  \E e \in [1..Cardinality(S) -> S] : Rises(e, Cardinality(S))
    BY <1>2
  <2> DEFINE R == S \ {m + 1}
             c == Cardinality(R)
  <2>1. R \in SUBSET (1..m) BY <1>2
  <2>2. IsFiniteSet(R) /\ c \in Nat BY <1>0, <1>2, <2>1
  <2>3. PICK e \in [1..c -> R] : Rises(e, c) BY <1>2, <2>1
  <2>4. CASE m + 1 \notin S
    <3>1. R = S BY <2>4
    <3> QED BY <2>3, <3>1
  <2>5. CASE m + 1 \in S
    <3>1. S = R \cup {m + 1} /\ m + 1 \notin R BY <2>5
    <3>2. Cardinality(S) = c + 1 BY <2>2, <3>1, FS_AddElement
    <3> HIDE DEF c, R
    <3> DEFINE g == [i \in 1..c + 1 |-> IF i = c + 1 THEN m + 1 ELSE e[i]]
    <3>3. \A i \in 1..c : g[i] = e[i] /\ e[i] \in R /\ i \in 1..c + 1 BY <2>2, <2>3
    <3>4. g[c + 1] = m + 1 BY <2>2
    <3>5. \A i \in 1..c + 1 : i \in 1..c \/ i = c + 1 BY <2>2
    <3>6. g \in [1..c + 1 -> S]
      <4>1. \A i \in 1..c + 1 : g[i] \in S BY <3>1, <3>3, <3>4, <3>5
      <4> QED BY <4>1
    <3>7. ASSUME NEW a \in 1..c + 1, NEW b \in 1..c + 1, a < b PROVE g[a] < g[b]
      <4> HIDE DEF g
      <4>1. a \in 1..c BY <2>2, <3>5, <3>7
      <4>2. CASE b = c + 1
        <5>1. g[a] \in 1..m BY <2>1, <3>3, <4>1
        <5> QED BY <1>2, <3>4, <4>2, <5>1
      <4>3. CASE b \in 1..c BY <2>3, <3>3, <3>7, <4>1, <4>3 DEF Rises
      <4> QED BY <3>5, <4>2, <4>3
    <3>8. Rises(g, c + 1) BY <3>7 DEF Rises
    <3> QED BY <3>2, <3>6, <3>8
  <2> QED BY <2>4, <2>5
<1> HIDE DEF G
<1>3. n \in G BY <1>1, <1>2, NatSetInduction
<1> QED BY <1>0, <1>3 DEF G

=============================================================================
