------------------------------- MODULE FoldLemmas -------------------------------
(***************************************************************************)
(* Induction over finite sets and naturals, in the form the proofs of this *)
(* project use it (a least counterexample), and the sums they need: a sum  *)
(* is what the folds of the community modules make of a function and a     *)
(* finite set.                                                             *)
(***************************************************************************)
EXTENDS Integers, FiniteSets, FiniteSetTheorems, FunctionTheorems, WellFoundedInduction, TLAPS

-----------------------------------------------------------------------------
(* Least and greatest members *)

\* Every set of naturals that is not empty has a least member.
LEMMA LeastNat ==
  ASSUME NEW S, S \subseteq Nat, S # {}
  PROVE  \E m \in S : \A n \in S : m <= n
<1> DEFINE R == {ss \in Nat \X Nat : ss[1] < ss[2]}
<1>1. PICK m \in S : \A n \in S : <<n, m>> \notin R
  <2>1. IsWellFoundedOn(R, Nat)
    BY NatLessThanWellFounded DEF OpToRel
  <2> HIDE DEF R
  <2>2. QED
    BY <2>1, WFMin
<1>2. ASSUME NEW n \in S PROVE m <= n
  <2>1. m \in Nat /\ n \in Nat /\ <<n, m>> \notin R
    BY <1>1
  <2>2. ~(n < m)
    BY <2>1
  <2>3. QED
    BY <2>1, <2>2
<1>3. QED
  BY <1>2

-----------------------------------------------------------------------------
(* Sums over finite sets *)

\* Every family of subsets of a finite set has a least member: the form in which
\* induction over finite sets is used here.
LEMMA LeastSubset ==
  ASSUME NEW S, IsFiniteSet(S), NEW F, F \subseteq SUBSET S, F # {}
  PROVE  \E A \in F : \A B \in F : ~(B \subseteq A /\ B # A)
<1> DEFINE R == StrictSubsetOrdering(S)
<1>1. IsWellFoundedOn(R, SUBSET S)
  BY FS_StrictSubsetOrderingWellFounded, FS_FiniteSubsetsOfFinite
<1>2. \A A, B \in SUBSET S : B \subseteq A /\ B # A => <<B, A>> \in R
  BY DEF StrictSubsetOrdering
<1> HIDE DEF R
<1>3. PICK A \in F : \A B \in F : ~(<<B, A>> \in R)
  BY <1>1, WFMin
<1> QED
  BY <1>2, <1>3

\* The element a fold takes first.
Chosen(s) == CHOOSE x \in s : TRUE

\* A chosen element is an element.
LEMMA ChosenIn == \A s : s # {} => Chosen(s) \in s
BY DEF Chosen

\* g tells the sum of w over every subset of S.
IsSum(g, w, S) ==
  g = [s \in SUBSET S |-> IF s = {} THEN 0 ELSE w[Chosen(s)] + g[s \ {Chosen(s)}]]

\* A row of a table of sums.
LEMMA SumRow ==
  ASSUME NEW S, NEW w, NEW g, IsSum(g, w, S), NEW s \in SUBSET S
  PROVE  g[s] = IF s = {} THEN 0 ELSE w[Chosen(s)] + g[s \ {Chosen(s)}]
BY DEF IsSum

\* Two tables of sums agree wherever both have a row.
LEMMA SumUnique ==
  ASSUME NEW S, IsFiniteSet(S), NEW T, NEW w, NEW g, IsSum(g, w, S), NEW h, IsSum(h, w, T),
         NEW r, r \subseteq S, r \subseteq T
  PROVE  g[r] = h[r]
<1> DEFINE Bad == {s \in SUBSET S : s \subseteq T /\ g[s] # h[s]}
<1> SUFFICES ASSUME Bad # {} PROVE FALSE
  OBVIOUS
<1>1. PICK s \in Bad : \A B \in Bad : ~(B \subseteq s /\ B # s)
  <2>1. Bad \subseteq SUBSET S
    OBVIOUS
  <2> HIDE DEF Bad
  <2> QED
    BY <2>1, LeastSubset
<1>2. g[s] = IF s = {} THEN 0 ELSE w[Chosen(s)] + g[s \ {Chosen(s)}]
  BY SumRow
<1>3. h[s] = IF s = {} THEN 0 ELSE w[Chosen(s)] + h[s \ {Chosen(s)}]
  <2>1. s \in SUBSET T
    OBVIOUS
  <2> QED
    BY <2>1, SumRow
<1>4. s # {}
  BY <1>2, <1>3
<1>5. s \ {Chosen(s)} \notin Bad
  BY <1>1, <1>4, ChosenIn
<1>6. g[s \ {Chosen(s)}] = h[s \ {Chosen(s)}]
  BY <1>5
<1> QED
  BY <1>2, <1>3, <1>6

\* Every finite set has a table of sums.
LEMMA SumExists ==
  ASSUME NEW S, IsFiniteSet(S), NEW w
  PROVE  \E g : IsSum(g, w, S)
<1> DEFINE Bad == {T \in SUBSET S : ~\E g : IsSum(g, w, T)}
<1> SUFFICES ASSUME Bad # {} PROVE FALSE
  OBVIOUS
<1>1. PICK T \in Bad : \A B \in Bad : ~(B \subseteq T /\ B # T)
  <2>1. Bad \subseteq SUBSET S
    OBVIOUS
  <2> HIDE DEF Bad
  <2> QED
    BY <2>1, LeastSubset
<1> DEFINE Table(U) == CHOOSE g : IsSum(g, w, U)
           Val(U) == Table(U)[U]
           G == [s \in SUBSET T |-> IF s = {} THEN 0 ELSE w[Chosen(s)] + Val(s \ {Chosen(s)})]
<1>2. ASSUME NEW U, U \subseteq T, U # T PROVE IsSum(Table(U), w, U) /\ IsFiniteSet(U)
  <2>1. U \in SUBSET S /\ U \notin Bad
    BY <1>1, <1>2
  <2>2. \E g : IsSum(g, w, U)
    BY <2>1
  <2> QED
    BY <2>1, <2>2, FS_Subset
<1>3. ASSUME NEW s, s \subseteq T, s # {} PROVE G[s \ {Chosen(s)}] = Val(s \ {Chosen(s)})
  <2> DEFINE U == s \ {Chosen(s)}
             V == U \ {Chosen(U)}
  <2>1. U \subseteq T /\ U # T
    BY <1>3, ChosenIn
  <2>2. Val(U) = IF U = {} THEN 0 ELSE w[Chosen(U)] + Table(U)[V]
    <3>1. IsSum(Table(U), w, U) /\ U \in SUBSET U
      BY <1>2, <2>1
    <3> HIDE DEF Table, U
    <3> QED
      BY <3>1, SumRow
  <2>3. G[U] = IF U = {} THEN 0 ELSE w[Chosen(U)] + Val(V)
    BY <2>1
  <2>4. V \subseteq T /\ V # T /\ V \subseteq U
    BY <2>1
  <2>5. Table(U)[V] = Val(V)
    <3>1. IsSum(Table(U), w, U) /\ IsSum(Table(V), w, V) /\ IsFiniteSet(V)
      BY <1>2, <2>1, <2>4
    <3> HIDE DEF Table, U, V
    <3> QED
      BY <3>1, <2>4, SumUnique
  <2> HIDE DEF Val, G, V
  <2> QED
    BY <2>2, <2>3, <2>5
<1>4. G = [s \in SUBSET T |-> IF s = {} THEN 0 ELSE w[Chosen(s)] + G[s \ {Chosen(s)}]]
  <2> HIDE DEF Val
  <2>1. \A s \in SUBSET T : G[s] = IF s = {} THEN 0 ELSE w[Chosen(s)] + G[s \ {Chosen(s)}]
    <3> SUFFICES ASSUME NEW s \in SUBSET T
                 PROVE G[s] = IF s = {} THEN 0 ELSE w[Chosen(s)] + G[s \ {Chosen(s)}]
      OBVIOUS
    <3>1. s # {} => G[s \ {Chosen(s)}] = Val(s \ {Chosen(s)})
      BY <1>3
    <3> QED BY <3>1
  <2>2. G = [s \in SUBSET T |-> G[s]]
    OBVIOUS
  <2> HIDE DEF G
  <2> QED
    BY <2>1, <2>2
<1>5. IsSum(G, w, T)
  <2> HIDE DEF G
  <2> QED BY <1>4 DEF IsSum
<1> QED
  BY <1>5

\* The sum of w over S.
Sum(w, S) == (CHOOSE g : IsSum(g, w, S))[S]

\* The sum of a finite set, by the element chosen first.
LEMMA SumStep ==
  ASSUME NEW S, IsFiniteSet(S), NEW w
  PROVE  Sum(w, S) = IF S = {} THEN 0 ELSE w[Chosen(S)] + Sum(w, S \ {Chosen(S)})
<1> DEFINE g == CHOOSE f : IsSum(f, w, S)
           V == S \ {Chosen(S)}
           h == CHOOSE f : IsSum(f, w, V)
<1>1. IsFiniteSet(V)
  BY FS_Subset
<1>2. IsSum(g, w, S) /\ IsSum(h, w, V)
  BY <1>1, SumExists
<1>3. Sum(w, S) = g[S] /\ Sum(w, V) = h[V]
  BY DEF Sum
<1> HIDE DEF g, h
<1>4. g[S] = IF S = {} THEN 0 ELSE w[Chosen(S)] + g[V]
  <2>1. S \in SUBSET S
    OBVIOUS
  <2>2. IsSum(g, w, S)
    BY <1>2
  <2> QED
    BY <2>1, <2>2, SumRow
<1>5. g[V] = h[V]
  <2> HIDE DEF V
  <2>1. V \subseteq S
    BY DEF V
  <2> QED BY <1>1, <1>2, <2>1, SumUnique
<1> QED
  BY <1>3, <1>4, <1>5

\* Sums of integers are integers.
LEMMA SumType ==
  ASSUME NEW U, NEW w \in [U -> Int], NEW S, IsFiniteSet(S), S \subseteq U
  PROVE  Sum(w, S) \in Int
<1> DEFINE Bad == {T \in SUBSET S : Sum(w, T) \notin Int}
<1> SUFFICES ASSUME Bad # {} PROVE FALSE
  OBVIOUS
<1>1. PICK T \in Bad : \A B \in Bad : ~(B \subseteq T /\ B # T)
  <2>1. Bad \subseteq SUBSET S
    OBVIOUS
  <2> HIDE DEF Bad
  <2> QED
    BY <2>1, LeastSubset
<1>2. IsFiniteSet(T)
  BY FS_Subset
<1>3. Sum(w, T) = IF T = {} THEN 0 ELSE w[Chosen(T)] + Sum(w, T \ {Chosen(T)})
  BY <1>2, SumStep
<1>4. T # {} /\ Chosen(T) \in T
  BY <1>3, ChosenIn
<1>5. T \ {Chosen(T)} \notin Bad
  BY <1>1, <1>4
<1> QED
  BY <1>3, <1>4, <1>5

\* Any element may be taken out of a sum, not only the one chosen first: the sum
\* does not depend on the order.
LEMMA SumSplit ==
  ASSUME NEW U, NEW w \in [U -> Int], NEW S, IsFiniteSet(S), S \subseteq U, NEW x \in S
  PROVE  Sum(w, S) = w[x] + Sum(w, S \ {x})
<1> DEFINE Splits(T, y) == Sum(w, T) = w[y] + Sum(w, T \ {y})
           Bad == {T \in SUBSET S : \E y \in T : ~Splits(T, y)}
<1> SUFFICES Bad = {}
  OBVIOUS
<1> SUFFICES ASSUME Bad # {} PROVE FALSE
  OBVIOUS
<1>1. PICK T \in Bad : \A B \in Bad : ~(B \subseteq T /\ B # T)
  <2>1. Bad \subseteq SUBSET S
    OBVIOUS
  <2> HIDE DEF Bad
  <2> QED
    BY <2>1, LeastSubset
<1>2. PICK y \in T : ~Splits(T, y)
  OBVIOUS
<1> DEFINE c == Chosen(T)
<1>3. c \in T
  BY <1>2, ChosenIn
<1>4. \A B \in SUBSET S : Sum(w, B) \in Int /\ IsFiniteSet(B)
  BY FS_Subset, SumType
<1>5. Splits(T, c)
  BY <1>2, <1>4, SumStep
<1>6. y # c
  BY <1>2, <1>5
<1>7. T \ {c} \notin Bad /\ T \ {y} \notin Bad
  BY <1>1, <1>2, <1>3
<1>8. Splits(T \ {c}, y) /\ Splits(T \ {y}, c)
  BY <1>2, <1>3, <1>6, <1>7
<1>9. (T \ {c}) \ {y} = (T \ {y}) \ {c}
  OBVIOUS
<1> DEFINE rest == (T \ {y}) \ {c}
<1>10. /\ w[y] \in Int /\ w[c] \in Int
       /\ Sum(w, T \ {c}) \in Int /\ Sum(w, T \ {y}) \in Int /\ Sum(w, rest) \in Int
  BY <1>3, <1>4
<1>11. /\ Sum(w, T) = w[c] + Sum(w, T \ {c})
       /\ Sum(w, T \ {c}) = w[y] + Sum(w, rest)
       /\ Sum(w, T \ {y}) = w[c] + Sum(w, rest)
  BY <1>5, <1>8, <1>9
<1>12. Sum(w, T) # w[y] + Sum(w, T \ {y})
  BY <1>2
<1> HIDE DEF c, rest
<1> QED
  BY <1>10, <1>11, <1>12

\* A new element adds its value.
LEMMA SumInsert ==
  ASSUME NEW U, NEW w \in [U -> Int], NEW S, IsFiniteSet(S), S \subseteq U, NEW x \in U, x \notin S
  PROVE  Sum(w, S \cup {x}) = Sum(w, S) + w[x]
<1>1. IsFiniteSet(S \cup {x}) /\ S \cup {x} \subseteq U /\ (S \cup {x}) \ {x} = S
  BY FS_AddElement
<1>2. Sum(w, S \cup {x}) = w[x] + Sum(w, S)
  BY <1>1, SumSplit
<1> QED
  BY <1>2, SumType

-----------------------------------------------------------------------------
(* Finite sets of integers *)

\* A finite set of integers that is not empty has a least and a greatest member.
LEMMA FiniteExtremes ==
  ASSUME NEW S, IsFiniteSet(S), S \subseteq Int, S # {}
  PROVE  /\ \E m \in S : \A n \in S : m <= n
         /\ \E m \in S : \A n \in S : n <= m
<1> DEFINE Bounded(T) == /\ \E m \in T : \A n \in T : m <= n
                         /\ \E m \in T : \A n \in T : n <= m
           Bad == {T \in SUBSET S : T # {} /\ ~Bounded(T)}
<1> SUFFICES ASSUME Bad # {} PROVE FALSE
  OBVIOUS
<1>1. PICK T \in Bad : \A B \in Bad : ~(B \subseteq T /\ B # T)
  <2>1. Bad \subseteq SUBSET S
    OBVIOUS
  <2>2. IsFiniteSet(S) /\ Bad # {}
    OBVIOUS
  <2> HIDE DEF Bad, Bounded
  <2>3. QED
    BY ONLY <2>1, <2>2, LeastSubset
<1>2. PICK x \in T : TRUE
  BY DEF Bad
<1> DEFINE U == T \ {x}
<1>3. x \in Int /\ T \subseteq Int /\ T = U \cup {x} /\ ~Bounded(T)
  BY <1>2
<1>4. CASE U = {}
  BY <1>3, <1>4
<1>5. CASE U # {}
  <2>1. Bounded(U)
    <3> HIDE DEF Bounded
    <3>1. U \subseteq T /\ U # T /\ U \in SUBSET S
      BY <1>1, <1>2
    <3>2. U \notin Bad
      BY <1>1, <3>1
    <3>3. QED
      BY <1>5, <3>1, <3>2
  <2> HIDE DEF U
  <2>2. PICK a \in U, b \in U : \A n \in U : a <= n /\ n <= b
    BY <2>1
  <2>3. \E m \in T : \A n \in T : m <= n
    <3>1. CASE a <= x
      BY <1>3, <2>2, <3>1
    <3>2. CASE ~(a <= x)
      BY <1>3, <2>2, <3>2
    <3>3. QED
      BY <3>1, <3>2
  <2>4. \E m \in T : \A n \in T : n <= m
    <3>1. CASE x <= b
      BY <1>3, <2>2, <3>1
    <3>2. CASE ~(x <= b)
      BY <1>3, <2>2, <3>2
    <3>3. QED
      BY <3>1, <3>2
  <2>5. QED
    BY <1>3, <2>3, <2>4
<1>6. QED
  BY <1>4, <1>5

\* The values a function takes on a finite set are finitely many.
LEMMA FiniteImage ==
  ASSUME NEW S, IsFiniteSet(S), NEW f
  PROVE  IsFiniteSet({f[x] : x \in S})
<1> DEFINE T == {f[x] : x \in S}
           g == [x \in S |-> f[x]]
<1>1. g \in Surjection(S, T)
  BY DEF Surjection
<1> HIDE DEF g, T
<1>2. IsFiniteSet(T)
  BY <1>1, FS_Surjection
<1>3. QED
  BY <1>2 DEF T

\* Sums over functions that agree are equal.
LEMMA SumAgrees ==
  ASSUME NEW S, NEW v, NEW w, \A x \in S : v[x] = w[x]
  PROVE  Sum(v, S) = Sum(w, S)
<1>1. ASSUME NEW g PROVE IsSum(g, v, S) <=> IsSum(g, w, S)
  <2>1. \A s \in SUBSET S : s # {} => v[Chosen(s)] = w[Chosen(s)]
    BY ChosenIn
  <2>2. QED
    BY <2>1 DEF IsSum
<1>2. QED
  BY <1>1 DEF Sum
=============================================================================
