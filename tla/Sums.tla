---------------------------------- MODULE Sums ----------------------------------
(***************************************************************************)
(* Sums over finite sets, as MapThenSumSet of the community modules defines *)
(* them.  Induction over the subsets of a finite set is the minimal element *)
(* of a well-founded order, so that it needs no operator for a parameter.   *)
(***************************************************************************)
EXTENDS Integers, FiniteSetTheorems, WellFoundedInduction, TLAPS

\* The places of a sequence of k.
LEMMA UpTo ==
  ASSUME NEW k \in Nat
  PROVE  IsFiniteSet(1..k) /\ Cardinality(1..k) = k
<1>1. 1 \in Int /\ k \in Int /\ (IF 1 > k THEN 0 ELSE k - 1 + 1) = k
  OBVIOUS
<1> QED
  BY <1>1, FS_Interval

\* What is of every subset of which all smaller ones are, is of them all.
LEMMA SubsetInduction ==
  ASSUME NEW S, IsFiniteSet(S), NEW F,
         \A T \in SUBSET S : (\A U \in SUBSET T : U # T => U \in F) => T \in F
  PROVE  SUBSET S \subseteq F
<1> DEFINE R == StrictSubsetOrdering(S)
           B == (SUBSET S) \ F
<1>1. IsWellFoundedOn(R, SUBSET S)
  BY FS_StrictSubsetOrderingWellFounded, FS_FiniteSubsetsOfFinite
<1>2. \A T, U \in SUBSET S : <<U, T>> \in R <=> U \subseteq T /\ U # T
  BY DEF StrictSubsetOrdering
<1> HIDE DEF R
<1>3. SUFFICES ASSUME B # {} PROVE FALSE
  OBVIOUS
<1>4. B \subseteq SUBSET S
  OBVIOUS
<1> HIDE DEF B
<1>5. PICK T \in B : \A U \in B : <<U, T>> \notin R
  BY <1>1, <1>3, <1>4, WFMin
<1>6. \A U \in SUBSET T : U # T => U \in F
  <2> SUFFICES ASSUME NEW U \in SUBSET T, U # T, U \notin F PROVE FALSE
    OBVIOUS
  <2>1. T \in SUBSET S /\ U \in SUBSET S
    BY <1>4, <1>5
  <2>2. U \in B
    BY <2>1 DEF B
  <2>3. <<U, T>> \in R
    BY <1>2, <2>1
  <2> QED
    BY <1>5, <2>2, <2>3
<1> QED
  BY <1>4, <1>5, <1>6 DEF B

-----------------------------------------------------------------------------
(* Totals over the subsets of a finite set                                 *)

\* As MapThenSumSet takes them: one member at a time, whichever CHOOSE gives.
Any(T) == CHOOSE x \in T : TRUE

LEMMA AnyIn == ASSUME NEW T, T # {} PROVE Any(T) \in T
BY DEF Any

\* g is the total of the weights w of each subset of S.
Totals(w, S, g) ==
  /\ g = [T \in SUBSET S |-> g[T]]
  /\ \A T \in SUBSET S : g[T] = IF T = {} THEN 0 ELSE w[Any(T)] + g[T \ {Any(T)}]

\* The same weights on A.
Alike(w, v, A) == \A x \in A : w[x] = v[x]

\* Totals of a set depend on the weights of its members alone.
LEMMA TotalsAgree ==
  ASSUME NEW A, NEW B, IsFiniteSet(A), NEW w, NEW v, NEW g, NEW h, Totals(w, A, g), Totals(v, B, h),
         A \subseteq B, Alike(w, v, A)
  PROVE  \A T \in SUBSET A : g[T] = h[T]
<1> DEFINE F == {T \in SUBSET A : g[T] = h[T]}
<1>1. ASSUME NEW T \in SUBSET A, \A U \in SUBSET T : U # T => U \in F
      PROVE  T \in F
  <2>1. CASE T = {}
    BY <2>1 DEF Totals
  <2>2. CASE T # {}
    <3>1. Any(T) \in T
      BY <2>2, AnyIn
    <3>2. T \ {Any(T)} \in F
      BY <1>1, <3>1
    <3>3. T \in SUBSET B /\ w[Any(T)] = v[Any(T)]
      BY <3>1 DEF Alike
    <3> QED
      BY <2>2, <3>2, <3>3 DEF Totals
  <2> QED
    BY <2>1, <2>2
<1> HIDE DEF F
<1>2. SUBSET A \subseteq F
  BY <1>1, SubsetInduction
<1> QED
  BY <1>2 DEF F

LEMMA TotalsExist ==
  ASSUME NEW S, IsFiniteSet(S), NEW w
  PROVE  \E g : Totals(w, S, g)
<1> DEFINE F == {T \in SUBSET S : \E g : Totals(w, T, g)}
           Of(T) == CHOOSE g : Totals(w, T, g)
<1>1. ASSUME NEW T \in SUBSET S, \A U \in SUBSET T : U # T => U \in F
      PROVE  T \in F
  <2>1. \A U \in SUBSET T : U # T => Totals(w, U, Of(U)) /\ IsFiniteSet(U)
    <3>1. \A U \in SUBSET T : U # T => \E g : Totals(w, U, g)
      BY <1>1
    <3>2. \A U \in SUBSET T : IsFiniteSet(U)
      BY FS_Subset
    <3> QED
      BY <3>1, <3>2
  <2> DEFINE up == IF T = {} THEN 0 ELSE w[Any(T)] + Of(T \ {Any(T)})[T \ {Any(T)}]
             g == [U \in SUBSET T |-> IF U = T THEN up ELSE Of(U)[U]]
  <2> HIDE DEF Of
  <2>2. ASSUME NEW U \in SUBSET T
        PROVE  g[U] = IF U = {} THEN 0 ELSE w[Any(U)] + g[U \ {Any(U)}]
    <3>1. CASE U = T
      <4>1. T # {} => T \ {Any(T)} # T
        BY AnyIn
      <4> QED
        BY <3>1, <4>1
    <3>2. CASE U # T
      <4>1. CASE U = {}
        BY <2>1, <3>2, <4>1 DEF Totals
      <4>2. CASE U # {}
        <5> DEFINE V == U \ {Any(U)}
        <5>1. Any(U) \in U
          BY <4>2, AnyIn
        <5>2. V \in SUBSET U /\ V \in SUBSET T /\ V # T
          BY <3>2, <5>1
        <5>3. Of(U)[U] = w[Any(U)] + Of(U)[V]
          BY <2>1, <3>2, <4>2 DEF Totals
        <5>4. Of(V)[V] = Of(U)[V]
          <6>1. Totals(w, V, Of(V)) /\ Totals(w, U, Of(U)) /\ IsFiniteSet(V)
            BY <2>1, <3>2, <5>2
          <6>2. Alike(w, w, V)
            BY DEF Alike
          <6> HIDE DEF V
          <6> QED
            BY <5>2, <6>1, <6>2, TotalsAgree
        <5>5. g[U] = Of(U)[U] /\ g[V] = Of(V)[V]
          BY <3>2, <5>2
        <5> QED
          BY <4>2, <5>3, <5>4, <5>5
      <4> QED
        BY <4>1, <4>2
    <3> QED
      BY <3>1, <3>2
  <2>3. g = [U \in SUBSET T |-> g[U]]
    OBVIOUS
  <2> HIDE DEF g
  <2>4. Totals(w, T, g)
    BY <2>2, <2>3 DEF Totals
  <2> QED
    BY <2>4
<1> HIDE DEF F
<1>2. S \in F
  BY <1>1, SubsetInduction
<1> QED
  BY <1>2 DEF F

LEMMA TotalIsNat ==
  ASSUME NEW S, IsFiniteSet(S), NEW w \in [S -> Nat], NEW g, Totals(w, S, g)
  PROVE  \A T \in SUBSET S : g[T] \in Nat
<1> DEFINE F == {T \in SUBSET S : g[T] \in Nat}
<1>1. ASSUME NEW T \in SUBSET S, \A U \in SUBSET T : U # T => U \in F
      PROVE  T \in F
  <2>1. CASE T = {}
    <3>1. g[T] = 0
      BY <2>1 DEF Totals
    <3> QED
      BY <3>1
  <2>2. CASE T # {}
    <3>1. Any(T) \in T
      BY <2>2, AnyIn
    <3>2. T \ {Any(T)} \in F /\ w[Any(T)] \in Nat
      BY <1>1, <3>1
    <3>3. g[T] = w[Any(T)] + g[T \ {Any(T)}]
      BY <2>2 DEF Totals
    <3> QED
      BY <3>2, <3>3
  <2> QED
    BY <2>1, <2>2
<1> HIDE DEF F
<1>2. SUBSET S \subseteq F
  BY <1>1, SubsetInduction
<1> QED
  BY <1>2 DEF F

\* It does not matter which member is taken first.
LEMMA TotalWithout ==
  ASSUME NEW S, IsFiniteSet(S), NEW w \in [S -> Nat], NEW g, Totals(w, S, g)
  PROVE  \A T \in SUBSET S : \A x \in T : g[T] = g[T \ {x}] + w[x]
<1> DEFINE F == {T \in SUBSET S : \A x \in T : g[T] = g[T \ {x}] + w[x]}
<1>1. ASSUME NEW T \in SUBSET S, \A U \in SUBSET T : U # T => U \in F
      PROVE  T \in F
  <2> SUFFICES ASSUME NEW x \in T PROVE g[T] = g[T \ {x}] + w[x]
    OBVIOUS
  <2> DEFINE c == Any(T)
  <2>1. c \in T
    BY AnyIn
  <2>2. g[T] = w[c] + g[T \ {c}]
    BY <2>1 DEF Totals
  <2> HIDE DEF c
  <2>3. w[c] \in Nat /\ w[x] \in Nat /\ \A U \in SUBSET S : g[U] \in Nat
    BY <2>1, TotalIsNat
  <2>4. CASE c = x
    BY <2>2, <2>3, <2>4
  <2>5. CASE c # x
    <3>1. T \ {c} \in F /\ T \ {x} \in F /\ x \in T \ {c} /\ c \in T \ {x}
      BY <1>1, <2>1, <2>5
    <3>2. g[T \ {c}] = g[(T \ {c}) \ {x}] + w[x]
      BY <3>1
    <3>3. g[T \ {x}] = g[(T \ {x}) \ {c}] + w[c]
      BY <3>1
    <3>4. (T \ {c}) \ {x} = (T \ {x}) \ {c} /\ (T \ {c}) \ {x} \in SUBSET S
      OBVIOUS
    <3>5. g[(T \ {c}) \ {x}] \in Nat
      BY <2>3, <3>4
    <3>6. g[(T \ {x}) \ {c}] = g[(T \ {c}) \ {x}]
      BY <3>4
    <3> QED
      BY <2>2, <2>3, <3>2, <3>3, <3>5, <3>6
  <2> QED
    BY <2>4, <2>5
<1> HIDE DEF F
<1>2. SUBSET S \subseteq F
  BY <1>1, SubsetInduction
<1> QED
  BY <1>2 DEF F

LEMMA TotalLess ==
  ASSUME NEW S, IsFiniteSet(S), NEW w \in [S -> Nat], NEW g, Totals(w, S, g), NEW x \in S
  PROVE  g[S] = g[S \ {x}] + w[x]
<1>1. S \in SUBSET S
  OBVIOUS
<1> QED
  BY <1>1, TotalWithout

LEMMA TotalGrows ==
  ASSUME NEW S, IsFiniteSet(S), NEW w \in [S -> Nat], NEW g, Totals(w, S, g),
         NEW B \in SUBSET S, NEW A \in SUBSET B
  PROVE  g[A] <= g[B]
<1> DEFINE F == {T \in SUBSET S : A \subseteq T => g[A] <= g[T]}
<1>1. ASSUME NEW T \in SUBSET S, \A U \in SUBSET T : U # T => U \in F
      PROVE  T \in F
  <2> SUFFICES ASSUME A \subseteq T PROVE g[A] <= g[T]
    OBVIOUS
  <2>1. \A U \in SUBSET S : g[U] \in Nat
    BY TotalIsNat
  <2>2. CASE A = T
    BY <2>1, <2>2
  <2>3. CASE A # T
    <3>1. PICK x \in T : x \notin A
      BY <2>3
    <3>2. T \ {x} \in F /\ A \subseteq T \ {x}
      BY <1>1, <3>1
    <3>3. g[A] <= g[T \ {x}] /\ g[T \ {x}] \in Nat /\ w[x] \in Nat /\ g[A] \in Nat
      BY <2>1, <3>2
    <3>4. g[T] = g[T \ {x}] + w[x]
      BY TotalWithout
    <3> QED
      BY <3>3, <3>4
  <2> QED
    BY <2>2, <2>3
<1> HIDE DEF F
<1>2. SUBSET S \subseteq F
  BY <1>1, SubsetInduction
<1> QED
  BY <1>2 DEF F

\* A part and the rest add up.
LEMMA TotalSplit ==
  ASSUME NEW S, IsFiniteSet(S), NEW w \in [S -> Nat], NEW g, Totals(w, S, g),
         NEW B \in SUBSET S
  PROVE  \A T \in SUBSET B : g[B] = g[T] + g[B \ T]
<1> DEFINE F == {T \in SUBSET S : T \subseteq B => g[B] = g[T] + g[B \ T]}
<1>1. ASSUME NEW T \in SUBSET S, \A U \in SUBSET T : U # T => U \in F
      PROVE  T \in F
  <2> SUFFICES ASSUME T \subseteq B PROVE g[B] = g[T] + g[B \ T]
    OBVIOUS
  <2>1. \A U \in SUBSET S : g[U] \in Nat
    BY TotalIsNat
  <2>2. CASE T = {}
    <3>1. g[T] = 0 /\ B \ T = B
      BY <2>2 DEF Totals
    <3>2. g[B \ T] = g[B] /\ g[B] \in Nat
      BY <2>1, <3>1
    <3> QED
      BY <3>1, <3>2
  <2>3. CASE T # {}
    <3>1. PICK x \in T : TRUE
      BY <2>3
    <3>2. T \ {x} \in F /\ T \ {x} \subseteq B
      BY <1>1
    <3> DEFINE R == B \ (T \ {x})
    <3>3. g[B] = g[T \ {x}] + g[R]
      BY <3>2
    <3>4. R \in SUBSET S /\ x \in R /\ R \ {x} = B \ T
      BY <3>1
    <3> HIDE DEF R
    <3>5. g[R] = g[R \ {x}] + w[x]
      BY <3>4, TotalWithout
    <3>6. g[R \ {x}] = g[B \ T]
      BY <3>4
    <3>7. g[T] = g[T \ {x}] + w[x]
      BY <3>1, TotalWithout
    <3>8. w[x] \in Nat /\ g[T \ {x}] \in Nat /\ g[B \ T] \in Nat
      BY <2>1, <3>1
    <3> QED
      BY <3>3, <3>5, <3>6, <3>7, <3>8
  <2> QED
    BY <2>2, <2>3
<1> HIDE DEF F
<1>2. SUBSET S \subseteq F
  BY <1>1, SubsetInduction
<1> QED
  BY <1>2 DEF F

=============================================================================
