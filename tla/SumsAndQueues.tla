-------------------------------- MODULE SumsAndQueues --------------------------
(***************************************************************************)
(* Facts about folds over finite sets: what the recursion behind           *)
(* SumFunctionOnSet (and behind FoldLeft, in Friends_proofs) computes.     *)
(* The library's induction theorems take a predicate as parameter; here a  *)
(* set stands for it: the subsets, or the numbers, for which it holds.     *)
(***************************************************************************)
EXTENDS Functions, FiniteSetTheorems, SequenceTheorems, TLAPS

-----------------------------------------------------------------------------
(* Induction *)

LEMMA SubsetsWellFounded ==
  ASSUME NEW S, IsFiniteSet(S)
  PROVE  IsWellFoundedOn(StrictSubsetOrdering(S), SUBSET S)
<1>1. FiniteSubsetsOf(S) = SUBSET S
  BY FS_FiniteSubsetsOfFinite
<1>2. IsWellFoundedOn(StrictSubsetOrdering(S), FiniteSubsetsOf(S))
  BY FS_StrictSubsetOrderingWellFounded
<1> QED  BY <1>1, <1>2

\* Subsets are reached from the empty one by adding elements.
LEMMA SubsetInduction ==
  ASSUME NEW S, IsFiniteSet(S), NEW F, {} \in F,
         \A T \in SUBSET S : \A x \in S : T \in F /\ x \notin T => T \cup {x} \in F
  PROVE  S \in F
<1> SUFFICES ASSUME S \notin F PROVE FALSE
  OBVIOUS
<1> DEFINE Bad == {T \in SUBSET S : T \notin F}
<1>1. IsWellFoundedOn(StrictSubsetOrdering(S), SUBSET S)
  BY SubsetsWellFounded
<1>2. Bad \subseteq SUBSET S /\ Bad # {}
  OBVIOUS
<1>3. PICK T \in Bad : \A U \in Bad : <<U, T>> \notin StrictSubsetOrdering(S)
  <2> HIDE DEF Bad
  <2> QED  BY <1>1, <1>2, WFMin
<1>4. PICK x \in T : TRUE
  OBVIOUS
<1>5. <<T \ {x}, T>> \in StrictSubsetOrdering(S)
  BY <1>4 DEF StrictSubsetOrdering
<1>6. T \ {x} \in F
  BY <1>3, <1>5
<1>7. (T \ {x}) \cup {x} = T
  BY <1>4
<1> QED  BY <1>3, <1>4, <1>6, <1>7

\* Numbers are reached from zero by adding one.
LEMMA NumberInduction ==
  ASSUME NEW F, 0 \in F, \A n \in Nat : n \in F => n + 1 \in F
  PROVE  Nat \subseteq F
<1> SUFFICES ASSUME NEW m \in Nat, m \notin F PROVE FALSE
  OBVIOUS
<1> DEFINE Bad == {n \in Nat : n \notin F}
<1>1. Bad \subseteq Nat /\ Bad # {}
  OBVIOUS
<1>2. PICK n \in Bad : \A k \in Bad : <<k, n>> \notin OpToRel(<, Nat)
  <2> HIDE DEF Bad
  <2> QED  BY <1>1, NatLessThanWellFounded, WFMin
<1>3. n \in Nat /\ n # 0
  OBVIOUS
<1>4. n - 1 \in Nat /\ (n - 1) + 1 = n
  BY <1>3
<1>5. <<n - 1, n>> \in OpToRel(<, Nat)
  BY <1>3, <1>4 DEF OpToRel
<1> QED  BY <1>2, <1>4, <1>5

\* What holds of a set once it holds of its strict subsets holds of all of them.
LEMMA StrongInduction ==
  ASSUME NEW S, IsFiniteSet(S), NEW F,
         \A T \in SUBSET S : (\A U \in SUBSET T : U # T => U \in F) => T \in F
  PROVE  SUBSET S \subseteq F
<1> SUFFICES ASSUME NEW X \in SUBSET S, X \notin F PROVE FALSE
  OBVIOUS
<1> DEFINE Bad == {T \in SUBSET S : T \notin F}
<1>1. IsWellFoundedOn(StrictSubsetOrdering(S), SUBSET S)
  BY SubsetsWellFounded
<1>2. Bad \subseteq SUBSET S /\ Bad # {}
  OBVIOUS
<1>3. PICK T \in Bad : \A U \in Bad : <<U, T>> \notin StrictSubsetOrdering(S)
  <2> HIDE DEF Bad
  <2> QED  BY <1>1, <1>2, WFMin
<1>4. ASSUME NEW U \in SUBSET T, U # T PROVE U \in F
  BY <1>3, <1>4 DEF StrictSubsetOrdering
<1> QED  BY <1>3, <1>4

-----------------------------------------------------------------------------
(* The recursion behind SumFunctionOnSet *)

Some(s) == CHOOSE x \in s : TRUE

\* The partial sums g over the subsets of S.
ArePartialSums(g, f, S) ==
  g = [s \in SUBSET S |-> IF s = {} THEN 0 ELSE f[Some(s)] + g[s \ {Some(s)}]]

LEMMA SumIsPartialSum ==
  ASSUME NEW f, NEW S
  PROVE  SumFunctionOnSet(f, S) = (CHOOSE g : ArePartialSums(g, f, S))[S]
BY DEF SumFunctionOnSet, FoldFunctionOnSet, MapThenFoldSet, ArePartialSums, Some

LEMMA PartialSums ==
  ASSUME NEW f, NEW S, NEW g, ArePartialSums(g, f, S), NEW s \in SUBSET S
  PROVE  g[s] = IF s = {} THEN 0 ELSE f[Some(s)] + g[s \ {Some(s)}]
BY DEF ArePartialSums

\* They do not depend on what else may be summed.
LEMMA PartialSumsUnique ==
  ASSUME NEW f, NEW S, NEW T \in SUBSET S, IsFiniteSet(S), NEW g, ArePartialSums(g, f, S),
         NEW h, ArePartialSums(h, f, T), NEW U \in SUBSET T
  PROVE  g[U] = h[U]
<1> DEFINE F == {X \in SUBSET T : g[X] = h[X]}
<1>1. ASSUME NEW X \in SUBSET T, \A Y \in SUBSET X : Y # X => Y \in F
      PROVE  X \in F
  <2>1. CASE X = {}
    BY <2>1, PartialSums
  <2>2. CASE X # {}
    <3> DEFINE Y == X \ {Some(X)}
    <3>1. Some(X) \in X
      BY <2>2 DEF Some
    <3>2. Y \in SUBSET X /\ Y # X
      BY <3>1
    <3>3. g[Y] = h[Y]
      BY <1>1, <3>2
    <3>4. g[X] = f[Some(X)] + g[Y]
      BY <2>2, PartialSums
    <3>5. h[X] = f[Some(X)] + h[Y]
      BY <2>2, PartialSums
    <3> QED  BY <3>3, <3>4, <3>5
  <2> QED  BY <2>1, <2>2
<1>2. IsFiniteSet(T)
  BY FS_Subset
<1>3. SUBSET T \subseteq F
  <2> HIDE DEF F
  <2> QED  BY <1>1, <1>2, StrongInduction
<1> QED  BY <1>3

\* There are such sums, and they are numbers when the summands are.
LEMMA PartialSumsExist ==
  ASSUME NEW S, IsFiniteSet(S), NEW f, \A x \in S : f[x] \in Nat
  PROVE  \E g \in [SUBSET S -> Nat] : ArePartialSums(g, f, S)
<1> DEFINE F == {T \in SUBSET S : \E g \in [SUBSET T -> Nat] : ArePartialSums(g, f, T)}
           H(U) == CHOOSE g : g \in [SUBSET U -> Nat] /\ ArePartialSums(g, f, U)
<1>1. ASSUME NEW T \in SUBSET S, \A U \in SUBSET T : U # T => U \in F
      PROVE  T \in F
  <2>1. CASE T = {}
    <3> DEFINE g == [s \in SUBSET T |-> 0]
    <3>1. g \in [SUBSET T -> Nat]
      OBVIOUS
    <3>2. ArePartialSums(g, f, T)
      BY <2>1 DEF ArePartialSums
    <3> QED  BY <3>1, <3>2
  <2>2. CASE T # {}
    <3>1. ASSUME NEW U \in SUBSET T, U # T
          PROVE  H(U) \in [SUBSET U -> Nat] /\ ArePartialSums(H(U), f, U)
      BY <1>1, <3>1
    <3> DEFINE top == f[Some(T)] + H(T \ {Some(T)})[T \ {Some(T)}]
               g == [U \in SUBSET T |-> IF U = T THEN top ELSE H(U)[U]]
    <3> HIDE DEF H, F
    <3>2. ASSUME NEW U \in SUBSET T, U # {}
          PROVE  Some(U) \in U /\ U \ {Some(U)} \in SUBSET T /\ U \ {Some(U)} # T
      BY <3>2 DEF Some
    <3>3. top \in Nat
      <4> DEFINE R == T \ {Some(T)}
      <4>1. R \in SUBSET T /\ R # T /\ Some(T) \in S
        BY <2>2, <3>2
      <4>2. H(R)[R] \in Nat
        <5> HIDE DEF R
        <5> QED  BY <3>1, <4>1
      <4> QED  BY <4>1, <4>2
    <3>4. g \in [SUBSET T -> Nat]
      <4>1. ASSUME NEW U \in SUBSET T, U # T PROVE H(U)[U] \in Nat
        BY <3>1, <4>1
      <4> HIDE DEF top
      <4> QED  BY <3>3, <4>1
    <3>5. ASSUME NEW U \in SUBSET T
          PROVE  g[U] = IF U = {} THEN 0 ELSE f[Some(U)] + g[U \ {Some(U)}]
      <4> DEFINE R == U \ {Some(U)}
      <4>1. CASE U = {}
        <5>1. g[U] = H(U)[U]
          BY <4>1, <2>2
        <5>2. H(U)[U] = 0
          BY <4>1, <2>2, <3>1, PartialSums
        <5> QED  BY <4>1, <5>1, <5>2
      <4>2. CASE U # {} /\ U = T
        <5>1. g[U] = top
          BY <4>2
        <5>2. g[R] = H(R)[R]
          BY <3>2, <4>2
        <5> QED  BY <4>2, <5>1, <5>2
      <4>3. CASE U # {} /\ U # T
        <5>1. R \in SUBSET U /\ R \in SUBSET T /\ R # T
          BY <3>2, <4>3
        <5>2. g[U] = H(U)[U] /\ g[R] = H(R)[R]
          BY <4>3, <5>1
        <5>3. ArePartialSums(H(U), f, U) /\ ArePartialSums(H(R), f, R)
          BY <3>1, <4>3, <5>1
        <5>4. H(U)[U] = f[Some(U)] + H(U)[R]
          BY <4>3, <5>3, PartialSums
        <5>5. H(U)[R] = H(R)[R]
          <6>1. IsFiniteSet(U)
            BY FS_Subset
          <6> QED  BY <5>1, <5>3, <6>1, PartialSumsUnique
        <5> QED  BY <4>3, <5>2, <5>4, <5>5
      <4> QED  BY <4>1, <4>2, <4>3
    <3>6. ArePartialSums(g, f, T)
      <4> HIDE DEF top
      <4> QED  BY <3>5 DEF ArePartialSums
    <3>7. T \in F
      BY <3>4, <3>6 DEF F
    <3> QED  BY <3>7 DEF F
  <2> QED  BY <2>1, <2>2
<1>2. S \in SUBSET S /\ SUBSET S \subseteq F
  <2> HIDE DEF F
  <2> QED  BY <1>1, StrongInduction
<1> QED  BY <1>2

-----------------------------------------------------------------------------
(* What SumFunctionOnSet computes *)

\* The equation of the partial sums, for the sums themselves.
LEMMA SumOfSome ==
  ASSUME NEW S, IsFiniteSet(S), NEW f, \A x \in S : f[x] \in Nat
  PROVE  /\ SumFunctionOnSet(f, S) \in Nat
         /\ S = {} => SumFunctionOnSet(f, S) = 0
         /\ S # {} => SumFunctionOnSet(f, S)
                        = f[Some(S)] + SumFunctionOnSet(f, S \ {Some(S)})
<1> DEFINE g == CHOOSE h : ArePartialSums(h, f, S)
<1>1. PICK k \in [SUBSET S -> Nat] : ArePartialSums(k, f, S)
  BY PartialSumsExist
<1>2. ArePartialSums(g, f, S)
  BY <1>1
<1>3. SumFunctionOnSet(f, S) = g[S]
  BY SumIsPartialSum
<1> HIDE DEF g
<1>4. g[S] = k[S]
  BY <1>1, <1>2, PartialSumsUnique
<1>5. ASSUME S # {}
      PROVE  SumFunctionOnSet(f, S) = f[Some(S)] + SumFunctionOnSet(f, S \ {Some(S)})
  <2> DEFINE R == S \ {Some(S)}
             h == CHOOSE j : ArePartialSums(j, f, R)
  <2>1. R \in SUBSET S /\ IsFiniteSet(R) /\ \A x \in R : f[x] \in Nat
    BY FS_Subset
  <2>2. \E j \in [SUBSET R -> Nat] : ArePartialSums(j, f, R)
    BY <2>1, PartialSumsExist
  <2>3. ArePartialSums(h, f, R)
    BY <2>2
  <2>4. SumFunctionOnSet(f, R) = h[R]
    BY SumIsPartialSum
  <2> HIDE DEF h
  <2>5. g[R] = h[R]
    <3>1. R \in SUBSET R
      OBVIOUS
    <3> HIDE DEF R
    <3> QED  BY <1>2, <2>1, <2>3, <3>1, PartialSumsUnique
  <2>6. g[S] = f[Some(S)] + g[R]
    BY <1>2, <1>5, PartialSums
  <2> QED  BY <1>3, <2>4, <2>5, <2>6
<1>6. S = {} => g[S] = 0
  BY <1>2, PartialSums
<1> QED  BY <1>1, <1>3, <1>4, <1>5, <1>6

\* Any of the summands may be taken out first.
LEMMA SumOfAny ==
  ASSUME NEW S, IsFiniteSet(S), NEW f, \A x \in S : f[x] \in Nat, NEW y \in S
  PROVE  SumFunctionOnSet(f, S) = f[y] + SumFunctionOnSet(f, S \ {y})
<1> DEFINE F == {T \in SUBSET S :
                   \A z \in T : SumFunctionOnSet(f, T) = f[z] + SumFunctionOnSet(f, T \ {z})}
<1>1. ASSUME NEW T \in SUBSET S, \A U \in SUBSET T : U # T => U \in F,
             NEW z \in T
      PROVE  SumFunctionOnSet(f, T) = f[z] + SumFunctionOnSet(f, T \ {z})
  <2> DEFINE x == Some(T)
  <2>1. x \in T /\ \A U \in SUBSET T : IsFiniteSet(U) /\ \A w \in U : f[w] \in Nat
    BY FS_Subset DEF Some
  <2>2. SumFunctionOnSet(f, T) = f[x] + SumFunctionOnSet(f, T \ {x})
    BY <2>1, SumOfSome
  <2>3. CASE z # x
    <3>1. T \ {x} \in F /\ T \ {z} \in F
      BY <1>1, <2>1
    <3>2. z \in T \ {x} /\ x \in T \ {z} /\ (T \ {x}) \ {z} = (T \ {z}) \ {x}
      BY <2>1, <2>3
    <3> HIDE DEF x
    <3>3. SumFunctionOnSet(f, T \ {x}) = f[z] + SumFunctionOnSet(f, (T \ {x}) \ {z})
      BY <3>1, <3>2
    <3>4. SumFunctionOnSet(f, T \ {z}) = f[x] + SumFunctionOnSet(f, (T \ {x}) \ {z})
      BY <3>1, <3>2
    <3>5. SumFunctionOnSet(f, (T \ {x}) \ {z}) \in Nat /\ f[x] \in Nat /\ f[z] \in Nat
      BY <2>1, SumOfSome
    <3> QED  BY <2>2, <3>3, <3>4, <3>5
  <2> QED  BY <2>2, <2>3
<1>2. SUBSET S \subseteq F
  <2>1. \A T \in SUBSET S : (\A U \in SUBSET T : U # T => U \in F) => T \in F
    BY <1>1
  <2> HIDE DEF F
  <2> QED  BY <2>1, StrongInduction
<1> QED  BY <1>2

LEMMA SumType ==
  ASSUME NEW S, IsFiniteSet(S), NEW f, \A x \in S : f[x] \in Nat
  PROVE  SumFunctionOnSet(f, S) \in Nat
BY SumOfSome

LEMMA SumOfNone == ASSUME NEW f PROVE SumFunctionOnSet(f, {}) = 0
BY FS_EmptySet, SumOfSome

\* The sum of smaller summands is not larger.
LEMMA SumMonotone ==
  ASSUME NEW S, IsFiniteSet(S), NEW f, NEW g,
         \A x \in S : f[x] \in Nat /\ g[x] \in Nat /\ f[x] <= g[x]
  PROVE  SumFunctionOnSet(f, S) <= SumFunctionOnSet(g, S)
<1> DEFINE F == {T \in SUBSET S : SumFunctionOnSet(f, T) <= SumFunctionOnSet(g, T)}
<1>1. {} \in F
  BY SumOfNone
<1>2. ASSUME NEW T \in SUBSET S, NEW x \in S, T \in F, x \notin T
      PROVE  T \cup {x} \in F
  <2>1. IsFiniteSet(T) /\ IsFiniteSet(T \cup {x})
    BY FS_Subset
  <2>2. (T \cup {x}) \ {x} = T
    BY <1>2
  <2>3. SumFunctionOnSet(f, T \cup {x}) = f[x] + SumFunctionOnSet(f, T)
    BY <2>1, <2>2, SumOfAny
  <2>4. SumFunctionOnSet(g, T \cup {x}) = g[x] + SumFunctionOnSet(g, T)
    BY <2>1, <2>2, SumOfAny
  <2>5. SumFunctionOnSet(f, T) \in Nat /\ SumFunctionOnSet(g, T) \in Nat
    BY <2>1, SumType
  <2> QED  BY <1>2, <2>3, <2>4, <2>5
<1>3. S \in F
  <2> HIDE DEF F
  <2> QED  BY <1>1, <1>2, SubsetInduction
<1> QED  BY <1>3

LEMMA SumSame ==
  ASSUME NEW S, IsFiniteSet(S), NEW f, NEW g, \A x \in S : f[x] \in Nat /\ g[x] = f[x]
  PROVE  SumFunctionOnSet(g, S) = SumFunctionOnSet(f, S)
<1>1. SumFunctionOnSet(g, S) <= SumFunctionOnSet(f, S)
  BY SumMonotone
<1>2. SumFunctionOnSet(f, S) <= SumFunctionOnSet(g, S)
  BY SumMonotone
<1>3. SumFunctionOnSet(g, S) \in Nat /\ SumFunctionOnSet(f, S) \in Nat
  BY SumType
<1> QED  BY <1>1, <1>2, <1>3

LEMMA SumOfZeros ==
  ASSUME NEW S, IsFiniteSet(S), NEW f, \A x \in S : f[x] = 0
  PROVE  SumFunctionOnSet(f, S) = 0
<1> DEFINE F == {T \in SUBSET S : SumFunctionOnSet(f, T) = 0}
<1>1. {} \in F
  BY SumOfNone
<1>2. ASSUME NEW T \in SUBSET S, NEW x \in S, T \in F, x \notin T
      PROVE  T \cup {x} \in F
  <2>1. IsFiniteSet(T \cup {x})
    BY FS_Subset
  <2>2. (T \cup {x}) \ {x} = T
    BY <1>2
  <2>3. SumFunctionOnSet(f, T \cup {x}) = f[x] + SumFunctionOnSet(f, T)
    BY <2>1, <2>2, SumOfAny
  <2> QED  BY <1>2, <2>3
<1>3. S \in F
  <2> HIDE DEF F
  <2> QED  BY <1>1, <1>2, SubsetInduction
<1> QED  BY <1>3

\* The sum over two sets that have nothing in common.
LEMMA SumOfParts ==
  ASSUME NEW S, IsFiniteSet(S), NEW f, \A x \in S : f[x] \in Nat, NEW T \in SUBSET S
  PROVE  SumFunctionOnSet(f, S) = SumFunctionOnSet(f, T) + SumFunctionOnSet(f, S \ T)
<1> DEFINE F == {U \in SUBSET T : SumFunctionOnSet(f, (S \ T) \cup U)
                                    = SumFunctionOnSet(f, U) + SumFunctionOnSet(f, S \ T)}
<1>1. ASSUME NEW U \in SUBSET S
      PROVE  IsFiniteSet(U) /\ (\A x \in U : f[x] \in Nat) /\ SumFunctionOnSet(f, U) \in Nat
  BY FS_Subset, SumType
<1>2. {} \in F
  BY <1>1, SumOfNone
<1>3. ASSUME NEW U \in SUBSET T, NEW x \in T, U \in F, x \notin U
      PROVE  U \cup {x} \in F
  <2> DEFINE V == (S \ T) \cup (U \cup {x})
  <2>1. (U \cup {x}) \ {x} = U /\ V \ {x} = (S \ T) \cup U
    BY <1>3
  <2>2. SumFunctionOnSet(f, U \cup {x}) = f[x] + SumFunctionOnSet(f, U)
    BY <1>1, <2>1, SumOfAny
  <2>3. SumFunctionOnSet(f, V) = f[x] + SumFunctionOnSet(f, (S \ T) \cup U)
    <3>1. V \in SUBSET S /\ x \in V
      OBVIOUS
    <3> HIDE DEF V
    <3> QED  BY <1>1, <2>1, <3>1, SumOfAny
  <2>4. f[x] \in Nat /\ SumFunctionOnSet(f, U) \in Nat /\ SumFunctionOnSet(f, S \ T) \in Nat
    BY <1>1
  <2> QED  BY <1>3, <2>2, <2>3, <2>4
<1>4. T \in F
  <2> HIDE DEF F
  <2> QED  BY <1>1, <1>2, <1>3, SubsetInduction
<1>5. (S \ T) \cup T = S
  OBVIOUS
<1> QED  BY <1>4, <1>5

\* A larger summand makes the sum larger by the difference, where it is summed.
LEMMA SumWithMore ==
  ASSUME NEW S, IsFiniteSet(S), NEW f, NEW g, NEW y, NEW e \in Nat,
         \A x \in S : f[x] \in Nat /\ g[x] = IF x = y THEN f[x] + e ELSE f[x]
  PROVE  SumFunctionOnSet(g, S) = SumFunctionOnSet(f, S) + (IF y \in S THEN e ELSE 0)
<1>1. CASE y \notin S
  <2>1. SumFunctionOnSet(g, S) = SumFunctionOnSet(f, S)
    BY <1>1, SumSame
  <2> QED  BY <1>1, <2>1, SumType
<1>2. CASE y \in S
  <2>1. SumFunctionOnSet(g, S) = g[y] + SumFunctionOnSet(g, S \ {y})
    BY <1>2, SumOfAny
  <2>2. SumFunctionOnSet(f, S) = f[y] + SumFunctionOnSet(f, S \ {y})
    BY <1>2, SumOfAny
  <2>3. IsFiniteSet(S \ {y})
    BY FS_Subset
  <2>4. SumFunctionOnSet(g, S \ {y}) = SumFunctionOnSet(f, S \ {y})
    BY <2>3, SumSame
  <2>5. SumFunctionOnSet(f, S \ {y}) \in Nat
    BY <2>3, SumType
  <2> QED  BY <1>2, <2>1, <2>2, <2>4, <2>5
<1> QED  BY <1>1, <1>2

-----------------------------------------------------------------------------
(* Queues of messages: what is in them after a message was added or taken *)

LEMMA InQueue ==
  ASSUME NEW X, NEW s \in Seq(X)
  PROVE  /\ Len(s) \in Nat /\ DOMAIN s = 1..Len(s)
         /\ \A i \in DOMAIN s : i \in Nat /\ s[i] \in X
BY LenProperties, ElementOfSeq

\* t is s with m behind it, at place l.
AddedAt(t, s, m, l) ==
  /\ l \in DOMAIN t /\ t[l] = m /\ l \in Nat
  /\ \A i \in DOMAIN t : i = l \/ (i \in DOMAIN s /\ i < l /\ t[i] = s[i])
  /\ \A i \in DOMAIN s : i \in DOMAIN t /\ t[i] = s[i] /\ i < l

LEMMA Added ==
  ASSUME NEW X, NEW s \in Seq(X), NEW m \in X
  PROVE  Append(s, m) \in Seq(X) /\ AddedAt(Append(s, m), s, m, Len(s) + 1)
<1> DEFINE t == Append(s, m)
<1>1. /\ t \in Seq(X) /\ Len(t) = Len(s) + 1 /\ t[Len(s) + 1] = m
      /\ \A i \in 1..Len(s) : t[i] = s[i]
  BY AppendProperties
<1> HIDE DEF t
<1>2. Len(s) \in Nat /\ DOMAIN s = 1..Len(s) /\ DOMAIN t = 1..(Len(s) + 1)
  BY <1>1, LenProperties
<1>3. AddedAt(t, s, m, Len(s) + 1)
  <2> DEFINE l == Len(s)
  <2>1. l \in Nat /\ DOMAIN s = 1..l /\ DOMAIN t = 1..(l + 1)
    BY <1>2
  <2>2. t[l + 1] = m /\ \A i \in 1..l : t[i] = s[i]
    BY <1>1
  <2> HIDE DEF l
  <2>3. l + 1 \in DOMAIN t /\ l + 1 \in Nat
    BY <2>1
  <2>4. ASSUME NEW i \in DOMAIN t
        PROVE  i = l + 1 \/ (i \in DOMAIN s /\ i < l + 1 /\ t[i] = s[i])
    <3>1. i \in 1..(l + 1)
      BY <2>1
    <3>2. i = l + 1 \/ (i \in 1..l /\ i < l + 1)
      BY <2>1, <3>1
    <3> QED  BY <2>1, <2>2, <3>2
  <2>5. \A i \in DOMAIN s : i \in DOMAIN t /\ t[i] = s[i] /\ i < l + 1
    BY <2>1, <2>2
  <2>6. AddedAt(t, s, m, l + 1)
    BY <2>2, <2>3, <2>4, <2>5 DEF AddedAt
  <2> QED  BY <2>6 DEF l
<1> QED  BY <1>1, <1>3 DEF t

\* t is what is left of s when the first n are gone.
LeftOf(t, s, n) ==
  /\ n \in Nat \ {0} /\ 1 \in DOMAIN s
  /\ \A i \in DOMAIN t : i \in Nat /\ i > 0 /\ i + n \in DOMAIN s /\ t[i] = s[i + n]
  /\ \A i \in DOMAIN s : i > n => i - n \in DOMAIN t

LEMMA Dropped ==
  ASSUME NEW X, NEW s \in Seq(X), NEW n \in 1..Len(s), NEW t, t = SubSeq(s, n + 1, Len(s))
  PROVE  t \in Seq(X) /\ LeftOf(t, s, n)
<1>1. Len(s) \in Nat /\ DOMAIN s = 1..Len(s) /\ n \in Nat
  BY LenProperties
<1>2. \A i \in (n + 1)..Len(s) : s[i] \in X
  BY <1>1, ElementOfSeq
<1>3. /\ t \in Seq(X) /\ Len(t) = IF n + 1 <= Len(s) THEN Len(s) - (n + 1) + 1 ELSE 0
      /\ \A i \in 1..Len(s) - (n + 1) + 1 : t[i] = s[(n + 1) + i - 1]
  <2>1. n + 1 \in Int /\ Len(s) \in Int
    BY <1>1
  <2> QED  BY <1>2, <2>1, SubSeqProperties
<1>4. DOMAIN t = 1..Len(t)
  BY <1>3, LenProperties
<1> DEFINE l == Len(s)
<1>5. l \in Nat /\ n \in 1..l /\ DOMAIN s = 1..l
  BY <1>1
<1>6. Len(t) = IF n + 1 <= l THEN l - (n + 1) + 1 ELSE 0
  BY <1>3
<1> HIDE DEF l
<1>7. Len(t) = l - n
  BY <1>5, <1>6
<1>8. ASSUME NEW i \in DOMAIN t
      PROVE  i \in Nat /\ i > 0 /\ i + n \in DOMAIN s /\ t[i] = s[i + n]
  <2>1. i \in 1..l - n
    BY <1>4, <1>7
  <2>2. i \in Nat /\ i > 0 /\ i + n \in 1..l /\ i \in 1..l - (n + 1) + 1
        /\ (n + 1) + i - 1 = i + n
    BY <1>5, <2>1
  <2>3. t[i] = s[(n + 1) + i - 1]
    BY <1>3, <2>2 DEF l
  <2> QED  BY <1>5, <2>2, <2>3
<1>9. \A i \in DOMAIN s : i > n => i - n \in DOMAIN t
  BY <1>4, <1>5, <1>7
<1>10. 1 \in DOMAIN s /\ n \in Nat \ {0}
  BY <1>5
<1> QED  BY <1>3, <1>8, <1>9, <1>10 DEF LeftOf

\* The same of the first one.
LEMMA FirstDropped ==
  ASSUME NEW X, NEW s \in Seq(X), s # << >>, NEW t, t = Tail(s)
  PROVE  t \in Seq(X) /\ Head(s) = s[1] /\ LeftOf(t, s, 1)
<1>1. Len(s) \in Nat \ {0} /\ DOMAIN s = 1..Len(s)
  BY EmptySeq, LenProperties
<1>2. t = SubSeq(s, 1 + 1, Len(s))
  BY TailIsSubSeq
<1>3. 1 \in 1..Len(s)
  BY <1>1
<1>4. Head(s) = s[1]
  OBVIOUS
<1> QED  BY <1>1, <1>2, <1>3, <1>4, Dropped

LEMMA OneAdded ==
  ASSUME NEW X, NEW s \in Seq(X), NEW m \in X
  PROVE  s \o <<m>> = Append(s, m) /\ s \o (<<m>> \o << >>) = Append(s, m)
<1>1. <<m>> \in Seq(X)
  OBVIOUS
<1> QED  BY <1>1, AppendIsConcat, ConcatEmptySeq

LEMMA TwoAdded ==
  ASSUME NEW X, NEW s \in Seq(X), NEW m \in X, NEW k \in X
  PROVE  s \o (<<m>> \o <<k>>) = Append(Append(s, m), k)
<1>1. <<m>> \in Seq(X) /\ <<k>> \in Seq(X)
  OBVIOUS
<1>2. s \o (<<m>> \o <<k>>) = (s \o <<m>>) \o <<k>>
  BY <1>1, ConcatAssociative
<1>3. s \o <<m>> = Append(s, m) /\ Append(s, m) \in Seq(X)
  BY AppendIsConcat, AppendProperties
<1> QED  BY <1>2, <1>3, AppendIsConcat
=============================================================================
