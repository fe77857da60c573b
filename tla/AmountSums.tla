------------------------------ MODULE AmountSums -------------------------------
(***************************************************************************)
(* Sums of amounts over a finite set of rows, as BalanceIsHistory of module*)
(* Billing takes them.  MapThenSumSet is defined by a recursive function;  *)
(* what it returns is proved here from the recursion, by induction over    *)
(* the subsets of the set.                                                 *)
(***************************************************************************)
EXTENDS Integers, FiniteSets, FiniteSetsExt, FiniteSetTheorems, TLAPS

AmountSum(S) == MapThenSumSet(LAMBDA t : t.amount, S)

First(S) == CHOOSE x \in S : TRUE

(* iter is a function that satisfies the recursion on the subsets of S.    *)
IsIter(iter, S) ==
  iter = [s \in SUBSET S |-> IF s = {} THEN 0 ELSE First(s).amount + iter[s \ {First(s)}]]

(* A recursive function is one that satisfies the recursion, if any does.  *)
LEMMA AmountSumUnfolds == \A S : AmountSum(S) = (CHOOSE iter : IsIter(iter, S))[S]
  BY DEF AmountSum, IsIter, First, MapThenSumSet, MapThenFoldSet

LEMMA FirstInside == \A S : S # {} => First(S) \in S
  BY DEF First

(* Induction over the subsets of a finite set, for the set G of those that *)
(* have a property.                                                        *)
LEMMA SubsetInduction ==
  ASSUME NEW S, IsFiniteSet(S), NEW G,
         \A T \in SUBSET S : (\A U \in SUBSET T : U # T => U \in G) => T \in G
  PROVE  SUBSET S \subseteq G
  <1> DEFINE Bad == {T \in SUBSET S : T \notin G}
  <1>1. IsWellFoundedOn(StrictSubsetOrdering(S), SUBSET S)
    BY FS_StrictSubsetOrderingWellFounded, FS_FiniteSubsetsOfFinite
  <1>2. SUFFICES ASSUME Bad # {}
                 PROVE  FALSE
    OBVIOUS
  <1>3. \E T \in Bad : \A U \in Bad : ~(<<U, T>> \in StrictSubsetOrdering(S))
    <2> Bad \subseteq SUBSET S
      OBVIOUS
    <2> HIDE DEF Bad
    <2> QED  BY <1>1, <1>2, WFMin
  <1>4. PICK T \in Bad : \A U \in Bad : ~(<<U, T>> \in StrictSubsetOrdering(S))
    BY <1>3
  <1>5. ASSUME NEW U \in SUBSET T, U # T
        PROVE  U \in G
    BY <1>4, <1>5 DEF StrictSubsetOrdering
  <1>6. QED  BY <1>4, <1>5

(* What the recursion says about one set. *)
LEMMA IterStep ==
  ASSUME NEW S, NEW iter, IsIter(iter, S), NEW T \in SUBSET S
  PROVE  iter[T] = IF T = {} THEN 0 ELSE First(T).amount + iter[T \ {First(T)}]
  BY DEF IsIter

(* The recursion determines its function, whatever the set it starts from. *)
LEMMA IterUnique ==
  ASSUME NEW S, IsFiniteSet(S), NEW T \in SUBSET S,
         NEW g, IsIter(g, S), NEW h, IsIter(h, T)
  PROVE  g[T] = h[T]
  <1> DEFINE G == {U \in SUBSET T : g[U] = h[U]}
  <1>1. IsFiniteSet(T)
    BY FS_Subset
  <1>2. ASSUME NEW U \in SUBSET T, \A V \in SUBSET U : V # U => V \in G
        PROVE  U \in G
    <2>1. /\ g[U] = IF U = {} THEN 0 ELSE First(U).amount + g[U \ {First(U)}]
          /\ h[U] = IF U = {} THEN 0 ELSE First(U).amount + h[U \ {First(U)}]
      BY IterStep
    <2>2. CASE U = {}
      BY <2>1, <2>2
    <2>3. CASE U # {}
      <3>1. U \ {First(U)} \in G
        BY <1>2, <2>3, FirstInside
      <3>2. QED  BY <2>1, <2>3, <3>1
    <2>4. QED  BY <2>2, <2>3
  <1>3. SUBSET T \subseteq G
    <2> HIDE DEF G
    <2> QED  BY <1>1, <1>2, SubsetInduction
  <1>4. QED  BY <1>3

(* AmountSum is such a function for subsets that have one.                 *)
LEMMA AmountSumOfIter ==
  ASSUME NEW S, IsFiniteSet(S), NEW iter, IsIter(iter, S), NEW T \in SUBSET S,
         \E h : IsIter(h, T)
  PROVE  AmountSum(T) = iter[T]
  <1> DEFINE h == CHOOSE i : IsIter(i, T)
  <1>1. IsIter(h, T)
    OBVIOUS
  <1>2. AmountSum(T) = h[T]
    BY AmountSumUnfolds
  <1> HIDE DEF h
  <1>3. QED  BY <1>1, <1>2, IterUnique

(* There is one for every finite set.                                      *)
LEMMA IterExists ==
  ASSUME NEW S, IsFiniteSet(S)
  PROVE  \A T \in SUBSET S : \E iter : IsIter(iter, T)
  <1> DEFINE G == {T \in SUBSET S : \E iter : IsIter(iter, T)}
  <1>1. ASSUME NEW T \in SUBSET S, \A U \in SUBSET T : U # T => U \in G
        PROVE  T \in G
    <2> DEFINE f == [s \in SUBSET T |->
                       IF s = {} THEN 0 ELSE First(s).amount + AmountSum(s \ {First(s)})]
    <2>1. ASSUME NEW U \in SUBSET T, U # T
          PROVE  f[U] = AmountSum(U)
      <3>1. PICK iter : IsIter(iter, U)
        BY <1>1, <2>1
      <3>2. IsFiniteSet(U)
        BY FS_Subset
      <3>3. AmountSum(U) = iter[U]
        BY <3>1, <3>2, AmountSumOfIter
      <3>4. iter[U] = IF U = {} THEN 0 ELSE First(U).amount + iter[U \ {First(U)}]
        BY <3>1, IterStep
      <3>5. ASSUME U # {}
            PROVE  AmountSum(U \ {First(U)}) = iter[U \ {First(U)}]
        <4>1. U \ {First(U)} \in SUBSET U /\ U \ {First(U)} # T
          BY <2>1, <3>5, FirstInside
        <4>2. \E h : IsIter(h, U \ {First(U)})
          BY <1>1, <4>1
        <4>3. QED  BY <3>1, <3>2, <4>1, <4>2, AmountSumOfIter
      <3>6. QED  BY <3>3, <3>4, <3>5
    <2>2. \A s \in SUBSET T : s # {} => f[s \ {First(s)}] = AmountSum(s \ {First(s)})
      <3> HIDE DEF f
      <3> SUFFICES ASSUME NEW s \in SUBSET T, s # {}
                   PROVE  f[s \ {First(s)}] = AmountSum(s \ {First(s)})
        OBVIOUS
      <3>1. s \ {First(s)} \in SUBSET T /\ s \ {First(s)} # T
        BY FirstInside
      <3>2. QED  BY <2>1, <3>1
    <2>3. IsIter(f, T)
      BY <2>2 DEF IsIter
    <2>4. QED  BY <2>3
  <1>2. SUBSET S \subseteq G
    <2> HIDE DEF G
    <2> QED  BY <1>1, SubsetInduction
  <1>3. QED  BY <1>2

(* The sum of a finite set, taken apart as the recursion does.             *)
LEMMA AmountSumStep ==
  ASSUME NEW S, IsFiniteSet(S)
  PROVE  AmountSum(S) = IF S = {} THEN 0 ELSE First(S).amount + AmountSum(S \ {First(S)})
  <1>1. PICK iter : IsIter(iter, S)
    BY IterExists
  <1>2. \A T \in SUBSET S : AmountSum(T) = iter[T]
    BY <1>1, IterExists, AmountSumOfIter
  <1>3. iter[S] = IF S = {} THEN 0 ELSE First(S).amount + iter[S \ {First(S)}]
    BY <1>1, IterStep
  <1>4. QED  BY <1>2, <1>3

-------------------------------------------------------------------------------
(* The facts that proofs about tables use *)

(* Nothing adds up to 0.                                                   *)
LEMMA AmountSumEmpty == AmountSum({}) = 0
  BY AmountSumStep, FS_EmptySet

(* Integers add up to an integer.                                          *)
LEMMA AmountSumType ==
  ASSUME NEW S, IsFiniteSet(S), \A t \in S : t.amount \in Int
  PROVE  AmountSum(S) \in Int
  <1> DEFINE G == {T \in SUBSET S : AmountSum(T) \in Int}
  <1>1. ASSUME NEW T \in SUBSET S, \A U \in SUBSET T : U # T => U \in G
        PROVE  T \in G
    <2>1. AmountSum(T) = IF T = {} THEN 0 ELSE First(T).amount + AmountSum(T \ {First(T)})
      BY FS_Subset, AmountSumStep
    <2>2. T # {} => First(T).amount \in Int /\ AmountSum(T \ {First(T)}) \in Int
      BY <1>1, FirstInside
    <2>3. QED  BY <2>1, <2>2
  <1>2. SUBSET S \subseteq G
    <2> HIDE DEF G
    <2> QED  BY <1>1, SubsetInduction
  <1>3. QED  BY <1>2

(* Any element may be taken out first.                                     *)
LEMMA AmountSumRemove ==
  ASSUME NEW S, IsFiniteSet(S), \A t \in S : t.amount \in Int
  PROVE  \A x \in S : AmountSum(S) = x.amount + AmountSum(S \ {x})
  <1> DEFINE G == {T \in SUBSET S : \A x \in T : AmountSum(T) = x.amount + AmountSum(T \ {x})}
  <1>1. ASSUME NEW T \in SUBSET S, \A U \in SUBSET T : U # T => U \in G
        PROVE  T \in G
    <2> SUFFICES ASSUME NEW x \in T
                 PROVE  AmountSum(T) = x.amount + AmountSum(T \ {x})
      OBVIOUS
    <2> DEFINE y == First(T)
    <2>1. y \in T /\ AmountSum(T) = y.amount + AmountSum(T \ {y})
      BY FirstInside, FS_Subset, AmountSumStep
    <2> HIDE DEF y
    <2>2. CASE x = y
      BY <2>1, <2>2
    <2>3. CASE x # y
      <3> DEFINE rest == AmountSum((T \ {x}) \ {y})
      <3>1. AmountSum(T \ {y}) = x.amount + rest
        <4>1. (T \ {y}) \ {x} = (T \ {x}) \ {y}
          OBVIOUS
        <4>2. T \ {y} \in G /\ x \in T \ {y}
          BY <1>1, <2>1, <2>3
        <4>3. QED  BY <4>1, <4>2
      <3>2. AmountSum(T \ {x}) = y.amount + rest
        BY <1>1, <2>1, <2>3
      <3>3. rest \in Int
        BY FS_Subset, AmountSumType
      <3>4. x.amount \in Int /\ y.amount \in Int
        BY <2>1
      <3> HIDE DEF rest
      <3>5. QED  BY <2>1, <3>1, <3>2, <3>3, <3>4
    <2>4. QED  BY <2>2, <2>3
  <1>2. SUBSET S \subseteq G
    <2> HIDE DEF G
    <2> QED  BY <1>1, SubsetInduction
  <1>3. QED  BY <1>2

(* A new row adds its amount.                                              *)
LEMMA AmountSumAdd ==
  ASSUME NEW S, IsFiniteSet(S), NEW x, x \notin S, x.amount \in Int,
         \A t \in S : t.amount \in Int
  PROVE  AmountSum(S \union {x}) = AmountSum(S) + x.amount
  <1>1. IsFiniteSet(S \union {x}) /\ (S \union {x}) \ {x} = S
    BY FS_AddElement
  <1>2. AmountSum(S \union {x}) = x.amount + AmountSum(S)
    BY <1>1, AmountSumRemove
  <1>3. QED  BY <1>2, AmountSumType
===============================================================================
