------------------------------ MODULE SumTheorems ------------------------------
(***************************************************************************)
(* Sums over finite sets, and functions defined along the numbers up to n: *)
(* what the proofs about budgets, ledgers, batches and previews need of    *)
(* the folds and recursive functions the models are written with.          *)
(*                                                                         *)
(* The induction is over the subsets of a finite set.  It is stated with a *)
(* set A of the subsets for which a fact holds, not with a predicate as a  *)
(* parameter, and rests on the fact that strict inclusion of finite sets   *)
(* is well-founded.                                                        *)
(***************************************************************************)
EXTENDS Integers, FiniteSets, Functions, FiniteSetTheorems, WellFoundedInduction, TLAPS

-----------------------------------------------------------------------------
(* Induction over the subsets of a finite set *)

\* What holds of a set whenever it holds of its proper subsets holds of all.
LEMMA SubsetInduction ==
  ASSUME NEW S, IsFiniteSet(S), NEW A,
         \A T \in SUBSET S : (\A U \in SUBSET T : U # T => U \in A) => T \in A
  PROVE  \A T \in SUBSET S : T \in A
<1>. DEFINE B == {T \in SUBSET S : T \notin A}
<1>. SUFFICES ASSUME B # {} PROVE FALSE
  OBVIOUS
<1>1. IsWellFoundedOn(StrictSubsetOrdering(S), FiniteSubsetsOf(S))
  BY FS_StrictSubsetOrderingWellFounded
<1>2. B \subseteq FiniteSubsetsOf(S)
  BY FS_Subset DEF FiniteSubsetsOf
<1>3. PICK T \in B : \A U \in B : <<U, T>> \notin StrictSubsetOrdering(S)
  <2>. HIDE DEF B
  <2>. QED
    BY <1>1, <1>2, WFMin
<1>4. T \in SUBSET S /\ T \notin A
  OBVIOUS
<1>5. ASSUME NEW U \in SUBSET T, U # T
      PROVE  U \in A
  <2>1. U \in SUBSET S
    BY <1>4
  <2>2. <<U, T>> \in StrictSubsetOrdering(S)
    BY <1>4, <1>5, <2>1 DEF StrictSubsetOrdering
  <2>. QED
    BY <1>3, <2>1, <2>2
<1>. QED
  BY <1>4, <1>5

-----------------------------------------------------------------------------
(* Sums *)

\* What f adds up to over the set S.
Total(f, S) == FoldFunctionOnSet(LAMBDA x, y : x + y, 0, f, S)

\* The element the fold takes next.
Some(S) == CHOOSE x \in S : TRUE

\* The function the fold is defined by: what f sums to over each set of U.
SumsUp(g, f, U) == g = [s \in U |-> IF s = {} THEN 0 ELSE f[Some(s)] + g[s \ {Some(s)}]]

\* The fold is the value at S of the function that it chooses.
LEMMA TotalIsChosen ==
  ASSUME NEW f, NEW S
  PROVE  Total(f, S) = (CHOOSE g : SumsUp(g, f, SUBSET S))[S]
BY DEF Total, FoldFunctionOnSet, MapThenFoldSet, SumsUp, Some

\* Two functions that sum up f agree on every finite set both are defined for.
LEMMA SumsAgree ==
  ASSUME NEW f, NEW S, IsFiniteSet(S),
         NEW U, NEW V, SUBSET S \subseteq U, SUBSET S \subseteq V,
         NEW g, SumsUp(g, f, U), NEW h, SumsUp(h, f, V)
  PROVE  g[S] = h[S]
<1>. DEFINE A == {T \in SUBSET S : g[T] = h[T]}
<1>1. ASSUME NEW T \in SUBSET S, \A W \in SUBSET T : W # T => W \in A
      PROVE  T \in A
  <2>1. /\ g[T] = IF T = {} THEN 0 ELSE f[Some(T)] + g[T \ {Some(T)}]
        /\ h[T] = IF T = {} THEN 0 ELSE f[Some(T)] + h[T \ {Some(T)}]
    BY DEF SumsUp
  <2>2. T # {} => T \ {Some(T)} \in SUBSET T /\ T \ {Some(T)} # T
    BY DEF Some
  <2>3. T # {} => g[T \ {Some(T)}] = h[T \ {Some(T)}]
    BY <1>1, <2>2
  <2>. QED
    BY <2>1, <2>3
<1>. HIDE DEF A
<1>2. S \in A
  BY <1>1, SubsetInduction
<1>. QED
  BY <1>2 DEF A

\* There is a function that sums up f.
LEMMA SumsExist ==
  ASSUME NEW f, NEW S, IsFiniteSet(S), \A x \in S : f[x] \in Int
  PROVE  \E g \in [SUBSET S -> Int] : SumsUp(g, f, SUBSET S)
<1>. DEFINE A == {T \in SUBSET S : \E g \in [SUBSET T -> Int] : SumsUp(g, f, SUBSET T)}
<1>1. ASSUME NEW T \in SUBSET S, \A U \in SUBSET T : U # T => U \in A
      PROVE  T \in A
  <2>. DEFINE Less(U) == U \ {Some(U)}
              G(U) == CHOOSE g \in [SUBSET U -> Int] : SumsUp(g, f, SUBSET U)
  <2>1. ASSUME NEW U \in SUBSET T, U # {}
        PROVE  /\ f[Some(U)] \in Int /\ Less(U) \in SUBSET T /\ Less(U) \in SUBSET U
               /\ G(Less(U)) \in [SUBSET Less(U) -> Int]
               /\ SumsUp(G(Less(U)), f, SUBSET Less(U))
               /\ IsFiniteSet(Less(U))
    <3>1. Some(U) \in U
      BY <2>1 DEF Some
    <3>2. Less(U) \in SUBSET T /\ Less(U) \in SUBSET U /\ Less(U) # T
      BY <3>1
    <3>. HIDE DEF Less
    <3>3. Less(U) \in A
      BY <1>1, <3>2
    <3>4. \E g \in [SUBSET Less(U) -> Int] : SumsUp(g, f, SUBSET Less(U))
      BY <3>3
    <3>5. IsFiniteSet(Less(U))
      BY <3>2, FS_Subset
    <3>. QED
      BY <3>1, <3>2, <3>4, <3>5
  <2>. HIDE DEF G, Less
  <2>2. PICK h : h = [U \in SUBSET T |-> IF U = {} THEN 0 ELSE f[Some(U)] + G(Less(U))[Less(U)]]
    OBVIOUS
  <2>3. h \in [SUBSET T -> Int]
    <3>1. ASSUME NEW U \in SUBSET T, U # {}
          PROVE  G(Less(U))[Less(U)] \in Int /\ f[Some(U)] \in Int
      BY <2>1, <3>1
    <3>2. ASSUME NEW U \in SUBSET T, U # {}
          PROVE  f[Some(U)] + G(Less(U))[Less(U)] \in Int
      BY <3>1, <3>2
    <3>. QED
      BY <2>2, <3>2
  <2>4. ASSUME NEW U \in SUBSET T, U # {}
        PROVE  h[Less(U)] = G(Less(U))[Less(U)]
    <3>1. PICK W : W = Less(U)
      OBVIOUS
    <3>2. W \in SUBSET T /\ SumsUp(G(W), f, SUBSET W) /\ IsFiniteSet(W)
      BY <2>1, <2>4, <3>1
    <3>3. CASE W = {}
      <4>1. h[W] = 0
        BY <2>2, <3>2, <3>3
      <4>2. G(W)[W] = 0
        BY <3>2, <3>3 DEF SumsUp
      <4>. QED
        BY <3>1, <4>1, <4>2
    <3>4. CASE W # {}
      <4>1. PICK X : X = Less(W)
        OBVIOUS
      <4>2. h[W] = f[Some(W)] + G(X)[X]
        BY <2>2, <3>2, <3>4, <4>1
      <4>3. G(W)[W] = f[Some(W)] + G(W)[X]
        BY <3>2, <3>4, <4>1 DEF SumsUp, Less
      <4>4. /\ X \in SUBSET T /\ X \in SUBSET W /\ SumsUp(G(X), f, SUBSET X) /\ IsFiniteSet(X)
        BY <2>1, <3>2, <3>4, <4>1
      <4>5. G(W)[X] = G(X)[X]
        <5>1. SUBSET X \subseteq SUBSET W
          BY <4>4
        <5>. QED
          BY <3>2, <4>4, <5>1, SumsAgree
      <4>. QED
        BY <3>1, <4>2, <4>3, <4>5
    <3>. QED
      BY <3>3, <3>4
  <2>5. SumsUp(h, f, SUBSET T)
    <3>1. \A U \in SUBSET T : U # {} => h[U] = f[Some(U)] + h[Less(U)]
      BY <2>2, <2>4
    <3>2. {} \in SUBSET T /\ h[{}] = 0
      BY <2>2
    <3>3. h = [U \in SUBSET T |-> h[U]]
      BY <2>3
    <3>4. h = [U \in SUBSET T |-> IF U = {} THEN 0 ELSE f[Some(U)] + h[Less(U)]]
      BY <3>1, <3>2, <3>3
    <3>. QED
      BY <3>4 DEF SumsUp, Less
  <2>. QED
    BY <2>3, <2>5
<1>. HIDE DEF A
<1>2. S \in A
  BY <1>1, SubsetInduction
<1>. QED
  BY <1>2 DEF A

\* The sum over no element.
LEMMA TotalEmpty == ASSUME NEW f PROVE Total(f, {}) = 0
<1>1. PICK g : SumsUp(g, f, SUBSET {})
  BY SumsExist, FS_EmptySet
<1>2. SumsUp(CHOOSE h : SumsUp(h, f, SUBSET {}), f, SUBSET {})
  BY <1>1
<1>. QED
  BY <1>2, TotalIsChosen DEF SumsUp

\* The equation the fold is defined by.
LEMMA TotalChosen ==
  ASSUME NEW f, NEW S, IsFiniteSet(S), \A x \in S : f[x] \in Int, S # {}
  PROVE  Total(f, S) = f[Some(S)] + Total(f, S \ {Some(S)})
<1>. DEFINE G(U) == CHOOSE g : SumsUp(g, f, SUBSET U)
            W == S \ {Some(S)}
<1>1. IsFiniteSet(W) /\ SUBSET W \subseteq SUBSET S
  BY FS_Subset
<1>2. SumsUp(G(S), f, SUBSET S) /\ SumsUp(G(W), f, SUBSET W)
  BY <1>1, SumsExist
<1>3. G(S)[S] = f[Some(S)] + G(S)[W]
  BY <1>2 DEF SumsUp
<1>. HIDE DEF G, W
<1>4. G(S)[W] = G(W)[W]
  BY <1>1, <1>2, SumsAgree
<1>. QED
  BY <1>3, <1>4, TotalIsChosen DEF G, W

\* A sum of integers is an integer.
LEMMA TotalType ==
  ASSUME NEW f, NEW S, IsFiniteSet(S), \A x \in S : f[x] \in Int
  PROVE  Total(f, S) \in Int
<1>1. PICK g \in [SUBSET S -> Int] : SumsUp(g, f, SUBSET S)
  BY SumsExist
<1>2. SumsUp(CHOOSE h : SumsUp(h, f, SUBSET S), f, SUBSET S)
  BY <1>1
<1>3. Total(f, S) = g[S]
  BY <1>1, <1>2, SumsAgree, TotalIsChosen
<1>. QED
  BY <1>3

\* The order of the fold does not matter.
LEMMA TotalAdd ==
  ASSUME NEW f, NEW S, IsFiniteSet(S), \A y \in S : f[y] \in Int,
         NEW x, x \notin S, f[x] \in Int
  PROVE  Total(f, S \cup {x}) = f[x] + Total(f, S)
<1>. DEFINE R == S \cup {x}
            A == {T \in SUBSET R : \A y \in R \ T : Total(f, T \cup {y}) = f[y] + Total(f, T)}
<1>1. IsFiniteSet(R) /\ \A y \in R : f[y] \in Int
  BY FS_AddElement
<1>2. ASSUME NEW T \in SUBSET R, \A U \in SUBSET T : U # T => U \in A, NEW y \in R \ T
      PROVE  Total(f, T \cup {y}) = f[y] + Total(f, T)
  <2>. DEFINE V == T \cup {y}
              c == Some(V)
              W == T \ {c}
  <2>1. V \in SUBSET R /\ V # {} /\ c \in V /\ IsFiniteSet(V) /\ IsFiniteSet(T)
    BY <1>1, FS_Subset DEF Some
  <2>2. Total(f, V) = f[c] + Total(f, V \ {c})
    BY <1>1, <2>1, TotalChosen
  <2>3. CASE c = y
    <3>1. V \ {c} = T
      BY <2>3
    <3>. QED
      BY <2>2, <2>3, <3>1
  <2>4. CASE c # y
    <3>1. /\ c \in T /\ W \in SUBSET T /\ W # T /\ c \in R \ W /\ y \in R \ W
          /\ V \ {c} = W \cup {y} /\ T = W \cup {c}
      BY <2>1, <2>4
    <3>. HIDE DEF V, c, W
    <3>2. W \in A
      BY <1>2, <3>1
    <3>3. Total(f, W \cup {y}) = f[y] + Total(f, W) /\ Total(f, W \cup {c}) = f[c] + Total(f, W)
      BY <3>1, <3>2
    <3>4. Total(f, W) \in Int /\ f[c] \in Int /\ f[y] \in Int
      <4>1. IsFiniteSet(W) /\ \A z \in W : f[z] \in Int
        BY <1>1, <2>1, <3>1, FS_Subset
      <4>. QED
        BY <1>1, <2>1, <3>1, <4>1, TotalType
    <3>5. Total(f, V) = f[c] + (f[y] + Total(f, W)) /\ Total(f, T) = f[c] + Total(f, W)
      BY <2>2, <3>1, <3>3
    <3>6. Total(f, V) = f[y] + Total(f, T)
      BY <3>4, <3>5
    <3>. QED
      BY <3>6 DEF V
  <2>. QED
    BY <2>3, <2>4
<1>3. \A T \in SUBSET R : (\A U \in SUBSET T : U # T => U \in A) => T \in A
  BY <1>2
<1>4. S \in A
  <2>. HIDE DEF A
  <2>. QED
    BY <1>1, <1>3, SubsetInduction
<1>. QED
  BY <1>4

\* Any element may be taken out first.
LEMMA TotalRemove ==
  ASSUME NEW f, NEW S, IsFiniteSet(S), \A y \in S : f[y] \in Int, NEW x \in S
  PROVE  Total(f, S) = f[x] + Total(f, S \ {x})
<1>1. IsFiniteSet(S \ {x}) /\ (S \ {x}) \cup {x} = S
  BY FS_RemoveElement
<1>2. Total(f, (S \ {x}) \cup {x}) = f[x] + Total(f, S \ {x})
  <2>. HIDE <1>1
  <2>1. IsFiniteSet(S \ {x}) /\ x \notin S \ {x}
    BY FS_RemoveElement
  <2>. QED
    BY <2>1, TotalAdd
<1>. QED
  BY <1>1, <1>2

\* Whatever adds up the elements one by one, in any order, is the total.
LEMMA TotalUnique ==
  ASSUME NEW f, NEW S, IsFiniteSet(S), \A x \in S : f[x] \in Int, NEW g, g[{}] = 0,
         \A T \in SUBSET S : T # {} => \E x \in T : g[T] = f[x] + g[T \ {x}]
  PROVE  g[S] = Total(f, S)
<1>. DEFINE A == {T \in SUBSET S : g[T] = Total(f, T)}
<1>1. ASSUME NEW T \in SUBSET S, \A U \in SUBSET T : U # T => U \in A
      PROVE  T \in A
  <2>1. CASE T = {}
    BY <2>1, TotalEmpty
  <2>2. CASE T # {}
    <3>1. PICK x \in T : g[T] = f[x] + g[T \ {x}]
      BY <2>2
    <3>2. IsFiniteSet(T) /\ \A y \in T : f[y] \in Int
      BY FS_Subset
    <3>3. Total(f, T) = f[x] + Total(f, T \ {x})
      BY <3>2, TotalRemove
    <3>4. g[T \ {x}] = Total(f, T \ {x})
      BY <1>1
    <3>. QED
      BY <3>1, <3>3, <3>4
  <2>. QED
    BY <2>1, <2>2
<1>. HIDE DEF A
<1>2. S \in A
  BY <1>1, SubsetInduction
<1>. QED
  BY <1>2 DEF A

\* Only the values on the set count.
LEMMA TotalSame ==
  ASSUME NEW f, NEW g, NEW S, IsFiniteSet(S), \A x \in S : f[x] \in Int /\ f[x] = g[x]
  PROVE  Total(f, S) = Total(g, S)
<1>1. PICK t : t = [T \in SUBSET S |-> Total(f, T)]
  OBVIOUS
<1>2. t[{}] = 0
  BY <1>1, TotalEmpty
<1>3. ASSUME NEW T \in SUBSET S, T # {}
      PROVE  \E x \in T : t[T] = g[x] + t[T \ {x}]
  <2>1. PICK x \in T : TRUE
    BY <1>3
  <2>2. IsFiniteSet(T) /\ \A y \in T : f[y] \in Int
    BY FS_Subset
  <2>3. Total(f, T) = f[x] + Total(f, T \ {x})
    BY <2>2, TotalRemove
  <2>. QED
    BY <1>1, <2>3
<1>4. t[S] = Total(g, S)
  BY <1>2, <1>3, TotalUnique
<1>. QED
  BY <1>1, <1>4

\* The sum over two sets that share no element.
LEMMA TotalUnion ==
  ASSUME NEW f, NEW S, NEW T, IsFiniteSet(S), IsFiniteSet(T), S \cap T = {},
         \A x \in S \cup T : f[x] \in Int
  PROVE  Total(f, S \cup T) = Total(f, S) + Total(f, T)
<1>. DEFINE A == {U \in SUBSET S : Total(f, U \cup T) = Total(f, U) + Total(f, T)}
<1>0. Total(f, T) \in Int
  BY TotalType
<1>1. ASSUME NEW U \in SUBSET S, \A V \in SUBSET U : V # U => V \in A
      PROVE  U \in A
  <2>1. CASE U = {}
    <3>1. U \cup T = T
      BY <2>1
    <3>. QED
      BY <1>0, <2>1, <3>1, TotalEmpty
  <2>2. CASE U # {}
    <3>1. PICK x \in U : TRUE
      BY <2>2
    <3>2. /\ IsFiniteSet(U) /\ IsFiniteSet(U \cup T) /\ IsFiniteSet(U \ {x})
          /\ x \in U \cup T /\ (U \cup T) \ {x} = (U \ {x}) \cup T
          /\ f[x] \in Int
      BY FS_Subset, FS_Union
    <3>3. (\A y \in U : f[y] \in Int) /\ (\A y \in U \cup T : f[y] \in Int)
      OBVIOUS
    <3>4. /\ Total(f, U) = f[x] + Total(f, U \ {x})
          /\ Total(f, U \cup T) = f[x] + Total(f, (U \cup T) \ {x})
      BY <3>2, <3>3, TotalRemove
    <3>5. Total(f, (U \ {x}) \cup T) = Total(f, U \ {x}) + Total(f, T)
      BY <1>1
    <3>6. Total(f, U \ {x}) \in Int
      BY <3>2, <3>3, TotalType
    <3>7. Total(f, U \cup T) = f[x] + (Total(f, U \ {x}) + Total(f, T))
      BY <3>2, <3>4, <3>5, Zenon
    <3>8. Total(f, U \cup T) = Total(f, U) + Total(f, T)
      BY <1>0, <3>2, <3>4, <3>6, <3>7
    <3>. QED
      BY <3>8
  <2>. QED
    BY <2>1, <2>2
<1>. HIDE DEF A
<1>2. S \in A
  BY <1>1, SubsetInduction
<1>. QED
  BY <1>2 DEF A

\* A sum of natural numbers is a natural number.
LEMMA TotalNat ==
  ASSUME NEW f, NEW S, IsFiniteSet(S), \A x \in S : f[x] \in Nat
  PROVE  Total(f, S) \in Nat
<1>. DEFINE A == {T \in SUBSET S : Total(f, T) \in Nat}
<1>1. ASSUME NEW T \in SUBSET S, \A U \in SUBSET T : U # T => U \in A
      PROVE  T \in A
  <2>1. CASE T = {}
    BY <2>1, TotalEmpty
  <2>2. CASE T # {}
    <3>1. PICK x \in T : TRUE
      BY <2>2
    <3>2. IsFiniteSet(T) /\ \A y \in T : f[y] \in Int
      BY FS_Subset
    <3>3. Total(f, T) = f[x] + Total(f, T \ {x})
      BY <3>2, TotalRemove
    <3>4. Total(f, T \ {x}) \in Nat
      BY <1>1
    <3>. QED
      BY <3>3, <3>4
  <2>. QED
    BY <2>1, <2>2
<1>. HIDE DEF A
<1>2. S \in A
  BY <1>1, SubsetInduction
<1>. QED
  BY <1>2 DEF A

\* Less is summed up, over less.
LEMMA TotalLess ==
  ASSUME NEW f, NEW g, NEW S, IsFiniteSet(S), NEW T, T \subseteq S,
         \A x \in S : f[x] \in Nat /\ g[x] \in Nat, \A x \in T : f[x] <= g[x]
  PROVE  Total(f, T) <= Total(g, S)
<1>. DEFINE A == {U \in SUBSET T : Total(f, U) <= Total(g, U)}
<1>1. ASSUME NEW U \in SUBSET T, \A V \in SUBSET U : V # U => V \in A
      PROVE  U \in A
  <2>1. CASE U = {}
    BY <2>1, TotalEmpty
  <2>2. CASE U # {}
    <3>1. PICK x \in U : TRUE
      BY <2>2
    <3>2. IsFiniteSet(U) /\ IsFiniteSet(U \ {x}) /\ \A y \in U : f[y] \in Nat /\ g[y] \in Nat
      BY FS_Subset
    <3>3. /\ Total(f, U) = f[x] + Total(f, U \ {x})
          /\ Total(g, U) = g[x] + Total(g, U \ {x})
      BY <3>2, TotalRemove
    <3>4. Total(f, U \ {x}) <= Total(g, U \ {x})
      BY <1>1
    <3>5. Total(f, U \ {x}) \in Nat /\ Total(g, U \ {x}) \in Nat
      BY <3>2, TotalNat
    <3>6. f[x] \in Nat /\ g[x] \in Nat /\ f[x] <= g[x]
      OBVIOUS
    <3>7. Total(f, U) <= Total(g, U)
      BY <3>3, <3>4, <3>5, <3>6
    <3>. QED
      BY <3>7
  <2>. QED
    BY <2>1, <2>2
<1>2. IsFiniteSet(T) /\ IsFiniteSet(S \ T) /\ T \cup (S \ T) = S /\ T \cap (S \ T) = {}
  BY FS_Subset, FS_Difference
<1>3. Total(f, T) <= Total(g, T)
  <2>. HIDE DEF A
  <2>1. T \in A
    BY <1>1, <1>2, SubsetInduction
  <2>. QED
    BY <2>1 DEF A
<1>4. Total(g, T \cup (S \ T)) = Total(g, T) + Total(g, S \ T)
  <2>1. \A x \in T \cup (S \ T) : g[x] \in Int
    OBVIOUS
  <2>2. IsFiniteSet(T) /\ IsFiniteSet(S \ T) /\ T \cap (S \ T) = {}
    BY <1>2
  <2>. QED
    BY <2>1, <2>2, TotalUnion
<1>5. Total(f, T) \in Nat /\ Total(g, T) \in Nat /\ Total(g, S \ T) \in Nat
  <2>1. (\A x \in T : f[x] \in Nat) /\ (\A x \in T : g[x] \in Nat) /\ (\A x \in S \ T : g[x] \in Nat)
    OBVIOUS
  <2>. QED
    BY <1>2, <2>1, TotalNat
<1>6. Total(g, S) = Total(g, T) + Total(g, S \ T)
  BY <1>2, <1>4
<1>. QED
  BY <1>3, <1>5, <1>6

\* A sum of zeros.
LEMMA TotalZero ==
  ASSUME NEW f, NEW S, IsFiniteSet(S), \A x \in S : f[x] = 0
  PROVE  Total(f, S) = 0
<1>1. PICK t : t = [T \in SUBSET S |-> 0]
  OBVIOUS
<1>2. t[{}] = 0 /\ \A T \in SUBSET S : T # {} => \E x \in T : t[T] = f[x] + t[T \ {x}]
  BY <1>1
<1>3. \A x \in S : f[x] \in Int
  OBVIOUS
<1>4. t[S] = Total(f, S)
  BY <1>2, <1>3, TotalUnique
<1>. QED
  BY <1>1, <1>4

\* One value has grown.
LEMMA TotalRaised ==
  ASSUME NEW f, NEW g, NEW S, IsFiniteSet(S), NEW x \in S, NEW m \in Int,
         \A y \in S : f[y] \in Int, \A y \in S : y # x => g[y] = f[y], g[x] = f[x] + m
  PROVE  Total(g, S) = Total(f, S) + m
<1>1. IsFiniteSet(S \ {x}) /\ (\A y \in S \ {x} : f[y] \in Int /\ f[y] = g[y])
      /\ (\A y \in S : g[y] \in Int)
  BY FS_RemoveElement
<1>2. Total(f, S \ {x}) = Total(g, S \ {x}) /\ Total(f, S \ {x}) \in Int
  BY <1>1, TotalSame, TotalType
<1>3. /\ Total(f, S) = f[x] + Total(f, S \ {x})
      /\ Total(g, S) = g[x] + Total(g, S \ {x})
  BY <1>1, TotalRemove
<1>. QED
  BY <1>2, <1>3
-----------------------------------------------------------------------------
(* Recursion along the numbers up to n *)

\* A set of numbers has a least one.
LEMMA LeastExists ==
  ASSUME NEW S, S \subseteq Nat, S # {}
  PROVE  \E x \in S : \A y \in S : x <= y
<1>. DEFINE T == {0..n : n \in S}
            R == StrictSubsetOrdering(Nat)
<1>1. T \subseteq FiniteSubsetsOf(Nat) /\ T # {}
  <2>1. \A n \in S : 0..n \in SUBSET Nat /\ IsFiniteSet(0..n)
    BY FS_Interval
  <2>. QED
    BY <2>1 DEF FiniteSubsetsOf
<1>2. \E x \in T : \A y \in T : ~(<<y, x>> \in R)
  <2>. HIDE DEF T, R
  <2>1. IsWellFoundedOn(R, FiniteSubsetsOf(Nat))
    BY FS_StrictSubsetOrderingWellFounded DEF R
  <2>. QED
    BY <1>1, <2>1, WFMin, Zenon
<1>3. PICK m \in S : \A y \in T : ~(<<y, 0..m>> \in R)
  BY <1>2
<1>4. ASSUME NEW n \in S, n < m
      PROVE  <<0..n, 0..m>> \in R
  <2>1. 0..n \subseteq 0..m /\ 0..n # 0..m /\ 0..n \subseteq Nat /\ 0..m \subseteq Nat
    <3>1. n \in Nat /\ m \in Nat
      OBVIOUS
    <3>2. m \in 0..m /\ m \notin 0..n
      BY <1>4, <3>1
    <3>. QED
      BY <1>4, <3>1, <3>2
  <2>. QED
    BY <2>1 DEF StrictSubsetOrdering
<1>5. \A n \in S : ~(n < m)
  BY <1>3, <1>4
<1>. QED
  BY <1>5

\* What holds of 0, and of every number up to n if it holds of the one before.
LEMMA UpToInduction ==
  ASSUME NEW n \in Nat, NEW A, 0 \in A, \A i \in 1..n : i - 1 \in A => i \in A
  PROVE  \A i \in 0..n : i \in A
<1>. SUFFICES ASSUME (0..n) \ A # {} PROVE FALSE
  OBVIOUS
<1>1. PICK m \in (0..n) \ A : \A i \in (0..n) \ A : m <= i
  <2>1. (0..n) \ A \subseteq Nat
    OBVIOUS
  <2>. QED
    BY <2>1, LeastExists
<1>2. m # 0 /\ m \in 1..n /\ m - 1 \in 0..n /\ ~ m <= m - 1
  OBVIOUS
<1>3. m - 1 \in A
  BY <1>1, <1>2
<1>. QED
  BY <1>2, <1>3

\* f begins with b and goes on by a step for each number.
IsChain(f, n, b, step) == f = [i \in 0..n |-> IF i = 0 THEN b ELSE step[i][f[i - 1]]]

LEMMA ChainExists ==
  ASSUME NEW n \in Nat, NEW V, NEW b \in V, NEW step \in [1..n -> [V -> V]]
  PROVE  \E f \in [0..n -> V] : IsChain(f, n, b, step)
<1>. DEFINE A == {k \in 0..n : \E f \in [0..k -> V] : IsChain(f, k, b, step)}
<1>1. 0 \in A
  <2>1. PICK f : f = [i \in 0..0 |-> b]
    OBVIOUS
  <2>2. f \in [0..0 -> V]
    BY <2>1
  <2>3. f = [i \in 0..0 |-> IF i = 0 THEN b ELSE step[i][f[i - 1]]]
    BY <2>1
  <2>. QED
    BY <2>2, <2>3 DEF IsChain
<1>2. ASSUME NEW k \in 1..n, k - 1 \in A
      PROVE  k \in A
  <2>1. PICK f \in [0..(k - 1) -> V] : IsChain(f, k - 1, b, step)
    BY <1>2
  <2>2. f[k - 1] \in V /\ k - 1 \in 0..(k - 1)
    OBVIOUS
  <2>3. PICK v \in V : v = step[k][f[k - 1]]
    BY <2>2
  <2>4. PICK g : g = [i \in 0..k |-> IF i = k THEN v ELSE f[i]]
    OBVIOUS
  <2>5. \A i \in 0..k : i # k => i \in 0..(k - 1) /\ (i # 0 => i - 1 \in 0..(k - 1) /\ i - 1 # k)
    OBVIOUS
  <2>6. g \in [0..k -> V]
    BY <2>4, <2>5
  <2>7. \A i \in 0..(k - 1) : g[i] = f[i] /\ f[i] = IF i = 0 THEN b ELSE step[i][f[i - 1]]
    BY <2>1, <2>4 DEF IsChain
  <2>8. ASSUME NEW i \in 0..k PROVE g[i] = IF i = 0 THEN b ELSE step[i][g[i - 1]]
    <3>1. CASE i = k
      <4>1. g[i] = v /\ g[k - 1] = f[k - 1] /\ i # 0
        BY <2>2, <2>4, <2>7, <3>1
      <4>. QED
        BY <2>3, <3>1, <4>1
    <3>2. CASE i # k
      <4>1. i \in 0..(k - 1) /\ (i # 0 => i - 1 \in 0..(k - 1))
        BY <2>5, <3>2
      <4>. QED
        BY <2>7, <4>1
    <3>. QED
      BY <3>1, <3>2
  <2>9. g = [i \in 0..k |-> g[i]]
    BY <2>6
  <2>10. g = [i \in 0..k |-> IF i = 0 THEN b ELSE step[i][g[i - 1]]]
    BY <2>8, <2>9
  <2>11. IsChain(g, k, b, step)
    BY <2>10 DEF IsChain
  <2>12. k \in 0..n
    OBVIOUS
  <2>. QED
    BY <2>6, <2>11, <2>12
<1>3. n \in A
  <2>. HIDE DEF A
  <2>1. \A i \in 1..n : i - 1 \in A => i \in A
    BY <1>2
  <2>2. \A i \in 0..n : i \in A
    BY <1>1, <2>1, UpToInduction
  <2>. QED
    BY <2>2
<1>. QED
  BY <1>3
================================================================================
