----------------------------- MODULE SumTheorems -----------------------------
(***************************************************************************)
(* Facts about the sum of a function over a finite set, the operator       *)
(* SumFunctionOnSet in which the books of modules Ledger and Treasury are  *)
(* kept.                                                                   *)
(*                                                                         *)
(* The sum is a fold, and a fold is a recursive function: that it exists,  *)
(* and that the order of its elements does not matter, takes an induction  *)
(* over finite sets.  The induction theorems of the library take the       *)
(* property as an operator, which first-order provers cannot be given; the *)
(* inductions here are minimal counterexamples instead.  The subsets that  *)
(* lack the property form a set, a smallest member of it would exist, and  *)
(* with one element less it has the property.                              *)
(*                                                                         *)
(* The last section says what module Sorting's lists hold.                 *)
(***************************************************************************)
EXTENDS Integers, Sequences, FiniteSets, Functions, Sorting,
        FiniteSetTheorems, WellFoundedInduction, TLAPS

-----------------------------------------------------------------------------
(* Minimal counterexamples.                                                *)

(* A non-empty set of naturals has a least element. *)
LEMMA LeastNat ==
    ASSUME NEW T \in SUBSET Nat, T # {}
    PROVE  \E m \in T : \A n \in T : m <= n
<1>1. \E m \in T : \A n \in T : ~ (<<n, m>> \in OpToRel(<, Nat))
  BY NatLessThanWellFounded, WFMin
<1>2. PICK m \in T : \A n \in T : ~ (<<n, m>> \in OpToRel(<, Nat))
  BY <1>1
<1>3. \A n \in T : ~ (n < m)
  BY <1>2 DEF OpToRel
<1> QED
  BY <1>3

(* A non-empty set of subsets of a finite set has a smallest member. *)
LEMMA SmallestMember ==
    ASSUME NEW S, IsFiniteSet(S), NEW C \in SUBSET SUBSET S, C # {}
    PROVE  \E s \in C : /\ IsFiniteSet(s)
                        /\ \A x \in s : s \ {x} \notin C
<1> DEFINE sizes == {Cardinality(s) : s \in C}
<1>1. \A s \in C : IsFiniteSet(s) /\ Cardinality(s) \in Nat
  BY FS_Subset, FS_CardinalityType
<1>2. sizes \in SUBSET Nat /\ sizes # {}
  BY <1>1
<1>3. PICK m \in sizes : \A n \in sizes : m <= n
  BY <1>2, LeastNat
<1>4. PICK s \in C : Cardinality(s) = m
  BY <1>3
<1>5. ASSUME NEW x \in s, s \ {x} \in C PROVE FALSE
  <2>1. Cardinality(s \ {x}) = Cardinality(s) - 1
    BY <1>1, FS_RemoveElement
  <2>2. Cardinality(s \ {x}) \in sizes
    BY <1>5
  <2>3. m <= Cardinality(s) - 1
    BY <1>3, <2>1, <2>2
  <2> QED
    BY <1>1, <1>4, <2>3
<1> QED
  BY <1>1, <1>5

-----------------------------------------------------------------------------
(* The recursive function behind a sum.                                    *)

(* The element a fold takes next. *)
NextOf(s) == CHOOSE x \in s : TRUE

(* F adds up f over each set of D, an element at a time. *)
Folded(F, f, D) ==
    F = [s \in D |-> IF s = {} THEN 0 ELSE f[NextOf(s)] + F[s \ {NextOf(s)}]]

(* The subsets of at most n elements. *)
UpTo(S, n) == {s \in SUBSET S : Cardinality(s) <= n}

(* A fold takes an element of the set. *)
LEMMA NextOfIn == ASSUME NEW s, s # {} PROVE NextOf(s) \in s
  BY DEF NextOf

(* Adding up sets of n elements, one can add up those of n + 1. *)
LEMMA FoldedExtends ==
    ASSUME NEW f, NEW S, IsFiniteSet(S), NEW n \in Nat, NEW G, Folded(G, f, UpTo(S, n))
    PROVE  \E H : Folded(H, f, UpTo(S, n + 1))
<1> DEFINE H == [s \in UpTo(S, n + 1) |-> IF s = {} THEN 0 ELSE f[NextOf(s)] + G[s \ {NextOf(s)}]]
<1>1. \A s \in UpTo(S, n) : /\ s \in UpTo(S, n + 1)
                            /\ H[s] = G[s]
  <2> SUFFICES ASSUME NEW s \in UpTo(S, n) PROVE s \in UpTo(S, n + 1) /\ H[s] = G[s]
    OBVIOUS
  <2>1. Cardinality(s) \in Nat
    BY FS_Subset, FS_CardinalityType DEF UpTo
  <2>2. s \in UpTo(S, n + 1)
    BY <2>1 DEF UpTo
  <2>3. G[s] = IF s = {} THEN 0 ELSE f[NextOf(s)] + G[s \ {NextOf(s)}]
    BY Zenon DEF Folded
  <2> QED
    BY <2>2, <2>3
<1>2. \A s \in UpTo(S, n + 1) : s # {} => s \ {NextOf(s)} \in UpTo(S, n)
  <2> SUFFICES ASSUME NEW s \in UpTo(S, n + 1), s # {} PROVE s \ {NextOf(s)} \in UpTo(S, n)
    OBVIOUS
  <2>1. IsFiniteSet(s) /\ Cardinality(s) \in Nat /\ Cardinality(s) <= n + 1
    BY FS_Subset, FS_CardinalityType DEF UpTo
  <2>2. Cardinality(s \ {NextOf(s)}) = Cardinality(s) - 1
    BY <2>1, NextOfIn, FS_RemoveElement
  <2> QED
    BY <2>1, <2>2 DEF UpTo
<1>3. \A s \in UpTo(S, n + 1) : s # {} => H[s \ {NextOf(s)}] = G[s \ {NextOf(s)}]
  BY <1>1, <1>2
<1>4. H = [s \in UpTo(S, n + 1) |-> IF s = {} THEN 0 ELSE f[NextOf(s)] + H[s \ {NextOf(s)}]]
  BY <1>3
<1> QED
  BY <1>4 DEF Folded

(* A function that adds up every subset of a finite set exists. *)
LEMMA FoldedExists ==
    ASSUME NEW f, NEW S, IsFiniteSet(S)
    PROVE  \E F : Folded(F, f, SUBSET S)
<1> DEFINE Bad == {n \in Nat : ~ \E G : Folded(G, f, UpTo(S, n))}
<1>1. Bad = {}
  <2> SUFFICES ASSUME Bad # {} PROVE FALSE
    OBVIOUS
  <2>1. PICK m \in Bad : \A n \in Bad : m <= n
    BY LeastNat
  <2>2. CASE m = 0
    <3>1. UpTo(S, 0) = {{}}
      BY FS_EmptySet, FS_Subset, FS_CardinalityType DEF UpTo
    <3>2. Folded([s \in {{}} |-> 0], f, UpTo(S, 0))
      BY <3>1 DEF Folded
    <3> QED
      BY <2>1, <2>2, <3>2
  <2>3. CASE m # 0
    <3>1. m - 1 \in Nat /\ m - 1 \notin Bad
      BY <2>1, <2>3
    <3>2. PICK G : Folded(G, f, UpTo(S, m - 1))
      BY <3>1
    <3>3. \E H : Folded(H, f, UpTo(S, (m - 1) + 1))
      BY <3>1, <3>2, FoldedExtends
    <3>4. (m - 1) + 1 = m
      BY <2>1
    <3> QED
      BY <2>1, <3>3, <3>4
  <2> QED
    BY <2>2, <2>3
<1>2. Cardinality(S) \in Nat /\ SUBSET S = UpTo(S, Cardinality(S))
  BY FS_Subset, FS_CardinalityType DEF UpTo
<1>3. \E G : Folded(G, f, UpTo(S, Cardinality(S)))
  BY <1>1, <1>2
<1> QED
  BY <1>2, <1>3

(* The partial sums over the subsets of S. *)
Iter(f, S) == CHOOSE F : Folded(F, f, SUBSET S)

(* The partial sums satisfy their recursion. *)
LEMMA IterFolded ==
    ASSUME NEW f, NEW S, IsFiniteSet(S)
    PROVE  Folded(Iter(f, S), f, SUBSET S)
  BY FoldedExists DEF Iter

(* The sum is the partial sum over the whole set. *)
LEMMA SumIter == \A f, S : SumFunctionOnSet(f, S) = Iter(f, S)[S]
  BY DEF SumFunctionOnSet, FoldFunctionOnSet, MapThenFoldSet, Iter, Folded, NextOf

(* The empty partial sum. *)
LEMMA IterEmpty ==
    ASSUME NEW f, NEW S, IsFiniteSet(S)
    PROVE  Iter(f, S)[{}] = 0
<1>1. Folded(Iter(f, S), f, SUBSET S)
  BY IterFolded
<1> QED
  BY <1>1, Zenon DEF Folded

(* A partial sum, with one element taken out. *)
LEMMA IterStep ==
    ASSUME NEW f, NEW S, IsFiniteSet(S), NEW s \in SUBSET S, s # {}
    PROVE  Iter(f, S)[s] = f[NextOf(s)] + Iter(f, S)[s \ {NextOf(s)}]
<1> DEFINE F == Iter(f, S)
<1>1. Folded(F, f, SUBSET S)
  BY IterFolded
<1> HIDE DEF F
<1>2. F[s] = f[NextOf(s)] + F[s \ {NextOf(s)}]
  BY <1>1 DEF Folded
<1> QED
  BY <1>2 DEF F

(* Two functions that agree on a finite set have the same partial sums. *)
LEMMA IterAgree ==
    ASSUME NEW f, NEW g, NEW S, IsFiniteSet(S), NEW T \in SUBSET S,
           \A x \in T : f[x] = g[x]
    PROVE  \A s \in SUBSET T : Iter(f, T)[s] = Iter(g, S)[s]
<1> DEFINE Bad == {s \in SUBSET T : Iter(f, T)[s] # Iter(g, S)[s]}
<1>1. IsFiniteSet(T)
  BY FS_Subset
<1> SUFFICES ASSUME Bad # {} PROVE FALSE
  OBVIOUS
<1>2. PICK s \in Bad : \A x \in s : s \ {x} \notin Bad
  BY <1>1, SmallestMember
<1>3. s # {}
  BY <1>1, IterEmpty
<1>4. NextOf(s) \in s /\ s \ {NextOf(s)} \in SUBSET T
  BY <1>3, NextOfIn
<1>5. Iter(f, T)[s \ {NextOf(s)}] = Iter(g, S)[s \ {NextOf(s)}]
  BY <1>2, <1>4
<1>6. Iter(f, T)[s] = Iter(g, S)[s]
  BY <1>1, <1>3, <1>4, <1>5, IterStep
<1> QED
  BY <1>6

-----------------------------------------------------------------------------
(* Sums.                                                                   *)

(* There is nothing to add up. *)
THEOREM SumEmpty == \A f : SumFunctionOnSet(f, {}) = 0
  BY SumIter, IterEmpty, FS_EmptySet

(* A sum depends on the function's values on the set and on nothing else.  *)
THEOREM SumAgree ==
    ASSUME NEW S, IsFiniteSet(S), NEW f, NEW g, \A x \in S : f[x] = g[x]
    PROVE  SumFunctionOnSet(f, S) = SumFunctionOnSet(g, S)
  BY SumIter, IterAgree

(* A sum, with the element the fold takes first. *)
LEMMA SumPick ==
    ASSUME NEW f, NEW S, IsFiniteSet(S), S # {}
    PROVE  SumFunctionOnSet(f, S) = f[NextOf(S)] + SumFunctionOnSet(f, S \ {NextOf(S)})
<1> DEFINE T == S \ {NextOf(S)}
<1>1. Iter(f, S)[S] = f[NextOf(S)] + Iter(f, S)[T]
  BY IterStep
<1>2. Iter(f, T)[T] = Iter(f, S)[T]
  BY IterAgree
<1> QED
  BY <1>1, <1>2, SumIter

(* Integers add up to an integer. *)
THEOREM SumInt ==
    ASSUME NEW S, IsFiniteSet(S), NEW f, \A x \in S : f[x] \in Int
    PROVE  SumFunctionOnSet(f, S) \in Int
<1> DEFINE Bad == {s \in SUBSET S : SumFunctionOnSet(f, s) \notin Int}
<1> SUFFICES ASSUME Bad # {} PROVE FALSE
  OBVIOUS
<1>1. PICK s \in Bad : IsFiniteSet(s) /\ \A x \in s : s \ {x} \notin Bad
  BY SmallestMember
<1>2. s # {}
  BY SumEmpty
<1>3. NextOf(s) \in s
  BY <1>2, NextOfIn
<1>4. SumFunctionOnSet(f, s \ {NextOf(s)}) \in Int
  BY <1>1, <1>3
<1> QED
  BY <1>1, <1>2, <1>3, <1>4, SumPick

(* The order in which the elements are added does not matter. *)
THEOREM SumRemove ==
    ASSUME NEW S, IsFiniteSet(S), NEW f, \A x \in S : f[x] \in Int, NEW x \in S
    PROVE  SumFunctionOnSet(f, S) = f[x] + SumFunctionOnSet(f, S \ {x})
<1> DEFINE Bad == {s \in SUBSET S :
                      \E y \in s : SumFunctionOnSet(f, s) # f[y] + SumFunctionOnSet(f, s \ {y})}
<1> SUFFICES ASSUME Bad # {} PROVE FALSE
  OBVIOUS
<1>1. PICK s \in Bad : IsFiniteSet(s) /\ \A y \in s : s \ {y} \notin Bad
  BY SmallestMember
<1>2. PICK y \in s : SumFunctionOnSet(f, s) # f[y] + SumFunctionOnSet(f, s \ {y})
  BY <1>1
<1> DEFINE p == NextOf(s)
<1>3. p \in s
  BY NextOfIn
<1>4. SumFunctionOnSet(f, s) = f[p] + SumFunctionOnSet(f, s \ {p})
  BY <1>1, <1>3, SumPick
<1>5. p # y
  BY <1>2, <1>4
<1> HIDE DEF p
<1> DEFINE rest == (s \ {y}) \ {p}
<1>6. (s \ {p}) \ {y} = rest
  OBVIOUS
<1> HIDE DEF rest
<1>7. /\ SumFunctionOnSet(f, s \ {p}) = f[y] + SumFunctionOnSet(f, rest)
      /\ SumFunctionOnSet(f, s \ {y}) = f[p] + SumFunctionOnSet(f, rest)
  <2>1. s \ {p} \notin Bad /\ s \ {y} \notin Bad
    BY <1>1, <1>3
  <2>2. SumFunctionOnSet(f, s \ {p}) = f[y] + SumFunctionOnSet(f, (s \ {p}) \ {y})
    BY <2>1, <1>3, <1>5
  <2>3. SumFunctionOnSet(f, s \ {y}) = f[p] + SumFunctionOnSet(f, (s \ {y}) \ {p})
    BY <2>1, <1>3, <1>5
  <2> QED
    BY <2>2, <2>3, <1>6 DEF rest
<1>8. SumFunctionOnSet(f, rest) \in Int /\ f[p] \in Int /\ f[y] \in Int
  BY <1>1, <1>3, FS_RemoveElement, SumInt DEF rest
<1> HIDE DEF Bad
<1>9. SumFunctionOnSet(f, s) = f[y] + SumFunctionOnSet(f, s \ {y})
  BY <1>4, <1>7, <1>8
<1> QED
  BY <1>2, <1>9
(* One more element. *)
THEOREM SumAdd ==
    ASSUME NEW S, IsFiniteSet(S), NEW x, x \notin S,
           NEW f, \A y \in S \cup {x} : f[y] \in Int
    PROVE  SumFunctionOnSet(f, S \cup {x}) = f[x] + SumFunctionOnSet(f, S)
<1>1. IsFiniteSet(S \cup {x}) /\ (S \cup {x}) \ {x} = S
  BY FS_AddElement
<1> QED
  BY <1>1, SumRemove

(* The function changes at one element. *)
THEOREM SumChange ==
    ASSUME NEW S, IsFiniteSet(S), NEW x \in S,
           NEW f, \A y \in S : f[y] \in Int,
           NEW g, g[x] \in Int, \A y \in S \ {x} : g[y] = f[y]
    PROVE  SumFunctionOnSet(g, S) = SumFunctionOnSet(f, S) + (g[x] - f[x])
<1> DEFINE T == S \ {x}
<1>1. IsFiniteSet(T)
  BY FS_RemoveElement
<1>2. SumFunctionOnSet(g, T) = SumFunctionOnSet(f, T)
  BY <1>1, SumAgree
<1>3. SumFunctionOnSet(f, T) \in Int
  BY <1>1, SumInt
<1>4. /\ SumFunctionOnSet(f, S) = f[x] + SumFunctionOnSet(f, T)
      /\ SumFunctionOnSet(g, S) = g[x] + SumFunctionOnSet(g, T)
  <2>1. \A y \in S : g[y] \in Int
    OBVIOUS
  <2> QED
    BY <2>1, SumRemove
<1> HIDE DEF T
<1> QED
  BY <1>2, <1>3, <1>4

(* Sums add up element by element. *)
THEOREM SumPlus ==
    ASSUME NEW S, IsFiniteSet(S),
           NEW f, \A x \in S : f[x] \in Int,
           NEW g, \A x \in S : g[x] \in Int,
           NEW h, \A x \in S : h[x] = f[x] + g[x]
    PROVE  SumFunctionOnSet(h, S) = SumFunctionOnSet(f, S) + SumFunctionOnSet(g, S)
<1> DEFINE Bad == {s \in SUBSET S :
                      SumFunctionOnSet(h, s) # SumFunctionOnSet(f, s) + SumFunctionOnSet(g, s)}
<1> SUFFICES ASSUME Bad # {} PROVE FALSE
  OBVIOUS
<1>1. PICK s \in Bad : IsFiniteSet(s) /\ \A x \in s : s \ {x} \notin Bad
  BY SmallestMember
<1>2. s # {}
  <2>1. SumFunctionOnSet(h, {}) = SumFunctionOnSet(f, {}) + SumFunctionOnSet(g, {})
    BY SumEmpty
  <2> QED
    BY <2>1
<1>3. PICK x \in s : TRUE
  BY <1>2
<1> DEFINE t == s \ {x}
<1>4. IsFiniteSet(t) /\ t \subseteq S /\ s \subseteq S
  BY <1>1, FS_RemoveElement
<1>5. SumFunctionOnSet(h, t) = SumFunctionOnSet(f, t) + SumFunctionOnSet(g, t)
  BY <1>1
<1>6. /\ SumFunctionOnSet(f, s) = f[x] + SumFunctionOnSet(f, t)
      /\ SumFunctionOnSet(g, s) = g[x] + SumFunctionOnSet(g, t)
      /\ SumFunctionOnSet(h, s) = h[x] + SumFunctionOnSet(h, t)
  <2>1. \A y \in S : h[y] \in Int
    OBVIOUS
  <2> QED
    BY <1>1, <1>4, <2>1, SumRemove
<1>7. SumFunctionOnSet(f, t) \in Int /\ SumFunctionOnSet(g, t) \in Int
  BY <1>4, SumInt
<1>8. f[x] \in Int /\ g[x] \in Int /\ h[x] = f[x] + g[x]
  BY <1>4
<1> HIDE DEF t
<1>9. SumFunctionOnSet(h, s) = SumFunctionOnSet(f, s) + SumFunctionOnSet(g, s)
  BY <1>5, <1>6, <1>7, <1>8
<1> QED
  BY <1>9

(* A sum of nothing but zeros. *)
THEOREM SumZero ==
    ASSUME NEW S, IsFiniteSet(S), NEW f, \A x \in S : f[x] = 0
    PROVE  SumFunctionOnSet(f, S) = 0
<1>1. SumFunctionOnSet(f, S) = SumFunctionOnSet(f, S) + SumFunctionOnSet(f, S)
  <2>1. /\ \A x \in S : f[x] \in Int
        /\ \A x \in S : f[x] = f[x] + f[x]
    OBVIOUS
  <2> QED
    BY <2>1, SumPlus
<1>2. SumFunctionOnSet(f, S) \in Int
  BY SumInt
<1> DEFINE z == SumFunctionOnSet(f, S)
<1> HIDE DEF z
<1>3. z = z + z /\ z \in Int
  BY <1>1, <1>2 DEF z
<1>4. z = 0
  BY <1>3
<1> QED
  BY <1>4 DEF z

(* Naturals add up to a natural, and to at least each of them. *)
THEOREM SumNat ==
    ASSUME NEW S, IsFiniteSet(S), NEW f, \A x \in S : f[x] \in Nat
    PROVE  SumFunctionOnSet(f, S) \in Nat /\ \A x \in S : f[x] <= SumFunctionOnSet(f, S)
<1> DEFINE Bad == {s \in SUBSET S : SumFunctionOnSet(f, s) \notin Nat}
<1>1. Bad = {}
  <2> SUFFICES ASSUME Bad # {} PROVE FALSE
    OBVIOUS
  <2>1. PICK s \in Bad : IsFiniteSet(s) /\ \A x \in s : s \ {x} \notin Bad
    BY SmallestMember
  <2>2. s # {}
    BY SumEmpty
  <2>3. PICK x \in s : TRUE
    BY <2>2
  <2>4. SumFunctionOnSet(f, s \ {x}) \in Nat
    BY <2>1
  <2>5. SumFunctionOnSet(f, s) = f[x] + SumFunctionOnSet(f, s \ {x})
    BY <2>1, SumRemove
  <2> QED
    BY <2>4, <2>5
<1>2. ASSUME NEW x \in S PROVE f[x] <= SumFunctionOnSet(f, S)
  <2>1. SumFunctionOnSet(f, S \ {x}) \in Nat
    BY <1>1
  <2>2. SumFunctionOnSet(f, S) = f[x] + SumFunctionOnSet(f, S \ {x})
    BY SumRemove
  <2>3. f[x] \in Nat
    OBVIOUS
  <2> QED
    BY <2>1, <2>2, <2>3
<1> QED
  BY <1>1, <1>2

(* Smaller terms have a smaller sum. *)
THEOREM SumMonotone ==
    ASSUME NEW S, IsFiniteSet(S),
           NEW f, \A x \in S : f[x] \in Int,
           NEW g, \A x \in S : g[x] \in Int /\ f[x] <= g[x]
    PROVE  SumFunctionOnSet(f, S) <= SumFunctionOnSet(g, S)
<1> DEFINE d == [x \in S |-> g[x] - f[x]]
<1>1. \A x \in S : d[x] \in Nat /\ d[x] \in Int /\ g[x] = f[x] + d[x]
  OBVIOUS
<1> HIDE DEF d
<1>2. SumFunctionOnSet(g, S) = SumFunctionOnSet(f, S) + SumFunctionOnSet(d, S)
  BY <1>1, SumPlus
<1>3. SumFunctionOnSet(d, S) \in Nat
  BY <1>1, SumNat
<1>4. SumFunctionOnSet(f, S) \in Int
  BY SumInt
<1> QED
  BY <1>2, <1>3, <1>4

(* The function gains n at one element. *)
THEOREM SumGain ==
    ASSUME NEW S, IsFiniteSet(S), NEW x \in S, NEW n \in Int,
           NEW f, \A y \in S : f[y] \in Int,
           NEW g, \A y \in S : g[y] = f[y] + (IF y = x THEN n ELSE 0)
    PROVE  SumFunctionOnSet(g, S) = SumFunctionOnSet(f, S) + n
<1>1. g[x] = f[x] + n /\ f[x] \in Int /\ \A y \in S \ {x} : g[y] = f[y]
  OBVIOUS
<1>2. SumFunctionOnSet(g, S) = SumFunctionOnSet(f, S) + (g[x] - f[x])
  BY <1>1, SumChange
<1>3. SumFunctionOnSet(f, S) \in Int
  BY SumInt
<1> QED
  BY <1>1, <1>2, <1>3

(* The sum over a set is the sum over its parts. *)
THEOREM SumParts ==
    ASSUME NEW S, IsFiniteSet(S), NEW f, \A x \in S : f[x] \in Int,
           NEW U, IsFiniteSet(U), NEW k, \A x \in S : k[x] \in U,
           NEW h, \A u \in U : h[u] = SumFunctionOnSet(f, {x \in S : k[x] = u})
    PROVE  SumFunctionOnSet(h, U) = SumFunctionOnSet(f, S)
<1> DEFINE Part(s) == [u \in U |-> SumFunctionOnSet(f, {x \in s : k[x] = u})]
           Bad     == {s \in SUBSET S : SumFunctionOnSet(Part(s), U) # SumFunctionOnSet(f, s)}
<1>1. Bad = {}
  <2> SUFFICES ASSUME Bad # {} PROVE FALSE
    OBVIOUS
  <2>1. PICK s \in Bad : IsFiniteSet(s) /\ \A x \in s : s \ {x} \notin Bad
    BY SmallestMember
  <2>2. s # {}
    <3>1. ASSUME s = {} PROVE FALSE
      <4>1. \A u \in U : Part(s)[u] = 0
        BY <3>1, SumEmpty
      <4>2. SumFunctionOnSet(Part(s), U) = 0
        BY <4>1, SumZero
      <4> QED
        BY <4>2, <3>1, SumEmpty
    <3> QED
      BY <3>1
  <2>3. PICK x \in s : TRUE
    BY <2>2
  <2> DEFINE t == s \ {x}
  <2>4. IsFiniteSet(t) /\ t \subseteq S /\ s \subseteq S /\ x \in S /\ f[x] \in Int
    BY <2>1, FS_RemoveElement
  <2>5. SumFunctionOnSet(Part(t), U) = SumFunctionOnSet(f, t)
    BY <2>1
  <2>6. SumFunctionOnSet(f, s) = f[x] + SumFunctionOnSet(f, t)
    BY <2>1, <2>4, SumRemove
  <2>7. \A u \in U : Part(t)[u] \in Int
    <3> SUFFICES ASSUME NEW u \in U PROVE SumFunctionOnSet(f, {y \in t : k[y] = u}) \in Int
      OBVIOUS
    <3>1. IsFiniteSet({y \in t : k[y] = u})
      BY <2>4, FS_Subset
    <3> QED
      BY <2>4, <3>1, SumInt
  <2>8. \A u \in U : Part(s)[u] = Part(t)[u] + (IF u = k[x] THEN f[x] ELSE 0)
    <3> SUFFICES ASSUME NEW u \in U
                 PROVE  SumFunctionOnSet(f, {y \in s : k[y] = u})
                          = SumFunctionOnSet(f, {y \in t : k[y] = u})
                                + (IF u = k[x] THEN f[x] ELSE 0)
      OBVIOUS
    <3> DEFINE ss == {y \in s : k[y] = u}
               tt == {y \in t : k[y] = u}
    <3>1. SumFunctionOnSet(f, tt) \in Int
      BY <2>7
    <3>2. CASE u = k[x]
      <4>1. x \in ss /\ tt = ss \ {x}
        BY <3>2
      <4>2. IsFiniteSet(ss)
        BY <2>1, FS_Subset
      <4>3. SumFunctionOnSet(f, ss) = f[x] + SumFunctionOnSet(f, tt)
        BY <4>1, <4>2, <2>4, SumRemove
      <4> HIDE DEF ss, tt
      <4>4. SumFunctionOnSet(f, ss) = SumFunctionOnSet(f, tt) + f[x]
        BY <4>3, <3>1, <2>4
      <4> QED
        BY <4>4, <3>2 DEF ss, tt
    <3>3. CASE u # k[x]
      <4>1. ss = tt
        BY <3>3
      <4> HIDE DEF ss, tt
      <4>2. SumFunctionOnSet(f, ss) = SumFunctionOnSet(f, tt) + 0
        BY <4>1, <3>1
      <4> QED
        BY <4>2, <3>3 DEF ss, tt
    <3> QED
      BY <3>2, <3>3
  <2>9. SumFunctionOnSet(Part(s), U) = SumFunctionOnSet(Part(t), U) + f[x]
    <3> DEFINE p == Part(t)
               q == Part(s)
               v == k[x]
               n == f[x]
    <3>1. v \in U /\ n \in Int
      BY <2>4
    <3>2. \A u \in U : p[u] \in Int
      BY <2>7
    <3>3. \A u \in U : q[u] = p[u] + (IF u = v THEN n ELSE 0)
      BY <2>8
    <3> HIDE DEF p, q, v, n
    <3>4. SumFunctionOnSet(q, U) = SumFunctionOnSet(p, U) + n
      BY <3>1, <3>2, <3>3, SumGain
    <3> QED
      BY <3>4 DEF p, q, n
  <2>10. SumFunctionOnSet(f, t) \in Int
    BY <2>4, SumInt
  <2> HIDE DEF Part, t
  <2>11. SumFunctionOnSet(Part(s), U) = SumFunctionOnSet(f, s)
    BY <2>4, <2>5, <2>6, <2>9, <2>10
  <2> QED
    BY <2>11
<1>2. SumFunctionOnSet(Part(S), U) = SumFunctionOnSet(f, S)
  BY <1>1
<1>3. SumFunctionOnSet(h, U) = SumFunctionOnSet(Part(S), U)
  BY SumAgree
<1> QED
  BY <1>2, <1>3

(* Summing over a part of a set is summing over the set, with zeros        *)
(* outside the part.                                                       *)
THEOREM SumRestrict ==
    ASSUME NEW S, IsFiniteSet(S), NEW T \in SUBSET S,
           NEW f, \A x \in T : f[x] \in Int,
           NEW g, \A x \in S : g[x] = IF x \in T THEN f[x] ELSE 0
    PROVE  SumFunctionOnSet(g, S) = SumFunctionOnSet(f, T)
<1> DEFINE k == [x \in S |-> IF x \in T THEN 1 ELSE 0]
           h == [u \in {0, 1} |-> SumFunctionOnSet(g, {x \in S : k[x] = u})]
<1>1. /\ {x \in S : k[x] = 1} = T
      /\ {x \in S : k[x] = 0} = S \ T
      /\ \A x \in S : k[x] \in {0, 1}
  OBVIOUS
<1>2. IsFiniteSet({0}) /\ IsFiniteSet({0, 1}) /\ IsFiniteSet(T) /\ IsFiniteSet(S \ T)
  <2>1. {0} \cup {1} = {0, 1} /\ S \ T \in SUBSET S
    OBVIOUS
  <2>2. IsFiniteSet({0})
    BY FS_Singleton
  <2>3. IsFiniteSet({0} \cup {1})
    BY <2>2, FS_AddElement
  <2> QED
    BY <2>1, <2>2, <2>3, FS_Subset
<1>3. \A x \in S : g[x] \in Int
  OBVIOUS
<1>4. h[1] = SumFunctionOnSet(g, T) /\ h[0] = SumFunctionOnSet(g, S \ T)
  BY <1>1
<1>5. SumFunctionOnSet(g, T) = SumFunctionOnSet(f, T)
  <2>1. \A x \in T : g[x] = f[x]
    OBVIOUS
  <2> QED
    BY <1>2, <2>1, SumAgree
<1>6. SumFunctionOnSet(g, S \ T) = 0
  <2>1. \A x \in S \ T : g[x] = 0
    OBVIOUS
  <2> QED
    BY <1>2, <2>1, SumZero
<1>7. SumFunctionOnSet(h, {0, 1}) = SumFunctionOnSet(g, S)
  <2>1. \A u \in {0, 1} : h[u] = SumFunctionOnSet(g, {x \in S : k[x] = u})
    OBVIOUS
  <2>2. \A x \in S : k[x] \in {0, 1}
    BY <1>1
  <2> DEFINE U == {0, 1}
  <2>3. /\ IsFiniteSet(U)
        /\ \A u \in U : h[u] = SumFunctionOnSet(g, {x \in S : k[x] = u})
        /\ \A x \in S : k[x] \in U
    BY <1>2, <2>1, <2>2
  <2> HIDE DEF h, k, U
  <2>4. SumFunctionOnSet(h, U) = SumFunctionOnSet(g, S)
    BY <1>3, <2>3, SumParts
  <2> QED
    BY <2>4 DEF U
<1>8. SumFunctionOnSet(f, T) \in Int
  BY <1>2, SumInt
<1>9. h[1] \in Int /\ h[0] = 0
  BY <1>4, <1>5, <1>6, <1>8
<1>10. SumFunctionOnSet(h, {0, 1}) = h[1]
  <2> DEFINE Z == {0}
             z == 0
             o == 1
  <2>1. /\ IsFiniteSet(Z)
        /\ \A u \in Z : h[u] = 0
        /\ z \in Z /\ o \notin Z
        /\ \A u \in Z \cup {o} : h[u] \in Int
    BY <1>2, <1>9
  <2>2. Z \cup {o} = {0, 1} /\ h[o] = h[1] /\ h[1] \in Int
    BY <1>9
  <2> HIDE DEF h, k, Z, z, o
  <2>3. SumFunctionOnSet(h, Z) = 0
    BY <2>1, SumZero
  <2>4. SumFunctionOnSet(h, Z \cup {o}) = h[o] + SumFunctionOnSet(h, Z)
    BY <2>1, SumAdd
  <2>5. SumFunctionOnSet(h, {0, 1}) = h[1] + 0
    BY <2>2, <2>3, <2>4
  <2> QED
    BY <2>2, <2>5
<1> QED
  BY <1>4, <1>5, <1>7, <1>10

-----------------------------------------------------------------------------
(* Sorted lists of numbers.                                                *)

(* The greater a member of a set of numbers, the more are not above it. *)
LEMMA RankGrows ==
    ASSUME NEW ids \in SUBSET Nat, IsFiniteSet(ids), NEW a \in ids, NEW b \in ids, a < b
    PROVE  Rank(ids, a) < Rank(ids, b)
<1> DEFINE A == {x \in ids : x <= a}
           B == {x \in ids : x <= b}
<1>1. A \subseteq B /\ A \subseteq ids /\ B \subseteq ids /\ b \in B /\ b \notin A
  <2>1. \A x \in ids : x \in Nat
    OBVIOUS
  <2>2. \A x \in ids : x <= a => x <= b
    BY <2>1
  <2>3. b <= b /\ ~ (b <= a)
    BY <2>1
  <2> QED
    BY <2>2, <2>3
<1>2. Rank(ids, a) = Cardinality(A) /\ Rank(ids, b) = Cardinality(B)
  BY DEF Rank
<1> HIDE DEF A, B
<1>3. IsFiniteSet(B) /\ IsFiniteSet(A)
  BY <1>1, FS_Subset
<1>4. Cardinality(A) <= Cardinality(B) /\ Cardinality(A) # Cardinality(B)
  BY <1>1, <1>3, FS_Subset
<1>5. Cardinality(A) \in Nat /\ Cardinality(B) \in Nat
  BY <1>3, FS_CardinalityType
<1> QED
  BY <1>2, <1>4, <1>5

(* A member's rank is a position. *)
LEMMA RankIs ==
    ASSUME NEW ids \in SUBSET Nat, IsFiniteSet(ids), NEW a \in ids
    PROVE  Rank(ids, a) \in 1 .. Cardinality(ids)
<1> DEFINE A == {x \in ids : x <= a}
<1>1. A \subseteq ids /\ a \in A
  OBVIOUS
<1>2. Rank(ids, a) = Cardinality(A)
  BY DEF Rank
<1> HIDE DEF A
<1>3. IsFiniteSet(A) /\ Cardinality(A) <= Cardinality(ids)
  BY <1>1, FS_Subset
<1>4. Cardinality(A) \in Nat /\ Cardinality(ids) \in Nat /\ Cardinality(A) # 0
  BY <1>1, <1>3, FS_CardinalityType, FS_EmptySet
<1> QED
  BY <1>2, <1>3, <1>4

(* Every position is a member's rank. *)
LEMMA RankOnto ==
    ASSUME NEW ids \in SUBSET Nat, IsFiniteSet(ids), NEW i \in 1 .. Cardinality(ids)
    PROVE  \E k \in ids : Rank(ids, k) = i
<1> DEFINE T == 1 .. Cardinality(ids)
           f == [k \in ids |-> Rank(ids, k)]
<1>1. Cardinality(ids) \in Nat
  BY FS_CardinalityType
<1>2. IsFiniteSet(T) /\ Cardinality(T) = Cardinality(ids)
  BY <1>1, FS_Interval
<1>3. \A k \in ids : Rank(ids, k) \in T
  BY RankIs
<1>4. \A a, b \in ids : Rank(ids, a) = Rank(ids, b) => a = b
  <2> SUFFICES ASSUME NEW a \in ids, NEW b \in ids, Rank(ids, a) = Rank(ids, b), a # b
               PROVE  FALSE
    OBVIOUS
  <2>1. a < b \/ b < a
    OBVIOUS
  <2>2. Rank(ids, a) \in Nat /\ Rank(ids, b) \in Nat
    BY <1>1, <1>3
  <2>3. CASE a < b
    BY <2>2, <2>3, RankGrows
  <2>4. CASE b < a
    BY <2>2, <2>4, RankGrows
  <2> QED
    BY <2>1, <2>3, <2>4
<1>5. i \in T
  OBVIOUS
<1>6. f \in [ids -> T] /\ \A k \in ids : f[k] = Rank(ids, k)
  BY <1>3
<1> HIDE DEF f, T
<1>7. f \in Injection(ids, T)
  BY <1>4, <1>6 DEF Injection, IsInjective
<1>8. f \in Surjection(ids, T)
  BY <1>2, <1>7, FS_Injection
<1> QED
  BY <1>5, <1>6, <1>8 DEF Surjection

(* Sorting lists every member, once. *)
LEMMA SortedIs ==
    ASSUME NEW ids \in SUBSET Nat, IsFiniteSet(ids)
    PROVE  /\ Sorted(ids) \in Seq(ids)
           /\ \A k \in ids : \E j \in 1 .. Len(Sorted(ids)) : Sorted(ids)[j] = k
           /\ \A i, j \in 1 .. Len(Sorted(ids)) : Sorted(ids)[i] = Sorted(ids)[j] => i = j
<1> DEFINE s == Sorted(ids)
           c == Cardinality(ids)
<1>1. c \in Nat
  BY FS_CardinalityType
<1>2. s = [i \in 1 .. c |-> CHOOSE k \in ids : Rank(ids, k) = i]
  BY DEF Sorted
<1>3. \A i \in 1 .. c : s[i] \in ids /\ Rank(ids, s[i]) = i
  BY <1>2, RankOnto
<1>4. \A k \in ids : s[Rank(ids, k)] = k
  <2> SUFFICES ASSUME NEW k \in ids PROVE s[Rank(ids, k)] = k
    OBVIOUS
  <2>1. PICK i \in 1 .. c : i = Rank(ids, k)
    BY RankIs
  <2>2. s[i] \in ids /\ Rank(ids, s[i]) = Rank(ids, k)
    BY <1>3, <2>1
  <2> HIDE DEF s
  <2>3. PICK x \in ids : x = s[i]
    BY <2>2
  <2>4. ~ (x < k) /\ ~ (k < x)
    <3>1. Rank(ids, x) = Rank(ids, k) /\ Rank(ids, k) \in Nat
      BY <1>1, <2>1, <2>2, <2>3
    <3>2. x < k => Rank(ids, x) < Rank(ids, k)
      BY RankGrows
    <3>3. k < x => Rank(ids, k) < Rank(ids, x)
      BY RankGrows
    <3> QED
      BY <3>1, <3>2, <3>3
  <2> QED
    BY <2>1, <2>3, <2>4
<1>5. s \in [1 .. c -> ids]
  BY <1>2, <1>3
<1> HIDE DEF s, c
<1>6. s \in Seq(ids) /\ Len(s) = c
  BY <1>1, <1>5
<1>7. \A k \in ids : \E j \in 1 .. Len(s) : s[j] = k
  BY <1>4, <1>6, RankIs DEF c
<1>8. \A i, j \in 1 .. Len(s) : s[i] = s[j] => i = j
  BY <1>3, <1>6 DEF c
<1> QED
  BY <1>6, <1>7, <1>8 DEF s

(* Numbers in ascending order, each once. *)
Increasing(s) == \A i, j \in 1 .. Len(s) : i < j => s[i] < s[j]

(* Sorting puts the numbers in that order. *)
LEMMA SortedGrows ==
    ASSUME NEW ids \in SUBSET Nat, IsFiniteSet(ids)
    PROVE  Increasing(Sorted(ids))
<1> DEFINE s == Sorted(ids)
           c == Cardinality(ids)
<1>1. c \in Nat
  BY FS_CardinalityType
<1>2. s = [i \in 1 .. c |-> CHOOSE k \in ids : Rank(ids, k) = i]
  BY DEF Sorted
<1>3. \A i \in 1 .. c : s[i] \in ids /\ Rank(ids, s[i]) = i
  BY <1>2, RankOnto
<1>4. Len(s) = c
  BY <1>1, <1>2
<1> HIDE DEF s, c
<1>5. ASSUME NEW i \in 1 .. c, NEW j \in 1 .. c, i < j PROVE s[i] < s[j]
  <2>1. PICK a \in ids : a = s[i]
    BY <1>3
  <2>2. PICK b \in ids : b = s[j]
    BY <1>3
  <2>3. Rank(ids, a) = i /\ Rank(ids, b) = j
    BY <1>3, <2>1, <2>2
  <2>4. ~ (b < a)
    BY <1>1, <1>5, <2>3, RankGrows
  <2>5. a # b
    BY <1>1, <1>5, <2>3
  <2> QED
    BY <2>1, <2>2, <2>4, <2>5
<1> QED
  BY <1>4, <1>5 DEF Increasing, s

=============================================================================
