------------------------------ MODULE FiniteSums ------------------------------
(***************************************************************************)
(* What SumFunctionOnSet (Functions) computes: the sum of an integer-      *)
(* valued function over a finite set does not depend on the order in which *)
(* its recursive definition takes the elements, so it can be computed one  *)
(* element at a time, in any order.                                        *)
(*                                                                         *)
(* The induction is by minimal counterexample: the sets a statement holds  *)
(* of are themselves a set, and a well-founded order gives the least set   *)
(* outside it.                                                             *)
(***************************************************************************)
EXTENDS Integers, Functions, FiniteSetTheorems, WellFoundedInduction, TLAPS

-----------------------------------------------------------------------------
(* Induction over the subsets of a finite set, and over the naturals *)

\* A family of subsets of S that holds every set all of whose proper subsets it
\* holds is the family of all subsets.
LEMMA SubsetsByInduction ==
  ASSUME NEW S, IsFiniteSet(S), NEW F,
         \A t \in SUBSET S : (\A u \in SUBSET t : u # t => u \in F) => t \in F
  PROVE  \A t \in SUBSET S : t \in F
  <1> DEFINE Bad == {t \in SUBSET S : t \notin F}
  <1>1. SUFFICES ASSUME Bad # {} PROVE FALSE
    OBVIOUS
  <1>2. IsWellFoundedOn(StrictSubsetOrdering(S), SUBSET S)
    BY FS_StrictSubsetOrderingWellFounded, FS_FiniteSubsetsOfFinite
  <1>3. PICK t \in Bad : \A u \in Bad : <<u, t>> \notin StrictSubsetOrdering(S)
    <2> HIDE DEF Bad
    <2>1. Bad \subseteq SUBSET S
      BY DEF Bad
    <2> QED
      BY <1>1, <1>2, <2>1, WFMin
  <1>4. \A u \in SUBSET t : u # t => u \in F
    BY <1>3 DEF StrictSubsetOrdering
  <1> QED
    BY <1>3, <1>4

LEMMA NaturalsByInduction ==
  ASSUME NEW F, 0 \in F, \A n \in Nat : n \in F => n + 1 \in F
  PROVE  \A n \in Nat : n \in F
  <1> DEFINE Bad == {n \in Nat : n \notin F}
             less == OpToRel(<, Nat)
  <1>1. SUFFICES ASSUME Bad # {} PROVE FALSE
    OBVIOUS
  <1>2. \A m, n \in Nat : m < n => <<m, n>> \in less
    BY DEF OpToRel
  <1>3. IsWellFoundedOn(less, Nat)
    BY NatLessThanWellFounded
  <1> HIDE DEF less
  <1>4. PICK n \in Bad : \A m \in Bad : <<m, n>> \notin less
    <2> HIDE DEF Bad
    <2>1. Bad \subseteq Nat
      BY DEF Bad
    <2> QED
      BY <1>1, <1>3, <2>1, WFMin
  <1>5. n # 0 /\ n \in Nat
    BY <1>4
  <1>6. n - 1 \in Nat /\ n - 1 < n /\ (n - 1) + 1 = n
    BY <1>5
  <1>7. n - 1 \in F
    BY <1>2, <1>4, <1>5, <1>6
  <1>8. n \in F
    BY <1>6, <1>7
  <1> QED
    BY <1>4, <1>8

-----------------------------------------------------------------------------
(* The recursive function behind the sum *)

Taken(s) == CHOOSE x \in s : TRUE

\* One step of the recursion, from the sums g of the smaller sets.
SumStep(g, f, s) == IF s = {} THEN 0 ELSE f[Taken(s)] + g[s \ {Taken(s)}]

SumsUp(g, f, S) == g = [s \in SUBSET S |-> SumStep(g, f, s)]

LEMMA TakenIn == ASSUME NEW s, s # {} PROVE Taken(s) \in s
  BY DEF Taken

\* The recursion defines a function: it does on the sets of at most n elements,
\* for every n.
LEMMA SumsExist ==
  ASSUME NEW S, IsFiniteSet(S), NEW f
  PROVE  \E g : SumsUp(g, f, S)
  <1> DEFINE UpTo(n) == {s \in SUBSET S : Cardinality(s) <= n}
             F == {n \in Nat : \E g : g = [s \in UpTo(n) |-> SumStep(g, f, s)]}
  <1>1. \A s \in SUBSET S : IsFiniteSet(s) /\ Cardinality(s) \in Nat /\ Cardinality(s) <= Cardinality(S)
    BY FS_Subset, FS_CardinalityType
  <1>2. 0 \in F
    <2> DEFINE g == [s \in UpTo(0) |-> 0]
    <2>1. ASSUME NEW s \in UpTo(0) PROVE s = {}
      <3>1. Cardinality(s) = 0 /\ IsFiniteSet(s)
        BY <1>1
      <3> QED
        BY <3>1, FS_EmptySet
    <2>2. g = [s \in UpTo(0) |-> SumStep(g, f, s)]
      BY <2>1 DEF SumStep
    <2> QED
      BY <2>2
  <1>3. ASSUME NEW n \in Nat, n \in F PROVE n + 1 \in F
    <2>1. PICK g : g = [s \in UpTo(n) |-> SumStep(g, f, s)]
      BY <1>3
    <2> DEFINE h == [s \in UpTo(n + 1) |-> SumStep(g, f, s)]
    <2>2. ASSUME NEW s \in UpTo(n + 1), s # {}
          PROVE  /\ s \ {Taken(s)} \in UpTo(n)
                 /\ s \ {Taken(s)} \in UpTo(n + 1)
      <3>1. /\ Cardinality(s \ {Taken(s)}) = Cardinality(s) - 1
            /\ Cardinality(s) \in Nat /\ Cardinality(s) <= n + 1
            /\ s \ {Taken(s)} \in SUBSET S
        BY <1>1, <2>2, TakenIn, FS_RemoveElement
      <3> QED
        BY <3>1
    <2>3. ASSUME NEW s \in UpTo(n + 1) PROVE SumStep(g, f, s) = SumStep(h, f, s)
      <3>1. CASE s = {}
        BY <3>1 DEF SumStep
      <3>2. CASE s # {}
        <4> DEFINE u == s \ {Taken(s)}
        <4>1. u \in UpTo(n) /\ u \in UpTo(n + 1)
          BY <2>2, <3>2
        <4>2. g[u] = SumStep(g, f, u) /\ h[u] = SumStep(g, f, u)
          <5> HIDE DEF u, UpTo
          <5> QED
            BY <2>1, <4>1
        <4> QED
          BY <3>2, <4>2 DEF SumStep
      <3> QED
        BY <3>1, <3>2
    <2>4. h = [s \in UpTo(n + 1) |-> SumStep(h, f, s)]
      <3> HIDE DEF UpTo
      <3>1. DOMAIN h = UpTo(n + 1) /\ \A s \in UpTo(n + 1) : h[s] = SumStep(g, f, s)
        OBVIOUS
      <3> QED
        BY <2>3
    <2> HIDE DEF h, UpTo
    <2> QED
      BY <2>4
  <1>4. Cardinality(S) \in F
    <2> HIDE DEF F
    <2>1. \A n \in Nat : n \in F
      BY <1>2, <1>3, NaturalsByInduction
    <2> QED
      BY <2>1, FS_CardinalityType
  <1>5. UpTo(Cardinality(S)) = SUBSET S
    BY <1>1
  <1> QED
    BY <1>4, <1>5 DEF SumsUp

LEMMA SumIsRecursive ==
  ASSUME NEW S, IsFiniteSet(S), NEW f
  PROVE  \E g : SumsUp(g, f, S) /\ SumFunctionOnSet(f, S) = g[S]
  <1> DEFINE G == CHOOSE g : SumsUp(g, f, S)
  <1>1. SumsUp(G, f, S)
    BY SumsExist
  <1>2. SumFunctionOnSet(f, S) = G[S]
    BY DEF SumFunctionOnSet, FoldFunctionOnSet, MapThenFoldSet, SumsUp, SumStep, Taken
  <1> QED
    BY <1>1, <1>2

\* The recursion yields integers, and any element can be taken out first.
LEMMA SumsInAnyOrder ==
  ASSUME NEW S, IsFiniteSet(S), NEW f, \A x \in S : f[x] \in Int, NEW g, SumsUp(g, f, S)
  PROVE  \A s \in SUBSET S : /\ g[s] \in Int
                             /\ \A x \in s : g[s] = f[x] + g[s \ {x}]
  <1> DEFINE Good(s) == g[s] \in Int /\ \A x \in s : g[s] = f[x] + g[s \ {x}]
             F == {s \in SUBSET S : Good(s)}
  <1>1. \A s \in SUBSET S : g[s] = SumStep(g, f, s)
    BY DEF SumsUp
  <1>2. ASSUME NEW t \in SUBSET S, \A u \in SUBSET t : u # t => Good(u)
        PROVE  Good(t)
    <2>1. CASE t = {}
      <3>1. g[t] = 0
        BY <1>1, <2>1 DEF SumStep
      <3> QED
        BY <2>1, <3>1
    <2>2. CASE t # {}
      <3> DEFINE c == Taken(t)
      <3>1. c \in t /\ f[c] \in Int /\ g[t] = f[c] + g[t \ {c}]
        BY <1>1, <2>2, TakenIn DEF SumStep
      <3> HIDE DEF c
      <3>2. g[t \ {c}] \in Int /\ \A x \in t \ {c} : g[t \ {c}] = f[x] + g[(t \ {c}) \ {x}]
        <4>1. t \ {c} \in SUBSET t /\ t \ {c} # t
          BY <3>1
        <4> QED
          BY <1>2, <4>1
      <3>3. g[t] \in Int
        BY <3>1, <3>2
      <3>4. ASSUME NEW x \in t, x # c PROVE g[t] = f[x] + g[t \ {x}]
        <4> DEFINE u == t \ {c, x}
        <4>1. /\ t \ {x} \in SUBSET t /\ t \ {x} # t /\ c \in t \ {x}
              /\ u \in SUBSET t /\ u # t
          BY <3>1, <3>4
        <4>2. g[u] \in Int
          BY <1>2, <4>1
        <4>3. g[t \ {x}] = f[c] + g[u]
          <5>1. g[t \ {x}] = f[c] + g[(t \ {x}) \ {c}]
            BY <1>2, <4>1
          <5>2. (t \ {x}) \ {c} = u
            OBVIOUS
          <5> QED
            BY <5>1, <5>2
        <4>4. g[t \ {c}] = f[x] + g[u]
          <5>1. g[t \ {c}] = f[x] + g[(t \ {c}) \ {x}]
            BY <3>2, <3>4
          <5>2. (t \ {c}) \ {x} = u
            OBVIOUS
          <5> QED
            BY <5>1, <5>2
        <4>5. f[x] \in Int
          BY <3>4
        <4> QED
          BY <3>1, <4>2, <4>3, <4>4, <4>5
      <3> QED
        BY <3>1, <3>3, <3>4
    <2> QED
      BY <2>1, <2>2
  <1> HIDE DEF Good
  <1>3. \A t \in SUBSET S : (\A u \in SUBSET t : u # t => u \in F) => t \in F
    BY <1>2
  <1>4. \A t \in SUBSET S : t \in F
    <2> HIDE DEF F
    <2> QED
      BY <1>3, SubsetsByInduction
  <1> QED
    BY <1>4 DEF Good

\* The sums of two functions that agree on a set agree, whatever sets their
\* recursions run over.
LEMMA SumsAgreeBelow ==
  ASSUME NEW S, IsFiniteSet(S), NEW T, S \subseteq T, NEW f, NEW h,
         \A x \in S : f[x] = h[x], NEW g, SumsUp(g, f, S), NEW k, SumsUp(k, h, T)
  PROVE  \A s \in SUBSET S : g[s] = k[s]
  <1> DEFINE F == {s \in SUBSET S : g[s] = k[s]}
  <1>1. \A s \in SUBSET S : g[s] = SumStep(g, f, s) /\ k[s] = SumStep(k, h, s)
    BY DEF SumsUp
  <1>2. ASSUME NEW t \in SUBSET S, \A u \in SUBSET t : u # t => u \in F
        PROVE  t \in F
    <2>1. CASE t = {}
      BY <1>1, <2>1 DEF SumStep
    <2>2. CASE t # {}
      <3> DEFINE c == Taken(t)
      <3>1. c \in t /\ g[t] = f[c] + g[t \ {c}] /\ k[t] = h[c] + k[t \ {c}]
        BY <1>1, <2>2, TakenIn DEF SumStep
      <3> HIDE DEF c
      <3>2. t \ {c} \in F
        <4>1. t \ {c} \in SUBSET t /\ t \ {c} # t
          BY <3>1
        <4> QED
          BY <1>2, <4>1
      <3> QED
        BY <3>1, <3>2
    <2> QED
      BY <2>1, <2>2
  <1>3. \A t \in SUBSET S : t \in F
    <2> HIDE DEF F
    <2> QED
      BY <1>2, SubsetsByInduction
  <1> QED
    BY <1>3

-----------------------------------------------------------------------------
(* The laws of the sum *)

LEMMA SumEmpty ==
  ASSUME NEW f
  PROVE  SumFunctionOnSet(f, {}) = 0
  <1>1. PICK g : SumsUp(g, f, {}) /\ SumFunctionOnSet(f, {}) = g[{}]
    BY FS_EmptySet, SumIsRecursive
  <1> QED
    BY <1>1 DEF SumsUp, SumStep

LEMMA SumType ==
  ASSUME NEW S, IsFiniteSet(S), NEW f, \A x \in S : f[x] \in Int
  PROVE  SumFunctionOnSet(f, S) \in Int
  <1>1. PICK g : SumsUp(g, f, S) /\ SumFunctionOnSet(f, S) = g[S]
    BY SumIsRecursive
  <1> QED
    BY <1>1, SumsInAnyOrder

LEMMA SumAgrees ==
  ASSUME NEW S, IsFiniteSet(S), NEW f, NEW h, \A x \in S : f[x] = h[x]
  PROVE  SumFunctionOnSet(f, S) = SumFunctionOnSet(h, S)
  <1>1. PICK g : SumsUp(g, f, S) /\ SumFunctionOnSet(f, S) = g[S]
    BY SumIsRecursive
  <1>2. PICK k : SumsUp(k, h, S) /\ SumFunctionOnSet(h, S) = k[S]
    BY SumIsRecursive
  <1>3. \A s \in SUBSET S : g[s] = k[s]
    BY <1>1, <1>2, SumsAgreeBelow
  <1> QED
    BY <1>1, <1>2, <1>3

\* Any element can be taken out of a sum.
LEMMA SumWithout ==
  ASSUME NEW S, IsFiniteSet(S), NEW f, \A y \in S : f[y] \in Int, NEW x \in S
  PROVE  SumFunctionOnSet(f, S) = f[x] + SumFunctionOnSet(f, S \ {x})
  <1>1. PICK g : SumsUp(g, f, S) /\ SumFunctionOnSet(f, S) = g[S]
    BY SumIsRecursive
  <1>2. IsFiniteSet(S \ {x})
    BY FS_RemoveElement
  <1>3. PICK k : SumsUp(k, f, S \ {x}) /\ SumFunctionOnSet(f, S \ {x}) = k[S \ {x}]
    BY <1>2, SumIsRecursive
  <1>4. \A s \in SUBSET (S \ {x}) : k[s] = g[s]
    BY <1>1, <1>2, <1>3, SumsAgreeBelow
  <1>5. g[S] = f[x] + g[S \ {x}]
    BY <1>1, SumsInAnyOrder
  <1> QED
    BY <1>1, <1>3, <1>4, <1>5

\* A new element adds its value to a sum.
LEMMA SumWith ==
  ASSUME NEW S, IsFiniteSet(S), NEW x, x \notin S, NEW f,
         \A y \in S \cup {x} : f[y] \in Int
  PROVE  SumFunctionOnSet(f, S \cup {x}) = SumFunctionOnSet(f, S) + f[x]
  <1>1. IsFiniteSet(S \cup {x}) /\ (S \cup {x}) \ {x} = S
    BY FS_AddElement
  <1>2. SumFunctionOnSet(f, S \cup {x}) = f[x] + SumFunctionOnSet(f, (S \cup {x}) \ {x})
    BY <1>1, SumWithout
  <1>3. SumFunctionOnSet(f, S) \in Int /\ f[x] \in Int
    BY SumType
  <1>4. SumFunctionOnSet(f, S \cup {x}) = f[x] + SumFunctionOnSet(f, S)
    BY <1>1, <1>2
  <1> QED
    BY <1>3, <1>4

\* Two functions that differ in one element have sums that differ by as much.
LEMMA SumChanged ==
  ASSUME NEW S, IsFiniteSet(S), NEW x \in S, NEW f, NEW h,
         \A y \in S : f[y] \in Int, \A y \in S : h[y] \in Int,
         \A y \in S \ {x} : h[y] = f[y]
  PROVE  SumFunctionOnSet(h, S) = SumFunctionOnSet(f, S) - f[x] + h[x]
  <1>1. IsFiniteSet(S \ {x})
    BY FS_RemoveElement
  <1>2. /\ SumFunctionOnSet(f, S) = f[x] + SumFunctionOnSet(f, S \ {x})
        /\ SumFunctionOnSet(h, S) = h[x] + SumFunctionOnSet(h, S \ {x})
    BY SumWithout
  <1>3. SumFunctionOnSet(f, S \ {x}) = SumFunctionOnSet(h, S \ {x})
    BY <1>1, SumAgrees
  <1>4. SumFunctionOnSet(f, S \ {x}) \in Int /\ f[x] \in Int /\ h[x] \in Int
    BY <1>1, SumType
  <1> QED
    BY <1>2, <1>3, <1>4

LEMMA SumZero ==
  ASSUME NEW S, IsFiniteSet(S), NEW f, \A x \in S : f[x] = 0
  PROVE  SumFunctionOnSet(f, S) = 0
  <1>1. PICK g : SumsUp(g, f, S) /\ SumFunctionOnSet(f, S) = g[S]
    BY SumIsRecursive
  <1> DEFINE F == {s \in SUBSET S : g[s] = 0}
  <1>2. ASSUME NEW t \in SUBSET S, \A u \in SUBSET t : u # t => u \in F
        PROVE  t \in F
    <2>1. g[t] = SumStep(g, f, t)
      BY <1>1 DEF SumsUp
    <2>2. CASE t = {}
      BY <2>1, <2>2 DEF SumStep
    <2>3. CASE t # {}
      <3>1. Taken(t) \in t /\ g[t] = f[Taken(t)] + g[t \ {Taken(t)}]
        BY <2>1, <2>3, TakenIn DEF SumStep
      <3>2. t \ {Taken(t)} \in F
        BY <1>2, <3>1
      <3> QED
        BY <3>1, <3>2
    <2> QED
      BY <2>2, <2>3
  <1>3. \A t \in SUBSET S : t \in F
    <2> HIDE DEF F
    <2> QED
      BY <1>2, SubsetsByInduction
  <1> QED
    BY <1>1, <1>3

=============================================================================
