----------------------------- MODULE FiniteSums -----------------------------
(***************************************************************************)
(* What SumFunctionOnSet of the community modules returns for a finite set *)
(* of indices. Its definition is a fold over a function that is chosen, so *)
(* the facts below first show that there is one such function (SumsExist)  *)
(* and that any two agree (SumsAgree). A set of subsets that is not empty  *)
(* has a smallest member, as a set of natural numbers has, and that stands *)
(* for induction on the size of a set in every proof here. The same is     *)
(* shown of FoldLeft over a sequence (FoldsExist).                         *)
(***************************************************************************)
EXTENDS Integers, FiniteSets, Functions, FiniteSetTheorems, WellFoundedInduction, TLAPS

(* A set of natural numbers that is not empty has a least one.             *)
LEMMA LeastNat ==
  ASSUME NEW S \in SUBSET Nat, S # {} PROVE \E n \in S : \A m \in S : n <= m
<1> DEFINE R == {ss \in Nat \X Nat : ss[1] < ss[2]}
<1>1. IsWellFoundedOn(R, Nat)
  BY NatLessThanWellFounded DEF OpToRel
<1>2. PICK x \in S : \A y \in S : ~ (<<y, x>> \in R)
  BY <1>1, WFMin, Zenon
<1>3. \A y \in S : y \in Nat /\ x \in Nat /\ ~ (y < x)
  BY <1>2
<1> QED BY <1>3

(* A set that has 0 and with every number the next one has every number.   *)
LEMMA EveryNat ==
  ASSUME NEW S, 0 \in S, \A n \in Nat : n \in S => n + 1 \in S
  PROVE  Nat \subseteq S
<1> SUFFICES ASSUME Nat \ S # {} PROVE FALSE
  OBVIOUS
<1>1. PICK n \in Nat \ S : \A m \in Nat \ S : n <= m
  BY LeastNat
<1>2. n # 0 /\ n - 1 \in Nat /\ n - 1 \notin Nat \ S
  BY <1>1
<1>3. n - 1 \in S /\ (n - 1) + 1 = n
  BY <1>2
<1> QED BY <1>1, <1>2, <1>3

(* A set of subsets of S that has no smallest member has no member.        *)
LEMMA SmallestSubset ==
  ASSUME NEW S, IsFiniteSet(S), NEW C \in SUBSET (SUBSET S), C # {}
  PROVE  \E s \in C : \A t \in SUBSET s : t # s => t \notin C
<1> DEFINE sizes == {Cardinality(s) : s \in C}
<1>1. \A s \in SUBSET S : IsFiniteSet(s) /\ Cardinality(s) \in Nat
  BY FS_Subset, FS_CardinalityType
<1>2. sizes \in SUBSET Nat /\ sizes # {}
  BY <1>1
<1>3. PICK n \in sizes : \A m \in sizes : n <= m
  BY <1>2, LeastNat
<1>4. PICK s \in C : Cardinality(s) = n
  BY <1>3
<1>5. ASSUME NEW t \in SUBSET s, t # s PROVE t \notin C
  <2>1. Cardinality(t) < Cardinality(s)
    BY <1>1, <1>5, FS_Subset
  <2> QED BY <1>1, <1>3, <1>4, <2>1
<1> QED BY <1>5

(* Sums over the subsets of S, with any element taken first.               *)
One(s) == CHOOSE x \in s : TRUE
Sums(f, S, g) ==
  g = [s \in SUBSET S |-> IF s = {} THEN 0 ELSE f[One(s)] + g[s \ {One(s)}]]

(* A sum is what the chosen function gives for the whole set.              *)
LEMMA SumIsChosen ==
  ASSUME NEW f, NEW S
  PROVE  SumFunctionOnSet(f, S) = (CHOOSE g : Sums(f, S, g))[S]
BY DEF SumFunctionOnSet, FoldFunctionOnSet, MapThenFoldSet, Sums, One

(* The element taken first is one of the set.                              *)
LEMMA OneIsMember == ASSUME NEW s, s # {} PROVE One(s) \in s
BY DEF One

(* Two functions of sums over the same summands agree on every finite set, *)
(* whatever the sets they were built for.                                  *)
LEMMA SumsAgree ==
  ASSUME NEW f, NEW S, NEW g, Sums(f, S, g),
         NEW e, NEW T, NEW h, Sums(e, T, h),
         NEW U, IsFiniteSet(U), U \subseteq S, U \subseteq T,
         \A x \in U : f[x] = e[x]
  PROVE  g[U] = h[U]
<1> DEFINE C == {s \in SUBSET U : g[s] # h[s]}
<1>1. SUFFICES ASSUME C # {} PROVE FALSE
  OBVIOUS
<1>2. PICK s \in C : \A t \in SUBSET s : t # s => t \notin C
  <2>1. C \in SUBSET (SUBSET U)
    OBVIOUS
  <2> HIDE DEF C
  <2> QED BY <1>1, <2>1, SmallestSubset
<1>3. s \in SUBSET S /\ s \in SUBSET T
  BY <1>2
<1>4. /\ g[s] = IF s = {} THEN 0 ELSE f[One(s)] + g[s \ {One(s)}]
      /\ h[s] = IF s = {} THEN 0 ELSE e[One(s)] + h[s \ {One(s)}]
  BY <1>3 DEF Sums
<1>5. s # {}
  BY <1>2, <1>4
<1>6. One(s) \in s
  BY <1>5, OneIsMember
<1>7. s \ {One(s)} \in SUBSET U /\ s \ {One(s)} \notin C
  BY <1>2, <1>6
<1>8. g[s \ {One(s)}] = h[s \ {One(s)}] /\ f[One(s)] = e[One(s)]
  BY <1>2, <1>6, <1>7
<1> QED BY <1>2, <1>4, <1>8

(* There is a function of sums for every finite set.                       *)
LEMMA SumsExist ==
  ASSUME NEW f, NEW S, IsFiniteSet(S) PROVE \E g : Sums(f, S, g)
<1> DEFINE C == {s \in SUBSET S : ~ \E g : Sums(f, s, g)}
<1>1. SUFFICES ASSUME C # {} PROVE FALSE
  OBVIOUS
<1>2. PICK s \in C : \A t \in SUBSET s : t # s => t \notin C
  <2>1. C \in SUBSET (SUBSET S)
    OBVIOUS
  <2> HIDE DEF C
  <2> QED BY <1>1, <2>1, SmallestSubset
<1> DEFINE Sum(t) == SumFunctionOnSet(f, t)
           G(t) == CHOOSE g : Sums(f, t, g)
<1>3. \A t \in SUBSET s : t # s => Sums(f, t, G(t)) /\ Sum(t) = G(t)[t]
  <2> SUFFICES ASSUME NEW t \in SUBSET s, t # s PROVE Sums(f, t, G(t)) /\ Sum(t) = G(t)[t]
    OBVIOUS
  <2>1. \E g : Sums(f, t, g)
    BY <1>2
  <2>2. Sums(f, t, G(t))
    BY <2>1
  <2> QED BY <2>2, SumIsChosen
<1> HIDE DEF G, Sum
<1>4. \A t \in SUBSET s : t # s =>
        Sum(t) = IF t = {} THEN 0 ELSE f[One(t)] + Sum(t \ {One(t)})
  <2> SUFFICES ASSUME NEW t \in SUBSET s, t # s
               PROVE  Sum(t) = IF t = {} THEN 0 ELSE f[One(t)] + Sum(t \ {One(t)})
    OBVIOUS
  <2>1. G(t)[t] = IF t = {} THEN 0 ELSE f[One(t)] + G(t)[t \ {One(t)}]
    BY <1>3 DEF Sums
  <2>2. CASE t = {}
    BY <1>3, <2>1, <2>2
  <2>3. CASE t # {}
    <3> DEFINE u == t \ {One(t)}
    <3>1. u \in SUBSET s /\ u # s /\ u \subseteq t
      BY <2>3, OneIsMember
    <3>2. IsFiniteSet(u)
      BY <1>2, <3>1, FS_Subset
    <3>3. Sums(f, t, G(t)) /\ Sums(f, u, G(u)) /\ Sum(u) = G(u)[u] /\ Sum(t) = G(t)[t]
      BY <1>3, <3>1
    <3> HIDE DEF u
    <3>4. G(t)[u] = G(u)[u]
      BY <3>1, <3>2, <3>3, SumsAgree
    <3> QED BY <2>1, <2>3, <3>3, <3>4 DEF u
  <2> QED BY <2>2, <2>3
<1> DEFINE h == [t \in SUBSET s |-> IF t = {} THEN 0 ELSE f[One(t)] + Sum(t \ {One(t)})]
<1>5. \A t \in SUBSET s : t # s => h[t] = Sum(t)
  BY <1>4
<1>6. \A t \in SUBSET s : t # {} => t \ {One(t)} \in SUBSET s /\ t \ {One(t)} # s
  BY OneIsMember
<1>7. \A t \in SUBSET s : h[t] = IF t = {} THEN 0 ELSE f[One(t)] + h[t \ {One(t)}]
  BY <1>5, <1>6
<1>8. h = [t \in SUBSET s |-> h[t]]
  OBVIOUS
<1> HIDE DEF h
<1>9. Sums(f, s, h)
  BY <1>7, <1>8 DEF Sums
<1> QED BY <1>2, <1>9

-----------------------------------------------------------------------------
(* The sum of a finite set *)

(* A sum is its first summand and the sum of the rest.                     *)
LEMMA SumStep ==
  ASSUME NEW f, NEW S, IsFiniteSet(S), S # {}
  PROVE  SumFunctionOnSet(f, S) = f[One(S)] + SumFunctionOnSet(f, S \ {One(S)})
<1> DEFINE G(t) == CHOOSE g : Sums(f, t, g)
           T == S \ {One(S)}
<1>1. IsFiniteSet(T)
  BY FS_Subset
<1>2. Sums(f, S, G(S)) /\ Sums(f, T, G(T))
  BY <1>1, SumsExist
<1>3. SumFunctionOnSet(f, S) = G(S)[S] /\ SumFunctionOnSet(f, T) = G(T)[T]
  BY SumIsChosen
<1> HIDE DEF G
<1>4. G(S)[S] = f[One(S)] + G(S)[T]
  BY <1>2 DEF Sums
<1> HIDE DEF T
<1>5. T \subseteq S
  BY DEF T
<1>6. G(S)[T] = G(T)[T]
  BY <1>1, <1>2, <1>5, SumsAgree
<1> QED BY <1>3, <1>4, <1>6 DEF T

(* Nothing adds up to nothing.                                             *)
THEOREM SumEmpty == ASSUME NEW f PROVE SumFunctionOnSet(f, {}) = 0
<1> DEFINE g == CHOOSE g : Sums(f, {}, g)
<1>1. Sums(f, {}, g)
  BY FS_EmptySet, SumsExist
<1>2. SumFunctionOnSet(f, {}) = g[{}]
  BY SumIsChosen
<1> HIDE DEF g
<1> QED BY <1>1, <1>2 DEF Sums

(* Only the summands count. *)
THEOREM SumSame ==
  ASSUME NEW f, NEW g, NEW S, IsFiniteSet(S), \A x \in S : f[x] = g[x]
  PROVE  SumFunctionOnSet(f, S) = SumFunctionOnSet(g, S)
<1> DEFINE F == CHOOSE h : Sums(f, S, h)
           G == CHOOSE h : Sums(g, S, h)
<1>1. Sums(f, S, F) /\ Sums(g, S, G)
  BY SumsExist
<1>2. SumFunctionOnSet(f, S) = F[S] /\ SumFunctionOnSet(g, S) = G[S]
  BY SumIsChosen
<1> HIDE DEF F, G
<1>3. F[S] = G[S]
  BY <1>1, SumsAgree
<1> QED BY <1>2, <1>3

(* A sum of integers is one. *)
THEOREM SumInteger ==
  ASSUME NEW f, NEW S, IsFiniteSet(S), \A x \in S : f[x] \in Int
  PROVE  SumFunctionOnSet(f, S) \in Int
<1> DEFINE C == {s \in SUBSET S : SumFunctionOnSet(f, s) \notin Int}
<1>1. SUFFICES ASSUME C # {} PROVE FALSE
  OBVIOUS
<1>2. PICK s \in C : \A t \in SUBSET s : t # s => t \notin C
  <2>1. C \in SUBSET (SUBSET S)
    OBVIOUS
  <2> HIDE DEF C
  <2> QED BY <1>1, <2>1, SmallestSubset
<1>3. s # {}
  <2> SUFFICES ASSUME s = {} PROVE FALSE
    OBVIOUS
  <2>1. SumFunctionOnSet(f, s) \notin Int
    BY <1>2
  <2>2. SumFunctionOnSet(f, s) = 0
    BY SumEmpty
  <2> QED BY <2>1, <2>2
<1>4. One(s) \in s /\ IsFiniteSet(s)
  BY <1>2, <1>3, OneIsMember, FS_Subset
<1>5. s \ {One(s)} \in SUBSET S /\ s \ {One(s)} \notin C
  BY <1>2, <1>4
<1>6. SumFunctionOnSet(f, s) = f[One(s)] + SumFunctionOnSet(f, s \ {One(s)})
  BY <1>3, <1>4, SumStep
<1> QED BY <1>2, <1>4, <1>5, <1>6

(* A sum of natural numbers is one. *)
THEOREM SumNatural ==
  ASSUME NEW f, NEW S, IsFiniteSet(S), \A x \in S : f[x] \in Nat
  PROVE  SumFunctionOnSet(f, S) \in Nat
<1> DEFINE C == {s \in SUBSET S : SumFunctionOnSet(f, s) \notin Nat}
<1>1. SUFFICES ASSUME C # {} PROVE FALSE
  OBVIOUS
<1>2. PICK s \in C : \A t \in SUBSET s : t # s => t \notin C
  <2>1. C \in SUBSET (SUBSET S)
    OBVIOUS
  <2> HIDE DEF C
  <2> QED BY <1>1, <2>1, SmallestSubset
<1>3. s # {}
  <2> SUFFICES ASSUME s = {} PROVE FALSE
    OBVIOUS
  <2>1. SumFunctionOnSet(f, s) \notin Nat
    BY <1>2
  <2>2. SumFunctionOnSet(f, s) = 0
    BY SumEmpty
  <2> QED BY <2>1, <2>2
<1>4. One(s) \in s /\ IsFiniteSet(s)
  BY <1>2, <1>3, OneIsMember, FS_Subset
<1>5. s \ {One(s)} \in SUBSET S /\ s \ {One(s)} \notin C
  BY <1>2, <1>4
<1>6. SumFunctionOnSet(f, s) = f[One(s)] + SumFunctionOnSet(f, s \ {One(s)})
  BY <1>3, <1>4, SumStep
<1> QED BY <1>2, <1>4, <1>5, <1>6

(* Any summand may be taken first. *)
THEOREM SumRemove ==
  ASSUME NEW f, NEW S, IsFiniteSet(S), \A x \in S : f[x] \in Int, NEW x \in S
  PROVE  SumFunctionOnSet(f, S) = f[x] + SumFunctionOnSet(f, S \ {x})
<1> DEFINE Sum(t) == SumFunctionOnSet(f, t)
           C == {s \in SUBSET S : \E y \in s : Sum(s) # f[y] + Sum(s \ {y})}
<1>1. SUFFICES ASSUME C # {} PROVE FALSE
  OBVIOUS
<1>2. PICK s \in C : \A t \in SUBSET s : t # s => t \notin C
  <2>1. C \in SUBSET (SUBSET S)
    OBVIOUS
  <2> HIDE DEF C
  <2> QED BY <1>1, <2>1, SmallestSubset
<1>3. PICK y \in s : Sum(s) # f[y] + Sum(s \ {y})
  BY <1>2
<1> DEFINE z == One(s)
<1>4. z \in s /\ IsFiniteSet(s) /\ s # {}
  BY <1>2, <1>3, OneIsMember, FS_Subset
<1>5. Sum(s) = f[z] + Sum(s \ {z})
  BY <1>4, SumStep
<1>6. y # z
  BY <1>3, <1>5
<1>7. /\ s \ {z} \in SUBSET S /\ s \ {z} \notin C /\ y \in s \ {z}
      /\ s \ {y} \in SUBSET S /\ s \ {y} \notin C /\ z \in s \ {y}
  BY <1>2, <1>3, <1>4, <1>6
<1>8. /\ Sum(s \ {z}) = f[y] + Sum((s \ {z}) \ {y})
      /\ Sum(s \ {y}) = f[z] + Sum((s \ {y}) \ {z})
  BY <1>7
<1>9. (s \ {z}) \ {y} = (s \ {y}) \ {z} /\ f[y] \in Int /\ f[z] \in Int
  BY <1>2, <1>3, <1>4
<1>10. Sum((s \ {z}) \ {y}) \in Int
  <2>1. IsFiniteSet((s \ {z}) \ {y}) /\ \A u \in (s \ {z}) \ {y} : f[u] \in Int
    BY <1>2, <1>4, FS_Subset
  <2> QED BY <2>1, SumInteger
<1>11. Sum((s \ {y}) \ {z}) = Sum((s \ {z}) \ {y})
  BY <1>9
<1> HIDE DEF Sum, z, C
<1> QED BY <1>3, <1>5, <1>8, <1>9, <1>10, <1>11

(* One more index adds its summand.                                        *)
THEOREM SumInsert ==
  ASSUME NEW f, NEW S, IsFiniteSet(S), NEW x, x \notin S,
         \A y \in S \cup {x} : f[y] \in Int
  PROVE  SumFunctionOnSet(f, S \cup {x}) = f[x] + SumFunctionOnSet(f, S)
<1>1. IsFiniteSet(S \cup {x}) /\ (S \cup {x}) \ {x} = S
  BY FS_AddElement
<1> QED BY <1>1, SumRemove

(* The sum of negative summands is negative.                               *)
LEMMA SumNegative ==
  ASSUME NEW f, NEW S, IsFiniteSet(S), \A x \in S : f[x] \in Int /\ f[x] < 0, S # {}
  PROVE  SumFunctionOnSet(f, S) < 0
<1> DEFINE Sum(t) == SumFunctionOnSet(f, t)
           C == {s \in SUBSET S : s # {} /\ ~ (Sum(s) < 0)}
<1>1. SUFFICES ASSUME C # {} PROVE FALSE
  <2>1. S \notin C
    BY <1>1
  <2> QED BY <2>1
<1>2. PICK s \in C : \A t \in SUBSET s : t # s => t \notin C
  <2>1. C \in SUBSET (SUBSET S)
    OBVIOUS
  <2> HIDE DEF C
  <2> QED BY <1>1, <2>1, SmallestSubset
<1>3. PICK x \in s : TRUE
  BY <1>2
<1> DEFINE u == s \ {x}
<1>4. s \in SUBSET S /\ u \in SUBSET S /\ IsFiniteSet(s) /\ IsFiniteSet(u)
  BY <1>2, FS_Subset
<1>5. Sum(s) = f[x] + Sum(u) /\ f[x] \in Int /\ f[x] < 0
  BY <1>3, <1>4, SumRemove
<1>6. CASE u = {}
  <2>1. Sum(u) = 0
    BY <1>6, SumEmpty
  <2>2. ~ (Sum(s) < 0)
    BY <1>2
  <2> HIDE DEF Sum, C, u
  <2> QED BY <1>5, <2>1, <2>2
<1>7. CASE u # {}
  <2>1. Sum(u) < 0
    BY <1>2, <1>3, <1>4, <1>7
  <2>2. Sum(u) \in Int
    BY <1>4, SumInteger
  <2>3. ~ (Sum(s) < 0)
    BY <1>2
  <2> HIDE DEF Sum, C, u
  <2> QED BY <1>5, <2>1, <2>2, <2>3
<1> QED BY <1>6, <1>7

(* A sum over S is at most one over T, when every summand of S has one of  *)
(* its own in T that is as large, and those of T are not negative.         *)
THEOREM SumAtMost ==
  ASSUME NEW f, NEW S, IsFiniteSet(S), \A x \in S : f[x] \in Int,
         NEW g, NEW T, IsFiniteSet(T), \A y \in T : g[y] \in Nat,
         NEW m \in [S -> T], \A x, y \in S : m[x] = m[y] => x = y,
         \A x \in S : f[x] <= g[m[x]]
  PROVE  SumFunctionOnSet(f, S) <= SumFunctionOnSet(g, T)
<1> DEFINE Sf(s) == SumFunctionOnSet(f, s)
           Sg(t) == SumFunctionOnSet(g, t)
           C == {s \in SUBSET S : \E t \in SUBSET T : (\A x \in s : m[x] \in t) /\ Sf(s) > Sg(t)}
<1>1. SUFFICES ASSUME C # {} PROVE FALSE
  <2>1. S \notin C
    BY <1>1
  <2>2. (\A x \in S : m[x] \in T) /\ ~(Sf(S) > Sg(T))
    BY <2>1
  <2>3. Sf(S) \in Int /\ Sg(T) \in Int
    BY SumInteger
  <2> HIDE DEF Sf, Sg, C
  <2>4. Sf(S) <= Sg(T)
    BY <2>2, <2>3
  <2> QED BY <2>4 DEF Sf, Sg
<1>2. PICK s \in C : \A t \in SUBSET s : t # s => t \notin C
  <2>1. C \in SUBSET (SUBSET S)
    OBVIOUS
  <2> HIDE DEF C
  <2> QED BY <1>1, <2>1, SmallestSubset
<1>3. PICK t \in SUBSET T : (\A x \in s : m[x] \in t) /\ Sf(s) > Sg(t)
  BY <1>2
<1>4. s \in SUBSET S /\ IsFiniteSet(s) /\ IsFiniteSet(t)
  BY <1>2, <1>3, FS_Subset
<1>5. CASE s = {}
  <2>1. Sf(s) = 0
    BY <1>5, SumEmpty
  <2>2. Sg(t) \in Nat
    BY <1>3, <1>4, SumNatural
  <2> HIDE DEF Sf, Sg, C
  <2> QED BY <1>3, <2>1, <2>2
<1>6. CASE s # {}
  <2>1. PICK x \in s : TRUE
    BY <1>6
  <2> DEFINE u == s \ {x}
             v == t \ {m[x]}
  <2>2. Sf(s) = f[x] + Sf(u)
    BY <1>4, <2>1, SumRemove
  <2>3. Sg(t) = g[m[x]] + Sg(v)
    BY <1>3, <1>4, <2>1, SumRemove
  <2>4. u \in SUBSET s /\ u # s /\ v \in SUBSET T
    BY <1>3, <2>1
  <2>5. \A y \in u : m[y] \in v
    BY <1>3, <1>4, <2>1
  <2>6. IsFiniteSet(u) /\ IsFiniteSet(v)
    BY <1>4, FS_Subset
  <2>7. Sf(u) \in Int /\ Sg(v) \in Int
    BY <1>4, <2>4, <2>6, SumInteger
  <2>8. ~(Sf(u) > Sg(v))
    BY <1>2, <1>4, <2>4, <2>5
  <2>9. f[x] \in Int /\ g[m[x]] \in Nat /\ f[x] <= g[m[x]]
    BY <1>4, <2>1
  <2> HIDE DEF Sf, Sg, C, u, v
  <2> QED BY <1>3, <2>2, <2>3, <2>7, <2>8, <2>9
<1> QED BY <1>5, <1>6

(* The sum over two sets without a common member. *)
THEOREM SumUnion ==
  ASSUME NEW f, NEW S, IsFiniteSet(S), NEW T, IsFiniteSet(T), S \cap T = {},
         \A x \in S \cup T : f[x] \in Int
  PROVE  SumFunctionOnSet(f, S \cup T) = SumFunctionOnSet(f, S) + SumFunctionOnSet(f, T)
<1> DEFINE Sum(t) == SumFunctionOnSet(f, t)
           C == {t \in SUBSET T : Sum(S \cup t) # Sum(S) + Sum(t)}
<1>1. SUFFICES ASSUME C # {} PROVE FALSE
  OBVIOUS
<1>2. PICK t \in C : \A u \in SUBSET t : u # t => u \notin C
  <2>1. C \in SUBSET (SUBSET T)
    OBVIOUS
  <2> HIDE DEF C
  <2> QED BY <1>1, <2>1, SmallestSubset
<1>3. t \in SUBSET T /\ Sum(S \cup t) # Sum(S) + Sum(t)
  BY <1>2
<1>4. IsFiniteSet(t) /\ Sum(S) \in Int
  BY <1>3, FS_Subset, SumInteger
<1>5. t # {}
  <2> SUFFICES ASSUME t = {} PROVE FALSE
    OBVIOUS
  <2>1. Sum(t) = 0 /\ Sum(S \cup t) = Sum(S)
    BY SumEmpty
  <2> HIDE DEF Sum, C
  <2> QED BY <1>3, <1>4, <2>1
<1>6. PICK x \in t : TRUE
  BY <1>5
<1> DEFINE u == t \ {x}
<1>7. u \in SUBSET t /\ u # t /\ u \in SUBSET T
  BY <1>3, <1>6
<1>8. Sum(S \cup u) = Sum(S) + Sum(u)
  BY <1>2, <1>7
<1>9. IsFiniteSet(u) /\ IsFiniteSet(S \cup t)
  BY <1>4, <1>7, FS_Subset, FS_Union
<1>10. Sum(t) = f[x] + Sum(u)
  BY <1>3, <1>4, <1>6, SumRemove
<1>11. (S \cup t) \ {x} = S \cup u
  BY <1>3, <1>6
<1>12. Sum(S \cup t) = f[x] + Sum((S \cup t) \ {x})
  BY <1>3, <1>6, <1>9, SumRemove
<1>13. Sum(u) \in Int /\ f[x] \in Int
  BY <1>3, <1>6, <1>7, <1>9, SumInteger
<1>14. Sum((S \cup t) \ {x}) = Sum(S \cup u)
  BY <1>11
<1> HIDE DEF Sum, C, u
<1> QED BY <1>3, <1>4, <1>8, <1>10, <1>12, <1>13, <1>14

-----------------------------------------------------------------------------
(* Folds over sequences *)

(* FoldLeft takes the last element first: what it returns for the first n  *)
(* elements is one step from what it returns for the n - 1 before. Its     *)
(* function of index sets exists when a step leads from V to V.            *)
Highest(s) == CHOOSE x \in s : \A y \in s : x >= y
Folds(h, base, e, N, g) ==
  g = [s \in SUBSET (1..N) |-> IF s = {} THEN base ELSE h[<<g[s \ {Highest(s)}], e[Highest(s)]>>]]

LEMMA HighestIsGreatest ==
  ASSUME NEW n \in Nat, NEW s \in SUBSET (1..(n + 1)), n + 1 \in s
  PROVE  Highest(s) = n + 1
<1>1. \A y \in s : n + 1 >= y
  OBVIOUS
<1>2. \A x \in s : (\A y \in s : x >= y) => x = n + 1
  OBVIOUS
<1> QED BY <1>1, <1>2 DEF Highest

LEMMA HighestIsMember ==
  ASSUME NEW n \in Nat, NEW s \in SUBSET (1..n), s # {}
  PROVE  Highest(s) \in s
<1> DEFINE D == {n - x : x \in s}
<1>1. D \in SUBSET Nat /\ D # {}
  <2>1. \A x \in s : n - x \in Nat
    OBVIOUS
  <2> QED BY <2>1
<1>2. PICK d \in D : \A c \in D : d <= c
  BY <1>1, LeastNat
<1>3. PICK x \in s : d = n - x
  BY <1>2
<1>4. \A y \in s : x >= y
  <2> TAKE y \in s
  <2>1. n - y \in D /\ x \in 1..n /\ y \in 1..n
    OBVIOUS
  <2> QED BY <1>2, <1>3, <2>1
<1> QED BY <1>4 DEF Highest

(* The function by which FoldLeft is defined exists for every sequence     *)
(* over E, when the operator leads from V to V.                            *)
THEOREM FoldsExist ==
  ASSUME NEW N \in Nat, NEW V, NEW E, NEW base \in V, NEW h \in [V \X E -> V],
         NEW e \in [1..N -> E]
  PROVE  \E g \in [SUBSET (1..N) -> V] : Folds(h, base, e, N, g)
<1> DEFINE Exists(n) == \E g \in [SUBSET (1..n) -> V] : Folds(h, base, e, n, g)
           Done == {n \in Nat : n <= N => Exists(n)}
<1>1. 0 \in Done
  <2> DEFINE g == [s \in SUBSET (1..0) |-> base]
  <2>1. 1..0 = {}
    OBVIOUS
  <2>2. g \in [SUBSET (1..0) -> V]
    OBVIOUS
  <2>3. Folds(h, base, e, 0, g)
    BY <2>1 DEF Folds
  <2>4. Exists(0)
    BY <2>2, <2>3
  <2> HIDE DEF Exists
  <2> QED BY <2>4
<1>2. ASSUME NEW n \in Nat, n \in Done PROVE n + 1 \in Done
  <2> SUFFICES ASSUME n + 1 <= N PROVE Exists(n + 1)
    <3> HIDE DEF Exists
    <3> QED OBVIOUS
  <2>0. Exists(n)
    <3> HIDE DEF Exists
    <3> QED BY <1>2
  <2>1. PICK f \in [SUBSET (1..n) -> V] : Folds(h, base, e, n, f)
    BY <2>0
  <2>2. e[n + 1] \in E
    OBVIOUS
  <2>3. \A s \in SUBSET (1..(n + 1)) : s \ {n + 1} \in SUBSET (1..n)
    OBVIOUS
  <2> DEFINE g == [s \in SUBSET (1..(n + 1)) |->
                     IF n + 1 \in s THEN h[<<f[s \ {n + 1}], e[n + 1]>>] ELSE f[s]]
  <2>4. \A s \in SUBSET (1..(n + 1)) : n + 1 \notin s => s \in SUBSET (1..n)
    BY <2>3
  <2>5. g \in [SUBSET (1..(n + 1)) -> V]
    BY <2>2, <2>3, <2>4
  <2>6. \A s \in SUBSET (1..n) : s \in SUBSET (1..(n + 1)) /\ n + 1 \notin s /\ g[s] = f[s]
    OBVIOUS
  <2>7. \A s \in SUBSET (1..(n + 1)) : n + 1 \in s => g[s] = h[<<f[s \ {n + 1}], e[n + 1]>>]
    OBVIOUS
  <2>8. g = [s \in SUBSET (1..(n + 1)) |-> g[s]]
    OBVIOUS
  <2> HIDE DEF g
  <2>9. ASSUME NEW s \in SUBSET (1..(n + 1))
        PROVE  g[s] = IF s = {} THEN base ELSE h[<<g[s \ {Highest(s)}], e[Highest(s)]>>]
    <3>1. CASE n + 1 \in s
      <4>1. Highest(s) = n + 1
        BY <3>1, HighestIsGreatest
      <4>2. g[s \ {n + 1}] = f[s \ {n + 1}]
        BY <2>3, <2>6
      <4> QED BY <2>7, <3>1, <4>1, <4>2
    <3>2. CASE n + 1 \notin s
      <4>1. s \in SUBSET (1..n) /\ g[s] = f[s]
        BY <2>4, <2>6, <3>2
      <4>2. f[s] = IF s = {} THEN base ELSE h[<<f[s \ {Highest(s)}], e[Highest(s)]>>]
        BY <2>1, <4>1 DEF Folds
      <4>3. s # {} => g[s \ {Highest(s)}] = f[s \ {Highest(s)}]
        BY <2>6, <4>1
      <4> QED BY <4>1, <4>2, <4>3
    <3> QED BY <3>1, <3>2
  <2>10. Folds(h, base, e, n + 1, g)
    BY <2>8, <2>9 DEF Folds
  <2> QED BY <2>5, <2>10
<1>3. Nat \subseteq Done
  <2> HIDE DEF Done
  <2> QED BY <1>1, <1>2, EveryNat
<1>4. Exists(N)
  <2> HIDE DEF Exists
  <2> QED BY <1>3
<1> QED BY <1>4

(* The prefixes of the positions, which is all that a fold visits. *)
LEMMA Prefixes ==
  ASSUME NEW N \in Nat, NEW n \in 1..N
  PROVE  /\ 1..n \in SUBSET (1..N) /\ 1..n # {} /\ Highest(1..n) = n
         /\ (1..n) \ {Highest(1..n)} = 1..(n - 1) /\ 1..(n - 1) \in SUBSET (1..N)
<1>1. n - 1 \in Nat /\ (n - 1) + 1 = n /\ 1..n \in SUBSET (1..N) /\ n \in 1..n
  OBVIOUS
<1>2. 1..n \in SUBSET (1..((n - 1) + 1))
  BY <1>1
<1>3. Highest(1..n) = n
  BY <1>1, <1>2, HighestIsGreatest
<1>4. (1..n) \ {n} = 1..(n - 1)
  BY <1>1
<1> QED BY <1>1, <1>3, <1>4
=============================================================================
