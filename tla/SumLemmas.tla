----------------------------- MODULE SumLemmas -----------------------------
(* Sums of numbers over finite sets.  The models write them with            *)
(* MapThenSumSet; what such a fold computes is proved here from its         *)
(* recursive definition, by taking a smallest counterexample.               *)
EXTENDS Integers, FiniteSetTheorems, FiniteSetsExt, TLAPS

SumOf(f, S) == MapThenSumSet(LAMBDA x : f[x], S)

(* The element a fold takes first.                                          *)
First(S) == CHOOSE x \in S : TRUE

(* g is the table of the sums over the subsets of S.                        *)
Sums(g, f, S) ==
  g = [s \in SUBSET S |-> IF s = {} THEN 0 ELSE f[First(s)] + g[s \ {First(s)}]]

Table(f, S) == CHOOSE g : Sums(g, f, S)
-----------------------------------------------------------------------------
(* Among subsets of a finite set there is one that contains no other.       *)
LEMMA SmallestSubset ==
  ASSUME NEW S, IsFiniteSet(S), NEW T, T \subseteq SUBSET S, T # {}
  PROVE  \E s \in T : \A t \in T : t \subseteq s => t = s
<1>1. IsWellFoundedOn(StrictSubsetOrdering(S), SUBSET S)
  BY FS_StrictSubsetOrderingWellFounded, FS_FiniteSubsetsOfFinite
<1>2. PICK s \in T : \A t \in T : ~ (<<t, s>> \in StrictSubsetOrdering(S))
  BY <1>1, WFMin
<1>3. \A t \in T : t \subseteq s => t = s
  BY <1>2 DEF StrictSubsetOrdering
<1>4. QED
  BY <1>3

(* Tables agree where both are defined.                                     *)
LEMMA TablesAgree ==
  ASSUME NEW f, NEW S, NEW T, IsFiniteSet(S), NEW g, NEW h, Sums(g, f, S), Sums(h, f, T),
         NEW u, u \subseteq S, u \subseteq T
  PROVE  g[u] = h[u]
<1> DEFINE Bad == {s \in SUBSET u : g[s] # h[s]}
<1> SUFFICES ASSUME Bad # {} PROVE FALSE
  OBVIOUS
<1>1. IsFiniteSet(u)
  BY FS_Subset
<1>2. PICK s \in Bad : \A t \in Bad : t \subseteq s => t = s
  <2>1. Bad \subseteq SUBSET u /\ Bad # {}
    OBVIOUS
  <2> HIDE DEF Bad
  <2>2. QED
    BY <1>1, <2>1, SmallestSubset
<1>3. s \in SUBSET S /\ s \in SUBSET T
  OBVIOUS
<1>4. /\ g[s] = IF s = {} THEN 0 ELSE f[First(s)] + g[s \ {First(s)}]
      /\ h[s] = IF s = {} THEN 0 ELSE f[First(s)] + h[s \ {First(s)}]
  BY <1>3 DEF Sums
<1>5. CASE s = {}
  BY <1>4, <1>5
<1>6. CASE s # {}
  <2>1. First(s) \in s
    BY <1>6 DEF First
  <2>2. s \ {First(s)} \notin Bad
    BY <1>2, <2>1
  <2>3. QED
    BY <1>4, <1>6, <2>2
<1>7. QED
  BY <1>5, <1>6

(* Every finite set has one.                                                *)
LEMMA TableExists ==
  ASSUME NEW f, NEW S, IsFiniteSet(S)
  PROVE  Sums(Table(f, S), f, S)
<1> DEFINE Bad == {s \in SUBSET S : ~ \E g : Sums(g, f, s)}
<1>1. SUFFICES ASSUME Bad # {} PROVE FALSE
  BY DEF Table
<1>2. PICK s \in Bad : \A t \in Bad : t \subseteq s => t = s
  <2>1. Bad \subseteq SUBSET S
    OBVIOUS
  <2> HIDE DEF Bad
  <2>2. QED
    BY <1>1, <2>1, SmallestSubset
<1>3. \A t \in SUBSET s : t # s => Sums(Table(f, t), f, t)
  BY <1>2 DEF Table
<1> DEFINE V(t) == Table(f, t)[t]
           g == [t \in SUBSET s |-> IF t = {} THEN 0 ELSE f[First(t)] + V(t \ {First(t)})]
<1>4. ASSUME NEW t \in SUBSET s, t # s PROVE g[t] = V(t)
  <2>1. V(t) = IF t = {} THEN 0 ELSE f[First(t)] + Table(f, t)[t \ {First(t)}]
    BY <1>3, <1>4 DEF Sums
  <2>2. CASE t = {}
    BY <2>1, <2>2
  <2>3. CASE t # {}
    <3> DEFINE u == t \ {First(t)}
    <3>1. First(t) \in t
      BY <2>3 DEF First
    <3>2. u \in SUBSET s /\ u # s /\ u \subseteq t /\ IsFiniteSet(t)
      BY <1>4, <3>1, FS_Subset
    <3>3. Table(f, t)[u] = Table(f, u)[u]
      BY <1>3, <1>4, <3>2, TablesAgree
    <3>4. QED
      BY <2>1, <2>3, <3>3
  <2>4. QED
    BY <2>2, <2>3
<1>5. ASSUME NEW t \in SUBSET s, t # {} PROVE g[t \ {First(t)}] = V(t \ {First(t)})
  <2>1. First(t) \in t
    BY <1>5 DEF First
  <2>2. t \ {First(t)} \in SUBSET s /\ t \ {First(t)} # s
    BY <2>1
  <2> HIDE DEF g, V
  <2>3. QED
    BY <1>4, <2>2
<1>6. Sums(g, f, s)
  <2>1. \A t \in SUBSET s : g[t] = IF t = {} THEN 0 ELSE f[First(t)] + g[t \ {First(t)}]
    BY <1>5
  <2>2. g = [t \in SUBSET s |-> g[t]]
    OBVIOUS
  <2> HIDE DEF g
  <2>3. g = [t \in SUBSET s |-> IF t = {} THEN 0 ELSE f[First(t)] + g[t \ {First(t)}]]
    BY <2>1, <2>2
  <2>4. QED
    BY <2>3 DEF Sums
<1>7. QED
  BY <1>6

(* A fold sums as the table says.                                           *)
LEMMA SumIsTable ==
  ASSUME NEW f, NEW S, IsFiniteSet(S), NEW T, T \subseteq S
  PROVE  SumOf(f, T) = Table(f, S)[T]
<1>1. IsFiniteSet(T)
  BY FS_Subset
<1>2. SumOf(f, T) = Table(f, T)[T]
  BY DEF SumOf, MapThenSumSet, MapThenFoldSet, Table, Sums, First
<1>3. QED
  BY <1>1, <1>2, TableExists, TablesAgree

(* Nothing sums to 0.                                                       *)
LEMMA SumEmpty == ASSUME NEW f PROVE SumOf(f, {}) = 0
<1>1. IsFiniteSet({})
  BY FS_EmptySet
<1>2. SumOf(f, {}) = Table(f, {})[{}] /\ Sums(Table(f, {}), f, {})
  BY <1>1, SumIsTable, TableExists
<1>3. QED
  BY <1>2 DEF Sums

(* The recursion.                                                           *)
LEMMA SumStep ==
  ASSUME NEW f, NEW S, IsFiniteSet(S), S # {}
  PROVE  First(S) \in S /\ SumOf(f, S) = f[First(S)] + SumOf(f, S \ {First(S)})
<1>1. First(S) \in S
  BY DEF First
<1>2. SumOf(f, S) = Table(f, S)[S] /\ SumOf(f, S \ {First(S)}) = Table(f, S)[S \ {First(S)}]
  BY SumIsTable
<1>3. Table(f, S)[S] = f[First(S)] + Table(f, S)[S \ {First(S)}]
  <2>1. Sums(Table(f, S), f, S)
    BY TableExists
  <2> DEFINE g == Table(f, S)
  <2> HIDE DEF g
  <2>2. g = [s \in SUBSET S |-> IF s = {} THEN 0 ELSE f[First(s)] + g[s \ {First(s)}]]
    BY <2>1 DEF Sums, g
  <2>3. g[S] = f[First(S)] + g[S \ {First(S)}]
    BY <2>2
  <2>4. QED
    BY <2>3 DEF g
<1>4. QED
  BY <1>1, <1>2, <1>3

(* A sum of integers is one.                                                *)
LEMMA SumInt ==
  ASSUME NEW f, NEW S, IsFiniteSet(S), \A x \in S : f[x] \in Int
  PROVE  SumOf(f, S) \in Int
<1> DEFINE Bad == {s \in SUBSET S : SumOf(f, s) \notin Int}
<1>1. SUFFICES ASSUME Bad # {} PROVE FALSE
  OBVIOUS
<1>2. PICK s \in Bad : \A t \in Bad : t \subseteq s => t = s
  <2>1. Bad \subseteq SUBSET S
    OBVIOUS
  <2> HIDE DEF Bad
  <2>2. QED
    BY <1>1, <2>1, SmallestSubset
<1>3. IsFiniteSet(s) /\ s # {}
  <2>1. s \in SUBSET S /\ SumOf(f, s) \notin Int /\ SumOf(f, {}) \in Int
    BY SumEmpty
  <2>2. QED
    BY <2>1, FS_Subset
<1>4. First(s) \in s /\ SumOf(f, s) = f[First(s)] + SumOf(f, s \ {First(s)})
  BY <1>3, SumStep
<1>5. SumOf(f, s \ {First(s)}) \in Int
  BY <1>2, <1>4
<1>6. QED
  BY <1>2, <1>4, <1>5

(* The order of the elements does not matter.                               *)
LEMMA SumAdd ==
  ASSUME NEW f, NEW S, IsFiniteSet(S), \A x \in S : f[x] \in Int, NEW x \in S
  PROVE  SumOf(f, S) = f[x] + SumOf(f, S \ {x})
<1> DEFINE Bad == {s \in SUBSET S : \E z \in s : SumOf(f, s) # f[z] + SumOf(f, s \ {z})}
<1>1. SUFFICES ASSUME Bad # {} PROVE FALSE
  OBVIOUS
<1>2. PICK s \in Bad : \A t \in Bad : t \subseteq s => t = s
  <2>1. Bad \subseteq SUBSET S
    OBVIOUS
  <2> HIDE DEF Bad
  <2>2. QED
    BY <1>1, <2>1, SmallestSubset
<1>3. PICK z \in s : SumOf(f, s) # f[z] + SumOf(f, s \ {z})
  BY <1>2
<1> DEFINE y == First(s)
<1>4. y \in s /\ IsFiniteSet(s) /\ SumOf(f, s) = f[y] + SumOf(f, s \ {y})
  BY <1>3, SumStep, FS_Subset
<1> HIDE DEF y
<1>5. z # y
  BY <1>3, <1>4
<1>6. s \ {y} \notin Bad /\ s \ {z} \notin Bad
  BY <1>2, <1>3, <1>4
<1>7. SumOf(f, s \ {y}) = f[z] + SumOf(f, (s \ {y}) \ {z})
  BY <1>5, <1>6, <1>3
<1>8. SumOf(f, s \ {z}) = f[y] + SumOf(f, (s \ {z}) \ {y})
  BY <1>4, <1>5, <1>6
<1>9. (s \ {y}) \ {z} = (s \ {z}) \ {y}
  OBVIOUS
<1>10. f[y] \in Int /\ f[z] \in Int /\ SumOf(f, (s \ {z}) \ {y}) \in Int
  <2>1. IsFiniteSet((s \ {z}) \ {y}) /\ \A w \in (s \ {z}) \ {y} : f[w] \in Int
    BY <1>4, FS_Subset
  <2>2. QED
    BY <1>4, <2>1, SumInt
<1>11. SumOf(f, s) = f[y] + (f[z] + SumOf(f, (s \ {z}) \ {y}))
  BY <1>4, <1>7, <1>9
<1> HIDE DEF Bad
<1>12. QED
  BY <1>3, <1>8, <1>10, <1>11

(* Equal terms have equal sums.                                             *)
LEMMA SumSame ==
  ASSUME NEW f, NEW g, NEW S, IsFiniteSet(S), \A x \in S : f[x] = g[x]
  PROVE  SumOf(f, S) = SumOf(g, S)
<1> DEFINE Bad == {s \in SUBSET S : SumOf(f, s) # SumOf(g, s)}
<1>1. SUFFICES ASSUME Bad # {} PROVE FALSE
  OBVIOUS
<1>2. PICK s \in Bad : \A t \in Bad : t \subseteq s => t = s
  <2>1. Bad \subseteq SUBSET S
    OBVIOUS
  <2> HIDE DEF Bad
  <2>2. QED
    BY <1>1, <2>1, SmallestSubset
<1>3. IsFiniteSet(s) /\ s # {}
  BY <1>2, SumEmpty, FS_Subset
<1>4. /\ First(s) \in s /\ SumOf(f, s) = f[First(s)] + SumOf(f, s \ {First(s)})
      /\ SumOf(g, s) = g[First(s)] + SumOf(g, s \ {First(s)})
  BY <1>3, SumStep
<1>5. SumOf(f, s \ {First(s)}) = SumOf(g, s \ {First(s)})
  BY <1>2, <1>4
<1>6. QED
  BY <1>2, <1>4, <1>5

(* One term changes.                                                        *)
LEMMA SumUpdate ==
  ASSUME NEW f, NEW g, NEW S, IsFiniteSet(S), NEW x \in S,
         \A y \in S : f[y] \in Int /\ g[y] \in Int,
         \A y \in S \ {x} : f[y] = g[y]
  PROVE  SumOf(g, S) = SumOf(f, S) + g[x] - f[x]
<1>1. IsFiniteSet(S \ {x})
  BY FS_Subset
<1>2. SumOf(f, S \ {x}) = SumOf(g, S \ {x}) /\ SumOf(f, S \ {x}) \in Int
  BY <1>1, SumSame, SumInt
<1>3. SumOf(f, S) = f[x] + SumOf(f, S \ {x}) /\ SumOf(g, S) = g[x] + SumOf(g, S \ {x})
  BY SumAdd
<1>4. f[x] \in Int /\ g[x] \in Int
  OBVIOUS
<1>5. QED
  BY <1>2, <1>3, <1>4

(* A sum of natural numbers is one, and grows with the set.                 *)
LEMMA SumNat ==
  ASSUME NEW f, NEW S, IsFiniteSet(S), \A x \in S : f[x] \in Nat
  PROVE  /\ SumOf(f, S) \in Nat
         /\ \A x \in S : f[x] <= SumOf(f, S)
<1>1. ASSUME NEW T \in SUBSET S PROVE SumOf(f, T) \in Nat
  <2> DEFINE Bad == {s \in SUBSET S : SumOf(f, s) \notin Nat}
  <2>1. SUFFICES ASSUME Bad # {} PROVE FALSE
    OBVIOUS
  <2>2. PICK s \in Bad : \A t \in Bad : t \subseteq s => t = s
    <3>1. Bad \subseteq SUBSET S
      OBVIOUS
    <3> HIDE DEF Bad
    <3>2. QED
      BY <2>1, <3>1, SmallestSubset
  <2>3. IsFiniteSet(s) /\ s # {}
    BY <2>2, SumEmpty, FS_Subset
  <2>4. First(s) \in s /\ SumOf(f, s) = f[First(s)] + SumOf(f, s \ {First(s)})
    BY <2>3, SumStep
  <2>5. SumOf(f, s \ {First(s)}) \in Nat
    BY <2>2, <2>4
  <2>6. QED
    BY <2>2, <2>4, <2>5
<1>2. ASSUME NEW x \in S PROVE f[x] <= SumOf(f, S)
  <2>1. SumOf(f, S) = f[x] + SumOf(f, S \ {x})
    BY SumAdd
  <2>2. QED
    BY <1>1, <2>1
<1>3. QED
  BY <1>1, <1>2

(* The sum over two sets with nothing in common.                            *)
LEMMA SumJoin ==
  ASSUME NEW f, NEW S, NEW T, IsFiniteSet(S), IsFiniteSet(T), S \cap T = {},
         \A x \in S \cup T : f[x] \in Int
  PROVE  SumOf(f, S \cup T) = SumOf(f, S) + SumOf(f, T)
<1> DEFINE Bad == {t \in SUBSET T : SumOf(f, S \cup t) # SumOf(f, S) + SumOf(f, t)}
<1>1. SUFFICES ASSUME Bad # {} PROVE FALSE
  OBVIOUS
<1>2. PICK s \in Bad : \A t \in Bad : t \subseteq s => t = s
  <2>1. Bad \subseteq SUBSET T
    OBVIOUS
  <2> HIDE DEF Bad
  <2>2. QED
    BY <1>1, <2>1, SmallestSubset
<1>3. SumOf(f, S) \in Int
  BY SumInt
<1>4. IsFiniteSet(s) /\ IsFiniteSet(S \cup s)
  BY FS_Subset, FS_Union
<1>5. CASE s = {}
  BY <1>2, <1>3, <1>5, SumEmpty
<1>6. CASE s # {}
  <2>1. PICK x \in s : TRUE
    BY <1>6
  <2>2. SumOf(f, S \cup (s \ {x})) = SumOf(f, S) + SumOf(f, s \ {x})
    BY <1>2
  <2>3. (S \cup s) \ {x} = S \cup (s \ {x})
    OBVIOUS
  <2>4. SumOf(f, S \cup s) = f[x] + SumOf(f, S \cup (s \ {x}))
    BY <1>4, <2>3, SumAdd
  <2>5. SumOf(f, s) = f[x] + SumOf(f, s \ {x})
    BY <1>4, SumAdd
  <2>6. SumOf(f, s \ {x}) \in Int /\ f[x] \in Int
    BY <1>4, SumInt, FS_Subset
  <2>7. QED
    BY <1>2, <1>3, <2>2, <2>4, <2>5, <2>6
<1>7. QED
  BY <1>5, <1>6

(* Nothing adds up to nothing.                                              *)
LEMMA SumZero ==
  ASSUME NEW f, NEW S, IsFiniteSet(S), \A x \in S : f[x] = 0
  PROVE  SumOf(f, S) = 0
<1> DEFINE Bad == {s \in SUBSET S : SumOf(f, s) # 0}
<1>1. SUFFICES ASSUME Bad # {} PROVE FALSE
  OBVIOUS
<1>2. PICK s \in Bad : \A t \in Bad : t \subseteq s => t = s
  <2>1. Bad \subseteq SUBSET S
    OBVIOUS
  <2> HIDE DEF Bad
  <2>2. QED
    BY <1>1, <2>1, SmallestSubset
<1>3. IsFiniteSet(s) /\ s # {}
  BY <1>2, SumEmpty, FS_Subset
<1>4. First(s) \in s /\ SumOf(f, s) = f[First(s)] + SumOf(f, s \ {First(s)})
  BY <1>3, SumStep
<1>5. SumOf(f, s \ {First(s)}) = 0
  BY <1>2, <1>4
<1>6. QED
  BY <1>2, <1>4, <1>5

(* A sum may be taken over other names of the same terms.                   *)
LEMMA SumOfImage ==
  ASSUME NEW f, NEW g, NEW S, IsFiniteSet(S), NEW h,
         \A x, y \in S : h[x] = h[y] => x = y,
         \A x \in S : f[x] = g[h[x]] /\ f[x] \in Int
  PROVE  SumOf(f, S) = SumOf(g, {h[x] : x \in S})
<1> DEFINE Im(s) == {h[x] : x \in s}
           Bad == {s \in SUBSET S : SumOf(f, s) # SumOf(g, Im(s))}
<1>1. SUFFICES ASSUME Bad # {} PROVE FALSE
  OBVIOUS
<1>2. PICK s \in Bad : \A t \in Bad : t \subseteq s => t = s
  <2>1. Bad \subseteq SUBSET S
    OBVIOUS
  <2> HIDE DEF Bad
  <2>2. QED
    BY <1>1, <2>1, SmallestSubset
<1>3. CASE s = {}
  <2>1. Im(s) = {}
    BY <1>3
  <2>2. QED
    BY <1>2, <1>3, <2>1, SumEmpty
<1>4. CASE s # {}
  <2>1. PICK x \in s : TRUE
    BY <1>4
  <2>2. IsFiniteSet(s) /\ \A y \in s : f[y] \in Int
    BY FS_Subset
  <2>3. SumOf(f, s) = f[x] + SumOf(f, s \ {x})
    BY <2>1, <2>2, SumAdd
  <2>4. SumOf(f, s \ {x}) = SumOf(g, Im(s \ {x}))
    BY <1>2, <2>1
  <2>5. h[x] \in Im(s) /\ Im(s \ {x}) = Im(s) \ {h[x]}
    BY <2>1
  <2>6. IsFiniteSet(Im(s))
    <3>1. [y \in s |-> h[y]] \in Surjection(s, Im(s))
      BY DEF Surjection
    <3> HIDE DEF Im
    <3>2. QED
      BY <2>2, <3>1, FS_Surjection
  <2>7. \A y \in Im(s) : g[y] \in Int
    BY <2>2
  <2>8. SumOf(g, Im(s)) = g[h[x]] + SumOf(g, Im(s) \ {h[x]})
    <3> HIDE DEF Im
    <3>1. QED
      BY <2>5, <2>6, <2>7, SumAdd
  <2>9. QED
    BY <1>2, <2>1, <2>3, <2>4, <2>5, <2>8
<1>5. QED
  BY <1>3, <1>4

(* The same, where the new names are known to be those of T.                *)
LEMMA SumRenamed ==
  ASSUME NEW f, NEW g, NEW S, IsFiniteSet(S), NEW h, NEW T, h \in [S -> T],
         \A x, y \in S : h[x] = h[y] => x = y,
         \A y \in T : \E x \in S : h[x] = y,
         \A x \in S : f[x] = g[h[x]] /\ f[x] \in Int
  PROVE  SumOf(f, S) = SumOf(g, T)
<1>1. SumOf(f, S) = SumOf(g, {h[x] : x \in S})
  BY SumOfImage
<1>2. {h[x] : x \in S} = T
  OBVIOUS
<1>3. QED
  BY <1>1, <1>2

(* A sum over a part of a set counts the rest as nothing.                   *)
LEMMA SumWithin ==
  ASSUME NEW f, NEW g, NEW S, NEW T, IsFiniteSet(S), T \subseteq S,
         \A x \in T : f[x] \in Int /\ g[x] = f[x],
         \A x \in S \ T : g[x] = 0
  PROVE  SumOf(g, S) = SumOf(f, T)
<1>1. S = T \cup (S \ T) /\ T \cap (S \ T) = {} /\ IsFiniteSet(T) /\ IsFiniteSet(S \ T)
  BY FS_Subset
<1>2. SumOf(g, T \cup (S \ T)) = SumOf(g, T) + SumOf(g, S \ T)
  BY <1>1, SumJoin
<1>3. SumOf(g, T) = SumOf(f, T) /\ SumOf(f, T) \in Int
  BY <1>1, SumSame, SumInt
<1>4. SumOf(g, S \ T) = 0
  BY <1>1, SumZero
<1>5. SumOf(g, S) = SumOf(g, T \cup (S \ T))
  BY <1>1
<1>6. QED
  BY <1>2, <1>3, <1>4, <1>5
=============================================================================
