----------------------------- MODULE SumTheorems -----------------------------
(***************************************************************************)
(* Laws of SumOver on finite sets.  Each induction is the search for a     *)
(* minimal counterexample: a set of counterexamples among the subsets of a *)
(* finite set has a member no other is strictly contained in (MinimalSet). *)
(***************************************************************************)
EXTENDS Sums, FiniteSetTheorems, WellFoundedInduction, TLAPS

(* The member of s the fold takes first. *)
First(s) == CHOOSE x \in s : TRUE

(* g tabulates the partial sums of f over the subsets of S, by the         *)
(* recursion the library's fold is defined with.                           *)
Tabulates(g, f, S) ==
  g = [s \in SUBSET S |->
         IF s = {} THEN 0 ELSE f[First(s)] + g[s \ {First(s)}]]

(* A nonempty set of subsets of a finite set has a minimal member. *)
LEMMA MinimalSet ==
  ASSUME NEW S, IsFiniteSet(S), NEW T, T \subseteq SUBSET S, T # {}
  PROVE  \E m \in T : \A y \in T : y \subseteq m => y = m
<1>1. IsWellFoundedOn(StrictSubsetOrdering(S), SUBSET S)
  BY FS_StrictSubsetOrderingWellFounded, FS_FiniteSubsetsOfFinite
<1>2. PICK m \in T : \A y \in T : ~ (<<y, m>> \in StrictSubsetOrdering(S))
  BY <1>1, WFMin, Zenon
<1>3. QED
  BY <1>2 DEF StrictSubsetOrdering

LEMMA FirstIn == ASSUME NEW s, s # {} PROVE First(s) \in s
BY DEF First

LEMMA SumUnfold ==
  ASSUME NEW f, NEW S
  PROVE  SumOver(f, S) = (CHOOSE g : Tabulates(g, f, S))[S]
BY DEF SumOver, MapThenSumSet, MapThenFoldSet, Tabulates, First

(* Two tables agree wherever both are defined. *)
LEMMA TablesAgree ==
  ASSUME NEW f, NEW A, NEW B, IsFiniteSet(A),
         NEW g, Tabulates(g, f, A), NEW h, Tabulates(h, f, B),
         NEW s, s \subseteq A, s \subseteq B
  PROVE  g[s] = h[s]
<1> DEFINE Bad == {u \in SUBSET A : u \subseteq B /\ g[u] # h[u]}
<1>1. SUFFICES ASSUME Bad # {} PROVE FALSE
  OBVIOUS
<1> Bad \subseteq SUBSET A
  OBVIOUS
<1> HIDE DEF Bad
<1>2. PICK m \in Bad : \A y \in Bad : y \subseteq m => y = m
  BY <1>1, MinimalSet
<1> USE DEF Bad
<1>3. m # {} BY <1>2 DEF Tabulates
<1>4. First(m) \in m BY <1>3, FirstIn
<1>5. m \ {First(m)} \notin Bad BY <1>2, <1>4
<1>6. g[m \ {First(m)}] = h[m \ {First(m)}] BY <1>5, <1>2
<1>7. g[m] = f[First(m)] + g[m \ {First(m)}] BY <1>3, <1>2 DEF Tabulates
<1>8. h[m] = f[First(m)] + h[m \ {First(m)}] BY <1>3, <1>2 DEF Tabulates
<1>9. QED BY <1>2, <1>6, <1>7, <1>8

(* A finite set has a table. *)
LEMMA TableExists ==
  ASSUME NEW f, NEW S, IsFiniteSet(S)
  PROVE  \E g : Tabulates(g, f, S)
<1> DEFINE Bad == {u \in SUBSET S : ~ \E g : Tabulates(g, f, u)}
<1>1. SUFFICES ASSUME Bad # {} PROVE FALSE
  OBVIOUS
<1> Bad \subseteq SUBSET S
  OBVIOUS
<1> HIDE DEF Bad
<1>2. PICK m \in Bad : \A y \in Bad : y \subseteq m => y = m
  BY <1>1, MinimalSet
<1> USE DEF Bad
<1> DEFINE t(u) == CHOOSE g : Tabulates(g, f, u)
           w == [s \in SUBSET m |-> IF s = m THEN IF m = {} THEN 0 ELSE f[First(m)] + t(m \ {First(m)})[m \ {First(m)}] ELSE t(s)[s]]
<1> IsFiniteSet(m) BY <1>2, FS_Subset
<1>3. ASSUME NEW u \in SUBSET m, u # m PROVE Tabulates(t(u), f, u)
  <2>1. u \notin Bad BY <1>2, <1>3
  <2>2. \E g : Tabulates(g, f, u) BY <2>1, <1>2
  <2>3. QED BY <2>2, Zenon
<1>4. ASSUME NEW u \in SUBSET m, u # m, u # {}
      PROVE t(u)[u] = f[First(u)] + t(u \ {First(u)})[u \ {First(u)}]
  <2> DEFINE v == u \ {First(u)}
  <2>1. First(u) \in u BY <1>4, FirstIn
  <2>2. /\ v \in SUBSET m /\ v # m /\ v \subseteq u /\ v \subseteq v BY <2>1
  <2>3. Tabulates(t(u), f, u) /\ Tabulates(t(v), f, v) BY <1>3, <1>4, <2>2
  <2>4. IsFiniteSet(u) BY FS_Subset
  <2> HIDE DEF t, v
  <2>5. t(u)[v] = t(v)[v] BY <2>2, <2>3, <2>4, TablesAgree
  <2>6. t(u)[u] = f[First(u)] + t(u)[v] BY <2>3, <1>4 DEF Tabulates, v
  <2>7. QED BY <2>5, <2>6 DEF v
<1>5. ASSUME m # {} PROVE t({})[{}] = 0
  <2>1. Tabulates(t({}), f, {}) BY <1>3, <1>5
  <2>2. QED BY <2>1 DEF Tabulates
<1> HIDE DEF t
<1>6. ASSUME NEW s \in SUBSET m
      PROVE w[s] = IF s = {} THEN 0 ELSE f[First(s)] + w[s \ {First(s)}]
  <2>1. CASE s = {} BY <2>1, <1>5
  <2>2. CASE s # {}
    <3>1. First(s) \in s BY <2>2, FirstIn
    <3>2. s \ {First(s)} \in SUBSET m /\ s \ {First(s)} # m BY <3>1
    <3>3. w[s \ {First(s)}] = t(s \ {First(s)})[s \ {First(s)}] BY <3>2
    <3>4. CASE s = m BY <3>3, <3>4, <2>2
    <3>5. CASE s # m BY <3>3, <3>5, <2>2, <1>4
    <3>6. QED BY <3>4, <3>5
  <2>3. QED BY <2>1, <2>2
<1>7. w = [s \in SUBSET m |-> IF s = {} THEN 0 ELSE f[First(s)] + w[s \ {First(s)}]]
  <2> DEFINE e(s) == IF s = {} THEN 0 ELSE f[First(s)] + w[s \ {First(s)}]
  <2>1. w = [s \in SUBSET m |-> w[s]] OBVIOUS
  <2> HIDE DEF w
  <2>2. \A s \in SUBSET m : w[s] = e(s) BY <1>6
  <2>3. QED BY <2>1, <2>2, Zenon
<1>8. QED BY <1>2, <1>7 DEF Tabulates

(* The sum over a finite set, read off any table that covers it. *)
LEMMA SumIsTabled ==
  ASSUME NEW f, NEW S, IsFiniteSet(S), NEW T, T \subseteq S, NEW g, Tabulates(g, f, S)
  PROVE  SumOver(f, T) = g[T]
<1>1. IsFiniteSet(T) /\ T \subseteq T BY FS_Subset
<1>2. \E h : Tabulates(h, f, T) BY <1>1, TableExists
<1>3. ASSUME NEW h, Tabulates(h, f, T) PROVE h[T] = g[T]
  <2>1. \A s : s \subseteq T /\ s \subseteq S => h[s] = g[s]
    BY <1>1, <1>3, TablesAgree
  <2>2. QED BY <1>1, <2>1
<1>4. QED BY <1>2, <1>3, SumUnfold, Zenon

(* The sum over the empty set is zero. *)
LEMMA SumEmpty == ASSUME NEW f PROVE SumOver(f, {}) = 0
<1>1. PICK g : Tabulates(g, f, {}) BY TableExists, FS_EmptySet
<1>2. g[{}] = 0 BY <1>1 DEF Tabulates
<1>3. SumOver(f, {}) = g[{}] BY <1>1, SumIsTabled, FS_EmptySet
<1>4. QED BY <1>2, <1>3

LEMMA SumFirst ==
  ASSUME NEW f, NEW S, IsFiniteSet(S), S # {}
  PROVE  SumOver(f, S) = f[First(S)] + SumOver(f, S \ {First(S)})
<1>1. PICK g : Tabulates(g, f, S) BY TableExists
<1>2. g[S] = f[First(S)] + g[S \ {First(S)}] BY <1>1 DEF Tabulates
<1>3. SumOver(f, S) = g[S] BY <1>1, SumIsTabled
<1>4. SumOver(f, S \ {First(S)}) = g[S \ {First(S)}] BY <1>1, SumIsTabled
<1>5. QED BY <1>2, <1>3, <1>4

(* Integers sum to an integer. *)
LEMMA SumType ==
  ASSUME NEW f, NEW S, IsFiniteSet(S), \A x \in S : f[x] \in Int
  PROVE  SumOver(f, S) \in Int
<1> DEFINE Bad == {u \in SUBSET S : SumOver(f, u) \notin Int}
<1>1. SUFFICES ASSUME Bad # {} PROVE FALSE
  OBVIOUS
<1> Bad \subseteq SUBSET S
  OBVIOUS
<1> HIDE DEF Bad
<1>2. PICK m \in Bad : \A y \in Bad : y \subseteq m => y = m
  BY <1>1, MinimalSet
<1> USE DEF Bad
<1>3. m # {}
  <2>1. SumOver(f, {}) \in Int BY SumEmpty
  <2>2. QED BY <1>2, <2>1
<1>4. First(m) \in m BY <1>3, FirstIn
<1>5. IsFiniteSet(m) BY <1>2, FS_Subset
<1>6. SumOver(f, m \ {First(m)}) \in Int BY <1>2, <1>4
<1>7. SumOver(f, m) = f[First(m)] + SumOver(f, m \ {First(m)}) BY <1>3, <1>5, SumFirst
<1>8. QED BY <1>2, <1>4, <1>6, <1>7

(* Any member may be taken out of the sum. *)
LEMMA SumRemove ==
  ASSUME NEW f, NEW S, IsFiniteSet(S), \A x \in S : f[x] \in Int, NEW r \in S
  PROVE  SumOver(f, S) = f[r] + SumOver(f, S \ {r})
<1> DEFINE Holds(u, x) == SumOver(f, u) = f[x] + SumOver(f, u \ {x})
           Bad == {u \in SUBSET S : \E x \in u : ~ Holds(u, x)}
<1>1. SUFFICES ASSUME Bad # {} PROVE FALSE
  OBVIOUS
<1> Bad \subseteq SUBSET S
  OBVIOUS
<1> HIDE DEF Bad
<1>2. PICK m \in Bad : \A y \in Bad : y \subseteq m => y = m
  BY <1>1, MinimalSet
<1> USE DEF Bad
<1>3. PICK x \in m : ~ Holds(m, x)
  BY <1>2
<1> DEFINE c == First(m)
<1>4. m \subseteq S /\ c \in m /\ m # {} BY <1>2, <1>3, FirstIn
<1>5. Holds(m, c) BY <1>4, SumFirst, FS_Subset
<1> HIDE DEF c
<1>6. c # x BY <1>3, <1>5
<1>7. m \ {c} \notin Bad /\ m \ {x} \notin Bad BY <1>2, <1>3, <1>4
<1>8. Holds(m \ {c}, x) /\ Holds(m \ {x}, c) BY <1>3, <1>4, <1>6, <1>7
<1>9. (m \ {c}) \ {x} = (m \ {x}) \ {c} OBVIOUS
<1>10. SumOver(f, (m \ {x}) \ {c}) \in Int
  <2> DEFINE u == (m \ {x}) \ {c}
  <2>1. u \subseteq S BY <1>4
  <2>2. IsFiniteSet(u) BY <2>1, FS_Subset
  <2> HIDE DEF u
  <2>3. SumOver(f, u) \in Int BY <2>1, <2>2, SumType
  <2>4. QED BY <2>3 DEF u
<1>11. f[x] \in Int /\ f[c] \in Int BY <1>3, <1>4
<1> DEFINE rest == SumOver(f, (m \ {x}) \ {c})
<1>12. SumOver(f, m) = f[c] + (f[x] + rest) BY <1>5, <1>8, <1>9
<1>13. SumOver(f, m \ {x}) = f[c] + rest BY <1>8
<1>14. rest \in Int BY <1>10
<1> HIDE DEF rest
<1>15. f[c] + (f[x] + rest) = f[x] + (f[c] + rest) BY <1>11, <1>14
<1>16. QED BY <1>3, <1>12, <1>13, <1>15

(* The sum depends only on the values summed. *)
LEMMA SumSame ==
  ASSUME NEW f, NEW g, NEW S, IsFiniteSet(S), \A x \in S : f[x] = g[x]
  PROVE  SumOver(f, S) = SumOver(g, S)
<1> DEFINE Bad == {u \in SUBSET S : SumOver(f, u) # SumOver(g, u)}
<1>1. SUFFICES ASSUME Bad # {} PROVE FALSE
  OBVIOUS
<1> Bad \subseteq SUBSET S
  OBVIOUS
<1> HIDE DEF Bad
<1>2. PICK m \in Bad : \A y \in Bad : y \subseteq m => y = m
  BY <1>1, MinimalSet
<1> USE DEF Bad
<1>3. m # {} BY <1>2, SumEmpty
<1>4. First(m) \in m BY <1>3, FirstIn
<1>5. IsFiniteSet(m) BY <1>2, FS_Subset
<1>6. SumOver(f, m \ {First(m)}) = SumOver(g, m \ {First(m)}) BY <1>2, <1>4
<1>7. /\ SumOver(f, m) = f[First(m)] + SumOver(f, m \ {First(m)})
      /\ SumOver(g, m) = g[First(m)] + SumOver(g, m \ {First(m)})
  BY <1>3, <1>5, SumFirst
<1>8. QED BY <1>2, <1>4, <1>6, <1>7

(* Changing one value changes the sum by as much. *)
LEMMA SumChange ==
  ASSUME NEW f, NEW g, NEW S, IsFiniteSet(S), NEW r \in S,
         \A x \in S : f[x] \in Int /\ g[x] \in Int,
         \A x \in S \ {r} : f[x] = g[x]
  PROVE  SumOver(g, S) = SumOver(f, S) + (g[r] - f[r])
<1> DEFINE T == S \ {r}
<1>1. IsFiniteSet(T) /\ T \subseteq S BY FS_Subset
<1>2. SumOver(f, S) = f[r] + SumOver(f, T) BY SumRemove
<1>3. SumOver(g, S) = g[r] + SumOver(g, T) BY SumRemove
<1> HIDE DEF T
<1>4. SumOver(f, T) = SumOver(g, T) BY <1>1, SumSame DEF T
<1>5. SumOver(f, T) \in Int BY <1>1, SumType
<1>6. QED BY <1>2, <1>3, <1>4, <1>5

(* Zeroes sum to zero. *)
LEMMA SumZero ==
  ASSUME NEW f, NEW S, IsFiniteSet(S), \A x \in S : f[x] = 0
  PROVE  SumOver(f, S) = 0
<1> DEFINE Bad == {u \in SUBSET S : SumOver(f, u) # 0}
<1>1. SUFFICES ASSUME Bad # {} PROVE FALSE
  OBVIOUS
<1> Bad \subseteq SUBSET S
  OBVIOUS
<1> HIDE DEF Bad
<1>2. PICK m \in Bad : \A y \in Bad : y \subseteq m => y = m
  BY <1>1, MinimalSet
<1> USE DEF Bad
<1>3. m # {} BY <1>2, SumEmpty
<1>4. First(m) \in m BY <1>3, FirstIn
<1>5. IsFiniteSet(m) BY <1>2, FS_Subset
<1>6. SumOver(f, m \ {First(m)}) = 0 BY <1>2, <1>4
<1>7. SumOver(f, m) = f[First(m)] + SumOver(f, m \ {First(m)})
  BY <1>3, <1>5, SumFirst
<1>8. QED BY <1>2, <1>4, <1>6, <1>7
=============================================================================
