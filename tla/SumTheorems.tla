---------------------------- MODULE SumTheorems ----------------------------
(***************************************************************************)
(* Facts about SumFunctionOnSet and SumFunction, the sums the accounting   *)
(* of this project is written with.  The library states such facts for an  *)
(* arbitrary operator; here they are proved for the function that is       *)
(* summed, by taking a smallest set for which they would fail.             *)
(***************************************************************************)
EXTENDS Integers, FiniteSets, FiniteSetsExt, FiniteSetTheorems,
        WellFoundedInduction, TLAPS

\* The element a fold takes first.
Pick(s) == CHOOSE x \in s : TRUE

\* g is the table of the sums of f over the subsets of S.
SumTable(g, f, S) ==
    g = [s \in SUBSET S |->
            IF s = {} THEN 0 ELSE f[Pick(s)] + g[s \ {Pick(s)}]]

\* Among the subsets of a finite set, a collection that is not empty has a
\* member none of whose proper subsets is in the collection.
LEMMA SmallestSubset ==
    ASSUME NEW S, IsFiniteSet(S), NEW C \in SUBSET (SUBSET S), C # {}
    PROVE  \E T \in C : \A U \in SUBSET T : U # T => U \notin C
<1>1. IsWellFoundedOn(StrictSubsetOrdering(S), FiniteSubsetsOf(S))
    BY FS_StrictSubsetOrderingWellFounded
<1>2. FiniteSubsetsOf(S) = SUBSET S
    BY FS_FiniteSubsetsOfFinite
<1>3. PICK T \in C : \A U \in C : ~(<<U, T>> \in StrictSubsetOrdering(S))
    BY <1>1, <1>2, WFMin, ZenonT(40)
<1>4. ASSUME NEW U \in SUBSET T, U # T, U \in C
      PROVE  FALSE
  <2>1. U \in SUBSET S /\ T \in SUBSET S
    BY <1>4
  <2>2. <<U, T>> \in StrictSubsetOrdering(S)
    BY <1>4, <2>1, <1>2 DEF StrictSubsetOrdering
  <2> QED  BY <2>2, <1>3, <1>4
<1> QED  BY <1>3, <1>4

\* The fold unfolds to the entry of S in a table of the sums.
LEMMA SumIsTable ==
    ASSUME NEW f, NEW S
    PROVE  SumFunctionOnSet(f, S) = (CHOOSE g : SumTable(g, f, S))[S]
BY DEF SumFunctionOnSet, FoldFunctionOnSet, MapThenFoldSet, SumTable, Pick

\* The picked element is a member.
LEMMA PickIn ==
    ASSUME NEW s, s # {}
    PROVE  Pick(s) \in s
BY DEF Pick

\* What a table contains.
LEMMA TableEntry ==
    ASSUME NEW f, NEW S, NEW g, SumTable(g, f, S)
    PROVE  \A s \in SUBSET S :
             g[s] = IF s = {} THEN 0 ELSE f[Pick(s)] + g[s \ {Pick(s)}]
BY DEF SumTable

\* Two tables agree on the subsets they share.
LEMMA TablesAgree ==
    ASSUME NEW f, NEW S, IsFiniteSet(S), NEW T, NEW g, NEW h,
           S \subseteq T, SumTable(g, f, S), SumTable(h, f, T)
    PROVE  \A s \in SUBSET S : g[s] = h[s]
<1> DEFINE C == {s \in SUBSET S : g[s] # h[s]}
<1>1. \A s \in SUBSET S :
        g[s] = IF s = {} THEN 0 ELSE f[Pick(s)] + g[s \ {Pick(s)}]
    BY TableEntry
<1>2. \A s \in SUBSET T :
        h[s] = IF s = {} THEN 0 ELSE f[Pick(s)] + h[s \ {Pick(s)}]
  <2>1. SumTable(h, f, T)
    OBVIOUS
  <2> QED  BY ONLY <2>1, TableEntry
<1>3. ASSUME C # {}
      PROVE  FALSE
  <2>1. C \in SUBSET (SUBSET S)
    OBVIOUS
  <2> HIDE DEF C
  <2>2. PICK s \in C : \A U \in SUBSET s : U # s => U \notin C
    BY <1>3, <2>1, SmallestSubset
  <2>3. s \in SUBSET S /\ s \in SUBSET T /\ g[s] # h[s]
    BY <2>2 DEF C
  <2>4. s # {}
    BY <2>3, TableEntry, SMTT(20)
  <2>5. Pick(s) \in s
    BY <2>4, PickIn
  <2>6. s \ {Pick(s)} \in SUBSET s /\ s \ {Pick(s)} # s
    BY <2>5
  <2>7. s \ {Pick(s)} \notin C
    BY <2>2, <2>6
  <2>8. g[s \ {Pick(s)}] = h[s \ {Pick(s)}]
    BY <2>7, <2>3 DEF C
  <2>9. g[s] = IF s = {} THEN 0 ELSE f[Pick(s)] + g[s \ {Pick(s)}]
    BY <2>3, <1>1
  <2>10. h[s] = IF s = {} THEN 0 ELSE f[Pick(s)] + h[s \ {Pick(s)}]
    BY <2>3, <1>2
  <2> QED  BY <2>3, <2>4, <2>8, <2>9, <2>10
<1> QED  BY <1>3

\* A table of a set, cut down to a subset, is a table of the subset.
LEMMA TableOfSubset ==
    ASSUME NEW f, NEW S, NEW T, S \subseteq T, NEW g, SumTable(g, f, T)
    PROVE  SumTable([s \in SUBSET S |-> g[s]], f, S)
<1> DEFINE h == [s \in SUBSET S |-> g[s]]
<1>1. ASSUME NEW s \in SUBSET S
      PROVE  h[s] = IF s = {} THEN 0 ELSE f[Pick(s)] + h[s \ {Pick(s)}]
  <2>1. s \in SUBSET T /\ s \ {Pick(s)} \in SUBSET S
    OBVIOUS
  <2>2. g[s] = IF s = {} THEN 0 ELSE f[Pick(s)] + g[s \ {Pick(s)}]
    BY <2>1, TableEntry
  <2> QED  BY <2>1, <2>2
<1>2. h = [s \in SUBSET S |-> h[s]]
    OBVIOUS
<1> HIDE DEF h
<1>3. h = [s \in SUBSET S |->
              IF s = {} THEN 0 ELSE f[Pick(s)] + h[s \ {Pick(s)}]]
    BY <1>1, <1>2
<1>4. SumTable(h, f, S)
    BY <1>3 DEF SumTable
<1> QED  BY <1>4 DEF h

\* If a set has a table, the sum is its entry.
LEMMA SumFromTable ==
    ASSUME NEW f, NEW S, IsFiniteSet(S), NEW g, SumTable(g, f, S)
    PROVE  SumFunctionOnSet(f, S) = g[S]
<1> DEFINE c == CHOOSE h : SumTable(h, f, S)
<1>1. SumTable(c, f, S)
    BY Zenon
<1>2. SumFunctionOnSet(f, S) = c[S]
    BY SumIsTable
<1> HIDE DEF c
<1>3. c[S] = g[S]
    BY <1>1, TablesAgree
<1> QED  BY <1>2, <1>3

\* Every finite set has a table.
LEMMA TableExists ==
    ASSUME NEW f, NEW S, IsFiniteSet(S)
    PROVE  \E g : SumTable(g, f, S)
<1> DEFINE C == {s \in SUBSET S : ~ \E g : SumTable(g, f, s)}
<1>1. ASSUME C # {}
      PROVE  FALSE
  <2>1. C \in SUBSET (SUBSET S)
    OBVIOUS
  <2>2. \A s : s \in C <=> s \in SUBSET S /\ ~ \E g : SumTable(g, f, s)
    OBVIOUS
  <2> HIDE DEF C
  <2>3. PICK s \in C : \A U \in SUBSET s : U # s => U \notin C
    BY <1>1, <2>1, SmallestSubset
  <2>4. s \in SUBSET S /\ ~ \E g : SumTable(g, f, s)
    BY <2>2, <2>3
  <2>5. \A U \in SUBSET s : U # s => \E g : SumTable(g, f, U)
    BY <2>2, <2>3, <2>4
  <2>6. \A U \in SUBSET s : IsFiniteSet(U)
    BY <2>4, FS_Subset
  <2> DEFINE g == [u \in SUBSET s |->
                     IF u = {} THEN 0
                     ELSE f[Pick(u)] + SumFunctionOnSet(f, u \ {Pick(u)})]
  <2>7. ASSUME NEW u \in SUBSET s, u # s
        PROVE  g[u] = SumFunctionOnSet(f, u)
    <3>1. PICK h : SumTable(h, f, u)
      BY <2>5, <2>7
    <3>2. SumFunctionOnSet(f, u) = h[u]
      BY <3>1, <2>6, SumFromTable
    <3>3. h[u] = IF u = {} THEN 0 ELSE f[Pick(u)] + h[u \ {Pick(u)}]
      BY <3>1, TableEntry
    <3>4. ASSUME u # {}
          PROVE  h[u \ {Pick(u)}] = SumFunctionOnSet(f, u \ {Pick(u)})
      <4> DEFINE v == u \ {Pick(u)}
      <4>1. v \subseteq u /\ v \in SUBSET s
        OBVIOUS
      <4> HIDE DEF v
      <4>2. SumTable([w \in SUBSET v |-> h[w]], f, v)
        BY <3>1, <4>1, TableOfSubset
      <4>3. SumFunctionOnSet(f, v) = [w \in SUBSET v |-> h[w]][v]
        BY <4>1, <4>2, <2>6, SumFromTable
      <4>4. SumFunctionOnSet(f, v) = h[v]
        BY <4>3
      <4> QED  BY <4>4 DEF v
    <3>5. g[u] = IF u = {} THEN 0
                 ELSE f[Pick(u)] + SumFunctionOnSet(f, u \ {Pick(u)})
      OBVIOUS
    <3> QED  BY <3>2, <3>3, <3>4, <3>5
  <2>8. \A u \in SUBSET s :
          g[u] = IF u = {} THEN 0
                 ELSE f[Pick(u)] + SumFunctionOnSet(f, u \ {Pick(u)})
    OBVIOUS
  <2>9. g = [u \in SUBSET s |-> g[u]]
    OBVIOUS
  <2> HIDE DEF g
  <2>10. ASSUME NEW u \in SUBSET s
         PROVE  g[u] = IF u = {} THEN 0 ELSE f[Pick(u)] + g[u \ {Pick(u)}]
    <3>1. CASE u = {}
      BY <3>1, <2>8
    <3>2. CASE u # {}
      <4>1. Pick(u) \in u
        BY <3>2, PickIn
      <4>2. u \ {Pick(u)} \in SUBSET s /\ u \ {Pick(u)} # s
        BY <4>1
      <4>3. g[u \ {Pick(u)}] = SumFunctionOnSet(f, u \ {Pick(u)})
        BY <4>2, <2>7
      <4> QED  BY <3>2, <4>3, <2>8
    <3> QED  BY <3>1, <3>2
  <2>11. g = [u \in SUBSET s |->
                IF u = {} THEN 0 ELSE f[Pick(u)] + g[u \ {Pick(u)}]]
    BY <2>9, <2>10
  <2>12. SumTable(g, f, s)
    BY <2>11 DEF SumTable
  <2> QED  BY <2>4, <2>12
<1>2. S \notin C
    BY <1>1
<1> QED  BY <1>2

\* The sum over no index is zero.
THEOREM SumEmpty ==
    ASSUME NEW f
    PROVE  SumFunctionOnSet(f, {}) = 0
<1>1. IsFiniteSet({})
    BY FS_EmptySet
<1>2. PICK g : SumTable(g, f, {})
    BY <1>1, TableExists
<1>3. SumFunctionOnSet(f, {}) = g[{}]
    BY <1>1, <1>2, SumFromTable
<1>4. g[{}] = 0
    BY <1>2, TableEntry
<1> QED  BY <1>3, <1>4

\* The fold takes the picked element and goes on with the rest.
LEMMA SumUnfold ==
    ASSUME NEW f, NEW S, IsFiniteSet(S), S # {}
    PROVE  /\ Pick(S) \in S
           /\ SumFunctionOnSet(f, S) =
                f[Pick(S)] + SumFunctionOnSet(f, S \ {Pick(S)})
<1>1. PICK g : SumTable(g, f, S)
    BY TableExists
<1>2. SumFunctionOnSet(f, S) = g[S]
    BY <1>1, SumFromTable
<1>3. Pick(S) \in S
    BY PickIn
<1> DEFINE v == S \ {Pick(S)}
<1>4. g[S] = f[Pick(S)] + g[v]
    BY <1>1, TableEntry
<1>5. v \subseteq S
    OBVIOUS
<1> HIDE DEF v
<1>6. IsFiniteSet(v)
    BY <1>5, FS_Subset
<1>7. SumTable([w \in SUBSET v |-> g[w]], f, v)
    BY <1>1, <1>5, TableOfSubset
<1>8. SumFunctionOnSet(f, v) = [w \in SUBSET v |-> g[w]][v]
    BY <1>6, <1>7, SumFromTable
<1>9. SumFunctionOnSet(f, v) = g[v]
    BY <1>8
<1> QED  BY <1>2, <1>3, <1>4, <1>9 DEF v

-----------------------------------------------------------------------------
(* The facts the proofs of the components cite.                             *)

\* A sum of integers is an integer.
THEOREM SumInt ==
    ASSUME NEW f, NEW S, IsFiniteSet(S), \A x \in S : f[x] \in Int
    PROVE  SumFunctionOnSet(f, S) \in Int
<1> DEFINE C == {s \in SUBSET S : SumFunctionOnSet(f, s) \notin Int}
<1>1. ASSUME C # {}
      PROVE  FALSE
  <2>0. \A s : s \in C <=> s \in SUBSET S /\ SumFunctionOnSet(f, s) \notin Int
    OBVIOUS
  <2>1. C \in SUBSET (SUBSET S)
    OBVIOUS
  <2> HIDE DEF C
  <2>2. PICK s \in C : \A U \in SUBSET s : U # s => U \notin C
    BY <1>1, <2>1, SmallestSubset
  <2>3. s \in SUBSET S /\ SumFunctionOnSet(f, s) \notin Int
    BY <2>0, <2>2
  <2>4. s # {} /\ IsFiniteSet(s)
    <3>1. s # {}
      BY <2>3, SumEmpty
    <3>2. IsFiniteSet(s)
      BY <2>3, FS_Subset
    <3> QED  BY <3>1, <3>2
  <2> DEFINE v == s \ {Pick(s)}
  <2>5. Pick(s) \in s /\ SumFunctionOnSet(f, s) = f[Pick(s)] + SumFunctionOnSet(f, v)
    BY <2>4, SumUnfold
  <2>6. v \in SUBSET s /\ v # s /\ v \in SUBSET S
    BY <2>3, <2>5
  <2>7. SumFunctionOnSet(f, v) \in Int
    BY <2>0, <2>2, <2>6
  <2>8. f[Pick(s)] \in Int
    BY <2>3, <2>5
  <2> QED  BY <2>3, <2>5, <2>7, <2>8
<1>2. S \notin C
    BY <1>1
<1> QED  BY <1>2

\* A sum of naturals is a natural.
THEOREM SumNat ==
    ASSUME NEW f, NEW S, IsFiniteSet(S), \A x \in S : f[x] \in Nat
    PROVE  SumFunctionOnSet(f, S) \in Nat
<1> DEFINE C == {s \in SUBSET S : SumFunctionOnSet(f, s) \notin Nat}
<1>1. ASSUME C # {}
      PROVE  FALSE
  <2>0. \A s : s \in C <=> s \in SUBSET S /\ SumFunctionOnSet(f, s) \notin Nat
    OBVIOUS
  <2>1. C \in SUBSET (SUBSET S)
    OBVIOUS
  <2> HIDE DEF C
  <2>2. PICK s \in C : \A U \in SUBSET s : U # s => U \notin C
    BY <1>1, <2>1, SmallestSubset
  <2>3. s \in SUBSET S /\ SumFunctionOnSet(f, s) \notin Nat
    BY <2>0, <2>2
  <2>4. s # {} /\ IsFiniteSet(s)
    <3>1. s # {}
      BY <2>3, SumEmpty
    <3>2. IsFiniteSet(s)
      BY <2>3, FS_Subset
    <3> QED  BY <3>1, <3>2
  <2> DEFINE v == s \ {Pick(s)}
  <2>5. Pick(s) \in s /\ SumFunctionOnSet(f, s) = f[Pick(s)] + SumFunctionOnSet(f, v)
    BY <2>4, SumUnfold
  <2>6. v \in SUBSET s /\ v # s /\ v \in SUBSET S
    BY <2>3, <2>5
  <2>7. SumFunctionOnSet(f, v) \in Nat
    BY <2>0, <2>2, <2>6
  <2>8. f[Pick(s)] \in Nat
    BY <2>3, <2>5
  <2> QED  BY <2>3, <2>5, <2>7, <2>8
<1>2. S \notin C
    BY <1>1
<1> QED  BY <1>2

\* The sum does not depend on which element is taken first.
THEOREM SumRemove ==
    ASSUME NEW f, NEW S, IsFiniteSet(S), \A x \in S : f[x] \in Int, NEW x \in S
    PROVE  SumFunctionOnSet(f, S) = f[x] + SumFunctionOnSet(f, S \ {x})
<1> DEFINE Removable(s, y) ==
             SumFunctionOnSet(f, s) = f[y] + SumFunctionOnSet(f, s \ {y})
           C == {s \in SUBSET S : \E y \in s : ~Removable(s, y)}
<1>1. ASSUME C # {}
      PROVE  FALSE
  <2>0. \A s : s \in C <=> s \in SUBSET S /\ (\E y \in s : ~Removable(s, y))
    OBVIOUS
  <2>1. C \in SUBSET (SUBSET S)
    OBVIOUS
  <2> HIDE DEF C
  <2>2. PICK s \in C : \A U \in SUBSET s : U # s => U \notin C
    BY <1>1, <2>1, SmallestSubset
  <2>3. PICK y \in s : ~Removable(s, y)
    BY <2>0, <2>2
  <2>4. s \in SUBSET S /\ s # {} /\ IsFiniteSet(s)
    <3>1. s \in SUBSET S
      BY <2>0, <2>2
    <3>2. IsFiniteSet(s)
      BY <3>1, FS_Subset
    <3> QED  BY <2>3, <3>1, <3>2
  <2>5. PICK z : z = Pick(s)
    OBVIOUS
  <2>6. z \in s /\ SumFunctionOnSet(f, s) = f[z] + SumFunctionOnSet(f, s \ {z})
    BY <2>4, <2>5, SumUnfold
  <2>7. z # y
    BY <2>3, <2>6
  <2>8. PICK v : v = s \ {z}
    OBVIOUS
  <2>9. PICK w : w = s \ {y}
    OBVIOUS
  <2>10. /\ v \in SUBSET S /\ v # s /\ y \in v /\ v \in SUBSET s
         /\ w \in SUBSET S /\ w # s /\ z \in w /\ w \in SUBSET s
    BY <2>3, <2>4, <2>6, <2>7, <2>8, <2>9
  <2>11. v \notin C /\ w \notin C
    BY <2>2, <2>10
  <2>12. Removable(v, y) /\ Removable(w, z)
    BY <2>0, <2>10, <2>11
  <2>13. PICK r : r = s \ {y, z}
    OBVIOUS
  <2>14. v \ {y} = r /\ w \ {z} = r /\ r \in SUBSET S
    BY <2>4, <2>8, <2>9, <2>13
  <2>15. /\ SumFunctionOnSet(f, v) = f[y] + SumFunctionOnSet(f, r)
         /\ SumFunctionOnSet(f, w) = f[z] + SumFunctionOnSet(f, r)
    BY <2>12, <2>14
  <2>16. IsFiniteSet(r)
    BY <2>14, FS_Subset
  <2>17. SumFunctionOnSet(f, r) \in Int
    BY <2>14, <2>16, SumInt
  <2>18. f[y] \in Int /\ f[z] \in Int
    BY <2>3, <2>4, <2>6
  <2>19. SumFunctionOnSet(f, s) = f[z] + SumFunctionOnSet(f, v)
    BY <2>6, <2>8
  <2>20. SumFunctionOnSet(f, s) # f[y] + SumFunctionOnSet(f, w)
    BY <2>3, <2>9
  <2> QED  BY <2>15, <2>17, <2>18, <2>19, <2>20
<1>2. S \notin C
    BY <1>1
<1> QED  BY <1>2

\* Functions that agree on the indices have the same sum.
THEOREM SumAgree ==
    ASSUME NEW f, NEW g, NEW S, IsFiniteSet(S), \A x \in S : f[x] = g[x]
    PROVE  SumFunctionOnSet(f, S) = SumFunctionOnSet(g, S)
<1> DEFINE C == {s \in SUBSET S : SumFunctionOnSet(f, s) # SumFunctionOnSet(g, s)}
<1>1. ASSUME C # {}
      PROVE  FALSE
  <2>0. \A s : s \in C <=> s \in SUBSET S /\ SumFunctionOnSet(f, s) # SumFunctionOnSet(g, s)
    OBVIOUS
  <2>1. C \in SUBSET (SUBSET S)
    OBVIOUS
  <2> HIDE DEF C
  <2>2. PICK s \in C : \A U \in SUBSET s : U # s => U \notin C
    BY <1>1, <2>1, SmallestSubset
  <2>3. s \in SUBSET S /\ SumFunctionOnSet(f, s) # SumFunctionOnSet(g, s)
    BY <2>0, <2>2
  <2>4. s # {} /\ IsFiniteSet(s)
    <3>1. s # {}
      BY <2>3, SumEmpty
    <3>2. IsFiniteSet(s)
      BY <2>3, FS_Subset
    <3> QED  BY <3>1, <3>2
  <2> DEFINE v == s \ {Pick(s)}
  <2>5. /\ Pick(s) \in s
        /\ SumFunctionOnSet(f, s) = f[Pick(s)] + SumFunctionOnSet(f, v)
        /\ SumFunctionOnSet(g, s) = g[Pick(s)] + SumFunctionOnSet(g, v)
    BY <2>4, SumUnfold
  <2>6. v \in SUBSET s /\ v # s /\ v \in SUBSET S
    BY <2>3, <2>5
  <2>7. SumFunctionOnSet(f, v) = SumFunctionOnSet(g, v)
    BY <2>0, <2>2, <2>6
  <2>8. f[Pick(s)] = g[Pick(s)]
    BY <2>3, <2>5
  <2> QED  BY <2>3, <2>5, <2>7, <2>8
<1>2. S \notin C
    BY <1>1
<1> QED  BY <1>2

\* A new index adds its value.
THEOREM SumAdd ==
    ASSUME NEW f, NEW S, IsFiniteSet(S), NEW x, x \notin S,
           \A y \in S \union {x} : f[y] \in Int
    PROVE  SumFunctionOnSet(f, S \union {x}) = f[x] + SumFunctionOnSet(f, S)
<1>1. IsFiniteSet(S \union {x})
    BY FS_AddElement
<1>2. (S \union {x}) \ {x} = S
    OBVIOUS
<1>3. x \in S \union {x}
    OBVIOUS
<1>4. SumFunctionOnSet(f, S \union {x})
        = f[x] + SumFunctionOnSet(f, (S \union {x}) \ {x})
    BY <1>1, <1>3, SumRemove
<1> QED  BY <1>2, <1>4

\* A function changed at one index changes its sum by as much.
THEOREM SumUpdate ==
    ASSUME NEW f, NEW g, NEW S, IsFiniteSet(S), NEW x \in S,
           \A y \in S : f[y] \in Int /\ g[y] \in Int,
           \A y \in S \ {x} : g[y] = f[y]
    PROVE  SumFunctionOnSet(g, S) = SumFunctionOnSet(f, S) + g[x] - f[x]
<1>1. IsFiniteSet(S \ {x})
    BY FS_RemoveElement
<1>2. SumFunctionOnSet(g, S \ {x}) = SumFunctionOnSet(f, S \ {x})
    BY <1>1, SumAgree
<1>3. SumFunctionOnSet(f, S) = f[x] + SumFunctionOnSet(f, S \ {x})
    BY SumRemove
<1>4. SumFunctionOnSet(g, S) = g[x] + SumFunctionOnSet(g, S \ {x})
    BY SumRemove
<1>5. SumFunctionOnSet(f, S \ {x}) \in Int
    BY <1>1, SumInt
<1>6. f[x] \in Int /\ g[x] \in Int
    OBVIOUS
<1> QED  BY <1>2, <1>3, <1>4, <1>5, <1>6

\* The indices may be summed in two parts.
THEOREM SumSplit ==
    ASSUME NEW f, NEW S, IsFiniteSet(S), NEW T \in SUBSET S,
           \A x \in S : f[x] \in Int
    PROVE  SumFunctionOnSet(f, S)
             = SumFunctionOnSet(f, T) + SumFunctionOnSet(f, S \ T)
<1> DEFINE Splits(s) == SumFunctionOnSet(f, S)
                          = SumFunctionOnSet(f, s) + SumFunctionOnSet(f, S \ s)
           C == {s \in SUBSET S : ~Splits(s)}
<1>1. ASSUME C # {}
      PROVE  FALSE
  <2>0. \A s : s \in C <=> s \in SUBSET S /\ ~Splits(s)
    OBVIOUS
  <2>1. C \in SUBSET (SUBSET S)
    OBVIOUS
  <2> HIDE DEF C
  <2>2. PICK s \in C : \A U \in SUBSET s : U # s => U \notin C
    BY <1>1, <2>1, SmallestSubset
  <2>3. s \in SUBSET S /\ ~Splits(s)
    BY <2>0, <2>2
  <2>4. \A u \in SUBSET S : IsFiniteSet(u) /\ SumFunctionOnSet(f, u) \in Int
    <3> TAKE u \in SUBSET S
    <3>1. IsFiniteSet(u)
      BY FS_Subset
    <3> QED  BY <3>1, SumInt
  <2>5. s # {}
    <3>1. S \ {} = S /\ {} \in SUBSET S /\ S \in SUBSET S
      OBVIOUS
    <3>2. Splits({})
      BY <3>1, <2>4, SumEmpty
    <3> QED  BY <2>3, <3>2
  <2>6. PICK x : x \in s
    BY <2>5
  <2>7. PICK v : v = s \ {x}
    OBVIOUS
  <2>8. v \in SUBSET s /\ v # s /\ v \in SUBSET S
    BY <2>3, <2>6, <2>7
  <2>9. Splits(v)
    BY <2>0, <2>2, <2>8
  <2>10. SumFunctionOnSet(f, s) = f[x] + SumFunctionOnSet(f, v)
    BY <2>3, <2>4, <2>6, <2>7, SumRemove
  <2>11. PICK w : w = S \ v
    OBVIOUS
  <2>12. w \in SUBSET S /\ x \in w /\ w \ {x} = S \ s
    BY <2>3, <2>6, <2>7, <2>11
  <2>13. SumFunctionOnSet(f, w) = f[x] + SumFunctionOnSet(f, w \ {x})
    BY <2>4, <2>12, SumRemove
  <2>14. f[x] \in Int /\ S \ s \in SUBSET S
    BY <2>3, <2>6
  <2>15. SumFunctionOnSet(f, S) = SumFunctionOnSet(f, v) + SumFunctionOnSet(f, w)
    BY <2>9, <2>11
  <2>16. SumFunctionOnSet(f, w) = f[x] + SumFunctionOnSet(f, S \ s)
    BY <2>12, <2>13
  <2>17. SumFunctionOnSet(f, S)
           = SumFunctionOnSet(f, s) + SumFunctionOnSet(f, S \ s)
    <3>1. /\ SumFunctionOnSet(f, v) \in Int /\ SumFunctionOnSet(f, s) \in Int
          /\ SumFunctionOnSet(f, S \ s) \in Int
      BY <2>3, <2>4, <2>8, <2>14
    <3> QED  BY <2>10, <2>14, <2>15, <2>16, <3>1
  <2> QED  BY <2>3, <2>17
<1>2. T \notin C
    BY <1>1
<1> QED  BY <1>2

\* The sum grows with the function.
THEOREM SumMonotonic ==
    ASSUME NEW f, NEW g, NEW S, IsFiniteSet(S),
           \A x \in S : f[x] \in Int /\ g[x] \in Int /\ f[x] <= g[x]
    PROVE  SumFunctionOnSet(f, S) <= SumFunctionOnSet(g, S)
<1> DEFINE C == {s \in SUBSET S :
                   ~(SumFunctionOnSet(f, s) <= SumFunctionOnSet(g, s))}
<1>1. ASSUME C # {}
      PROVE  FALSE
  <2>0. \A s : s \in C <=> s \in SUBSET S
                           /\ ~(SumFunctionOnSet(f, s) <= SumFunctionOnSet(g, s))
    OBVIOUS
  <2>1. C \in SUBSET (SUBSET S)
    OBVIOUS
  <2> HIDE DEF C
  <2>2. PICK s \in C : \A U \in SUBSET s : U # s => U \notin C
    BY <1>1, <2>1, SmallestSubset
  <2>3. s \in SUBSET S /\ ~(SumFunctionOnSet(f, s) <= SumFunctionOnSet(g, s))
    BY <2>0, <2>2
  <2>4. s # {} /\ IsFiniteSet(s)
    <3>1. s # {}
      BY <2>3, SumEmpty
    <3>2. IsFiniteSet(s)
      BY <2>3, FS_Subset
    <3> QED  BY <3>1, <3>2
  <2>5. PICK v : v = s \ {Pick(s)}
    OBVIOUS
  <2>6. /\ Pick(s) \in s
        /\ SumFunctionOnSet(f, s) = f[Pick(s)] + SumFunctionOnSet(f, v)
        /\ SumFunctionOnSet(g, s) = g[Pick(s)] + SumFunctionOnSet(g, v)
    BY <2>4, <2>5, SumUnfold
  <2>7. v \in SUBSET s /\ v # s /\ v \in SUBSET S
    BY <2>3, <2>5, <2>6
  <2>8. SumFunctionOnSet(f, v) <= SumFunctionOnSet(g, v)
    BY <2>0, <2>2, <2>7
  <2>9. IsFiniteSet(v)
    BY <2>7, FS_Subset
  <2>10. SumFunctionOnSet(f, v) \in Int /\ SumFunctionOnSet(g, v) \in Int
    BY <2>7, <2>9, SumInt
  <2>11. /\ f[Pick(s)] \in Int /\ g[Pick(s)] \in Int
         /\ f[Pick(s)] <= g[Pick(s)]
    BY <2>3, <2>6
  <2> QED  BY <2>3, <2>6, <2>8, <2>10, <2>11
<1>2. S \notin C
    BY <1>1
<1> QED  BY <1>2

\* A sum of zeros is zero.
THEOREM SumZero ==
    ASSUME NEW f, NEW S, IsFiniteSet(S), \A x \in S : f[x] = 0
    PROVE  SumFunctionOnSet(f, S) = 0
<1> DEFINE C == {s \in SUBSET S : SumFunctionOnSet(f, s) # 0}
<1>1. ASSUME C # {}
      PROVE  FALSE
  <2>0. \A s : s \in C <=> s \in SUBSET S /\ SumFunctionOnSet(f, s) # 0
    OBVIOUS
  <2>1. C \in SUBSET (SUBSET S)
    OBVIOUS
  <2> HIDE DEF C
  <2>2. PICK s \in C : \A U \in SUBSET s : U # s => U \notin C
    BY <1>1, <2>1, SmallestSubset
  <2>3. s \in SUBSET S /\ SumFunctionOnSet(f, s) # 0
    BY <2>0, <2>2
  <2>4. s # {} /\ IsFiniteSet(s)
    <3>1. s # {}
      BY <2>3, SumEmpty
    <3>2. IsFiniteSet(s)
      BY <2>3, FS_Subset
    <3> QED  BY <3>1, <3>2
  <2>5. PICK v : v = s \ {Pick(s)}
    OBVIOUS
  <2>6. /\ Pick(s) \in s
        /\ SumFunctionOnSet(f, s) = f[Pick(s)] + SumFunctionOnSet(f, v)
    BY <2>4, <2>5, SumUnfold
  <2>7. v \in SUBSET s /\ v # s /\ v \in SUBSET S
    BY <2>3, <2>5, <2>6
  <2>8. SumFunctionOnSet(f, v) = 0 /\ f[Pick(s)] = 0
    BY <2>0, <2>2, <2>3, <2>6, <2>7
  <2> QED  BY <2>3, <2>6, <2>8
<1>2. S \notin C
    BY <1>1
<1> QED  BY <1>2

\* A sum of n equal values.
THEOREM SumConstant ==
    ASSUME NEW f, NEW S, IsFiniteSet(S), NEW c \in Nat, \A x \in S : f[x] = c
    PROVE  SumFunctionOnSet(f, S) = Cardinality(S) * c
<1> DEFINE C == {s \in SUBSET S : SumFunctionOnSet(f, s) # Cardinality(s) * c}
<1>1. ASSUME C # {}
      PROVE  FALSE
  <2>0. \A s : s \in C <=> s \in SUBSET S /\ SumFunctionOnSet(f, s) # Cardinality(s) * c
    OBVIOUS
  <2>1. C \in SUBSET (SUBSET S)
    OBVIOUS
  <2> HIDE DEF C
  <2>2. PICK s \in C : \A U \in SUBSET s : U # s => U \notin C
    BY <1>1, <2>1, SmallestSubset
  <2>3. s \in SUBSET S /\ SumFunctionOnSet(f, s) # Cardinality(s) * c
    BY <2>0, <2>2
  <2>4. s # {} /\ IsFiniteSet(s)
    <3>1. Cardinality({}) = 0 /\ 0 * c = 0
      BY FS_EmptySet
    <3>2. s # {}
      BY <2>3, <3>1, SumEmpty
    <3>3. IsFiniteSet(s)
      BY <2>3, FS_Subset
    <3> QED  BY <3>2, <3>3
  <2>5. PICK v : v = s \ {Pick(s)}
    OBVIOUS
  <2>6. /\ Pick(s) \in s
        /\ SumFunctionOnSet(f, s) = f[Pick(s)] + SumFunctionOnSet(f, v)
    BY <2>4, <2>5, SumUnfold
  <2>7. v \in SUBSET s /\ v # s /\ v \in SUBSET S
    BY <2>3, <2>5, <2>6
  <2>8. SumFunctionOnSet(f, v) = Cardinality(v) * c /\ f[Pick(s)] = c
    BY <2>0, <2>2, <2>3, <2>6, <2>7
  <2>9. IsFiniteSet(v) /\ Cardinality(v) \in Nat /\ Cardinality(s) = Cardinality(v) + 1
    <3>1. IsFiniteSet(v) /\ Cardinality(v) = Cardinality(s) - 1
      BY <2>4, <2>5, <2>6, FS_RemoveElement
    <3> QED  BY <2>4, <3>1, FS_CardinalityType
  <2>10. \A k \in Nat : (k + 1) * c = c + k * c
    OBVIOUS
  <2> QED  BY <2>3, <2>6, <2>8, <2>9, <2>10
<1>2. S \notin C
    BY <1>1
<1> QED  BY <1>2

\* The sum of a pointwise sum.
THEOREM SumPlus ==
    ASSUME NEW f, NEW g, NEW h, NEW S, IsFiniteSet(S),
           \A x \in S : f[x] \in Int /\ g[x] \in Int /\ h[x] = f[x] + g[x]
    PROVE  SumFunctionOnSet(h, S) = SumFunctionOnSet(f, S) + SumFunctionOnSet(g, S)
<1> DEFINE C == {s \in SUBSET S : SumFunctionOnSet(h, s) #
                   SumFunctionOnSet(f, s) + SumFunctionOnSet(g, s)}
<1>1. ASSUME C # {}
      PROVE  FALSE
  <2>0. \A s : s \in C <=> s \in SUBSET S /\ SumFunctionOnSet(h, s) #
                             SumFunctionOnSet(f, s) + SumFunctionOnSet(g, s)
    OBVIOUS
  <2>1. C \in SUBSET (SUBSET S)
    OBVIOUS
  <2> HIDE DEF C
  <2>2. PICK s \in C : \A U \in SUBSET s : U # s => U \notin C
    BY <1>1, <2>1, SmallestSubset
  <2>3. s \in SUBSET S /\ SumFunctionOnSet(h, s) #
          SumFunctionOnSet(f, s) + SumFunctionOnSet(g, s)
    BY <2>0, <2>2
  <2>4. s # {} /\ IsFiniteSet(s)
    <3>1. SumFunctionOnSet(f, {}) = 0 /\ SumFunctionOnSet(g, {}) = 0
          /\ SumFunctionOnSet(h, {}) = 0
      BY SumEmpty
    <3>2. s # {}
      BY <2>3, <3>1
    <3>3. IsFiniteSet(s)
      BY <2>3, FS_Subset
    <3> QED  BY <3>2, <3>3
  <2>5. PICK v : v = s \ {Pick(s)}
    OBVIOUS
  <2>6. /\ Pick(s) \in s
        /\ SumFunctionOnSet(f, s) = f[Pick(s)] + SumFunctionOnSet(f, v)
        /\ SumFunctionOnSet(g, s) = g[Pick(s)] + SumFunctionOnSet(g, v)
        /\ SumFunctionOnSet(h, s) = h[Pick(s)] + SumFunctionOnSet(h, v)
    BY <2>4, <2>5, SumUnfold
  <2>7. v \in SUBSET s /\ v # s /\ v \in SUBSET S
    BY <2>3, <2>5, <2>6
  <2>8. SumFunctionOnSet(h, v) = SumFunctionOnSet(f, v) + SumFunctionOnSet(g, v)
    BY <2>0, <2>2, <2>7
  <2>9. IsFiniteSet(v)
    BY <2>7, FS_Subset
  <2>10. SumFunctionOnSet(f, v) \in Int /\ SumFunctionOnSet(g, v) \in Int
    BY <2>7, <2>9, SumInt
  <2>11. /\ f[Pick(s)] \in Int /\ g[Pick(s)] \in Int
         /\ h[Pick(s)] = f[Pick(s)] + g[Pick(s)]
    BY <2>3, <2>6
  <2> QED  BY <2>3, <2>6, <2>8, <2>10, <2>11
<1>2. S \notin C
    BY <1>1
<1> QED  BY <1>2

\* What f sums to over the members of s that belong to a.
GroupSum(f, own, s, a) == SumFunctionOnSet(f, {x \in s : own[x] = a})

\* Summing owner by owner gives the whole sum.
LEMMA SumByOwner ==
    ASSUME NEW f, NEW own, NEW S, IsFiniteSet(S), NEW A, IsFiniteSet(A),
           \A x \in S : f[x] \in Int /\ own[x] \in A
    PROVE  SumFunctionOnSet([a \in A |-> GroupSum(f, own, S, a)], A)
             = SumFunctionOnSet(f, S)
<1> DEFINE Groups(s) == [a \in A |-> GroupSum(f, own, s, a)]
           C == {s \in SUBSET S : SumFunctionOnSet(Groups(s), A) #
                                    SumFunctionOnSet(f, s)}
<1>1. ASSUME C # {}
      PROVE  FALSE
  <2>0. \A s : s \in C <=> s \in SUBSET S /\ SumFunctionOnSet(Groups(s), A) #
                                    SumFunctionOnSet(f, s)
    OBVIOUS
  <2>1. C \in SUBSET (SUBSET S)
    OBVIOUS
  <2>g. \A s : \A a \in A : Groups(s)[a] = GroupSum(f, own, s, a)
    OBVIOUS
  <2> HIDE DEF C, Groups
  <2>2. PICK s \in C : \A U \in SUBSET s : U # s => U \notin C
    BY <1>1, <2>1, SmallestSubset
  <2>3. s \in SUBSET S /\ SumFunctionOnSet(Groups(s), A) # SumFunctionOnSet(f, s)
    BY <2>0, <2>2
  <2>4. s # {} /\ IsFiniteSet(s)
    <3>1. \A a \in A : Groups({})[a] = 0
      <4>1. \A a : {x \in {} : own[x] = a} = {}
        OBVIOUS
      <4> QED  BY <2>g, <4>1, SumEmpty DEF GroupSum
    <3>2. SumFunctionOnSet(Groups({}), A) = 0
      BY <3>1, SumZero
    <3>3. s # {}
      BY <2>3, <3>2, SumEmpty
    <3>4. IsFiniteSet(s)
      BY <2>3, FS_Subset
    <3> QED  BY <3>3, <3>4
  <2>5. PICK p, v : p \in s /\ v = s \ {p}
    BY <2>4
  <2>6. v \in SUBSET s /\ v # s /\ v \in SUBSET S /\ p \in S
        /\ f[p] \in Int /\ own[p] \in A
    BY <2>3, <2>5
  <2>7. IsFiniteSet(v)
    BY <2>6, FS_Subset
  <2>8. SumFunctionOnSet(f, s) = f[p] + SumFunctionOnSet(f, v)
    BY <2>3, <2>4, <2>5, SumRemove
  <2>9. SumFunctionOnSet(Groups(v), A) = SumFunctionOnSet(f, v)
    BY <2>0, <2>2, <2>6
  <2>10. \A a \in A : a # own[p] => Groups(s)[a] = Groups(v)[a]
    <3> SUFFICES ASSUME NEW a \in A, a # own[p]
                 PROVE  Groups(s)[a] = Groups(v)[a]
      OBVIOUS
    <3>1. {x \in s : own[x] = a} = {x \in v : own[x] = a}
      BY <2>5
    <3>2. GroupSum(f, own, s, a) = GroupSum(f, own, v, a)
      BY ONLY <3>1 DEF GroupSum
    <3> QED  BY <2>g, <3>2
  <2>11. \A t \in SUBSET s : \A a \in A : Groups(t)[a] \in Int
    <3> SUFFICES ASSUME NEW t \in SUBSET s, NEW a \in A
                 PROVE  Groups(t)[a] \in Int
      OBVIOUS
    <3>1. PICK u : u = {x \in t : own[x] = a}
      OBVIOUS
    <3>2. u \in SUBSET s /\ \A x \in u : f[x] \in Int
      BY <2>3, <3>1
    <3>3. IsFiniteSet(u)
      BY <2>4, <3>2, FS_Subset
    <3>4. SumFunctionOnSet(f, u) \in Int
      BY <3>2, <3>3, SumInt
    <3> QED  BY <2>g, <3>1, <3>4 DEF GroupSum
  <2>12. Groups(s)[own[p]] = f[p] + Groups(v)[own[p]]
    <3>1. PICK u : u = {x \in s : own[x] = own[p]}
      OBVIOUS
    <3>2. u \in SUBSET s /\ p \in u /\ \A x \in u : f[x] \in Int
      BY <2>3, <2>5, <3>1
    <3>3. IsFiniteSet(u)
      BY <2>4, <3>2, FS_Subset
    <3>4. SumFunctionOnSet(f, u) = f[p] + SumFunctionOnSet(f, u \ {p})
      BY <3>2, <3>3, SumRemove
    <3>5. u \ {p} = {x \in v : own[x] = own[p]}
      BY <2>5, <3>1
    <3>6. GroupSum(f, own, s, own[p]) = SumFunctionOnSet(f, u)
      BY ONLY <3>1 DEF GroupSum
    <3>7. GroupSum(f, own, v, own[p]) = SumFunctionOnSet(f, u \ {p})
      BY ONLY <3>5 DEF GroupSum
    <3> QED  BY <2>g, <2>6, <3>4, <3>6, <3>7
  <2>13. SumFunctionOnSet(Groups(s), A) =
           SumFunctionOnSet(Groups(v), A) + Groups(s)[own[p]] - Groups(v)[own[p]]
    <3>1. \A a \in A : Groups(v)[a] \in Int /\ Groups(s)[a] \in Int
      BY <2>6, <2>11
    <3>2. \A a \in A \ {own[p]} : Groups(s)[a] = Groups(v)[a]
      BY <2>10
    <3> QED  BY <2>6, <3>1, <3>2, SumUpdate
  <2>14. SumFunctionOnSet(f, v) \in Int /\ Groups(v)[own[p]] \in Int
    BY <2>6, <2>7, <2>11, SumInt
  <2> QED  BY <2>3, <2>6, <2>8, <2>9, <2>12, <2>13, <2>14
<1>2. S \notin C
    BY <1>1
<1> QED  BY <1>2

\* The smaller and the larger of two numbers.
LEMMA MinOfTwo ==
    ASSUME NEW m \in Int, NEW n \in Int
    PROVE  Min({m, n}) \in {m, n} /\ Min({m, n}) <= m /\ Min({m, n}) <= n
<1>1. \E k \in {m, n} : \A l \in {m, n} : k <= l
    OBVIOUS
<1>2. Min({m, n}) \in {m, n} /\ \A l \in {m, n} : Min({m, n}) <= l
    BY <1>1 DEF Min
<1> QED  BY <1>2

LEMMA MaxOfTwo ==
    ASSUME NEW m \in Int, NEW n \in Int
    PROVE  Max({m, n}) \in {m, n} /\ m <= Max({m, n}) /\ n <= Max({m, n})
<1>1. \E k \in {m, n} : \A l \in {m, n} : k >= l
    OBVIOUS
<1>2. Max({m, n}) \in {m, n} /\ \A l \in {m, n} : Max({m, n}) >= l
    BY <1>1 DEF Max
<1> QED  BY <1>2

-----------------------------------------------------------------------------
(* Loops: facts about a counter, and about a table filled in order.         *)

\* The least-number principle.
LEMMA LeastNatural ==
    ASSUME NEW S \in SUBSET Nat, S # {}
    PROVE  \E x \in S : \A y \in S : x <= y
<1>1. IsWellFoundedOn(OpToRel(<, Nat), Nat)
    BY NatLessThanWellFounded
<1>2. PICK x \in S : \A y \in S : ~(<<y, x>> \in OpToRel(<, Nat))
    BY <1>1, WFMin, Zenon
<1>3. \A y \in S : ~(y < x)
    BY <1>2 DEF OpToRel
<1> QED  BY <1>3

\* What holds at 0 and is handed on holds up to n.
LEMMA CountUp ==
    ASSUME NEW n \in Nat, NEW P, 0 \in P, \A i \in 1..n : i - 1 \in P => i \in P
    PROVE  \A i \in 0..n : i \in P
<1> DEFINE C == {i \in 0..n : i \notin P}
<1>1. ASSUME C # {}
      PROVE  FALSE
  <2>0. C \in SUBSET Nat
    OBVIOUS
  <2>1. PICK x \in C : \A y \in C : x <= y
    <3> HIDE DEF C
    <3> QED  BY <1>1, <2>0, LeastNatural
  <2>2. x \in 1..n
    BY <2>1
  <2>3. x - 1 \in 0..n /\ ~(x <= x - 1)
    BY <2>2
  <2>4. x - 1 \in P
    BY <2>1, <2>3
  <2> QED  BY <2>1, <2>2, <2>4
<1> QED  BY <1>1

\* Tr is the run of a loop that starts from b and takes step F at each i.
IsRunOf(Tr, F, b, n) ==
    Tr[0] = b /\ \A i \in 1..n : Tr[i] = F[<<Tr[i - 1], i>>]

\* A loop whose step stays in R has a run, and it stays in R.
LEMMA RunExists ==
    ASSUME NEW n \in Nat, NEW R, NEW b \in R, NEW F,
           \A x \in R : \A i \in 1..n : F[<<x, i>>] \in R
    PROVE  \E Tr \in [0..n -> R] : IsRunOf(Tr, F, b, n)
<1> DEFINE P == {k \in 0..n : \E Tr \in [0..k -> R] : IsRunOf(Tr, F, b, k)}
<1>0. \A k : k \in P <=> k \in 0..n /\ \E Tr \in [0..k -> R] : IsRunOf(Tr, F, b, k)
    OBVIOUS
<1>1. 0 \in P
  <2>1. [i \in 0..0 |-> b] \in [0..0 -> R]
    OBVIOUS
  <2>2. IsRunOf([i \in 0..0 |-> b], F, b, 0)
    BY DEF IsRunOf
  <2> QED  BY <2>1, <2>2
<1> HIDE DEF P
<1>2. ASSUME NEW k \in 1..n, k - 1 \in P
      PROVE  k \in P
  <2>1. PICK T \in [0..(k - 1) -> R] : IsRunOf(T, F, b, k - 1)
    BY <1>0, <1>2
  <2> DEFINE U == [i \in 0..k |-> IF i = k THEN F[<<T[k - 1], k>>] ELSE T[i]]
  <2>2. U \in [0..k -> R]
    <3>1. T[k - 1] \in R
      BY <2>1
    <3>2. F[<<T[k - 1], k>>] \in R
      BY <3>1
    <3>3. \A i \in 0..k : i # k => i \in 0..(k - 1)
      OBVIOUS
    <3> QED  BY <2>1, <3>2, <3>3
  <2>3. IsRunOf(U, F, b, k)
    <3>1. U[0] = b
      BY <2>1 DEF IsRunOf
    <3>2. ASSUME NEW i \in 1..k
          PROVE  U[i] = F[<<U[i - 1], i>>]
      <4>1. CASE i = k
        <5>1. U[k - 1] = T[k - 1] /\ U[k] = F[<<T[k - 1], k>>]
          OBVIOUS
        <5> HIDE DEF U
        <5> QED  BY <4>1, <5>1
      <4>2. CASE i # k
        <5>1. i \in 1..(k - 1) /\ i - 1 \in 0..k /\ i - 1 # k /\ i \in 0..k
          BY <4>2
        <5>2. T[i] = F[<<T[i - 1], i>>]
          BY <2>1, <5>1 DEF IsRunOf
        <5> QED  BY <4>2, <5>1, <5>2
      <4> QED  BY <4>1, <4>2
    <3> QED  BY <3>1, <3>2 DEF IsRunOf
  <2>4. k \in 0..n
    OBVIOUS
  <2> HIDE DEF U
  <2> QED  BY <1>0, <2>2, <2>3, <2>4
<1>3. n \in P
    BY <1>1, <1>2, CountUp
<1> QED  BY <1>0, <1>3

\* A table filled from the entry before stays where its steps stay.
LEMMA TableStays ==
    ASSUME NEW n \in Nat, NEW R, NEW A, A[0] \in R,
           \A i \in 1..n : A[i - 1] \in R => A[i] \in R
    PROVE  A[n] \in R
<1> DEFINE P == {i \in 0..n : A[i] \in R}
<1>1. 0 \in P /\ \A i \in 1..n : i - 1 \in P => i \in P
    OBVIOUS
<1>2. \A i : i \in P => A[i] \in R
    OBVIOUS
<1> HIDE DEF P
<1>3. n \in 0..n
    OBVIOUS
<1>4. n \in P
    BY <1>1, <1>3, CountUp
<1> QED  BY <1>2, <1>4
=============================================================================
