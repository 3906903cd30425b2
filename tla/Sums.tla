--------------------------------- MODULE Sums ---------------------------------
(***************************************************************************)
(* What the sums of the ledger modules are: MapThenSumSet of FiniteSetsExt *)
(* adds up what a function gives each member of a finite set, and changes  *)
(* with it as a sum does.  The induction is over the subsets of the set,   *)
(* of which a wrong one would have a least.                                *)
(***************************************************************************)
EXTENDS Integers, FiniteSets, FiniteSetsExt, FiniteSetTheorems, WellFoundedInduction, TLAPS

\* The sum of w over S.
SumOver(w, S) == MapThenSumSet(LAMBDA x : w[x], S)

\* The member MapThenSumSet takes first.
PickOf(s) == CHOOSE x \in s : TRUE

\* g sums w over each subset of S, one member after the other.
Adds(g, w, S) ==
    g = [s \in SUBSET S |-> IF s = {} THEN 0 ELSE w[PickOf(s)] + g[s \ {PickOf(s)}]]

-----------------------------------------------------------------------------
(* Induction over the subsets of a finite set.                             *)

\* A set of subsets that has every set whose members, each taken away, leave
\* one of its sets, has all of them.
LEMMA SubsetsInduction ==
  ASSUME NEW S, IsFiniteSet(S), NEW G,
         \A s \in SUBSET S : (\A x \in s : s \ {x} \in G) => s \in G
  PROVE  SUBSET S \subseteq G
<1> DEFINE T == (SUBSET S) \ G
<1>1. ASSUME T # {} PROVE FALSE
  <2>1. T \subseteq FiniteSubsetsOf(S)
    BY FS_FiniteSubsetsOfFinite
  <2>2. IsWellFoundedOn(StrictSubsetOrdering(S), FiniteSubsetsOf(S))
    BY FS_StrictSubsetOrderingWellFounded
  <2>3. PICK s \in T : \A u \in T : ~(<<u, s>> \in StrictSubsetOrdering(S))
    <3> HIDE DEF T
    <3> QED BY <1>1, <2>1, <2>2, WFMin
  <2>4. ASSUME NEW x \in s PROVE s \ {x} \in G
    <3>1. s \in SUBSET S /\ s \ {x} \in SUBSET S /\ s \ {x} # s
      BY <2>4
    <3>2. <<s \ {x}, s>> \in StrictSubsetOrdering(S)
      BY <3>1 DEF StrictSubsetOrdering
    <3>3. QED
      BY <2>3, <3>1, <3>2
  <2>5. QED
    BY <2>3, <2>4
<1>2. QED
  BY <1>1

-----------------------------------------------------------------------------
(* The fold is what its definition says.                                   *)

\* Two functions that sum w agree where both are defined.
LEMMA AddsAgree ==
  ASSUME NEW S, IsFiniteSet(S), NEW w, NEW g, NEW h, NEW U, NEW V,
         Adds(g, w, U), Adds(h, w, V), S \subseteq U, S \subseteq V
  PROVE  g[S] = h[S]
<1> DEFINE G == {s \in SUBSET S : g[s] = h[s]}
<1>1. ASSUME NEW s \in SUBSET S, \A x \in s : s \ {x} \in G PROVE s \in G
  <2>1. CASE s = {}
    BY <2>1 DEF Adds
  <2>2. CASE s # {}
    <3>1. PickOf(s) \in s
      BY <2>2 DEF PickOf
    <3>2. g[s \ {PickOf(s)}] = h[s \ {PickOf(s)}]
      BY <1>1, <3>1
    <3>3. g[s] = w[PickOf(s)] + g[s \ {PickOf(s)}] /\ h[s] = w[PickOf(s)] + h[s \ {PickOf(s)}]
      BY <2>2 DEF Adds
    <3>4. QED
      BY <3>2, <3>3
  <2>3. QED
    BY <2>1, <2>2
<1>2. SUBSET S \subseteq G
  <2> HIDE DEF G
  <2> QED BY <1>1, SubsetsInduction
<1>3. QED
  BY <1>2

\* Such a function exists: it is put together from those of the smaller sets.
LEMMA AddsExists ==
  ASSUME NEW S, IsFiniteSet(S), NEW w
  PROVE  \E g : Adds(g, w, S)
<1> DEFINE G == {s \in SUBSET S : \E g : Adds(g, w, s)}
<1>1. ASSUME NEW T \in SUBSET S, \A x \in T : T \ {x} \in G PROVE T \in G
  <2> DEFINE R(u) == CHOOSE h : Adds(h, w, u)
             g == [s \in SUBSET T |-> IF s = {} THEN 0
                     ELSE w[PickOf(s)] + R(s \ {PickOf(s)})[s \ {PickOf(s)}]]
  <2>1. ASSUME NEW u \in SUBSET T, u # T PROVE Adds(R(u), w, u)
    <3>1. PICK x \in T : u \subseteq T \ {x}
      BY <2>1
    <3>2. PICK h : Adds(h, w, T \ {x})
      BY <1>1, <3>1
    <3>3. \A s \in SUBSET u : s # {} => PickOf(s) \in s
      BY DEF PickOf
    <3>4. Adds([s \in SUBSET u |-> h[s]], w, u)
      BY <3>1, <3>2, <3>3 DEF Adds
    <3>5. QED
      BY <3>4
  <2>2. ASSUME NEW s \in SUBSET T, s # {}
        PROVE g[s \ {PickOf(s)}] = R(s \ {PickOf(s)})[s \ {PickOf(s)}]
    <3> DEFINE u == s \ {PickOf(s)}
    <3>1. u \in SUBSET T /\ u # T
      BY <2>2 DEF PickOf
    <3>2. Adds(R(u), w, u)
      BY <2>1, <3>1
    <3>3. CASE u = {}
      BY <3>1, <3>2, <3>3 DEF Adds
    <3>4. CASE u # {}
      <4> DEFINE v == u \ {PickOf(u)}
      <4>1. g[u] = w[PickOf(u)] + R(v)[v]
        BY <3>1, <3>4
      <4>2. R(u)[u] = w[PickOf(u)] + R(u)[v]
        BY <3>2, <3>4 DEF Adds
      <4>3. Adds(R(v), w, v)
        BY <2>1, <3>1
      <4>4. IsFiniteSet(v)
        BY FS_Subset, <3>1
      <4>5. R(u)[v] = R(v)[v]
        <5> HIDE DEF R
        <5> QED BY <3>2, <4>3, <4>4, AddsAgree
      <4>6. QED
        BY <4>1, <4>2, <4>5
    <3>5. QED
      BY <3>3, <3>4
  <2>3. Adds(g, w, T)
    <3> HIDE DEF R
    <3> QED BY <2>2 DEF Adds
  <2>4. QED
    BY <2>3
<1>2. SUBSET S \subseteq G
  <2> HIDE DEF G
  <2> QED BY <1>1, SubsetsInduction
<1>3. QED
  BY <1>2

\* The sum is what any such function says.
LEMMA SumAdds ==
  ASSUME NEW S, IsFiniteSet(S), NEW w, NEW g, Adds(g, w, S)
  PROVE  SumOver(w, S) = g[S]
<1> DEFINE h == CHOOSE h : Adds(h, w, S)
<1>1. Adds(h, w, S)
  BY AddsExists
<1>2. SumOver(w, S) = h[S]
  BY DEF SumOver, MapThenSumSet, MapThenFoldSet, Adds, PickOf
<1>3. QED
  BY <1>1, <1>2, AddsAgree

-----------------------------------------------------------------------------
(* The laws of sums.                                                       *)

\* Nothing sums up to nothing.
LEMMA SumEmpty ==
  ASSUME NEW w
  PROVE  SumOver(w, {}) = 0
<1>1. IsFiniteSet({})
  BY FS_EmptySet
<1>2. PICK g : Adds(g, w, {})
  BY <1>1, AddsExists
<1>3. g[{}] = 0
  BY <1>2 DEF Adds
<1>4. QED
  BY <1>1, <1>2, <1>3, SumAdds

\* The sum depends on what the function gives the members only.
LEMMA SumSame ==
  ASSUME NEW S, IsFiniteSet(S), NEW w, NEW v, \A x \in S : v[x] = w[x]
  PROVE  SumOver(v, S) = SumOver(w, S)
<1>1. PICK g : Adds(g, w, S)
  BY AddsExists
<1>2. ASSUME NEW s \in SUBSET S, s # {} PROVE v[PickOf(s)] = w[PickOf(s)]
  BY <1>2 DEF PickOf
<1>3. Adds(g, v, S)
  BY <1>1, <1>2 DEF Adds
<1>4. QED
  BY <1>1, <1>3, SumAdds

\* The member that is taken first, and the rest.
LEMMA SumPicks ==
  ASSUME NEW S, IsFiniteSet(S), NEW w, S # {}
  PROVE  SumOver(w, S) = w[PickOf(S)] + SumOver(w, S \ {PickOf(S)})
<1>1. PICK g : Adds(g, w, S)
  BY AddsExists
<1> DEFINE u == S \ {PickOf(S)}
<1>2. IsFiniteSet(u)
  BY FS_Subset
<1>3. PICK h : Adds(h, w, u)
  BY <1>2, AddsExists
<1>4. g[u] = h[u]
  BY <1>1, <1>2, <1>3, AddsAgree
<1>5. g[S] = w[PickOf(S)] + g[u]
  BY <1>1 DEF Adds
<1>6. SumOver(w, S) = g[S] /\ SumOver(w, u) = h[u]
  BY <1>1, <1>2, <1>3, SumAdds
<1>7. QED
  BY <1>4, <1>5, <1>6

\* A sum of integers is one.
LEMMA SumInt ==
  ASSUME NEW S, IsFiniteSet(S), NEW w, \A x \in S : w[x] \in Int
  PROVE  SumOver(w, S) \in Int
<1> DEFINE G == {s \in SUBSET S : SumOver(w, s) \in Int}
<1>1. ASSUME NEW s \in SUBSET S, \A x \in s : s \ {x} \in G PROVE s \in G
  <2>1. CASE s = {}
    BY <2>1, SumEmpty
  <2>2. CASE s # {}
    <3>1. PickOf(s) \in s
      BY <2>2 DEF PickOf
    <3>2. SumOver(w, s \ {PickOf(s)}) \in Int /\ w[PickOf(s)] \in Int
      BY <1>1, <3>1
    <3>3. IsFiniteSet(s)
      BY FS_Subset
    <3>4. SumOver(w, s) = w[PickOf(s)] + SumOver(w, s \ {PickOf(s)})
      BY <2>2, <3>3, SumPicks
    <3>5. QED
      BY <3>2, <3>4
  <2>3. QED
    BY <2>1, <2>2
<1>2. SUBSET S \subseteq G
  <2> HIDE DEF G
  <2> QED BY <1>1, SubsetsInduction
<1>3. QED
  BY <1>2

\* Any member may be taken first.
LEMMA SumPlus ==
  ASSUME NEW S, IsFiniteSet(S), NEW w, \A y \in S : w[y] \in Int,
         NEW z \in S
  PROVE  SumOver(w, S) = SumOver(w, S \ {z}) + w[z]
<1> DEFINE G == {s \in SUBSET S : \A x \in s : SumOver(w, s) = SumOver(w, s \ {x}) + w[x]}
<1>1. ASSUME NEW s \in SUBSET S, \A x \in s : s \ {x} \in G PROVE s \in G
  <2>1. SUFFICES ASSUME NEW x \in s PROVE SumOver(w, s) = SumOver(w, s \ {x}) + w[x]
    OBVIOUS
  <2> DEFINE y == PickOf(s)
             u == s \ {y}
  <2>2. y \in s
    BY <2>1 DEF PickOf
  <2>3. IsFiniteSet(s) /\ IsFiniteSet(u) /\ IsFiniteSet(u \ {x})
    BY FS_Subset
  <2>4. SumOver(w, s) = w[y] + SumOver(w, u)
    BY <2>2, <2>3, SumPicks
  <2>5. SumOver(w, u) \in Int /\ SumOver(w, u \ {x}) \in Int /\ w[y] \in Int /\ w[x] \in Int
    BY <2>2, <2>3, SumInt
  <2>6. CASE y = x
    BY <2>4, <2>5, <2>6
  <2>7. CASE y # x
    <3>1. u \in G /\ s \ {x} \in G
      BY <1>1, <2>2
    <3>2. SumOver(w, u) = SumOver(w, u \ {x}) + w[x]
      BY <3>1, <2>7
    <3>3. SumOver(w, s \ {x}) = SumOver(w, (s \ {x}) \ {y}) + w[y]
      BY <3>1, <2>2, <2>7
    <3>4. (s \ {x}) \ {y} = u \ {x}
      OBVIOUS
    <3>5. SumOver(w, s \ {x}) = SumOver(w, u \ {x}) + w[y]
      BY <3>3, <3>4
    <3>6. QED
      <4> HIDE DEF y, u
      <4> QED BY <2>4, <2>5, <3>2, <3>5
  <2>8. QED
    BY <2>6, <2>7
<1>2. SUBSET S \subseteq G
  <2> HIDE DEF G
  <2> QED BY <1>1, SubsetsInduction
<1>3. QED
  BY <1>2

\* One member's value changes, and the sum by as much.
LEMMA SumChanges ==
  ASSUME NEW S, IsFiniteSet(S), NEW w, NEW v, NEW x \in S,
         \A y \in S : w[y] \in Int, v[x] \in Int,
         \A y \in S \ {x} : v[y] = w[y]
  PROVE  SumOver(v, S) = SumOver(w, S) - w[x] + v[x]
<1>1. IsFiniteSet(S \ {x})
  BY FS_Subset
<1>2. SumOver(v, S \ {x}) = SumOver(w, S \ {x})
  BY <1>1, SumSame
<1>3. SumOver(w, S) = SumOver(w, S \ {x}) + w[x]
  BY SumPlus
<1>4. SumOver(v, S) = SumOver(v, S \ {x}) + v[x]
  BY SumPlus
<1>5. SumOver(w, S \ {x}) \in Int
  BY <1>1, SumInt
<1>6. QED
  BY <1>2, <1>3, <1>4, <1>5

\* No member's value is more, and neither is the sum.
LEMMA SumNoMore ==
  ASSUME NEW S, IsFiniteSet(S), NEW w, NEW v,
         \A x \in S : w[x] \in Int /\ v[x] \in Int /\ w[x] <= v[x]
  PROVE  SumOver(w, S) <= SumOver(v, S)
<1> DEFINE G == {s \in SUBSET S : SumOver(w, s) <= SumOver(v, s)}
<1>1. ASSUME NEW s \in SUBSET S, \A x \in s : s \ {x} \in G PROVE s \in G
  <2>1. CASE s = {}
    BY <2>1, SumEmpty
  <2>2. CASE s # {}
    <3>1. PICK x : x \in s
      BY <2>2
    <3>2. /\ SumOver(w, s \ {x}) <= SumOver(v, s \ {x})
          /\ w[x] <= v[x] /\ w[x] \in Int /\ v[x] \in Int
      BY <1>1, <3>1
    <3>3. IsFiniteSet(s) /\ IsFiniteSet(s \ {x})
      BY FS_Subset
    <3>4. SumOver(w, s) = SumOver(w, s \ {x}) + w[x] /\ SumOver(v, s) = SumOver(v, s \ {x}) + v[x]
      BY <3>1, <3>3, SumPlus
    <3>5. SumOver(w, s \ {x}) \in Int /\ SumOver(v, s \ {x}) \in Int
      BY <3>3, SumInt
    <3>6. QED
      BY <3>2, <3>4, <3>5
  <2>3. QED
    BY <2>1, <2>2
<1>2. SUBSET S \subseteq G
  <2> HIDE DEF G
  <2> QED BY <1>1, SubsetsInduction
<1>3. QED
  BY <1>2

\* A sum is no more than the number of its terms times what bounds each.
LEMMA SumAtMost ==
  ASSUME NEW S, IsFiniteSet(S), NEW w, NEW m \in Nat,
         \A x \in S : w[x] \in Int /\ w[x] <= m
  PROVE  SumOver(w, S) <= Cardinality(S) * m
<1> DEFINE G == {s \in SUBSET S : SumOver(w, s) <= Cardinality(s) * m}
<1>1. ASSUME NEW s \in SUBSET S, \A x \in s : s \ {x} \in G PROVE s \in G
  <2>1. CASE s = {}
    <3>1. SumOver(w, s) = 0 /\ Cardinality(s) = 0
      BY <2>1, SumEmpty, FS_EmptySet
    <3>2. 0 * m = 0
      OBVIOUS
    <3>3. QED
      BY <3>1, <3>2
  <2>2. CASE s # {}
    <3>1. PICK x : x \in s
      BY <2>2
    <3>2. SumOver(w, s \ {x}) <= Cardinality(s \ {x}) * m /\ w[x] <= m /\ w[x] \in Int
      BY <1>1, <3>1
    <3>3. IsFiniteSet(s) /\ IsFiniteSet(s \ {x})
      BY FS_Subset
    <3>4. SumOver(w, s) = SumOver(w, s \ {x}) + w[x] /\ SumOver(w, s \ {x}) \in Int
      BY <3>1, <3>3, SumPlus, SumInt
    <3>5. Cardinality(s) \in Nat /\ Cardinality(s \ {x}) = Cardinality(s) - 1
      BY <3>1, <3>3, FS_CardinalityType, FS_RemoveElement
    <3>6. \A c \in Nat : (c - 1) * m = c * m - m /\ c * m \in Int
      OBVIOUS
    <3>7. QED
      BY <3>2, <3>4, <3>5, <3>6
  <2>3. QED
    BY <2>1, <2>2
<1>2. SUBSET S \subseteq G
  <2> HIDE DEF G
  <2> QED BY <1>1, SubsetsInduction
<1>3. QED
  BY <1>2

\* A sum of natural numbers is one.
LEMMA SumNat ==
  ASSUME NEW S, IsFiniteSet(S), NEW w, \A x \in S : w[x] \in Nat
  PROVE  SumOver(w, S) \in Nat
<1> DEFINE z == [x \in S |-> 0]
<1>1. SumOver(w, S) \in Int
  BY SumInt
<1>2. SumOver(z, S) <= SumOver(w, S)
  <2>1. \A x \in S : z[x] \in Int /\ w[x] \in Int /\ z[x] <= w[x]
    OBVIOUS
  <2> HIDE DEF z
  <2>2. QED
    BY <2>1, SumNoMore
<1>3. SumOver(z, S) = 0
  <2> DEFINE g == [s \in SUBSET S |-> 0]
  <2>1. ASSUME NEW s \in SUBSET S, s # {} PROVE z[PickOf(s)] = 0
    BY <2>1 DEF PickOf
  <2>2. Adds(g, z, S)
    BY <2>1 DEF Adds
  <2>3. QED
    BY <2>2, SumAdds
<1>4. QED
  BY <1>1, <1>2, <1>3

\* The sum over the whole of what counts in a part only.
LEMMA SumOfPart ==
  ASSUME NEW S, IsFiniteSet(S), NEW T \in SUBSET S, NEW w, NEW v,
         \A x \in T : v[x] = w[x] /\ w[x] \in Int,
         \A x \in S \ T : v[x] = 0
  PROVE  SumOver(v, S) = SumOver(w, T)
<1> DEFINE G == {s \in SUBSET S : SumOver(v, s) = SumOver(w, s \cap T)}
<1>1. ASSUME NEW s \in SUBSET S, \A x \in s : s \ {x} \in G PROVE s \in G
  <2>1. CASE s = {}
    <3>1. s \cap T = {}
      BY <2>1
    <3>2. QED
      BY <2>1, <3>1, SumEmpty
  <2>2. CASE s # {}
    <3>1. PICK x : x \in s
      BY <2>2
    <3> DEFINE u == s \ {x}
    <3>2. SumOver(v, u) = SumOver(w, u \cap T)
      BY <1>1, <3>1
    <3>3. IsFiniteSet(s) /\ IsFiniteSet(u) /\ IsFiniteSet(s \cap T)
      BY FS_Subset
    <3>4. \A y \in s : v[y] \in Int
      OBVIOUS
    <3>5. SumOver(v, s) = SumOver(v, u) + v[x]
      BY <3>1, <3>3, <3>4, SumPlus
    <3>6. CASE x \in T
      <4>1. SumOver(w, s \cap T) = SumOver(w, (s \cap T) \ {x}) + w[x]
        BY <3>1, <3>3, <3>6, SumPlus
      <4>2. (s \cap T) \ {x} = u \cap T
        OBVIOUS
      <4>3. SumOver(w, s \cap T) = SumOver(w, u \cap T) + w[x] /\ v[x] = w[x]
        BY <4>1, <4>2, <3>6
      <4>4. QED
        <5> HIDE DEF u
        <5> QED BY <4>3, <3>2, <3>5
    <3>7. CASE x \notin T
      <4>1. s \cap T = u \cap T
        BY <3>1, <3>7
      <4>2. v[x] = 0
        BY <3>1, <3>7
      <4>3. SumOver(v, u) \in Int
        BY <3>3, <3>4, SumInt
      <4>4. SumOver(w, s \cap T) = SumOver(v, u)
        BY <4>1, <3>2
      <4>5. QED
        <5> HIDE DEF u
        <5> QED BY <4>2, <4>3, <4>4, <3>5
    <3>8. QED
      BY <3>6, <3>7
  <2>3. QED
    BY <2>1, <2>2
<1>2. S \in G
  <2> HIDE DEF G
  <2> QED BY <1>1, SubsetsInduction
<1>3. S \cap T = T
  OBVIOUS
<1>4. QED
  BY <1>2, <1>3

\* A part of natural numbers sums up to no more than the whole.
LEMMA SumOfMore ==
  ASSUME NEW S, IsFiniteSet(S), NEW T \in SUBSET S, NEW w, \A x \in S : w[x] \in Nat
  PROVE  SumOver(w, T) <= SumOver(w, S)
<1> DEFINE v == [x \in S |-> IF x \in T THEN w[x] ELSE 0]
<1>1. SumOver(v, S) = SumOver(w, T)
  BY SumOfPart
<1>2. \A x \in S : v[x] \in Int /\ w[x] \in Int /\ v[x] <= w[x]
  OBVIOUS
<1>3. SumOver(v, S) <= SumOver(w, S)
  <2> HIDE DEF v
  <2> QED BY <1>2, SumNoMore
<1>4. QED
  BY <1>1, <1>3

\* One member's value changes, or it joins or leaves what is summed.
LEMMA SumMoves ==
  ASSUME NEW S, IsFiniteSet(S), NEW T \in SUBSET S, NEW U \in SUBSET S, NEW x \in S,
         T \ {x} = U \ {x},
         NEW w, NEW v, \A y \in S : w[y] \in Int, v[x] \in Int,
         \A y \in S \ {x} : v[y] = w[y]
  PROVE  SumOver(v, U) = SumOver(w, T) - (IF x \in T THEN w[x] ELSE 0)
                                       + (IF x \in U THEN v[x] ELSE 0)
<1> DEFINE a == [y \in S |-> IF y \in T THEN w[y] ELSE 0]
           b == [y \in S |-> IF y \in U THEN v[y] ELSE 0]
<1>1. SumOver(a, S) = SumOver(w, T)
  BY SumOfPart
<1>2. SumOver(b, S) = SumOver(v, U)
  BY SumOfPart
<1>3. SumOver(b, S) = SumOver(a, S) - a[x] + b[x]
  <2>1. \A y \in S : a[y] \in Int
    OBVIOUS
  <2>4. b[x] \in Int
    OBVIOUS
  <2>2. \A y \in S \ {x} : b[y] = a[y]
    OBVIOUS
  <2>3. \A c, d : (/\ \A y \in S : c[y] \in Int
                   /\ d[x] \in Int
                   /\ \A y \in S \ {x} : d[y] = c[y])
                  => SumOver(d, S) = SumOver(c, S) - c[x] + d[x]
    BY SumChanges
  <2> HIDE DEF a, b
  <2>5. QED
    BY <2>1, <2>2, <2>3, <2>4
<1>4. QED
  BY <1>1, <1>2, <1>3

\* Two sets with no member in common add up to the sum of both.
LEMMA SumUnion ==
  ASSUME NEW S, IsFiniteSet(S), NEW T \in SUBSET S, NEW U \in SUBSET S, T \cap U = {},
         NEW w, \A x \in S : w[x] \in Int
  PROVE  SumOver(w, T \cup U) = SumOver(w, T) + SumOver(w, U)
<1> DEFINE a == [x \in S |-> IF x \in T THEN w[x] ELSE 0]
           G == {s \in SUBSET U : SumOver(w, T \cup s) = SumOver(w, T) + SumOver(w, s)}
<1>0. IsFiniteSet(T) /\ IsFiniteSet(U)
  BY FS_Subset
<1>1. ASSUME NEW s \in SUBSET U, \A x \in s : s \ {x} \in G PROVE s \in G
  <2>0. IsFiniteSet(s) /\ IsFiniteSet(T \cup s) /\ s \subseteq S /\ T \cup s \subseteq S
    BY <1>0, FS_Subset
  <2>1. SumOver(w, T) \in Int
    BY <1>0, SumInt
  <2>2. CASE s = {}
    <3>1. T \cup s = T
      BY <2>2
    <3>2. SumOver(w, T) = SumOver(w, T) + 0
      BY <2>1
    <3>3. QED
      BY <2>2, <3>1, <3>2, SumEmpty
  <2>3. CASE s # {}
    <3>1. PICK x : x \in s
      BY <2>3
    <3>2. SumOver(w, T \cup (s \ {x})) = SumOver(w, T) + SumOver(w, s \ {x})
      BY <1>1, <3>1
    <3>3. SumOver(w, s) = SumOver(w, s \ {x}) + w[x]
      BY <2>0, <3>1, SumPlus
    <3>4. SumOver(w, T \cup s) = SumOver(w, (T \cup s) \ {x}) + w[x]
      BY <2>0, <3>1, SumPlus
    <3>5. (T \cup s) \ {x} = T \cup (s \ {x})
      BY <3>1
    <3>6. w[x] \in Int /\ SumOver(w, s \ {x}) \in Int
      BY <2>0, <3>1, SumInt, FS_Subset
    <3>7. SumOver(w, T \cup s) = SumOver(w, T) + SumOver(w, s)
      <4>1. SumOver(w, T \cup s) = SumOver(w, T \cup (s \ {x})) + w[x]
        BY <3>4, <3>5
      <4> HIDE DEF G
      <4>2. QED
        BY <2>1, <3>2, <3>3, <3>6, <4>1
    <3>8. QED
      BY <3>7
  <2>4. QED
    BY <2>2, <2>3
<1>2. SUBSET U \subseteq G
  <2> HIDE DEF G
  <2> QED BY <1>0, <1>1, SubsetsInduction
<1>3. U \in G
  BY <1>2
<1>4. QED
  BY <1>3

\* A sum can be taken over what its members are sent to, one for each.
LEMMA SumMapped ==
  ASSUME NEW S, IsFiniteSet(S), NEW w, NEW v, NEW f, \A x \in S : v[x] \in Int /\ v[x] = w[f[x]],
         \A x, y \in S : f[x] = f[y] => x = y
  PROVE  SumOver(v, S) = SumOver(w, {f[x] : x \in S})
<1> DEFINE G == {s \in SUBSET S : IsFiniteSet({f[x] : x \in s}) /\ SumOver(v, s) = SumOver(w, {f[x] : x \in s})}
<1>1. ASSUME NEW s \in SUBSET S, \A x \in s : s \ {x} \in G PROVE s \in G
  <2>1. CASE s = {}
    <3>1. {f[x] : x \in s} = {}
      BY <2>1
    <3>2. QED
      BY <2>1, <3>1, SumEmpty, FS_EmptySet
  <2>2. CASE s # {}
    <3>1. PICK x : x \in s
      BY <2>2
    <3> DEFINE u == {f[y] : y \in s \ {x}}
               t == {f[y] : y \in s}
    <3>2. IsFiniteSet(u) /\ SumOver(v, s \ {x}) = SumOver(w, u)
      BY <1>1, <3>1
    <3>3. t = u \cup {f[x]} /\ f[x] \in t /\ u = t \ {f[x]}
      BY <3>1
    <3>4. IsFiniteSet(t)
      <4> HIDE DEF u, t
      <4> QED BY <3>2, <3>3, FS_AddElement
    <3>5. \A z \in t : w[z] \in Int
      BY <3>1
    <3> HIDE DEF u, t
    <3>6. SumOver(w, t) = SumOver(w, u) + w[f[x]]
      BY <3>3, <3>4, <3>5, SumPlus
    <3>7. IsFiniteSet(s) /\ (\A y \in s : v[y] \in Int)
      BY FS_Subset
    <3>8. SumOver(v, s) = SumOver(v, s \ {x}) + v[x]
      BY <3>1, <3>7, SumPlus
    <3>9. SumOver(v, s) = SumOver(w, t)
      BY <3>1, <3>2, <3>6, <3>8
    <3>10. QED
      BY <3>4, <3>9 DEF t
  <2>3. QED
    BY <2>1, <2>2
<1>2. SUBSET S \subseteq G
  <2> HIDE DEF G
  <2> QED BY <1>1, SubsetsInduction
<1>3. S \in G
  BY <1>2
<1>4. QED
  BY <1>3

-----------------------------------------------------------------------------
(* The ends of a finite set of numbers.                                    *)

\* A finite set of numbers that is not empty has a greatest.
LEMMA HasGreatest ==
  ASSUME NEW S \in SUBSET Nat, IsFiniteSet(S), S # {}
  PROVE  \E m \in S : \A x \in S : x <= m
<1> DEFINE G == {s \in SUBSET S : s = {} \/ \E m \in s : \A x \in s : x <= m}
<1>1. ASSUME NEW s \in SUBSET S, \A x \in s : s \ {x} \in G PROVE s \in G
  <2>1. CASE s = {}
    BY <2>1
  <2>2. ASSUME NEW x \in s, s \ {x} = {} PROVE s \in G
    BY <2>2
  <2>3. ASSUME NEW x \in s, s \ {x} # {} PROVE s \in G
    <3>1. PICK m \in s \ {x} : \A y \in s \ {x} : y <= m
      BY <1>1, <2>3
    <3>2. CASE x <= m
      BY <3>1, <3>2
    <3>3. CASE ~(x <= m)
      <4>1. m <= x /\ x <= x /\ x \in Nat /\ m \in Nat
        BY <3>3
      <4>2. \A y \in s : y <= x
        BY <3>1, <4>1
      <4>3. QED
        BY <2>3, <4>2
    <3>4. QED
      BY <3>2, <3>3
  <2>4. QED
    BY <2>1, <2>2, <2>3
<1>2. SUBSET S \subseteq G
  <2> HIDE DEF G
  <2> QED BY <1>1, SubsetsInduction
<1>3. QED
  BY <1>2

\* A finite set of numbers that is not empty has a least.
LEMMA HasLeast ==
  ASSUME NEW S \in SUBSET Nat, IsFiniteSet(S), S # {}
  PROVE  \E m \in S : \A x \in S : m <= x
<1> DEFINE G == {s \in SUBSET S : s = {} \/ \E m \in s : \A x \in s : m <= x}
<1>1. ASSUME NEW s \in SUBSET S, \A x \in s : s \ {x} \in G PROVE s \in G
  <2>1. CASE s = {}
    BY <2>1
  <2>2. ASSUME NEW x \in s, s \ {x} = {} PROVE s \in G
    BY <2>2
  <2>3. ASSUME NEW x \in s, s \ {x} # {} PROVE s \in G
    <3>1. PICK m \in s \ {x} : \A y \in s \ {x} : m <= y
      BY <1>1, <2>3
    <3>2. CASE m <= x
      BY <3>1, <3>2
    <3>3. CASE ~(m <= x)
      <4>1. x <= m /\ x <= x /\ x \in Nat /\ m \in Nat
        BY <3>3
      <4>2. \A y \in s : x <= y
        BY <3>1, <4>1
      <4>3. QED
        BY <2>3, <4>2
    <3>4. QED
      BY <3>2, <3>3
  <2>4. QED
    BY <2>1, <2>2, <2>3
<1>2. SUBSET S \subseteq G
  <2> HIDE DEF G
  <2> QED BY <1>1, SubsetsInduction
<1>3. QED
  BY <1>2
===============================================================================
