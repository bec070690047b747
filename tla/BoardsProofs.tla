---------------------------- MODULE BoardsProofs ----------------------------
(***************************************************************************)
(* Proofs about module Boards, for any members, teams, handlers, lists,    *)
(* limits and any season so far.                                           *)
(*                                                                         *)
(* The module starts with what sums over finite sets and ranks in a finite *)
(* order are: the facts about data need an induction, and every one of     *)
(* them is an argument about a smallest counterexample.                    *)
(***************************************************************************)
EXTENDS Boards, FiniteSetTheorems, SequenceTheorems, WellFoundedInduction, TLAPS

(***************************************************************************)
(* Smallest counterexamples                                                *)
(***************************************************************************)

(* Of some subsets of a finite set one contains no other.                  *)
LEMMA SmallestSubset ==
  ASSUME NEW S, IsFiniteSet(S), NEW C \in SUBSET (SUBSET S), C # {}
  PROVE  \E u \in C : \A v \in C : v \subseteq u => v = u
<1>1. C \subseteq FiniteSubsetsOf(S)
  BY FS_FiniteSubsetsOfFinite, Zenon
<1>2. PICK u \in C : \A v \in C : <<v, u>> \notin StrictSubsetOrdering(S)
  BY <1>1, WFMin, FS_StrictSubsetOrderingWellFounded, Zenon
<1>3. ASSUME NEW v \in C, v \subseteq u  PROVE v = u
  BY <1>2, <1>3, Zenon DEF StrictSubsetOrdering
<1>4. QED  BY <1>3

(***************************************************************************)
(* Sums.  SumFunctionOnSet unfolds to a function that recurs on the        *)
(* subsets of a set, one picked element at a time.                         *)
(***************************************************************************)
Pick(s) == CHOOSE x \in s : TRUE

Folds(f, S, g) ==
  g = [s \in SUBSET S |-> IF s = {} THEN 0 ELSE LET x == Pick(s) IN f[x] + g[s \ {x}]]

LEMMA SumIsFold ==
  ASSUME NEW f, NEW S
  PROVE  SumFunctionOnSet(f, S) = (CHOOSE g : Folds(f, S, g))[S]
BY Zenon DEF SumFunctionOnSet, FoldFunctionOnSet, MapThenFoldSet, Folds, Pick

LEMMA FoldsUnique ==
  ASSUME NEW f, NEW S, NEW T, IsFiniteSet(S), NEW g, NEW h, Folds(f, S, g), Folds(f, T, h)
  PROVE  \A u \in SUBSET (S \cap T) : g[u] = h[u]
<1> DEFINE C == { u \in SUBSET (S \cap T) : g[u] # h[u] }
<1>1. SUFFICES ASSUME C # {} PROVE FALSE
  OBVIOUS
<1>2. C \in SUBSET (SUBSET S)
  OBVIOUS
<1>3. PICK u \in C : \A v \in C : v \subseteq u => v = u
  <2>1. C \in SUBSET (SUBSET S)
    OBVIOUS
  <2> HIDE DEF C
  <2>2. QED  BY <1>1, <1>2, <2>1, SmallestSubset
<1>4. u \in SUBSET S /\ u \in SUBSET T
  OBVIOUS
<1>5. /\ g[u] = IF u = {} THEN 0 ELSE f[Pick(u)] + g[u \ {Pick(u)}]
      /\ h[u] = IF u = {} THEN 0 ELSE f[Pick(u)] + h[u \ {Pick(u)}]
  BY <1>4, Zenon DEF Folds
<1>6. u # {}
  BY <1>5
<1>7. Pick(u) \in u
  BY <1>6 DEF Pick
<1>8. u \ {Pick(u)} \notin C
  BY <1>3, <1>7
<1>9. g[u \ {Pick(u)}] = h[u \ {Pick(u)}]
  BY <1>8
<1>10. QED  BY <1>5, <1>9

LEMMA FoldsExists ==
  ASSUME NEW f, NEW S, IsFiniteSet(S)
  PROVE  \E g : Folds(f, S, g)
<1> DEFINE C == { u \in SUBSET S : ~ \E g : Folds(f, u, g) }
<1>1. SUFFICES ASSUME C # {} PROVE FALSE
  OBVIOUS
<1>2. PICK u \in C : \A v \in C : v \subseteq u => v = u
  <2>1. C \in SUBSET (SUBSET S)
    OBVIOUS
  <2> HIDE DEF C
  <2>2. QED  BY <1>1, <2>1, SmallestSubset
<1>3. \A v \in SUBSET u : IsFiniteSet(v)
  BY FS_Subset
<1> DEFINE Part(v) == CHOOSE g : Folds(f, v, g)
           Less(v) == v \ {Pick(v)}
           G == [v \in SUBSET u |-> IF v = {} THEN 0 ELSE f[Pick(v)] + Part(Less(v))[Less(v)]]
<1>4. ASSUME NEW v \in SUBSET u, v # u  PROVE Folds(f, v, Part(v))
  <2>1. v \in SUBSET S /\ v \notin C
    BY <1>2, <1>4
  <2>2. QED  BY <2>1, Zenon
<1>5. ASSUME NEW v \in SUBSET u, v # u  PROVE G[v] = Part(v)[v]
  <2>1. Folds(f, v, Part(v))
    BY <1>4, <1>5
  <2>2. Part(v)[v] = IF v = {} THEN 0 ELSE f[Pick(v)] + Part(v)[Less(v)]
    <3> HIDE DEF Part
    <3>1. QED BY <2>1 DEF Folds
  <2>3. CASE v = {}
    BY <2>2, <2>3
  <2>4. CASE v # {}
    <3>1. Pick(v) \in v
      BY <2>4 DEF Pick
    <3>2. Less(v) \in SUBSET u /\ Less(v) # u /\ Less(v) \in SUBSET (v \cap Less(v))
      BY <3>1
    <3>3. Folds(f, Less(v), Part(Less(v)))
      BY <1>4, <3>2
    <3>4. Part(v)[Less(v)] = Part(Less(v))[Less(v)]
      <4> HIDE DEF Part, Less
      <4>1. QED BY <2>1, <3>2, <3>3, <1>3, FoldsUnique
    <3>5. QED  BY <2>2, <2>4, <3>4
  <2>5. QED  BY <2>3, <2>4
<1>6. Folds(f, u, G)
  <2>1. ASSUME NEW v \in SUBSET u, v # {}
        PROVE  G[v] = f[Pick(v)] + G[Less(v)]
    <3>1. Pick(v) \in v
      BY <2>1 DEF Pick
    <3>2. Less(v) \in SUBSET u /\ Less(v) # u
      BY <3>1
    <3>3. G[Less(v)] = Part(Less(v))[Less(v)]
      BY <1>5, <3>2
    <3>4. QED  BY <2>1, <3>3
  <2>2. ASSUME NEW v \in SUBSET u, v = {}  PROVE G[v] = 0
    BY <2>2, Zenon
  <2>3. G = [v \in SUBSET u |-> G[v]]
    OBVIOUS
  <2> HIDE DEF G, Less
  <2>4. \A v \in SUBSET u : G[v] = IF v = {} THEN 0 ELSE f[Pick(v)] + G[Less(v)]
    BY <2>1, <2>2
  <2>5. G = [v \in SUBSET u |-> IF v = {} THEN 0 ELSE f[Pick(v)] + G[Less(v)]]
    BY <2>3, <2>4
  <2>6. QED  BY <2>5 DEF Folds, Less
<1>7. QED  BY <1>6

LEMMA SumStep ==
  ASSUME NEW f, NEW S, IsFiniteSet(S)
  PROVE  SumFunctionOnSet(f, S) =
           IF S = {} THEN 0 ELSE f[Pick(S)] + SumFunctionOnSet(f, S \ {Pick(S)})
<1> DEFINE Part(v) == CHOOSE g : Folds(f, v, g)
           less == S \ {Pick(S)}
<1>1. Folds(f, S, Part(S))
  BY FoldsExists
<1>2. IsFiniteSet(less) /\ less \in SUBSET S /\ less \in SUBSET (S \cap less)
  BY FS_Subset
<1>3. Folds(f, less, Part(less))
  BY FoldsExists, <1>2
<1>4. Part(S)[less] = Part(less)[less]
  <2> HIDE DEF Part, less
  <2>1. QED  BY <1>1, <1>2, <1>3, FoldsUnique
<1>5. Part(S)[S] = IF S = {} THEN 0 ELSE f[Pick(S)] + Part(S)[less]
  <2> HIDE DEF Part
  <2>1. QED  BY <1>1 DEF Folds
<1>6. SumFunctionOnSet(f, S) = Part(S)[S] /\ SumFunctionOnSet(f, less) = Part(less)[less]
  BY SumIsFold
<1>7. QED  BY <1>4, <1>5, <1>6

LEMMA SumEmpty == \A f : SumFunctionOnSet(f, {}) = 0
BY SumStep, FS_EmptySet, Zenon

LEMMA SumInt ==
  ASSUME NEW f, NEW S, IsFiniteSet(S), \A x \in S : f[x] \in Int
  PROVE  SumFunctionOnSet(f, S) \in Int
<1> DEFINE C == { u \in SUBSET S : SumFunctionOnSet(f, u) \notin Int }
<1>1. SUFFICES ASSUME C # {} PROVE FALSE
  OBVIOUS
<1>2. PICK u \in C : \A v \in C : v \subseteq u => v = u
  <2>1. C \in SUBSET (SUBSET S)
    OBVIOUS
  <2> HIDE DEF C
  <2>2. QED  BY <1>1, <2>1, SmallestSubset
<1>3. IsFiniteSet(u)
  BY FS_Subset
<1>4. u # {}
  BY SumEmpty
<1>5. Pick(u) \in u
  BY <1>4 DEF Pick
<1>6. SumFunctionOnSet(f, u \ {Pick(u)}) \in Int
  BY <1>2, <1>5
<1>7. SumFunctionOnSet(f, u) = f[Pick(u)] + SumFunctionOnSet(f, u \ {Pick(u)})
  BY <1>3, <1>4, SumStep
<1>8. QED  BY <1>5, <1>6, <1>7

(* Whatever the order of picking, one element can be set apart.            *)
LEMMA SumApart ==
  ASSUME NEW f, NEW S, IsFiniteSet(S), \A x \in S : f[x] \in Int, NEW x \in S
  PROVE  SumFunctionOnSet(f, S) = f[x] + SumFunctionOnSet(f, S \ {x})
<1> DEFINE Total(u) == SumFunctionOnSet(f, u)
           C == { u \in SUBSET S : \E y \in u : Total(u) # f[y] + Total(u \ {y}) }
<1>1. SUFFICES ASSUME C # {} PROVE FALSE
  OBVIOUS
<1>2. PICK u \in C : \A v \in C : v \subseteq u => v = u
  <2>1. C \in SUBSET (SUBSET S)
    OBVIOUS
  <2> HIDE DEF C
  <2>2. QED  BY <1>1, <2>1, SmallestSubset
<1>3. PICK y \in u : Total(u) # f[y] + Total(u \ {y})
  OBVIOUS
<1>4. \A v \in SUBSET u : IsFiniteSet(v) /\ Total(v) \in Int
  BY FS_Subset, SumInt
<1> DEFINE p == Pick(u)
<1>5. p \in u
  BY <1>3 DEF Pick
<1>6. Total(u) = f[p] + Total(u \ {p})
  BY <1>3, <1>4, SumStep
<1>7. p # y
  BY <1>3, <1>6
<1> HIDE DEF Total, p
<1>8. Total(u \ {p}) = f[y] + Total((u \ {p}) \ {y})
  <2>1. u \ {p} \in SUBSET S /\ u \ {p} \notin C /\ y \in u \ {p}
    BY <1>2, <1>5, <1>7
  <2>2. QED  BY <2>1
<1>9. Total(u \ {y}) = f[p] + Total((u \ {y}) \ {p})
  <2>1. u \ {y} \in SUBSET S /\ u \ {y} \notin C /\ p \in u \ {y}
    BY <1>2, <1>5, <1>7
  <2>2. QED  BY <2>1
<1>10. (u \ {p}) \ {y} = (u \ {y}) \ {p}
  OBVIOUS
<1>11. f[p] \in Int /\ f[y] \in Int /\ Total((u \ {y}) \ {p}) \in Int
  <2>1. (u \ {y}) \ {p} \in SUBSET u
    OBVIOUS
  <2>2. QED  BY <1>4, <1>5, <2>1
<1>12. \A a, b, c \in Int : a + (b + c) = b + (a + c)
  OBVIOUS
<1>13. f[p] + Total(u \ {p}) = f[y] + Total(u \ {y})
  <2> DEFINE rest == Total((u \ {y}) \ {p})
  <2>1. Total(u \ {p}) = f[y] + rest /\ Total(u \ {y}) = f[p] + rest /\ rest \in Int
    BY <1>8, <1>9, <1>10, <1>11
  <2> HIDE DEF rest
  <2>2. QED  BY <2>1, <1>11
<1>14. QED  BY <1>3, <1>6, <1>13

(* Only the values on the set matter.                                      *)
LEMMA SumSame ==
  ASSUME NEW f, NEW g, NEW S, IsFiniteSet(S), \A x \in S : f[x] = g[x]
  PROVE  SumFunctionOnSet(f, S) = SumFunctionOnSet(g, S)
<1> DEFINE C == { u \in SUBSET S : SumFunctionOnSet(f, u) # SumFunctionOnSet(g, u) }
<1>1. SUFFICES ASSUME C # {} PROVE FALSE
  OBVIOUS
<1>2. PICK u \in C : \A v \in C : v \subseteq u => v = u
  <2>1. C \in SUBSET (SUBSET S)
    OBVIOUS
  <2> HIDE DEF C
  <2>2. QED  BY <1>1, <2>1, SmallestSubset
<1>3. IsFiniteSet(u)
  BY FS_Subset
<1>4. u # {}
  BY SumEmpty
<1>5. Pick(u) \in u
  BY <1>4 DEF Pick
<1>6. SumFunctionOnSet(f, u \ {Pick(u)}) = SumFunctionOnSet(g, u \ {Pick(u)})
  BY <1>2, <1>5
<1>7. /\ SumFunctionOnSet(f, u) = f[Pick(u)] + SumFunctionOnSet(f, u \ {Pick(u)})
      /\ SumFunctionOnSet(g, u) = g[Pick(u)] + SumFunctionOnSet(g, u \ {Pick(u)})
  BY <1>3, <1>4, SumStep
<1>8. QED  BY <1>5, <1>6, <1>7

(* A set in two parts sums to the sums of its parts.                       *)
LEMMA SumParts ==
  ASSUME NEW f, NEW S, IsFiniteSet(S), \A x \in S : f[x] \in Int, NEW T \in SUBSET S
  PROVE  SumFunctionOnSet(f, S) = SumFunctionOnSet(f, T) + SumFunctionOnSet(f, S \ T)
<1> DEFINE Total(u) == SumFunctionOnSet(f, u)
           C == { u \in SUBSET T : Total((S \ T) \cup u) # Total(u) + Total(S \ T) }
<1>0. \A u \in SUBSET S : IsFiniteSet(u) /\ Total(u) \in Int
  BY FS_Subset, SumInt
<1>1. ASSUME NEW u \in SUBSET S, NEW x \in u  PROVE Total(u) = f[x] + Total(u \ {x})
  <2>1. IsFiniteSet(u) /\ \A y \in u : f[y] \in Int
    BY FS_Subset
  <2>2. QED  BY <2>1, SumApart
<1>2. C = {}
  <2>1. SUFFICES ASSUME C # {} PROVE FALSE
    OBVIOUS
  <2>2. IsFiniteSet(T)
    BY FS_Subset
  <2>3. PICK u \in C : \A v \in C : v \subseteq u => v = u
    <3>1. C \in SUBSET (SUBSET T)
      OBVIOUS
    <3> HIDE DEF C
    <3>2. QED  BY <2>1, <2>2, <3>1, SmallestSubset
  <2>4. u # {}
    <3>1. (S \ T) \cup {} = S \ T
      OBVIOUS
    <3>2. Total(S \ T) = Total({}) + Total(S \ T)
      BY <1>0, SumEmpty
    <3>3. QED  BY <3>1, <3>2
  <2>5. PICK x \in u : TRUE
    BY <2>4
  <2> DEFINE less == u \ {x}
  <2>6. less \in SUBSET T /\ less \notin C
    BY <2>3
  <2>7. Total((S \ T) \cup less) = Total(less) + Total(S \ T)
    BY <2>6
  <2>8. ((S \ T) \cup u) \ {x} = (S \ T) \cup less
    OBVIOUS
  <2> HIDE DEF Total
  <2>9. Total((S \ T) \cup u) = f[x] + Total((S \ T) \cup less)
    BY <1>1, <2>8
  <2>10. Total(u) = f[x] + Total(less)
    BY <1>1
  <2>11. f[x] \in Int /\ Total(less) \in Int /\ Total(S \ T) \in Int
    BY <1>0
  <2>12. Total((S \ T) \cup u) # Total(u) + Total(S \ T)
    OBVIOUS
  <2> HIDE DEF C, less
  <2>13. QED  BY <2>7, <2>9, <2>10, <2>11, <2>12
<1>3. (S \ T) \cup T = S
  OBVIOUS
<1>4. T \notin C
  BY <1>2
<1>5. QED  BY <1>3, <1>4

(* A set sorted into fibres by a key sums to the sums of its fibres.       *)
LEMMA SumFibres ==
  ASSUME NEW f, NEW S, IsFiniteSet(S), \A x \in S : f[x] \in Int,
         NEW T, IsFiniteSet(T), NEW key \in [S -> T], NEW part, NEW g,
         \A t \in T : part[t] \subseteq S /\ \A x \in S : x \in part[t] <=> key[x] = t,
         \A t \in T : g[t] = SumFunctionOnSet(f, part[t])
  PROVE  SumFunctionOnSet(g, T) = SumFunctionOnSet(f, S)
<1> DEFINE Fibre(t) == { x \in S : key[x] = t }
           Over(u) == { x \in S : key[x] \in u }
           C == { u \in SUBSET T : SumFunctionOnSet(g, u) # SumFunctionOnSet(f, Over(u)) }
<1>1. \A t \in T : part[t] = Fibre(t)
  OBVIOUS
<1>2. \A u : IsFiniteSet(Over(u)) /\ \A x \in Over(u) : f[x] \in Int
  BY FS_Subset
<1>3. \A t \in T : g[t] \in Int
  <2>1. \A t : IsFiniteSet(Fibre(t)) /\ \A x \in Fibre(t) : f[x] \in Int
    BY FS_Subset
  <2> HIDE DEF Fibre
  <2>2. \A t : SumFunctionOnSet(f, Fibre(t)) \in Int
    BY <2>1, SumInt
  <2>3. QED  BY <1>1, <2>2
<1>4. C = {}
  <2>1. SUFFICES ASSUME C # {} PROVE FALSE
    OBVIOUS
  <2>2. PICK u \in C : \A v \in C : v \subseteq u => v = u
    <3>1. C \in SUBSET (SUBSET T)
      OBVIOUS
    <3> HIDE DEF C
    <3>2. QED  BY <2>1, <3>1, SmallestSubset
  <2>3. u # {}
    <3>1. Over({}) = {}
      OBVIOUS
    <3>2. SumFunctionOnSet(g, {}) = 0 /\ SumFunctionOnSet(f, {}) = 0
      BY SumEmpty
    <3>3. {} \notin C
      <4> HIDE DEF Over
      <4>1. QED  BY <3>1, <3>2
    <3>4. QED  BY <3>3
  <2>4. PICK t \in u : TRUE
    BY <2>3
  <2> DEFINE less == u \ {t}
  <2>5. less \in SUBSET T /\ less \notin C
    BY <2>2
  <2>6. SumFunctionOnSet(g, less) = SumFunctionOnSet(f, Over(less))
    BY <2>5
  <2>7. SumFunctionOnSet(g, u) = g[t] + SumFunctionOnSet(g, less)
    <3>1. IsFiniteSet(u) /\ \A x \in u : g[x] \in Int
      BY <1>3, FS_Subset
    <3>2. QED  BY <3>1, SumApart
  <2>8. SumFunctionOnSet(f, Over(u)) = SumFunctionOnSet(f, Fibre(t)) + SumFunctionOnSet(f, Over(less))
    <3>1. Fibre(t) \in SUBSET Over(u) /\ Over(u) \ Fibre(t) = Over(less)
      OBVIOUS
    <3>2. IsFiniteSet(Over(u)) /\ \A x \in Over(u) : f[x] \in Int
      BY <1>2
    <3> HIDE DEF Over, Fibre
    <3>3. SumFunctionOnSet(f, Over(u))
            = SumFunctionOnSet(f, Fibre(t)) + SumFunctionOnSet(f, Over(u) \ Fibre(t))
      BY <3>1, <3>2, SumParts
    <3>4. QED  BY <3>1, <3>3
  <2>9. g[t] = SumFunctionOnSet(f, Fibre(t))
    <3>1. t \in T
      OBVIOUS
    <3> HIDE DEF Fibre, C
    <3>2. QED  BY <1>1, <3>1
  <2>10. SumFunctionOnSet(g, u) # SumFunctionOnSet(f, Over(u))
    OBVIOUS
  <2> HIDE DEF Over, Fibre, C, less
  <2>11. QED  BY <2>6, <2>7, <2>8, <2>9, <2>10
<1>5. Over(T) = S
  OBVIOUS
<1>6. T \notin C
  BY <1>4
<1>7. QED  BY <1>5, <1>6

(***************************************************************************)
(* Ranks.  In a finite set with a strict total order, given as its pairs,  *)
(* as many elements are ahead of each as its place says.                   *)
(***************************************************************************)
StrictOrder(S, R) ==
  /\ \A x \in S : <<x, x>> \notin R
  /\ \A x, y \in S : x # y => <<x, y>> \in R \/ <<y, x>> \in R
  /\ \A x, y, z \in S : <<x, y>> \in R /\ <<y, z>> \in R => <<x, z>> \in R

Ahead(S, R, x) == { y \in S : <<y, x>> \in R }

Rank(S, R, x) == Cardinality(Ahead(S, R, x)) + 1

LEMMA RankGrows ==
  ASSUME NEW S, IsFiniteSet(S), NEW R, StrictOrder(S, R), NEW x \in S, NEW y \in S
  PROVE  /\ Rank(S, R, x) \in 1..Cardinality(S)
         /\ <<x, y>> \in R <=> Rank(S, R, x) < Rank(S, R, y)
<1>1. ASSUME NEW a \in S
      PROVE  IsFiniteSet(Ahead(S, R, a)) /\ Cardinality(Ahead(S, R, a)) \in Nat
  BY FS_Subset, FS_CardinalityType DEF Ahead
<1>2. ASSUME NEW a \in S, NEW b \in S, <<a, b>> \in R  PROVE Rank(S, R, a) < Rank(S, R, b)
  <2>1. Ahead(S, R, a) \in SUBSET Ahead(S, R, b) /\ Ahead(S, R, a) # Ahead(S, R, b)
    BY <1>2 DEF Ahead, StrictOrder
  <2>2. QED  BY <1>1, <2>1, FS_Subset DEF Rank
<1>3. Rank(S, R, x) \in 1..Cardinality(S)
  <2>1. Ahead(S, R, x) \in SUBSET S /\ Ahead(S, R, x) # S
    BY DEF Ahead, StrictOrder
  <2>2. QED  BY <1>1, <2>1, FS_Subset, FS_CardinalityType DEF Rank
<1>4. Rank(S, R, x) \in Int /\ Rank(S, R, y) \in Int
  BY <1>1 DEF Rank
<1>5. Rank(S, R, x) < Rank(S, R, y) => <<x, y>> \in R
  <2>1. SUFFICES ASSUME Rank(S, R, x) < Rank(S, R, y), <<x, y>> \notin R PROVE FALSE
    OBVIOUS
  <2>2. x # y
    BY <2>1, <1>4
  <2>3. <<y, x>> \in R
    BY <2>1, <2>2 DEF StrictOrder
  <2>4. QED  BY <1>2, <1>4, <2>1, <2>3
<1>6. QED  BY <1>2, <1>3, <1>5

(* There is one element at each place.                                     *)
LEMMA Ranked ==
  ASSUME NEW S, IsFiniteSet(S), NEW R, StrictOrder(S, R)
  PROVE  \E f \in Bijection(1..Cardinality(S), S) :
           \A i \in 1..Cardinality(S) : Rank(S, R, f[i]) = i
<1> DEFINE N == 1..Cardinality(S)
           place == [x \in S |-> Rank(S, R, x)]
<1>1. Cardinality(S) \in Nat
  BY FS_CardinalityType
<1>2. place \in Injection(S, N)
  <2>1. place \in [S -> N]
    BY RankGrows
  <2>2. ASSUME NEW x \in S, NEW y \in S, x # y  PROVE place[x] # place[y]
    BY <2>2, RankGrows DEF StrictOrder
  <2>3. QED  BY <2>1, <2>2 DEF Injection, IsInjective
<1>3. place \in Surjection(S, N)
  <2>1. IsFiniteSet(N) /\ Cardinality(N) = Cardinality(S)
    BY <1>1, FS_Interval
  <2>2. QED  BY <1>2, <2>1, FS_Injection, Zenon
<1> DEFINE f == [i \in N |-> CHOOSE x \in S : place[x] = i]
<1>4. ASSUME NEW i \in N  PROVE f[i] \in S /\ place[f[i]] = i
  BY <1>3 DEF Surjection
<1>5. f \in Injection(N, S)
  BY <1>4, ZenonT(60) DEF Injection, IsInjective
<1>6. f \in Surjection(N, S)
  <2>1. ASSUME NEW x \in S  PROVE \E i \in N : f[i] = x
    <3>1. place[x] \in N
      BY <1>2 DEF Injection
    <3>2. place[f[place[x]]] = place[x] /\ f[place[x]] \in S
      BY <1>4, <3>1
    <3> HIDE DEF place, f
    <3>3. f[place[x]] = x
      BY <3>2, <1>2 DEF Injection, IsInjective
    <3>4. QED  BY <3>1, <3>3
  <2>2. QED  BY <1>5, <2>1 DEF Surjection, Injection
<1>7. \A i \in N : Rank(S, R, f[i]) = i
  BY <1>4
<1>8. f \in Bijection(N, S)
  BY <1>5, <1>6 DEF Bijection
<1> HIDE DEF f
<1>9. QED  BY <1>7, <1>8

(* The first n are n, or all when there are fewer.                         *)
LEMMA TopCount ==
  ASSUME NEW S, IsFiniteSet(S), NEW R, StrictOrder(S, R), NEW n \in Nat
  PROVE  LET top == { x \in S : Cardinality(Ahead(S, R, x)) < n }
         IN  Cardinality(top) = IF n <= Cardinality(S) THEN n ELSE Cardinality(S)
<1> DEFINE top == { x \in S : Cardinality(Ahead(S, R, x)) < n }
           size == IF n <= Cardinality(S) THEN n ELSE Cardinality(S)
<1>1. Cardinality(S) \in Nat /\ size \in Nat
  BY FS_CardinalityType
<1>2. PICK f \in Bijection(1..Cardinality(S), S) :
             \A i \in 1..Cardinality(S) : Rank(S, R, f[i]) = i
  BY Ranked
<1>3. \A x \in S : Cardinality(Ahead(S, R, x)) \in Nat
  BY FS_Subset, FS_CardinalityType DEF Ahead
<1> DEFINE g == [i \in 1..size |-> f[i]]
<1>4. \A i \in 1..size : i \in 1..Cardinality(S)
  BY <1>1
<1>5. \A i \in 1..size : g[i] \in top
  <2>1. ASSUME NEW i \in 1..size  PROVE g[i] \in top
    <3>1. f[i] \in S /\ Rank(S, R, f[i]) = i
      BY <1>2, <1>4 DEF Bijection, Injection
    <3>2. QED  BY <1>1, <1>3, <3>1 DEF Rank
  <2>2. QED  BY <2>1
<1>6. g \in Injection(1..size, top)
  BY <1>2, <1>4, <1>5 DEF Bijection, Injection, IsInjective
<1>7. g \in Surjection(1..size, top)
  <2>1. ASSUME NEW x \in top  PROVE \E i \in 1..size : g[i] = x
    <3>1. PICK i \in 1..Cardinality(S) : f[i] = x
      BY <1>2 DEF Bijection, Surjection
    <3>2. i < n + 1
      BY <1>2, <1>3, <3>1 DEF Rank
    <3>3. i \in 1..size
      BY <1>1, <3>2
    <3>4. QED  BY <3>1, <3>3
  <2>2. QED  BY <2>1, <1>5 DEF Surjection
<1>8. ExistsBijection(1..size, top)
  BY <1>6, <1>7 DEF ExistsBijection, Bijection
<1> HIDE DEF size, top
<1>9. Cardinality(top) = size
  BY <1>1, <1>8, FS_CountingElements
<1>10. QED  BY <1>9 DEF top, size

(***************************************************************************)
(* The tables and the lists                                                *)
(***************************************************************************)
Tables ==
  /\ teams \subseteq ever /\ ever \subseteq Team /\ IsFiniteSet(teams)
  /\ roster \subseteq Member /\ IsFiniteSet(roster)
  /\ team \in [Member -> Team \cup {None}]
  /\ filed \in Seq(Item) /\ ledger \in Seq(Row)
  /\ References
  /\ \A m \in Member \ roster : team[m] = None

Order(list) == { p \in Rows(list) \X Rows(list) : Precedes(list, p[1], p[2]) }

LEMMA RowsOrdered ==
  ASSUME Tables, NEW list
  PROVE  /\ IsFiniteSet(Rows(list)) /\ Rows(list) \subseteq Nat
         /\ StrictOrder(Rows(list), Order(list))
<1>1. CASE list.kind = "member"
  <2>1. Rows(list) \in SUBSET roster
    BY <1>1 DEF Rows
  <2>2. Rows(list) \subseteq Nat /\ IsFiniteSet(Rows(list))
    BY <2>1, FS_Subset, OrderAssumption DEF Tables
  <2>3. \A x \in Rows(list) : x \in Nat /\ (team[x] = None \/ team[x] \in Nat)
    BY <2>1, OrderAssumption DEF Tables
  <2>4. \A x, y \in Rows(list) : <<x, y>> \in Order(list) <=> Before(x, y)
    BY <1>1 DEF Order, Precedes
  <2>5. None \notin Team /\ \A x \in Rows(list) : team[x] \in Team \cup {None}
    BY <2>1, NoneAssumption DEF Tables
  <2>6. \A x, y \in Rows(list) : x # y => Before(x, y) \/ Before(y, x)
    BY <2>3 DEF Before
  <2>7. \A x, y, z \in Rows(list) : Before(x, y) /\ Before(y, z) => Before(x, z)
    BY <2>3, <2>5 DEF Before
  <2>8. \A x \in Rows(list) : ~ Before(x, x)
    BY <2>3 DEF Before
  <2>9. QED  BY <2>2, <2>4, <2>6, <2>7, <2>8 DEF StrictOrder
<1>2. CASE list.kind # "member"
  <2>1. Rows(list) \in SUBSET (1..Len(filed)) /\ Len(filed) \in Nat
    BY <1>2, LenProperties DEF Rows, Tables
  <2>2. Rows(list) \subseteq Nat /\ IsFiniteSet(Rows(list))
    <3>1. IsFiniteSet(1..Len(filed))
      BY <2>1, FS_Interval
    <3>2. QED  BY <2>1, <3>1, FS_Subset
  <2>3. \A x, y \in Rows(list) : <<x, y>> \in Order(list) <=> x > y
    BY <1>2 DEF Order, Precedes
  <2>4. QED  BY <2>2, <2>3 DEF StrictOrder
<1>3. QED  BY <1>1, <1>2

(* A list shows each of its rows once, each at its place.                  *)
LEMMA ListedInOrder ==
  ASSUME Tables, NEW list
  PROVE  /\ Listed(list) \in Bijection(1..Cardinality(Rows(list)), Rows(list))
         /\ Listed(list) \in Seq(Nat) /\ Len(Listed(list)) = Cardinality(Rows(list))
         /\ DOMAIN Listed(list) = 1..Len(Listed(list)) /\ Len(Listed(list)) \in Nat
<1> DEFINE S == Rows(list)
           N == 1..Cardinality(S)
           R == Order(list)
           L == Listed(list)
<1>1. IsFiniteSet(S) /\ S \subseteq Nat /\ StrictOrder(S, R)
  BY RowsOrdered
<1>2. PICK f \in Bijection(N, S) : \A i \in N : Rank(S, R, f[i]) = i
  BY <1>1, Ranked
<1>3. \A x \in S : { y \in S : Precedes(list, y, x) } = Ahead(S, R, x)
  BY DEF Ahead, Order
<1>4. L = [k \in N |-> CHOOSE x \in S : Cardinality({ y \in S : Precedes(list, y, x) }) = k - 1]
  BY DEF Listed
<1>5. \A x \in S : Cardinality(Ahead(S, R, x)) \in Nat
  BY <1>1, FS_Subset, FS_CardinalityType DEF Ahead
<1>6. ASSUME NEW i \in N  PROVE L[i] = f[i]
  <2>1. f[i] \in S /\ Cardinality(Ahead(S, R, f[i])) = i - 1
    BY <1>2, <1>5 DEF Rank, Bijection, Injection
  <2>2. ASSUME NEW x \in S, Cardinality(Ahead(S, R, x)) = i - 1  PROVE x = f[i]
    BY <2>1, <2>2, <1>1, RankGrows DEF StrictOrder, Rank
  <2> HIDE DEF S, R
  <2>3. L[i] = CHOOSE x \in S : Cardinality({ y \in S : Precedes(list, y, x) }) = i - 1
    BY <1>4
  <2>4. QED  BY <1>3, <2>1, <2>2, <2>3
<1>7. L = f
  BY <1>2, <1>4, <1>6 DEF Bijection, Injection
<1>8. Cardinality(S) \in Nat
  BY <1>1, FS_CardinalityType
<1>9. f \in [N -> Nat]
  BY <1>1, <1>2 DEF Bijection, Injection
<1>10. f \in Seq(Nat)
  BY <1>8, <1>9, SeqDef
<1>11. Len(f) \in Nat /\ DOMAIN f = 1..Len(f) /\ Len(f) = Cardinality(S)
  BY <1>8, <1>9, <1>10, LenProperties
<1>12. QED  BY <1>2, <1>7, <1>10, <1>11

(***************************************************************************)
(* What a step does to the tables                                          *)
(***************************************************************************)
LEMMA WorthInt == \A kind \in DOMAIN Status : Worth(kind) \in Int
<1>1. Worth("tyfcb") = 10
  <2>1. Band(1) = 10
    BY DEF Band
  <2>2. TyfcbScore(10, 1, 2) = 10
    BY DEF TyfcbScore, Max2, RoundedQuotient, RoundedDown
  <2>3. QED  BY <2>1, <2>2 DEF Worth
<1>2. Worth("visitor") = 20
  BY DEF Worth, VisitorCumulative, VisitorStatus
<1>3. QED  BY <1>1, <1>2 DEF Status

LEMMA NewItemOK ==
  ASSUME NEW kind \in DOMAIN Status, NEW m \in Member
  PROVE  NewItem(kind, m) \in Item /\ NewItem(kind, m).by = m /\ NewItem(kind, m).kind = kind
BY DEF NewItem, Item, Status

LEMMA ItemFields ==
  ASSUME NEW i \in Item
  PROVE  /\ i.kind \in DOMAIN Status /\ i.by \in Member /\ i.status \in Status[i.kind] /\ i.void \in BOOLEAN
         /\ i = [kind |-> i.kind, by |-> i.by, status |-> i.status, void |-> i.void]
BY DEF Item, Status

LEMMA BonusOK ==
  ASSUME NEW m \in Member \cup {None}, NEW t \in Team \cup {None}, NEW points \in Int
  PROVE  Bonus(m, t, points) \in Row
BY DEF Bonus, Row, Category

(* What a request carries depends on where it stands.                      *)
Placed(r) ==
  /\ r.at = "settle" =>
       /\ r.item \in DOMAIN filed
       /\ r.seen \in Status[filed[r.item].kind] /\ r.to \in Status[filed[r.item].kind] \cup {"void"}
       /\ r.to # r.seen
  /\ r.at \in {"target", "file"} => r.who \in Member /\ r.other \in roster
  /\ r.at \in {"target", "file", "roster", "pending", "guests", "screen"} => r.team \in Team

Placement == \A h \in Handler : Placed(req[h])

(* The ledger only grows and so does the season; what was filed keeps its  *)
(* kind and who filed it; no id of a team is issued twice.                 *)
Grows ==
  /\ ledger' = ledger \/ \E r \in Row : ledger' = Append(ledger, r)
  /\ roster \subseteq roster' /\ ever \subseteq ever' /\ teams' \cap ever \subseteq teams
  /\ \A i \in DOMAIN filed :
       i \in DOMAIN filed' /\ filed'[i].by = filed[i].by /\ filed'[i].kind = filed[i].kind

Writes(h) ==
  \/ Submit(h) \/ Register(h) \/ CaptainSubmit(h) \/ CaptainRegister(h) \/ Settle(h)
  \/ MoveMember(h) \/ RosterBonus(h) \/ Enrol(h) \/ CreateTeam(h) \/ DeleteTeam(h)

(* Every other step leaves the tables alone.                               *)
LEMMA OnlyWrites ==
  ASSUME NEW h \in Handler, Begin(h) \/ Step(h) \/ Fail(h)
  PROVE  Writes(h) \/ UNCHANGED tables
BY DEF Begin, Step, Fail, Writes, CaptainRead, ModerateRead, PageCount, Standings, LeaderboardReport,
       DashboardMember, CaptainProfile, Opens, AssertSameTeam, PageRows, NextPage, IndividualStandings,
       DashboardTeams, CaptainRoster, CaptainPending, CaptainGuests, Leave

LEMMA FilesTables ==
  ASSUME Tables, NEW kind \in DOMAIN Status, NEW m \in roster, Files(kind, m)
  PROVE  Tables' /\ Grows
<1>1. NewItem(kind, m) \in Item /\ NewItem(kind, m).by = m /\ filed' = Append(filed, NewItem(kind, m))
  BY NewItemOK DEF Files, Tables
<1>2. UNCHANGED <<teams, ever, roster, team, ledger>>
  BY DEF Files
<1>3. /\ filed' \in Seq(Item) /\ Len(filed') = Len(filed) + 1 /\ Len(filed) \in Nat
      /\ DOMAIN filed = 1..Len(filed) /\ DOMAIN filed' = 1..Len(filed')
      /\ \A i \in 1..Len(filed) : filed'[i] = filed[i]
      /\ filed'[Len(filed) + 1] = NewItem(kind, m)
  BY <1>1, AppendProperties, LenProperties DEF Tables
<1>4. \A i \in DOMAIN filed' : filed'[i].by \in roster
  BY <1>1, <1>3 DEF Tables, References
<1>5. Tables'
  BY <1>2, <1>3, <1>4 DEF Tables, References
<1>6. QED  BY <1>2, <1>3, <1>5 DEF Grows

(* A row that refers to a team and a member there are.                     *)
RowStands(r) == r \in Row /\ r.team \in teams \cup {None} /\ r.member \in roster \cup {None}

LEMMA AppendRow ==
  ASSUME Tables, NEW r, RowStands(r)
  PROVE  LET after == Append(ledger, r)
         IN  /\ after \in Seq(Row) /\ Len(after) = Len(ledger) + 1
             /\ \A i \in DOMAIN after : RowStands(after[i])
<1>1. /\ Append(ledger, r) \in Seq(Row) /\ Len(Append(ledger, r)) = Len(ledger) + 1 /\ Len(ledger) \in Nat
      /\ DOMAIN ledger = 1..Len(ledger) /\ DOMAIN Append(ledger, r) = 1..(Len(ledger) + 1)
      /\ \A i \in 1..Len(ledger) : Append(ledger, r)[i] = ledger[i]
      /\ Append(ledger, r)[Len(ledger) + 1] = r
  BY AppendProperties, LenProperties DEF Tables, RowStands
<1>2. \A i \in 1..Len(ledger) : RowStands(ledger[i])
  BY <1>1, ElementOfSeq DEF Tables, References, RowStands
<1>3. QED  BY <1>1, <1>2

LEMMA SettledOK ==
  ASSUME NEW i \in Item, NEW to \in Status[i.kind] \cup {"void"}
  PROVE  Settled(i, to) \in Item /\ Settled(i, to).by = i.by /\ Settled(i, to).kind = i.kind
<1> DEFINE Of(k) == [kind : {k}, by : Member, status : Status[k], void : BOOLEAN]
<1>1. PICK k \in DOMAIN Status : i \in Of(k)
  BY DEF Item
<1>2. i.kind = k /\ to \in Status[k] \cup {"void"} /\ (to = "void" /\ k = "tyfcb" => to \in Status[k])
  BY <1>1 DEF Status
<1>3. CASE to # "void"
  <2>1. Settled(i, to) = [i EXCEPT !.status = to]
    BY <1>3 DEF Settled
  <2>2. Settled(i, to) \in Of(k) /\ Settled(i, to).by = i.by /\ Settled(i, to).kind = i.kind
    BY <1>1, <1>2, <1>3, <2>1
  <2>3. QED  BY <2>2 DEF Item
<1>4. CASE to = "void"
  <2> DEFINE s == IF k = "tyfcb" THEN to ELSE i.status
  <2>1. Settled(i, to) = [i EXCEPT !.void = TRUE, !.status = s]
    BY <1>2, <1>4 DEF Settled
  <2>2. s \in Status[k]
    BY <1>1, <1>2, <1>4
  <2> HIDE DEF s
  <2>3. Settled(i, to) \in Of(k) /\ Settled(i, to).by = i.by /\ Settled(i, to).kind = i.kind
    BY <1>1, <2>1, <2>2
  <2>4. QED  BY <2>3 DEF Item
<1>5. QED  BY <1>3, <1>4

LEMMA SumBySourceInt ==
  ASSUME Tables, NEW rows \in SUBSET DOMAIN ledger, NEW category
  PROVE  /\ IsFiniteSet(rows)
         /\ Points(rows, category) \in Int
<1>1. DOMAIN ledger = 1..Len(ledger) /\ Len(ledger) \in Nat /\ \A i \in DOMAIN ledger : ledger[i] \in Row
  BY LenProperties, ElementOfSeq DEF Tables
<1>2. IsFiniteSet(DOMAIN ledger)
  BY <1>1, FS_Interval
<1>3. IsFiniteSet(rows) /\ IsFiniteSet({ i \in rows : category \in {"overall", ledger[i].category} })
  BY <1>2, FS_Subset
<1> DEFINE f == [i \in DOMAIN ledger |-> ledger[i].points]
           counted == { i \in rows : category \in {"overall", ledger[i].category} }
<1>4. \A i \in counted : f[i] \in Int
  BY <1>1 DEF Row
<1> HIDE DEF f, counted
<1>5. SumFunctionOnSet(f, counted) \in Int
  BY <1>3, <1>4, SumInt DEF counted
<1>6. QED  BY <1>3, <1>5 DEF Points, f, counted

LEMMA SettleTables ==
  ASSUME Tables, TypeOK, Placement, NEW h \in Handler, Settle(h)
  PROVE  Tables' /\ Grows
<1> DEFINE n == req[h].item
           i == filed[n]
           row == RowOf(i, n, CreditedTeam(h), Delta(h))
<1>1. req[h] \in Request /\ req[h].team \in Team \cup {None} /\ req[h].sum \in Int
  BY DEF TypeOK, Request
<1>2. n \in DOMAIN filed /\ req[h].to \in Status[i.kind] \cup {"void"} /\ req[h].at = "settle"
  BY DEF Settle, Placement, Placed
<1>3. /\ DOMAIN filed = 1..Len(filed) /\ Len(filed) \in Nat /\ n \in 1..Len(filed)
      /\ \A j \in DOMAIN filed : filed[j] \in Item
  BY <1>2, LenProperties, ElementOfSeq DEF Tables
<1>4. CASE UNCHANGED <<filed, ledger>>
  BY <1>4 DEF Settle, Tables, References, Grows
<1>5. CASE /\ Delta(h) = 0 \/ row.team \in teams \cup {None}
           /\ filed' = [filed EXCEPT ![n] = Settled(i, req[h].to)]
           /\ ledger' = IF Delta(h) = 0 THEN ledger ELSE Append(ledger, row)
  <2>1. UNCHANGED <<teams, ever, roster, team>>
    BY DEF Settle
  <2>2. /\ Settled(i, req[h].to) \in Item
        /\ Settled(i, req[h].to).by = i.by /\ Settled(i, req[h].to).kind = i.kind
    BY <1>2, <1>3, SettledOK
  <2>3. /\ filed' \in Seq(Item) /\ DOMAIN filed' = DOMAIN filed
        /\ \A j \in DOMAIN filed : filed'[j] = IF j = n THEN Settled(i, req[h].to) ELSE filed[j]
    <3> HIDE DEF i, n
    <3>1. QED  BY <1>2, <1>3, <1>5, <2>2, ExceptSeq DEF Tables
  <2>4. \A j \in DOMAIN filed : filed'[j].by = filed[j].by /\ filed'[j].kind = filed[j].kind
    BY <2>2, <2>3
  <2>5. \A j \in DOMAIN filed' : filed'[j].by \in roster'
    BY <2>1, <2>3, <2>4 DEF Tables, References
  <2>6. i.kind \in DOMAIN Status /\ i.by \in roster /\ i.by \in Member
    BY <1>2, <1>3, ItemFields DEF Tables, References
  <2>7. Delta(h) \in Int
    <3>1. Worth(i.kind) \in Int
      BY <2>6, WorthInt
    <3>2. SumBySource(n) \in Int
      BY SumBySourceInt DEF SumBySource
    <3>3. QED  BY <1>1, <2>6, <3>1, <3>2 DEF Delta
  <2>8. row \in Row
    BY <1>1, <1>2, <1>3, <2>6, <2>7 DEF RowOf, Row, Category, CreditedTeam, Status
  <2>9. CASE Delta(h) = 0
    BY <1>5, <2>1, <2>3, <2>4, <2>5, <2>9 DEF Tables, References, Grows
  <2>10. CASE Delta(h) # 0
    <3>1. RowStands(row)
      BY <1>5, <2>6, <2>8, <2>10 DEF RowStands, RowOf
    <3>2. ledger' = Append(ledger, row)
      BY <1>5, <2>10
    <3> HIDE DEF row
    <3>3. ledger' \in Seq(Row) /\ \A j \in DOMAIN ledger' : RowStands(ledger'[j])
      BY <3>1, <3>2, AppendRow
    <3>4. QED  BY <2>1, <2>3, <2>4, <2>5, <2>8, <3>2, <3>3 DEF Tables, References, Grows, RowStands
  <2>11. QED  BY <2>9, <2>10
<1>6. QED  BY <1>4, <1>5 DEF Settle

LEMMA MoveMemberTables ==
  ASSUME Tables, NEW h \in Handler, MoveMember(h)
  PROVE  Tables' /\ Grows
<1>1. PICK m \in roster, t \in teams \cup {None}, raised \in BOOLEAN :
        /\ team' = [team EXCEPT ![m] = t]
        /\ ledger' = IF raised THEN Append(ledger, Bonus(m, t, LevelUpBonus("merah", "kuning"))) ELSE ledger
  BY DEF MoveMember
<1>2. UNCHANGED <<teams, ever, roster, filed>>
  BY DEF MoveMember
<1>3. m \in Member /\ t \in Team \cup {None}
  BY DEF Tables
<1>4. team' \in [Member -> Team \cup {None}] /\ \A x \in Member : team'[x] = IF x = m THEN t ELSE team[x]
  BY <1>1, <1>3 DEF Tables
<1>5. RowStands(Bonus(m, t, LevelUpBonus("merah", "kuning")))
  <2>1. LevelUpBonus("merah", "kuning") \in Int
    BY DEF LevelUpBonus
  <2>2. QED  BY <1>3, <2>1, BonusOK DEF RowStands, Bonus
<1>6. ledger' \in Seq(Row) /\ \A i \in DOMAIN ledger' : RowStands(ledger'[i])
  <2>1. \A i \in DOMAIN ledger : RowStands(ledger[i])
    BY LenProperties, ElementOfSeq DEF Tables, References, RowStands
  <2>2. QED  BY <1>1, <1>5, <2>1, AppendRow DEF Tables
<1>7. Tables'
  BY <1>2, <1>4, <1>6 DEF Tables, References, RowStands
<1>8. QED  BY <1>1, <1>2, <1>5, <1>7 DEF Grows, RowStands

LEMMA RosterBonusTables ==
  ASSUME Tables, NEW h \in Handler, RosterBonus(h)
  PROVE  Tables' /\ Grows
<1>1. PICK t \in teams : ledger' = Append(ledger, Bonus(None, t, BonusFullRoster))
  BY DEF RosterBonus
<1>2. UNCHANGED <<teams, ever, roster, team, filed>>
  BY DEF RosterBonus
<1>3. RowStands(Bonus(None, t, BonusFullRoster))
  <2>1. t \in Team /\ BonusFullRoster \in Int
    BY DEF BonusFullRoster, Tables
  <2>2. QED  BY <2>1, BonusOK DEF RowStands, Bonus
<1>4. ledger' \in Seq(Row) /\ \A i \in DOMAIN ledger' : RowStands(ledger'[i])
  BY <1>1, <1>3, AppendRow
<1>5. Tables'
  BY <1>2, <1>4 DEF Tables, References, RowStands
<1>6. QED  BY <1>1, <1>2, <1>3, <1>5 DEF Grows, RowStands

LEMMA EnrolTables ==
  ASSUME Tables, NEW h \in Handler, Enrol(h)
  PROVE  Tables' /\ Grows
<1>1. PICK m \in Member \ roster, t \in teams \cup {None} :
        roster' = roster \cup {m} /\ team' = [team EXCEPT ![m] = t]
  BY DEF Enrol
<1>2. UNCHANGED <<teams, ever, filed, ledger>>
  BY DEF Enrol
<1>3. team' \in [Member -> Team \cup {None}] /\ \A x \in Member : team'[x] = IF x = m THEN t ELSE team[x]
  BY <1>1 DEF Tables
<1>4. roster' \subseteq Member /\ IsFiniteSet(roster')
  BY <1>1, FS_AddElement DEF Tables
<1>5. Tables'
  BY <1>1, <1>2, <1>3, <1>4 DEF Tables, References
<1>6. QED  BY <1>1, <1>2, <1>5 DEF Grows

LEMMA TeamsTables ==
  ASSUME Tables, NEW h \in Handler, CreateTeam(h) \/ DeleteTeam(h)
  PROVE  Tables' /\ Grows
<1>1. CASE CreateTeam(h)
  <2>1. PICK t \in Team \ ever : teams' = teams \cup {t} /\ ever' = ever \cup {t}
    BY <1>1 DEF CreateTeam
  <2>2. UNCHANGED <<roster, team, filed, ledger>>
    BY <1>1 DEF CreateTeam
  <2>3. IsFiniteSet(teams')
    BY <2>1, FS_AddElement DEF Tables
  <2>4. Tables'
    BY <2>1, <2>2, <2>3 DEF Tables, References
  <2>5. QED  BY <2>1, <2>2, <2>4 DEF Grows
<1>2. CASE DeleteTeam(h)
  <2>1. PICK t \in teams : /\ Deletable(t) /\ teams' = teams \ {t}
                           /\ team' = [m \in Member |-> IF team[m] = t THEN None ELSE team[m]]
    BY <1>2 DEF DeleteTeam
  <2>2. UNCHANGED <<ever, roster, filed, ledger>>
    BY <1>2 DEF DeleteTeam
  <2>3. IsFiniteSet(teams')
    BY <2>1, FS_RemoveElement DEF Tables
  <2>4. \A i \in DOMAIN ledger : ledger[i].team # t
    BY <2>1 DEF Deletable, TeamRows
  <2>5. Tables'
    BY <2>1, <2>2, <2>3, <2>4 DEF Tables, References
  <2>6. QED  BY <2>1, <2>2, <2>5 DEF Grows
<1>3. QED  BY <1>1, <1>2

LEMMA WritesTables ==
  ASSUME Tables, TypeOK, Placement, NEW h \in Handler, Writes(h)
  PROVE  Tables' /\ Grows
<1>1. \A m \in roster : Files("tyfcb", m) \/ Files("visitor", m) => Tables' /\ Grows
  BY FilesTables DEF Status
<1>2. CASE Submit(h) \/ Register(h)
  BY <1>1, <1>2 DEF Submit, Register
<1>3. CASE CaptainSubmit(h) \/ CaptainRegister(h)
  BY <1>1, <1>3 DEF CaptainSubmit, CaptainRegister, Placement, Placed
<1>4. QED
  BY <1>2, <1>3, SettleTables, MoveMemberTables, RosterBonusTables, EnrolTables, TeamsTables DEF Writes

LEMMA StillTables ==
  ASSUME Tables, UNCHANGED tables
  PROVE  Tables' /\ Grows
BY DEF Tables, tables, References, Grows

LEMMA PlacedStays ==
  ASSUME NEW r, Placed(r), Grows
  PROVE  Placed(r)'
BY DEF Placed, Grows

(***************************************************************************)
(* What a step does to the request it serves                               *)
(***************************************************************************)
LEMMA IdleOK == Idle \in Request /\ Placed(Idle)
BY DEF Idle, Request, Placed, List, AnyStatus, Status

(* A request that goes on or opens, the tables being left alone.           *)
Becomes(h, r) == r \in Request /\ Placed(r) /\ req' = [req EXCEPT ![h] = r]

LEMMA Opened ==
  ASSUME Tables, TypeOK, NEW h \in Handler,
         CaptainRead(h) \/ ModerateRead(h) \/ PageCount(h) \/ Standings(h) \/ LeaderboardReport(h)
           \/ DashboardMember(h) \/ CaptainProfile(h)
  PROVE  \E r : Becomes(h, r)
<1>1. Idle \in Request
  BY IdleOK
<1>2. /\ team \in [Member -> Team \cup {None}] /\ roster \subseteq Member
      /\ \A i \in DOMAIN filed : filed[i] \in Item
      /\ DOMAIN filed = 1..Len(filed) /\ Len(filed) \in Nat
  BY LenProperties, ElementOfSeq DEF Tables
<1>3. CASE CaptainRead(h)
  <2>1. PICK c \in Captain \cap roster, m \in roster :
          /\ team[c] # None
          /\ req' = [req EXCEPT ![h] = [Idle EXCEPT !.at = "target", !.who = c, !.other = m, !.team = team[c]]]
    BY <1>3 DEF CaptainRead, Begins
  <2> DEFINE r == [Idle EXCEPT !.at = "target", !.who = c, !.other = m, !.team = team[c]]
  <2>2. r \in Request /\ r.at = "target" /\ r.who = c /\ r.other = m /\ r.team = team[c]
    BY <1>1, <1>2, <2>1 DEF Request
  <2>3. Placed(r)
    BY <1>2, <2>1, <2>2 DEF Placed
  <2>4. QED  BY <2>1, <2>2, <2>3 DEF Becomes
<1>4. CASE ModerateRead(h)
  <2>1. PICK i \in DOMAIN filed : \E to \in Status[filed[i].kind] \cup {"void"} :
          /\ to # filed[i].status
          /\ req' = [req EXCEPT ![h] = [Idle EXCEPT !.at = "settle", !.item = i, !.seen = filed[i].status,
                                                    !.to = to, !.team = team[filed[i].by], !.sum = SumBySource(i)]]
    BY <1>4 DEF ModerateRead, Begins
  <2>2. PICK to \in Status[filed[i].kind] \cup {"void"} :
          /\ to # filed[i].status
          /\ req' = [req EXCEPT ![h] = [Idle EXCEPT !.at = "settle", !.item = i, !.seen = filed[i].status,
                                                    !.to = to, !.team = team[filed[i].by], !.sum = SumBySource(i)]]
    BY <2>1
  <2> DEFINE r == [Idle EXCEPT !.at = "settle", !.item = i, !.seen = filed[i].status,
                               !.to = to, !.team = team[filed[i].by], !.sum = SumBySource(i)]
  <2>3. SumBySource(i) \in Int
    BY SumBySourceInt DEF SumBySource
  <2>4. filed[i].status \in Status[filed[i].kind] /\ team[filed[i].by] \in Team \cup {None} /\ i \in Nat
    BY <1>2, ItemFields
  <2>5. filed[i].status \in AnyStatus /\ to \in AnyStatus
    BY <1>2, <2>4, ItemFields DEF AnyStatus, Status
  <2>6. r \in Request /\ r.at = "settle" /\ r.item = i /\ r.seen = filed[i].status /\ r.to = to
    BY <1>1, <2>3, <2>4, <2>5, ZenonT(60) DEF Request
  <2>7. Placed(r)
    BY <2>2, <2>4, <2>6 DEF Placed
  <2>8. QED  BY <2>2, <2>6, <2>7 DEF Becomes
<1>5. CASE PageCount(h)
  <2>1. PICK list \in Lists, asked \in Asked, byPage \in BOOLEAN :
          req' = [req EXCEPT ![h] = [Idle EXCEPT !.at = "rows", !.list = list, !.asked = asked, !.byPage = byPage,
                                                 !.total = Len(Listed(list))]]
    BY <1>5 DEF PageCount, Opens
  <2> DEFINE r == [Idle EXCEPT !.at = "rows", !.list = list, !.asked = asked, !.byPage = byPage,
                               !.total = Len(Listed(list))]
  <2>2. Len(Listed(list)) \in Nat
    BY ListedInOrder
  <2>3. r \in Request /\ r.at = "rows"
    BY <1>1, <2>2, ListsAssumption, ZenonT(60) DEF Request
  <2>4. QED  BY <2>1, <2>3 DEF Becomes, Placed
<1>6. CASE Standings(h) \/ LeaderboardReport(h)
  <2> DEFINE r(asked, category) == [Idle EXCEPT !.at = "individuals", !.asked = asked, !.ranked = category]
  <2>1. \A asked \in Asked \cup {SheetRows}, category \in {"overall", "tyfcb", "visitor"} :
          r(asked, category) \in Request /\ r(asked, category).at = "individuals"
    BY <1>1, ZenonT(60) DEF Request
  <2> DEFINE report == [Idle EXCEPT !.at = "individuals", !.asked = SheetRows]
  <2>2. report \in Request /\ report.at = "individuals"
    BY <1>1, ZenonT(60) DEF Request
  <2>3. CASE Standings(h)
    <3>1. PICK asked \in Asked, category \in {"overall", "tyfcb", "visitor"} :
            req' = [req EXCEPT ![h] = r(asked, category)]
      BY <2>3 DEF Standings, Opens
    <3> HIDE DEF r
    <3>2. QED  BY <2>1, <3>1 DEF Becomes, Placed
  <2>4. CASE LeaderboardReport(h)
    <3>1. req' = [req EXCEPT ![h] = report]
      BY <2>4 DEF LeaderboardReport, Opens
    <3> HIDE DEF report
    <3>2. QED  BY <2>2, <3>1 DEF Becomes, Placed
  <2>5. QED  BY <1>6, <2>3, <2>4
<1>7. CASE DashboardMember(h)
  <2>1. PICK m \in roster : req' = [req EXCEPT ![h] = [Idle EXCEPT !.at = "teams", !.who = m, !.team = team[m]]]
    BY <1>7 DEF DashboardMember, Opens
  <2> DEFINE r == [Idle EXCEPT !.at = "teams", !.who = m, !.team = team[m]]
  <2>2. r \in Request /\ r.at = "teams"
    BY <1>1, <1>2 DEF Request
  <2>3. QED  BY <2>1, <2>2 DEF Becomes, Placed
<1>8. CASE CaptainProfile(h)
  <2>1. PICK c \in Captain \cap roster :
          /\ team[c] # None
          /\ req' = [req EXCEPT ![h] = [Idle EXCEPT !.at = "roster", !.who = c, !.team = team[c]]]
    BY <1>8 DEF CaptainProfile, Opens
  <2> DEFINE r == [Idle EXCEPT !.at = "roster", !.who = c, !.team = team[c]]
  <2>2. r \in Request /\ r.at = "roster" /\ r.team = team[c]
    BY <1>1, <1>2 DEF Request
  <2>3. QED  BY <1>2, <2>1, <2>2 DEF Becomes, Placed
<1>9. QED
  BY <1>3, <1>4, <1>5, <1>6, <1>7, <1>8, Zenon

LEMMA ShownRows ==
  ASSUME Tables, NEW list, NEW offset \in Nat, NEW limit \in Nat
  PROVE  LET L == Listed(list)
             shown == Cut(L, offset, limit)
             size == IF offset >= Len(L) THEN 0 ELSE IF limit <= Len(L) - offset THEN limit ELSE Len(L) - offset
         IN  /\ shown = { L[k] : k \in (offset + 1)..(offset + size) }
             /\ \A k \in (offset + 1)..(offset + size) : k \in 1..Len(L)
             /\ shown \subseteq Nat
             /\ Cardinality(shown) = size /\ size \in Nat
<1> DEFINE L == Listed(list)
           size == IF offset >= Len(L) THEN 0 ELSE IF limit <= Len(L) - offset THEN limit ELSE Len(L) - offset
           last == offset + Min({limit, Len(L) - offset})
           sub == SubSeq(L, offset + 1, last)
<1>1. /\ L \in Seq(Nat) /\ Len(L) \in Nat /\ DOMAIN L = 1..Len(L)
      /\ \A i, j \in 1..Len(L) : L[i] = L[j] => i = j
  BY ListedInOrder DEF Bijection, Injection, IsInjective
<1> HIDE DEF L
<1>2. Min({limit, Len(L) - offset}) = IF limit <= Len(L) - offset THEN limit ELSE Len(L) - offset
  BY <1>1 DEF Min
<1>3. last \in Int /\ last <= Len(L) /\ (offset < Len(L) => last = offset + size) /\ (offset >= Len(L) => last <= offset)
  BY <1>1, <1>2
<1>4. size \in Nat
  BY <1>1
<1>5. offset >= Len(L) => size = 0
  BY <1>1
<1> HIDE DEF last, size
<1>6. size # 0 => last = offset + size
  BY <1>1, <1>3, <1>5
<1>7. \A k \in (offset + 1)..last : k \in 1..Len(L) /\ L[k] \in Nat
  BY <1>1, <1>3, ElementOfSeq
<1>8. /\ sub \in Seq(Nat) /\ Len(sub) = IF offset + 1 <= last THEN last - (offset + 1) + 1 ELSE 0
      /\ \A i \in 1..(last - (offset + 1) + 1) : sub[i] = L[offset + 1 + i - 1]
  BY <1>3, <1>7, SubSeqProperties
<1>9. Len(sub) = size
  BY <1>3, <1>4, <1>8 DEF size
<1>10. DOMAIN sub = 1..size
  BY <1>8, <1>9, LenProperties
<1>11. \A i \in 1..size : sub[i] = L[offset + i] /\ offset + i \in 1..Len(L)
  <2>1. SUFFICES ASSUME NEW i \in 1..size  PROVE sub[i] = L[offset + i] /\ offset + i \in 1..Len(L)
    OBVIOUS
  <2>2. last = offset + size
    BY <1>4, <1>6
  <2>3. i \in 1..(last - (offset + 1) + 1) /\ offset + 1 + i - 1 = offset + i /\ offset + i \in (offset + 1)..last
    BY <1>4, <2>2
  <2> HIDE DEF sub
  <2>4. QED  BY <1>7, <1>8, <2>3
<1>12. ToSet(sub) = { L[k] : k \in (offset + 1)..(offset + size) }
  <2>1. ToSet(sub) = { sub[i] : i \in 1..size }
    BY <1>10 DEF ToSet
  <2>2. ASSUME NEW k \in (offset + 1)..(offset + size)
        PROVE  k - offset \in 1..size /\ L[k] = sub[k - offset]
    <3>1. k - offset \in 1..size /\ offset + (k - offset) = k
      BY <1>4
    <3> HIDE DEF sub
    <3>2. QED  BY <1>11, <3>1
  <2>3. \A i \in 1..size : offset + i \in (offset + 1)..(offset + size)
    BY <1>4
  <2> HIDE DEF sub
  <2>4. ASSUME NEW i \in 1..size
        PROVE  sub[i] \in { L[k] : k \in (offset + 1)..(offset + size) }
    <3>1. sub[i] = L[offset + i] /\ offset + i \in (offset + 1)..(offset + size)
      BY <1>11, <2>3
    <3>2. QED  BY <3>1, Zenon
  <2>5. ASSUME NEW k \in (offset + 1)..(offset + size)
        PROVE  L[k] \in { sub[i] : i \in 1..size }
    BY <2>2, Zenon
  <2>6. QED  BY <2>1, <2>4, <2>5, Zenon
<1>13. Cardinality(ToSet(sub)) = size
  <2> DEFINE f == [i \in 1..size |-> sub[i]]
  <2>1. f \in Bijection(1..size, ToSet(sub))
    <3>1. \A i, j \in 1..size : sub[i] = sub[j] => i = j
      <4>1. SUFFICES ASSUME NEW i \in 1..size, NEW j \in 1..size, sub[i] = sub[j]  PROVE i = j
        OBVIOUS
      <4> HIDE DEF sub
      <4>2. offset + i = offset + j
        BY <1>1, <1>11, <4>1
      <4>3. QED  BY <1>4, <4>2
    <3> HIDE DEF sub
    <3>2. QED  BY <1>10, <3>1 DEF ToSet, Bijection, Injection, Surjection, IsInjective
  <2>2. QED  BY <1>4, <2>1, FS_CountingElements DEF ExistsBijection
<1>14. \A k \in (offset + 1)..(offset + size) : k \in 1..Len(L) /\ L[k] \in Nat
  <2>1. SUFFICES ASSUME NEW k \in (offset + 1)..(offset + size)  PROVE k \in 1..Len(L) /\ L[k] \in Nat
    OBVIOUS
  <2>2. last = offset + size
    BY <1>4, <1>6
  <2>3. QED  BY <1>7, <2>2
<1>15. Cut(L, offset, limit) = ToSet(sub)
  BY DEF Cut, sub, last
<1>16. QED  BY <1>4, <1>12, <1>13, <1>14, <1>15 DEF L, size

LEMMA LimitsOK ==
  /\ \A limit \in Nat : Normalise(limit) \in 1..MaxPage
  /\ MaxPage \in Nat /\ SheetRows \in Nat /\ Asked \subseteq Nat
  /\ \A asked \in Nat : BoardLimit(asked) \in Nat \ {0}
<1>1. DefaultPage \in 1..MaxPage /\ MaxPage \in Nat /\ SheetRows \in Nat /\ Asked \subseteq Nat
  BY PageAssumption
<1>2. DefaultBoard \in Nat \ {0}
  BY RowsAssumption
<1>3. QED  BY <1>1, <1>2 DEF Normalise, BoardLimit

LEMMA RequestLimits ==
  ASSUME NEW r \in Request
  PROVE  r.asked \in Nat /\ Normalise(r.asked) \in Nat /\ r.offset \in Nat
<1>1. r.asked \in Asked \cup {0, SheetRows} /\ r.offset \in Nat
  BY DEF Request
<1>2. r.asked \in Nat
  <2>1. Asked \cup {0, SheetRows} \subseteq Nat
    BY LimitsOK
  <2>2. QED  BY <1>1, <2>1, Zenon
<1>3. Normalise(r.asked) \in 1..MaxPage
  BY <1>2, LimitsOK
<1>4. QED  BY <1>1, <1>2, <1>3

LEMMA GoesOn ==
  ASSUME Tables, TypeOK, Placement, NEW h \in Handler,
         AssertSameTeam(h) \/ PageRows(h) \/ NextPage(h) \/ IndividualStandings(h) \/ DashboardTeams(h)
           \/ CaptainRoster(h) \/ CaptainPending(h) \/ CaptainGuests(h)
  PROVE  \E r : Becomes(h, r)
<1> DEFINE q == req[h]
<1>1. q \in Request /\ Placed(q)
  BY DEF TypeOK, Placement
<1>2. q.asked \in Nat /\ Normalise(q.asked) \in Nat /\ q.offset \in Nat
  BY <1>1, RequestLimits
<1>3. \A kind, status : Waiting(h, kind, status) \subseteq Nat
  <2>1. DOMAIN filed \subseteq Nat
    BY LenProperties DEF Tables
  <2>2. QED  BY <2>1 DEF Waiting
<1>4. CASE AssertSameTeam(h)
  <2>1. CASE req' = [req EXCEPT ![h] = Idle]
    BY <2>1, IdleOK DEF Becomes
  <2>2. CASE req' = [req EXCEPT ![h] = [q EXCEPT !.at = "file"]]
    <3> DEFINE r == [q EXCEPT !.at = "file"]
    <3>1. r \in Request /\ r.at = "file" /\ r.who = q.who /\ r.other = q.other /\ r.team = q.team
      BY <1>1 DEF Request
    <3>2. q.at = "target"
      BY <1>4 DEF AssertSameTeam
    <3>3. Placed(r)
      BY <1>1, <3>1, <3>2 DEF Placed
    <3>4. QED  BY <2>2, <3>1, <3>3 DEF Becomes
  <2>3. QED  BY <1>4, <2>1, <2>2 DEF AssertSameTeam, Goes, Ends
<1>5. CASE PageRows(h)
  <2> DEFINE at == IF HasMore(h) THEN "next" ELSE "listed"
             got == q.got \cup Shown(h)
             r == [q EXCEPT !.at = at, !.got = got]
  <2>1. Shown(h) \subseteq Nat
    BY <1>2, ShownRows DEF Shown
  <2>2. req' = [req EXCEPT ![h] = r]
    BY <1>5 DEF PageRows, Goes
  <2>3. at \in {"next", "listed"} /\ got \subseteq Nat
    BY <1>1, <2>1 DEF Request
  <2> HIDE DEF at, got
  <2>4. q \in Request
    BY <1>1
  <2>5. CASE at = "next"
    <3>1. r \in Request /\ r.at = "next"
      BY <2>3, <2>4, <2>5, ZenonT(60) DEF Request
    <3> HIDE DEF r
    <3>2. QED  BY <2>2, <3>1 DEF Becomes, Placed
  <2>6. CASE at = "listed"
    <3>1. r \in Request /\ r.at = "listed"
      BY <2>3, <2>4, <2>6, ZenonT(60) DEF Request
    <3> HIDE DEF r
    <3>2. QED  BY <2>2, <3>1 DEF Becomes, Placed
  <2>7. QED  BY <2>3, <2>5, <2>6
<1>6. CASE NextPage(h)
  <2> DEFINE r == [q EXCEPT !.at = "rows", !.offset = NextOffset(h), !.total = Len(Listed(q.list))]
  <2>1. Len(Listed(q.list)) \in Nat
    BY ListedInOrder
  <2>2. NextOffset(h) \in Nat
    BY <1>2 DEF NextOffset
  <2>3. r \in Request /\ r.at = "rows"
    BY <1>1, <2>1, <2>2, ZenonT(60) DEF Request
  <2>4. req' = [req EXCEPT ![h] = r]
    BY <1>6 DEF NextPage, Goes
  <2> HIDE DEF r
  <2>5. QED  BY <2>3, <2>4 DEF Becomes, Placed
<1>7. CASE IndividualStandings(h)
  <2> DEFINE people == MemberScores(q.ranked, BoardLimit(q.asked))
             r == [q EXCEPT !.at = "board", !.people = people]
  <2>1. people \subseteq Member
    BY DEF MemberScores, Tables
  <2>2. req' = [req EXCEPT ![h] = r]
    BY <1>7 DEF IndividualStandings, Goes
  <2> HIDE DEF people
  <2>3. r \in Request /\ r.at = "board"
    BY <1>1, <2>1, ZenonT(60) DEF Request
  <2> HIDE DEF r
  <2>4. QED  BY <2>2, <2>3 DEF Becomes, Placed
<1>8. CASE DashboardTeams(h)
  <2> DEFINE r == [q EXCEPT !.at = "dashboard", !.mine = MyTeam(h)]
  <2>1. MyTeam(h) \in Team \cup {None}
    BY <1>1 DEF MyTeam, Request
  <2>2. r \in Request /\ r.at = "dashboard"
    BY <1>1, <2>1, ZenonT(60) DEF Request
  <2>3. req' = [req EXCEPT ![h] = r]
    BY <1>8 DEF DashboardTeams, Goes
  <2> HIDE DEF r
  <2>4. QED  BY <2>2, <2>3 DEF Becomes, Placed
<1>9. CASE CaptainRoster(h)
  <2> DEFINE people == { m \in roster : team[m] = q.team }
             r == [q EXCEPT !.at = "pending", !.people = people]
  <2>1. people \subseteq Member /\ q.team \in Team
    BY <1>1, <1>9 DEF Tables, CaptainRoster, Placed
  <2>2. req' = [req EXCEPT ![h] = r]
    BY <1>9 DEF CaptainRoster, Goes
  <2> HIDE DEF people
  <2>3. r \in Request /\ r.at = "pending" /\ r.team = q.team
    BY <1>1, <2>1, ZenonT(60) DEF Request
  <2> HIDE DEF r
  <2>4. QED  BY <2>1, <2>2, <2>3 DEF Becomes, Placed
<1>10. CASE CaptainPending(h)
  <2> DEFINE got == Waiting(h, "tyfcb", "pending")
             r == [q EXCEPT !.at = "guests", !.got = got]
  <2>1. q.team \in Team
    BY <1>1, <1>10 DEF CaptainPending, Placed
  <2>2. req' = [req EXCEPT ![h] = r]
    BY <1>10 DEF CaptainPending, Goes
  <2>3. got \subseteq Nat
    BY <1>3
  <2> HIDE DEF got
  <2>4. r \in Request /\ r.at = "guests" /\ r.team = q.team
    BY <1>1, <2>3, ZenonT(60) DEF Request
  <2> HIDE DEF r
  <2>5. QED  BY <2>1, <2>2, <2>4 DEF Becomes, Placed
<1>11. CASE CaptainGuests(h)
  <2> DEFINE got == Waiting(h, "visitor", "terdaftar")
             r == [q EXCEPT !.at = "screen", !.got = @ \cup got]
  <2>1. q.team \in Team
    BY <1>1, <1>11 DEF CaptainGuests, Placed
  <2>2. req' = [req EXCEPT ![h] = r]
    BY <1>11 DEF CaptainGuests, Goes
  <2>3. got \subseteq Nat
    BY <1>3
  <2> HIDE DEF got
  <2>4. r \in Request /\ r.at = "screen" /\ r.team = q.team
    BY <1>1, <2>3, ZenonT(60) DEF Request
  <2> HIDE DEF r
  <2>5. QED  BY <2>1, <2>2, <2>4 DEF Becomes, Placed
<1>12. QED
  BY <1>4, <1>5, <1>6, <1>7, <1>8, <1>9, <1>10, <1>11, Zenon

(* One request is served at a time, and what it carries fits where it      *)
(* stands.                                                                 *)
LEMMA Served ==
  ASSUME Tables, TypeOK, Placement, NEW h \in Handler, Begin(h) \/ Step(h) \/ Fail(h)
  PROVE  /\ Tables' /\ Grows
         /\ \E r \in Request : Placed(r)' /\ req' = [req EXCEPT ![h] = r]
<1>1. Tables' /\ Grows
  BY OnlyWrites, WritesTables, StillTables
<1>2. CASE \E r : Becomes(h, r)
  BY <1>1, <1>2, PlacedStays DEF Becomes
<1>3. CASE req' = [req EXCEPT ![h] = Idle]
  BY <1>1, <1>3, IdleOK, PlacedStays
<1>4. CASE Writes(h) \/ Leave(h) \/ Fail(h)
  <2>1. req' = [req EXCEPT ![h] = Idle]
    BY <1>4 DEF Writes, Submit, Register, CaptainSubmit, CaptainRegister, Settle, MoveMember, RosterBonus,
         Enrol, CreateTeam, DeleteTeam, Leave, Fail, AtOnce, Begins, Ends, Goes
  <2>2. QED  BY <1>3, <2>1
<1>5. CASE Begin(h)
  BY <1>2, <1>4, <1>5, Opened DEF Begin, Writes
<1>6. CASE Step(h)
  BY <1>2, <1>4, <1>6, GoesOn DEF Step, Writes
<1>7. QED  BY <1>4, <1>5, <1>6

LEMMA Counted ==
  ASSUME TypeOK, NEW h \in Handler, Begin(h) \/ Step(h) \/ Fail(h)
  PROVE  wrote' \in 0..MaxWrites /\ screens' \in 0..MaxScreens
<1>1. \/ wrote < MaxWrites /\ wrote' = wrote + 1 /\ screens' = screens
      \/ screens < MaxScreens /\ screens' = screens + 1 /\ wrote' = wrote
      \/ wrote' = wrote /\ screens' = screens
  <2>1. CASE Begin(h)
    BY <2>1 DEF Begin, Submit, Register, CaptainRead, ModerateRead, MoveMember, RosterBonus, Enrol, CreateTeam,
         DeleteTeam, PageCount, Standings, LeaderboardReport, DashboardMember, CaptainProfile,
         AtOnce, Begins, Opens
  <2>2. CASE Step(h) \/ Fail(h)
    BY <2>2 DEF Step, Fail, AssertSameTeam, CaptainSubmit, CaptainRegister, Settle, PageRows, NextPage,
         IndividualStandings, DashboardTeams, CaptainRoster, CaptainPending, CaptainGuests, Leave, Ends, Goes
  <2>3. QED  BY <2>1, <2>2
<1>2. QED  BY <1>1, BoundAssumption DEF TypeOK

LEMMA ListedSeq == Tables => \A h \in Handler : Listed(req[h].list) \in Seq(Nat)
BY ListedInOrder

LEMMA Observed ==
  ASSUME Tables, TypeOK, Tables', Grows, Observe
  PROVE  watch' \in [Handler -> Watch] /\ strayed' \subseteq DOMAIN filed'
<1>1. (\A h \in Handler : Listed(req[h].list) \in Seq(Nat))'
  BY ListedSeq, PTL
<1>2. Unwatched \in Watch /\ \A rows \in Seq(Nat) : [Unwatched EXCEPT !.first = rows] \in Watch
  BY EmptySeq DEF Unwatched, Watch
<1>3. \A w \in Watch, b \in BOOLEAN : [w EXCEPT !.steady = b, !.moved = @ \cup Moved] \in Watch
  BY DEF Watch, Moved
<1>4. \A h \in Handler : StaysSteady(h) \in BOOLEAN
  BY DEF StaysSteady
<1>5. << >> \in Seq(Nat)
  BY EmptySeq
<1>6. ASSUME NEW h \in Handler  PROVE watch'[h] \in Watch
  BY <1>1, <1>2, <1>3, <1>4, <1>5 DEF Observe, TypeOK
<1>7. watch' \in [Handler -> Watch]
  BY <1>6 DEF Observe
<1>8. strayed' \subseteq DOMAIN filed'
  BY DEF Observe, TypeOK, Grows
<1>9. QED  BY <1>7, <1>8

(***************************************************************************)
(* Types                                                                   *)
(***************************************************************************)
Typed == Tables /\ TypeOK /\ Placement

LEMMA TypedNext == Typed /\ [Next]_vars => Typed'
<1> SUFFICES ASSUME Typed, [Next]_vars  PROVE Typed'
  OBVIOUS
<1> USE DEF Typed
<1>1. CASE UNCHANGED vars
  BY <1>1 DEF vars, tables, Tables, TypeOK, References, Placement, Placed
<1>2. ASSUME NEW h \in Handler, Begin(h) \/ Step(h) \/ Fail(h), Observe  PROVE Typed'
  <2>1. Tables' /\ Grows
    BY <1>2, Served
  <2>2. PICK r \in Request : Placed(r)' /\ req' = [req EXCEPT ![h] = r]
    BY <1>2, Served
  <2>3. Placement'
    BY <2>1, <2>2, PlacedStays DEF Placement, TypeOK
  <2>4. req' \in [Handler -> Request]
    BY <2>2 DEF TypeOK
  <2>5. watch' \in [Handler -> Watch] /\ strayed' \subseteq DOMAIN filed'
    BY <1>2, <2>1, Observed
  <2>6. wrote' \in 0..MaxWrites /\ screens' \in 0..MaxScreens
    BY <1>2, Counted
  <2>7. TypeOK'
    BY <2>1, <2>4, <2>5, <2>6 DEF TypeOK, Tables
  <2>8. QED  BY <2>1, <2>3, <2>7
<1>3. QED  BY <1>1, <1>2 DEF Next, Quiet

(* A finite set put in a row, each of its elements once.                   *)
LEMMA SeqOfSet ==
  ASSUME NEW S, IsFiniteSet(S)
  PROVE  /\ SetToSeq(S) \in Bijection(1..Cardinality(S), S)
         /\ Len(SetToSeq(S)) = Cardinality(S) /\ Cardinality(S) \in Nat
<1> DEFINE n == Cardinality(S)
           q == SetToSeq(S)
<1>1. n \in Nat /\ ExistsBijection(1..n, S)
  BY FS_CardinalityType
<1>2. \E f \in [1..n -> S] : IsInjective(f)
  BY <1>1 DEF ExistsBijection, Bijection, Injection
<1>3. q \in [1..n -> S] /\ IsInjective(q)
  BY <1>2 DEF SetToSeq
<1> HIDE DEF q
<1>4. IsFiniteSet(1..n) /\ Cardinality(1..n) = n
  BY <1>1, FS_Interval
<1>5. q \in Injection(1..n, S)
  BY <1>3 DEF Injection
<1>6. q \in Surjection(1..n, S)
  BY <1>4, <1>5, FS_Injection
<1>7. q \in Seq(S) /\ Len(q) = n
  BY <1>1, <1>3, SeqDef, LenProperties
<1>8. QED  BY <1>1, <1>5, <1>6, <1>7 DEF Bijection, q

LEMMA StartItems ==
  /\ StartFiled \in Seq(Item) /\ DOMAIN StartFiled = 1..Len(StartFiled) /\ Len(StartFiled) \in Nat
  /\ \A i \in DOMAIN StartFiled :
       /\ StartFiled[i] \in Item /\ StartFiled[i].by \in StartMembers /\ ~ StartFiled[i].void
<1> DEFINE Kept == { i \in Item : i.by \in StartMembers /\ ~i.void }
<1>1. StartFiled \in Seq(Kept)
  BY StartFiledAssumption
<1>2. DOMAIN StartFiled = 1..Len(StartFiled) /\ Len(StartFiled) \in Nat
  BY <1>1, LenProperties
<1>3. \A i \in DOMAIN StartFiled : StartFiled[i] \in Kept
  BY <1>1, <1>2, ElementOfSeq
<1>4. StartFiled \in Seq(Item)
  BY <1>2, <1>3, <1>1, SeqDef
<1>5. QED  BY <1>2, <1>3, <1>4

(* The ledger the season starts with: a row for every item credited.       *)
Credited == { i \in DOMAIN StartFiled : StartFiled[i].status \in {"verified", "hadir"} }

LEMMA FirstLedger ==
  ASSUME Init
  PROVE  /\ ledger \in Seq(Row) /\ DOMAIN ledger = 1..Len(ledger)
         /\ FirstCredits \in Bijection(DOMAIN ledger, Credited)
         /\ \A n \in DOMAIN ledger : ledger[n] = Credit(FirstCredits[n]) /\ FirstCredits[n] \in DOMAIN StartFiled
<1>1. /\ DOMAIN StartFiled = 1..Len(StartFiled) /\ Len(StartFiled) \in Nat
      /\ \A i \in DOMAIN StartFiled : StartFiled[i] \in Item /\ StartFiled[i].by \in StartMembers
  BY StartItems
<1>2. IsFiniteSet(Credited)
  <2>1. IsFiniteSet(DOMAIN StartFiled)
    BY <1>1, FS_Interval
  <2>2. QED  BY <2>1, FS_Subset DEF Credited
<1>3. /\ FirstCredits \in Bijection(1..Cardinality(Credited), Credited)
      /\ Len(FirstCredits) = Cardinality(Credited) /\ Cardinality(Credited) \in Nat
  BY <1>2, SeqOfSet DEF FirstCredits, Credited
<1>4. ledger = [n \in 1..Len(FirstCredits) |-> Credit(FirstCredits[n])]
  BY DEF Init
<1>5. team \in [Member -> Team \cup {None}]
  BY StartTeamAssumption, StartAssumption DEF Init
<1>6. \A i \in Credited : Credit(i) \in Row
  <2>1. SUFFICES ASSUME NEW i \in Credited  PROVE Credit(i) \in Row
    OBVIOUS
  <2>2. i \in DOMAIN StartFiled /\ i \in Nat
    BY <1>1 DEF Credited
  <2>3. StartFiled[i].by \in Member /\ StartFiled[i].kind \in DOMAIN Status
    BY <1>1, <2>2, StartAssumption, ItemFields
  <2>4. Worth(StartFiled[i].kind) \in Int
    BY <2>3, WorthInt
  <2>5. StartFiled[i].kind \in Category
    BY <2>3 DEF Category, Status
  <2>6. QED  BY <1>5, <2>2, <2>3, <2>4, <2>5 DEF Credit, RowOf, Row
<1>7. \A n \in 1..Len(FirstCredits) : FirstCredits[n] \in Credited
  BY <1>3 DEF Bijection, Injection
<1>8. ledger \in [1..Len(FirstCredits) -> Row]
  BY <1>4, <1>6, <1>7
<1>9. ledger \in Seq(Row) /\ Len(ledger) = Len(FirstCredits) /\ DOMAIN ledger = 1..Len(ledger)
  BY <1>3, <1>8, SeqDef, LenProperties
<1>10. QED  BY <1>3, <1>4, <1>7, <1>9 DEF Credited

LEMMA TypedInit == Init => Typed
<1> SUFFICES ASSUME Init  PROVE Typed
  OBVIOUS
<1>1. /\ StartFiled \in Seq(Item)
      /\ \A i \in DOMAIN StartFiled : StartFiled[i].by \in StartMembers
  BY StartItems
<1>2. /\ ledger \in Seq(Row)
      /\ \A n \in DOMAIN ledger : ledger[n] = Credit(FirstCredits[n]) /\ FirstCredits[n] \in DOMAIN StartFiled
  BY FirstLedger
<1>3. /\ team \in [Member -> Team \cup {None}] /\ \A m \in Member : team[m] \in StartTeams \cup {None}
      /\ \A m \in Member \ StartMembers : team[m] = None
  BY StartTeamAssumption, StartAssumption DEF Init
<1>4. \A n \in DOMAIN ledger : ledger[n].team \in teams \cup {None} /\ ledger[n].member \in roster \cup {None}
  <2>1. SUFFICES ASSUME NEW n \in DOMAIN ledger
                 PROVE  ledger[n].team \in teams \cup {None} /\ ledger[n].member \in roster \cup {None}
    OBVIOUS
  <2> DEFINE by == StartFiled[FirstCredits[n]].by
  <2>2. by \in StartMembers /\ by \in Member
    BY <1>1, <1>2, StartAssumption
  <2>3. ledger[n].member = by /\ ledger[n].team = team[by]
    BY <1>2 DEF Credit, RowOf
  <2>4. QED  BY <1>3, <2>2, <2>3 DEF Init
<1>5. References
  BY <1>1, <1>3, <1>4, StartAssumption DEF References, Init
<1>6. Tables
  BY <1>1, <1>2, <1>3, <1>5, StartAssumption, FiniteAssumption DEF Tables, Init
<1>7. Unwatched \in Watch
  BY EmptySeq DEF Unwatched, Watch
<1>8. TypeOK /\ Placement
  BY <1>6, <1>7, IdleOK, BoundAssumption DEF Init, TypeOK, Tables, Placement, Placed, Idle
<1>9. QED  BY <1>6, <1>8 DEF Typed

(* What every table and every request holds, at any time: the values       *)
(* TypeOK says, whose names and teams are rows of their tables (migration  *)
(* 0001's foreign keys), and in a request what its place among the         *)
(* statements says.                                                        *)
THEOREM AlwaysTyped == Spec => []Typed
BY TypedInit, TypedNext, PTL DEF Spec

(* Type correctness: every table and request stays within its sets, and no *)
(* row, member or entry outlives the team or member it refers to, whatever *)
(* is moved or deleted (migration 0001, on delete and on update rules).    *)
THEOREM TypeCorrect == Spec => []TypeOK
<1>1. Typed => TypeOK
  BY DEF Typed
<1>2. QED  BY <1>1, AlwaysTyped, PTL

(***************************************************************************)
(* Boards and drill-downs                                                  *)
(***************************************************************************)

(* However the rows are credited, to some of S or to nobody, all of them   *)
(* are counted once.                                                       *)
LEMMA CreditsAddUp ==
  ASSUME Tables, NEW S, IsFiniteSet(S), None \notin S,
         NEW key \in [DOMAIN ledger -> S \cup {None}], NEW category
  PROVE  SumFunction([s \in S |-> Points({ i \in DOMAIN ledger : key[i] = s }, category)])
           + Points({ i \in DOMAIN ledger : key[i] = None }, category)
         = Points(DOMAIN ledger, category)
<1> DEFINE points == [i \in DOMAIN ledger |-> ledger[i].points]
           all == { i \in DOMAIN ledger : category \in {"overall", ledger[i].category} }
           own(s) == { i \in DOMAIN ledger : key[i] = s }
           g == [s \in S \cup {None} |-> Points(own(s), category)]
           onlyS == [s \in S |-> Points(own(s), category)]
           ofAll == [i \in all |-> key[i]]
           part == [s \in S \cup {None} |-> { i \in all : key[i] = s }]
<1>1. \A s : own(s) \in SUBSET DOMAIN ledger /\ Points(own(s), category) \in Int
  <2>1. \A s : own(s) \in SUBSET DOMAIN ledger
    OBVIOUS
  <2> HIDE DEF own
  <2>2. QED  BY <2>1, SumBySourceInt
<1>2. IsFiniteSet(all) /\ \A i \in all : points[i] \in Int
  <2>1. \A i \in DOMAIN ledger : ledger[i] \in Row
    BY LenProperties, ElementOfSeq DEF Tables
  <2>2. IsFiniteSet(DOMAIN ledger)
    BY SumBySourceInt
  <2>3. IsFiniteSet(all)
    BY <2>2, FS_Subset
  <2>4. QED  BY <2>1, <2>3 DEF Row
<1>3. IsFiniteSet(S \cup {None})
  BY FS_AddElement
<1>4. \A s \in S \cup {None} : part[s] \subseteq all /\ \A i \in all : i \in part[s] <=> ofAll[i] = s
  OBVIOUS
<1>5. \A s \in S \cup {None} : g[s] = SumFunctionOnSet(points, part[s])
  <2>1. SUFFICES ASSUME NEW s \in S \cup {None}  PROVE g[s] = SumFunctionOnSet(points, part[s])
    OBVIOUS
  <2> DEFINE counted == { i \in own(s) : category \in {"overall", ledger[i].category} }
  <2>2. g[s] = Points(own(s), category)
    OBVIOUS
  <2>3. Points(own(s), category) = SumFunctionOnSet(points, counted)
    BY DEF Points
  <2>4. counted = part[s]
    OBVIOUS
  <2> HIDE DEF g, counted, own, points, part
  <2>5. QED  BY <2>2, <2>3, <2>4
<1>6. ofAll \in [all -> S \cup {None}]
  OBVIOUS
<1>7. SumFunctionOnSet(g, S \cup {None}) = SumFunctionOnSet(points, all)
  <2> HIDE DEF g, points, all, ofAll, own, part
  <2>1. QED  BY <1>2, <1>3, <1>4, <1>5, <1>6, SumFibres
<1>8. \A s \in S \cup {None} : g[s] \in Int
  BY <1>1
<1>9. SumFunctionOnSet(g, S \cup {None}) = g[None] + SumFunctionOnSet(g, S)
  <2>1. (S \cup {None}) \ {None} = S
    OBVIOUS
  <2> HIDE DEF g
  <2>2. QED  BY <1>3, <1>8, <2>1, SumApart
<1>10. SumFunctionOnSet(g, S) = SumFunctionOnSet(onlyS, S)
  <2>1. \A s \in S : g[s] = onlyS[s]
    OBVIOUS
  <2> HIDE DEF g, onlyS
  <2>2. QED  BY <2>1, SumSame
<1>11. SumFunctionOnSet(onlyS, S) \in Int /\ g[None] \in Int
  <2>1. \A s \in S : onlyS[s] \in Int
    BY <1>1
  <2> HIDE DEF onlyS
  <2>2. SumFunctionOnSet(onlyS, S) \in Int
    BY <2>1, SumInt
  <2>3. QED  BY <1>8, <2>2
<1>12. SumFunction(onlyS) = SumFunctionOnSet(onlyS, S) /\ g[None] = Points(own(None), category)
  BY DEF SumFunction
<1>13. SumFunctionOnSet(points, all) = Points(DOMAIN ledger, category)
  BY DEF Points
<1> HIDE DEF g, onlyS, points, all, own
<1>14. SumFunction(onlyS) + Points(own(None), category) = Points(DOMAIN ledger, category)
  BY <1>7, <1>9, <1>10, <1>11, <1>12, <1>13
<1>15. QED  BY <1>14 DEF onlyS, own

(* The two boards count the same points, in every category and after any   *)
(* moves, deletions and reversals (ledger.go, TeamScores, MemberScores).   *)
THEOREM BoardsAgree == Spec => []BoardsBalance
<1>1. ASSUME Tables, NEW category \in Category
      PROVE  SumFunction([t \in teams |-> TeamScore(t, category)])
               + Points({ i \in DOMAIN ledger : ledger[i].team = None }, category)
             = SumFunction([m \in roster |-> MemberScore(m, category)])
               + Points({ i \in DOMAIN ledger : ledger[i].member = None }, category)
  <2> DEFINE ofTeam == [i \in DOMAIN ledger |-> ledger[i].team]
             ofMember == [i \in DOMAIN ledger |-> ledger[i].member]
  <2>1. /\ ofTeam \in [DOMAIN ledger -> teams \cup {None}]
        /\ ofMember \in [DOMAIN ledger -> roster \cup {None}]
    BY <1>1 DEF Tables, References
  <2>2. None \notin teams /\ None \notin roster /\ IsFiniteSet(teams) /\ IsFiniteSet(roster)
    BY <1>1, NoneAssumption DEF Tables
  <2>3. /\ \A t : { i \in DOMAIN ledger : ofTeam[i] = t } = TeamRows(t)
        /\ \A m : { i \in DOMAIN ledger : ofMember[i] = m } = { i \in DOMAIN ledger : ledger[i].member = m }
    BY DEF TeamRows
  <2>4. TeamRows(None) = { i \in DOMAIN ledger : ledger[i].team = None }
    BY DEF TeamRows
  <2> HIDE DEF ofTeam, ofMember
  <2>5. SumFunction([t \in teams |-> Points({ i \in DOMAIN ledger : ofTeam[i] = t }, category)])
          + Points({ i \in DOMAIN ledger : ofTeam[i] = None }, category) = Points(DOMAIN ledger, category)
    BY <1>1, <2>1, <2>2, CreditsAddUp
  <2>6. SumFunction([m \in roster |-> Points({ i \in DOMAIN ledger : ofMember[i] = m }, category)])
          + Points({ i \in DOMAIN ledger : ofMember[i] = None }, category) = Points(DOMAIN ledger, category)
    BY <1>1, <2>1, <2>2, CreditsAddUp
  <2>7. [t \in teams |-> Points({ i \in DOMAIN ledger : ofTeam[i] = t }, category)]
          = [t \in teams |-> TeamScore(t, category)]
    BY <2>3 DEF TeamScore
  <2>8. [m \in roster |-> Points({ i \in DOMAIN ledger : ofMember[i] = m }, category)]
          = [m \in roster |-> MemberScore(m, category)]
    BY <2>3 DEF MemberScore
  <2>9. QED  BY <2>3, <2>4, <2>5, <2>6, <2>7, <2>8
<1>2. Typed => BoardsBalance
  BY <1>1 DEF BoardsBalance, Typed
<1>3. QED  BY <1>2, AlwaysTyped, PTL

(***************************************************************************)
(* Newest rows first: the greater of two numbers is ahead.                 *)
(***************************************************************************)
LEMMA NewestCount ==
  ASSUME NEW rows \in SUBSET Nat, IsFiniteSet(rows), NEW n \in Nat
  PROVE  /\ Newest(rows, n) \in SUBSET rows
         /\ Cardinality(Newest(rows, n)) = IF n <= Cardinality(rows) THEN n ELSE Cardinality(rows)
         /\ Cardinality(Newest(rows, n)) < n => Newest(rows, n) = rows
<1> DEFINE R == { p \in rows \X rows : p[1] > p[2] }
<1>1. StrictOrder(rows, R)
  BY DEF StrictOrder
<1>2. \A x \in rows : Ahead(rows, R, x) = { j \in rows : j > x }
  BY DEF Ahead
<1>3. Newest(rows, n) = { x \in rows : Cardinality(Ahead(rows, R, x)) < n }
  BY <1>2 DEF Newest
<1> HIDE DEF R
<1>4. Cardinality(Newest(rows, n)) = IF n <= Cardinality(rows) THEN n ELSE Cardinality(rows)
  BY <1>1, <1>3, TopCount
<1>5. Newest(rows, n) \in SUBSET rows
  BY <1>3
<1>6. Cardinality(Newest(rows, n)) < n => Newest(rows, n) = rows
  BY <1>4, <1>5, FS_Subset, FS_CardinalityType
<1>7. QED  BY <1>4, <1>5, <1>6

(* A drill-down that is not cut explains the score on the board            *)
(* (ledger.go, TeamHistory; "every score reproducible from the ledger      *)
(* alone").                                                                *)
THEOREM HistoryExplains == Spec => []HistoryExplainsScore
<1>1. ASSUME Tables, NEW t \in teams, NEW category \in {"overall"} \cup Category,
             Cardinality(TeamHistory(t, category)) < HistoryRows
      PROVE  Points(TeamHistory(t, category), category) = TeamScore(t, category)
  <2> DEFINE rows == { i \in TeamRows(t) : category \in {"overall", ledger[i].category} }
  <2>1. rows \in SUBSET DOMAIN ledger /\ DOMAIN ledger \in SUBSET Nat
    BY <1>1, LenProperties DEF Tables, TeamRows
  <2>2. IsFiniteSet(rows)
    BY <1>1, <2>1, SumBySourceInt
  <2>3. HistoryRows \in Nat
    BY RowsAssumption
  <2>4. TeamHistory(t, category) = Newest(rows, HistoryRows)
    BY DEF TeamHistory
  <2>5. { i \in rows : category \in {"overall", ledger[i].category} } = rows
    OBVIOUS
  <2> HIDE DEF rows
  <2>6. TeamHistory(t, category) = rows
    BY <1>1, <2>1, <2>2, <2>3, <2>4, NewestCount
  <2>7. QED  BY <2>5, <2>6 DEF TeamScore, Points, rows
<1>2. Typed => HistoryExplainsScore
  BY <1>1 DEF HistoryExplainsScore, Typed
<1>3. QED  BY <1>2, AlwaysTyped, PTL

(***************************************************************************)
(* Cut lists                                                               *)
(***************************************************************************)

(* What is among the first is ahead of what is not.                        *)
LEMMA TopAhead ==
  ASSUME NEW S, IsFiniteSet(S), NEW R, StrictOrder(S, R), NEW n \in Nat,
         NEW x \in S, NEW y \in S, Cardinality(Ahead(S, R, x)) < n, ~ (Cardinality(Ahead(S, R, y)) < n)
  PROVE  <<x, y>> \in R
<1>1. Cardinality(Ahead(S, R, x)) \in Nat /\ Cardinality(Ahead(S, R, y)) \in Nat
  BY FS_Subset, FS_CardinalityType DEF Ahead
<1>2. Rank(S, R, x) < Rank(S, R, y)
  BY <1>1 DEF Rank
<1>3. QED  BY <1>2, RankGrows

LEMMA BoardTop ==
  ASSUME Tables, NEW category, NEW n \in Nat
  PROVE  LET shown == MemberScores(category, n)
         IN  /\ \A m \in roster \ shown, x \in shown : MemberScore(m, category) <= MemberScore(x, category)
             /\ shown # roster => Cardinality(shown) = n
<1> DEFINE R == { p \in roster \X roster : Outranks(p[1], p[2], category) }
           score(m) == MemberScore(m, category)
           all(m) == MemberScore(m, "overall")
           shown == MemberScores(category, n)
<1>1. \A m : score(m) \in Int /\ all(m) \in Int
  <2>1. SUFFICES ASSUME NEW m  PROVE score(m) \in Int /\ all(m) \in Int
    OBVIOUS
  <2>2. { i \in DOMAIN ledger : ledger[i].member = m } \in SUBSET DOMAIN ledger
    OBVIOUS
  <2>3. QED  BY <2>2, SumBySourceInt DEF MemberScore
<1>2. roster \subseteq Nat /\ IsFiniteSet(roster)
  BY OrderAssumption DEF Tables
<1>3. \A a, b \in roster :
        Outranks(a, b, category) <=>
          \/ score(a) > score(b)
          \/ score(a) = score(b) /\ (all(a) > all(b) \/ (all(a) = all(b) /\ a < b))
  BY DEF Outranks
<1>4. \A a, b \in roster : <<a, b>> \in R <=> Outranks(a, b, category)
  OBVIOUS
<1> HIDE DEF score, all, R
<1>5. StrictOrder(roster, R)
  <2>1. \A x \in roster : <<x, x>> \notin R
    BY <1>1, <1>2, <1>3, <1>4
  <2>2. \A x, y \in roster : x # y => <<x, y>> \in R \/ <<y, x>> \in R
    BY <1>1, <1>2, <1>3, <1>4
  <2>3. \A x, y, z \in roster : <<x, y>> \in R /\ <<y, z>> \in R => <<x, z>> \in R
    BY <1>1, <1>2, <1>3, <1>4
  <2>4. QED  BY <2>1, <2>2, <2>3 DEF StrictOrder
<1>6. \A m \in roster : { x \in roster : x # m /\ Outranks(x, m, category) } = Ahead(roster, R, m)
  BY <1>4, <1>5 DEF Ahead, StrictOrder
<1>7. shown = { m \in roster : Cardinality(Ahead(roster, R, m)) < n }
  BY <1>6 DEF MemberScores
<1>8. Cardinality(shown) = IF n <= Cardinality(roster) THEN n ELSE Cardinality(roster)
  BY <1>2, <1>5, <1>7, TopCount
<1>9. shown # roster => Cardinality(shown) = n
  BY <1>2, <1>7, <1>8, FS_Subset, FS_CardinalityType
<1>10. ASSUME NEW m \in roster \ shown, NEW x \in shown  PROVE score(m) <= score(x)
  <2>1. <<x, m>> \in R
    BY <1>2, <1>5, <1>7, TopAhead
  <2>2. QED  BY <1>1, <1>3, <1>4, <1>7, <2>1
<1>11. QED  BY <1>9, <1>10 DEF score

LEMMA FeedTop ==
  ASSUME Tables, NEW n \in Nat, NEW i \in DOMAIN filed \ Feed(n), ~(filed[i].kind = "visitor" /\ filed[i].void)
  PROVE  Cardinality({ j \in Feed(n) : j > i }) = n
<1> DEFINE rows == { j \in DOMAIN filed : ~(filed[j].kind = "visitor" /\ filed[j].void) }
           R == { p \in rows \X rows : p[1] > p[2] }
<1>1. rows \subseteq Nat /\ IsFiniteSet(rows) /\ i \in rows
  <2>1. DOMAIN filed = 1..Len(filed) /\ Len(filed) \in Nat
    BY LenProperties DEF Tables
  <2>2. IsFiniteSet(DOMAIN filed)
    BY <2>1, FS_Interval
  <2>3. i \in rows /\ rows \in SUBSET DOMAIN filed
    OBVIOUS
  <2> HIDE DEF rows
  <2>4. QED  BY <2>1, <2>2, <2>3, FS_Subset
<1>2. Feed(n) = Newest(rows, n)
  BY DEF Feed
<1>3. StrictOrder(rows, R)
  BY <1>1 DEF StrictOrder
<1>4. \A x \in rows : Ahead(rows, R, x) = { j \in rows : j > x }
  BY DEF Ahead
<1>5. \A x, y \in rows : <<x, y>> \in R <=> x > y
  OBVIOUS
<1> HIDE DEF rows, R
<1>6. Feed(n) = { x \in rows : Cardinality(Ahead(rows, R, x)) < n }
  BY <1>2, <1>4 DEF Newest
<1>7. \A x \in Feed(n) : x > i
  BY <1>1, <1>3, <1>5, <1>6, TopAhead
<1>8. { j \in Feed(n) : j > i } = Feed(n)
  BY <1>7
<1>9. n <= Cardinality(rows)
  <2>1. Ahead(rows, R, i) \in SUBSET rows
    BY DEF Ahead
  <2>2. /\ Cardinality(Ahead(rows, R, i)) <= Cardinality(rows)
        /\ Cardinality(Ahead(rows, R, i)) \in Nat /\ Cardinality(rows) \in Nat
    BY <1>1, <2>1, FS_Subset, FS_CardinalityType
  <2>3. ~ (Cardinality(Ahead(rows, R, i)) < n)
    BY <1>1, <1>6
  <2>4. QED  BY <2>2, <2>3
<1>10. Cardinality(Feed(n)) = n
  BY <1>1, <1>3, <1>6, <1>9, TopCount
<1>11. QED  BY <1>8, <1>10

LEMMA SheetCut ==
  ASSUME Tables, NEW list \in Lists, Cardinality(Sheet(list)) < Len(Listed(list))
  PROVE  Capped(list) \/ (list.kind = "member" /\ Len(Listed(list)) > MaxPage)
<1> DEFINE limit == IF list.kind = "member" THEN Normalise(SheetRows) ELSE SheetRows
           n == Len(Listed(list))
<1>1. SheetRows \in Nat /\ MaxPage \in Nat /\ MaxPage <= SheetRows /\ DefaultPage \in 1..MaxPage
  BY PageAssumption
<1>2. limit \in Nat /\ n \in Nat
  <2>1. Normalise(SheetRows) \in 1..MaxPage
    BY <1>1, LimitsOK
  <2>2. n \in Nat
    BY ListedInOrder
  <2>3. QED  BY <1>1, <2>1, <2>2
<1>3. Sheet(list) = Cut(Listed(list), 0, limit)
  BY DEF Sheet, SheetOfItems, SheetOfMembers
<1> HIDE DEF limit
<1>4. Cardinality(Sheet(list)) = IF 0 >= n THEN 0 ELSE IF limit <= n - 0 THEN limit ELSE n - 0
  BY <1>2, <1>3, ShownRows
<1>5. Cardinality(Sheet(list)) = limit /\ limit < n
  BY <1>2, <1>4
<1>6. CASE list.kind = "member"
  <2>1. limit = MaxPage
    BY <1>1, <1>6 DEF limit, Normalise
  <2>2. QED  BY <1>1, <1>2, <1>5, <1>6, <2>1
<1>7. CASE list.kind # "member"
  <2>1. limit = SheetRows
    BY <1>7 DEF limit
  <2>2. QED  BY <1>1, <1>5, <2>1 DEF Capped
<1>8. QED  BY <1>6, <1>7

(* A cut list shows the top of its order and says that it was cut, but for *)
(* the sheet of members (leaderboard.go, activity.go, report.go).          *)
THEOREM CutsShowTheTop == Spec => []CutsKeepTheTop
<1>1. Tables => BoardShowsTheTop
  <2>1. \A asked \in Asked : BoardLimit(asked) \in Nat
    BY LimitsOK
  <2>2. QED  BY <2>1, BoardTop DEF BoardShowsTheTop
<1>2. Tables => FeedShowsTheNewest
  <2>1. FeedRows \in Nat
    BY RowsAssumption
  <2>2. QED  BY <2>1, FeedTop DEF FeedShowsTheNewest
<1>3. Tables => SheetsSayWhenCut
  BY SheetCut DEF SheetsSayWhenCut
<1>4. Typed => CutsKeepTheTop
  BY <1>1, <1>2, <1>3 DEF CutsKeepTheTop, Typed
<1>5. QED  BY <1>4, AlwaysTyped, PTL

(***************************************************************************)
(* What a request knows of the teams                                       *)
(***************************************************************************)

(* What the history says of a request that goes on.                        *)
LEMMA Watched ==
  ASSUME TypeOK, Observe, NEW k \in Handler, req'[k].at # "idle"
  PROVE  /\ req[k].at = "idle" =>
              /\ watch'[k].moved = {} /\ watch'[k].steady
              /\ watch'[k].first = IF req'[k].at = "rows" THEN Listed(req[k].list)' ELSE <<>>
         /\ req[k].at # "idle" =>
              /\ watch'[k].moved = watch[k].moved \cup Moved
              /\ watch'[k].steady = StaysSteady(k) /\ watch'[k].first = watch[k].first
<1>1. watch'[k] =
        IF req[k].at = "idle"
        THEN [Unwatched EXCEPT !.first = IF req'[k].at = "rows" THEN Listed(req[k].list)' ELSE <<>>]
        ELSE [watch[k] EXCEPT !.steady = StaysSteady(k), !.moved = @ \cup Moved]
  BY DEF Observe
<1>2. watch[k] \in Watch
  BY DEF TypeOK
<1>3. CASE req[k].at = "idle"
  BY <1>1, <1>3 DEF Unwatched
<1>4. CASE req[k].at # "idle"
  BY <1>1, <1>2, <1>4 DEF Watch
<1>5. QED  BY <1>3, <1>4

(* What a captain's request and a screen in the making rest on, while      *)
(* those in moved have changed team since it began.                        *)
Seen(r, moved) ==
  /\ r.at \in {"target", "file"} => (r.who \notin moved => team[r.who] = r.team)
  /\ r.at = "file" => (r.other \notin moved => team[r.other] = r.team)
  /\ r.at \in {"teams", "dashboard"} => r.team \in ever \cup {None}
  /\ r.at = "dashboard" => (r.team \in teams => r.mine = r.team)
  /\ r.at \in {"pending", "guests", "screen"} => \A m \in Member : team[m] = r.team => m \in r.people \cup moved
  /\ r.at \in {"guests", "screen"} => \A i \in r.got : i \in DOMAIN filed /\ filed[i].by \in r.people \cup moved

AllSeen == \A h \in Handler : Seen(req[h], watch[h].moved)

(* The members who moved are all that a step can change of it.             *)
LEMMA SeenStays ==
  ASSUME Tables, Tables', Grows, NEW r, Placed(r), NEW moved, Seen(r, moved),
         NEW later, moved \cup Moved \subseteq later
  PROVE  Seen(r, later)'
<1>1. \A m \in Member : m \notin Moved => team'[m] = team[m]
  BY DEF Moved
<1>2. None \notin teams' /\ \A t \in ever : t \in teams' => t \in teams
  BY NoneAssumption DEF Grows, Tables
<1>3. roster \subseteq Member
  BY DEF Tables
<1>4. /\ ever \subseteq ever'
      /\ \A i \in DOMAIN filed : i \in DOMAIN filed' /\ filed'[i].by = filed[i].by
  BY DEF Grows
<1>5. /\ r.at \in {"target", "file"} => r.who \in Member /\ r.other \in Member
  BY <1>3 DEF Placed
<1>6. r.at = "dashboard" => (r.team \in teams' => r.mine = r.team)
  BY <1>2 DEF Seen
<1>7. r.at \in {"guests", "screen"} =>
        \A i \in r.got : i \in DOMAIN filed' /\ filed'[i].by \in r.people \cup later
  BY <1>4 DEF Seen
<1>8. r.at \in {"pending", "guests", "screen"} =>
        \A m \in Member : team'[m] = r.team => m \in r.people \cup later
  BY <1>1 DEF Seen
<1>9. /\ r.at \in {"target", "file"} => (r.who \notin later => team'[r.who] = r.team)
      /\ r.at = "file" => (r.other \notin later => team'[r.other] = r.team)
  BY <1>1, <1>5 DEF Seen
<1>10. r.at \in {"teams", "dashboard"} => r.team \in ever' \cup {None}
  BY <1>4 DEF Seen
<1>11. QED  BY <1>6, <1>7, <1>8, <1>9, <1>10 DEF Seen

LEMMA SeenOpened ==
  ASSUME Tables, NEW h \in Handler,
         CaptainRead(h) \/ ModerateRead(h) \/ PageCount(h) \/ Standings(h) \/ LeaderboardReport(h)
           \/ DashboardMember(h) \/ CaptainProfile(h)
  PROVE  \E r : req' = [req EXCEPT ![h] = r] /\ Seen(r, {})
<1>1. roster \subseteq Member /\ \A m \in roster : team[m] \in ever \cup {None}
  BY DEF Tables, References
<1>2. CASE CaptainRead(h)
  <2>1. PICK c \in Captain \cap roster, m \in roster :
          req' = [req EXCEPT ![h] = [Idle EXCEPT !.at = "target", !.who = c, !.other = m, !.team = team[c]]]
    BY <1>2 DEF CaptainRead, Begins
  <2> DEFINE r == [Idle EXCEPT !.at = "target", !.who = c, !.other = m, !.team = team[c]]
  <2>2. r.at = "target" /\ r.who = c /\ r.team = team[c]
    BY DEF Idle
  <2> HIDE DEF r
  <2>3. Seen(r, {})
    BY <2>2 DEF Seen
  <2>4. QED  BY <2>1, <2>3 DEF r
<1>3. CASE ModerateRead(h)
  <2>1. PICK i, to :
          req' = [req EXCEPT ![h] = [Idle EXCEPT !.at = "settle", !.item = i, !.seen = filed[i].status, !.to = to,
                                                 !.team = team[filed[i].by], !.sum = SumBySource(i)]]
    BY <1>3 DEF ModerateRead, Begins
  <2> DEFINE r == [Idle EXCEPT !.at = "settle", !.item = i, !.seen = filed[i].status, !.to = to,
                               !.team = team[filed[i].by], !.sum = SumBySource(i)]
  <2>2. r.at = "settle"
    BY DEF Idle
  <2> HIDE DEF r
  <2>3. QED  BY <2>1, <2>2 DEF Seen, r
<1>4. CASE PageCount(h)
  <2>1. PICK list \in Lists, asked \in Asked, byPage \in BOOLEAN :
          req' = [req EXCEPT ![h] = [Idle EXCEPT !.at = "rows", !.list = list, !.asked = asked, !.byPage = byPage,
                                                 !.total = Len(Listed(list))]]
    BY <1>4 DEF PageCount, Opens
  <2> DEFINE r == [Idle EXCEPT !.at = "rows", !.list = list, !.asked = asked, !.byPage = byPage,
                               !.total = Len(Listed(list))]
  <2>2. r.at = "rows"
    BY DEF Idle
  <2> HIDE DEF r
  <2>3. QED  BY <2>1, <2>2 DEF Seen, r
<1>5. CASE Standings(h)
  <2>1. PICK asked \in Asked, category \in {"overall", "tyfcb", "visitor"} :
          req' = [req EXCEPT ![h] = [Idle EXCEPT !.at = "individuals", !.asked = asked, !.ranked = category]]
    BY <1>5 DEF Standings, Opens
  <2> DEFINE r == [Idle EXCEPT !.at = "individuals", !.asked = asked, !.ranked = category]
  <2>2. r.at = "individuals"
    BY DEF Idle
  <2> HIDE DEF r
  <2>3. QED  BY <2>1, <2>2 DEF Seen, r
<1>6. CASE LeaderboardReport(h)
  <2> DEFINE r == [Idle EXCEPT !.at = "individuals", !.asked = SheetRows]
  <2>1. req' = [req EXCEPT ![h] = r] /\ r.at = "individuals"
    BY <1>6 DEF LeaderboardReport, Opens, Idle
  <2> HIDE DEF r
  <2>2. QED  BY <2>1 DEF Seen
<1>7. CASE DashboardMember(h)
  <2>1. PICK m \in roster : req' = [req EXCEPT ![h] = [Idle EXCEPT !.at = "teams", !.who = m, !.team = team[m]]]
    BY <1>7 DEF DashboardMember, Opens
  <2> DEFINE r == [Idle EXCEPT !.at = "teams", !.who = m, !.team = team[m]]
  <2>2. r.at = "teams" /\ r.team = team[m]
    BY DEF Idle
  <2> HIDE DEF r
  <2>3. Seen(r, {})
    BY <1>1, <2>2 DEF Seen
  <2>4. QED  BY <2>1, <2>3 DEF r
<1>8. CASE CaptainProfile(h)
  <2>1. PICK c \in Captain \cap roster :
          req' = [req EXCEPT ![h] = [Idle EXCEPT !.at = "roster", !.who = c, !.team = team[c]]]
    BY <1>8 DEF CaptainProfile, Opens
  <2> DEFINE r == [Idle EXCEPT !.at = "roster", !.who = c, !.team = team[c]]
  <2>2. r.at = "roster"
    BY DEF Idle
  <2> HIDE DEF r
  <2>3. QED  BY <2>1, <2>2 DEF Seen, r
<1>9. QED  BY <1>2, <1>3, <1>4, <1>5, <1>6, <1>7, <1>8, Zenon

LEMMA SeenGoesOn ==
  ASSUME Tables, TypeOK, Placement, NEW h \in Handler, NEW moved, Seen(req[h], moved),
         AssertSameTeam(h) \/ PageRows(h) \/ NextPage(h) \/ IndividualStandings(h) \/ DashboardTeams(h)
           \/ CaptainRoster(h) \/ CaptainPending(h) \/ CaptainGuests(h)
  PROVE  \E r : req' = [req EXCEPT ![h] = r] /\ Seen(r, moved)
<1> DEFINE q == req[h]
<1>1. q \in Request /\ Placed(q) /\ Seen(q, moved)
  BY DEF TypeOK, Placement
<1>2. Seen(Idle, moved)
  BY DEF Idle, Seen
<1>3. CASE AssertSameTeam(h)
  <2>1. CASE SameTeam(h)
    <3> DEFINE r == [q EXCEPT !.at = "file"]
    <3>1. r.at = "file" /\ r.who = q.who /\ r.other = q.other /\ r.team = q.team
      BY <1>1 DEF Request
    <3>2. req' = [req EXCEPT ![h] = r] /\ q.at = "target"
      BY <1>3, <2>1 DEF AssertSameTeam, Goes
    <3> HIDE DEF r
    <3>3. Seen(r, moved)
      BY <1>1, <2>1, <3>1, <3>2 DEF Seen, SameTeam
    <3>4. QED  BY <3>2, <3>3
  <2>2. CASE ~ SameTeam(h)
    BY <1>2, <1>3, <2>2 DEF AssertSameTeam, Ends, Goes
  <2>3. QED  BY <2>1, <2>2
<1>4. CASE PageRows(h)
  <2> DEFINE r == [q EXCEPT !.at = IF HasMore(h) THEN "next" ELSE "listed", !.got = @ \cup Shown(h)]
  <2>1. req' = [req EXCEPT ![h] = r]
    BY <1>4 DEF PageRows, Goes
  <2>2. r.at \in {"next", "listed"}
    BY <1>1 DEF Request
  <2> HIDE DEF r
  <2>3. QED  BY <2>1, <2>2 DEF Seen
<1>5. CASE NextPage(h)
  <2> DEFINE r == [q EXCEPT !.at = "rows", !.offset = NextOffset(h), !.total = Len(Listed(q.list))]
  <2>1. req' = [req EXCEPT ![h] = r]
    BY <1>5 DEF NextPage, Goes
  <2>2. r.at = "rows"
    BY <1>1 DEF Request
  <2> HIDE DEF r
  <2>3. QED  BY <2>1, <2>2 DEF Seen
<1>6. CASE IndividualStandings(h)
  <2> DEFINE r == [q EXCEPT !.at = "board", !.people = MemberScores(q.ranked, BoardLimit(q.asked))]
  <2>1. req' = [req EXCEPT ![h] = r]
    BY <1>6 DEF IndividualStandings, Goes
  <2>2. r.at = "board"
    BY <1>1 DEF Request
  <2> HIDE DEF r
  <2>3. QED  BY <2>1, <2>2 DEF Seen
<1>7. CASE DashboardTeams(h)
  <2> DEFINE r == [q EXCEPT !.at = "dashboard", !.mine = MyTeam(h)]
  <2>1. req' = [req EXCEPT ![h] = r] /\ q.at = "teams"
    BY <1>7 DEF DashboardTeams, Goes
  <2>2. r.at = "dashboard" /\ r.team = q.team /\ r.mine = MyTeam(h)
    BY <1>1 DEF Request
  <2> HIDE DEF r
  <2>3. Seen(r, moved)
    BY <1>1, <2>1, <2>2 DEF Seen, MyTeam
  <2>4. QED  BY <2>1, <2>3
<1>8. CASE CaptainRoster(h)
  <2> DEFINE r == [q EXCEPT !.at = "pending", !.people = { m \in roster : team[m] = q.team }]
  <2>1. req' = [req EXCEPT ![h] = r] /\ q.at = "roster"
    BY <1>8 DEF CaptainRoster, Goes
  <2>2. r.at = "pending" /\ r.team = q.team /\ r.people = { m \in roster : team[m] = q.team }
    BY <1>1 DEF Request
  <2> HIDE DEF r
  <2>3. q.team # None
    BY <1>1, <2>1, NoneAssumption DEF Placed
  <2>4. \A m \in Member : team[m] = r.team => m \in r.people
    BY <2>2, <2>3 DEF Tables
  <2>5. Seen(r, moved)
    BY <2>2, <2>4 DEF Seen
  <2>6. QED  BY <2>1, <2>5
<1>9. ASSUME NEW kind, NEW status, NEW i \in Waiting(h, kind, status), q.at \in {"pending", "guests"}
      PROVE  i \in DOMAIN filed /\ filed[i].by \in q.people \cup moved
  <2>1. i \in DOMAIN filed /\ Matches([kind |-> kind, status |-> status, team |-> q.team], i)
    BY <1>9 DEF Waiting
  <2>2. q.team # None
    BY <1>1, <1>9, NoneAssumption DEF Placed
  <2>3. filed[i].by \in Member /\ team[filed[i].by] = q.team
    BY <2>1, <2>2 DEF Matches, Tables, References
  <2>4. QED  BY <1>1, <1>9, <2>1, <2>3 DEF Seen
<1>10. CASE CaptainPending(h)
  <2> DEFINE r == [q EXCEPT !.at = "guests", !.got = Waiting(h, "tyfcb", "pending")]
  <2>1. req' = [req EXCEPT ![h] = r] /\ q.at = "pending"
    BY <1>10 DEF CaptainPending, Goes
  <2>2. r.at = "guests" /\ r.team = q.team /\ r.people = q.people /\ r.got = Waiting(h, "tyfcb", "pending")
    BY <1>1 DEF Request
  <2> HIDE DEF r
  <2>3. Seen(r, moved)
    BY <1>1, <1>9, <2>1, <2>2 DEF Seen
  <2>4. QED  BY <2>1, <2>3
<1>11. CASE CaptainGuests(h)
  <2> DEFINE r == [q EXCEPT !.at = "screen", !.got = @ \cup Waiting(h, "visitor", "terdaftar")]
  <2>1. req' = [req EXCEPT ![h] = r] /\ q.at = "guests"
    BY <1>11 DEF CaptainGuests, Goes
  <2>2. /\ r.at = "screen" /\ r.team = q.team /\ r.people = q.people
        /\ r.got = q.got \cup Waiting(h, "visitor", "terdaftar")
    BY <1>1 DEF Request
  <2> HIDE DEF r
  <2>3. Seen(r, moved)
    BY <1>1, <1>9, <2>1, <2>2 DEF Seen
  <2>4. QED  BY <2>1, <2>3
<1>12. QED
  BY <1>3, <1>4, <1>5, <1>6, <1>7, <1>8, <1>10, <1>11, Zenon

LEMMA SeenInit == Init => AllSeen
BY DEF Init, AllSeen, Seen, Idle

(* A step ends the request, or opens a screen, or goes on with one.        *)
Opening(h) ==
  \/ CaptainRead(h) \/ ModerateRead(h) \/ PageCount(h) \/ Standings(h) \/ LeaderboardReport(h)
  \/ DashboardMember(h) \/ CaptainProfile(h)

GoingOn(h) ==
  \/ AssertSameTeam(h) \/ PageRows(h) \/ NextPage(h) \/ IndividualStandings(h) \/ DashboardTeams(h)
  \/ CaptainRoster(h) \/ CaptainPending(h) \/ CaptainGuests(h)

LEMMA Kinds ==
  ASSUME NEW h \in Handler, Begin(h) \/ Step(h) \/ Fail(h)
  PROVE  \/ req' = [req EXCEPT ![h] = Idle]
         \/ req[h].at = "idle" /\ UNCHANGED tables /\ Opening(h)
         \/ req[h].at # "idle" /\ UNCHANGED tables /\ GoingOn(h)
<1>1. CASE Writes(h) \/ Leave(h) \/ Fail(h)
  BY <1>1 DEF Writes, Submit, Register, CaptainSubmit, CaptainRegister, Settle, MoveMember, RosterBonus,
       Enrol, CreateTeam, DeleteTeam, Leave, Fail, AtOnce, Begins, Ends, Goes
<1>2. CASE Opening(h)
  BY <1>2 DEF Opening, CaptainRead, ModerateRead, PageCount, Standings, LeaderboardReport,
       DashboardMember, CaptainProfile, Begins, Opens
<1>3. CASE GoingOn(h)
  BY <1>3 DEF GoingOn, AssertSameTeam, PageRows, NextPage, IndividualStandings,
       DashboardTeams, CaptainRoster, CaptainPending, CaptainGuests
<1>4. QED  BY <1>1, <1>2, <1>3 DEF Begin, Step, Writes, Opening, GoingOn

LEMMA SeenNext == Typed /\ AllSeen /\ [Next]_vars => AllSeen'
<1> SUFFICES ASSUME Typed, AllSeen, [Next]_vars  PROVE AllSeen'
  OBVIOUS
<1>1. CASE UNCHANGED vars
  BY <1>1 DEF AllSeen, Seen, vars, tables
<1>2. ASSUME NEW h \in Handler, Begin(h) \/ Step(h) \/ Fail(h), Observe  PROVE AllSeen'
  <2>1. Tables /\ Tables' /\ Grows /\ TypeOK /\ Placement
    BY <1>2, Served DEF Typed
  <2>2. \A k \in Handler : k # h => req'[k] = req[k]
    BY <1>2, <2>1, Served DEF TypeOK
  <2>3. ASSUME NEW k \in Handler, req'[k].at = "idle"  PROVE Seen(req[k], watch[k].moved)'
    BY <2>3 DEF Seen
  <2>4. ASSUME NEW k \in Handler, k # h, req'[k].at # "idle"  PROVE Seen(req[k], watch[k].moved)'
    <3> DEFINE r == req[k]
    <3>1. req'[k] = r /\ r.at # "idle"
      BY <2>2, <2>4
    <3>2. watch'[k].moved = watch[k].moved \cup Moved
      BY <1>2, <2>1, <2>4, <3>1, Watched
    <3>3. Placed(r) /\ Seen(r, watch[k].moved)
      BY <2>1 DEF AllSeen, Placement
    <3>4. ASSUME NEW s, s = r, NEW moved, moved = watch[k].moved, NEW later, later = watch'[k].moved
          PROVE  Seen(s, later)'
      BY <2>1, <3>2, <3>3, <3>4, SeenStays
    <3>5. QED  BY <3>1, <3>4
  <2>5. ASSUME req'[h].at # "idle"  PROVE Seen(req[h], watch[h].moved)'
    <3>1. ASSUME NEW r, req' = [req EXCEPT ![h] = r], NEW moved, Seen(r, moved), UNCHANGED tables,
                 moved = watch'[h].moved
          PROVE  Seen(req[h], watch[h].moved)'
      <4>1. req'[h] = r
        BY <2>1, <3>1 DEF TypeOK
      <4>2. QED  BY <3>1, <4>1 DEF Seen, tables
    <3>2. UNCHANGED tables => Moved = {}
      BY DEF tables, Moved
    <3>3. CASE req[h].at = "idle" /\ UNCHANGED tables /\ Opening(h)
      <4>1. watch'[h].moved = {}
        BY <1>2, <2>1, <2>5, <3>3, Watched
      <4>2. QED  BY <2>1, <3>1, <3>3, <4>1, SeenOpened DEF Opening
    <3>4. CASE req[h].at # "idle" /\ UNCHANGED tables /\ GoingOn(h)
      <4>1. watch'[h].moved = watch[h].moved
        BY <1>2, <2>1, <2>5, <3>2, <3>4, Watched
      <4>2. Seen(req[h], watch[h].moved)
        BY DEF AllSeen
      <4>3. QED  BY <2>1, <3>1, <3>4, <4>1, <4>2, SeenGoesOn DEF GoingOn
    <3>5. req' # [req EXCEPT ![h] = Idle]
      BY <2>1, <2>5 DEF TypeOK, Idle
    <3>6. QED  BY <1>2, <3>3, <3>4, <3>5, Kinds
  <2>6. QED  BY <2>3, <2>4, <2>5 DEF AllSeen
<1>3. QED  BY <1>1, <1>2 DEF Next, Quiet

LEMMA AlwaysSeen == Spec => [](Typed /\ AllSeen)
<1>1. Typed /\ AllSeen /\ [Next]_vars => (Typed /\ AllSeen)'
  BY TypedNext, SeenNext
<1>2. Init => Typed /\ AllSeen
  BY TypedInit, SeenInit
<1>3. QED  BY <1>1, <1>2, PTL DEF Spec

(* Screens of several statements agree with themselves, but for the teams  *)
(* deleted and the members moved while they were being read                *)
(* (leaderboard.go, Dashboard; admin_handler.go, handleCaptainTeam).       *)
THEOREM ScreensAlwaysAgree == Spec => []ScreensAgree
<1>1. Typed /\ AllSeen => ScreensAgree
  BY DEF AllSeen, Seen, ScreensAgree
<1>2. QED  BY <1>1, AlwaysSeen, PTL

(* A captain files for a member of the captain's own team, unless one of   *)
(* the two moved since the request began (contribution_handler.go,         *)
(* assertSameTeam).                                                        *)
THEOREM CaptainsFileForOwnTeam == Spec => CaptainFilesForOwnTeam
<1>1. Typed /\ AllSeen =>
        \A h \in Handler :
          req[h].at = "file" /\ filed' # filed /\ req'[h].at = "idle" =>
            LET pair == {req[h].who, req[h].other}
            IN  pair \cap watch[h].moved = {} => team[req[h].who] = team[req[h].other]
  BY DEF AllSeen, Seen
<1>2. QED  BY <1>1, AlwaysSeen, PTL DEF CaptainFilesForOwnTeam

(***************************************************************************)
(* What a transaction is worth and to whom                                 *)
(***************************************************************************)
LEMMA SumUnchanged ==
  ASSUME UNCHANGED ledger, NEW i
  PROVE  SumBySource(i)' = SumBySource(i)
BY DEF SumBySource, Points

(* A new row counts for the item it refers to and for no other.            *)
LEMMA SumAppended ==
  ASSUME Tables, NEW r \in Row, ledger' = Append(ledger, r), NEW i
  PROVE  /\ SumBySource(i) \in Int
         /\ SumBySource(i)' = IF r.ref = i THEN SumBySource(i) + r.points ELSE SumBySource(i)
<1> DEFINE n == Len(ledger) + 1
           f == [j \in DOMAIN ledger |-> ledger[j].points]
           g == [j \in DOMAIN ledger' |-> ledger'[j].points]
           old == { j \in DOMAIN ledger : ledger[j].ref = i }
           new == { j \in DOMAIN ledger' : ledger'[j].ref = i }
<1>1. /\ Len(ledger) \in Nat /\ DOMAIN ledger = 1..Len(ledger) /\ DOMAIN ledger' = 1..n
      /\ \A j \in DOMAIN ledger : ledger'[j] = ledger[j] /\ ledger[j] \in Row
      /\ ledger'[n] = r
  BY AppendProperties, LenProperties, ElementOfSeq DEF Tables
<1>2. SumBySource(i) = SumFunctionOnSet(f, old) /\ SumBySource(i)' = SumFunctionOnSet(g, new)
  <2>1. { j \in old : "overall" \in {"overall", ledger[j].category} } = old
    OBVIOUS
  <2>2. { j \in new : "overall" \in {"overall", ledger'[j].category} } = new
    OBVIOUS
  <2>3. QED  BY <2>1, <2>2 DEF SumBySource, Points
<1>3. n \notin old /\ new = IF r.ref = i THEN old \cup {n} ELSE old
  BY <1>1
<1>4. IsFiniteSet(old) /\ IsFiniteSet(old \cup {n})
  <2>1. IsFiniteSet(DOMAIN ledger)
    BY <1>1, FS_Interval
  <2>2. IsFiniteSet(old)
    BY <2>1, FS_Subset
  <2>3. QED  BY <2>2, FS_AddElement
<1>5. /\ \A j \in old : f[j] = g[j] /\ f[j] \in Int
      /\ g[n] = r.points /\ r.points \in Int
  BY <1>1 DEF Row
<1> HIDE DEF f, g, old, new, n
<1>6. SumFunctionOnSet(f, old) = SumFunctionOnSet(g, old) /\ SumFunctionOnSet(f, old) \in Int
  BY <1>4, <1>5, SumSame, SumInt
<1>7. CASE r.ref = i
  <2>1. (old \cup {n}) \ {n} = old
    BY <1>3
  <2>2. \A j \in old \cup {n} : g[j] \in Int
    BY <1>5
  <2>3. SumFunctionOnSet(g, old \cup {n}) = g[n] + SumFunctionOnSet(g, old)
    BY <1>4, <2>1, <2>2, SumApart
  <2>4. QED  BY <1>2, <1>3, <1>5, <1>6, <1>7, <2>3
<1>8. CASE r.ref # i
  BY <1>2, <1>3, <1>6, <1>8
<1>9. QED  BY <1>7, <1>8

(* A transaction's points stand as its status says, with the team of its   *)
(* giver only; its moderations name that team.  Rows refer to items filed. *)
StandsWell(i) ==
  /\ SumBySource(i) = IF filed[i].status = "verified" THEN Worth("tyfcb") ELSE 0
  /\ \A j \in DOMAIN ledger : ledger[j].ref = i => ledger[j].team = team[filed[i].by]

JudgedWell(r, i) == r.at = "settle" /\ r.item = i => r.team = team[filed[i].by]

Referred == \A j \in DOMAIN ledger : ledger[j].ref \in DOMAIN filed \cup {0}

AllStand ==
  /\ Referred
  /\ \A i \in DOMAIN filed : filed[i].kind = "tyfcb" /\ i \notin strayed =>
       StandsWell(i) /\ \A h \in Handler : JudgedWell(req[h], i)

LEMMA StandImplies == Tables /\ AllStand => TeamsKeepWhatStands
<1> SUFFICES ASSUME Tables, AllStand, NEW i \in DOMAIN filed, filed[i].kind = "tyfcb", i \notin strayed
             PROVE  LET worth   == IF filed[i].status = "verified" THEN Worth("tyfcb") ELSE 0
                        cost(t) == Points({ j \in TeamRows(t) : ledger[j].ref = i }, "overall")
                    IN  SumBySource(i) = worth /\ \A t \in teams \cup {None} : cost(t) \in {0, worth}
  BY DEF TeamsKeepWhatStands
<1> DEFINE worth == IF filed[i].status = "verified" THEN Worth("tyfcb") ELSE 0
           rows(t) == { j \in TeamRows(t) : ledger[j].ref = i }
           all == { j \in DOMAIN ledger : ledger[j].ref = i }
<1>1. SumBySource(i) = worth /\ \A j \in all : ledger[j].team = team[filed[i].by]
  BY DEF AllStand, StandsWell
<1>2. ASSUME NEW t  PROVE Points(rows(t), "overall") \in {0, worth}
  <2>1. CASE t = team[filed[i].by]
    <3>1. rows(t) = all
      BY <1>1, <2>1 DEF TeamRows
    <3>2. SumBySource(i) = Points(all, "overall")
      BY DEF SumBySource
    <3> HIDE DEF rows, all
    <3>3. QED  BY <1>1, <3>1, <3>2
  <2>2. CASE t # team[filed[i].by]
    <3>1. rows(t) = {}
      BY <1>1, <2>2 DEF TeamRows
    <3>2. { j \in {} : "overall" \in {"overall", ledger[j].category} } = {}
      OBVIOUS
    <3> HIDE DEF rows
    <3>3. QED  BY <3>1, <3>2, SumEmpty DEF Points
  <2>3. QED  BY <2>1, <2>2
<1>3. QED  BY <1>1, <1>2

LEMMA StandInit == Init => AllStand
<1> SUFFICES ASSUME Init  PROVE AllStand
  OBVIOUS
<1>1. /\ DOMAIN ledger = 1..Len(ledger) /\ FirstCredits \in Bijection(DOMAIN ledger, Credited)
      /\ \A n \in DOMAIN ledger : ledger[n] = Credit(FirstCredits[n]) /\ FirstCredits[n] \in DOMAIN StartFiled
  BY FirstLedger
<1>2. Tables /\ filed = StartFiled /\ DOMAIN StartFiled = 1..Len(StartFiled) /\ Len(StartFiled) \in Nat
  BY TypedInit, StartItems DEF Typed, Init
<1>3. \A n \in DOMAIN ledger :
        /\ ledger[n].ref = FirstCredits[n] /\ ledger[n].team = team[filed[FirstCredits[n]].by]
        /\ ledger[n].points = Worth(filed[FirstCredits[n]].kind)
  BY <1>1, <1>2 DEF Credit, RowOf
<1>4. Referred
  BY <1>1, <1>2, <1>3 DEF Referred
<1>5. ASSUME NEW i \in DOMAIN filed, filed[i].kind = "tyfcb"  PROVE StandsWell(i)
  <2> DEFINE all == { j \in DOMAIN ledger : ledger[j].ref = i }
             f == [j \in DOMAIN ledger |-> ledger[j].points]
  <2>1. SumBySource(i) = SumFunctionOnSet(f, all)
    <3>1. { j \in all : "overall" \in {"overall", ledger[j].category} } = all
      OBVIOUS
    <3>2. QED  BY <3>1 DEF SumBySource, Points
  <2>2. filed[i].status \in Status["tyfcb"]
    BY <1>2, <1>5, StartItems, ItemFields
  <2>3. CASE filed[i].status = "verified"
    <3>1. i \in Credited
      BY <1>2, <2>3 DEF Credited
    <3>2. PICK n \in DOMAIN ledger : FirstCredits[n] = i
      BY <1>1, <3>1 DEF Bijection, Surjection
    <3>3. all = {n}
      BY <1>1, <1>3, <3>2 DEF Bijection, Injection, IsInjective
    <3>4. f[n] = Worth("tyfcb") /\ f[n] \in Int
      BY <1>3, <1>5, <3>2, WorthInt DEF Status
    <3>5. IsFiniteSet({n}) /\ {n} \ {n} = {}
      BY FS_Singleton
    <3> HIDE DEF f, all
    <3>6. SumFunctionOnSet(f, {n}) = f[n] + SumFunctionOnSet(f, {})
      BY <3>4, <3>5, SumApart
    <3>7. SumBySource(i) = Worth("tyfcb")
      BY <2>1, <3>3, <3>4, <3>6, SumEmpty
    <3>8. QED  BY <1>3, <2>3, <3>7 DEF StandsWell
  <2>4. CASE filed[i].status # "verified"
    <3>1. i \notin Credited
      BY <1>2, <2>2, <2>4 DEF Credited, Status
    <3>2. all = {}
      BY <1>1, <1>3, <3>1 DEF Bijection, Injection
    <3> HIDE DEF f
    <3>3. SumBySource(i) = 0
      BY <2>1, <3>2, SumEmpty
    <3>4. QED  BY <1>3, <2>4, <3>3 DEF StandsWell
  <2>5. QED  BY <2>3, <2>4
<1>6. \A h \in Handler, i \in DOMAIN filed : JudgedWell(req[h], i)
  BY DEF Init, Idle, JudgedWell
<1>7. QED  BY <1>4, <1>5, <1>6 DEF AllStand

(* An item nobody writes a row for keeps its standing, unless it strayed.  *)
LEMMA StandStays ==
  ASSUME Tables, Tables', Grows, Observe, AllStand,
         NEW i \in DOMAIN filed, filed[i].kind = "tyfcb", i \notin strayed',
         filed'[i].status = filed[i].status,
         ledger' = ledger \/ \E r \in Row : r.ref # i /\ ledger' = Append(ledger, r)
  PROVE  StandsWell(i)'
<1>1. i \notin strayed /\ StandsWell(i)
  BY DEF Observe, AllStand
<1>2. filed'[i].by = filed[i].by /\ filed[i].by \in Member
  BY DEF Grows, Tables, References
<1>3. SumBySource(i)' = SumBySource(i)
  BY SumUnchanged, SumAppended
<1>4. ASSUME NEW j \in DOMAIN ledger', ledger'[j].ref = i
      PROVE  j \in DOMAIN ledger /\ ledger'[j] = ledger[j]
  BY <1>4, AppendProperties, LenProperties, SMTT(30) DEF Tables
<1>5. ASSUME NEW j \in DOMAIN ledger', ledger'[j].ref = i
      PROVE  ledger'[j].team = team'[filed'[i].by]
  <2>1. j \in DOMAIN ledger /\ ledger'[j] = ledger[j]
    BY <1>4, <1>5
  <2>2. filed[i].by \notin Moved
    BY <1>5, <2>1 DEF Observe
  <2>3. team'[filed[i].by] = team[filed[i].by]
    BY <1>2, <2>2 DEF Moved
  <2>4. QED  BY <1>1, <1>2, <1>5, <2>1, <2>3 DEF StandsWell
<1>6. QED  BY <1>1, <1>3, <1>5 DEF StandsWell

LEMMA JudgedStays ==
  ASSUME Tables, Grows, Observe, NEW k \in Handler,
         NEW i \in DOMAIN filed, i \notin strayed', JudgedWell(req[k], i), req'[k] = req[k]
  PROVE  JudgedWell(req[k], i)'
<1>1. SUFFICES ASSUME req[k].at = "settle", req[k].item = i
               PROVE  req[k].team = team'[filed'[i].by]
  BY DEF JudgedWell
<1>2. filed'[i].by = filed[i].by /\ filed[i].by \in Member
  BY DEF Grows, Tables, References
<1>3. filed[i].by \notin Moved
  BY <1>1 DEF Observe
<1>4. QED  BY <1>1, <1>2, <1>3 DEF Moved, JudgedWell

(* Only the reads of a moderation lead to its transaction.                 *)
LEMMA ModerationRead ==
  ASSUME TypeOK, NEW h \in Handler, Opening(h) \/ GoingOn(h), req'[h].at = "settle"
  PROVE  req'[h].team = team[filed[req'[h].item].by]
<1>1. req[h] \in Request /\ req \in [Handler -> Request]
  BY DEF TypeOK
<1>2. CASE Opening(h)
  <2>1. CASE ModerateRead(h)
    <3>1. PICK i, to :
            req' = [req EXCEPT ![h] = [Idle EXCEPT !.at = "settle", !.item = i, !.seen = filed[i].status, !.to = to,
                                                   !.team = team[filed[i].by], !.sum = SumBySource(i)]]
      BY <2>1 DEF ModerateRead, Begins
    <3>2. req'[h].item = i /\ req'[h].team = team[filed[i].by]
      BY <1>1, <3>1 DEF Idle
    <3>3. QED  BY <3>2
  <2>2. CASE CaptainRead(h)
    BY <1>1, <2>2 DEF CaptainRead, Begins, Idle
  <2>3. CASE PageCount(h)
    BY <1>1, <2>3 DEF PageCount, Opens, Idle
  <2>4. CASE Standings(h) \/ LeaderboardReport(h)
    BY <1>1, <2>4, ZenonT(60) DEF Standings, LeaderboardReport, Opens, Idle
  <2>5. CASE DashboardMember(h)
    BY <1>1, <2>5 DEF DashboardMember, Opens, Idle
  <2>6. CASE CaptainProfile(h)
    BY <1>1, <2>6 DEF CaptainProfile, Opens, Idle
  <2>7. QED  BY <1>2, <2>1, <2>2, <2>3, <2>4, <2>5, <2>6 DEF Opening
<1>3. CASE GoingOn(h)
  <2>1. CASE AssertSameTeam(h)
    BY <1>1, <2>1 DEF AssertSameTeam, Goes, Ends, Idle, Request
  <2>2. CASE PageRows(h)
    <3>1. req'[h].at = IF HasMore(h) THEN "next" ELSE "listed"
      BY <1>1, <2>2 DEF PageRows, Goes, Request
    <3>2. QED  BY <3>1
  <2>3. CASE NextPage(h)
    BY <1>1, <2>3 DEF NextPage, Goes, Request
  <2>4. CASE IndividualStandings(h)
    BY <1>1, <2>4 DEF IndividualStandings, Goes, Request
  <2>5. CASE DashboardTeams(h)
    BY <1>1, <2>5 DEF DashboardTeams, Goes, Request
  <2>6. CASE CaptainRoster(h)
    BY <1>1, <2>6 DEF CaptainRoster, Goes, Request
  <2>7. CASE CaptainPending(h)
    BY <1>1, <2>7 DEF CaptainPending, Goes, Request
  <2>8. CASE CaptainGuests(h)
    BY <1>1, <2>8 DEF CaptainGuests, Goes, Request
  <2>9. QED  BY <1>3, <2>1, <2>2, <2>3, <2>4, <2>5, <2>6, <2>7, <2>8 DEF GoingOn
<1>4. QED  BY <1>2, <1>3

(* A moderation of the item leaves it worth what its new status says.      *)
LEMMA StandSettled ==
  ASSUME Tables, TypeOK, Placement, AllStand, NEW h \in Handler, Settle(h),
         NEW n, n = req[h].item, filed[n].kind = "tyfcb", n \notin strayed
  PROVE  StandsWell(n)'
<1> DEFINE i == filed[n]
           row == RowOf(i, n, CreditedTeam(h), Delta(h))
           to == req[h].to
           W == Worth("tyfcb")
<1>1. /\ n \in DOMAIN filed /\ i \in Item /\ n \in Nat
      /\ to # req[h].seen
      /\ req[h].seen \in Status["tyfcb"] /\ to \in Status["tyfcb"] \cup {"void"}
  BY LenProperties, ElementOfSeq DEF Settle, Placement, Placed, Tables
<1>2. StandsWell(n) /\ req[h].team = team[i.by] /\ UNCHANGED team
  BY <1>1 DEF AllStand, JudgedWell, Settle
<1>3. W \in Int
  BY WorthInt DEF Status
<1>4. CASE UNCHANGED <<filed, ledger>>
  <2>1. SumBySource(n)' = SumBySource(n)
    BY <1>4, SumUnchanged
  <2>2. QED  BY <1>2, <1>4, <2>1 DEF StandsWell
<1>5. CASE /\ Stands(h)
           /\ filed' = [filed EXCEPT ![n] = Settled(i, to)]
           /\ ledger' = IF Delta(h) = 0 THEN ledger ELSE Append(ledger, row)
  <2>1. i.status = req[h].seen
    BY <1>5 DEF Stands
  <2>2. Delta(h) = IF to = "verified" THEN W ELSE IF req[h].seen = "verified" THEN -W ELSE 0
    BY <1>1 DEF Delta, Status
  <2>3. filed'[n].status = to /\ filed'[n].by = i.by
    <3>1. \A s \in {i.status, to}, b \in BOOLEAN :
            /\ [i EXCEPT !.void = b, !.status = s].status = s /\ [i EXCEPT !.void = b, !.status = s].by = i.by
            /\ [i EXCEPT !.status = s].status = s /\ [i EXCEPT !.status = s].by = i.by
      BY <1>1 DEF Item, Status
    <3>2. Settled(i, to).status = to /\ Settled(i, to).by = i.by
      BY <3>1 DEF Settled
    <3>3. filed'[n] = Settled(i, to)
      BY <1>1, <1>5
    <3>4. QED  BY <3>2, <3>3
  <2>4. SumBySource(n) = IF req[h].seen = "verified" THEN W ELSE 0
    BY <1>2, <2>1 DEF StandsWell
  <2>5. ASSUME SumBySource(n)' = SumBySource(n) + Delta(h)
        PROVE  SumBySource(n)' = IF filed'[n].status = "verified" THEN W ELSE 0
    BY <1>1, <1>3, <2>2, <2>3, <2>4, <2>5
  <2>6. CASE Delta(h) = 0
    <3>1. SumBySource(n)' = SumBySource(n) /\ ledger' = ledger
      BY <1>5, <2>6, SumUnchanged
    <3>2. SumBySource(n)' = SumBySource(n) + Delta(h)
      BY <1>3, <2>4, <2>6, <3>1
    <3>3. QED  BY <1>2, <2>3, <2>5, <3>1, <3>2 DEF StandsWell
  <2>7. CASE Delta(h) # 0
    <3>1. ledger' = Append(ledger, row)
      BY <1>5, <2>7
    <3>2. row \in Row /\ row.ref = n /\ row.team = team[i.by] /\ row.points = Delta(h)
      <4>1. Delta(h) \in Int
        BY <1>3, <2>2
      <4>2. i.by \in Member /\ team[i.by] \in Team \cup {None}
        BY <1>1, ItemFields DEF Tables
      <4>3. QED  BY <1>1, <1>2, <4>1, <4>2 DEF RowOf, Row, Category, CreditedTeam
    <3> HIDE DEF row
    <3>3. SumBySource(n)' = SumBySource(n) + Delta(h)
      BY <3>1, <3>2, SumAppended
    <3>4. \A j \in DOMAIN ledger' : ledger'[j] = row \/ (j \in DOMAIN ledger /\ ledger'[j] = ledger[j])
      BY <3>1, <3>2, AppendProperties, LenProperties DEF Tables
    <3>5. QED  BY <1>2, <2>3, <2>5, <3>2, <3>3, <3>4 DEF StandsWell
  <2>8. QED  BY <2>6, <2>7
<1>6. QED  BY <1>4, <1>5 DEF Settle

(* A write files an item, writes at most a row for no item, or moderates.  *)
LEMMA WriteEffect ==
  ASSUME Tables, TypeOK, Placement, NEW h \in Handler, Writes(h)
  PROVE  \/ /\ \E kind \in DOMAIN Status, m \in Member : filed' = Append(filed, NewItem(kind, m))
            /\ ledger' = ledger
         \/ /\ filed' = filed
            /\ ledger' = ledger \/ \E r \in Row : r.ref = 0 /\ ledger' = Append(ledger, r)
         \/ Settle(h)
<1>1. \A m \in Member, t \in Team \cup {None} :
        /\ Bonus(m, t, LevelUpBonus("merah", "kuning")) \in Row /\ Bonus(None, t, BonusFullRoster) \in Row
        /\ Bonus(m, t, LevelUpBonus("merah", "kuning")).ref = 0 /\ Bonus(None, t, BonusFullRoster).ref = 0
  <2>1. LevelUpBonus("merah", "kuning") \in Int /\ BonusFullRoster \in Int
    BY DEF LevelUpBonus, BonusFullRoster
  <2>2. QED  BY <2>1, BonusOK DEF Bonus
<1>2. teams \subseteq Team /\ roster \subseteq Member
  BY DEF Tables
<1>3. CASE Submit(h) \/ Register(h)
  BY <1>2, <1>3 DEF Submit, Register, Files, Status
<1>4. CASE CaptainSubmit(h) \/ CaptainRegister(h)
  <2>1. req[h].other \in Member
    BY <1>2, <1>4 DEF CaptainSubmit, CaptainRegister, Placement, Placed
  <2>2. QED  BY <1>4, <2>1 DEF CaptainSubmit, CaptainRegister, Files, Status
<1>5. CASE MoveMember(h)
  <2>1. PICK m \in roster, t \in teams \cup {None}, raised \in BOOLEAN :
          ledger' = IF raised THEN Append(ledger, Bonus(m, t, LevelUpBonus("merah", "kuning"))) ELSE ledger
    BY <1>5 DEF MoveMember
  <2>2. m \in Member /\ t \in Team \cup {None} /\ filed' = filed
    BY <1>2, <1>5 DEF MoveMember
  <2>3. QED  BY <1>1, <2>1, <2>2
<1>6. CASE RosterBonus(h)
  <2>1. PICK t \in teams : ledger' = Append(ledger, Bonus(None, t, BonusFullRoster))
    BY <1>6 DEF RosterBonus
  <2>2. t \in Team /\ filed' = filed
    BY <1>2, <1>6 DEF RosterBonus
  <2>3. Bonus(None, t, BonusFullRoster) \in Row /\ Bonus(None, t, BonusFullRoster).ref = 0
    <3>1. BonusFullRoster \in Int
      BY DEF BonusFullRoster
    <3>2. QED  BY <2>2, <3>1, BonusOK DEF Bonus
  <2>4. QED  BY <2>1, <2>2, <2>3
<1>7. CASE Enrol(h) \/ CreateTeam(h) \/ DeleteTeam(h)
  BY <1>7 DEF Enrol, CreateTeam, DeleteTeam
<1>8. QED  BY <1>3, <1>4, <1>5, <1>6, <1>7 DEF Writes

(* A moderation touches one item and writes rows for no other.             *)
LEMMA SettleEffect ==
  ASSUME Tables, Tables', TypeOK, Placement, NEW h \in Handler, Settle(h)
  PROVE  /\ req[h].item \in DOMAIN filed /\ DOMAIN filed' = DOMAIN filed
         /\ \A i \in DOMAIN filed : i # req[h].item => filed'[i] = filed[i]
         /\ ledger' = ledger \/ \E r \in Row : r.ref = req[h].item /\ ledger' = Append(ledger, r)
<1> DEFINE n == req[h].item
           row == RowOf(filed[n], n, CreditedTeam(h), Delta(h))
<1>1. n \in DOMAIN filed
  BY DEF Settle, Placement, Placed
<1>2. filed' = filed \/ filed' = [filed EXCEPT ![n] = Settled(filed[n], req[h].to)]
  BY DEF Settle
<1>3. DOMAIN filed' = DOMAIN filed /\ \A i \in DOMAIN filed : i # n => filed'[i] = filed[i]
  BY <1>2
<1>4. ledger' = ledger \/ ledger' = Append(ledger, row)
  BY DEF Settle
<1>5. row.ref = n
  BY DEF RowOf
<1> HIDE DEF row
<1>6. ASSUME ledger' = Append(ledger, row)  PROVE row \in Row
  <2>1. Len(ledger) \in Nat /\ DOMAIN ledger = 1..Len(ledger) /\ ledger \in Seq(Row)
    BY LenProperties DEF Tables
  <2>2. ledger \in Seq(Row \cup {row}) /\ row \in Row \cup {row}
    BY <2>1, SeqDef, LenProperties, ElementOfSeq
  <2>3. DOMAIN ledger' = 1..(Len(ledger) + 1) /\ ledger'[Len(ledger) + 1] = row
    BY <1>6, <2>1, <2>2, AppendProperties
  <2>4. ledger' \in Seq(Row) /\ Len(ledger) + 1 \in DOMAIN ledger' /\ DOMAIN ledger' = 1..Len(ledger')
    BY <2>1, <2>3, LenProperties DEF Tables
  <2>5. QED  BY <2>3, <2>4, ElementOfSeq
<1>7. QED  BY <1>1, <1>3, <1>4, <1>5, <1>6

LEMMA ReferredNext ==
  ASSUME Tables, Tables', TypeOK, Placement, Grows, Referred, NEW h \in Handler,
         Writes(h) \/ UNCHANGED tables
  PROVE  Referred'
<1>1. DOMAIN filed \subseteq DOMAIN filed'
  BY DEF Grows
<1>2. ledger' = ledger \/ \E r \in Row : r.ref \in DOMAIN filed \cup {0} /\ ledger' = Append(ledger, r)
  BY WriteEffect, SettleEffect DEF tables
<1>3. \A r \in Row : ledger' = Append(ledger, r) =>
        \A j \in DOMAIN ledger' : ledger'[j] = r \/ (j \in DOMAIN ledger /\ ledger'[j] = ledger[j])
  BY AppendProperties, LenProperties DEF Tables
<1>4. QED  BY <1>1, <1>2, <1>3 DEF Referred

LEMMA StandNext == Typed /\ AllStand /\ [Next]_vars => AllStand'
<1> SUFFICES ASSUME Typed, AllStand, [Next]_vars  PROVE AllStand'
  OBVIOUS
<1>1. CASE UNCHANGED vars
  BY <1>1 DEF AllStand, StandsWell, JudgedWell, Referred, SumBySource, Points, vars, tables
<1>2. ASSUME NEW h \in Handler, Begin(h) \/ Step(h) \/ Fail(h), Observe  PROVE AllStand'
  <2>1. Tables /\ Tables' /\ Grows /\ TypeOK /\ Placement /\ Referred
    BY <1>2, Served DEF Typed, AllStand
  <2>2. Writes(h) \/ UNCHANGED tables
    BY <1>2, OnlyWrites
  <2>3. Referred'
    BY <2>1, <2>2, ReferredNext
  <2>4. strayed \subseteq strayed'
    BY <1>2 DEF Observe
  <2>5. 0 \notin DOMAIN filed /\ DOMAIN filed = 1..Len(filed) /\ Len(filed) \in Nat
    BY <2>1, LenProperties DEF Tables
  <2>6. ASSUME NEW i \in DOMAIN filed, filed'[i].kind = "tyfcb", i \notin strayed'  PROVE StandsWell(i)'
    <3>1. filed[i].kind = "tyfcb" /\ i \notin strayed
      BY <2>1, <2>4, <2>6 DEF Grows
    <3>2. CASE UNCHANGED tables
      BY <1>2, <2>1, <2>6, <3>1, <3>2, StandStays DEF tables
    <3>3. CASE /\ \E kind \in DOMAIN Status, m \in Member : filed' = Append(filed, NewItem(kind, m))
               /\ ledger' = ledger
      <4>1. filed'[i] = filed[i]
        <5>1. PICK kind \in DOMAIN Status, m \in Member : filed' = Append(filed, NewItem(kind, m))
          BY <3>3
        <5>2. NewItem(kind, m) \in Item /\ filed \in Seq(Item)
          BY <2>1, NewItemOK DEF Tables
        <5>3. QED  BY <2>5, <5>1, <5>2, AppendProperties
      <4>2. QED  BY <1>2, <2>1, <2>6, <3>1, <3>3, <4>1, StandStays
    <3>4. CASE /\ filed' = filed
               /\ ledger' = ledger \/ \E r \in Row : r.ref = 0 /\ ledger' = Append(ledger, r)
      <4>1. ledger' = ledger \/ \E r \in Row : r.ref # i /\ ledger' = Append(ledger, r)
        BY <2>5, <3>4
      <4>2. QED  BY <1>2, <2>1, <2>6, <3>1, <3>4, <4>1, StandStays
    <3>5. CASE Settle(h)
      <4>1. CASE i = req[h].item
        BY <2>1, <3>1, <3>5, <4>1, StandSettled
      <4>2. CASE i # req[h].item
        <5>1. filed'[i] = filed[i]
          BY <2>1, <3>5, <4>2, SettleEffect
        <5>2. ledger' = ledger \/ \E r \in Row : r.ref # i /\ ledger' = Append(ledger, r)
          BY <2>1, <3>5, <4>2, SettleEffect
        <5>3. QED  BY <1>2, <2>1, <2>6, <3>1, <5>1, <5>2, StandStays
      <4>3. QED  BY <4>1, <4>2
    <3>6. QED  BY <2>1, <2>2, <3>2, <3>3, <3>4, <3>5, WriteEffect
  <2>7. ASSUME NEW i \in DOMAIN filed' \ DOMAIN filed  PROVE StandsWell(i)'
    <3>1. ledger' = ledger /\ filed'[i].status # "verified"
      <4>1. ~ (filed' = filed) /\ ~ Settle(h)
        BY <2>1, <2>7, SettleEffect
      <4>2. PICK kind \in DOMAIN Status, m \in Member : filed' = Append(filed, NewItem(kind, m)) /\ ledger' = ledger
        BY <2>1, <2>2, <4>1, WriteEffect DEF tables
      <4>3. NewItem(kind, m) \in Item /\ filed \in Seq(Item)
        BY <2>1, NewItemOK DEF Tables
      <4>4. filed'[i] = NewItem(kind, m)
        BY <2>5, <2>7, <4>2, <4>3, AppendProperties, LenProperties
      <4>5. QED  BY <4>2, <4>4 DEF NewItem
    <3>2. { j \in DOMAIN ledger : ledger[j].ref = i } = {}
      <4>1. 0 \notin DOMAIN filed'
        BY <2>1, LenProperties DEF Tables
      <4>2. QED  BY <2>1, <2>7, <4>1 DEF Referred
    <3>3. SumBySource(i) = 0
      <4>1. { j \in {} : "overall" \in {"overall", ledger[j].category} } = {}
        OBVIOUS
      <4>2. QED  BY <3>2, <4>1, SumEmpty DEF SumBySource, Points
    <3>4. SumBySource(i)' = 0
      BY <3>1, <3>3, SumUnchanged
    <3>5. QED  BY <3>1, <3>2, <3>4 DEF StandsWell
  <2>8. ASSUME NEW k \in Handler, NEW i \in DOMAIN filed', filed'[i].kind = "tyfcb", i \notin strayed'
        PROVE  JudgedWell(req[k], i)'
    <3>1. CASE k # h /\ i \in DOMAIN filed
      <4>1. req'[k] = req[k]
        BY <1>2, <2>1, <3>1, Served DEF TypeOK
      <4>2. JudgedWell(req[k], i)
        BY <2>1, <2>4, <2>8, <3>1 DEF AllStand, Grows
      <4>3. QED  BY <1>2, <2>1, <2>8, <3>1, <4>1, <4>2, JudgedStays
    <3>2. CASE k # h /\ i \notin DOMAIN filed
      <4>1. req'[k] = req[k]
        BY <1>2, <2>1, <3>2, Served DEF TypeOK
      <4>2. QED  BY <2>1, <3>2, <4>1 DEF Placement, Placed, JudgedWell
    <3>3. CASE k = h
      <4>1. SUFFICES ASSUME req'[h].at = "settle", req'[h].item = i  PROVE req'[h].team = team'[filed'[i].by]
        BY <3>3 DEF JudgedWell
      <4>2. req' # [req EXCEPT ![h] = Idle]
        BY <2>1, <4>1 DEF TypeOK, Idle
      <4>3. UNCHANGED tables /\ (Opening(h) \/ GoingOn(h))
        BY <1>2, <4>2, Kinds
      <4>4. QED  BY <2>1, <4>1, <4>3, ModerationRead DEF tables
    <3>4. QED  BY <3>1, <3>2, <3>3
  <2>9. QED  BY <2>3, <2>6, <2>7, <2>8 DEF AllStand
<1>3. QED  BY <1>1, <1>2 DEF Next, Quiet

(* A transaction that no longer counts costs no team anything, and one     *)
(* that counts stands with one team only, unless its giver moved while it  *)
(* counted or was being moderated (usecase/tyfcb.go, SetStatus and Void).  *)
THEOREM TeamsKeep == Spec => []TeamsKeepWhatStands
<1>1. Init => Typed /\ AllStand
  BY TypedInit, StandInit
<1>2. Typed /\ AllStand /\ [Next]_vars => (Typed /\ AllStand)'
  BY TypedNext, StandNext
<1>3. Typed /\ AllStand => TeamsKeepWhatStands
  BY StandImplies DEF Typed
<1>4. QED  BY <1>1, <1>2, <1>3, PTL DEF Spec

(***************************************************************************)
(* A walk through the pages                                                *)
(***************************************************************************)

(* A row that keeps all those before it before it goes back in its list    *)
(* and never forward.                                                      *)
LEMMA GoesBack ==
  ASSUME NEW p \in Seq(Nat), \A i, j \in DOMAIN p : p[i] = p[j] => i = j,
         NEW q \in Seq(Nat), NEW i \in DOMAIN p, NEW k \in DOMAIN q,
         \A j \in 1..(i - 1) : p[j] \in ToSet(SubSeq(q, 1, k - 1))
  PROVE  i <= k
<1>1. /\ DOMAIN p = 1..Len(p) /\ Len(p) \in Nat /\ DOMAIN q = 1..Len(q) /\ Len(q) \in Nat
      /\ \A m \in DOMAIN q : q[m] \in Nat
  BY LenProperties, ElementOfSeq
<1>2. i \in Nat \ {0} /\ k \in Nat \ {0}
  BY <1>1
<1> DEFINE sub == SubSeq(q, 1, k - 1)
<1>3. sub \in Seq(Nat) /\ Len(sub) = k - 1 /\ \A m \in 1..(k - 1) : sub[m] = q[m]
  <2>1. \A m \in 1..(k - 1) : q[m] \in Nat /\ 1 + m - 1 = m
    BY <1>1
  <2>2. k - 1 \in Int /\ 1 \in Int /\ (k - 1) - 1 + 1 = k - 1
    BY <1>2
  <2>3. /\ sub \in Seq(Nat) /\ Len(sub) = IF 1 <= k - 1 THEN (k - 1) - 1 + 1 ELSE 0
        /\ \A m \in 1..((k - 1) - 1 + 1) : sub[m] = q[1 + m - 1]
    BY <2>1, <2>2, SubSeqProperties, SMTT(30)
  <2> HIDE DEF sub
  <2>4. Len(sub) = k - 1
    BY <1>2, <2>3
  <2>5. QED  BY <2>1, <2>2, <2>3, <2>4
<1>4. ToSet(sub) = { sub[m] : m \in 1..(k - 1) }
  BY <1>3, LenProperties DEF ToSet
<1> HIDE DEF sub
<1>5. \A j \in 1..(i - 1) : \E m \in 1..(k - 1) : q[m] = p[j]
  BY <1>3, <1>4, ZenonT(60) DEF sub
<1> DEFINE f == [j \in 1..(i - 1) |-> CHOOSE m \in 1..(k - 1) : q[m] = p[j]]
<1>6. \A j \in 1..(i - 1) : f[j] \in 1..(k - 1) /\ q[f[j]] = p[j]
  BY <1>5
<1>7. f \in Injection(1..(i - 1), 1..(k - 1))
  <2>1. f \in [1..(i - 1) -> 1..(k - 1)]
    BY <1>6
  <2>2. ASSUME NEW a \in 1..(i - 1), NEW b \in 1..(i - 1), f[a] = f[b]  PROVE a = b
    <3>1. a \in DOMAIN p /\ b \in DOMAIN p
      BY <1>1, <1>2
    <3> HIDE DEF f
    <3>2. p[a] = p[b]
      BY <1>6, <2>2
    <3>3. QED  BY <3>1, <3>2
  <2> HIDE DEF f
  <2>3. QED  BY <2>1, <2>2 DEF Injection, IsInjective
<1>8. /\ IsFiniteSet(1..(k - 1)) /\ Cardinality(1..(k - 1)) = k - 1
      /\ Cardinality(1..(i - 1)) = i - 1
  <2>1. i - 1 \in Nat /\ k - 1 \in Nat
    BY <1>2
  <2>2. \A n \in Nat : IsFiniteSet(1..n) /\ Cardinality(1..n) = n
    BY FS_Interval
  <2>3. QED  BY <2>1, <2>2
<1>9. i - 1 <= k - 1
  BY <1>7, <1>8, FS_Injection
<1>10. QED  BY <1>2, <1>9

(* How far a walk has read, and what of the list it began with it has      *)
(* shown: whatever lies behind that place.                                 *)
Reach(r) == IF r.at = "next" THEN r.offset + Normalise(r.asked) ELSE r.offset

Walking(r, w) == r.at \in {"rows", "next", "listed"} /\ w.steady /\ (r.byPage => r.asked <= MaxPage)

Covers(rows, r, w) ==
  Walking(r, w) =>
    /\ r.at = "listed" => ToSet(w.first) \subseteq r.got
    /\ r.at # "listed" =>
         \A x \in ToSet(w.first) : \E n \in DOMAIN rows : rows[n] = x /\ (n <= Reach(r) => x \in r.got)

AllCovered == \A h \in Handler : Covers(Listed(req[h].list), req[h], watch[h])

LEMMA ReachNat ==
  ASSUME NEW r \in Request
  PROVE  Reach(r) \in Nat
BY RequestLimits DEF Reach

LEMMA CoversKept ==
  ASSUME NEW p \in Seq(Nat), \A i, j \in DOMAIN p : p[i] = p[j] => i = j, NEW q \in Seq(Nat),
         NEW r \in Request, NEW w, Covers(p, r, w), r.at \in {"rows", "next"} => Keeps(p, q)
  PROVE  Covers(q, r, w)
<1> SUFFICES ASSUME Walking(r, w), r.at # "listed", NEW x \in ToSet(w.first)
             PROVE  \E n \in DOMAIN q : q[n] = x /\ (n <= Reach(r) => x \in r.got)
  BY DEF Covers
<1>1. PICK i \in DOMAIN p : p[i] = x /\ (i <= Reach(r) => x \in r.got)
  BY DEF Covers
<1>2. PICK k \in DOMAIN q : q[k] = p[i] /\ \A j \in 1..(i - 1) : p[j] \in ToSet(SubSeq(q, 1, k - 1))
  BY DEF Keeps, Walking
<1>3. i <= k
  BY <1>2, GoesBack
<1>4. i \in Nat /\ k \in Nat /\ Reach(r) \in Nat
  BY LenProperties, ReachNat
<1>5. k <= Reach(r) => x \in r.got
  BY <1>1, <1>3, <1>4
<1>6. QED  BY <1>1, <1>2, <1>5

(* Reading a page, when its count and its rows agree.                      *)
LEMMA CoversPage ==
  ASSUME Tables, TypeOK, NEW h \in Handler, PageRows(h), NEW w, Covers(Listed(req[h].list), req[h], w),
         Len(Listed(req[h].list)) = req[h].total
  PROVE  /\ req'[h] \in Request /\ req'[h].list = req[h].list
         /\ Covers(Listed(req[h].list), req'[h], w)
<1> DEFINE q == req[h]
           r == req'[h]
           L == Listed(q.list)
           limit == Normalise(q.asked)
           shown == Cut(L, q.offset, limit)
           size == IF q.offset >= Len(L) THEN 0
                   ELSE IF limit <= Len(L) - q.offset THEN limit ELSE Len(L) - q.offset
<1>1. q \in Request /\ q.at = "rows" /\ q.offset \in Nat /\ q.total \in Nat /\ q.got \subseteq Nat
  BY DEF TypeOK, PageRows, Request
<1>2. limit \in Nat
  BY <1>1, RequestLimits
<1>3. Len(L) \in Nat /\ DOMAIN L = 1..Len(L)
  BY ListedInOrder
<1>4. /\ shown = { L[k] : k \in (q.offset + 1)..(q.offset + size) }
      /\ shown \subseteq Nat /\ Cardinality(shown) = size /\ size \in Nat
  <2> DEFINE list == q.list
             offset == q.offset
  <2>1. offset \in Nat
    BY <1>1
  <2> HIDE DEF list, offset, limit
  <2>2. QED  BY <1>2, <2>1, ShownRows, ZenonT(60) DEF list, offset
<1> DEFINE at == IF HasMore(h) THEN "next" ELSE "listed"
           got == q.got \cup shown
<1>5. HasMore(h) <=> q.offset + size < Len(L)
  BY <1>4 DEF HasMore, Shown
<1>6. r = [q EXCEPT !.at = at, !.got = got]
  BY <1>1 DEF PageRows, Goes, TypeOK, Shown
<1>7. at \in {"next", "listed"} /\ got \subseteq Nat
  BY <1>1, <1>4
<1> HIDE DEF at, got, L, limit, shown, size, r
<1>8. /\ r.at = at /\ r.got = got /\ r.list = q.list /\ r.offset = q.offset
      /\ r.asked = q.asked /\ r.byPage = q.byPage
  BY <1>1, <1>6 DEF Request
<1>9. r \in Request
  BY <1>1, <1>6, <1>7 DEF Request
<1>10. ASSUME NEW x \in ToSet(w.first), Walking(r, w)
       PROVE  \E n \in DOMAIN L : L[n] = x /\ (n <= q.offset + size => x \in got)
  <2>1. Walking(q, w)
    BY <1>1, <1>8, <1>10 DEF Walking
  <2>2. PICK n \in DOMAIN L : L[n] = x /\ (n <= q.offset => x \in q.got)
    BY <1>1, <1>10, <2>1 DEF Covers, Reach, L
  <2>3. n \in (q.offset + 1)..(q.offset + size) => x \in shown
    BY <1>4, <2>2
  <2>4. n <= q.offset \/ n \in (q.offset + 1)..(q.offset + size) \/ ~(n <= q.offset + size)
    BY <1>1, <1>3, <1>4
  <2>5. QED  BY <2>2, <2>3, <2>4 DEF got
<1>11. \A n \in DOMAIN L : n <= q.offset + limit => n <= q.offset + size
  BY <1>1, <1>2, <1>3 DEF size
<1>12. CASE at = "next"
  <2>1. Reach(r) = q.offset + limit
    BY <1>8, <1>12 DEF Reach, limit
  <2>2. ASSUME Walking(r, w), NEW x \in ToSet(w.first)
        PROVE  \E n \in DOMAIN L : L[n] = x /\ (n <= Reach(r) => x \in r.got)
    BY <1>8, <1>10, <1>11, <2>1, <2>2
  <2>3. QED  BY <1>8, <1>9, <1>12, <2>2 DEF Covers, r, L
<1>13. CASE at = "listed"
  <2>1. \A n \in DOMAIN L : n <= q.offset + size
    BY <1>1, <1>3, <1>4, <1>5, <1>13 DEF at
  <2>2. Walking(r, w) => ToSet(w.first) \subseteq r.got
    BY <1>8, <1>10, <2>1
  <2>3. QED  BY <1>8, <1>9, <1>13, <2>2 DEF Covers, r, L
<1>14. QED  BY <1>7, <1>12, <1>13

(* Going to the next page, which starts where the last one ended.          *)
LEMMA CoversNext ==
  ASSUME Tables, TypeOK, NEW h \in Handler, NextPage(h), NEW w, Covers(Listed(req[h].list), req[h], w)
  PROVE  /\ req'[h] \in Request /\ req'[h].list = req[h].list
         /\ Covers(Listed(req[h].list), req'[h], w)
<1> DEFINE q == req[h]
           r == req'[h]
           offset == NextOffset(h)
           total == Len(Listed(q.list))
<1>1. q \in Request /\ q.at = "next" /\ q.offset \in Nat
  BY DEF TypeOK, NextPage, Request
<1>2. r = [q EXCEPT !.at = "rows", !.offset = offset, !.total = total]
  BY DEF NextPage, Goes, TypeOK
<1>3. q.asked \in Nat /\ Normalise(q.asked) \in Nat
  BY <1>1, RequestLimits
<1>4. offset \in Nat /\ total \in Nat
  BY <1>1, <1>3, ListedInOrder DEF NextOffset
<1>5. (q.byPage => q.asked <= MaxPage) => offset = Reach(q)
  BY <1>1, <1>3, LimitsOK DEF NextOffset, Reach, Normalise
<1> HIDE DEF offset, total, r
<1>6. /\ r.at = "rows" /\ r.got = q.got /\ r.list = q.list /\ r.offset = offset
      /\ r.asked = q.asked /\ r.byPage = q.byPage
  BY <1>1, <1>2 DEF Request
<1>7. r \in Request
  BY <1>1, <1>2, <1>4 DEF Request
<1>8. Covers(Listed(q.list), r, w)
  <2>1. SUFFICES ASSUME Walking(r, w)  PROVE Covers(Listed(q.list), r, w)
    BY DEF Covers
  <2>2. Walking(q, w)
    BY <1>1, <1>6, <2>1 DEF Walking
  <2>3. Reach(r) = Reach(q)
    BY <1>5, <1>6, <2>2 DEF Reach, Walking
  <2>4. QED  BY <1>1, <1>6, <2>2, <2>3 DEF Covers
<1>9. QED  BY <1>6, <1>7, <1>8 DEF r

(* Only the reads of a paged list are a walk, and it begins at its top.    *)
LEMMA OnlyWalks ==
  ASSUME TypeOK, NEW h \in Handler, Opening(h) \/ GoingOn(h), req'[h].at \in {"rows", "next", "listed"}
  PROVE  \/ Opening(h) /\ req'[h].at = "rows" /\ req'[h].offset = 0
         \/ PageRows(h) \/ NextPage(h)
<1>1. req[h] \in Request /\ req \in [Handler -> Request]
  BY DEF TypeOK
<1>2. CASE Opening(h)
  <2>1. CASE PageCount(h)
    BY <1>1, <1>2, <2>1 DEF PageCount, Opens, Idle
  <2>2. CASE CaptainRead(h)
    BY <1>1, <2>2 DEF CaptainRead, Begins, Idle
  <2>3. CASE ModerateRead(h)
    BY <1>1, <2>3 DEF ModerateRead, Begins, Idle
  <2>4. CASE Standings(h)
    BY <1>1, <2>4 DEF Standings, Opens, Idle
  <2>5. CASE LeaderboardReport(h)
    BY <1>1, <2>5 DEF LeaderboardReport, Opens, Idle
  <2>6. CASE DashboardMember(h)
    BY <1>1, <2>6 DEF DashboardMember, Opens, Idle
  <2>7. CASE CaptainProfile(h)
    BY <1>1, <2>7 DEF CaptainProfile, Opens, Idle
  <2>8. QED  BY <1>2, <2>1, <2>2, <2>3, <2>4, <2>5, <2>6, <2>7 DEF Opening
<1>3. CASE GoingOn(h)
  <2>1. CASE AssertSameTeam(h)
    BY <1>1, <2>1 DEF AssertSameTeam, Goes, Ends, Idle, Request
  <2>2. CASE IndividualStandings(h)
    BY <1>1, <2>2 DEF IndividualStandings, Goes, Request
  <2>3. CASE DashboardTeams(h)
    BY <1>1, <2>3 DEF DashboardTeams, Goes, Request
  <2>4. CASE CaptainRoster(h)
    BY <1>1, <2>4 DEF CaptainRoster, Goes, Request
  <2>5. CASE CaptainPending(h)
    BY <1>1, <2>5 DEF CaptainPending, Goes, Request
  <2>6. CASE CaptainGuests(h)
    BY <1>1, <2>6 DEF CaptainGuests, Goes, Request
  <2>7. QED  BY <1>3, <2>1, <2>2, <2>3, <2>4, <2>5, <2>6 DEF GoingOn
<1>4. QED  BY <1>2, <1>3

LEMMA CoverInit == Init => AllCovered
BY DEF Init, Idle, AllCovered, Covers, Walking

LEMMA CoverNext == Typed /\ AllCovered /\ [Next]_vars => AllCovered'
<1> SUFFICES ASSUME Typed, AllCovered, [Next]_vars  PROVE AllCovered'
  OBVIOUS
<1>1. Tables /\ TypeOK
  BY DEF Typed
<1>2. Tables'
  BY TypedNext DEF Typed
<1>3. \A h \in Handler : Listed(req[h].list) \in Seq(Nat)
  BY <1>1, ListedSeq
<1>4. (\A h \in Handler : Listed(req[h].list) \in Seq(Nat))'
  BY <1>2, ListedSeq, PTL
<1>5. CASE UNCHANGED vars
  <2>1. \A k \in Handler : Listed(req[k].list)' = Listed(req[k].list)
    <3>1. SUFFICES ASSUME NEW k \in Handler  PROVE Listed(req[k].list)' = Listed(req[k].list)
      OBVIOUS
    <3>2. QED  BY <1>5 DEF Listed, Rows, Precedes, Before, Matches, vars, tables
  <2>2. QED  BY <1>5, <2>1 DEF AllCovered, vars
<1>6. ASSUME NEW h \in Handler, Begin(h) \/ Step(h) \/ Fail(h), Observe, NEW k \in Handler
      PROVE  Covers(Listed(req[k].list)', req'[k], watch'[k])
  <2> DEFINE p == Listed(req[k].list)
             q == Listed(req[k].list)'
             r == req'[k]
             w == watch'[k]
  <2>1. SUFFICES ASSUME Walking(r, w)  PROVE Covers(q, r, w)
    BY DEF Covers
  <2>2. r.at \in {"rows", "next", "listed"} /\ w.steady /\ r.at # "idle"
    BY <2>1 DEF Walking
  <2>3. p \in Seq(Nat) /\ q \in Seq(Nat) /\ \A i, j \in DOMAIN p : p[i] = p[j] => i = j
    <3>1. \A i, j \in DOMAIN p : p[i] = p[j] => i = j
      BY <1>1, ListedInOrder DEF Bijection, Injection, IsInjective
    <3>2. QED  BY <1>3, <1>4, <3>1
  <2>4. r \in Request
    BY <1>1, <1>6, Served DEF TypeOK, Typed
  <2>5. CASE req[k].at = "idle"
    <3>1. w.first = IF r.at = "rows" THEN q ELSE << >>
      BY <1>1, <1>6, <2>2, <2>5, Watched
    <3>2. r.at = "rows" /\ r.offset = 0
      <4>1. k = h
        BY <1>1, <1>6, <2>2, <2>5, Served DEF TypeOK, Typed
      <4>2. r # Idle
        BY <2>2 DEF Idle
      <4>3. Opening(h)
        BY <1>1, <1>6, <2>5, <4>1, <4>2, Kinds DEF TypeOK
      <4>4. ~ PageRows(h) /\ ~ NextPage(h)
        BY <2>5, <4>1 DEF PageRows, NextPage
      <4>5. QED  BY <1>1, <2>2, <4>1, <4>3, <4>4, OnlyWalks
    <3>3. DOMAIN q = 1..Len(q) /\ Len(q) \in Nat /\ Reach(r) = 0
      BY <2>3, <3>2, LenProperties DEF Reach
    <3> HIDE DEF p, q, r, w
    <3>4. \A x \in ToSet(q) : \E n \in DOMAIN q : q[n] = x /\ ~ (n <= 0)
      BY <3>3 DEF ToSet
    <3>5. QED  BY <3>1, <3>2, <3>3, <3>4 DEF Covers
  <2>6. CASE req[k].at # "idle"
    <3>1. w.first = watch[k].first /\ w.steady = StaysSteady(k)
      BY <1>1, <1>6, <2>2, <2>6, Watched
    <3>2. watch[k].steady /\ (req[k].at \in {"rows", "next"} => Keeps(p, q))
      BY <2>2, <3>1 DEF StaysSteady
    <3>3. Covers(p, req[k], w)
      <4>1. Covers(p, req[k], watch[k])
        BY DEF AllCovered
      <4>2. QED  BY <2>2, <3>1, <3>2, <4>1 DEF Covers, Walking
    <3>4. CASE k # h \/ req'[h] = req[h]
      <4>1. r = req[k]
        BY <1>1, <1>6, <3>4, Served DEF TypeOK, Typed
      <4> HIDE DEF p, q, w, r
      <4>2. QED  BY <2>3, <2>4, <3>2, <3>3, <4>1, CoversKept
    <3>5. CASE k = h
      <4>1. r # Idle
        BY <2>2 DEF Idle
      <4>2. GoingOn(h)
        BY <1>1, <1>6, <2>6, <3>5, <4>1, Kinds DEF TypeOK
      <4>3. ~ Opening(h)
        BY <2>6, <3>5 DEF Opening, CaptainRead, ModerateRead, PageCount, Standings, LeaderboardReport,
             DashboardMember, CaptainProfile, Begins, Opens
      <4>4. PageRows(h) \/ NextPage(h)
        BY <1>1, <2>2, <3>5, <4>2, <4>3, OnlyWalks
      <4>5. Keeps(p, q)
        BY <3>2, <3>5, <4>4 DEF PageRows, NextPage
      <4>6. Covers(p, r, w)
        <5>1. CASE PageRows(h)
          <6>1. Len(p) = req[h].total
            <7>1. req[h].at = "rows" /\ req'[h].at # "rows"
              BY <1>1, <5>1 DEF PageRows, Goes, TypeOK, Request
            <7>2. QED  BY <2>2, <3>1, <3>5, <7>1 DEF StaysSteady
          <6>2. QED  BY <1>1, <3>3, <3>5, <5>1, <6>1, CoversPage
        <5>2. CASE NextPage(h)
          BY <1>1, <3>3, <3>5, <5>2, CoversNext
        <5>3. QED  BY <4>4, <5>1, <5>2
      <4> HIDE DEF p, q, w, r
      <4>7. QED  BY <2>3, <2>4, <4>5, <4>6, CoversKept
    <3>6. QED  BY <3>4, <3>5
  <2>7. QED  BY <2>5, <2>6
<1>7. QED  BY <1>5, <1>6 DEF Next, Quiet, AllCovered

(* Whoever pages through a list sees everything it held when the walk      *)
(* began, on a steady list and without page numbers above the largest page *)
(* (domain/page.go, the paged lists, pageFrom).                            *)
THEOREM PagesMissNothing == Spec => []PagingMissesNothing
<1>1. Init => Typed /\ AllCovered
  BY TypedInit, CoverInit
<1>2. Typed /\ AllCovered /\ [Next]_vars => (Typed /\ AllCovered)'
  BY TypedNext, CoverNext
<1>3. Typed /\ AllCovered => PagingMissesNothing
  BY DEF AllCovered, Covers, Walking, PagingMissesNothing
<1>4. QED  BY <1>1, <1>2, <1>3, PTL DEF Spec

=============================================================================
