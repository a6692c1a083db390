--------------------------- MODULE MatchingProofs ---------------------------
(***************************************************************************)
(* Proofs about the pairing of a round and the plan of the rounds.  A      *)
(* function the code computes by recursion is reasoned about through a     *)
(* minimal counterexample: the recursion runs down a well-founded order    *)
(* (fewer people free, fewer pairs open, fewer repeats), so a function     *)
(* that satisfies its equation exists (Recursion), and a property that     *)
(* fails somewhere fails first where the equation refutes it.  From there: *)
(* what the search, the greedy choice, the exchanges and the ladder        *)
(* return, what each action does to the rows, and the invariants of the    *)
(* plan.                                                                   *)
(***************************************************************************)
EXTENDS MatchPlan, TLAPS, FiniteSetTheorems, SequenceTheorems, WellFoundedInduction

-----------------------------------------------------------------------------
(* Recursion over a well-founded order, by minimal counterexample *)

\* The functions from S to V that satisfy the recursive equation D at x and
\* at everything below x.
Solves(g, x, S, R, V, D) ==
  /\ g \in [S -> V]
  /\ \A y \in S : y = x \/ <<y, x>> \in R => g[y] = D[y][g]

\* The recursive equation looks below its argument only.
Local(S, R, V, D) ==
  /\ D \in [S -> [[S -> V] -> V]]
  /\ \A x \in S : \A g, h \in [S -> V] :
       (\A y \in S : <<y, x>> \in R => g[y] = h[y]) => D[x][g] = D[x][h]

\* The relation R is transitive on S.
Transitive(S, R) ==
  \A x, y, z \in S : <<x, y>> \in R /\ <<y, z>> \in R => <<x, z>> \in R

\* Two solutions agree.
LEMMA SolutionsAgree ==
  ASSUME NEW S, NEW R, NEW V, NEW D, IsWellFoundedOn(R, S), Transitive(S, R), Local(S, R, V, D),
         NEW x \in S, NEW g, NEW h, Solves(g, x, S, R, V, D), Solves(h, x, S, R, V, D)
  PROVE  g[x] = h[x]
<1> DEFINE T == {y \in S : (y = x \/ <<y, x>> \in R) /\ g[y] # h[y]}
<1> SUFFICES ASSUME T # {} PROVE FALSE
  OBVIOUS
<1>1. PICK y \in T : \A z \in T : <<z, y>> \notin R
  BY WFMin
<1>2. \A z \in S : <<z, y>> \in R => g[z] = h[z]
  BY <1>1 DEF Transitive
<1>3. D[y][g] = D[y][h]
  BY <1>2 DEF Local, Solves
<1> QED BY <1>1, <1>3 DEF Solves

\* There is a solution below every argument.
LEMMA SolutionBelow ==
  ASSUME NEW S, NEW R, NEW V, NEW D, IsWellFoundedOn(R, S), Transitive(S, R), Local(S, R, V, D),
         NEW v \in V, NEW x \in S
  PROVE  \E g : Solves(g, x, S, R, V, D)
<1> DEFINE T == {y \in S : ~\E g : Solves(g, y, S, R, V, D)}
<1> SUFFICES ASSUME T # {} PROVE FALSE
  OBVIOUS
<1>1. PICK y \in T : \A z \in T : <<z, y>> \notin R
  BY WFMin
<1> DEFINE below(z) == CHOOSE g : Solves(g, z, S, R, V, D)
           f0 == [z \in S |-> IF <<z, y>> \in R THEN below(z)[z] ELSE v]
           f1 == [z \in S |-> IF z = y THEN D[y][f0] ELSE f0[z]]
<1>2. \A z \in S : <<z, y>> \in R => Solves(below(z), z, S, R, V, D)
  BY <1>1
<1>3. f0 \in [S -> V]
  BY <1>2 DEF Solves
<1>4. f1 \in [S -> V]
  BY <1>3, <1>1 DEF Local
<1>5. <<y, y>> \notin R
  BY <1>1
<1>6. D[y][f1] = D[y][f0]
  <2>1. \A z \in S : <<z, y>> \in R => f1[z] = f0[z]
    BY <1>5
  <2> HIDE DEF f0, f1
  <2> QED BY <2>1, <1>1, <1>3, <1>4 DEF Local
<1>7. ASSUME NEW z \in S, <<z, y>> \in R PROVE f1[z] = D[z][f1]
  <2>1. f1[z] = below(z)[z]
    BY <1>7, <1>5
  <2>2. Solves(below(z), z, S, R, V, D)
    BY <1>7, <1>2
  <2>3. ASSUME NEW w \in S, <<w, z>> \in R PROVE f1[w] = below(z)[w]
    <3>1. <<w, y>> \in R
      BY <1>1, <1>7, <2>3 DEF Transitive
    <3>2. Solves(below(w), w, S, R, V, D)
      BY <3>1, <1>2
    <3>3. Solves(below(z), w, S, R, V, D)
      <4> HIDE DEF below
      <4> QED BY <2>2, <2>3 DEF Solves, Transitive
    <3>4. below(w)[w] = below(z)[w]
      <4> HIDE DEF below
      <4> QED BY <3>2, <3>3, SolutionsAgree
    <3> QED BY <3>1, <3>4, <1>5
  <2> HIDE DEF f1, below
  <2>4. D[z][f1] = D[z][below(z)]
    BY <2>2, <2>3, <1>4 DEF Local, Solves
  <2> QED BY <2>1, <2>2, <2>4 DEF Solves
<1>8. f1[y] = D[y][f1]
  BY <1>6, <1>1
<1>9. Solves(f1, y, S, R, V, D)
  <2> HIDE DEF f1
  <2> QED BY <1>4, <1>7, <1>8 DEF Solves
<1> QED BY <1>9, <1>1

\* A recursive equation over a well-founded order has a solution.
LEMMA Recursion ==
  ASSUME NEW S, NEW R, NEW V, NEW D, IsWellFoundedOn(R, S), Transitive(S, R), Local(S, R, V, D),
         NEW v \in V
  PROVE  \E f \in [S -> V] : \A x \in S : f[x] = D[x][f]
<1> DEFINE at(x) == CHOOSE g : Solves(g, x, S, R, V, D)
           f == [x \in S |-> at(x)[x]]
<1>1. \A x \in S : Solves(at(x), x, S, R, V, D)
  BY SolutionBelow
<1>2. f \in [S -> V]
  BY <1>1 DEF Solves
<1>3. ASSUME NEW x \in S PROVE f[x] = D[x][f]
  <2>1. ASSUME NEW y \in S, <<y, x>> \in R PROVE f[y] = at(x)[y]
    <3>1. Solves(at(x), y, S, R, V, D)
      <4> HIDE DEF at
      <4> QED BY <1>1, <2>1 DEF Solves, Transitive
    <3>2. Solves(at(y), y, S, R, V, D)
      BY <1>1
    <3>3. at(y)[y] = at(x)[y]
      <4> HIDE DEF at
      <4> QED BY <3>1, <3>2, SolutionsAgree
    <3> QED BY <3>3
  <2>2. f[x] = at(x)[x]
    OBVIOUS
  <2> HIDE DEF f, at
  <2>3. D[x][f] = D[x][at(x)]
    BY <1>1, <1>2, <2>1 DEF Local, Solves
  <2> QED BY <1>1, <2>2, <2>3 DEF Solves
<1> QED BY <1>2, <1>3

-----------------------------------------------------------------------------
(* Pairs, and the order of the subsets of a finite set *)

\* A pair is two people; it is finite and not empty.
LEMMA PairIsTwo ==
  ASSUME NEW p \in Pairs
  PROVE  /\ p \subseteq Participants /\ IsFiniteSet(p) /\ Cardinality(p) = 2
         /\ \E a, b \in Participants : a # b /\ p = {a, b}
<1>1. p \subseteq Participants /\ IsFiniteSet(p) /\ Cardinality(p) = 2
  BY EngineAssumption, FS_Subset DEF Pairs, kSubset
<1>2. PICK a \in p : TRUE
  BY <1>1, FS_EmptySet
<1>3. IsFiniteSet(p \ {a}) /\ Cardinality(p \ {a}) = 1
  BY <1>1, <1>2, FS_RemoveElement
<1>4. PICK b : p \ {a} = {b}
  BY <1>3, FS_Singleton
<1> QED BY <1>1, <1>2, <1>4

\* Two people are a pair.
LEMMA TwoIsPair ==
  ASSUME NEW a \in Participants, NEW b \in Participants, a # b
  PROVE  {a, b} \in Pairs
<1>1. IsFiniteSet({b}) /\ Cardinality({b}) = 1
  BY FS_Singleton
<1>2. Cardinality({b} \cup {a}) = 2
  BY <1>1, FS_AddElement
<1>3. {b} \cup {a} = {a, b}
  OBVIOUS
<1> QED BY <1>2, <1>3 DEF Pairs, kSubset

\* There are finitely many pairs.
LEMMA PairsFinite == IsFiniteSet(Pairs)
<1>1. IsFiniteSet(SUBSET Participants)
  BY EngineAssumption, FS_SUBSET
<1>2. Pairs \in SUBSET SUBSET Participants
  BY DEF Pairs, kSubset
<1> QED BY <1>1, <1>2, FS_Subset

\* And finitely many rooms.
LEMMA RoomFinite == IsFiniteSet(Room)
<1> DEFINE thirds == {{}} \cup {{p} : p \in Participants}
           f == [r \in Room |-> <<r.pair, r.third>>]
<1>1. IsFiniteSet(SUBSET Participants)
  BY EngineAssumption, FS_SUBSET
<1>2. thirds \in SUBSET SUBSET Participants
  OBVIOUS
<1>3. IsFiniteSet(thirds)
  BY <1>1, <1>2, FS_Subset
<1>4. IsFiniteSet(Pairs \X thirds)
  BY <1>3, PairsFinite, FS_Product
<1>5. f \in Injection(Room, Pairs \X thirds)
  <2>1. f \in [Room -> Pairs \X thirds]
    BY DEF Room
  <2>2. \A r, s \in Room : f[r] = f[s] => r = s
    BY DEF Room
  <2> HIDE DEF f, thirds
  <2> QED BY <2>1, <2>2 DEF Injection, IsInjective
<1> QED BY <1>4, <1>5, FS_Injection

\* The strict subsets of a finite set are ordered well, and transitively.
LEMMA SubsetsWellFounded ==
  ASSUME NEW S, IsFiniteSet(S)
  PROVE  /\ IsWellFoundedOn(StrictSubsetOrdering(S), SUBSET S)
         /\ Transitive(SUBSET S, StrictSubsetOrdering(S))
<1>1. FiniteSubsetsOf(S) = SUBSET S
  BY FS_FiniteSubsetsOfFinite
<1>2. IsWellFoundedOn(StrictSubsetOrdering(S), SUBSET S)
  BY <1>1, FS_StrictSubsetOrderingWellFounded
<1> QED BY <1>2 DEF Transitive, StrictSubsetOrdering

\* A minimal member of a non-empty set of subsets.
LEMMA MinimalSubset ==
  ASSUME NEW S, IsFiniteSet(S), NEW T \in SUBSET SUBSET S, T # {}
  PROVE  \E A \in T : \A B \in T : B \subseteq A => B = A
<1>1. PICK A \in T : \A B \in T : <<B, A>> \notin StrictSubsetOrdering(S)
  BY SubsetsWellFounded, WFMin
<1> QED BY <1>1 DEF StrictSubsetOrdering

\* The natural numbers are ordered well.
Less == {t \in Nat \X Nat : t[1] < t[2]}

\* There is no endless descent in the natural numbers.
LEMMA LessWellFounded == IsWellFoundedOn(Less, Nat)
<1>1. Less = OpToRel(<, Nat)
  BY DEF Less, OpToRel
<1> QED BY <1>1, NatLessThanWellFounded

\* A non-empty set of natural numbers has a least one.
LEMMA LeastNatural ==
  ASSUME NEW T \in SUBSET Nat, T # {}
  PROVE  \E n \in T : \A m \in T : n <= m
<1>1. PICK n \in T : \A m \in T : <<m, n>> \notin Less
  BY LessWellFounded, WFMin
<1>2. \A m \in T : ~(m < n)
  BY <1>1 DEF Less
<1> QED BY <1>2

\* Who comes first is one of those still free.
LEMMA FirstIsFree ==
  ASSUME NEW free \in SUBSET Participants, free # {}, NEW met
  PROVE  FirstOf(free, met) # {} /\ FirstOf(free, met) \subseteq free
<1>1. \E n \in free : \A m \in free : n =< m
  BY LeastNatural, EngineAssumption
<1> QED BY <1>1 DEF FirstOf, Min

\* The freshest of some pairs are some of them.
LEMMA FreshestOfSome ==
  ASSUME NEW S, NEW met
  PROVE  Freshest(S, met) \subseteq S /\ (S # {} => Freshest(S, met) # {})
BY DEF Freshest

-----------------------------------------------------------------------------
(* Matchings *)

\* A pair that shares nobody with the others is two people more.
LEMMA TwoMore ==
  ASSUME NEW U, NEW p, IsFiniteSet(U), IsFiniteSet(p), Cardinality(p) = 2, U \cap p = {}
  PROVE  Cardinality(U \cup p) = Cardinality(U) + 2
<1>1. Cardinality(U \cup p) = Cardinality(U) + Cardinality(p) - Cardinality(U \cap p)
  BY FS_Union
<1>2. Cardinality(U \cap p) = 0 /\ Cardinality(U) \in Nat
  BY FS_EmptySet, FS_CardinalityType
<1> QED BY <1>1, <1>2

\* Twice as many people are placed as there are pairs.
LEMMA MatchingSize ==
  ASSUME NEW M \in SUBSET Pairs, IsMatching(M)
  PROVE  /\ IsFiniteSet(M) /\ IsFiniteSet(UNION M) /\ UNION M \subseteq Participants
         /\ Cardinality(UNION M) = 2 * Cardinality(M)
<1>1. \A N \in SUBSET Pairs : IsFiniteSet(N) /\ IsFiniteSet(UNION N) /\ UNION N \subseteq Participants
  <2> TAKE N \in SUBSET Pairs
  <2>1. IsFiniteSet(N)
    BY PairsFinite, FS_Subset
  <2>2. UNION N \subseteq Participants
    BY PairIsTwo
  <2> QED BY <2>1, <2>2, EngineAssumption, FS_Subset
<1> DEFINE T == {N \in SUBSET Pairs : IsMatching(N) /\ Cardinality(UNION N) # 2 * Cardinality(N)}
<1> SUFFICES ASSUME T # {} PROVE FALSE
  BY <1>1
<1>2. PICK N \in T : \A B \in T : B \subseteq N => B = N
  <2>1. T \in SUBSET SUBSET Pairs
    OBVIOUS
  <2> HIDE DEF T
  <2> QED BY <2>1, PairsFinite, MinimalSubset
<1>3. N # {}
  <2> SUFFICES ASSUME N = {} PROVE FALSE
    OBVIOUS
  <2>1. Cardinality(N) = 0 /\ Cardinality({}) = 0
    BY FS_EmptySet
  <2>2. UNION N = {}
    OBVIOUS
  <2>3. Cardinality(UNION N) = 0
    BY <2>1, <2>2
  <2> QED BY <1>2, <2>1, <2>3
<1>4. PICK p \in N : TRUE
  BY <1>3
<1>5. IsMatching(N \ {p}) /\ N \ {p} \in SUBSET Pairs
  BY <1>2 DEF IsMatching
<1>6. Cardinality(UNION (N \ {p})) = 2 * Cardinality(N \ {p})
  BY <1>2, <1>4, <1>5
<1>7. Cardinality(N \ {p}) = Cardinality(N) - 1 /\ Cardinality(N) \in Nat
  BY <1>1, <1>2, <1>4, FS_RemoveElement, FS_CardinalityType
<1>8. /\ UNION N = (UNION (N \ {p})) \cup p
      /\ (UNION (N \ {p})) \cap p = {}
  BY <1>2, <1>4 DEF IsMatching
<1>9. Cardinality(UNION N) = Cardinality(UNION (N \ {p})) + 2
  <2>1. IsFiniteSet(p) /\ Cardinality(p) = 2
    BY <1>2, <1>4, PairIsTwo
  <2>2. IsFiniteSet(UNION (N \ {p}))
    BY <1>1, <1>5
  <2>3. Cardinality(UNION (N \ {p})) \in Nat
    BY <2>2, FS_CardinalityType
  <2>4. Cardinality((UNION (N \ {p})) \cup p) = Cardinality(UNION (N \ {p})) + 2
    BY <2>1, <2>2, <1>8, TwoMore
  <2> QED BY <2>4, <1>8, Zenon
<1> QED BY <1>2, <1>6, <1>7, <1>9

\* Of a perfect matching the pair of somebody can be taken out.
LEMMA PerfectLess ==
  ASSUME NEW S \in SUBSET Participants, NEW M \in PerfectMatchings(S), NEW p \in M
  PROVE  M \ {p} \in PerfectMatchings(S \ p) /\ p \subseteq S
BY DEF PerfectMatchings, IsMatching

\* And put back.
LEMMA PerfectMore ==
  ASSUME NEW S \in SUBSET Participants, NEW p \in Pairs, p \subseteq S,
         NEW M \in PerfectMatchings(S \ p)
  PROVE  M \cup {p} \in PerfectMatchings(S)
BY DEF PerfectMatchings, IsMatching

\* Of nobody the perfect matching is the empty one.
LEMMA PerfectNobody == PerfectMatchings({}) = {{}}
<1>1. \A p \in Pairs : p # {}
  BY PairIsTwo
<1>2. \A M \in PerfectMatchings({}) : M = {}
  BY <1>1 DEF PerfectMatchings
<1>3. {} \in PerfectMatchings({})
  BY UNION {} = {} DEF PerfectMatchings, IsMatching
<1> QED BY <1>2, <1>3

-----------------------------------------------------------------------------
(* findCompleteMatching *)

\* The search looks only at fewer people than it is asked about.
LEMMA SearchLocal ==
  ASSUME NEW cand \in SUBSET Pairs, NEW met, NEW free \in SUBSET Participants,
         NEW g, NEW h, \A S \in SUBSET Participants : <<S, free>> \in StrictSubsetOrdering(Participants) => g[S] = h[S]
  PROVE  Search(g, free, cand, met) = Search(h, free, cand, met)
<1>1. ASSUME NEW p \in cand, p \subseteq free PROVE With(g, free, p) = With(h, free, p)
  <2>1. p # {}
    BY PairIsTwo
  <2>2. <<free \ p, free>> \in StrictSubsetOrdering(Participants)
    BY <1>1, <2>1 DEF StrictSubsetOrdering
  <2> QED BY <2>2 DEF With
<1>2. ASSUME NEW first PROVE Partners(g, free, cand, first) = Partners(h, free, cand, first)
  BY <1>1 DEF Partners
<1>3. ASSUME NEW first
      PROVE  {With(g, free, p) : p \in Freshest(Partners(g, free, cand, first), met)}
               = {With(h, free, p) : p \in Freshest(Partners(h, free, cand, first), met)}
  <2>1. Freshest(Partners(h, free, cand, first), met) \subseteq Partners(h, free, cand, first)
    BY FreshestOfSome
  <2>2. \A p \in Partners(h, free, cand, first) : p \in cand /\ p \subseteq free
    BY DEF Partners
  <2> QED BY <1>1, <1>2, <2>1, <2>2
<1> QED BY <1>3, Zenon DEF Search

\* What it returns for some people is made of pairs.
LEMMA SearchType ==
  ASSUME NEW cand \in SUBSET Pairs, NEW met, NEW free \in SUBSET Participants,
         NEW g \in [SUBSET Participants -> SUBSET SUBSET Pairs]
  PROVE  Search(g, free, cand, met) \in SUBSET SUBSET Pairs
<1>1. \A p \in cand : With(g, free, p) \in SUBSET SUBSET Pairs
  BY DEF With
<1>2. \A x : Freshest(Partners(g, free, cand, x), met) \subseteq cand
  BY FreshestOfSome DEF Partners
<1> QED BY <1>1, <1>2 DEF Search

\* So the recursion that defines it has a solution.
LEMMA CompleteEquation ==
  ASSUME NEW cand \in SUBSET Pairs, NEW met
  PROVE  \A free \in SUBSET Participants :
           CompleteMatchings(cand, met)[free] = Search(CompleteMatchings(cand, met), free, cand, met)
<1> DEFINE S == SUBSET Participants
           V == SUBSET SUBSET Pairs
           D == [free \in S |-> [g \in [S -> V] |-> Search(g, free, cand, met)]]
           R == StrictSubsetOrdering(Participants)
<1>1. Local(S, R, V, D)
  <2>1. D \in [S -> [[S -> V] -> V]]
    BY SearchType
  <2>2. ASSUME NEW x \in S, NEW g \in [S -> V], NEW h \in [S -> V],
               \A y \in S : <<y, x>> \in R => g[y] = h[y]
        PROVE  D[x][g] = D[x][h]
    BY <2>2, SearchLocal
  <2> HIDE DEF D, V, R, S
  <2> QED BY <2>1, <2>2 DEF Local
<1>2. IsWellFoundedOn(R, S) /\ Transitive(S, R)
  BY SubsetsWellFounded, EngineAssumption
<1>3. {} \in V
  OBVIOUS
<1>4. PICK f \in [S -> V] : \A x \in S : f[x] = D[x][f]
  <2> HIDE DEF D, V, R, S
  <2> QED BY <1>1, <1>2, <1>3, Recursion
<1>5. f = [free \in S |-> Search(f, free, cand, met)]
  BY <1>4
<1>6. \E g : g = [free \in SUBSET Participants |-> Search(g, free, cand, met)]
  BY <1>5
<1>7. CompleteMatchings(cand, met)
        = [free \in SUBSET Participants |-> Search(CompleteMatchings(cand, met), free, cand, met)]
  BY <1>6, Zenon DEF CompleteMatchings
<1> QED BY <1>7, Zenon

\* What it returns are complete matchings of the candidates.
LEMMA CompleteIsPerfect ==
  ASSUME NEW cand \in SUBSET Pairs, NEW met, NEW people \in SUBSET Participants,
         NEW M \in CompleteMatchings(cand, met)[people]
  PROVE  M \subseteq cand /\ M \in PerfectMatchings(people)
<1> DEFINE found == CompleteMatchings(cand, met)
           Good(free) == \A N \in found[free] : N \subseteq cand /\ N \in PerfectMatchings(free)
           T == {free \in SUBSET Participants : ~Good(free)}
<1> SUFFICES ASSUME T # {} PROVE FALSE
  OBVIOUS
<1>1. PICK free \in T : \A B \in T : B \subseteq free => B = free
  <2>1. T \in SUBSET SUBSET Participants
    OBVIOUS
  <2>2. IsFiniteSet(Participants)
    BY EngineAssumption
  <2> HIDE DEF T
  <2> QED BY <2>1, <2>2, MinimalSubset
<1>2. PICK N \in found[free] : ~(N \subseteq cand /\ N \in PerfectMatchings(free))
  BY <1>1
<1> HIDE DEF found
<1>3. found[free] = Search(found, free, cand, met)
  BY <1>1, CompleteEquation DEF found
<1>4. free # {}
  <2> SUFFICES ASSUME free = {} PROVE FALSE
    OBVIOUS
  <2>1. N = {}
    BY <1>2, <1>3 DEF Search
  <2> QED BY <1>2, <2>1, PerfectNobody
<1>5. \E first \in FirstOf(free, met) : \E p \in Freshest(Partners(found, free, cand, first), met) :
        N \in With(found, free, p)
  BY <1>2, <1>3, <1>4 DEF Search
<1>6. PICK p \in cand : p \subseteq free /\ p # {} /\ N \in With(found, free, p)
  BY <1>5, FreshestOfSome DEF Partners
<1>7. PICK L \in found[free \ p] : N = L \cup {p}
  BY <1>6 DEF With
<1>8. L \subseteq cand /\ L \in PerfectMatchings(free \ p)
  <2>1. free \ p \in SUBSET Participants /\ free \ p # free /\ free \ p \subseteq free
    BY <1>1, <1>6
  <2>2. free \ p \notin T
    BY <1>1, <2>1
  <2> QED BY <2>1, <2>2, <1>7
<1> QED BY <1>1, <1>2, <1>6, <1>7, <1>8, PerfectMore

\* And if the candidates hold a complete matching it finds one.
LEMMA CompleteFound ==
  ASSUME NEW cand \in SUBSET Pairs, NEW met, NEW people \in SUBSET Participants,
         NEW M \in PerfectMatchings(people), M \subseteq cand
  PROVE  CompleteMatchings(cand, met)[people] # {}
<1> DEFINE found == CompleteMatchings(cand, met)
           T == {free \in SUBSET Participants :
                   found[free] = {} /\ \E N \in PerfectMatchings(free) : N \subseteq cand}
<1> SUFFICES ASSUME T # {} PROVE FALSE
  OBVIOUS
<1>1. PICK free \in T : \A B \in T : B \subseteq free => B = free
  <2>1. T \in SUBSET SUBSET Participants
    OBVIOUS
  <2>2. IsFiniteSet(Participants)
    BY EngineAssumption
  <2> HIDE DEF T
  <2> QED BY <2>1, <2>2, MinimalSubset
<1>2. PICK N \in PerfectMatchings(free) : N \subseteq cand
  BY <1>1
<1>3. found[free] = {}
  BY <1>1
<1> HIDE DEF found
<1>4. found[free] = Search(found, free, cand, met)
  BY <1>1, CompleteEquation DEF found
<1>5. free # {}
  BY <1>3, <1>4 DEF Search
<1>6. PICK first \in FirstOf(free, met) : first \in free
  BY <1>1, <1>5, FirstIsFree
<1>7. PICK p \in N : first \in p
  BY <1>2, <1>6 DEF PerfectMatchings
<1>8. p \in cand /\ p \subseteq free /\ N \ {p} \in PerfectMatchings(free \ p)
  BY <1>1, <1>2, <1>7, PerfectLess
<1>9. found[free \ p] # {}
  <2>1. free \ p \in SUBSET Participants /\ free \ p # free /\ free \ p \subseteq free
    BY <1>1, <1>6, <1>7
  <2>2. N \ {p} \subseteq cand
    BY <1>2
  <2>3. free \ p \notin T
    BY <1>1, <2>1
  <2> QED BY <2>1, <2>2, <2>3, <1>8
<1>10. p \in Partners(found, free, cand, first)
  <2>1. With(found, free, p) # {}
    BY <1>9 DEF With
  <2> QED BY <2>1, <1>7, <1>8 DEF Partners
<1>11. PICK q \in Freshest(Partners(found, free, cand, first), met) : With(found, free, q) # {}
  <2>1. PICK q \in Freshest(Partners(found, free, cand, first), met) : TRUE
    BY <1>10, FreshestOfSome
  <2>2. q \in Partners(found, free, cand, first)
    BY <2>1, FreshestOfSome
  <2> QED BY <2>1, <2>2 DEF Partners
<1>12. Search(found, free, cand, met) # {}
  BY <1>5, <1>6, <1>11 DEF Search
<1> QED BY <1>3, <1>4, <1>12

-----------------------------------------------------------------------------
(* The greedy pairing *)

\* A pair that is taken is no longer open.
LEMMA TakenCloses ==
  ASSUME NEW open \in SUBSET Pairs, NEW p \in open
  PROVE  <<Rest(open, p), open>> \in StrictSubsetOrdering(Pairs)
<1>1. p # {}
  BY PairIsTwo
<1>2. p \notin Rest(open, p) /\ Rest(open, p) \subseteq open
  BY <1>1 DEF Rest
<1> QED BY <1>2 DEF StrictSubsetOrdering

\* What is taken of some pairs depends on what is taken of fewer.
LEMMA TakeLocal ==
  ASSUME NEW open \in SUBSET Pairs, NEW met, NEW g, NEW h,
         \A S \in SUBSET Pairs : <<S, open>> \in StrictSubsetOrdering(Pairs) => g[S] = h[S]
  PROVE  Take(g, open, met) = Take(h, open, met)
<1>1. ASSUME NEW p \in open PROVE Taking(g, open, p) = Taking(h, open, p)
  <2>1. Rest(open, p) \in SUBSET Pairs
    BY DEF Rest
  <2>2. g[Rest(open, p)] = h[Rest(open, p)]
    BY <2>1, TakenCloses
  <2> QED BY <2>2 DEF Taking
<1>2. \A p \in Freshest(open, met) : p \in open
  BY FreshestOfSome
<1>3. {Taking(g, open, p) : p \in Freshest(open, met)} = {Taking(h, open, p) : p \in Freshest(open, met)}
  BY <1>1, <1>2
<1> QED BY <1>3, Zenon DEF Take

\* What is taken are sets of sets of pairs.
LEMMA TakeType ==
  ASSUME NEW open \in SUBSET Pairs, NEW met, NEW g \in [SUBSET Pairs -> SUBSET SUBSET Pairs]
  PROVE  Take(g, open, met) \in SUBSET SUBSET Pairs
<1>1. ASSUME NEW p \in Freshest(open, met) PROVE Taking(g, open, p) \in SUBSET SUBSET Pairs
  <2>1. p \in open
    BY FreshestOfSome
  <2>2. Rest(open, p) \in SUBSET Pairs
    BY DEF Rest
  <2> QED BY <2>1, <2>2 DEF Taking
<1> QED BY <1>1 DEF Take

\* So the greedy matchings satisfy the equation that defines them.
LEMMA GreedyEquation ==
  ASSUME NEW met
  PROVE  \A open \in SUBSET Pairs : GreedyMatchings(met)[open] = Take(GreedyMatchings(met), open, met)
<1> DEFINE S == SUBSET Pairs
           V == SUBSET SUBSET Pairs
           D == [open \in S |-> [g \in [S -> V] |-> Take(g, open, met)]]
           R == StrictSubsetOrdering(Pairs)
<1>1. Local(S, R, V, D)
  <2>1. D \in [S -> [[S -> V] -> V]]
    BY TakeType
  <2>2. ASSUME NEW x \in S, NEW g \in [S -> V], NEW h \in [S -> V],
               \A y \in S : <<y, x>> \in R => g[y] = h[y]
        PROVE  D[x][g] = D[x][h]
    BY <2>2, TakeLocal
  <2> HIDE DEF D, V, R, S
  <2> QED BY <2>1, <2>2 DEF Local
<1>2. IsWellFoundedOn(R, S) /\ Transitive(S, R)
  BY SubsetsWellFounded, PairsFinite
<1>3. {} \in V
  OBVIOUS
<1>4. PICK f \in [S -> V] : \A x \in S : f[x] = D[x][f]
  <2> HIDE DEF D, V, R, S
  <2> QED BY <1>1, <1>2, <1>3, Recursion
<1>5. f = [open \in S |-> Take(f, open, met)]
  BY <1>4
<1>6. \E g : g = [open \in SUBSET Pairs |-> Take(g, open, met)]
  BY <1>5
<1>7. GreedyMatchings(met) = [open \in SUBSET Pairs |-> Take(GreedyMatchings(met), open, met)]
  BY <1>6, Zenon DEF GreedyMatchings
<1> QED BY <1>7, Zenon

\* What is taken greedily are candidates that share nobody.
LEMMA GreedyIsMatching ==
  ASSUME NEW cand \in SUBSET Pairs, NEW met, NEW M \in GreedyMatchings(met)[cand]
  PROVE  M \subseteq cand /\ IsMatching(M)
<1> DEFINE taken == GreedyMatchings(met)
           T == {open \in SUBSET Pairs : ~\A N \in taken[open] : N \subseteq open /\ IsMatching(N)}
<1> SUFFICES ASSUME T # {} PROVE FALSE
  OBVIOUS
<1>1. PICK open \in T : \A B \in T : B \subseteq open => B = open
  <2>1. T \in SUBSET SUBSET Pairs
    OBVIOUS
  <2> HIDE DEF T
  <2> QED BY <2>1, PairsFinite, MinimalSubset
<1>2. PICK N \in taken[open] : ~(N \subseteq open /\ IsMatching(N))
  BY <1>1
<1> HIDE DEF taken
<1>3. taken[open] = Take(taken, open, met)
  BY <1>1, GreedyEquation DEF taken
<1>4. open # {}
  <2> SUFFICES ASSUME open = {} PROVE FALSE
    OBVIOUS
  <2>1. N = {}
    BY <1>2, <1>3 DEF Take
  <2> QED BY <1>2, <2>1 DEF IsMatching
<1>5. PICK p \in Freshest(open, met) : N \in Taking(taken, open, p)
  BY <1>2, <1>3, <1>4 DEF Take
<1>6. p \in open
  BY FreshestOfSome
<1>7. PICK L \in taken[Rest(open, p)] : N = L \cup {p}
  BY <1>5 DEF Taking
<1>8. L \subseteq Rest(open, p) /\ IsMatching(L)
  <2>1. Rest(open, p) \in SUBSET Pairs /\ Rest(open, p) \subseteq open /\ Rest(open, p) # open
    BY <1>1, <1>6, TakenCloses DEF StrictSubsetOrdering
  <2>2. Rest(open, p) \notin T
    BY <1>1, <2>1
  <2> QED BY <2>1, <2>2, <1>7
<1>9. N \subseteq open /\ IsMatching(N)
  BY <1>6, <1>7, <1>8 DEF IsMatching, Rest
<1> QED BY <1>2, <1>9

\* Of no candidates nothing is taken.
LEMMA GreedyNothing ==
  ASSUME NEW met
  PROVE  GreedyMatchings(met)[{}] = {{}}
<1>1. GreedyMatchings(met)[{}] = Take(GreedyMatchings(met), {}, met)
  BY GreedyEquation
<1> QED BY <1>1 DEF Take

-----------------------------------------------------------------------------
(* What the engine returns *)

\* A room for a pair.
LEMMA PairRoomIs ==
  ASSUME NEW p \in Pairs
  PROVE  /\ PairRoom(p) \in Room /\ PairRoom(p).pair = p /\ PairRoom(p).third = {}
         /\ Members(PairRoom(p)) = p
BY DEF PairRoom, Room, Members

\* Whoever has a room is a participant.
LEMMA MembersAre ==
  ASSUME NEW r \in Room
  PROVE  r.pair \in Pairs /\ r.pair \subseteq Members(r) /\ Members(r) \subseteq Participants
BY PairIsTwo DEF Room, Members

\* The rooms of a round keep people apart, and hold some of those who are there.
Sound(R, people) == R \in SUBSET Room /\ Apart(R) /\ Placed(R) \subseteq people

\* No room of the round is a trio.
NoTrio(R) == \A r \in R : r.third = {}

\* A matching becomes a round of one room for each pair, in which only a
\* single person left over makes a trio.
LEMMA LeftoverSound ==
  ASSUME NEW people \in SUBSET Participants, NEW M \in SUBSET Pairs, IsMatching(M),
         UNION M \subseteq people, NEW R \in WithLeftover(M, people \ UNION M)
  PROVE  /\ Sound(R, people)
         /\ \A r \in R : r.pair \in M
         /\ Cardinality(people \ UNION M) # 1 => NoTrio(R) /\ Placed(R) = UNION M
<1> DEFINE left == people \ UNION M
<1>1. CASE Cardinality(left) = 1 /\ M # {}
  <2>1. IsFiniteSet(left)
    BY EngineAssumption, FS_Subset
  <2>2. PICK x : left = {x}
    BY <1>1, <2>1, FS_Singleton
  <2> HIDE DEF left
  <2>3. PICK q \in M : R = {PairRoom(p) : p \in M \ {q}} \cup {[pair |-> q, third |-> left]}
    BY <1>1 DEF WithLeftover, left
  <2> DEFINE trio == [pair |-> q, third |-> left]
  <2>4. x \in people /\ x \notin UNION M
    BY <2>2 DEF left
  <2>5. trio \in Room /\ trio.pair = q /\ Members(trio) = q \cup {x}
    BY <2>2, <2>4 DEF Room, Members
  <2> HIDE DEF trio
  <2>6. \A r \in R : (\E p \in M \ {q} : r = PairRoom(p)) \/ r = trio
    BY <2>3 DEF trio
  <2>7. \A r \in R : /\ r \in Room /\ r.pair \in M
                     /\ Members(r) = IF r.pair = q THEN q \cup {x} ELSE r.pair
    BY <2>5, <2>6, PairRoomIs
  <2>8. \A r, s \in R : r.pair = s.pair => r = s
    BY <2>5, <2>6, PairRoomIs
  <2>9. Apart(R)
    <3> SUFFICES ASSUME NEW r \in R, NEW s \in R, r # s PROVE Members(r) \cap Members(s) = {}
      BY DEF Apart
    <3>1. r.pair # s.pair /\ r.pair \in M /\ s.pair \in M
      BY <2>7, <2>8
    <3>2. r.pair \cap s.pair = {}
      BY <3>1 DEF IsMatching
    <3>3. x \notin r.pair /\ x \notin s.pair
      BY <2>4, <3>1
    <3> QED BY <2>7, <3>1, <3>2, <3>3
  <2>10. Placed(R) \subseteq people
    BY <2>4, <2>7 DEF Placed
  <2> QED BY <1>1, <2>7, <2>9, <2>10 DEF Sound, left
<1>2. CASE ~(Cardinality(left) = 1 /\ M # {})
  <2>1. R = {PairRoom(p) : p \in M}
    BY <1>2 DEF WithLeftover
  <2>2. \A r \in R : r \in Room /\ r.pair \in M /\ r = PairRoom(r.pair) /\ r.third = {} /\ Members(r) = r.pair
    BY <2>1, PairRoomIs
  <2>3. Apart(R)
    <3> SUFFICES ASSUME NEW r \in R, NEW s \in R, r # s PROVE Members(r) \cap Members(s) = {}
      BY DEF Apart
    <3>1. r.pair # s.pair /\ r.pair \in M /\ s.pair \in M
      BY <2>2
    <3> QED BY <2>2, <3>1 DEF IsMatching
  <2>4. Placed(R) = UNION M
    <3>1. \A p \in M : \E r \in R : Members(r) = p
      BY <2>1, PairRoomIs
    <3> QED BY <2>2, <3>1 DEF Placed
  <2> QED BY <2>2, <2>3, <2>4 DEF Sound, NoTrio
<1> QED BY <1>1, <1>2

\* What the engine is asked about people who are participants.
LEMMA MatchingsSound ==
  ASSUME NEW in, in.people \in SUBSET Participants, NEW M \in Matchings(in)
  PROVE  M \in SUBSET Candidates(in) /\ M \in SUBSET Pairs /\ IsMatching(M) /\ UNION M \subseteq in.people
<1>1. Candidates(in) \in SUBSET Pairs /\ \A p \in Candidates(in) : p \subseteq in.people
  BY DEF Candidates
<1>2. M \in CompleteMatchings(Candidates(in), in.met)[in.people]
        \/ M \in GreedyMatchings(in.met)[Candidates(in)]
  BY Zenon DEF Matchings
<1>3. M \subseteq Candidates(in) /\ IsMatching(M)
  <2>1. CASE M \in CompleteMatchings(Candidates(in), in.met)[in.people]
    <3>1. M \subseteq Candidates(in) /\ M \in PerfectMatchings(in.people)
      BY <1>1, <2>1, CompleteIsPerfect
    <3> QED BY <3>1 DEF PerfectMatchings
  <2>2. CASE M \in GreedyMatchings(in.met)[Candidates(in)]
    BY <1>1, <2>2, GreedyIsMatching, Zenon
  <2> QED BY <1>2, <2>1, <2>2
<1> QED BY <1>1, <1>3

\* The rooms of a round the engine returns are apart, and their pairs are
\* candidates; with an even number of people there is no trio.
LEMMA EngineSound ==
  ASSUME NEW in, in.people \in SUBSET Participants, NEW R \in EngineRounds(in)
  PROVE  /\ Sound(R, in.people)
         /\ \A r \in R : r.pair \notin in.used /\ r.pair \notin in.hard
         /\ Cardinality(in.people) % 2 = 0 => NoTrio(R)
<1>1. PICK M \in Matchings(in) : R \in WithLeftover(M, in.people \ UNION M)
  BY DEF EngineRounds
<1>2. M \in SUBSET Candidates(in) /\ M \in SUBSET Pairs /\ IsMatching(M) /\ UNION M \subseteq in.people
  BY MatchingsSound
<1>3. Sound(R, in.people) /\ \A r \in R : r.pair \in M
  BY <1>1, <1>2, LeftoverSound
<1>4. \A r \in R : r.pair \notin in.used /\ r.pair \notin in.hard
  BY <1>2, <1>3 DEF Candidates
<1>5. ASSUME Cardinality(in.people) % 2 = 0 PROVE NoTrio(R)
  <2>1. Cardinality(in.people \ UNION M) # 1
    <3>1. IsFiniteSet(in.people) /\ Cardinality(in.people) \in Nat
      BY EngineAssumption, FS_Subset, FS_CardinalityType
    <3>2. in.people \cap UNION M = UNION M
      BY <1>2
    <3>3. Cardinality(in.people \ UNION M) = Cardinality(in.people) - Cardinality(in.people \cap UNION M)
      BY <3>1, FS_Difference
    <3>4. Cardinality(in.people \cap UNION M) = 2 * Cardinality(M) /\ Cardinality(M) \in Nat
      BY <1>2, <3>2, MatchingSize, FS_CardinalityType
    <3>5. \A n, m \in Nat : n % 2 = 0 => n - 2 * m # 1
      OBVIOUS
    <3> QED BY <1>5, <3>1, <3>3, <3>4, <3>5
  <2> QED BY <1>1, <1>2, <2>1, LeftoverSound
<1> QED BY <1>3, <1>4, <1>5

\* If some perfect matching avoids the exclusions, everybody is placed.
LEMMA EngineFull ==
  ASSUME NEW in, in.people \in SUBSET Participants, NEW R \in EngineRounds(in),
         Cardinality(in.people) % 2 = 0, Cardinality(in.people) <= Exact,
         NEW N \in PerfectMatchings(in.people), N \cap (in.used \cup in.hard) = {}
  PROVE  Placed(R) = in.people
<1>1. PICK M \in Matchings(in) : R \in WithLeftover(M, in.people \ UNION M)
  BY DEF EngineRounds
<1>2. M \in SUBSET Pairs /\ IsMatching(M) /\ UNION M \subseteq in.people
  BY MatchingsSound
<1>3. IsFiniteSet(in.people) /\ Cardinality(in.people) \in Nat
  BY EngineAssumption, FS_Subset, FS_CardinalityType
<1>4. UNION M = in.people
  <2>1. CASE in.people = {}
    BY <1>2, <2>1
  <2>2. CASE in.people # {}
    <3>1. Cardinality(in.people) \in 2..Exact
      <4>1. Cardinality(in.people) # 0
        BY <1>3, <2>2, FS_EmptySet
      <4>2. \A n \in Nat : n # 0 /\ n % 2 = 0 => n >= 2
        OBVIOUS
      <4>3. Exact \in Nat
        BY EngineAssumption
      <4> QED BY <1>3, <4>1, <4>2, <4>3
    <3>2. N \subseteq Candidates(in)
      BY DEF PerfectMatchings, Candidates
    <3>3. Candidates(in) \in SUBSET Pairs
      BY DEF Candidates
    <3>4. CompleteMatchings(Candidates(in), in.met)[in.people] # {}
      BY <3>2, <3>3, CompleteFound
    <3>5. M \in CompleteMatchings(Candidates(in), in.met)[in.people]
      BY <3>1, <3>4, Zenon DEF Matchings
    <3>6. M \in PerfectMatchings(in.people)
      BY <3>3, <3>5, CompleteIsPerfect
    <3> QED BY <3>6 DEF PerfectMatchings
  <2> QED BY <2>1, <2>2
<1>5. Cardinality(in.people \ UNION M) # 1
  <2>1. in.people \ UNION M = {}
    BY <1>4
  <2>2. Cardinality(in.people \ UNION M) = Cardinality({})
    BY <2>1, Zenon
  <2> QED BY <2>2, FS_EmptySet
<1> QED BY <1>1, <1>2, <1>4, <1>5, LeftoverSound

-----------------------------------------------------------------------------
(* reduceRepeatPairs *)

\* The repeats of a round are a number.
LEMMA RepeatsAreCounted ==
  ASSUME NEW R \in SUBSET Room, NEW used
  PROVE  Repeats(R, used) \in Nat
<1>1. IsFiniteSet({r \in R : r.pair \in used})
  BY RoomFinite, FS_Subset
<1> QED BY <1>1, FS_CardinalityType DEF Repeats

\* Two pairs of four people, taken across.
LEMMA TakenAcross ==
  ASSUME NEW k \in Pairs, NEW l \in Pairs, k \cap l = {}, NEW a \in k, NEW c \in l
  PROVE  {a, c} \in Pairs /\ (k \cup l) \ {a, c} \in Pairs
<1>1. PICK b \in Participants : a # b /\ a \in Participants /\ k = {a, b}
  BY PairIsTwo
<1>2. PICK d \in Participants : c # d /\ c \in Participants /\ l = {c, d}
  BY PairIsTwo
<1>3. a # c /\ b # d /\ (k \cup l) \ {a, c} = {b, d}
  BY <1>1, <1>2
<1>4. {a, c} \in Pairs /\ {b, d} \in Pairs
  BY <1>1, <1>2, <1>3, TwoIsPair
<1> QED BY <1>3, <1>4

\* An exchange keeps people apart and places the same people; the pairs it
\* makes are allowed, and fewer of them are repeats.
LEMMA ExchangeSound ==
  ASSUME NEW R \in SUBSET Room, Apart(R), NEW used, NEW never, NEW Q \in Exchanges(R, used, never)
  PROVE  /\ Q \in SUBSET Room /\ Apart(Q) /\ Placed(Q) = Placed(R)
         /\ NoTrio(R) => NoTrio(Q)
         /\ \A r \in Q : r \in R \/ r.pair \notin never
         /\ Repeats(Q, used) < Repeats(R, used)
<1>1. PICK m \in R, n \in R : /\ m.third = {} /\ n.third = {} /\ m # n
                              /\ \E p \in Across(m, n) : Q = Exchanged(R, m, n, p)
  BY DEF Exchanges
<1>2. PICK a \in m.pair, c \in n.pair : Q = Exchanged(R, m, n, {a, c})
  <2>1. \A p \in Across(m, n) : \E a \in m.pair, c \in n.pair : p = {a, c}
    BY DEF Across
  <2>2. PICK p \in Across(m, n) : Q = Exchanged(R, m, n, p)
    BY <1>1
  <2>3. PICK a \in m.pair, c \in n.pair : p = {a, c}
    BY <2>1
  <2> QED BY <2>2, <2>3, Zenon
<1>3. m.pair \cap n.pair = {} /\ m.pair \in Pairs /\ n.pair \in Pairs
  BY <1>1, MembersAre DEF Apart
<1> DEFINE p == {a, c}
           q == (m.pair \cup n.pair) \ p
<1>4. p \in Pairs /\ q \in Pairs
  BY <1>3, TakenAcross
<1>5. p \cap q = {} /\ p \cup q = m.pair \cup n.pair
  OBVIOUS
<1>6. Q = (R \ {m, n}) \cup {PairRoom(p), PairRoom(q)}
  BY <1>2 DEF Exchanged
<1> HIDE DEF p, q
<1>7. Members(m) = m.pair /\ Members(n) = n.pair
  BY <1>1 DEF Members
<1>8. Members(PairRoom(p)) = p /\ Members(PairRoom(q)) = q
      /\ PairRoom(p) \in Room /\ PairRoom(q) \in Room
      /\ PairRoom(p).third = {} /\ PairRoom(q).third = {}
  BY <1>4, PairRoomIs
<1>9. \A r \in R \ {m, n} : Members(r) \cap (m.pair \cup n.pair) = {}
  BY <1>7 DEF Apart
<1>10. Apart(Q)
  <2>1. \A r, s \in R \ {m, n} : r # s => Members(r) \cap Members(s) = {}
    BY DEF Apart
  <2>2. \A r \in R \ {m, n} : Members(r) \cap p = {} /\ Members(r) \cap q = {}
    BY <1>5, <1>9
  <2> QED BY <1>5, <1>6, <1>8, <2>1, <2>2 DEF Apart
<1>11. Placed(Q) = Placed(R)
  <2>1. Placed(Q) = Placed(R \ {m, n}) \cup p \cup q
    BY <1>6, <1>8 DEF Placed
  <2>2. Placed(R) = Placed(R \ {m, n}) \cup m.pair \cup n.pair
    BY <1>1, <1>7 DEF Placed
  <2> QED BY <1>5, <2>1, <2>2
<1>12. \A r \in Q : r \in R \/ r.pair \notin never
  BY DEF Exchanges
<1> QED BY <1>6, <1>8, <1>10, <1>11, <1>12 DEF NoTrio, Exchanges

\* The rounds that keep people apart, and having fewer repeats.
ApartRounds == {R \in SUBSET Room : Apart(R)}
\* One round has fewer repeats than another.
Fewer(used) == {t \in ApartRounds \X ApartRounds : Repeats(t[1], used) < Repeats(t[2], used)}

\* Repeats cannot become fewer for ever.
LEMMA FewerWellFounded ==
  ASSUME NEW used
  PROVE  IsWellFoundedOn(Fewer(used), ApartRounds) /\ Transitive(ApartRounds, Fewer(used))
<1>1. \A R \in ApartRounds : Repeats(R, used) \in Nat
  BY RepeatsAreCounted DEF ApartRounds
<1>2. Transitive(ApartRounds, Fewer(used))
  <2> SUFFICES ASSUME NEW x \in ApartRounds, NEW y \in ApartRounds, NEW z \in ApartRounds,
                      <<x, y>> \in Fewer(used), <<y, z>> \in Fewer(used)
               PROVE  <<x, z>> \in Fewer(used)
    BY DEF Transitive
  <2>1. Repeats(x, used) < Repeats(y, used) /\ Repeats(y, used) < Repeats(z, used)
    BY DEF Fewer
  <2>2. Repeats(x, used) < Repeats(z, used)
    BY <1>1, <2>1
  <2> QED BY <2>2 DEF Fewer
<1>3. ASSUME NEW T \in SUBSET ApartRounds, T # {}
      PROVE  \E x \in T : \A y \in T : ~(<<y, x>> \in Fewer(used))
  <2> DEFINE counts == {Repeats(R, used) : R \in T}
  <2>1. counts \in SUBSET Nat /\ counts # {}
    BY <1>1, <1>3
  <2>2. PICK k \in counts : \A l \in counts : k <= l
    <3> HIDE DEF counts
    <3> QED BY <2>1, LeastNatural
  <2>3. PICK x \in T : Repeats(x, used) = k
    BY <2>2
  <2>4. \A y \in T : Repeats(x, used) <= Repeats(y, used)
    BY <2>2, <2>3
  <2>5. \A y \in T : ~(Repeats(y, used) < Repeats(x, used))
    BY <1>1, <2>3, <2>4
  <2> QED BY <2>3, <2>5 DEF Fewer
<1> QED BY <1>2, <1>3, MinWF

\* What a round is reduced to depends on rounds with fewer repeats.
LEMMA ReduceLocal ==
  ASSUME NEW used, NEW never, NEW R \in ApartRounds, NEW g, NEW h,
         \A S \in ApartRounds : <<S, R>> \in Fewer(used) => g[S] = h[S]
  PROVE  Reduce(g, R, used, never) = Reduce(h, R, used, never)
<1>1. \A S \in Exchanges(R, used, never) : S \in ApartRounds /\ <<S, R>> \in Fewer(used)
  BY ExchangeSound DEF ApartRounds, Fewer
<1>2. {g[S] : S \in Exchanges(R, used, never)} = {h[S] : S \in Exchanges(R, used, never)}
  BY <1>1
<1> QED BY <1>2, Zenon DEF Reduce

\* What a round is reduced to are rounds.
LEMMA ReduceType ==
  ASSUME NEW used, NEW never, NEW R \in ApartRounds, NEW g \in [ApartRounds -> SUBSET ApartRounds]
  PROVE  Reduce(g, R, used, never) \in SUBSET ApartRounds
<1>1. \A S \in Exchanges(R, used, never) : S \in ApartRounds
  BY ExchangeSound DEF ApartRounds
<1> QED BY <1>1 DEF Reduce

\* So the reduction satisfies the equation that defines it.
LEMMA ReduceEquation ==
  ASSUME NEW used, NEW never
  PROVE  \A R \in ApartRounds :
           ReduceRepeats(used, never)[R] = Reduce(ReduceRepeats(used, never), R, used, never)
<1> DEFINE S == ApartRounds
           V == SUBSET ApartRounds
           D == [R \in S |-> [g \in [S -> V] |-> Reduce(g, R, used, never)]]
           F == Fewer(used)
<1>1. Local(S, F, V, D)
  <2>1. D \in [S -> [[S -> V] -> V]]
    BY ReduceType
  <2>2. ASSUME NEW x \in S, NEW g \in [S -> V], NEW h \in [S -> V],
               \A y \in S : <<y, x>> \in F => g[y] = h[y]
        PROVE  D[x][g] = D[x][h]
    BY <2>2, ReduceLocal
  <2> HIDE DEF D, V, F, S
  <2> QED BY <2>1, <2>2 DEF Local
<1>2. IsWellFoundedOn(F, S) /\ Transitive(S, F)
  BY FewerWellFounded
<1>3. {} \in V
  OBVIOUS
<1>4. PICK f \in [S -> V] : \A x \in S : f[x] = D[x][f]
  <2> HIDE DEF D, V, F, S
  <2> QED BY <1>1, <1>2, <1>3, Recursion
<1>5. f = [R \in S |-> Reduce(f, R, used, never)]
  BY <1>4
<1>6. \E g : g = [R \in {Q \in SUBSET Room : Apart(Q)} |-> Reduce(g, R, used, never)]
  BY <1>5 DEF ApartRounds
<1>7. ReduceRepeats(used, never)
        = [R \in {Q \in SUBSET Room : Apart(Q)} |-> Reduce(ReduceRepeats(used, never), R, used, never)]
  BY <1>6, Zenon DEF ReduceRepeats
<1> QED BY <1>7, Zenon DEF ApartRounds

\* What the reduction makes of a round.
Reduced(Q, R, used, never) ==
  /\ Q \in ApartRounds /\ Placed(Q) = Placed(R)
  /\ NoTrio(R) => NoTrio(Q)
  /\ \A r \in Q : r \in R \/ r.pair \notin never
  /\ Exchanges(Q, used, never) = {}

\* It places the same people apart, makes no pair it may not make, and stops
\* where no exchange helps.
LEMMA ReduceSound ==
  ASSUME NEW used, NEW never, NEW R \in ApartRounds, NEW Q \in ReduceRepeats(used, never)[R]
  PROVE  Reduced(Q, R, used, never)
<1> DEFINE reduced == ReduceRepeats(used, never)
           T == {S \in ApartRounds : ~\A P \in reduced[S] : Reduced(P, S, used, never)}
<1> SUFFICES ASSUME T # {} PROVE FALSE
  OBVIOUS
<1>1. PICK S \in T : \A P \in T : <<P, S>> \notin Fewer(used)
  <2>1. T \subseteq ApartRounds
    OBVIOUS
  <2> HIDE DEF T
  <2> QED BY <2>1, FewerWellFounded, WFMin
<1>2. S \in ApartRounds /\ S \in SUBSET Room /\ Apart(S)
  BY <1>1 DEF ApartRounds
<1>3. PICK P \in reduced[S] : ~Reduced(P, S, used, never)
  BY <1>1
<1> HIDE DEF reduced
<1>4. reduced[S] = Reduce(reduced, S, used, never)
  BY <1>2, ReduceEquation DEF reduced
<1>5. Exchanges(S, used, never) # {}
  <2> SUFFICES ASSUME Exchanges(S, used, never) = {} PROVE FALSE
    OBVIOUS
  <2>1. P = S
    BY <1>3, <1>4 DEF Reduce
  <2> QED BY <1>2, <1>3, <2>1 DEF Reduced
<1>6. PICK N \in Exchanges(S, used, never) : P \in reduced[N]
  BY <1>3, <1>4, <1>5 DEF Reduce
<1>7. /\ N \in ApartRounds /\ Placed(N) = Placed(S)
      /\ NoTrio(S) => NoTrio(N)
      /\ \A r \in N : r \in S \/ r.pair \notin never
      /\ <<N, S>> \in Fewer(used)
  BY <1>2, ExchangeSound DEF ApartRounds, Fewer
<1>8. Reduced(P, N, used, never)
  BY <1>1, <1>6, <1>7
<1>9. Reduced(P, S, used, never)
  BY <1>7, <1>8 DEF Reduced
<1> QED BY <1>3, <1>9

-----------------------------------------------------------------------------
(* Rooms, people and pairs counted *)

\* The only two people of a pair are the pair.
LEMMA PairKey ==
  ASSUME NEW p \in Pairs
  PROVE  kSubset(2, p) = {p}
<1>1. IsFiniteSet(p) /\ Cardinality(p) = 2
  BY PairIsTwo
<1>2. \A s \in SUBSET p : Cardinality(s) = 2 => s = p
  BY <1>1, FS_Subset
<1> QED BY <1>1, <1>2 DEF kSubset

\* The pair of a room is one of the keys of the round, and the keys are pairs.
LEMMA KeysOfRooms ==
  ASSUME NEW R \in SUBSET Room
  PROVE  /\ PairKeys(R) \in SUBSET Pairs
         /\ \A r \in R : r.pair \in PairKeys(R)
         /\ NoTrio(R) => PairKeys(R) = {r.pair : r \in R}
<1>1. \A r \in R : r.pair \in kSubset(2, Members(r)) /\ kSubset(2, Members(r)) \subseteq Pairs
  <2> TAKE r \in R
  <2>1. r.pair \in Pairs /\ r.pair \subseteq Members(r) /\ Members(r) \subseteq Participants
    BY MembersAre
  <2>2. Cardinality(r.pair) = 2
    BY <2>1, PairIsTwo
  <2> QED BY <2>1, <2>2 DEF kSubset, Pairs
<1>2. ASSUME NoTrio(R) PROVE PairKeys(R) = {r.pair : r \in R}
  <2>1. \A r \in R : kSubset(2, Members(r)) = {r.pair}
    <3> TAKE r \in R
    <3>1. Members(r) = r.pair /\ r.pair \in Pairs
      BY <1>2, MembersAre DEF NoTrio, Members
    <3> QED BY <3>1, PairKey
  <2>2. {kSubset(2, Members(r)) : r \in R} = {{r.pair} : r \in R}
    BY <2>1
  <2> QED BY <2>2 DEF PairKeys
<1> QED BY <1>1, <1>2 DEF PairKeys

\* A round that keeps people apart has at most a room for every two of them.
LEMMA RoomsCount ==
  ASSUME NEW people \in SUBSET Participants, NEW R, Sound(R, people)
  PROVE  /\ IsFiniteSet(R) /\ Cardinality(R) \in Nat
         /\ 2 * Cardinality(R) <= Cardinality(people)
         /\ NoTrio(R) /\ Placed(R) = people => 2 * Cardinality(R) = Cardinality(people)
<1> DEFINE M == {r.pair : r \in R}
           f == [r \in R |-> r.pair]
<1>1. R \in SUBSET Room /\ IsFiniteSet(R) /\ Cardinality(R) \in Nat
  BY RoomFinite, FS_Subset, FS_CardinalityType DEF Sound
<1>2. \A r \in R : r.pair \in Pairs /\ r.pair # {} /\ r.pair \subseteq Members(r)
  BY <1>1, MembersAre, PairIsTwo
<1>3. \A r, s \in R : r # s => r.pair \cap s.pair = {}
  BY <1>2 DEF Sound, Apart
<1>4. M \in SUBSET Pairs /\ IsMatching(M)
  BY <1>2, <1>3 DEF IsMatching
<1>5. Cardinality(M) = Cardinality(R)
  <2>1. f \in [R -> M] /\ (\A r, s \in R : f[r] = f[s] => r = s) /\ \A p \in M : \E r \in R : f[r] = p
    BY <1>2, <1>3
  <2>2. f \in Injection(R, M) /\ f \in Surjection(R, M)
    <3> HIDE DEF f, M
    <3> QED BY <2>1 DEF Injection, IsInjective, Surjection
  <2> HIDE DEF f, M
  <2> QED BY <1>1, <2>2, FS_Surjection
<1>6. UNION M \subseteq Placed(R) /\ Placed(R) \subseteq people
  BY <1>2 DEF Placed, Sound
<1>7. IsFiniteSet(people) /\ Cardinality(people) \in Nat
  BY EngineAssumption, FS_Subset, FS_CardinalityType
<1> HIDE DEF M
<1>8. Cardinality(UNION M) = 2 * Cardinality(R)
  BY <1>4, <1>5, MatchingSize
<1>9. Cardinality(UNION M) <= Cardinality(people)
  BY <1>6, <1>7, FS_Subset
<1>10. ASSUME NoTrio(R), Placed(R) = people PROVE UNION M = people
  BY <1>10 DEF NoTrio, Placed, Members, M
<1> QED BY <1>1, <1>8, <1>9, <1>10

-----------------------------------------------------------------------------
(* The ladder *)

\* What the service is asked.
Inputs == [people : SUBSET Participants, used : SUBSET Pairs, hard : SUBSET Pairs, met : SUBSET Pairs]

\* On each level a round keeps the hard pairs and those of keep apart.
LEMMA TriedSound ==
  ASSUME NEW in \in Inputs, NEW keep, NEW level, NEW R \in Tried(level, in, keep)
  PROVE  /\ Sound(R, in.people)
         /\ \A r \in R : r.pair \notin RelaxedAt(level, in.used) /\ r.pair \notin keep /\ r.pair \notin in.hard
         /\ Cardinality(in.people) % 2 = 0 => NoTrio(R)
<1> DEFINE ask == [in EXCEPT !.used = RelaxedAt(level, in.used) \cup keep]
<1>1. ask.people = in.people /\ ask.hard = in.hard /\ ask.used = RelaxedAt(level, in.used) \cup keep
      /\ in.people \in SUBSET Participants
  BY DEF Inputs
<1>2. R \in EngineRounds(ask)
  BY DEF Tried
<1> HIDE DEF ask
<1>3. ask.people \in SUBSET Participants
  BY <1>1
<1>4. /\ Sound(R, ask.people)
      /\ \A r \in R : r.pair \notin ask.used /\ r.pair \notin ask.hard
      /\ Cardinality(ask.people) % 2 = 0 => NoTrio(R)
  BY <1>2, <1>3, EngineSound
<1> QED BY <1>1, <1>4

\* There is an arrangement of an even number that avoids the keys.
Arrangeable(people, keys) ==
  /\ Cardinality(people) % 2 = 0 /\ Cardinality(people) <= Exact
  /\ \E N \in PerfectMatchings(people) : N \cap keys = {}

\* On each level everybody is placed where the exclusions of it let them.
LEMMA TriedFull ==
  ASSUME NEW in \in Inputs, NEW keep, NEW level, NEW R \in Tried(level, in, keep),
         Arrangeable(in.people, RelaxedAt(level, in.used) \cup keep \cup in.hard)
  PROVE  Placed(R) = in.people
<1> DEFINE ask == [in EXCEPT !.used = RelaxedAt(level, in.used) \cup keep]
<1>1. ask.people = in.people /\ ask.hard = in.hard /\ ask.used = RelaxedAt(level, in.used) \cup keep
      /\ in.people \in SUBSET Participants
  BY DEF Inputs
<1>2. R \in EngineRounds(ask)
  BY DEF Tried
<1> HIDE DEF ask
<1>3. PICK N \in PerfectMatchings(ask.people) : N \cap (ask.used \cup ask.hard) = {}
  BY <1>1 DEF Arrangeable
<1>4. ask.people \in SUBSET Participants /\ Cardinality(ask.people) % 2 = 0 /\ Cardinality(ask.people) <= Exact
  BY <1>1 DEF Arrangeable
<1>5. Placed(R) = ask.people
  BY <1>2, <1>3, <1>4, EngineFull
<1> QED BY <1>1, <1>5

\* A complete round of an even number places everybody; one that places
\* everybody is complete.
LEMMA CompletePlaces ==
  ASSUME NEW in \in Inputs, NEW R, Sound(R, in.people), Cardinality(in.people) % 2 = 0
  PROVE  IsComplete(R, in) <=> Placed(R) = in.people
<1>1. IsFiniteSet(in.people) /\ Cardinality(in.people) \in Nat
  BY EngineAssumption, FS_Subset, FS_CardinalityType DEF Inputs
<1>2. Placed(R) \in SUBSET in.people
  BY DEF Sound
<1>3. /\ Cardinality(Placed(R)) \in Nat /\ Cardinality(Placed(R)) <= Cardinality(in.people)
      /\ Cardinality(in.people) = Cardinality(Placed(R)) => in.people = Placed(R)
  BY <1>1, <1>2, FS_Subset, FS_CardinalityType
<1>4. \A n \in Nat : n % 2 = 0 => 2 * (n \div 2) = n
  OBVIOUS
<1>5. IsComplete(R, in) <=> Cardinality(Placed(R)) >= Cardinality(in.people)
  BY <1>1, <1>4 DEF IsComplete
<1> QED BY <1>1, <1>3, <1>5

\* Where the ladder lands.
LEMMA LandedAt ==
  ASSUME NEW in, NEW keep, NEW l \in Landed(in, keep)
  PROVE  \/ l.level = 0 /\ l.rooms \in Tried(0, in, keep) /\ IsComplete(l.rooms, in)
         \/ /\ l.level # 0 /\ l.level \in {3, 4}
            /\ l.rooms \in Tried(l.level, in, keep)
            /\ l.level = 3 => IsComplete(l.rooms, in)
            /\ \E R \in Tried(0, in, keep) : ~IsComplete(R, in)
BY DEF Landed

\* Wherever it lands, the round is sound and keeps the hard pairs and those
\* of keep apart; on level 0 no pair is a repeat.
LEMMA LandedSound ==
  ASSUME NEW in \in Inputs, NEW keep, NEW l \in Landed(in, keep)
  PROVE  /\ Sound(l.rooms, in.people) /\ l.rooms \in ApartRounds
         /\ \A r \in l.rooms : r.pair \notin keep /\ r.pair \notin in.hard
         /\ Cardinality(in.people) % 2 = 0 => NoTrio(l.rooms)
         /\ l.level = 0 => \A r \in l.rooms : r.pair \notin in.used
<1>1. l.rooms \in Tried(l.level, in, keep)
  BY LandedAt
<1>2. /\ Sound(l.rooms, in.people)
      /\ \A r \in l.rooms : r.pair \notin RelaxedAt(l.level, in.used) /\ r.pair \notin keep /\ r.pair \notin in.hard
      /\ Cardinality(in.people) % 2 = 0 => NoTrio(l.rooms)
  BY <1>1, TriedSound
<1>3. l.level = 0 => RelaxedAt(l.level, in.used) = in.used
  BY DEF RelaxedAt
<1> QED BY <1>2, <1>3 DEF Sound, ApartRounds

\* It places everybody where that is possible without the pairs that must be
\* kept apart, and without a repeat where that is.
LEMMA LandedFull ==
  ASSUME NEW in \in Inputs, NEW keep, NEW l \in Landed(in, keep), Arrangeable(in.people, keep \cup in.hard)
  PROVE  Placed(l.rooms) = in.people
<1>1. Sound(l.rooms, in.people)
  BY LandedSound
<1>2. CASE l.level # 4
  <2>1. IsComplete(l.rooms, in)
    BY <1>2, LandedAt
  <2> QED BY <1>1, <2>1, CompletePlaces DEF Arrangeable
<1>3. CASE l.level = 4
  <2>1. l.rooms \in Tried(4, in, keep)
    BY <1>3, LandedAt
  <2>2. RelaxedAt(4, in.used) \cup keep \cup in.hard = keep \cup in.hard
    BY DEF RelaxedAt
  <2>3. Arrangeable(in.people, RelaxedAt(4, in.used) \cup keep \cup in.hard)
    BY <2>2
  <2> QED BY <2>1, <2>3, TriedFull
<1> QED BY <1>2, <1>3

\* Where an arrangement without any of the used pairs exists, level 0 has it.
LEMMA LandedFresh ==
  ASSUME NEW in \in Inputs, NEW keep, NEW l \in Landed(in, keep),
         Arrangeable(in.people, in.used \cup keep \cup in.hard)
  PROVE  l.level = 0
<1> SUFFICES ASSUME l.level # 0 PROVE FALSE
  OBVIOUS
<1>1. PICK R \in Tried(0, in, keep) : ~IsComplete(R, in)
  BY LandedAt
<1>2. Sound(R, in.people)
  BY TriedSound
<1>3. RelaxedAt(0, in.used) = in.used
  BY DEF RelaxedAt
<1>4. Arrangeable(in.people, RelaxedAt(0, in.used) \cup keep \cup in.hard)
  BY <1>3
<1>5. Placed(R) = in.people
  BY <1>4, TriedFull
<1> QED BY <1>1, <1>2, <1>5, CompletePlaces DEF Arrangeable

-----------------------------------------------------------------------------
(* What the service returns *)

\* A round of the service is the one it landed on, reduced below level 0.
LEMMA ServiceFrom ==
  ASSUME NEW in, NEW keep, NEW R \in ServiceRounds(in, keep)
  PROVE  \E l \in Landed(in, keep) :
           IF l.level = 0 THEN R = l.rooms
           ELSE R \in ReduceRepeats(in.used, NeverPair(in, keep))[l.rooms]
BY DEF ServiceRounds

\* Every round it returns keeps people apart, and no pair of it is one that
\* must be kept apart or one of keep.
LEMMA ServiceSound ==
  ASSUME NEW in \in Inputs, NEW keep, NEW R \in ServiceRounds(in, keep)
  PROVE  /\ Sound(R, in.people)
         /\ \A r \in R : r.pair \notin keep /\ r.pair \notin in.hard
         /\ Cardinality(in.people) % 2 = 0 => NoTrio(R)
<1>1. PICK l \in Landed(in, keep) :
        IF l.level = 0 THEN R = l.rooms
        ELSE R \in ReduceRepeats(in.used, NeverPair(in, keep))[l.rooms]
  BY ServiceFrom
<1>2. /\ Sound(l.rooms, in.people) /\ l.rooms \in ApartRounds
      /\ \A r \in l.rooms : r.pair \notin keep /\ r.pair \notin in.hard
      /\ Cardinality(in.people) % 2 = 0 => NoTrio(l.rooms)
  BY LandedSound
<1>3. CASE l.level = 0
  BY <1>1, <1>2, <1>3
<1>4. CASE l.level # 0
  <2>1. Reduced(R, l.rooms, in.used, NeverPair(in, keep))
    BY <1>1, <1>2, <1>4, ReduceSound
  <2> QED BY <1>2, <2>1 DEF Reduced, ApartRounds, Sound, NeverPair
<1> QED BY <1>3, <1>4

\* Everybody is placed where the hard pairs and those of keep let them.
LEMMA ServiceFull ==
  ASSUME NEW in \in Inputs, NEW keep, NEW R \in ServiceRounds(in, keep), Arrangeable(in.people, keep \cup in.hard)
  PROVE  Placed(R) = in.people
<1>1. PICK l \in Landed(in, keep) :
        IF l.level = 0 THEN R = l.rooms
        ELSE R \in ReduceRepeats(in.used, NeverPair(in, keep))[l.rooms]
  BY ServiceFrom
<1>2. Placed(l.rooms) = in.people /\ l.rooms \in ApartRounds
  BY LandedFull, LandedSound
<1>3. CASE l.level = 0
  BY <1>1, <1>2, <1>3
<1>4. CASE l.level # 0
  <2>1. Reduced(R, l.rooms, in.used, NeverPair(in, keep))
    BY <1>1, <1>2, <1>4, ReduceSound
  <2> QED BY <1>2, <2>1 DEF Reduced
<1> QED BY <1>3, <1>4

\* And no pair is a repeat where that is possible.
LEMMA ServiceFresh ==
  ASSUME NEW in \in Inputs, NEW keep, NEW R \in ServiceRounds(in, keep),
         Arrangeable(in.people, in.used \cup keep \cup in.hard)
  PROVE  \A r \in R : r.pair \notin in.used
<1>1. PICK l \in Landed(in, keep) :
        IF l.level = 0 THEN R = l.rooms
        ELSE R \in ReduceRepeats(in.used, NeverPair(in, keep))[l.rooms]
  BY ServiceFrom
<1>2. l.level = 0
  BY LandedFresh
<1> QED BY <1>1, <1>2, LandedSound

\* Either no pair is a repeat, or no exchange makes fewer of them repeats.
LEMMA ServiceSettled ==
  ASSUME NEW in \in Inputs, NEW keep, NEW R \in ServiceRounds(in, keep)
  PROVE  \/ \A r \in R : r.pair \notin in.used
         \/ Exchanges(R, in.used, in.hard \cup keep) = {}
<1>1. PICK l \in Landed(in, keep) :
        IF l.level = 0 THEN R = l.rooms
        ELSE R \in ReduceRepeats(in.used, NeverPair(in, keep))[l.rooms]
  BY ServiceFrom
<1>2. CASE l.level = 0
  BY <1>1, <1>2, LandedSound
<1>3. CASE l.level # 0
  <2>1. Reduced(R, l.rooms, in.used, NeverPair(in, keep))
    BY <1>1, <1>3, LandedSound, ReduceSound
  <2> QED BY <2>1 DEF Reduced, NeverPair
<1> QED BY <1>2, <1>3

-----------------------------------------------------------------------------
(* Four people *)

\* A pair can be arranged in one way only.
LEMMA PerfectPair ==
  ASSUME NEW p \in Pairs, NEW N \in PerfectMatchings(p)
  PROVE  N = {p}
<1>1. p # {}
  BY PairIsTwo
<1>2. \A q \in N : q = p
  <2> TAKE q \in N
  <2>1. q \in Pairs /\ q \subseteq p
    BY DEF PerfectMatchings
  <2>2. q \in kSubset(2, p)
    BY <2>1, PairIsTwo DEF kSubset
  <2> QED BY <2>2, PairKey
<1>3. N # {}
  BY <1>1 DEF PerfectMatchings
<1> QED BY <1>2, <1>3

\* A round without a trio is its pairs.
LEMMA RoundOfPairs ==
  ASSUME NEW R \in SUBSET Room, NoTrio(R)
  PROVE  \A r \in R : r = PairRoom(r.pair) /\ Members(r) = r.pair /\ r.pair \in Pairs
BY DEF NoTrio, PairRoom, Room, Members

\* The repeats of a round made of a matching are those of the matching.
LEMMA RepeatsOfMatching ==
  ASSUME NEW M \in SUBSET Pairs, NEW used
  PROVE  Repeats({PairRoom(p) : p \in M}, used) = Cardinality(M \cap used)
<1> DEFINE W == {r \in {PairRoom(p) : p \in M} : r.pair \in used}
           f == [p \in M \cap used |-> PairRoom(p)]
<1>1. \A p \in M : PairRoom(p).pair = p
  BY PairRoomIs
<1>2. IsFiniteSet(M \cap used)
  BY PairsFinite, FS_Subset
<1>3. /\ f \in [M \cap used -> W]
      /\ \A p, q \in M \cap used : f[p] = f[q] => p = q
      /\ \A r \in W : \E p \in M \cap used : f[p] = r
  BY <1>1
<1>4. f \in Injection(M \cap used, W) /\ f \in Surjection(M \cap used, W)
  <2> HIDE DEF f, W
  <2> QED BY <1>3 DEF Injection, IsInjective, Surjection
<1>5. Cardinality(W) = Cardinality(M \cap used)
  <2> HIDE DEF f, W
  <2> QED BY <1>2, <1>4, FS_Surjection
<1> QED BY <1>5 DEF Repeats

\* Two people are one room.
LEMMA RoundOfTwo ==
  ASSUME NEW people \in SUBSET Participants, Cardinality(people) = 2,
         NEW R, Sound(R, people), NoTrio(R), Placed(R) = people, NEW M \in PerfectMatchings(people)
  PROVE  R = {PairRoom(p) : p \in M}
<1>1. people \in Pairs
  BY DEF Pairs, kSubset
<1>2. R \in SUBSET Room /\ Cardinality(R) = 1 /\ IsFiniteSet(R)
  BY RoomsCount DEF Sound
<1>3. PICK r : R = {r}
  BY <1>2, FS_Singleton
<1>4. r = PairRoom(r.pair) /\ Members(r) = r.pair
  BY <1>2, <1>3, RoundOfPairs
<1>5. r.pair = people
  BY <1>3, <1>4 DEF Placed
<1>6. M = {people}
  BY <1>1, PerfectPair
<1> QED BY <1>3, <1>4, <1>5, <1>6

\* Any two rounds of four people are the same or differ by one exchange.
LEMMA RoundsOfFour ==
  ASSUME NEW people \in SUBSET Participants, Cardinality(people) = 4,
         NEW R, Sound(R, people), NoTrio(R), Placed(R) = people, NEW M \in PerfectMatchings(people),
         NEW Q, Q = {PairRoom(p) : p \in M}
  PROVE  R = Q \/ \E m \in R : \E n \in R \ {m} : \E p \in Across(m, n) : Q = Exchanged(R, m, n, p)
<1>1. R \in SUBSET Room /\ Apart(R) /\ Cardinality(R) = 2 /\ IsFiniteSet(R)
  BY RoomsCount DEF Sound
<1>2. PICK m \in R : TRUE
  BY <1>1, FS_EmptySet
<1>3. IsFiniteSet(R \ {m}) /\ Cardinality(R \ {m}) = 1
  BY <1>1, <1>2, FS_RemoveElement
<1>4. PICK n : R \ {m} = {n}
  BY <1>3, FS_Singleton
<1>5. n \in R /\ m # n /\ R = {m, n}
  BY <1>2, <1>4
<1>6. /\ m = PairRoom(m.pair) /\ m.pair \in Pairs /\ Members(m) = m.pair
      /\ n = PairRoom(n.pair) /\ n.pair \in Pairs /\ Members(n) = n.pair
  BY <1>1, <1>2, <1>5, RoundOfPairs
<1>7. people = m.pair \cup n.pair /\ m.pair \cap n.pair = {}
  BY <1>1, <1>2, <1>5, <1>6 DEF Placed, Apart
<1>8. PICK a \in m.pair : TRUE
  BY <1>6, PairIsTwo
<1>9. PICK p \in M : a \in p
  BY <1>7, <1>8 DEF PerfectMatchings
<1>10. p \in Pairs /\ p \subseteq people /\ M \ {p} \in PerfectMatchings(people \ p)
  <2>1. p \in Pairs
    BY <1>9 DEF PerfectMatchings
  <2> QED BY <2>1, <1>9, PerfectLess
<1>11. CASE p = m.pair
  <2>1. people \ p = n.pair
    BY <1>7, <1>11
  <2>2. M \ {p} = {n.pair}
    BY <1>6, <1>10, <2>1, PerfectPair
  <2>3. M = {m.pair, n.pair}
    BY <1>9, <1>11, <2>2
  <2> QED BY <1>5, <1>6, <2>3
<1>12. CASE p # m.pair
  <2>1. PICK x \in Participants : a # x /\ p = {a, x}
    BY <1>9, <1>10, PairIsTwo
  <2>2. PICK b \in Participants : a # b /\ m.pair = {a, b}
    BY <1>6, <1>8, PairIsTwo
  <2>3. x \in n.pair
    BY <1>7, <1>10, <1>12, <2>1, <2>2
  <2>4. p \in Across(m, n)
    BY <1>8, <2>1, <2>3 DEF Across
  <2>5. people \ p \in Pairs
    BY <1>6, <1>7, <1>8, <2>1, <2>3, TakenAcross
  <2>6. M = {p, people \ p}
    <3>1. M \ {p} = {people \ p}
      BY <1>10, <2>5, PerfectPair
    <3> QED BY <1>9, <3>1
  <2>7. Exchanged(R, m, n, p) = {PairRoom(p), PairRoom(people \ p)}
    BY <1>5, <1>7 DEF Exchanged
  <2>8. {PairRoom(q) : q \in M} = {PairRoom(p), PairRoom(people \ p)}
    BY <2>6
  <2>9. n \in R \ {m} /\ Q = Exchanged(R, m, n, p)
    BY <1>5, <2>7, <2>8
  <2> QED BY <1>2, <2>4, <2>9
<1> QED BY <1>11, <1>12

\* So where no exchange helps, no arrangement that makes only allowed pairs
\* has fewer repeats.
LEMMA FewestOfFour ==
  ASSUME NEW people \in SUBSET Participants, Cardinality(people) \in {2, 4},
         NEW R, Sound(R, people), NoTrio(R), Placed(R) = people,
         NEW used, NEW never, Exchanges(R, used, never) = {},
         NEW M \in PerfectMatchings(people), M \cap never = {}
  PROVE  Repeats(R, used) <= Cardinality(M \cap used)
<1> DEFINE Q == {PairRoom(p) : p \in M}
<1>1. M \in SUBSET Pairs /\ Q \in SUBSET Room /\ R \in SUBSET Room
  BY PairRoomIs DEF PerfectMatchings, Sound
<1>2. Repeats(Q, used) = Cardinality(M \cap used)
  BY <1>1, RepeatsOfMatching
<1>3. \A r \in Q : r.pair \notin never
  BY <1>1, PairRoomIs
<1> HIDE DEF Q
<1>4. Repeats(Q, used) \in Nat /\ Repeats(R, used) \in Nat
  BY <1>1, RepeatsAreCounted
<1>5. CASE R = Q
  BY <1>2, <1>4, <1>5
<1>6. CASE R # Q
  <2>1. Cardinality(people) = 4
    BY <1>6, RoundOfTwo DEF Q
  <2>2. PICK m \in R : \E n \in R \ {m} : \E p \in Across(m, n) : Q = Exchanged(R, m, n, p)
    <3>1. Q = {PairRoom(p) : p \in M}
      BY DEF Q
    <3> QED BY <1>6, <2>1, <3>1, RoundsOfFour
  <2>3. PICK n \in R \ {m} : \E p \in Across(m, n) : Q = Exchanged(R, m, n, p)
    BY <2>2
  <2>4. m.third = {} /\ n.third = {}
    BY DEF NoTrio
  <2>5. ~(Repeats(Q, used) < Repeats(R, used))
    BY <1>3, <2>2, <2>3, <2>4 DEF Exchanges
  <2> QED BY <1>2, <1>4, <2>5
<1> QED BY <1>5, <1>6

-----------------------------------------------------------------------------
(* Types of the plan *)

\* A write of a row: which one, and what it becomes.
RowWrite == [row : Room \cup {Gone}, new : Room \cup {Gone}]
\* An edit under way.
EditState == [round : 0..(PlannedTotal + 1), todo : Seq(RowWrite)]
\* A preview.
ShownState == [by : {"none", "match", "failed", "rematch", "edit", "replan"},
               people : SUBSET Participants, met : SUBSET Pairs, before : SUBSET Room, mixed : BOOLEAN]
\* A replanning under way.
ReplanState == [at : {"idle", "wipe", "round", "commit"}, next : 0..PlannedTotal,
                people : SUBSET Participants, rooms : SUBSET Room, seen : SUBSET Room]

\* A replanning comes to a round of the plan, and inserts rooms that are apart.
ReplansOK(p) ==
  /\ p \in [Editors -> ReplanState]
  /\ \A h \in Editors : (p[h].at # "idle" => p[h].next # 0) /\ Apart(p[h].rooms)

\* An edit is of at most two rows.
PlanTypeOK ==
  /\ setting \in Setting /\ present \in SUBSET Participants
  /\ round \in 1..(PlannedTotal + 2)
  /\ plan \in [Rounds -> SUBSET Room]
  /\ shown \in ShownState /\ (shown.by # "none" => round \in Rounds)
  /\ edit \in [Editors -> EditState]
  /\ \A h \in Editors : Len(edit[h].todo) <= 2 /\ (edit[h].round = 0 => edit[h].todo = <<>>)
  /\ ReplansOK(replan) /\ torn \in SUBSET Rounds
  /\ spent \in [edits : Nat, moves : Nat]

\* The rounds are a non-empty interval.
LEMMA RoundsAre ==
  /\ PlannedTotal \in Nat /\ PlannedTotal > 0
  /\ \A r : r \in Rounds <=> r \in Nat /\ 1 <= r /\ r <= PlannedTotal + 1
<1>1. PlannedTotal \in Nat \ {0}
  BY PlanAssumption
<1> QED BY <1>1 DEF Rounds

\* A round to be repaired is a round.
LEMMA RepairedAre ==
  ASSUME NEW r \in Nat
  PROVE  Repaired(r) \subseteq Rounds /\ \A q \in Repaired(r) : q >= r /\ q <= PlannedTotal
BY DEF Repaired

\* Whoever was paired in a round played has its key among the pairs.
LEMMA PlayedArePairs ==
  ASSUME PlanTypeOK
  PROVE  Played \in SUBSET Pairs
<1>1. \A q \in 1..(round - 1) : q \in Rounds
  BY RoundsAre DEF PlanTypeOK
<1>2. \A q \in 1..(round - 1) : PairKeys(plan[q]) \in SUBSET Pairs
  <2> TAKE q \in 1..(round - 1)
  <2>1. plan[q] \in SUBSET Room
    BY <1>1 DEF PlanTypeOK
  <2> QED BY <2>1, KeysOfRooms
<1> QED BY <1>2 DEF Played

\* What the engine is asked is what it takes.
LEMMA InputOfIs ==
  ASSUME PlanTypeOK, NEW people \in SUBSET Participants
  PROVE  /\ InputOf(people) \in Inputs
         /\ InputOf(people).people = people /\ InputOf(people).hard = setting.hard
         /\ InputOf(people).used = Excluded
<1>1. setting.hard \in SUBSET Pairs /\ setting.recent \in SUBSET Pairs /\ setting.old \in SUBSET Pairs
  BY DEF PlanTypeOK, Setting
<1>2. History \in SUBSET Pairs
  BY <1>1 DEF History
<1>3. Excluded \in SUBSET Pairs
  BY <1>1, <1>2, PlayedArePairs DEF Excluded
<1> QED BY <1>1, <1>2, <1>3 DEF InputOf, Inputs

\* So is what it is asked of those who are there.
LEMMA InputIs ==
  ASSUME PlanTypeOK
  PROVE  /\ InputOf(present) \in Inputs
         /\ InputOf(present).people = present /\ InputOf(present).hard = setting.hard
         /\ InputOf(present).used = Excluded
BY InputOfIs DEF PlanTypeOK

\* A round generated now is one of the service.
LEMMA GeneratedFrom ==
  ASSUME NEW keep, NEW R \in Generated(keep)
  PROVE  R \in ServiceRounds(InputOf(present), keep)
BY DEF Generated, GeneratedFor

\* A round generated for some people.
LEMMA GeneratedForSound ==
  ASSUME PlanTypeOK, NEW people \in SUBSET Participants, NEW keep, NEW R \in GeneratedFor(people, keep)
  PROVE  /\ Sound(R, people) /\ R \in SUBSET Room /\ Apart(R)
         /\ \A r \in R : r.pair \notin keep /\ r.pair \notin setting.hard
         /\ Cardinality(people) % 2 = 0 => NoTrio(R)
<1>1. R \in ServiceRounds(InputOf(people), keep)
  BY DEF GeneratedFor
<1>2. /\ Sound(R, InputOf(people).people)
      /\ \A r \in R : r.pair \notin keep /\ r.pair \notin InputOf(people).hard
      /\ Cardinality(InputOf(people).people) % 2 = 0 => NoTrio(R)
  BY <1>1, InputOfIs, ServiceSound
<1> QED BY <1>2, InputOfIs DEF Sound

\* A round generated now.
LEMMA GeneratedSound ==
  ASSUME PlanTypeOK, NEW keep, NEW R \in Generated(keep)
  PROVE  /\ Sound(R, present) /\ R \in SUBSET Room /\ Apart(R)
         /\ \A r \in R : r.pair \notin keep /\ r.pair \notin setting.hard
         /\ Cardinality(present) % 2 = 0 => NoTrio(R)
BY GeneratedForSound DEF Generated, PlanTypeOK

\* repairFutureRounds changes the rounds it repairs, to rounds generated now.
LEMMA RepairedFromIs ==
  ASSUME PlanTypeOK, NEW p \in [Rounds -> SUBSET Room], NEW r \in Nat, NEW q \in RepairedFrom(p, r)
  PROVE  /\ q \in [Rounds -> SUBSET Room]
         /\ \A x \in Rounds : IF x \in Repaired(r) THEN q[x] \in Generated({}) ELSE q[x] = p[x]
<1>1. PICK new \in [Repaired(r) -> Generated({})] : q = [x \in Rounds |-> IF x \in Repaired(r) THEN new[x] ELSE p[x]]
  BY DEF RepairedFrom
<1>2. \A x \in Rounds : IF x \in Repaired(r) THEN q[x] \in Generated({}) ELSE q[x] = p[x]
  BY <1>1
<1>3. \A R \in Generated({}) : R \in SUBSET Room
  BY GeneratedSound
<1> QED BY <1>1, <1>2, <1>3

\* A function on 1..n is a sequence of length n.
LEMMA WritesAsSeq ==
  ASSUME NEW S, NEW n \in Nat, NEW t \in [1..n -> S]
  PROVE  t \in Seq(S) /\ Len(t) = n
OBVIOUS

\* Forgetting rows changes which rows the writes refer to.
LEMMA ForgettingIs ==
  ASSUME PlanTypeOK, NEW e \in [Editors -> EditState], NEW R, NEW kept,
         \A h \in Editors : Len(e[h].todo) <= 2 /\ (e[h].round = 0 => e[h].todo = <<>>)
  PROVE  /\ Forgetting(e, R, kept) \in [Editors -> EditState]
         /\ \A h \in Editors :
              /\ Forgetting(e, R, kept)[h].round = e[h].round
              /\ Len(Forgetting(e, R, kept)[h].todo) = Len(e[h].todo)
              /\ Len(Forgetting(e, R, kept)[h].todo) <= 2
              /\ Forgetting(e, R, kept)[h].round = 0 => Forgetting(e, R, kept)[h].todo = <<>>
              /\ IF e[h].round \in R
                 THEN \A i \in 1..Len(e[h].todo) :
                        Forgetting(e, R, kept)[h].todo[i].row = Gone \/ e[h].todo[i].row \in kept
                 ELSE Forgetting(e, R, kept)[h] = e[h]
<1> SUFFICES ASSUME NEW h \in Editors
             PROVE  /\ Forgetting(e, R, kept)[h] \in EditState
                    /\ Forgetting(e, R, kept)[h].round = e[h].round
                    /\ Len(Forgetting(e, R, kept)[h].todo) = Len(e[h].todo)
                    /\ Len(Forgetting(e, R, kept)[h].todo) <= 2
                    /\ Forgetting(e, R, kept)[h].round = 0 => Forgetting(e, R, kept)[h].todo = <<>>
                    /\ IF e[h].round \in R
                       THEN \A i \in 1..Len(e[h].todo) :
                        Forgetting(e, R, kept)[h].todo[i].row = Gone \/ e[h].todo[i].row \in kept
                       ELSE Forgetting(e, R, kept)[h] = e[h]
  BY DEF Forgetting
<1>1. CASE e[h].round \notin R
  BY <1>1 DEF Forgetting
<1>2. CASE e[h].round \in R
  <2> DEFINE s == e[h].todo
             find(x) == IF x.row \in kept THEN x ELSE [x EXCEPT !.row = Gone]
             t == [i \in DOMAIN s |-> find(s[i])]
  <2>1. s \in Seq(RowWrite) /\ e[h] \in EditState
    BY DEF EditState
  <2>2. Forgetting(e, R, kept)[h] = [e[h] EXCEPT !.todo = t]
    BY <1>2 DEF Forgetting
  <2>3. t \in Seq(RowWrite) /\ Len(t) = Len(s) /\ \A i \in 1..Len(s) : t[i].row = Gone \/ s[i].row \in kept
    <3>1. Len(s) \in Nat /\ DOMAIN s = 1..Len(s) /\ \A i \in 1..Len(s) : s[i] \in RowWrite
      BY <2>1
    <3>2. \A w \in RowWrite : find(w) \in RowWrite /\ (find(w).row = Gone \/ w.row \in kept)
      BY DEF RowWrite
    <3>3. t \in [1..Len(s) -> RowWrite] /\ \A i \in 1..Len(s) : t[i].row = Gone \/ s[i].row \in kept
      <4> HIDE DEF find, s
      <4> QED BY <3>1, <3>2
    <3> HIDE DEF t, s, find
    <3> QED BY <3>1, <3>3, WritesAsSeq
  <2> HIDE DEF t
  <2>4. Forgetting(e, R, kept)[h] \in EditState /\ Forgetting(e, R, kept)[h].todo = t /\ Forgetting(e, R, kept)[h].round = e[h].round
    BY <2>1, <2>2, <2>3 DEF EditState
  <2>5. Len(t) = 0 => t = <<>>
    BY <2>3
  <2>6. s = <<>> => Len(s) = 0
    OBVIOUS
  <2> QED BY <1>2, <2>3, <2>4, <2>5, <2>6
<1> QED BY <1>1, <1>2

-----------------------------------------------------------------------------
(* What each action does to the rooms and to the edits *)

\* The edits keep their types.
EditsOK(e) ==
  /\ e \in [Editors -> EditState]
  /\ \A h \in Editors : Len(e[h].todo) <= 2 /\ (e[h].round = 0 => e[h].todo = <<>>)

\* Rounds that are made anew lose the rows of two generations with all others.
LEMMA RenewsIs ==
  ASSUME PlanTypeOK, NEW R, Renews(R)
  PROVE  /\ EditsOK(edit') /\ ReplansOK(replan') /\ torn' \in SUBSET Rounds
         /\ \A h \in Editors :
              /\ edit'[h].round = edit[h].round
              /\ replan'[h].rooms = replan[h].rooms
              /\ IF edit[h].round \in R
                 THEN \A i \in 1..Len(edit'[h].todo) : edit'[h].todo[i].row = Gone
                 ELSE edit'[h] = edit[h]
         /\ \A r \in Rounds : r \in torn' <=> r \in torn /\ r \notin R
<1>1. edit' = Forgetting(edit, R, {}) /\ torn' = torn \ R
      /\ replan' = [h \in Editors |-> IF replan[h].next \in R THEN [replan[h] EXCEPT !.seen = {}] ELSE replan[h]]
  BY DEF Renews
<1>2. /\ edit' \in [Editors -> EditState]
      /\ \A h \in Editors :
           /\ edit'[h].round = edit[h].round
           /\ Len(edit'[h].todo) = Len(edit[h].todo)
           /\ Len(edit'[h].todo) <= 2
           /\ edit'[h].round = 0 => edit'[h].todo = <<>>
           /\ IF edit[h].round \in R
              THEN \A i \in 1..Len(edit[h].todo) : edit'[h].todo[i].row = Gone \/ edit[h].todo[i].row \in {}
              ELSE edit'[h] = edit[h]
  BY <1>1, ForgettingIs DEF PlanTypeOK
<1>3. EditsOK(edit')
  BY <1>2 DEF EditsOK
<1>4. ASSUME NEW h \in Editors
      PROVE  /\ replan'[h] \in ReplanState /\ replan'[h].rooms = replan[h].rooms
             /\ replan'[h].at = replan[h].at /\ replan'[h].next = replan[h].next
  <2>1. replan[h] \in ReplanState
    BY DEF PlanTypeOK, ReplansOK
  <2>2. replan'[h] = replan[h] \/ replan'[h] = [replan[h] EXCEPT !.seen = {}]
    BY <1>1
  <2> QED BY <2>1, <2>2 DEF ReplanState
<1>5. ReplansOK(replan')
  <2>1. replan' = [h \in Editors |-> replan'[h]]
    BY <1>1
  <2>2. replan' \in [Editors -> ReplanState]
    BY <1>4, <2>1
  <2> QED BY <1>4, <2>2 DEF PlanTypeOK, ReplansOK
<1>6. torn' \in SUBSET Rounds /\ \A r \in Rounds : r \in torn' <=> r \in torn /\ r \notin R
  BY <1>1 DEF PlanTypeOK
<1> QED BY <1>2, <1>3, <1>4, <1>5, <1>6

\* Some rounds are made anew, apart and of the people who are there, and the
\* edits have forgotten their rows; the others stay, and so do their edits.
Replaces ==
  /\ plan' \in [Rounds -> SUBSET Room]
  /\ EditsOK(edit') /\ ReplansOK(replan') /\ torn' \in SUBSET Rounds
  /\ \A h \in Editors : edit'[h].round = edit[h].round /\ replan'[h].rooms = replan[h].rooms
  /\ \A r \in Rounds :
       \/ /\ plan'[r] = plan[r] /\ (r \in torn' <=> r \in torn)
          /\ \A h \in Editors : edit[h].round = r => edit'[h] = edit[h]
       \/ /\ Sound(plan'[r], present) /\ r \notin torn'
          /\ \A h \in Editors : edit[h].round = r =>
               \A i \in 1..Len(edit'[h].todo) : edit'[h].todo[i].row = Gone

\* Rounds that are renewed replace what was there.
LEMMA RenewsReplaces ==
  ASSUME PlanTypeOK, NEW R, Renews(R), plan' \in [Rounds -> SUBSET Room],
         \A x \in Rounds : IF x \in R THEN Sound(plan'[x], present) ELSE plan'[x] = plan[x]
  PROVE  Replaces
<1>1. /\ EditsOK(edit') /\ ReplansOK(replan') /\ torn' \in SUBSET Rounds
      /\ \A h \in Editors :
           /\ edit'[h].round = edit[h].round
           /\ replan'[h].rooms = replan[h].rooms
           /\ IF edit[h].round \in R
              THEN \A i \in 1..Len(edit'[h].todo) : edit'[h].todo[i].row = Gone
              ELSE edit'[h] = edit[h]
      /\ \A r \in Rounds : r \in torn' <=> r \in torn /\ r \notin R
  BY RenewsIs
<1>2. ASSUME NEW x \in Rounds
      PROVE  \/ /\ plan'[x] = plan[x] /\ (x \in torn' <=> x \in torn)
                /\ \A h \in Editors : edit[h].round = x => edit'[h] = edit[h]
             \/ /\ Sound(plan'[x], present) /\ x \notin torn'
                /\ \A h \in Editors : edit[h].round = x =>
                     \A i \in 1..Len(edit'[h].todo) : edit'[h].todo[i].row = Gone
  <2>1. CASE x \in R
    <3>1. Sound(plan'[x], present) /\ x \notin torn'
      BY <1>1, <2>1
    <3>2. ASSUME NEW h \in Editors, edit[h].round = x
          PROVE  \A i \in 1..Len(edit'[h].todo) : edit'[h].todo[i].row = Gone
      BY <1>1, <2>1, <3>2
    <3> QED BY <3>1, <3>2
  <2>2. CASE x \notin R
    <3>1. plan'[x] = plan[x] /\ (x \in torn' <=> x \in torn)
      BY <1>1, <2>2
    <3>2. ASSUME NEW h \in Editors, edit[h].round = x PROVE edit'[h] = edit[h]
      BY <1>1, <2>2, <3>2
    <3> QED BY <3>1, <3>2
  <2> QED BY <2>1, <2>2
<1> QED BY <1>1, <1>2 DEF Replaces

\* Replacing the rounds of X, and repairing those from r on.
LEMMA RemakesReplaces ==
  ASSUME PlanTypeOK, NEW X, NEW p \in [Rounds -> SUBSET Room],
         \A x \in Rounds : IF x \in X THEN Sound(p[x], present) ELSE p[x] = plan[x],
         NEW r \in Nat, Remakes(p, X, r)
  PROVE  Replaces
<1>1. /\ plan' \in [Rounds -> SUBSET Room]
      /\ \A x \in Rounds : IF x \in Repaired(r) THEN plan'[x] \in Generated({}) ELSE plan'[x] = p[x]
  BY RepairedFromIs DEF Remakes
<1>2. \A x \in Rounds : IF x \in X \cup Repaired(r) THEN Sound(plan'[x], present) ELSE plan'[x] = plan[x]
  BY <1>1, GeneratedSound
<1>3. Renews(X \cup Repaired(r))
  BY DEF Remakes
<1> QED BY <1>1, <1>2, <1>3, RenewsReplaces

\* Nothing is replaced before the repair.
LEMMA RemakesLater ==
  ASSUME PlanTypeOK, NEW r \in Nat, Remakes(plan, {}, r)
  PROVE  Replaces
<1>1. \A x \in Rounds : IF x \in {} THEN Sound(plan[x], present) ELSE plan[x] = plan[x]
  OBVIOUS
<1>2. plan \in [Rounds -> SUBSET Room]
  BY DEF PlanTypeOK
<1> QED BY <1>1, <1>2, RemakesReplaces

\* Match Participants makes rounds anew.
LEMMA MatchReplaces == ASSUME PlanTypeOK, MatchPeople PROVE Replaces
<1>1. round \in Nat /\ round + 1 \in Nat /\ round \in Rounds /\ plan \in [Rounds -> SUBSET Room]
  BY RoundsAre DEF PlanTypeOK, MatchPeople
<1>2. Sound({}, present)
  BY DEF Sound, Apart, Placed
<1>3. CASE Surfaces
  <2>1. Remakes(plan, {}, round + 1)
    BY <1>3 DEF MatchPeople
  <2> QED BY <1>1, <2>1, RemakesLater
<1>4. CASE ~Surfaces
  <2>1. PICK R \in Generated({}) :
          IF R = {}
          THEN plan' = [plan EXCEPT ![round] = {}] /\ Renews({round})
          ELSE Remakes([plan EXCEPT ![round] = R], {round}, round + 1)
    BY <1>4 DEF MatchPeople
  <2>2. Sound(R, present) /\ R \in SUBSET Room
    BY GeneratedSound
  <2>3. CASE R # {}
    <3>1. /\ [plan EXCEPT ![round] = R] \in [Rounds -> SUBSET Room]
          /\ \A x \in Rounds : IF x \in {round} THEN Sound([plan EXCEPT ![round] = R][x], present)
                               ELSE [plan EXCEPT ![round] = R][x] = plan[x]
      BY <1>1, <2>2
    <3> QED BY <1>1, <2>1, <2>3, <3>1, RemakesReplaces
  <2>4. CASE R = {}
    <3>1. plan' = [plan EXCEPT ![round] = {}] /\ Renews({round})
      BY <2>1, <2>4
    <3>2. /\ plan' \in [Rounds -> SUBSET Room]
          /\ \A x \in Rounds : IF x \in {round} THEN Sound(plan'[x], present) ELSE plan'[x] = plan[x]
      BY <1>1, <1>2, <3>1
    <3> QED BY <3>1, <3>2, RenewsReplaces
  <2> QED BY <2>3, <2>4
<1> QED BY <1>3, <1>4

\* Re-match chooses among rounds generated now.
LEMMA RotatedFrom ==
  ASSUME NEW R \in Rotated
  PROVE  R \in Generated(PairKeys(plan[round])) \/ R \in Generated({})
BY DEF Rotated

\* So does Re-match.
LEMMA RematchReplaces == ASSUME PlanTypeOK, Rematch PROVE Replaces
<1>1. round \in Nat /\ round + 1 \in Nat /\ round \in Rounds /\ plan \in [Rounds -> SUBSET Room]
  BY RoundsAre DEF PlanTypeOK, Rematch
<1>2. PICK R \in Rotated : Remakes([plan EXCEPT ![round] = R], {round}, round + 1)
  BY DEF Rematch
<1>3. Sound(R, present) /\ R \in SUBSET Room
  BY RotatedFrom, GeneratedSound
<1>4. /\ [plan EXCEPT ![round] = R] \in [Rounds -> SUBSET Room]
      /\ \A x \in Rounds : IF x \in {round} THEN Sound([plan EXCEPT ![round] = R][x], present)
                           ELSE [plan EXCEPT ![round] = R][x] = plan[x]
  BY <1>1, <1>3
<1> QED BY <1>1, <1>2, <1>4, RemakesReplaces

\* So does the repair after a join or a leave.
LEMMA RepairReplaces == ASSUME PlanTypeOK, RepairRounds PROVE Replaces
<1>1. round \in Nat
  BY DEF PlanTypeOK
<1> QED BY <1>1, RemakesLater DEF RepairRounds

\* The replanning after an edit begins with nothing to insert.
LEMMA ReplanIs ==
  ASSUME PlanTypeOK, NEW h \in Editors, Replan(h)
  PROVE  /\ ReplansOK(replan')
         /\ \A g \in Editors : replan'[g].rooms = {} \/ replan'[g].rooms = replan[g].rooms
<1> DEFINE r == edit[h].round
           new == [NoReplan EXCEPT !.at = "wipe", !.next = r + 1, !.people = present]
<1>1. replan' = IF r >= PlannedTotal THEN replan ELSE [replan EXCEPT ![h] = new]
  BY DEF Replan
<1>2. CASE r >= PlannedTotal
  BY <1>1, <1>2 DEF PlanTypeOK, ReplansOK
<1>3. CASE ~(r >= PlannedTotal)
  <2>1. r + 1 \in 0..PlannedTotal /\ r + 1 # 0
    BY <1>3, RoundsAre DEF PlanTypeOK, EditState
  <2> HIDE DEF r
  <2>2. new \in ReplanState /\ new.next # 0 /\ new.rooms = {}
    BY <2>1 DEF NoReplan, ReplanState, PlanTypeOK
  <2> HIDE DEF new
  <2>3. replan \in [Editors -> ReplanState] /\ replan' = [replan EXCEPT ![h] = new]
    BY <1>1, <1>3 DEF PlanTypeOK, ReplansOK
  <2>4. \A g \in Editors : replan'[g] = IF g = h THEN new ELSE replan[g]
    BY <2>3
  <2>5. replan' \in [Editors -> ReplanState]
    BY <2>2, <2>3
  <2>6. Apart({})
    BY DEF Apart
  <2> QED BY <2>2, <2>4, <2>5, <2>6 DEF PlanTypeOK, ReplansOK
<1> QED BY <1>2, <1>3

\* It wipes rounds first.
LEMMA WipeReplaces == ASSUME PlanTypeOK, NEW h \in Editors, ReplanWipes(h) PROVE Replaces
<1> DEFINE R == Repaired(replan[h].next)
<1>1. /\ replan[h].at = "wipe" /\ replan' = [replan EXCEPT ![h].at = "round"]
      /\ plan' = [q \in Rounds |-> IF q \in R THEN {} ELSE plan[q]]
      /\ edit' = Forgetting(edit, R, {}) /\ torn' = torn \ R
  BY DEF ReplanWipes
<1> HIDE DEF R
<1>2. Sound({}, present)
  BY DEF Sound, Apart, Placed
<1>3. plan' \in [Rounds -> SUBSET Room] /\ \A x \in Rounds : plan'[x] = IF x \in R THEN {} ELSE plan[x]
  BY <1>1 DEF PlanTypeOK
<1>4. /\ edit' \in [Editors -> EditState]
      /\ \A g \in Editors :
           /\ edit'[g].round = edit[g].round
           /\ Len(edit'[g].todo) = Len(edit[g].todo)
           /\ Len(edit'[g].todo) <= 2
           /\ edit'[g].round = 0 => edit'[g].todo = <<>>
           /\ IF edit[g].round \in R
              THEN \A i \in 1..Len(edit[g].todo) : edit'[g].todo[i].row = Gone \/ edit[g].todo[i].row \in {}
              ELSE edit'[g] = edit[g]
  BY <1>1, ForgettingIs DEF PlanTypeOK
<1>5. EditsOK(edit')
  BY <1>4 DEF EditsOK
<1>6. ReplansOK(replan') /\ \A g \in Editors : replan'[g].rooms = replan[g].rooms
  <2>1. replan \in [Editors -> ReplanState] /\ replan[h].next # 0
    BY <1>1 DEF PlanTypeOK, ReplansOK
  <2>2. /\ [replan[h] EXCEPT !.at = "round"] \in ReplanState
        /\ [replan[h] EXCEPT !.at = "round"].rooms = replan[h].rooms
        /\ [replan[h] EXCEPT !.at = "round"].next = replan[h].next
    BY <2>1 DEF ReplanState
  <2>3. \A g \in Editors : replan'[g] = IF g = h THEN [replan[h] EXCEPT !.at = "round"] ELSE replan[g]
    BY <1>1, <2>1
  <2>4. replan' \in [Editors -> ReplanState]
    BY <1>1, <2>1, <2>2
  <2> QED BY <2>1, <2>2, <2>3, <2>4 DEF PlanTypeOK, ReplansOK
<1>7. torn' \in SUBSET Rounds
  BY <1>1 DEF PlanTypeOK
<1>8. ASSUME NEW x \in Rounds
      PROVE  \/ /\ plan'[x] = plan[x] /\ (x \in torn' <=> x \in torn)
                /\ \A g \in Editors : edit[g].round = x => edit'[g] = edit[g]
             \/ /\ Sound(plan'[x], present) /\ x \notin torn'
                /\ \A g \in Editors : edit[g].round = x =>
                     \A i \in 1..Len(edit'[g].todo) : edit'[g].todo[i].row = Gone
  <2>1. CASE x \in R
    <3>1. Sound(plan'[x], present) /\ x \notin torn'
      BY <1>1, <1>2, <1>3, <2>1
    <3>2. ASSUME NEW g \in Editors, edit[g].round = x
          PROVE  \A i \in 1..Len(edit'[g].todo) : edit'[g].todo[i].row = Gone
      BY <1>4, <2>1, <3>2
    <3> QED BY <3>1, <3>2
  <2>2. CASE x \notin R
    <3>1. plan'[x] = plan[x] /\ (x \in torn' <=> x \in torn)
      BY <1>1, <1>3, <2>2
    <3>2. ASSUME NEW g \in Editors, edit[g].round = x PROVE edit'[g] = edit[g]
      BY <1>4, <2>2, <3>2
    <3> QED BY <3>1, <3>2
  <2> QED BY <2>1, <2>2
<1> QED BY <1>3, <1>4, <1>5, <1>6, <1>7, <1>8 DEF Replaces

\* Whoever of those read is still there, or everybody.
LEMMA StillThere ==
  ASSUME PlanTypeOK, NEW people
  PROVE  Still(people) \subseteq present /\ Still(people) \in SUBSET Participants
BY DEF Still, PlanTypeOK

\* A replanning that generates a round, apart and for people who are there.
LEMMA RoundIs ==
  ASSUME PlanTypeOK, NEW h \in Editors, ReplanRound(h)
  PROVE  /\ ReplansOK(replan')
         /\ Sound(replan'[h].rooms, Still(replan[h].people))
         /\ \A g \in Editors : g = h \/ replan'[g] = replan[g]
<1> DEFINE seen == plan[replan[h].next] \ UNION {replan[g].seen : g \in {k \in Editors : replan[k].next = replan[h].next}}
<1>1. PICK R \in GeneratedFor(Still(replan[h].people), {}) :
        replan' = [replan EXCEPT ![h].at = "commit", ![h].rooms = R, ![h].seen = seen]
  BY DEF ReplanRound
<1>2. Sound(R, Still(replan[h].people)) /\ R \in SUBSET Room /\ Apart(R)
  BY StillThere, GeneratedForSound
<1>3. replan \in [Editors -> ReplanState] /\ replan[h].at = "round" /\ replan[h].next # 0
  BY DEF PlanTypeOK, ReplansOK, ReplanRound
<1>4. replan[h].next \in Rounds
  BY <1>3, RoundsAre DEF ReplanState
<1>5. seen \in SUBSET Room
  BY <1>4 DEF PlanTypeOK
<1> HIDE DEF seen
<1> DEFINE new == [[[replan[h] EXCEPT !.at = "commit"] EXCEPT !.rooms = R] EXCEPT !.seen = seen]
<1>6. new \in ReplanState /\ new.rooms = R /\ new.next = replan[h].next
  BY <1>2, <1>3, <1>5 DEF ReplanState
<1>7. replan' = [replan EXCEPT ![h] = new]
  BY <1>1, <1>3
<1> HIDE DEF new
<1>8. \A g \in Editors : replan'[g] = IF g = h THEN new ELSE replan[g]
  BY <1>3, <1>7
<1>9. replan' \in [Editors -> ReplanState]
  BY <1>3, <1>6, <1>7
<1>10. ReplansOK(replan')
  BY <1>2, <1>3, <1>6, <1>8, <1>9 DEF PlanTypeOK, ReplansOK
<1> QED BY <1>2, <1>6, <1>8, <1>10

\* A replanning that commits a round: what is there now besides its own rows
\* makes the round a torn one; the edits of the round have forgotten the rest.
LEMMA CommitIs ==
  ASSUME PlanTypeOK, NEW h \in Editors, ReplanCommits(h)
  PROVE  LET q == replan[h].next IN
         /\ q \in Rounds
         /\ plan' \in [Rounds -> SUBSET Room] /\ EditsOK(edit') /\ ReplansOK(replan') /\ torn' \in SUBSET Rounds
         /\ \A g \in Editors : edit'[g].round = edit[g].round
         /\ \A g \in Editors : replan'[g].rooms = {} \/ replan'[g].rooms = replan[g].rooms
         /\ \/ UNCHANGED <<plan, shown, edit, torn>>
            \/ /\ shown' = Redone({q})
               /\ \A r \in Rounds \ {q} :
                    /\ plan'[r] = plan[r] /\ (r \in torn' <=> r \in torn)
                    /\ \A g \in Editors : edit[g].round = r => edit'[g] = edit[g]
               /\ \/ q \in torn'
                  \/ /\ q \notin torn' /\ plan'[q] = replan[h].rooms
                     /\ \A g \in Editors : edit[g].round = q =>
                          \A i \in 1..Len(edit'[g].todo) : edit'[g].todo[i].row = Gone
<1> DEFINE q == replan[h].next
           rooms == replan[h].rooms
           kept == plan[q] \ replan[h].seen
<1>1. replan \in [Editors -> ReplanState] /\ replan[h] \in ReplanState /\ q # 0 /\ Apart(rooms)
  BY DEF PlanTypeOK, ReplansOK, ReplanCommits
<1>2. q \in Rounds /\ q \in 1..PlannedTotal
  BY <1>1, RoundsAre DEF ReplanState
<1>3. rooms \in SUBSET Room /\ kept \in SUBSET Room /\ kept \cup rooms \in SUBSET Room
  BY <1>1, <1>2 DEF PlanTypeOK, ReplanState
<1>4. /\ ReplansOK(replan')
      /\ \A g \in Editors : replan'[g].rooms = {} \/ replan'[g].rooms = replan[g].rooms
  <2> DEFINE new == IF q = PlannedTotal THEN NoReplan
                    ELSE [replan[h] EXCEPT !.at = "round", !.next = q + 1, !.rooms = {}, !.seen = {}]
  <2>1. replan' = [replan EXCEPT ![h] = new]
    BY DEF ReplanCommits
  <2>2. new \in ReplanState /\ new.rooms = {} /\ (new.at # "idle" => new.next # 0)
    <3>1. NoReplan \in ReplanState /\ NoReplan.rooms = {} /\ NoReplan.at = "idle"
      BY RoundsAre DEF NoReplan, ReplanState
    <3>2. CASE q # PlannedTotal
      <4> DEFINE on == [replan[h] EXCEPT !.at = "round", !.next = q + 1, !.rooms = {}, !.seen = {}]
      <4>1. q + 1 \in 1..PlannedTotal /\ q + 1 \in 0..PlannedTotal /\ q + 1 # 0
        BY <1>2, <3>2, RoundsAre
      <4> HIDE DEF q
      <4>2. on \in ReplanState /\ on.rooms = {} /\ on.next = q + 1
        BY <1>1, <4>1 DEF ReplanState
      <4>3. new = on
        BY <3>2
      <4> HIDE DEF on, new
      <4> QED BY <4>1, <4>2, <4>3
    <3>3. CASE q = PlannedTotal
      BY <3>1, <3>3
    <3> QED BY <3>2, <3>3
  <2> HIDE DEF new
  <2>3. \A g \in Editors : replan'[g] = IF g = h THEN new ELSE replan[g]
    BY <1>1, <2>1
  <2>4. replan' \in [Editors -> ReplanState]
    BY <1>1, <2>1, <2>2
  <2>5. Apart({})
    BY DEF Apart
  <2> QED BY <2>2, <2>3, <2>4, <2>5 DEF PlanTypeOK, ReplansOK
<1>5. CASE UNCHANGED <<plan, shown, edit, torn>>
  BY <1>2, <1>4, <1>5 DEF PlanTypeOK, EditsOK
<1>6. CASE /\ plan' = [plan EXCEPT ![q] = kept \cup rooms]
           /\ edit' = Forgetting(edit, {q}, kept)
           /\ torn' = IF kept = {} THEN torn \ {q} ELSE torn \cup {q}
           /\ shown' = Redone({q})
  <2> HIDE DEF q, rooms, kept
  <2>1. /\ plan' \in [Rounds -> SUBSET Room] /\ plan'[q] = kept \cup rooms
        /\ \A r \in Rounds \ {q} : plan'[r] = plan[r]
    BY <1>2, <1>3, <1>6 DEF PlanTypeOK
  <2>2. torn' \in SUBSET Rounds /\ \A r \in Rounds \ {q} : r \in torn' <=> r \in torn
    BY <1>2, <1>6 DEF PlanTypeOK
  <2>3. /\ edit' \in [Editors -> EditState]
        /\ \A g \in Editors :
             /\ edit'[g].round = edit[g].round
             /\ Len(edit'[g].todo) = Len(edit[g].todo)
             /\ Len(edit'[g].todo) <= 2
             /\ edit'[g].round = 0 => edit'[g].todo = <<>>
             /\ IF edit[g].round \in {q}
                THEN \A i \in 1..Len(edit[g].todo) : edit'[g].todo[i].row = Gone \/ edit[g].todo[i].row \in kept
                ELSE edit'[g] = edit[g]
    BY <1>6, ForgettingIs DEF PlanTypeOK
  <2>4. EditsOK(edit')
    BY <2>3 DEF EditsOK
  <2>5. \A r \in Rounds \ {q} :
          /\ plan'[r] = plan[r] /\ (r \in torn' <=> r \in torn)
          /\ \A g \in Editors : edit[g].round = r => edit'[g] = edit[g]
    <3> TAKE r \in Rounds \ {q}
    <3>1. ASSUME NEW g \in Editors, edit[g].round = r PROVE edit'[g] = edit[g]
      BY <2>3, <3>1
    <3> QED BY <2>1, <2>2, <3>1
  <2>6. \/ q \in torn'
        \/ /\ q \notin torn' /\ plan'[q] = rooms
           /\ \A g \in Editors : edit[g].round = q =>
                \A i \in 1..Len(edit'[g].todo) : edit'[g].todo[i].row = Gone
    <3>1. CASE kept # {}
      BY <1>6, <3>1
    <3>2. CASE kept = {}
      <4>1. q \notin torn' /\ plan'[q] = rooms
        BY <1>6, <2>1, <3>2
      <4>2. ASSUME NEW g \in Editors, edit[g].round = q
            PROVE  \A i \in 1..Len(edit'[g].todo) : edit'[g].todo[i].row = Gone
        BY <2>3, <3>2, <4>2
      <4> QED BY <4>1, <4>2
    <3> QED BY <3>1, <3>2
  <2> QED BY <1>2, <1>4, <1>6, <2>1, <2>2, <2>3, <2>4, <2>5, <2>6 DEF q, rooms
<1> QED BY <1>5, <1>6 DEF ReplanCommits

-----------------------------------------------------------------------------
(* The edits *)

\* Somebody put in somebody's place.
LEMMA InPlaceIs ==
  ASSUME NEW m \in Room, NEW a \in Members(m), NEW b \in Participants, Cardinality(InPlace(m, a, b).pair) = 2
  PROVE  InPlace(m, a, b) \in Room /\ Members(InPlace(m, a, b)) = (Members(m) \ {a}) \cup {b}
<1> DEFINE put(S) == IF a \in S THEN (S \ {a}) \cup {b} ELSE S
<1>1. InPlace(m, a, b) = [pair |-> put(m.pair), third |-> put(m.third)]
  BY DEF InPlace
<1>2. m.pair \subseteq Participants /\ m.third \in {{}} \cup {{p} : p \in Participants}
  BY PairIsTwo DEF Room
<1>3. put(m.pair) \in Pairs
  <2>1. put(m.pair) \subseteq Participants
    BY <1>2
  <2>2. Cardinality(put(m.pair)) = 2
    BY <1>1
  <2> HIDE DEF put
  <2> QED BY <2>1, <2>2 DEF Pairs, kSubset
<1>4. put(m.third) \in {{}} \cup {{p} : p \in Participants}
  <2>1. CASE m.third = {}
    BY <2>1
  <2>2. CASE m.third # {}
    <3>1. PICK x \in Participants : m.third = {x}
      BY <1>2, <2>2
    <3>2. put(m.third) = IF x = a THEN {b} ELSE {x}
      BY <3>1
    <3> QED BY <3>1, <3>2
  <2> QED BY <2>1, <2>2
<1>5. put(m.pair) \cup put(m.third) = ((m.pair \cup m.third) \ {a}) \cup {b}
  BY DEF Members
<1> HIDE DEF put
<1> QED BY <1>1, <1>3, <1>4, <1>5 DEF Room, Members

\* What is left of a room somebody is taken out of.
LEMMA WithoutIs ==
  ASSUME NEW m \in Room, NEW a, m.third # {} => Cardinality(Without(m, a).pair) = 2
  PROVE  Without(m, a) \in Room \cup {Gone} /\ Members(Without(m, a)) \subseteq Members(m)
<1>1. CASE m.third = {}
  BY <1>1 DEF Without, Gone, Members
<1>2. CASE m.third # {}
  <2> DEFINE s == Members(m) \ {a}
  <2>1. Without(m, a) = PairRoom(s) /\ Without(m, a).pair = s
    BY <1>2 DEF Without, PairRoom
  <2>2. s \subseteq Participants /\ Cardinality(s) = 2
    BY <1>2, <2>1, MembersAre
  <2>3. s \in Pairs
    <3> HIDE DEF s
    <3> QED BY <2>2 DEF Pairs, kSubset
  <2> QED BY <2>1, <2>3, PairRoomIs
<1> QED BY <1>1, <1>2

\* A swap writes two rows, an exclusion one.
LEMMA SwapIs ==
  ASSUME PlanTypeOK, NEW h \in Editors, HostSwapMatch(h)
  PROVE  \E m, n \in plan[round] : \E a \in Members(m), b \in Members(n) :
           /\ m # n /\ round \in Rounds
           /\ InPlace(m, a, b) \in Room /\ Members(InPlace(m, a, b)) = (Members(m) \ {a}) \cup {b}
           /\ InPlace(n, b, a) \in Room /\ Members(InPlace(n, b, a)) = (Members(n) \ {b}) \cup {a}
           /\ \A other \in plan[round] \ {m, n} :
                /\ Members(InPlace(m, a, b)) \cap Members(other) = {}
                /\ Members(InPlace(n, b, a)) \cap Members(other) = {}
           /\ Begin(h, SwapWrites(m, n, a, b))
<1>1. round \in Rounds
  BY DEF HostSwapMatch
<1>2. PICK m \in plan[round], n \in plan[round] : \E a \in Members(m), b \in Members(n) :
        /\ m # n
        /\ \A room \in {InPlace(m, a, b), InPlace(n, b, a)} : Valid(room, round, {m, n})
        /\ Begin(h, SwapWrites(m, n, a, b))
  BY DEF HostSwapMatch
<1>3. PICK a \in Members(m), b \in Members(n) :
        /\ m # n
        /\ \A room \in {InPlace(m, a, b), InPlace(n, b, a)} : Valid(room, round, {m, n})
        /\ Begin(h, SwapWrites(m, n, a, b))
  BY <1>2
<1>4. m \in Room /\ n \in Room
  BY <1>1 DEF PlanTypeOK
<1>5. a \in Participants /\ b \in Participants
  BY <1>4, MembersAre
<1>6. Valid(InPlace(m, a, b), round, {m, n}) /\ Valid(InPlace(n, b, a), round, {m, n})
  BY <1>3
<1>7. /\ InPlace(m, a, b) \in Room /\ Members(InPlace(m, a, b)) = (Members(m) \ {a}) \cup {b}
      /\ InPlace(n, b, a) \in Room /\ Members(InPlace(n, b, a)) = (Members(n) \ {b}) \cup {a}
  BY <1>4, <1>5, <1>6, InPlaceIs DEF Valid
<1> QED BY <1>1, <1>3, <1>6, <1>7 DEF Valid

\* An exclusion writes one row: what is left of a room without somebody.
LEMMA ExcludeIs ==
  ASSUME PlanTypeOK, NEW h \in Editors, HostExcludeFromRound(h)
  PROVE  \E m \in plan[round] : \E a \in Members(m) :
           /\ round \in Rounds
           /\ Without(m, a) \in Room \cup {Gone} /\ Members(Without(m, a)) \subseteq Members(m)
           /\ Begin(h, <<[row |-> m, new |-> Without(m, a)]>>)
<1>1. round \in Rounds
  BY DEF HostExcludeFromRound
<1>2. PICK m \in plan[round] : \E a \in Members(m) :
        /\ m.third # {} => Valid(Without(m, a), round, {m})
        /\ Begin(h, <<[row |-> m, new |-> Without(m, a)]>>)
  BY DEF HostExcludeFromRound
<1>3. PICK a \in Members(m) :
        /\ m.third # {} => Valid(Without(m, a), round, {m})
        /\ Begin(h, <<[row |-> m, new |-> Without(m, a)]>>)
  BY <1>2
<1>4. m \in Room
  BY <1>1 DEF PlanTypeOK
<1>5. Without(m, a) \in Room \cup {Gone} /\ Members(Without(m, a)) \subseteq Members(m)
  BY <1>3, <1>4, WithoutIs DEF Valid
<1> QED BY <1>1, <1>3, <1>5

\* An edit begins with one or two writes of rows of the round to come.
LEMMA BeginType ==
  ASSUME PlanTypeOK, NEW h \in Editors, NEW todo \in Seq(RowWrite), Len(todo) <= 2, Begin(h, todo), round \in Rounds
  PROVE  PlanTypeOK'
<1>1. [round |-> round, todo |-> todo] \in EditState
  BY RoundsAre DEF EditState
<1>2. round # 0
  BY RoundsAre
<1>3. EditsOK(edit')
  BY <1>1, <1>2 DEF Begin, PlanTypeOK, EditsOK
<1>4. spent' \in [edits : Nat, moves : Nat]
  BY DEF Begin, PlanTypeOK
<1>5. UNCHANGED <<setting, present, round, plan, shown, replan, torn>>
  BY DEF Begin
<1> QED BY <1>3, <1>4, <1>5 DEF PlanTypeOK, EditsOK

\* A swap that begins keeps the types.
LEMMA SwapType == ASSUME PlanTypeOK, NEW h \in Editors, HostSwapMatch(h) PROVE PlanTypeOK'
<1>1. PICK m \in plan[round], n \in plan[round] : \E a \in Members(m), b \in Members(n) :
        /\ round \in Rounds
        /\ InPlace(m, a, b) \in Room /\ InPlace(n, b, a) \in Room
        /\ Begin(h, SwapWrites(m, n, a, b))
  BY SwapIs
<1>2. PICK a \in Members(m), b \in Members(n) :
        /\ round \in Rounds
        /\ InPlace(m, a, b) \in Room /\ InPlace(n, b, a) \in Room
        /\ Begin(h, SwapWrites(m, n, a, b))
  BY <1>1
<1>3. m \in Room /\ n \in Room
  BY <1>2 DEF PlanTypeOK
<1>4. SwapWrites(m, n, a, b) \in Seq(RowWrite) /\ Len(SwapWrites(m, n, a, b)) <= 2
  BY <1>2, <1>3 DEF SwapWrites, RowWrite
<1> QED BY <1>2, <1>4, BeginType

\* So does an exclusion.
LEMMA ExcludeType == ASSUME PlanTypeOK, NEW h \in Editors, HostExcludeFromRound(h) PROVE PlanTypeOK'
<1>1. PICK m \in plan[round] : \E a \in Members(m) :
        /\ round \in Rounds /\ Without(m, a) \in Room \cup {Gone}
        /\ Begin(h, <<[row |-> m, new |-> Without(m, a)]>>)
  BY ExcludeIs
<1>2. PICK a \in Members(m) :
        /\ round \in Rounds /\ Without(m, a) \in Room \cup {Gone}
        /\ Begin(h, <<[row |-> m, new |-> Without(m, a)]>>)
  BY <1>1
<1>3. m \in Room
  BY <1>2 DEF PlanTypeOK
<1>4. <<[row |-> m, new |-> Without(m, a)]>> \in Seq(RowWrite) /\ Len(<<[row |-> m, new |-> Without(m, a)]>>) <= 2
  BY <1>2, <1>3 DEF RowWrite
<1> QED BY <1>2, <1>4, BeginType

\* What a write makes of the rows of a round.
Written(rooms, w) ==
  IF w.row \in rooms THEN (rooms \ {w.row}) \cup ({w.new} \ {Gone}) ELSE rooms

\* A write leaves rooms.
LEMMA WrittenType ==
  ASSUME NEW rooms \in SUBSET Room, NEW w \in RowWrite
  PROVE  Written(rooms, w) \in SUBSET Room
BY DEF Written, RowWrite

\* A write changes one row of one round, and the rest of the edit is left.
LEMMA WriteRowIs ==
  ASSUME PlanTypeOK, NEW h \in Editors, WriteRow(h)
  PROVE  /\ edit[h].round \in Rounds /\ edit[h].todo # <<>>
         /\ Head(edit[h].todo) \in RowWrite
         /\ plan' = [plan EXCEPT ![edit[h].round] = Written(@, Head(edit[h].todo))]
         /\ plan' \in [Rounds -> SUBSET Room]
         /\ edit'[h] = [edit[h] EXCEPT !.todo = Tail(@)]
         /\ EditsOK(edit')
         /\ \A g \in Editors : edit'[g].round = edit[g].round
<1> DEFINE r == edit[h].round
           w == Head(edit[h].todo)
           follow(x) == IF x.row = w.row THEN [x EXCEPT !.row = w.new] ELSE x
<1>1. edit[h] \in EditState /\ edit[h].todo # <<>> /\ edit[h].todo \in Seq(RowWrite) /\ Len(edit[h].todo) <= 2
  BY DEF WriteRow, PlanTypeOK, EditState
<1>2. r \in Rounds
  BY <1>1, RoundsAre DEF PlanTypeOK, EditState
<1>3. w \in RowWrite
  BY <1>1
<1>4. plan' = [plan EXCEPT ![r] = Written(@, w)]
  <2>1. plan' = IF w.row \in plan[r]
                THEN [plan EXCEPT ![r] = (@ \ {w.row}) \cup ({w.new} \ {Gone})] ELSE plan
    BY DEF WriteRow
  <2> QED BY <1>2, <2>1 DEF Written, PlanTypeOK
<1>5. plan' \in [Rounds -> SUBSET Room]
  <2>1. Written(plan[r], w) \in SUBSET Room
    BY <1>2, <1>3, WrittenType DEF PlanTypeOK
  <2> HIDE DEF r, w
  <2> QED BY <1>2, <1>4, <2>1 DEF PlanTypeOK
<1>6. edit' = [g \in Editors |->
                 IF g = h THEN [edit[h] EXCEPT !.todo = Tail(@)]
                 ELSE IF edit[g].round = r
                      THEN [edit[g] EXCEPT !.todo = [i \in DOMAIN @ |-> follow(@[i])]]
                      ELSE edit[g]]
  BY DEF WriteRow
<1>7. edit'[h] = [edit[h] EXCEPT !.todo = Tail(@)]
  BY <1>6
<1>8. ASSUME NEW g \in Editors
      PROVE  /\ edit'[g] \in EditState /\ edit'[g].round = edit[g].round
             /\ Len(edit'[g].todo) <= 2
             /\ edit'[g].round = 0 => edit'[g].todo = <<>>
  <2>0. edit[g] \in EditState /\ edit[g].todo \in Seq(RowWrite) /\ Len(edit[g].todo) <= 2
        /\ (edit[g].round = 0 => edit[g].todo = <<>>)
    BY DEF PlanTypeOK, EditState
  <2>1. CASE g = h
    <3>1. Tail(edit[h].todo) \in Seq(RowWrite) /\ Len(Tail(edit[h].todo)) <= 2
      BY <1>1
    <3>2. edit'[h].todo = Tail(edit[h].todo) /\ edit'[h].round = edit[h].round /\ edit'[h] \in EditState
      BY <1>1, <1>7, <3>1 DEF EditState
    <3>3. edit[h].round # 0
      BY <1>2, RoundsAre
    <3> QED BY <2>1, <3>1, <3>2, <3>3
  <2>2. CASE g # h /\ edit[g].round = r
    <3> DEFINE s == edit[g].todo
               t == [i \in DOMAIN s |-> follow(s[i])]
    <3>1. Len(s) \in Nat /\ DOMAIN s = 1..Len(s) /\ \A i \in 1..Len(s) : s[i] \in RowWrite
      BY <2>0
    <3>2. \A x \in RowWrite : follow(x) \in RowWrite
      BY <1>3 DEF RowWrite
    <3>3. t \in [1..Len(s) -> RowWrite]
      <4> HIDE DEF follow, s
      <4> QED BY <3>1, <3>2
    <3>4. t \in Seq(RowWrite) /\ Len(t) = Len(s)
      <4> HIDE DEF t, s
      <4> QED BY <3>1, <3>3, WritesAsSeq
    <3>5. edit'[g] = [edit[g] EXCEPT !.todo = t]
      BY <1>6, <2>2
    <3> HIDE DEF t
    <3>6. edit'[g] \in EditState /\ edit'[g].round = edit[g].round /\ edit'[g].todo = t
      BY <2>0, <3>4, <3>5 DEF EditState
    <3>7. edit[g].round # 0
      BY <1>2, <2>2, RoundsAre
    <3> QED BY <2>0, <3>4, <3>6, <3>7
  <2>3. CASE g # h /\ edit[g].round # r
    <3>1. edit'[g] = edit[g]
      BY <1>6, <2>3
    <3> QED BY <2>0, <3>1
  <2> QED BY <2>1, <2>2, <2>3
<1>9. edit' \in [Editors -> EditState]
  <2>1. edit' = [g \in Editors |-> edit'[g]]
    BY <1>6
  <2> QED BY <1>8, <2>1
<1>10. EditsOK(edit')
  BY <1>8, <1>9 DEF EditsOK
<1> QED BY <1>1, <1>2, <1>3, <1>4, <1>5, <1>7, <1>8, <1>10

-----------------------------------------------------------------------------
(* Type correctness *)

\* The rounds of the plan made when the event starts.
LEMMA InitRounds ==
  ASSUME PlanInit
  PROVE  /\ present \in SUBSET Participants /\ setting \in Setting
         /\ plan \in [Rounds -> SUBSET Room] /\ \A r \in Rounds : Sound(plan[r], present)
<1>1. present \in SUBSET Participants /\ setting \in Setting
  BY PlanAssumption DEF PlanInit
<1>2. Sound({}, present) /\ {} \in SUBSET Room
  BY DEF Sound, Apart, Placed
<1>3. CASE plan = [r \in Rounds |-> {}]
  BY <1>1, <1>2, <1>3
<1>4. CASE \E S \in Schedules(PlannedTotal, PlanInput) :
             plan = [r \in Rounds |-> IF r <= PlannedTotal THEN S[r] ELSE {}]
  <2>1. PICK S \in Schedules(PlannedTotal, PlanInput) :
          plan = [r \in Rounds |-> IF r <= PlannedTotal THEN S[r] ELSE {}]
    BY <1>4
  <2>2. PlanInput \in Inputs /\ PlanInput.people = present
    BY <1>1 DEF PlanInput, Inputs, History, Setting
  <2>3. ASSUME NEW r \in 1..PlannedTotal PROVE Sound(S[r], present)
    <3> DEFINE ask == [PlanInput EXCEPT !.used = @ \cup PairsBefore(S, r)]
    <3>1. S[r] \in EngineRounds(ask)
      BY DEF Schedules
    <3>2. ask.people = present
      BY <2>2 DEF Inputs
    <3> HIDE DEF ask
    <3> QED BY <1>1, <3>1, <3>2, EngineSound
  <2>4. \A r \in Rounds : r <= PlannedTotal => r \in 1..PlannedTotal
    BY RoundsAre
  <2>5. \A r \in Rounds : Sound(plan[r], present)
    BY <1>2, <2>1, <2>3, <2>4
  <2>6. \A r \in Rounds : plan[r] \in SUBSET Room
    BY <2>5 DEF Sound
  <2>7. plan = [r \in Rounds |-> plan[r]]
    BY <2>1
  <2> QED BY <1>1, <2>5, <2>6, <2>7
<1> QED BY <1>3, <1>4 DEF PlanInit

\* The event starts with the types.
LEMMA InitType == PlanInit => PlanTypeOK
<1> SUFFICES ASSUME PlanInit PROVE PlanTypeOK
  OBVIOUS
<1>1. NoEdit \in EditState /\ Len(NoEdit.todo) = 0 /\ NoEdit.todo = <<>>
  BY RoundsAre DEF NoEdit, EditState
<1>2. round \in 1..(PlannedTotal + 2)
  BY RoundsAre DEF PlanInit
<1>3. Unshown \in ShownState /\ Unshown.by = "none"
  BY DEF Unshown, ShownState
<1>4. edit = [h \in Editors |-> NoEdit]
  BY DEF PlanInit
<1>5. edit \in [Editors -> EditState]
      /\ \A h \in Editors : Len(edit[h].todo) <= 2 /\ (edit[h].round = 0 => edit[h].todo = <<>>)
  BY <1>1, <1>4
<1>6. shown = Unshown /\ spent \in [edits : Nat, moves : Nat]
  BY DEF PlanInit
<1>7. ReplansOK(replan) /\ torn \in SUBSET Rounds
  <2>1. NoReplan \in ReplanState /\ NoReplan.at = "idle" /\ Apart(NoReplan.rooms)
    BY RoundsAre DEF NoReplan, ReplanState, Apart
  <2>2. replan = [h \in Editors |-> NoReplan] /\ torn = {}
    BY DEF PlanInit
  <2> QED BY <2>1, <2>2 DEF ReplansOK
<1> QED BY <1>2, <1>3, <1>5, <1>6, <1>7, InitRounds DEF PlanTypeOK

\* A preview that was edited, failed or made anew.
LEMMA OtherwiseIs ==
  ASSUME NEW by \in {"failed", "edit", "replan"}
  PROVE  Otherwise(by) \in ShownState /\ Otherwise(by).by = by
BY DEF Otherwise, Unshown, ShownState

\* A preview that was asked for.
LEMMA ShowingIs ==
  ASSUME PlanTypeOK, NEW by \in {"match", "rematch"}, NEW before \in SUBSET Room, NEW mixed \in BOOLEAN
  PROVE  /\ Showing(by, before, mixed) \in ShownState
         /\ Showing(by, before, mixed).by = by /\ Showing(by, before, mixed).people = present
         /\ Showing(by, before, mixed).met = Played /\ Showing(by, before, mixed).before = before
         /\ Showing(by, before, mixed).mixed = mixed
BY PlayedArePairs DEF Showing, ShownState, PlanTypeOK

\* The preview after some rounds were made anew.
LEMMA RedoneIs ==
  ASSUME PlanTypeOK, NEW R
  PROVE  /\ Redone(R) \in ShownState /\ (Redone(R).by # "none" => shown.by # "none")
         /\ Redone(R).by \in {"match", "rematch"} => Redone(R) = shown /\ round \notin R
<1>1. shown \in ShownState
  BY DEF PlanTypeOK
<1> QED BY <1>1, OtherwiseIs DEF Redone

\* The preview after a round was matched.
LEMMA MatchShown ==
  ASSUME PlanTypeOK, MatchPeople
  PROVE  \/ shown' = Showing("match", {}, FALSE)
         \/ shown' = shown /\ shown.by = "none"
         \/ shown' = Otherwise("failed")
BY DEF MatchPeople

\* Every step leaves a preview of its type, and of a round.
LEMMA ShownType ==
  ASSUME PlanTypeOK, PlanNext
  PROVE  shown' \in ShownState /\ (shown'.by # "none" => round' \in Rounds)
<1>0. shown \in ShownState /\ (shown.by # "none" => round \in Rounds)
  BY DEF PlanTypeOK
<1>1. CASE MatchPeople
  <2>1. round \in Rounds /\ round' = round
    BY <1>1 DEF MatchPeople
  <2>2. Showing("match", {}, FALSE) \in ShownState
    BY ShowingIs
  <2> QED BY <1>0, <1>1, <2>1, <2>2, OtherwiseIs, MatchShown
<1>2. CASE Rematch
  <2>1. round \in Rounds /\ round' = round
    BY <1>0, <1>2 DEF Rematch
  <2>2. plan[round] \in SUBSET Room
    BY <2>1 DEF PlanTypeOK
  <2>3. shown' = Showing("rematch", plan[round], round \in torn)
    BY <1>2 DEF Rematch
  <2> QED BY <2>1, <2>2, <2>3, PlayedArePairs DEF Showing, ShownState, PlanTypeOK
<1>3. CASE PlayRound
  BY <1>3 DEF PlayRound, Unshown, ShownState
<1>4. CASE Move
  BY <1>0, <1>4 DEF Move
<1>5. ASSUME NEW R, shown' = Redone(R), round' = round
      PROVE  shown' \in ShownState /\ (shown'.by # "none" => round' \in Rounds)
  BY <1>0, <1>5, RedoneIs
<1>6. CASE RepairRounds
  <2>1. round' = round /\ shown' = Redone(Repaired(round))
    BY <1>6 DEF RepairRounds
  <2> QED BY <1>5, <2>1
<1>7. ASSUME NEW h \in Editors, HostSwapMatch(h) \/ HostExcludeFromRound(h)
      PROVE  shown' \in ShownState /\ (shown'.by # "none" => round' \in Rounds)
  <2>1. shown' = shown /\ round' = round
    BY <1>7 DEF HostSwapMatch, HostExcludeFromRound, Begin
  <2> QED BY <1>0, <2>1
<1>8. ASSUME NEW h \in Editors, WriteRow(h)
      PROVE  shown' \in ShownState /\ (shown'.by # "none" => round' \in Rounds)
  <2>1. edit[h].round \in Rounds
    BY <1>8, WriteRowIs
  <2>2. round' = round /\ (shown' = shown \/ (shown' = Otherwise("edit") /\ edit[h].round = round))
    BY <1>8 DEF WriteRow
  <2> QED BY <1>0, <2>1, <2>2, OtherwiseIs
<1>9. ASSUME NEW h \in Editors, Replan(h) \/ ReplanRound(h)
      PROVE  shown' \in ShownState /\ (shown'.by # "none" => round' \in Rounds)
  <2>1. shown' = shown /\ round' = round
    BY <1>9 DEF Replan, ReplanRound
  <2> QED BY <1>0, <2>1
<1>10. ASSUME NEW h \in Editors, ReplanWipes(h)
       PROVE  shown' \in ShownState /\ (shown'.by # "none" => round' \in Rounds)
  <2>1. round' = round /\ shown' = Redone(Repaired(replan[h].next))
    BY <1>10 DEF ReplanWipes
  <2> QED BY <1>5, <2>1
<1>11. ASSUME NEW h \in Editors, ReplanCommits(h)
       PROVE  shown' \in ShownState /\ (shown'.by # "none" => round' \in Rounds)
  <2>1. round' = round /\ (shown' = shown \/ shown' = Redone({replan[h].next}))
    BY <1>11 DEF ReplanCommits
  <2> QED BY <1>0, <1>5, <2>1
<1> QED BY <1>1, <1>2, <1>3, <1>4, <1>6, <1>7, <1>8, <1>9, <1>10, <1>11 DEF PlanNext

\* A step that makes rounds anew keeps the types.
LEMMA ReplacesType ==
  ASSUME PlanTypeOK, PlanNext, Replaces, UNCHANGED <<setting, present, round, spent>>
  PROVE  PlanTypeOK'
BY ShownType DEF PlanTypeOK, Replaces, EditsOK

\* Every step keeps the types.
LEMMA NextType == PlanTypeOK /\ [PlanNext]_planVars => PlanTypeOK'
<1> SUFFICES ASSUME PlanTypeOK, [PlanNext]_planVars PROVE PlanTypeOK'
  OBVIOUS
<1>1. CASE MatchPeople
  <2>1. UNCHANGED <<setting, present, round, spent>>
    BY <1>1 DEF MatchPeople
  <2> QED BY <1>1, <2>1, MatchReplaces, ReplacesType DEF PlanNext
<1>2. CASE Rematch
  <2>1. UNCHANGED <<setting, present, round, spent>>
    BY <1>2 DEF Rematch
  <2> QED BY <1>2, <2>1, RematchReplaces, ReplacesType DEF PlanNext
<1>3. CASE PlayRound
  <2>1. UNCHANGED <<setting, present, plan, edit, replan, torn, spent>> /\ round' = round + 1 /\ shown.by # "none"
    BY <1>3 DEF PlayRound
  <2>2. round \in Rounds
    BY <2>1 DEF PlanTypeOK
  <2>3. round' \in 1..(PlannedTotal + 2)
    BY <2>1, <2>2, RoundsAre
  <2>4. shown' \in ShownState /\ (shown'.by # "none" => round' \in Rounds)
    BY <1>3, ShownType DEF PlanNext
  <2> QED BY <2>1, <2>3, <2>4 DEF PlanTypeOK
<1>4. CASE Move
  <2>1. UNCHANGED <<setting, round, plan, shown, edit, replan, torn>> /\ present' \in SUBSET Participants
    BY <1>4 DEF Move, PlanTypeOK
  <2>2. spent' \in [edits : Nat, moves : Nat]
    BY <1>4 DEF Move, PlanTypeOK
  <2> QED BY <2>1, <2>2 DEF PlanTypeOK
<1>5. CASE RepairRounds
  <2>1. UNCHANGED <<setting, present, round, spent>>
    BY <1>5 DEF RepairRounds
  <2> QED BY <1>5, <2>1, RepairReplaces, ReplacesType DEF PlanNext
<1>6. ASSUME NEW h \in Editors, HostSwapMatch(h) PROVE PlanTypeOK'
  BY <1>6, SwapType
<1>7. ASSUME NEW h \in Editors, HostExcludeFromRound(h) PROVE PlanTypeOK'
  BY <1>7, ExcludeType
<1>8. ASSUME NEW h \in Editors, WriteRow(h) PROVE PlanTypeOK'
  <2>1. UNCHANGED <<setting, present, round, replan, torn, spent>>
    BY <1>8 DEF WriteRow
  <2>2. plan' \in [Rounds -> SUBSET Room] /\ EditsOK(edit')
    BY <1>8, WriteRowIs
  <2>3. shown' \in ShownState /\ (shown'.by # "none" => round' \in Rounds)
    BY <1>8, ShownType DEF PlanNext
  <2> QED BY <2>1, <2>2, <2>3 DEF PlanTypeOK, EditsOK
<1>9. ASSUME NEW h \in Editors, Replan(h) PROVE PlanTypeOK'
  <2>1. UNCHANGED <<setting, present, round, plan, shown, torn, spent>>
    BY <1>9 DEF Replan
  <2>2. NoEdit \in EditState /\ Len(NoEdit.todo) = 0 /\ NoEdit.todo = <<>>
    BY RoundsAre DEF NoEdit, EditState
  <2>3. EditsOK(edit')
    <3>1. edit' = [edit EXCEPT ![h] = NoEdit]
      BY <1>9 DEF Replan
    <3> QED BY <2>2, <3>1 DEF PlanTypeOK, EditsOK
  <2>4. ReplansOK(replan')
    BY <1>9, ReplanIs
  <2> QED BY <2>1, <2>3, <2>4 DEF PlanTypeOK, EditsOK
<1>10. ASSUME NEW h \in Editors, ReplanWipes(h) PROVE PlanTypeOK'
  <2>1. UNCHANGED <<setting, present, round, spent>>
    BY <1>10 DEF ReplanWipes
  <2> QED BY <1>10, <2>1, WipeReplaces, ReplacesType DEF PlanNext
<1>11. ASSUME NEW h \in Editors, ReplanRound(h) PROVE PlanTypeOK'
  <2>1. UNCHANGED <<setting, present, round, plan, shown, edit, torn, spent>>
    BY <1>11 DEF ReplanRound
  <2> QED BY <1>11, <2>1, RoundIs DEF PlanTypeOK
<1>12. ASSUME NEW h \in Editors, ReplanCommits(h) PROVE PlanTypeOK'
  <2>1. UNCHANGED <<setting, present, round, spent>>
    BY <1>12 DEF ReplanCommits
  <2>2. plan' \in [Rounds -> SUBSET Room] /\ EditsOK(edit') /\ ReplansOK(replan') /\ torn' \in SUBSET Rounds
    BY <1>12, CommitIs
  <2>3. shown' \in ShownState /\ (shown'.by # "none" => round' \in Rounds)
    BY <1>12, ShownType DEF PlanNext
  <2> QED BY <2>1, <2>2, <2>3 DEF PlanTypeOK, EditsOK
<1>13. CASE UNCHANGED planVars
  BY <1>13 DEF planVars, PlanTypeOK
<1> QED BY <1>1, <1>2, <1>3, <1>4, <1>5, <1>6, <1>7, <1>8, <1>9, <1>10, <1>11, <1>12, <1>13 DEF PlanNext

\* The plan, the preview and the edits under way keep their types, whatever
\* the generations, the edits, the repairs and the moves do to each other:
\* an edit never writes more than two rows, or a row that is no room.
THEOREM TypeCorrect == PlanSpec => []PlanTypeOK
<1>1. PlanTypeOK /\ [PlanNext]_planVars => PlanTypeOK'
  BY NextType
<1> QED BY <1>1, InitType, PTL DEF PlanSpec

-----------------------------------------------------------------------------
(* Nobody is in two rooms, where one host edits at a time *)

\* What the writes still to do make of the rows.
After(rooms, todo) ==
  CASE Len(todo) = 0 -> rooms
    [] Len(todo) = 1 -> Written(rooms, todo[1])
    [] OTHER -> Written(Written(rooms, todo[1]), todo[2])

\* A round that no edit is under way for and that is not torn keeps people
\* apart, and so does one an edit is under way for when that edit is done.
RoomsInv ==
  /\ NobodyInTwoRooms
  /\ \A h \in Editors : edit[h].round \in Rounds /\ edit[h].round \notin torn =>
       Apart(After(plan[edit[h].round], edit[h].todo))

\* One host edits at a time.
OneEditor == \A g, h \in Editors : g = h

\* A number up to two.
LEMMA UpToTwo ==
  ASSUME NEW n \in Nat, n <= 2
  PROVE  n = 0 \/ n = 1 \/ n = 2
OBVIOUS

\* A sequence of one or two.
LEMMA ShortSeq ==
  ASSUME NEW S, NEW s \in Seq(S), Len(s) = 2
  PROVE  Len(Tail(s)) = 1 /\ Tail(s)[1] = s[2]
<1>1. s # <<>>
  OBVIOUS
<1>2. Len(Tail(s)) = 1 /\ \A i \in 1..Len(Tail(s)) : Tail(s)[i] = s[i + 1]
  BY <1>1, HeadTailProperties
<1> QED BY <1>2

\* A write of a row that is forgotten changes nothing.
LEMMA ForgottenWrites ==
  ASSUME NEW rooms \in SUBSET Room, NEW todo \in Seq(RowWrite), Len(todo) <= 2,
         \A i \in 1..Len(todo) : todo[i].row = Gone
  PROVE  After(rooms, todo) = rooms
<1>1. Gone \notin Room
  BY PairIsTwo DEF Gone, Room
<1>2. \A w \in RowWrite : w.row = Gone => Written(rooms, w) = rooms
  BY <1>1 DEF Written
<1>3. Len(todo) \in {0, 1, 2}
  <2>1. Len(todo) \in Nat
    OBVIOUS
  <2> QED BY <2>1, UpToTwo
<1>4. CASE Len(todo) = 0
  BY <1>4 DEF After
<1>5. CASE Len(todo) = 1
  <2>1. todo[1] \in RowWrite /\ todo[1].row = Gone
    BY <1>5
  <2> QED BY <1>2, <1>5, <2>1 DEF After
<1>6. CASE Len(todo) = 2
  <2>1. todo[1] \in RowWrite /\ todo[1].row = Gone /\ todo[2] \in RowWrite /\ todo[2].row = Gone
    BY <1>6
  <2>2. Written(rooms, todo[1]) = rooms /\ Written(rooms, todo[2]) = rooms
    BY <1>2, <2>1
  <2> QED BY <1>6, <2>2 DEF After
<1> QED BY <1>3, <1>4, <1>5, <1>6

\* A write done now is one fewer to do.
LEMMA AfterHead ==
  ASSUME NEW rooms, NEW todo \in Seq(RowWrite), todo # <<>>, Len(todo) <= 2
  PROVE  After(Written(rooms, Head(todo)), Tail(todo)) = After(rooms, todo)
<1>1. Head(todo) = todo[1] /\ Len(Tail(todo)) = Len(todo) - 1
  OBVIOUS
<1>0. Len(todo) \in {1, 2}
  <2>1. Len(todo) \in Nat /\ Len(todo) # 0
    OBVIOUS
  <2> QED BY <2>1, UpToTwo
<1>2. CASE Len(todo) = 1
  BY <1>1, <1>2 DEF After
<1>3. CASE Len(todo) = 2
  <2>1. Tail(todo)[1] = todo[2]
    BY <1>3, ShortSeq
  <2> QED BY <1>1, <1>3, <2>1 DEF After
<1> QED BY <1>0, <1>2, <1>3

\* A round made anew keeps people apart, whatever is still to be written.
LEMMA RenewedRooms ==
  ASSUME NEW rooms \in SUBSET Room, Apart(rooms), EditsOK(edit'), NEW h \in Editors,
         \A i \in 1..Len(edit'[h].todo) : edit'[h].todo[i].row = Gone
  PROVE  Apart(After(rooms, edit'[h].todo))
<1>1. edit'[h].todo \in Seq(RowWrite) /\ Len(edit'[h].todo) <= 2
  BY DEF EditsOK, EditState
<1> QED BY <1>1, ForgottenWrites

\* So do the rounds that replace others.
LEMMA ReplacesRooms ==
  ASSUME PlanTypeOK, RoomsInv, Replaces
  PROVE  RoomsInv'
<1>1. ASSUME NEW r \in Rounds PROVE (\E h \in Editors : edit'[h].round = r) \/ r \in torn' \/ Apart(plan'[r])
  <2>1. \/ plan'[r] = plan[r] /\ (r \in torn' <=> r \in torn)
        \/ Sound(plan'[r], present)
    BY DEF Replaces
  <2>2. \A h \in Editors : edit'[h].round = edit[h].round
    BY DEF Replaces
  <2>3. (\E h \in Editors : edit[h].round = r) \/ r \in torn \/ Apart(plan[r])
    BY DEF RoomsInv, NobodyInTwoRooms
  <2> QED BY <2>1, <2>2, <2>3 DEF Sound
<1>2. ASSUME NEW h \in Editors, edit'[h].round \in Rounds, edit'[h].round \notin torn'
      PROVE  Apart(After(plan'[edit'[h].round], edit'[h].todo))
  <2>1. edit'[h].round = edit[h].round /\ edit[h].round \in Rounds
    BY <1>2 DEF Replaces
  <2>2. CASE plan'[edit[h].round] = plan[edit[h].round] /\ edit[h].round \notin torn /\ edit'[h] = edit[h]
    BY <2>1, <2>2 DEF RoomsInv
  <2>3. CASE /\ Sound(plan'[edit[h].round], present)
             /\ \A i \in 1..Len(edit'[h].todo) : edit'[h].todo[i].row = Gone
    <3>1. plan'[edit[h].round] \in SUBSET Room /\ Apart(plan'[edit[h].round])
      BY <2>3 DEF Sound
    <3> QED BY <2>1, <2>3, <3>1, RenewedRooms DEF Replaces
  <2> QED BY <1>2, <2>1, <2>2, <2>3 DEF Replaces
<1> QED BY <1>1, <1>2 DEF RoomsInv, NobodyInTwoRooms

\* An edit that begins leaves, when it is done, people apart.
LEMMA BeginRooms ==
  ASSUME PlanTypeOK, RoomsInv, OneEditor, NEW h \in Editors, NEW todo, Begin(h, todo), round \in Rounds,
         Apart(plan[round]) => Apart(After(plan[round], todo))
  PROVE  RoomsInv'
<1>1. /\ edit[h] = NoEdit /\ edit' = [edit EXCEPT ![h] = [round |-> round, todo |-> todo]]
      /\ plan' = plan /\ torn' = torn
  BY DEF Begin
<1>2. edit'[h] = [round |-> round, todo |-> todo] /\ edit[h].round = 0
  BY <1>1 DEF PlanTypeOK, NoEdit
<1>3. \A g \in Editors : g = h
  BY DEF OneEditor
<1>4. \A r \in Rounds : r \in torn \/ Apart(plan[r])
  <2>1. \A r \in Rounds : \A g \in Editors : edit[g].round # r
    BY <1>2, <1>3, RoundsAre
  <2> QED BY <2>1 DEF RoomsInv, NobodyInTwoRooms
<1>5. edit'[h].round \notin torn' => Apart(After(plan'[edit'[h].round], edit'[h].todo))
  BY <1>1, <1>2, <1>4
<1> QED BY <1>1, <1>3, <1>4, <1>5 DEF RoomsInv, NobodyInTwoRooms

\* Two rooms that swap somebody still share nobody.
LEMMA SwapApart ==
  ASSUME NEW R \in SUBSET Room, Apart(R), NEW m \in R, NEW n \in R, m # n,
         NEW a \in Members(m), NEW b \in Members(n), NEW k \in Room, NEW l \in Room,
         Members(k) = (Members(m) \ {a}) \cup {b}, Members(l) = (Members(n) \ {b}) \cup {a},
         \A other \in R \ {m, n} : Members(k) \cap Members(other) = {} /\ Members(l) \cap Members(other) = {}
  PROVE  Apart(After(R, <<[row |-> m, new |-> k], [row |-> n, new |-> l]>>))
<1> DEFINE todo == <<[row |-> m, new |-> k], [row |-> n, new |-> l]>>
<1>1. Len(todo) = 2 /\ todo[1] = [row |-> m, new |-> k] /\ todo[2] = [row |-> n, new |-> l]
  OBVIOUS
<1>2. k # Gone /\ l # Gone
  BY PairIsTwo DEF Gone, Room
<1>3. Written(R, todo[1]) = (R \ {m}) \cup {k}
  BY <1>1, <1>2 DEF Written
<1>4. n \in (R \ {m}) \cup {k}
  OBVIOUS
<1>5. After(R, todo) = (((R \ {m}) \cup {k}) \ {n}) \cup {l}
  <2>1. Written((R \ {m}) \cup {k}, todo[2]) = (((R \ {m}) \cup {k}) \ {n}) \cup {l}
    BY <1>1, <1>2, <1>4 DEF Written
  <2> HIDE DEF todo
  <2>2. After(R, todo) = Written(Written(R, todo[1]), todo[2])
    BY <1>1 DEF After
  <2> QED BY <1>3, <2>1, <2>2, Zenon
<1>6. After(R, todo) \subseteq (R \ {m, n}) \cup {k, l}
  BY <1>5
<1>7. Members(m) \cap Members(n) = {}
  BY DEF Apart
<1>8. Members(k) \cap Members(l) = {}
  BY <1>7
<1> HIDE DEF todo
<1>9. Apart(After(R, todo))
  <2> SUFFICES ASSUME NEW x \in (R \ {m, n}) \cup {k, l}, NEW y \in (R \ {m, n}) \cup {k, l}, x # y
               PROVE  Members(x) \cap Members(y) = {}
    BY <1>6 DEF Apart
  <2> QED BY <1>8 DEF Apart
<1> QED BY <1>9 DEF todo

\* A room somebody is taken out of still shares nobody with the others.
LEMMA ExcludeApart ==
  ASSUME NEW R \in SUBSET Room, Apart(R), NEW m \in R, NEW k, Members(k) \subseteq Members(m)
  PROVE  Apart(After(R, <<[row |-> m, new |-> k]>>))
<1> DEFINE todo == <<[row |-> m, new |-> k]>>
<1>1. Len(todo) = 1 /\ todo[1] = [row |-> m, new |-> k]
  OBVIOUS
<1>2. After(R, todo) \subseteq (R \ {m}) \cup {k}
  <2>1. After(R, todo) = Written(R, todo[1])
    <3> HIDE DEF todo
    <3> QED BY <1>1 DEF After
  <2> QED BY <1>1, <2>1 DEF Written
<1> HIDE DEF todo
<1>3. Apart(After(R, todo))
  <2> SUFFICES ASSUME NEW x \in (R \ {m}) \cup {k}, NEW y \in (R \ {m}) \cup {k}, x # y
               PROVE  Members(x) \cap Members(y) = {}
    BY <1>2 DEF Apart
  <2> QED BY DEF Apart
<1> QED BY <1>3 DEF todo

\* Every step keeps people apart, where one host edits at a time.
LEMMA RoomsNext == PlanTypeOK /\ RoomsInv /\ OneEditor /\ [PlanNext]_planVars => RoomsInv'
<1> SUFFICES ASSUME PlanTypeOK, RoomsInv, OneEditor, [PlanNext]_planVars PROVE RoomsInv'
  OBVIOUS
<1>1. /\ \A r \in Rounds : (\E h \in Editors : edit[h].round = r) \/ r \in torn \/ Apart(plan[r])
      /\ \A h \in Editors : edit[h].round \in Rounds /\ edit[h].round \notin torn =>
           Apart(After(plan[edit[h].round], edit[h].todo))
  BY DEF RoomsInv, NobodyInTwoRooms
<1>2. CASE MatchPeople
  BY <1>2, MatchReplaces, ReplacesRooms
<1>3. CASE Rematch
  BY <1>3, RematchReplaces, ReplacesRooms
<1>4. CASE RepairRounds
  BY <1>4, RepairReplaces, ReplacesRooms
<1>5. ASSUME PlayRound \/ Move \/ (\E h \in Editors : ReplanRound(h)) \/ UNCHANGED planVars PROVE RoomsInv'
  <2>1. UNCHANGED <<plan, edit, torn>>
    BY <1>5 DEF PlayRound, Move, ReplanRound, planVars
  <2> QED BY <2>1 DEF RoomsInv, NobodyInTwoRooms
<1>6. ASSUME NEW h \in Editors, HostSwapMatch(h) PROVE RoomsInv'
  <2>1. PICK m \in plan[round], n \in plan[round] : \E a \in Members(m), b \in Members(n) :
           /\ m # n /\ round \in Rounds
           /\ InPlace(m, a, b) \in Room /\ Members(InPlace(m, a, b)) = (Members(m) \ {a}) \cup {b}
           /\ InPlace(n, b, a) \in Room /\ Members(InPlace(n, b, a)) = (Members(n) \ {b}) \cup {a}
           /\ \A other \in plan[round] \ {m, n} :
                /\ Members(InPlace(m, a, b)) \cap Members(other) = {}
                /\ Members(InPlace(n, b, a)) \cap Members(other) = {}
           /\ Begin(h, SwapWrites(m, n, a, b))
    BY <1>6, SwapIs
  <2>2. PICK a \in Members(m), b \in Members(n) :
           /\ m # n /\ round \in Rounds
           /\ InPlace(m, a, b) \in Room /\ Members(InPlace(m, a, b)) = (Members(m) \ {a}) \cup {b}
           /\ InPlace(n, b, a) \in Room /\ Members(InPlace(n, b, a)) = (Members(n) \ {b}) \cup {a}
           /\ \A other \in plan[round] \ {m, n} :
                /\ Members(InPlace(m, a, b)) \cap Members(other) = {}
                /\ Members(InPlace(n, b, a)) \cap Members(other) = {}
           /\ Begin(h, SwapWrites(m, n, a, b))
    BY <2>1
  <2>3. plan[round] \in SUBSET Room
    BY <2>2 DEF PlanTypeOK
  <2>4. Apart(plan[round]) => Apart(After(plan[round], SwapWrites(m, n, a, b)))
    BY <2>2, <2>3, SwapApart DEF SwapWrites
  <2> QED BY <2>2, <2>4, BeginRooms
<1>7. ASSUME NEW h \in Editors, HostExcludeFromRound(h) PROVE RoomsInv'
  <2>1. PICK m \in plan[round] : \E a \in Members(m) :
           /\ round \in Rounds
           /\ Without(m, a) \in Room \cup {Gone} /\ Members(Without(m, a)) \subseteq Members(m)
           /\ Begin(h, <<[row |-> m, new |-> Without(m, a)]>>)
    BY <1>7, ExcludeIs
  <2>2. PICK a \in Members(m) :
           /\ round \in Rounds
           /\ Without(m, a) \in Room \cup {Gone} /\ Members(Without(m, a)) \subseteq Members(m)
           /\ Begin(h, <<[row |-> m, new |-> Without(m, a)]>>)
    BY <2>1
  <2>3. plan[round] \in SUBSET Room
    BY <2>2 DEF PlanTypeOK
  <2>4. Apart(plan[round]) => Apart(After(plan[round], <<[row |-> m, new |-> Without(m, a)]>>))
    BY <2>2, <2>3, ExcludeApart
  <2> QED BY <2>2, <2>4, BeginRooms
<1>8. ASSUME NEW h \in Editors, WriteRow(h) PROVE RoomsInv'
  <2>1. /\ edit[h].round \in Rounds /\ edit[h].todo # <<>>
        /\ plan' = [plan EXCEPT ![edit[h].round] = Written(@, Head(edit[h].todo))]
        /\ edit'[h] = [edit[h] EXCEPT !.todo = Tail(@)]
        /\ \A g \in Editors : edit'[g].round = edit[g].round
    BY <1>8, WriteRowIs
  <2>0. torn' = torn
    BY <1>8 DEF WriteRow
  <2>2. \A g \in Editors : g = h
    BY DEF OneEditor
  <2>3. edit[h].todo \in Seq(RowWrite) /\ Len(edit[h].todo) <= 2 /\ edit[h] \in EditState
    BY DEF PlanTypeOK, EditState
  <2>4. edit'[h].round = edit[h].round /\ edit'[h].todo = Tail(edit[h].todo)
    BY <2>1, <2>3 DEF EditState
  <2>5. plan'[edit[h].round] = Written(plan[edit[h].round], Head(edit[h].todo))
    BY <2>1 DEF PlanTypeOK
  <2>6. edit'[h].round \notin torn' => Apart(After(plan'[edit'[h].round], edit'[h].todo))
    BY <1>1, <2>0, <2>1, <2>3, <2>4, <2>5, AfterHead
  <2>7. \A r \in Rounds : (\E g \in Editors : edit'[g].round = r) \/ r \in torn' \/ Apart(plan'[r])
    <3> TAKE r \in Rounds
    <3>1. CASE r = edit[h].round
      BY <2>4, <3>1
    <3>2. CASE r # edit[h].round
      <4>1. plan'[r] = plan[r]
        BY <2>1, <3>2 DEF PlanTypeOK
      <4> QED BY <1>1, <2>0, <2>1, <4>1
    <3> QED BY <3>1, <3>2
  <2> QED BY <2>2, <2>6, <2>7 DEF RoomsInv, NobodyInTwoRooms
<1>9. ASSUME NEW h \in Editors, Replan(h) PROVE RoomsInv'
  <2>1. edit[h].todo = <<>> /\ edit' = [edit EXCEPT ![h] = NoEdit] /\ UNCHANGED <<plan, torn>>
    BY <1>9 DEF Replan
  <2>2. \A g \in Editors : g = h
    BY DEF OneEditor
  <2>3. \A g \in Editors : edit'[g].round = 0
    BY <2>1, <2>2 DEF NoEdit, PlanTypeOK
  <2>4. \A r \in Rounds : r \in torn \/ Apart(plan[r])
    <3> TAKE r \in Rounds
    <3>1. CASE r = edit[h].round
      <4>1. After(plan[r], edit[h].todo) = plan[r]
        BY <2>1 DEF After
      <4> QED BY <1>1, <3>1, <4>1
    <3>2. CASE r # edit[h].round
      BY <1>1, <2>2, <3>2
    <3> QED BY <3>1, <3>2
  <2>5. 0 \notin Rounds
    BY RoundsAre
  <2> QED BY <2>1, <2>3, <2>4, <2>5 DEF RoomsInv, NobodyInTwoRooms
<1>10. ASSUME NEW h \in Editors, ReplanWipes(h) PROVE RoomsInv'
  BY <1>10, WipeReplaces, ReplacesRooms
<1>11. ASSUME NEW h \in Editors, ReplanCommits(h) PROVE RoomsInv'
  <2> DEFINE q == replan[h].next
  <2>1. /\ q \in Rounds /\ plan' \in [Rounds -> SUBSET Room] /\ EditsOK(edit')
        /\ \A g \in Editors : edit'[g].round = edit[g].round
        /\ \/ UNCHANGED <<plan, edit, torn>>
           \/ /\ \A r \in Rounds \ {q} :
                   /\ plan'[r] = plan[r] /\ (r \in torn' <=> r \in torn)
                   /\ \A g \in Editors : edit[g].round = r => edit'[g] = edit[g]
              /\ \/ q \in torn'
                 \/ /\ q \notin torn' /\ plan'[q] = replan[h].rooms
                    /\ \A g \in Editors : edit[g].round = q =>
                         \A i \in 1..Len(edit'[g].todo) : edit'[g].todo[i].row = Gone
    BY <1>11, CommitIs
  <2>2. Apart(replan[h].rooms)
    BY DEF PlanTypeOK, ReplansOK
  <2> HIDE DEF q
  <2>3. CASE UNCHANGED <<plan, edit, torn>>
    BY <2>3 DEF RoomsInv, NobodyInTwoRooms
  <2>4. CASE ~UNCHANGED <<plan, edit, torn>>
    <3>1. \A r \in Rounds \ {q} :
            /\ plan'[r] = plan[r] /\ (r \in torn' <=> r \in torn)
            /\ \A g \in Editors : edit[g].round = r => edit'[g] = edit[g]
      BY <2>1, <2>4
    <3>2. q \notin torn' =>
            /\ plan'[q] = replan[h].rooms
            /\ \A g \in Editors : edit[g].round = q =>
                 \A i \in 1..Len(edit'[g].todo) : edit'[g].todo[i].row = Gone
      BY <2>1, <2>4
    <3>3. ASSUME NEW r \in Rounds PROVE (\E g \in Editors : edit'[g].round = r) \/ r \in torn' \/ Apart(plan'[r])
      <4>1. CASE r = q
        BY <2>2, <3>2, <4>1
      <4>2. CASE r # q
        <5>1. plan'[r] = plan[r] /\ (r \in torn' <=> r \in torn)
          BY <3>1, <4>2
        <5> QED BY <1>1, <2>1, <5>1
      <4> QED BY <4>1, <4>2
    <3>4. ASSUME NEW g \in Editors, edit'[g].round \in Rounds, edit'[g].round \notin torn'
          PROVE  Apart(After(plan'[edit'[g].round], edit'[g].todo))
      <4>1. edit'[g].round = edit[g].round
        BY <2>1
      <4>2. CASE edit[g].round = q
        <5>1. plan'[q] \in SUBSET Room /\ Apart(plan'[q])
          BY <2>1, <2>2, <3>2, <3>4, <4>1, <4>2
        <5>2. \A i \in 1..Len(edit'[g].todo) : edit'[g].todo[i].row = Gone
          BY <3>2, <3>4, <4>1, <4>2
        <5> QED BY <2>1, <4>1, <4>2, <5>1, <5>2, RenewedRooms
      <4>3. CASE edit[g].round # q
        <5>1. /\ plan'[edit[g].round] = plan[edit[g].round] /\ edit[g].round \notin torn
              /\ edit'[g] = edit[g] /\ edit[g].round \in Rounds
          BY <3>1, <3>4, <4>1, <4>3
        <5> QED BY <1>1, <5>1
      <4> QED BY <4>2, <4>3
    <3> QED BY <3>3, <3>4 DEF RoomsInv, NobodyInTwoRooms
  <2> QED BY <2>3, <2>4
<1> QED BY <1>2, <1>3, <1>4, <1>5, <1>6, <1>7, <1>8, <1>9, <1>10, <1>11 DEF PlanNext

\* While one host edits at a time, nobody is in two rooms of a round when the
\* edits of it are done, whatever is matched, re-matched, repaired, replanned
\* or played between the writes of an edit, unless an unlocked replanning and
\* another generation both inserted into the round since it was made anew.
THEOREM NobodyTwice == ASSUME OneEditor PROVE PlanSpec => []NobodyInTwoRooms
<1>1. PlanInit => RoomsInv
  <2> SUFFICES ASSUME PlanInit PROVE RoomsInv
    OBVIOUS
  <2>1. \A r \in Rounds : Apart(plan[r])
    BY InitRounds DEF Sound
  <2>2. \A h \in Editors : edit[h].round = 0
    BY DEF PlanInit, NoEdit
  <2>3. 0 \notin Rounds
    BY RoundsAre
  <2> QED BY <2>1, <2>2, <2>3 DEF RoomsInv, NobodyInTwoRooms
<1>2. PlanTypeOK /\ RoomsInv /\ [PlanNext]_planVars => RoomsInv'
  BY RoomsNext
<1>3. RoomsInv => NobodyInTwoRooms
  BY DEF RoomsInv
<1> QED BY <1>1, <1>2, <1>3, TypeCorrect, PTL DEF PlanSpec

-----------------------------------------------------------------------------
(* The preview *)

\* Beyond the last round of the plan nothing is repaired.
LEMMA NotRepaired ==
  ASSUME PlanTypeOK, NEW r \in Nat, round \notin Repaired(r), Remakes(plan, {}, r), round \in Rounds
  PROVE  plan'[round] = plan[round]
BY RepairedFromIs DEF PlanTypeOK, Remakes

\* Match Participants shows the plan as it is or a round generated now.
LEMMA MatchShows ==
  ASSUME PlanTypeOK, MatchPeople, shown'.by = "match"
  PROVE  /\ round \in Rounds /\ round' = round /\ setting' = setting /\ Cardinality(present) >= 2
         /\ shown'.people = present /\ shown'.met = Played
         /\ \/ Surfaces /\ plan'[round] = plan[round]
            \/ plan'[round] \in Generated({})
<1>1. /\ round \in Rounds /\ round + 1 \in Nat /\ plan \in [Rounds -> SUBSET Room]
      /\ round' = round /\ setting' = setting /\ Cardinality(present) >= 2
  BY RoundsAre DEF MatchPeople, PlanTypeOK
<1>2. round \notin Repaired(round + 1)
  BY <1>1, RoundsAre DEF Repaired
<1>3. shown'.people = present /\ shown'.met = Played
  BY MatchShown DEF Showing, Otherwise, Unshown
<1>4. CASE Surfaces
  <2>1. Remakes(plan, {}, round + 1)
    BY <1>4 DEF MatchPeople
  <2> QED BY <1>1, <1>2, <1>3, <1>4, <2>1, NotRepaired
<1>5. CASE ~Surfaces
  <2>1. PICK R \in Generated({}) :
          \/ shown' = IF shown.by = "none" THEN shown ELSE Otherwise("failed")
          \/ Remakes([plan EXCEPT ![round] = R], {round}, round + 1)
    BY <1>5 DEF MatchPeople
  <2>2. plan' \in RepairedFrom([plan EXCEPT ![round] = R], round + 1)
    BY <2>1, OtherwiseIs DEF Remakes
  <2>3. [plan EXCEPT ![round] = R] \in [Rounds -> SUBSET Room]
    BY <1>1, GeneratedSound
  <2>4. plan'[round] = R
    BY <1>1, <1>2, <2>2, <2>3, RepairedFromIs
  <2> QED BY <1>1, <1>3, <2>4
<1> QED BY <1>4, <1>5

\* Re-match shows a round it rotated to.
LEMMA RematchShows ==
  ASSUME PlanTypeOK, Rematch
  PROVE  /\ round \in Rounds /\ round' = round /\ setting' = setting
         /\ shown'.by = "rematch" /\ shown'.people = present /\ shown'.before = plan[round]
         /\ shown'.mixed = (round \in torn)
         /\ plan'[round] \in Rotated
<1>1. /\ round \in Rounds /\ round + 1 \in Nat /\ plan \in [Rounds -> SUBSET Room]
      /\ round' = round /\ setting' = setting
  BY RoundsAre DEF Rematch, PlanTypeOK
<1>2. round \notin Repaired(round + 1)
  BY <1>1, RoundsAre DEF Repaired
<1>3. PICK R \in Rotated : plan' \in RepairedFrom([plan EXCEPT ![round] = R], round + 1)
  BY DEF Rematch, Remakes
<1>4. [plan EXCEPT ![round] = R] \in [Rounds -> SUBSET Room]
  BY <1>1, RotatedFrom, GeneratedSound
<1>5. plan'[round] = R
  BY <1>1, <1>2, <1>3, <1>4, RepairedFromIs
<1>6. /\ shown'.by = "rematch" /\ shown'.people = present /\ shown'.before = plan[round]
      /\ shown'.mixed = (round \in torn)
  BY DEF Rematch, Showing
<1> QED BY <1>1, <1>5, <1>6

\* A preview that no edit and no repair touched is the one Match Participants
\* or Re-match made: no other step shows one, or changes it and leaves it so.
LEMMA ShownStays ==
  ASSUME PlanTypeOK, [PlanNext]_planVars, shown'.by \in {"match", "rematch"}
  PROVE  \/ /\ round \in Rounds /\ UNCHANGED <<shown, round, setting>>
            /\ plan'[round] = plan[round]
         \/ MatchPeople /\ shown'.by = "match"
         \/ Rematch /\ shown'.by = "rematch"
<1>0. shown \in ShownState /\ (shown.by # "none" => round \in Rounds) /\ round \in Nat
  BY RoundsAre DEF PlanTypeOK
<1>1. CASE MatchPeople
  <2>1. \/ shown'.by = "match"
        \/ shown' = shown /\ shown.by = "none"
        \/ shown'.by = "failed"
    BY <1>1, MatchShown DEF Showing, Otherwise, Unshown
  <2> QED BY <1>1, <2>1
<1>2. CASE Rematch
  BY <1>2, RematchShows
<1>3. CASE PlayRound
  BY <1>3 DEF PlayRound, Unshown
<1>4. CASE Move \/ UNCHANGED planVars
  BY <1>0, <1>4 DEF Move, planVars
<1>5. CASE RepairRounds
  <2>1. /\ round' = round /\ setting' = setting /\ Remakes(plan, {}, round)
        /\ shown' = Redone(Repaired(round))
    BY <1>5 DEF RepairRounds
  <2>2. shown' = shown /\ round \notin Repaired(round)
    BY <2>1, RedoneIs
  <2> QED BY <1>0, <2>1, <2>2, NotRepaired
<1>6. ASSUME NEW h \in Editors, HostSwapMatch(h) \/ HostExcludeFromRound(h)
      PROVE  UNCHANGED <<shown, round, setting, plan>>
  BY <1>6 DEF HostSwapMatch, HostExcludeFromRound, Begin
<1>7. ASSUME NEW h \in Editors, WriteRow(h)
      PROVE  UNCHANGED <<shown, round, setting>> /\ plan'[round] = plan[round]
  <2>1. /\ edit[h].round \in Rounds /\ plan' = [plan EXCEPT ![edit[h].round] = Written(@, Head(edit[h].todo))]
    BY <1>7, WriteRowIs
  <2>2. /\ round' = round /\ setting' = setting
        /\ shown' = IF edit[h].round = round THEN Otherwise("edit") ELSE shown
    BY <1>7 DEF WriteRow
  <2>4. shown' = shown /\ edit[h].round # round
    BY <2>2, OtherwiseIs
  <2> QED BY <1>0, <2>1, <2>2, <2>4 DEF PlanTypeOK
<1>8. ASSUME NEW h \in Editors, Replan(h) \/ ReplanRound(h)
      PROVE  UNCHANGED <<shown, round, setting, plan>>
  BY <1>8 DEF Replan, ReplanRound
<1>9. ASSUME NEW h \in Editors, ReplanWipes(h)
      PROVE  UNCHANGED <<shown, round, setting>> /\ plan'[round] = plan[round]
  <2>1. /\ round' = round /\ setting' = setting /\ shown' = Redone(Repaired(replan[h].next))
        /\ plan' = [q \in Rounds |-> IF q \in Repaired(replan[h].next) THEN {} ELSE plan[q]]
    BY <1>9 DEF ReplanWipes
  <2>2. shown' = shown /\ round \notin Repaired(replan[h].next)
    BY <2>1, RedoneIs
  <2> QED BY <1>0, <2>1, <2>2
<1>10. ASSUME NEW h \in Editors, ReplanCommits(h)
       PROVE  UNCHANGED <<shown, round, setting>> /\ plan'[round] = plan[round]
  <2>1. round' = round /\ setting' = setting
    BY <1>10 DEF ReplanCommits
  <2>2. \/ UNCHANGED <<plan, shown>>
        \/ /\ shown' = Redone({replan[h].next})
           /\ \A r \in Rounds \ {replan[h].next} : plan'[r] = plan[r]
    BY <1>10, CommitIs
  <2>3. CASE UNCHANGED <<plan, shown>>
    BY <2>1, <2>3
  <2>4. CASE shown' = Redone({replan[h].next}) /\ \A r \in Rounds \ {replan[h].next} : plan'[r] = plan[r]
    <3>1. shown' = shown /\ round # replan[h].next
      BY <2>4, RedoneIs
    <3> QED BY <1>0, <2>1, <2>4, <3>1
  <2> QED BY <2>2, <2>3, <2>4
<1>11. shown' = shown => round \in Rounds
  BY <1>0
<1> QED BY <1>1, <1>2, <1>3, <1>4, <1>5, <1>6, <1>7, <1>8, <1>9, <1>10, <1>11 DEF PlanNext

\* Re-match never pairs two who must be kept apart: for every event, however
\* many people, editors and edits, on every level of the ladder and after
\* every exchange of reduceRepeatPairs.
THEOREM BlocksRespected == PlanSpec => []RematchRespectsBlocks
<1>1. PlanInit => RematchRespectsBlocks
  BY DEF PlanInit, Unshown, RematchRespectsBlocks
<1>2. PlanTypeOK /\ RematchRespectsBlocks /\ [PlanNext]_planVars => RematchRespectsBlocks'
  <2> SUFFICES ASSUME PlanTypeOK, RematchRespectsBlocks, [PlanNext]_planVars, shown'.by = "rematch"
               PROVE  \A m \in plan'[round'] : m.pair \notin setting'.hard
    BY DEF RematchRespectsBlocks
  <2>1. CASE round \in Rounds /\ UNCHANGED <<shown, round, setting>> /\ plan'[round] = plan[round]
    BY <2>1 DEF RematchRespectsBlocks
  <2>2. CASE Rematch
    <3>1. round' = round /\ setting' = setting /\ plan'[round] \in Rotated
      BY <2>2, RematchShows
    <3>2. \A m \in plan'[round] : m.pair \notin setting.hard
      BY <3>1, RotatedFrom, GeneratedSound
    <3> QED BY <3>1, <3>2
  <2> QED BY <2>1, <2>2, ShownStays
<1> QED BY <1>1, <1>2, TypeCorrect, PTL DEF PlanSpec

-----------------------------------------------------------------------------
(* Re-match rotates *)

\* What is possible can be arranged.
LEMMA PossibleIs ==
  ASSUME NEW S, NEW keys
  PROVE  Possible(S, keys) <=> Arrangeable(S, keys)
BY DEF Possible, Arrangeable, Avoiding

\* Where a perfect arrangement without the pairs of the old one exists, and
\* the old one has no more rooms than it, Re-match makes one.
LEMMA RotatedIs ==
  ASSUME PlanTypeOK, round \in Rounds, Possible(present, setting.hard \cup PairKeys(plan[round])),
         2 * Cardinality(plan[round]) <= Cardinality(present), NEW R \in Rotated
  PROVE  Placed(R) = present /\ PairKeys(R) \cap PairKeys(plan[round]) = {}
<1> DEFINE keep == PairKeys(plan[round])
           same(A) == {Members(m) : m \in A} = {Members(m) : m \in plan[round]}
           stuck(A) == plan[round] # {} /\ (same(A) \/ Cardinality(A) < Cardinality(plan[round]))
<1>0. present \in SUBSET Participants /\ plan[round] \in SUBSET Room /\ Cardinality(present) % 2 = 0
  BY DEF PlanTypeOK, Possible
<1>1. Arrangeable(InputOf(present).people, keep \cup InputOf(present).hard)
  <2>1. setting.hard \cup keep = keep \cup setting.hard
    OBVIOUS
  <2>2. Arrangeable(present, keep \cup setting.hard)
    BY <2>1, PossibleIs
  <2> QED BY <2>2, InputIs
<1> HIDE DEF keep
<1>2. ASSUME NEW A \in Generated(keep)
      PROVE  /\ Placed(A) = present /\ Sound(A, present) /\ NoTrio(A)
             /\ \A r \in A : r.pair \notin keep
  BY <1>0, <1>1, <1>2, GeneratedSound, GeneratedFrom, InputIs, ServiceFull
<1>3. ASSUME NEW A \in Generated(keep), stuck(A) PROVE FALSE
  <2>1. /\ 2 * Cardinality(A) = Cardinality(present) /\ Cardinality(A) \in Nat
    BY <1>0, <1>2, RoomsCount
  <2>2. Cardinality(plan[round]) \in Nat
    BY <1>0, RoomFinite, FS_Subset, FS_CardinalityType
  <2>3. ~(Cardinality(A) < Cardinality(plan[round]))
    BY <2>1, <2>2
  <2>4. PICK m \in plan[round] : TRUE
    BY <1>3
  <2>5. PICK r \in A : Members(r) = Members(m)
    BY <1>3, <2>3, <2>4
  <2>6. Members(r) = r.pair /\ r.pair \in Pairs
    BY <1>2, RoundOfPairs DEF Sound
  <2>7. kSubset(2, Members(m)) \subseteq keep
    BY DEF keep, PairKeys
  <2>8. r.pair \in keep
    BY <2>5, <2>6, <2>7, PairKey
  <2> QED BY <1>2, <2>8
<1>4. R \in Generated(keep)
  BY <1>3 DEF Rotated, keep
<1>5. PairKeys(R) = {r.pair : r \in R}
  BY <1>2, <1>4, KeysOfRooms DEF Sound
<1>6. PairKeys(R) \cap keep = {}
  BY <1>2, <1>4, <1>5
<1> QED BY <1>2, <1>4, <1>6 DEF keep

\* Re-match brings back no pair of the arrangement it replaces, where the
\* people can be arranged otherwise and are not fewer than it has places for.
RotatesUnlessFewer ==
  shown.by = "rematch" /\ 2 * Cardinality(shown.before) <= Cardinality(shown.people) =>
    LET kept == setting.hard \cup PairKeys(shown.before) IN
      Possible(shown.people, kept) =>
        /\ Placed(plan[round]) = shown.people
        /\ PairKeys(plan[round]) \cap PairKeys(shown.before) = {}

\* For every event, whatever the moves and the edits: unless there are fewer
\* people than the old arrangement has places, Re-match rotates to pairs none
\* of which it had.
THEOREM RematchRotatesUnlessFewer == PlanSpec => []RotatesUnlessFewer
<1>1. PlanInit => RotatesUnlessFewer
  BY DEF PlanInit, Unshown, RotatesUnlessFewer
<1>2. PlanTypeOK /\ RotatesUnlessFewer /\ [PlanNext]_planVars => RotatesUnlessFewer'
  <2> SUFFICES ASSUME PlanTypeOK, RotatesUnlessFewer, [PlanNext]_planVars, shown'.by = "rematch",
                      2 * Cardinality(shown'.before) <= Cardinality(shown'.people),
                      Possible(shown'.people, setting'.hard \cup PairKeys(shown'.before))
               PROVE  /\ Placed(plan'[round']) = shown'.people
                      /\ PairKeys(plan'[round']) \cap PairKeys(shown'.before) = {}
    BY DEF RotatesUnlessFewer
  <2>1. CASE round \in Rounds /\ UNCHANGED <<shown, round, setting>> /\ plan'[round] = plan[round]
    BY <2>1 DEF RotatesUnlessFewer
  <2>2. CASE Rematch
    <3>1. /\ round \in Rounds /\ round' = round /\ setting' = setting /\ plan'[round] \in Rotated
          /\ shown'.people = present /\ shown'.before = plan[round]
      BY <2>2, RematchShows
    <3>2. Placed(plan'[round]) = present /\ PairKeys(plan'[round]) \cap PairKeys(plan[round]) = {}
      BY <3>1, RotatedIs
    <3> QED BY <3>1, <3>2
  <2> QED BY <2>1, <2>2, ShownStays
<1> QED BY <1>1, <1>2, TypeCorrect, PTL DEF PlanSpec

-----------------------------------------------------------------------------
(* Room enough: how many rooms a round has *)

\* With whoever left added, there are two people for each room of any round
\* that is not torn, and of what a replanning is about to insert.
Enough(rooms) == 2 * Cardinality(rooms) <= Cardinality(present) + spent.moves
RoomEnough ==
  /\ \A r \in Rounds : r \in torn \/ Enough(plan[r])
  /\ \A h \in Editors : Enough(replan[h].rooms)

\* A set of rooms and a set of people are counted.
LEMMA Counted ==
  ASSUME NEW R \in SUBSET Room, NEW people \in SUBSET Participants
  PROVE  /\ IsFiniteSet(R) /\ Cardinality(R) \in Nat
         /\ IsFiniteSet(people) /\ Cardinality(people) \in Nat
BY RoomFinite, EngineAssumption, FS_Subset, FS_CardinalityType

\* A write adds no room.
LEMMA WrittenSmaller ==
  ASSUME NEW R \in SUBSET Room, NEW w \in RowWrite
  PROVE  Cardinality(Written(R, w)) <= Cardinality(R)
<1>1. IsFiniteSet(R) /\ Cardinality(R) \in Nat
  BY RoomFinite, FS_Subset, FS_CardinalityType
<1>2. CASE w.row \notin R
  BY <1>1, <1>2 DEF Written
<1>3. CASE w.row \in R
  <2>1. IsFiniteSet(R \ {w.row}) /\ Cardinality(R \ {w.row}) = Cardinality(R) - 1
    BY <1>1, <1>3, FS_RemoveElement
  <2>2. /\ IsFiniteSet((R \ {w.row}) \cup {w.new})
        /\ Cardinality((R \ {w.row}) \cup {w.new}) <= Cardinality(R)
    <3>1. /\ IsFiniteSet((R \ {w.row}) \cup {w.new})
          /\ \/ Cardinality((R \ {w.row}) \cup {w.new}) = Cardinality(R \ {w.row})
             \/ Cardinality((R \ {w.row}) \cup {w.new}) = Cardinality(R \ {w.row}) + 1
      BY <2>1, FS_AddElement
    <3> QED BY <1>1, <2>1, <3>1
  <2>3. Written(R, w) \subseteq (R \ {w.row}) \cup {w.new}
    BY <1>3 DEF Written
  <2>4. Cardinality(Written(R, w)) <= Cardinality((R \ {w.row}) \cup {w.new}) /\ IsFiniteSet(Written(R, w))
    BY <2>2, <2>3, FS_Subset
  <2>5. Cardinality(Written(R, w)) \in Nat /\ Cardinality((R \ {w.row}) \cup {w.new}) \in Nat
    BY <2>2, <2>4, FS_CardinalityType
  <2> QED BY <1>1, <2>2, <2>4, <2>5
<1> QED BY <1>2, <1>3

\* Rounds of people who are there have two of them for each room.
LEMMA SoundEnough ==
  ASSUME PlanTypeOK, NEW people \in SUBSET present, NEW rooms, Sound(rooms, people)
  PROVE  Enough(rooms)
<1>1. spent.moves \in Nat /\ present \in SUBSET Participants /\ people \in SUBSET Participants
  BY DEF PlanTypeOK
<1>2. 2 * Cardinality(rooms) <= Cardinality(people) /\ Cardinality(rooms) \in Nat
  BY <1>1, RoomsCount
<1>3. IsFiniteSet(present) /\ Cardinality(present) \in Nat /\ Cardinality(people) \in Nat
  BY <1>1, EngineAssumption, FS_Subset, FS_CardinalityType
<1>4. Cardinality(people) <= Cardinality(present)
  BY <1>3, FS_Subset
<1> QED BY <1>1, <1>2, <1>3, <1>4 DEF Enough

\* No room at all is enough.
LEMMA NothingEnough ==
  ASSUME PlanTypeOK
  PROVE  Enough({})
<1>1. Sound({}, {})
  BY DEF Sound, Apart, Placed
<1> QED BY <1>1, SoundEnough

\* Rounds made anew have two people there for each room.
LEMMA ReplacesEnough ==
  ASSUME PlanTypeOK, RoomEnough, Replaces, UNCHANGED <<present, spent>>
  PROVE  RoomEnough'
<1>1. ASSUME NEW r \in Rounds PROVE r \in torn' \/ 2 * Cardinality(plan'[r]) <= Cardinality(present) + spent.moves
  <2>1. CASE plan'[r] = plan[r] /\ (r \in torn' <=> r \in torn)
    BY <2>1 DEF RoomEnough, Enough
  <2>2. CASE Sound(plan'[r], present)
    BY <2>2, SoundEnough DEF Enough, PlanTypeOK
  <2> QED BY <2>1, <2>2 DEF Replaces
<1>2. ASSUME NEW h \in Editors PROVE 2 * Cardinality(replan'[h].rooms) <= Cardinality(present) + spent.moves
  <2>1. replan'[h].rooms = replan[h].rooms
    BY DEF Replaces
  <2> QED BY <2>1 DEF RoomEnough, Enough
<1> QED BY <1>1, <1>2 DEF RoomEnough, Enough

\* Every step leaves two people for each room, with whoever left added.
LEMMA EnoughNext == PlanTypeOK /\ RoomEnough /\ [PlanNext]_planVars => RoomEnough'
<1> SUFFICES ASSUME PlanTypeOK, RoomEnough, [PlanNext]_planVars PROVE RoomEnough'
  OBVIOUS
<1>1. CASE MatchPeople
  <2>1. UNCHANGED <<present, spent>>
    BY <1>1 DEF MatchPeople
  <2> QED BY <1>1, <2>1, MatchReplaces, ReplacesEnough
<1>2. CASE Rematch
  <2>1. UNCHANGED <<present, spent>>
    BY <1>2 DEF Rematch
  <2> QED BY <1>2, <2>1, RematchReplaces, ReplacesEnough
<1>3. CASE RepairRounds
  <2>1. UNCHANGED <<present, spent>>
    BY <1>3 DEF RepairRounds
  <2> QED BY <1>3, <2>1, RepairReplaces, ReplacesEnough
<1>4. ASSUME NEW h \in Editors, ReplanWipes(h) PROVE RoomEnough'
  <2>1. UNCHANGED <<present, spent>>
    BY <1>4 DEF ReplanWipes
  <2> QED BY <1>4, <2>1, WipeReplaces, ReplacesEnough
<1>5. CASE PlayRound \/ UNCHANGED planVars
  BY <1>5 DEF PlayRound, planVars, RoomEnough, Enough
<1>9. ASSUME NEW h \in Editors, Replan(h) PROVE RoomEnough'
  <2>1. UNCHANGED <<present, plan, torn, spent>>
    BY <1>9 DEF Replan
  <2>2. \A g \in Editors : replan'[g].rooms = {} \/ replan'[g].rooms = replan[g].rooms
    BY <1>9, ReplanIs
  <2> QED BY <2>1, <2>2, NothingEnough DEF RoomEnough, Enough
<1>10. ASSUME NEW h \in Editors, ReplanRound(h) PROVE RoomEnough'
  <2>1. UNCHANGED <<present, plan, torn, spent>>
    BY <1>10 DEF ReplanRound
  <2>2. /\ Sound(replan'[h].rooms, Still(replan[h].people)) /\ \A g \in Editors : g = h \/ replan'[g] = replan[g]
    BY <1>10, RoundIs
  <2>3. 2 * Cardinality(replan'[h].rooms) <= Cardinality(present) + spent.moves
    BY <2>2, StillThere, SoundEnough DEF Enough
  <2> QED BY <2>1, <2>2, <2>3 DEF RoomEnough, Enough
<1>11. ASSUME NEW h \in Editors, ReplanCommits(h) PROVE RoomEnough'
  <2>1. UNCHANGED <<present, spent>>
    BY <1>11 DEF ReplanCommits
  <2>2. \A g \in Editors : replan'[g].rooms = {} \/ replan'[g].rooms = replan[g].rooms
    BY <1>11, CommitIs
  <2>3. \/ UNCHANGED <<plan, torn>>
        \/ /\ \A r \in Rounds \ {replan[h].next} : plan'[r] = plan[r] /\ (r \in torn' <=> r \in torn)
           /\ \/ replan[h].next \in torn'
              \/ plan'[replan[h].next] = replan[h].rooms
    BY <1>11, CommitIs
  <2>4. ASSUME NEW r \in Rounds PROVE r \in torn' \/ 2 * Cardinality(plan'[r]) <= Cardinality(present) + spent.moves
    <3>1. \/ plan'[r] = plan[r] /\ (r \in torn' <=> r \in torn)
          \/ r \in torn'
          \/ plan'[r] = replan[h].rooms
      BY <2>3
    <3> QED BY <3>1 DEF RoomEnough, Enough
  <2>5. ASSUME NEW g \in Editors PROVE 2 * Cardinality(replan'[g].rooms) <= Cardinality(present) + spent.moves
    BY <2>2, NothingEnough DEF RoomEnough, Enough
  <2> QED BY <2>1, <2>4, <2>5 DEF RoomEnough, Enough
<1>6. ASSUME NEW h \in Editors, HostSwapMatch(h) \/ HostExcludeFromRound(h) PROVE RoomEnough'
  <2>1. UNCHANGED <<present, plan, replan, torn>> /\ spent' = [spent EXCEPT !.edits = @ + 1]
    BY <1>6 DEF HostSwapMatch, HostExcludeFromRound, Begin
  <2>2. spent'.moves = spent.moves
    BY <2>1 DEF PlanTypeOK
  <2> QED BY <2>1, <2>2 DEF RoomEnough, Enough
<1>7. ASSUME NEW h \in Editors, WriteRow(h) PROVE RoomEnough'
  <2>1. /\ edit[h].round \in Rounds /\ Head(edit[h].todo) \in RowWrite
        /\ plan' = [plan EXCEPT ![edit[h].round] = Written(@, Head(edit[h].todo))]
    BY <1>7, WriteRowIs
  <2>2. UNCHANGED <<present, replan, torn, spent>>
    BY <1>7 DEF WriteRow
  <2>3. ASSUME NEW r \in Rounds, r \notin torn PROVE 2 * Cardinality(plan'[r]) <= Cardinality(present) + spent.moves
    <3>0. plan[r] \in SUBSET Room /\ present \in SUBSET Participants /\ spent.moves \in Nat
      BY DEF PlanTypeOK
    <3>1. plan'[r] = plan[r] \/ plan'[r] = Written(plan[r], Head(edit[h].todo))
      BY <2>1 DEF PlanTypeOK
    <3>2. plan'[r] \in SUBSET Room /\ Cardinality(plan'[r]) <= Cardinality(plan[r])
      <4>1. CASE plan'[r] = plan[r]
        <5>1. Cardinality(plan[r]) \in Nat
          BY <3>0, Counted
        <5> QED BY <3>0, <4>1, <5>1
      <4>2. CASE plan'[r] = Written(plan[r], Head(edit[h].todo))
        BY <2>1, <3>0, <4>2, WrittenType, WrittenSmaller
      <4> QED BY <3>1, <4>1, <4>2
    <3>3. Cardinality(plan'[r]) \in Nat /\ Cardinality(plan[r]) \in Nat /\ Cardinality(present) \in Nat
      BY <3>0, <3>2, Counted
    <3> QED BY <2>3, <3>0, <3>2, <3>3 DEF RoomEnough, Enough
  <2> QED BY <2>2, <2>3 DEF RoomEnough, Enough
<1>8. CASE Move
  <2>1. /\ UNCHANGED <<plan, replan, torn>> /\ spent' = [spent EXCEPT !.moves = @ + 1] /\ spent.moves < MaxArrivals
        /\ \E p \in Participants : present' = IF p \in present THEN present \ {p} ELSE present \cup {p}
    BY <1>8 DEF Move
  <2>2. spent'.moves = spent.moves + 1 /\ spent.moves \in Nat
    BY <2>1 DEF PlanTypeOK
  <2>3. present \in SUBSET Participants /\ IsFiniteSet(present) /\ Cardinality(present) \in Nat
    BY EngineAssumption, FS_Subset, FS_CardinalityType DEF PlanTypeOK
  <2>4. Cardinality(present') >= Cardinality(present) - 1 /\ Cardinality(present') \in Nat
    <3>1. PICK p \in Participants : present' = IF p \in present THEN present \ {p} ELSE present \cup {p}
      BY <2>1
    <3>2. CASE p \in present
      <4>1. Cardinality(present') = Cardinality(present) - 1 /\ IsFiniteSet(present')
        BY <2>3, <3>1, <3>2, FS_RemoveElement
      <4>2. Cardinality(present') \in Nat
        BY <4>1, FS_CardinalityType
      <4> QED BY <2>3, <4>1, <4>2
    <3>3. CASE p \notin present
      <4>1. Cardinality(present') = Cardinality(present) + 1
        BY <2>3, <3>1, <3>3, FS_AddElement
      <4> QED BY <2>3, <4>1
    <3> QED BY <3>2, <3>3
  <2>5. ASSUME NEW rooms \in SUBSET Room, Enough(rooms)
        PROVE  2 * Cardinality(rooms) <= Cardinality(present') + spent'.moves
    <3>1. Cardinality(rooms) \in Nat
      BY RoomFinite, FS_Subset, FS_CardinalityType
    <3>2. 2 * Cardinality(rooms) <= Cardinality(present) + spent.moves
      BY <2>5 DEF Enough
    <3> QED BY <2>2, <2>3, <2>4, <3>1, <3>2
  <2>6. ASSUME NEW r \in Rounds PROVE r \in torn \/ 2 * Cardinality(plan[r]) <= Cardinality(present') + spent'.moves
    <3>1. plan[r] \in SUBSET Room
      BY DEF PlanTypeOK
    <3> QED BY <2>5, <3>1 DEF RoomEnough
  <2>7. ASSUME NEW h \in Editors PROVE 2 * Cardinality(replan[h].rooms) <= Cardinality(present') + spent'.moves
    <3>1. replan[h].rooms \in SUBSET Room
      BY DEF PlanTypeOK, ReplansOK, ReplanState
    <3> QED BY <2>5, <3>1 DEF RoomEnough
  <2> QED BY <2>1, <2>6, <2>7 DEF RoomEnough, Enough
<1> QED BY <1>1, <1>2, <1>3, <1>4, <1>5, <1>6, <1>7, <1>8, <1>9, <1>10, <1>11 DEF PlanNext

\* There is at most one move where that is the bound.
FewMoves == spent.moves <= 1

\* And no step makes a second move.
LEMMA MovesNext == PlanTypeOK /\ FewMoves /\ MaxArrivals \in {0, 1} /\ [PlanNext]_planVars => FewMoves'
<1> SUFFICES ASSUME PlanTypeOK, spent.moves <= 1, MaxArrivals \in {0, 1}, [PlanNext]_planVars PROVE spent'.moves <= 1
  BY DEF FewMoves
<1>1. spent \in [edits : Nat, moves : Nat] /\ spent.moves \in Nat
  BY DEF PlanTypeOK
<1>2. CASE Move
  <2>1. spent.moves < MaxArrivals /\ spent' = [spent EXCEPT !.moves = @ + 1]
    BY <1>2 DEF Move
  <2> QED BY <1>1, <2>1
<1>3. ASSUME NEW h \in Editors, HostSwapMatch(h) \/ HostExcludeFromRound(h) PROVE spent'.moves <= 1
  <2>1. spent' = [spent EXCEPT !.edits = @ + 1]
    BY <1>3 DEF HostSwapMatch, HostExcludeFromRound, Begin
  <2> QED BY <1>1, <2>1
<1>4. ASSUME NEW h \in Editors,
             WriteRow(h) \/ Replan(h) \/ ReplanWipes(h) \/ ReplanRound(h) \/ ReplanCommits(h)
      PROVE  spent'.moves <= 1
  BY <1>4 DEF WriteRow, Replan, ReplanWipes, ReplanRound, ReplanCommits
<1>5. CASE MatchPeople \/ Rematch \/ RepairRounds \/ PlayRound \/ UNCHANGED planVars
  BY <1>5 DEF MatchPeople, Rematch, RepairRounds, PlayRound, planVars
<1> QED BY <1>2, <1>3, <1>4, <1>5 DEF PlanNext

\* Where at most one person arrives or leaves, Re-match brings back no pair of
\* the arrangement it replaces while the same people can be arranged
\* otherwise: an even number of people have not become too few for its rooms.
THEOREM Rotates == ASSUME MaxArrivals \in {0, 1} PROVE PlanSpec => []RematchRotates
<1>1. PlanInit => RoomEnough /\ FewMoves /\ RematchRotates
  <2> SUFFICES ASSUME PlanInit PROVE RoomEnough /\ FewMoves /\ RematchRotates
    OBVIOUS
  <2>1. spent.moves = 0 /\ shown.by = "none"
    BY DEF PlanInit, Unshown
  <2>2. \A r \in Rounds : 2 * Cardinality(plan[r]) <= Cardinality(present)
    BY InitRounds, RoomsCount
  <2>3. Cardinality(present) \in Nat
    BY InitRounds, EngineAssumption, FS_Subset, FS_CardinalityType
  <2>4. RoomEnough
    <3>1. \A h \in Editors : replan[h].rooms = {}
      BY DEF PlanInit, NoReplan
    <3>2. Enough({})
      BY InitType, NothingEnough
    <3>3. ASSUME NEW r \in Rounds PROVE Enough(plan[r])
      <4>1. 2 * Cardinality(plan[r]) <= Cardinality(present)
        BY <2>2
      <4> QED BY <2>1, <2>3, <4>1 DEF Enough
    <3> QED BY <3>1, <3>2, <3>3 DEF RoomEnough
  <2> QED BY <2>1, <2>4 DEF RematchRotates, FewMoves
<1>2. PlanTypeOK /\ RoomEnough /\ FewMoves /\ RematchRotates /\ [PlanNext]_planVars
        => RoomEnough' /\ FewMoves' /\ RematchRotates'
  <2> SUFFICES ASSUME PlanTypeOK, RoomEnough, FewMoves, RematchRotates, [PlanNext]_planVars
               PROVE  RematchRotates'
    BY EnoughNext, MovesNext
  <2> SUFFICES ASSUME shown'.by = "rematch", ~shown'.mixed,
                      Possible(shown'.people, setting'.hard \cup PairKeys(shown'.before))
               PROVE  /\ Placed(plan'[round']) = shown'.people
                      /\ PairKeys(plan'[round']) \cap PairKeys(shown'.before) = {}
    BY DEF RematchRotates
  <2>1. CASE round \in Rounds /\ UNCHANGED <<shown, round, setting>> /\ plan'[round] = plan[round]
    BY <2>1 DEF RematchRotates
  <2>2. CASE Rematch
    <3>1. /\ round \in Rounds /\ round' = round /\ setting' = setting /\ plan'[round] \in Rotated
          /\ shown'.people = present /\ shown'.before = plan[round] /\ round \notin torn
      BY <2>2, RematchShows
    <3>2. present \in SUBSET Participants /\ plan[round] \in SUBSET Room /\ spent.moves \in Nat
      BY <3>1 DEF PlanTypeOK
    <3>3. Cardinality(present) \in Nat /\ Cardinality(plan[round]) \in Nat
      BY <3>2, Counted
    <3>4. 2 * Cardinality(plan[round]) <= Cardinality(present) + 1
      <4>1. 2 * Cardinality(plan[round]) <= Cardinality(present) + spent.moves
        BY <3>1 DEF RoomEnough, Enough
      <4> QED BY <3>2, <3>3, <4>1 DEF FewMoves
    <3>5. Cardinality(present) % 2 = 0
      BY <3>1 DEF Possible
    <3>6. 2 * Cardinality(plan[round]) <= Cardinality(present)
      BY <3>3, <3>4, <3>5
    <3>7. Placed(plan'[round]) = present /\ PairKeys(plan'[round]) \cap PairKeys(plan[round]) = {}
      BY <3>1, <3>6, RotatedIs
    <3> QED BY <3>1, <3>7
  <2> QED BY <2>1, <2>2, ShownStays
<1> QED BY <1>1, <1>2, TypeCorrect, PTL DEF PlanSpec

-----------------------------------------------------------------------------
(* Match Participants repeats only where it must *)

\* What the policy excludes besides the rounds played.
EarlierEvents ==
  CASE setting.policy = "platform_wide" -> History
    [] setting.policy = "cooldown" -> setting.recent
    [] OTHER -> {}

\* No room of a round is a repeat.
LEMMA NoRepeats ==
  ASSUME NEW R, NEW used, \A r \in R : r.pair \notin used
  PROVE  Repeats(R, used) = 0
<1>1. {r \in R : r.pair \in used} = {}
  OBVIOUS
<1> QED BY <1>1, FS_EmptySet DEF Repeats

\* Match Participants places everybody where that is possible.
LEMMA MatchPlaces ==
  ASSUME PlanTypeOK, MatchPeople, shown'.by = "match", Possible(present, setting.hard)
  PROVE  Placed(plan'[round]) = present
<1>1. CASE Surfaces /\ plan'[round] = plan[round]
  BY <1>1 DEF Surfaces
<1>2. CASE plan'[round] \in Generated({})
  <2>1. {} \cup setting.hard = setting.hard
    OBVIOUS
  <2>2. Arrangeable(InputOf(present).people, {} \cup InputOf(present).hard)
    BY <2>1, InputIs, PossibleIs
  <2>3. plan'[round] \in ServiceRounds(InputOf(present), {})
    BY <1>2, GeneratedFrom
  <2>4. Placed(plan'[round]) = InputOf(present).people
    BY <2>2, <2>3, InputIs, ServiceFull
  <2> QED BY <2>4, InputIs
<1> QED BY <1>1, <1>2, MatchShows

\* And repeats nobody it need not.
LEMMA MatchFresh ==
  ASSUME PlanTypeOK, MatchPeople, shown'.by = "match", setting.policy # "none",
         Possible(present, setting.hard \cup Played \cup EarlierEvents)
  PROVE  PairKeys(plan'[round]) \cap Played = {}
<1>1. CASE Surfaces /\ plan'[round] = plan[round]
  BY <1>1 DEF Surfaces
<1>2. CASE plan'[round] \in Generated({})
  <2>1. Excluded = Played \cup EarlierEvents
    BY DEF Excluded, EarlierEvents
  <2>2. InputOf(present).used \cup {} \cup InputOf(present).hard = setting.hard \cup Played \cup EarlierEvents
    BY <2>1, InputIs
  <2>3. Arrangeable(InputOf(present).people, InputOf(present).used \cup {} \cup InputOf(present).hard)
    BY <2>2, InputIs, PossibleIs
  <2>4. plan'[round] \in ServiceRounds(InputOf(present), {})
    BY <1>2, GeneratedFrom
  <2>5. \A r \in plan'[round] : r.pair \notin InputOf(present).used
    BY <2>3, <2>4, InputIs, ServiceFresh
  <2>6. NoTrio(plan'[round]) /\ plan'[round] \in SUBSET Room
    BY <1>2, GeneratedSound DEF Possible
  <2>7. PairKeys(plan'[round]) = {r.pair : r \in plan'[round]}
    BY <2>6, KeysOfRooms
  <2>8. Played \subseteq InputOf(present).used
    BY <2>1, InputIs
  <2> QED BY <2>5, <2>7, <2>8
<1> QED BY <1>1, <1>2, MatchShows

\* Match Participants places everybody where the pairs that must be kept
\* apart let it, and repeats no pair played where there is an arrangement
\* without one.
FreshWherePossible ==
  shown.by = "match" =>
    /\ Possible(shown.people, setting.hard) => Placed(plan[round]) = shown.people
    /\ setting.policy # "none" /\ Possible(shown.people, setting.hard \cup shown.met \cup EarlierEvents) =>
         PairKeys(plan[round]) \cap shown.met = {}

\* Whatever the policy, the history and the number of people the search is
\* exact for, Match Participants shows fresh pairs where fresh pairs exist.
THEOREM MatchIsFresh == PlanSpec => []FreshWherePossible
<1>1. PlanInit => FreshWherePossible
  BY DEF PlanInit, Unshown, FreshWherePossible
<1>2. PlanTypeOK /\ FreshWherePossible /\ [PlanNext]_planVars => FreshWherePossible'
  <2> SUFFICES ASSUME PlanTypeOK, FreshWherePossible, [PlanNext]_planVars, shown'.by = "match"
               PROVE  FreshWherePossible'
    BY DEF FreshWherePossible
  <2>1. setting' = setting => EarlierEvents' = EarlierEvents
    BY DEF EarlierEvents, History
  <2>2. CASE round \in Rounds /\ UNCHANGED <<shown, round, setting>> /\ plan'[round] = plan[round]
    BY <2>1, <2>2 DEF FreshWherePossible
  <2>3. CASE MatchPeople
    <3>1. /\ round' = round /\ setting' = setting /\ shown'.people = present /\ shown'.met = Played
      BY <2>3, MatchShows
    <3>2. Possible(present, setting.hard) => Placed(plan'[round]) = present
      BY <2>3, MatchPlaces
    <3>3. setting.policy # "none" /\ Possible(present, setting.hard \cup Played \cup EarlierEvents) =>
            PairKeys(plan'[round]) \cap Played = {}
      BY <2>3, MatchFresh
    <3> QED BY <2>1, <3>1, <3>2, <3>3 DEF FreshWherePossible
  <2> QED BY <2>2, <2>3, ShownStays
<1> QED BY <1>1, <1>2, TypeCorrect, PTL DEF PlanSpec

\* A round of two or four people has as few repeats as any arrangement.
LEMMA MatchFewest ==
  ASSUME PlanTypeOK, MatchPeople, shown'.by = "match", setting.policy = "within_event",
         Possible(present, setting.hard), Cardinality(present) <= 4, NEW M \in Avoiding(present, setting.hard)
  PROVE  Repeats(plan'[round], Played) <= Cardinality(M \cap Played)
<1>0. present \in SUBSET Participants /\ M \in PerfectMatchings(present) /\ M \cap setting.hard = {}
  BY DEF PlanTypeOK, Avoiding
<1>1. Cardinality(M \cap Played) \in Nat
  BY <1>0, PairsFinite, FS_Subset, FS_CardinalityType DEF PerfectMatchings
<1>2. CASE \A r \in plan'[round] : r.pair \notin Played
  <2>1. Repeats(plan'[round], Played) = 0
    BY <1>2, NoRepeats
  <2> QED BY <1>1, <2>1
<1>3. CASE Surfaces /\ plan'[round] = plan[round]
  <2>1. plan[round] \in SUBSET Room
    BY MatchShows DEF PlanTypeOK
  <2>2. \A r \in plan'[round] : r.pair \notin Played
    BY <1>3, <2>1, KeysOfRooms DEF Surfaces
  <2> QED BY <1>2, <2>2
<1>4. CASE plan'[round] \in Generated({})
  <2>1. Excluded = Played
    BY DEF Excluded
  <2>2. plan'[round] \in ServiceRounds(InputOf(present), {})
    BY <1>4, GeneratedFrom
  <2>3. \/ \A r \in plan'[round] : r.pair \notin InputOf(present).used
        \/ Exchanges(plan'[round], InputOf(present).used, InputOf(present).hard \cup {}) = {}
    BY <2>2, InputIs, ServiceSettled
  <2>4. \/ \A r \in plan'[round] : r.pair \notin Played
        \/ Exchanges(plan'[round], Played, setting.hard \cup {}) = {}
    BY <2>1, <2>3, InputIs
  <2>5. Sound(plan'[round], present) /\ NoTrio(plan'[round])
    BY <1>4, GeneratedSound DEF Possible
  <2>6. Placed(plan'[round]) = present
    BY MatchPlaces
  <2>7. Cardinality(present) \in {2, 4}
    <3>1. Cardinality(present) >= 2 /\ Cardinality(present) % 2 = 0
      BY MatchShows DEF Possible
    <3>2. Cardinality(present) \in Nat
      BY <1>0, EngineAssumption, FS_Subset, FS_CardinalityType
    <3> QED BY <3>1, <3>2
  <2>8. M \cap (setting.hard \cup {}) = {}
    BY <1>0
  <2> QED BY <1>0, <1>2, <2>4, <2>5, <2>6, <2>7, <2>8, FewestOfFour
<1> QED BY <1>3, <1>4, MatchShows

\* What FewestRepeats says of up to four people.
FewestOfFew == Cardinality(shown.people) <= 4 => FewestRepeats

\* For every event, Match Participants has as few repeats as any arrangement
\* of up to four people who are there has: an exchange of two pairs reaches
\* every other arrangement of them.
THEOREM MatchRepeatsFewest == PlanSpec => []FewestOfFew
<1>1. PlanInit => FewestOfFew
  BY DEF PlanInit, Unshown, FewestOfFew, FewestRepeats
<1>2. PlanTypeOK /\ FewestOfFew /\ [PlanNext]_planVars => FewestOfFew'
  <2> SUFFICES ASSUME PlanTypeOK, FewestOfFew, [PlanNext]_planVars, Cardinality(shown'.people) <= 4,
                      shown'.by = "match", setting'.policy = "within_event", Possible(shown'.people, setting'.hard)
               PROVE  /\ Placed(plan'[round']) = shown'.people
                      /\ \A M \in Avoiding(shown'.people, setting'.hard) :
                           Repeats(plan'[round'], shown'.met) <= Cardinality(M \cap shown'.met)
    BY DEF FewestOfFew, FewestRepeats
  <2>1. CASE round \in Rounds /\ UNCHANGED <<shown, round, setting>> /\ plan'[round] = plan[round]
    BY <2>1 DEF FewestOfFew, FewestRepeats
  <2>2. CASE MatchPeople
    <3>1. round' = round /\ setting' = setting /\ shown'.people = present /\ shown'.met = Played
      BY <2>2, MatchShows
    <3>2. Placed(plan'[round]) = present
      BY <2>2, <3>1, MatchPlaces
    <3>3. \A M \in Avoiding(present, setting.hard) : Repeats(plan'[round], Played) <= Cardinality(M \cap Played)
      BY <2>2, <3>1, MatchFewest
    <3> QED BY <3>1, <3>2, <3>3
  <2> QED BY <2>1, <2>2, ShownStays
<1> QED BY <1>1, <1>2, TypeCorrect, PTL DEF PlanSpec

\* Of at most five participants there are never more than four, when their
\* number is even: Match Participants repeats as few pairs as any arrangement.
THEOREM Fewest == ASSUME Cardinality(Participants) <= 5 PROVE PlanSpec => []FewestRepeats
<1>1. PlanTypeOK /\ FewestOfFew => FewestRepeats
  <2> SUFFICES ASSUME PlanTypeOK, FewestOfFew, Possible(shown.people, setting.hard)
               PROVE  FewestRepeats
    BY DEF FewestRepeats
  <2>1. shown.people \in SUBSET Participants
    BY DEF PlanTypeOK, ShownState
  <2>2. /\ Cardinality(shown.people) <= Cardinality(Participants)
        /\ Cardinality(shown.people) \in Nat /\ Cardinality(Participants) \in Nat
    BY <2>1, EngineAssumption, FS_Subset, FS_CardinalityType
  <2>3. Cardinality(shown.people) % 2 = 0
    BY DEF Possible
  <2>4. Cardinality(shown.people) <= 4
    BY <2>2, <2>3
  <2> QED BY <2>4 DEF FewestOfFew
<1> QED BY <1>1, MatchRepeatsFewest, TypeCorrect, PTL

\* Two rooms of the round shown never could exchange partners and have fewer
\* repeats, without pairing two who must be kept apart.
NoExchangeHelps ==
  shown.by = "match" /\ setting.policy = "within_event" =>
    \/ Repeats(plan[round], shown.met) = 0
    \/ Exchanges(plan[round], shown.met, setting.hard) = {}

\* For every event and any number of people, what Match Participants shows
\* repeats no pair, or as few as exchanges of two rooms can reach.
THEOREM MatchSettles == PlanSpec => []NoExchangeHelps
<1>1. PlanInit => NoExchangeHelps
  BY DEF PlanInit, Unshown, NoExchangeHelps
<1>2. PlanTypeOK /\ NoExchangeHelps /\ [PlanNext]_planVars => NoExchangeHelps'
  <2> SUFFICES ASSUME PlanTypeOK, NoExchangeHelps, [PlanNext]_planVars,
                      shown'.by = "match", setting'.policy = "within_event"
               PROVE  \/ Repeats(plan'[round'], shown'.met) = 0
                      \/ Exchanges(plan'[round'], shown'.met, setting'.hard) = {}
    BY DEF NoExchangeHelps
  <2>1. CASE round \in Rounds /\ UNCHANGED <<shown, round, setting>> /\ plan'[round] = plan[round]
    BY <2>1 DEF NoExchangeHelps
  <2>2. CASE MatchPeople
    <3>1. round' = round /\ setting' = setting /\ shown'.met = Played /\ round \in Rounds
      BY <2>2, MatchShows
    <3>2. CASE Surfaces /\ plan'[round] = plan[round]
      <4>1. plan[round] \in SUBSET Room
        BY <3>1 DEF PlanTypeOK
      <4>2. \A r \in plan'[round] : r.pair \notin Played
        BY <3>2, <4>1, KeysOfRooms DEF Surfaces
      <4> QED BY <3>1, <4>2, NoRepeats
    <3>3. CASE plan'[round] \in Generated({})
      <4>1. Excluded = Played
        BY <3>1 DEF Excluded
      <4>2. \/ \A r \in plan'[round] : r.pair \notin InputOf(present).used
            \/ Exchanges(plan'[round], InputOf(present).used, InputOf(present).hard \cup {}) = {}
        BY <3>3, GeneratedFrom, InputIs, ServiceSettled
      <4>3. InputOf(present).used = Played /\ InputOf(present).hard \cup {} = setting.hard
        BY <4>1, InputIs
      <4>4. \/ \A r \in plan'[round] : r.pair \notin Played
            \/ Exchanges(plan'[round], Played, setting.hard) = {}
        BY <4>2, <4>3
      <4> QED BY <3>1, <4>4, NoRepeats
    <3> QED BY <2>2, <3>2, <3>3, MatchShows
  <2> QED BY <2>1, <2>2, ShownStays
<1> QED BY <1>1, <1>2, TypeCorrect, PTL DEF PlanSpec
=============================================================================
