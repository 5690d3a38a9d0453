--------------------------- MODULE SidePotsProofs ---------------------------
(***************************************************************************)
(* The pots partition the chips and the prizes are exact, for any number   *)
(* of players, any contributions, any order of folds and any ranking.      *)
(*                                                                         *)
(* Nothing has to be remembered from step to step: the two properties are  *)
(* facts about CalculatePots and AwardPots (EngineLemmas), so the          *)
(* inductive invariant only gives the variables their types.               *)
(***************************************************************************)
EXTENDS SidePots, EngineLemmas

\* The types of the variables
Types ==
    /\ paid \in [Players -> Nat]
    /\ live \in SUBSET Players
    /\ rank \in [Players -> Strengths]

\* Nobody has paid anything.
LEMMA TypesInitially == Init => Types
  BY DEF Init, Types

\* Paying and folding keep the types.
LEMMA TypesInductive == Types /\ [Next]_vars => Types'
  <1> SUFFICES ASSUME Types, [Next]_vars PROVE Types'
    OBVIOUS
  <1>1. ASSUME NEW p \in Players, NEW amount \in 1..MaxPaid, Pay(p, amount) PROVE Types'
    <2>1. paid[p] + amount \in Nat
      BY SidePotsAssumption DEF Types
    <2> QED
      BY <1>1, <2>1 DEF Pay, Types
  <1>2. ASSUME NEW p \in Players, Fold(p) PROVE Types'
    BY <1>2 DEF Fold, Types
  <1>3. CASE UNCHANGED vars
    BY <1>3 DEF vars, Types
  <1> QED
    BY <1>1, <1>2, <1>3 DEF Next

-----------------------------------------------------------------------------
\* The pots of the players as they stand
LEMMA PotsNow ==
    ASSUME Types
    PROVE  /\ PotsFor(pots, paid, live)
           /\ DOMAIN paid = Players /\ Players \cap live = live
           /\ PotTotal(pots) = Total
  <1>1. IsFiniteSet(Players) /\ paid \in [Players -> Nat] /\ live \in SUBSET Players
        /\ DOMAIN paid = Players /\ Players \cap live = live
    BY SidePotsAssumption DEF Types
  <1>2. PotsFor(pots, paid, live)
    BY <1>1, PotsAre DEF pots
  <1>3. pots \in Seq(PotOf(live)) /\ Chips(pots, SUBSET Players) = Total
    BY <1>1, <1>2 DEF PotsFor, Total
  <1>4. SUBSET live \subseteq SUBSET Players
    BY <1>1
  <1> HIDE DEF pots, Total
  <1>5. PotTotal(pots) = Chips(pots, SUBSET Players)
    BY <1>3, <1>4, PotTotalIs
  <1> QED
    BY <1>1, <1>2, <1>3, <1>5

\* Whatever was paid, the pots of calculate_pots hold each chip once.
LEMMA Partition == Types => PotsPartitionChips
  <1> SUFFICES ASSUME Types PROVE PotsPartitionChips
    OBVIOUS
  <1> HIDE DEF pots
  <1>1. PotTotal(pots) = Total /\ PotsFor(pots, paid, live)
    BY PotsNow
  <1>2. Layered(pots) /\ DOMAIN pots = 1..Len(pots)
    BY <1>1 DEF PotsFor
  <1> QED
    BY <1>1, <1>2 DEF PotsPartitionChips, Layered

-----------------------------------------------------------------------------
\* Whoever can win a pot, somebody does.
LEMMA SomebodyIsBest ==
    ASSUME Types, NEW S \in SUBSET Players, S # {}
    PROVE  BestIn(S) \in SUBSET S /\ BestIn(S) # {} /\ IsFiniteSet(BestIn(S))
  <1> DEFINE T == {rank[q] : q \in S}
  <1>1. IsFiniteSet(S)
    BY SidePotsAssumption, FS_Subset
  <1>2. IsFiniteSet(T)
    <2>1. [q \in S |-> rank[q]] \in Surjection(S, T)
      BY DEF Surjection
    <2> HIDE DEF T
    <2> QED
      BY <1>1, <2>1, FS_Surjection
  <1>3. T \in SUBSET Int /\ T # {}
    <2>1. \A q \in S : rank[q] \in Int
      <3>1. \A q \in Players : rank[q] \in Strengths
        BY DEF Types
      <3>2. Strengths \subseteq Int
        BY SidePotsAssumption
      <3>3. \A q \in S : q \in Players
        OBVIOUS
      <3> QED
        BY <3>1, <3>2, <3>3
    <2> QED
      BY <2>1
  <1>4. \A q \in S : rank[q] \in T
    OBVIOUS
  <1>5. \A y \in T : \E q \in S : rank[q] = y
    OBVIOUS
  <1> HIDE DEF T
  <1>6. Max(T) \in T /\ \A y \in T : y <= Max(T)
    BY <1>2, <1>3, MaxIs
  <1>7. PICK p \in S : rank[p] = Max(T)
    BY <1>5, <1>6
  <1>8. p \in BestIn(S)
    BY <1>4, <1>6, <1>7 DEF BestIn
  <1>9. BestIn(S) \in SUBSET S
    BY DEF BestIn
  <1> QED
    BY <1>1, <1>8, <1>9, FS_Subset

\* One player as a list
LEMMA OneWinner ==
    ASSUME NEW p
    PROVE  SetToSeq({p}) = <<p>>
  <1>1. IsFiniteSet({p}) /\ Cardinality({p}) = 1
    BY FS_Singleton
  <1> DEFINE q == SetToSeq({p})
  <1>2. q \in Seq({p}) /\ Len(q) = 1
    BY <1>1, SetToSeqIs
  <1> HIDE DEF q
  <1>3. q[1] = p
    BY <1>2
  <1>4. q = <<p>>
    BY <1>2, <1>3
  <1> QED
    BY <1>4 DEF q

\* The whole pot to its only winner, and nothing to a player who cannot win it
LEMMA OneShare ==
    ASSUME NEW a \in Nat, NEW p
    PROVE  /\ Share(a, SetToSeq({p}), p) = a
           /\ \A w : p \notin ToSet(w) => Share(a, w, p) = 0
  <1>1. SetToSeq({p}) = <<p>>
    BY OneWinner
  <1>2. p \in ToSet(<<p>>) /\ Len(<<p>>) = 1 /\ <<p>>[1] = p
    BY DEF ToSet
  <1>3. a \div 1 = a /\ a % 1 = 0
    BY Z3
  <1>4. Share(a, <<p>>, p) = (a \div 1) + (a % 1)
    BY <1>2 DEF Share
  <1>5. \A w : p \notin ToSet(w) => Share(a, w, p) = 0
    BY DEF Share
  <1> QED
    BY <1>1, <1>3, <1>4, <1>5

\* Every pot somebody can win has winners, all of them players who can win it.
LEMMA WinnersNow ==
    ASSUME Types, Awardable, NEW i \in DOMAIN pots
    PROVE  /\ pots[i].amount \in Nat /\ pots[i].eligible \in SUBSET live
           /\ WinnersOf(winnersByPot[i], Players)
           /\ ToSet(winnersByPot[i]) = BestIn(pots[i].eligible)
  <1> DEFINE E == pots[i].eligible
             W == BestIn(E)
  <1> HIDE DEF pots
  <1>1. pots \in Seq(PotOf(live)) /\ live \in SUBSET Players
    BY PotsNow DEF PotsFor, Types
  <1>2. pots[i] \in PotOf(live)
    BY <1>1
  <1>3. pots[i].amount \in Nat /\ E \in SUBSET live /\ E # {}
    BY <1>2 DEF PotOf, Awardable
  <1>4. winnersByPot[i] = SetToSeq(W)
    BY DEF winnersByPot
  <1> HIDE DEF E
  <1>5. W \in SUBSET E /\ W # {} /\ IsFiniteSet(W)
    BY <1>1, <1>3, SomebodyIsBest
  <1> DEFINE q == SetToSeq(W)
  <1> HIDE DEF W
  <1>6. q \in Seq(W) /\ ToSet(q) = W /\ IsInjective(q)
    BY <1>5, SetToSeqIs
  <1> HIDE DEF q
  <1>7. q # <<>>
    <2>1. ToSet(<<>>) = {}
      BY DEF ToSet
    <2> QED
      BY <1>5, <1>6, <2>1
  <1>8. q \in Seq(Players)
    <2>1. W \in SUBSET Players
      BY <1>1, <1>3, <1>5
    <2> QED
      BY <1>6, <2>1
  <1>9. WinnersOf(q, Players)
    BY <1>6, <1>7, <1>8 DEF WinnersOf
  <1>10. winnersByPot[i] = q
    BY <1>4 DEF q
  <1> QED
    BY <1>3, <1>6, <1>9, <1>10 DEF E, W

\* A player who beats everybody still in wins what is in the pots he is in.
LEMMA BestTakesHisPots ==
    ASSUME Types, Awardable, NEW p \in live, BestIn(live) = {p}
    PROVE  prizes[p] = Stake(p)
  <1> DEFINE F == {E \in SUBSET Players : p \in E}
             f == [i \in DOMAIN pots |-> Share(pots[i].amount, winnersByPot[i], p)]
             e == [i \in DOMAIN pots |-> IF pots[i].eligible \in F THEN pots[i].amount ELSE 0]
  <1>0. p \in Players /\ live \in SUBSET Players
    BY DEF Types
  <1>1. \A E \in SUBSET live : p \in E => BestIn(E) = {p}
    <2>1. \A r \in live : rank[r] <= rank[p]
      <3>1. p \in BestIn(live)
        OBVIOUS
      <3> QED
        BY <3>1 DEF BestIn
    <2>2. \A q \in Players : rank[q] \in Int
      <3>1. \A q \in Players : rank[q] \in Strengths
        BY DEF Types
      <3>2. Strengths \subseteq Int
        BY SidePotsAssumption
      <3> QED
        BY <3>1, <3>2
    <2>3. \A q \in live : q # p => rank[q] < rank[p]
      <3>1. ASSUME NEW q \in live, q # p PROVE rank[q] < rank[p]
        <4>1. PICK r \in live : ~(rank[r] <= rank[q])
          <5>1. q \notin BestIn(live)
            BY <3>1
          <5> QED
            BY <3>1, <5>1 DEF BestIn
        <4>2. rank[r] <= rank[p]
          BY <2>1
        <4>3. rank[r] \in Int /\ rank[q] \in Int /\ rank[p] \in Int
          BY <1>0, <2>2
        <4> QED
          BY <4>1, <4>2, <4>3
      <3> QED
        BY <3>1
    <2>4. ASSUME NEW E \in SUBSET live, p \in E PROVE BestIn(E) = {p}
      <3>1. p \in BestIn(E)
        BY <2>1, <2>4 DEF BestIn
      <3>2. ASSUME NEW q \in BestIn(E), q # p PROVE FALSE
        <4>1. rank[p] <= rank[q] /\ q \in live
          BY <2>4 DEF BestIn
        <4>2. rank[q] < rank[p]
          BY <2>3, <3>2, <4>1
        <4>3. rank[q] \in Int /\ rank[p] \in Int
          BY <1>0, <2>2, <4>1
        <4> QED
          BY <4>1, <4>2, <4>3
      <3> QED
        BY <3>1, <3>2
    <2> QED
      BY <2>4
  <1>2. ASSUME NEW i \in DOMAIN pots PROVE f[i] = e[i]
    <2> DEFINE a == pots[i].amount
               E == pots[i].eligible
               w == winnersByPot[i]
    <2>1. a \in Nat /\ E \in SUBSET live /\ ToSet(w) = BestIn(E)
      BY WinnersNow
    <2>2. w = SetToSeq(BestIn(E))
      BY DEF winnersByPot
    <2>3. E \in F <=> p \in E
      BY <1>0, <2>1
    <2>4. f[i] = Share(a, w, p) /\ e[i] = IF E \in F THEN a ELSE 0
      OBVIOUS
    <2> HIDE DEF a, E, w, F
    <2>5. CASE p \in E
      <3>1. w = SetToSeq({p})
        BY <1>1, <2>1, <2>2, <2>5
      <3>2. Share(a, w, p) = a
        BY <2>1, <3>1, OneShare
      <3> QED
        BY <2>3, <2>4, <2>5, <3>2
    <2>6. CASE p \notin E
      <3>1. p \notin ToSet(w)
        BY <2>1, <2>6 DEF BestIn
      <3>2. Share(a, w, p) = 0
        BY <2>1, <3>1, OneShare
      <3> QED
        BY <2>3, <2>4, <2>6, <3>2
    <2> QED
      BY <2>5, <2>6
  <1>3. f = e
    BY <1>2
  <1>4. prizes[p] = SumFunction(f)
    BY <1>0 DEF prizes, AwardPots
  <1>5. SumFunction(e) = Chips(pots, F)
    BY DEF Chips
  <1>6. Chips(pots, F) = Capped(paid, paid[p])
    <2>1. PotsFor(pots, paid, live) /\ DOMAIN paid = Players /\ Players \cap live = live
      BY PotsNow
    <2> QED
      BY <2>1 DEF PotsFor
  <1>7. Capped(paid, paid[p]) = Stake(p)
    <2>1. DOMAIN paid = Players
      BY PotsNow
    <2>2. \A q \in Players : MinOf(paid[q], paid[p]) = MinOf(paid[p], paid[q])
      <3>1. \A q \in Players : paid[q] \in Nat
        BY DEF Types
      <3> QED
        BY <1>0, <3>1 DEF MinOf
    <2>3. [q \in DOMAIN paid |-> MinOf(paid[q], paid[p])]
             = [q \in Players |-> MinOf(paid[p], paid[q])]
      BY <2>1, <2>2
    <2> QED
      BY <2>3, Zenon DEF Capped, Stake
  <1> HIDE DEF f, e, F
  <1> QED
    BY <1>3, <1>4, <1>5, <1>6, <1>7

\* Whatever was paid, award_pots pays out the pots.
LEMMA Prizes == Types => PrizesAreExact
  <1> SUFFICES ASSUME Types, Awardable
               PROVE  /\ SumFunction(prizes) = Total
                      /\ \A p \in live : BestIn(live) = {p} => prizes[p] = Stake(p)
    BY DEF PrizesAreExact
  <1>1. \A p \in live : BestIn(live) = {p} => prizes[p] = Stake(p)
    BY BestTakesHisPots
  <1>2. \A i \in DOMAIN pots : WinnersOf(winnersByPot[i], Players)
    BY WinnersNow
  <1>3. pots \in Seq(PotOf(live)) /\ PotTotal(pots) = Total
    BY PotsNow DEF PotsFor, Types
  <1> HIDE DEF pots, winnersByPot
  <1>4. SumFunction(AwardPots(pots, winnersByPot, Players)) = PotTotal(pots)
    BY <1>2, <1>3, SidePotsAssumption, AwardPotsIs
  <1>5. SumFunction(prizes) = PotTotal(pots)
    BY <1>4, Zenon DEF prizes
  <1> QED
    BY <1>1, <1>3, <1>5

-----------------------------------------------------------------------------
\* The variables have their types in every reachable state.
LEMMA TypesAlways == Spec => []Types
  BY TypesInitially, TypesInductive, PTL DEF Spec

\* Whoever has put in what and whoever has folded, every chip is in exactly one
\* pot, no pot is empty, and each pot is for fewer players than the one before
\* (calculate_pots, _merge_pots).
THEOREM PotsPartition == Spec => []PotsPartitionChips
  BY TypesAlways, Partition, PTL

\* A showdown pays out every chip, and pays the best player exactly what his
\* stake entitles him to (calculate_pots, award_pots).
THEOREM PrizesExact == Spec => []PrizesAreExact
  BY TypesAlways, Prizes, PTL
=============================================================================
