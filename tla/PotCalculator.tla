--------------------------- MODULE PotCalculator ---------------------------
(***************************************************************************)
(* poker_engine/engine/pot_calculator.py: main pot and side pots.          *)
(*                                                                         *)
(* A contribution is what a player has put in over the whole hand.  The    *)
(* code walks the distinct contribution levels upwards and makes one pot   *)
(* per level; the players still in the hand who reached the level may win  *)
(* it.  Contributions are integers, not naturals: the engine computes them *)
(* as (stack at the start - stack now), which a player who leaves and sits *)
(* down again can make negative.                                           *)
(*                                                                         *)
(* A pot is [amount, eligible]; lists of user ids whose order matters (who *)
(* gets the odd chip) are sequences, the others are sets.                  *)
(***************************************************************************)
EXTENDS Integers, Sequences, FiniteSets, SequencesExt

MinOf(a, b) == IF a < b THEN a ELSE b

\* The elements of the sequence s that are in S, in the order of s.
Filter(s, S) == FoldLeft(LAMBDA r, x : IF x \in S THEN Append(r, x) ELSE r, <<>>, s)

\* The elements of a finite set of integers in ascending order.
Ascending(S) ==
    CHOOSE q \in [1..Cardinality(S) -> S] : \A i, j \in DOMAIN q : i < j => q[i] < q[j]

\* The distinct contribution levels in ascending order.
Levels(contributions) == Ascending(Range(contributions))

\* Mutation of Slice: the chips below the previous level are counted again.
SliceWhole(contribution, prev, level) == MinOf(contribution, level)

\* What one contribution adds to the slice of the pot between two levels.
Slice(contribution, prev, level) ==
    LET part == MinOf(contribution, level) - prev
    IN  IF part > 0 THEN part ELSE 0

\* Mutation of PotAt: whoever is still in can win it, without having paid the
\* level.
PotAtForAll(contributions, active, prev, level) ==
    [amount   |-> SumFunction([u \in DOMAIN contributions |->
                                  Slice(contributions[u], prev, level)]),
     eligible |-> DOMAIN contributions \cap active]

\* The pot of one level: every contribution above the previous level feeds it,
\* only players still in the hand who paid the whole level can win it.
PotAt(contributions, active, prev, level) ==
    [amount   |-> SumFunction([u \in DOMAIN contributions |->
                                  Slice(contributions[u], prev, level)]),
     eligible |-> {u \in DOMAIN contributions \cap active :
                        contributions[u] >= level}]

\* One pot per level.  The level below the first is 0.
RawPots(contributions, active) ==
    LET lv == Levels(contributions)
    IN  [i \in 1..Len(lv) |->
            PotAt(contributions, active, IF i = 1 THEN 0 ELSE lv[i - 1], lv[i])]

\* Append a pot, or add it to the last one when the same players can win both.
\* An empty pot is dropped.
AddPot(merged, pot) ==
    IF pot.amount = 0 THEN merged
    ELSE IF merged # <<>> /\ Last(merged).eligible = pot.eligible
      THEN [merged EXCEPT ![Len(merged)].amount = @ + pot.amount]
      ELSE Append(merged, pot)

MergePots(pots) == FoldLeft(AddPot, <<>>, pots)

CalculatePots(contributions, active) == MergePots(RawPots(contributions, active))

PotTotal(pots) == SumFunction([i \in DOMAIN pots |-> pots[i].amount])

\* Mutation of Share: the odd chips are dropped.
ShareNoOddChip(amount, winners, user) ==
    IF user \in ToSet(winners) THEN amount \div Len(winners) ELSE 0

\* The share of one winner of one pot: the odd chips go to the first winner.
Share(amount, winners, user) ==
    IF user \notin ToSet(winners) THEN 0
    ELSE (amount \div Len(winners))
           + (IF winners[1] = user THEN amount % Len(winners) ELSE 0)

\* Chips won by each of users, given the list of winners of each pot.
AwardPots(pots, winnersByPot, users) ==
    [u \in users |->
        SumFunction([i \in DOMAIN pots |-> Share(pots[i].amount, winnersByPot[i], u)])]
=============================================================================
