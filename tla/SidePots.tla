------------------------------ MODULE SidePots ------------------------------
(***************************************************************************)
(* calculate_pots and award_pots against what side pots are for.  Players  *)
(* put chips in and fold in any order; after every step the pots the code  *)
(* would make of it, and the prizes it would pay at a showdown then, are   *)
(* compared with a definition that knows no levels, slices or merging.     *)
(***************************************************************************)
EXTENDS PotCalculator

CONSTANTS
    Players,
    Strengths,  \* of the hands at a showdown, higher wins
    MaxPaid     \* BOUND on what one player puts in

\* A table has at most ten seats.
ASSUME SidePotsAssumption ==
    IsFiniteSet(Players) /\ Strengths \subseteq Nat /\ MaxPaid \in Nat

VARIABLES
    paid,   \* contributions of the hand so far
    live,   \* active_player_ids: who has not folded
    rank    \* what each player would show

vars == <<paid, live, rank>>

Init ==
    /\ paid = [p \in Players |-> 0]
    /\ live = Players
    /\ rank \in [Players -> Strengths]

Pay(p, amount) ==
    /\ p \in live
    /\ paid[p] + amount <= MaxPaid
    /\ paid' = [paid EXCEPT ![p] = @ + amount]
    /\ UNCHANGED <<live, rank>>

Fold(p) ==
    /\ p \in live
    /\ Cardinality(live) > 1
    /\ live' = live \ {p}
    /\ UNCHANGED <<paid, rank>>

Next == \E p \in Players : Fold(p) \/ \E amount \in 1..MaxPaid : Pay(p, amount)

Spec == Init /\ [][Next]_vars

-----------------------------------------------------------------------------
pots == CalculatePots(paid, live)
Total == SumFunction(paid)

\* What p can win by his stake alone: from each player as much as p paid in.
Stake(p) == SumFunction([q \in Players |-> MinOf(paid[p], paid[q])])

BestIn(S) == {p \in S : \A q \in S : rank[q] <= rank[p]}
winnersByPot == [i \in DOMAIN pots |-> SetToSeq(BestIn(pots[i].eligible))]
prizes == AwardPots(pots, winnersByPot, Players)

\* At the end of a hand every pot has somebody who can win it.
Awardable == \A i \in DOMAIN pots : pots[i].eligible # {}

\* Every chip put in is in exactly one pot, and each pot after the first is for
\* fewer players than the one before (calculate_pots, _merge_pots).
PotsPartitionChips ==
    /\ PotTotal(pots) = Total
    /\ \A i \in DOMAIN pots : pots[i].amount > 0
    /\ \A i, j \in DOMAIN pots :
            i < j => /\ pots[j].eligible \subseteq pots[i].eligible
                     /\ pots[j].eligible # pots[i].eligible

\* The showdown pays out every chip, and a player who beats everybody still in
\* wins exactly his stake, whatever the levels of the others are and whoever has
\* folded (calculate_pots, award_pots).  The ranking is arbitrary, so this holds
\* of anybody: the pots he may win hold what his stake entitles him to.
PrizesAreExact ==
    Awardable =>
        /\ SumFunction(prizes) = Total
        /\ \A p \in live : BestIn(live) = {p} => prizes[p] = Stake(p)
=============================================================================
