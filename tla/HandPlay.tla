------------------------------ MODULE HandPlay ------------------------------
(***************************************************************************)
(* The engine on its own: one table whose seats never change, driven by    *)
(* the three public calls of GameEngine in every legal order.  A call that *)
(* raises changes nothing, so it is simply not a step.                     *)
(***************************************************************************)
EXTENDS PokerEngine

CONSTANTS
    InitOrder   \* the seated users in joining order; user i has seat i - 1

ASSUME SeatingAssumption ==
    /\ InitOrder \in Seq(Users) /\ Range(InitOrder) = Users /\ IsInjective(InitOrder)
    /\ Len(InitOrder) \in 2..MaxPlayers

VARIABLE g      \* the GameState

\* A table at which everybody has just bought in and nobody has played.
Fresh ==
    [phase   |-> "WAITING_FOR_PLAYERS",
     players |-> [u \in Users |->
                    [seat     |-> (CHOOSE i \in DOMAIN InitOrder : InitOrder[i] = u) - 1,
                     stack    |-> StartingStack,
                     status   |-> "ACTIVE",
                     timeouts |-> 0]],
     order   |-> InitOrder,
     hand    |-> NoHand]

Init == g = Fresh

Deal == g' \in StartHand(g)

\* A player acts.  Raises are to any total the player can reach.
Act(u) ==
    \/ \E type \in {"fold", "check", "call", "all_in"} : g' \in ApplyAction(g, u, type, 0)
    \/ \E amount \in g.hand.min_raise_to .. (g.hand.bets[u] + g.players[u].stack) :
            g' \in ApplyAction(g, u, "raise", amount)

\* The turn timer of the player to act runs out.
Timeout ==
    /\ g.hand.turn # NoSeat
    /\ g' \in HandleTimeout(g)

Next ==
    \/ Deal
    \/ \E u \in Users : Act(u)
    \/ Timeout

Spec == Init /\ [][Next]_g

-----------------------------------------------------------------------------
(* Properties *)

PlayerRecord == [seat : SeatIndex, stack : Nat, status : Statuses, timeouts : Nat]

Betting == g.hand.phase \in BettingPhases
Stack(u) == g.players[u].stack
Contribution(u) == TotalContributions(g)[u]

\* What each field of the game state may hold.
TypeOK ==
    /\ g.phase \in BettingPhases \cup {"WAITING_FOR_PLAYERS"}
    /\ g.players \in [Users -> PlayerRecord]
    /\ g.hand.phase \in BettingPhases \cup {"NONE", "HAND_END"}
    /\ g.hand.dealer \in SeatIndex \cup {NoSeat}
    /\ g.hand.turn \in SeatIndex \cup {NoSeat}
    /\ g.hand.bets \in [Users -> Nat]
    /\ g.hand.current_bet \in Nat
    /\ g.hand.min_raise_to \in Nat
    /\ g.hand.acted \subseteq SeatIndex
    /\ DOMAIN g.hand.cards \subseteq Users

\* No hand creates or destroys chips: between hands the stacks add up to the
\* buy-ins, and during one the stacks it started with do, of which nobody has
\* put in more than he had (calculate_pots, award_pots and _award_hand).
ChipConservation ==
    LET sum(f) == SumFunction(f)
    IN  IF Betting
          THEN /\ sum(g.hand.start) = StartingStack * Cardinality(Users)
               /\ \A u \in Users : /\ Stack(u) >= 0
                                   /\ g.hand.bets[u] <= Contribution(u)
          ELSE sum([u \in Users |-> Stack(u)]) = StartingStack * Cardinality(Users)

\* A street only closes when the bets are even: everybody who can still act
\* has paid the same for the streets before this one, and nobody else who was
\* dealt in, all in, folded or sitting out by now, has paid more
\* (_betting_round_complete).
EvenStreets ==
    Betting =>
        \A u \in CanAct(g), v \in Users :
            LET Paid(w) == Contribution(w) - g.hand.bets[w]
            IN  /\ Paid(v) <= Paid(u)
                /\ v \in CanAct(g) => Paid(v) = Paid(u)

\* While a hand is on, the turn is with a player who can act and owes an action
\* (_first_to_act, _next_active_seat), or with one whom his last timeout sat out
\* just as the turn came back to him: the hand is never parked otherwise.
TurnHolderOwesOrSatOut ==
    Betting =>
        /\ g.hand.turn \in Seats(g)
        /\ LET u == UserAt(g, g.hand.turn)
           IN  \/ u \in CanAct(g) /\ Owes(g, u)
               \/ g.players[u].status = "SIT_OUT" /\ g.players[u].timeouts >= SitOutAfter

\* Table stakes: what a hand wins a player from each opponent is at most the
\* smaller of the two stacks they started it with (the side pots see to it).
StackBefore(u) == IF Betting THEN g.hand.start[u] ELSE Stack(u)
TableStakes ==
    [][\A u \in Users :
          g'.hand.phase = "HAND_END" =>
            g'.players[u].stack - StackBefore(u) <=
                SumFunction([v \in Users \ {u} |-> MinOf(StackBefore(u), StackBefore(v))])]_g

\* No step moves the chips of a bystander: of a player who has folded in the
\* hand that is on, its showdown included, or of one who sits out, whoever deals
\* (_award_hand, _post_forced_bet, _eligible_players).
Bystander(u) ==
    g.players[u].status = "SIT_OUT" \/ (Betting /\ g.players[u].status = "FOLDED")
BystandersFrozen ==
    [][\A u \in Users : Bystander(u) => g'.players[u].stack = g.players[u].stack]_g

\* The button never stays where it was, and it skips nobody with chips who is
\* not sitting out between the old seat and the new (_next_dealer).
ButtonMoves ==
    [][LET old == g.hand.dealer
           new == g'.hand.dealer
           between == IF old < new THEN (old + 1)..(new - 1)
                      ELSE {s \in SeatIndex : s > old \/ s < new}
       IN  ~Betting /\ old # NoSeat /\ g' # g =>
             /\ new # old
             /\ \A u \in Users : g.players[u].seat \in between =>
                                    Stack(u) = 0 \/ g.players[u].status = "SIT_OUT"]_g
=============================================================================
