---------------------------- MODULE PokerEngine ----------------------------
(***************************************************************************)
(* poker_engine/engine/game_engine.py and validator.py: the stateless      *)
(* rules engine.  The code passes a GameState in and gets a new one back,  *)
(* or a ValueError/AssertionError and then the caller keeps the old one.   *)
(* Here an engine call is an operator on a game-state record g that        *)
(* returns the SET of states it may return: {} when it raises, more than   *)
(* one only for StartHand, where the shuffled deck is chosen.              *)
(*                                                                         *)
(* g is [phase, players, order, hand]:                                     *)
(*   players  the seated users, each [seat, stack, status, timeouts];      *)
(*            state.seat_map is the inverse of players[u].seat             *)
(*   order    the users in the insertion order of the players dict, which  *)
(*            decides who gets an odd chip                                 *)
(*   hand     the current or last hand, or NoHand                          *)
(*                                                                         *)
(* Cards.  The deck is fixed when the hand starts and every board card     *)
(* comes off its top, so the showdown ranking of every dealt player is     *)
(* fixed at the deal: a player's cards are [rank, kind], rank for what     *)
(* compare_hands sees, kind for the two holdings house rules look at.      *)
(*                                                                         *)
(* Left out: events and their wording, hand ids, deadlines, the display    *)
(* copy of the pots (_award_hand recomputes it) and last_aggressor_seat    *)
(* (never read).                                                           *)
(***************************************************************************)
EXTENDS PotCalculator

CONSTANTS
    Users,          \* user ids
    MaxPlayers,     \* config.max_players, the number of seats
    SmallBlind,     \* config.small_blind
    StartingStack,  \* config.starting_stack
    HouseRules,     \* config.house_rules
    Ranks,          \* showdown ranks told apart, higher wins
    SitOutAfter     \* TIMEOUT_SIT_OUT_THRESHOLD

BigBlind == 2 * SmallBlind

\* TableConfig.__post_init__ (and the engine's threshold, which is 3).
ASSUME ConfigAssumption ==
    /\ SmallBlind \in Nat \ {0}
    /\ MaxPlayers \in 2..10
    /\ StartingStack \in Nat /\ StartingStack >= 2 * BigBlind
    /\ SitOutAfter \in Nat \ {0}
    /\ Ranks \subseteq Nat /\ Ranks # {}
    /\ HouseRules \subseteq {"bonus_27", "invalid_hand_710", "straddle"}

NoSeat == -1
SeatIndex == 0..(MaxPlayers - 1)
Statuses == {"ACTIVE", "FOLDED", "ALL_IN", "SIT_OUT", "WAITING"}
BettingPhases == {"PRE_FLOP", "FLOP", "TURN", "RIVER"}
BetweenHands == {"WAITING_FOR_PLAYERS", "HAND_END"}

\* Holdings a house rule looks at, when one of the rules is on.
CardKinds == {"plain"}
                \cup (IF "bonus_27" \in HouseRules THEN {"two_seven"} ELSE {})
                \cup (IF "invalid_hand_710" \in HouseRules THEN {"seven_ten"} ELSE {})
Cards == [rank : Ranks, kind : CardKinds]

NoBets == [u \in Users |-> 0]

\* hand = None, and what is left of a hand once it is over: only the button
\* of the last hand is read before the next one replaces it.
EmptyHand(phase, dealer) ==
    [phase |-> phase, dealer |-> dealer, bb |-> NoSeat, cards |-> <<>>,
     current_bet |-> 0, bets |-> NoBets, min_raise_to |-> 0, acted |-> {},
     turn |-> NoSeat, start |-> <<>>, start_order |-> <<>>]
NoHand == EmptyHand("NONE", NoSeat)

-----------------------------------------------------------------------------
(* Seats and players *)

Seated(g) == DOMAIN g.players
Seats(g) == {g.players[u].seat : u \in Seated(g)}
UserAt(g, seat) == CHOOSE u \in Seated(g) : g.players[u].seat = seat
WithStatus(g, statuses) == {u \in Seated(g) : g.players[u].status \in statuses}
SeatsOf(g, users) == {g.players[u].seat : u \in users}

\* seats_that_can_act, as users; and the users still in the hand.
CanAct(g) == WithStatus(g, {"ACTIVE"})
\* Mutation of InHand: it forgets that players fold.
InHandFolded(g) == WithStatus(g, {"ACTIVE", "ALL_IN", "FOLDED"})

InHand(g) == WithStatus(g, {"ACTIVE", "ALL_IN"})

MinSeat(S) == CHOOSE s \in S : \A t \in S : s <= t

\* The first seat of S clockwise from a seat; the seat itself comes last.
NextSeat(S, from) ==
    LET higher == {s \in S : s > from}
    IN  IF higher # {} THEN MinSeat(higher) ELSE MinSeat(S)

\* An anchor seat that has been vacated counts as the lowest seat (index 0).
Anchor(S, seat) == IF seat \in S THEN seat ELSE MinSeat(S)

\* Mutation of TotalContributions: a player who is gone has put in nothing.
ContributionsOfSeated(g) ==
    [u \in DOMAIN g.hand.start |->
        IF u \in Seated(g) THEN g.hand.start[u] - g.players[u].stack ELSE 0]

\* Contributions over the whole hand.  A player who is gone has stack 0.
TotalContributions(g) ==
    [u \in DOMAIN g.hand.start |->
        g.hand.start[u] - (IF u \in Seated(g) THEN g.players[u].stack ELSE 0)]

-----------------------------------------------------------------------------
(* Ending a hand *)

\* Who may win a pot at the showdown, and the list compare_hands returns.
Contenders(g, pot) == pot.eligible \cap DOMAIN g.hand.cards
BestOf(g, users) ==
    LET best == Max({g.hand.cards[u].rank : u \in users})
    IN  Filter(g.hand.start_order, {u \in users : g.hand.cards[u].rank = best})
PotWinners(g, pot) ==
    IF Cardinality(pot.eligible) = 1
      THEN SetToSeq(pot.eligible)
      ELSE BestOf(g, Contenders(g, pot))

\* compare_hands takes max() of the contenders: none is a ValueError.
CanAward(g, pots) ==
    \A i \in DOMAIN pots :
        Cardinality(pots[i].eligible) = 1 \/ Contenders(g, pots[i]) # {}

\* bonus_27: a winner holding 2-7 off suit collects up to a big blind from
\* every other player at the table, whatever their status.
PayBonus(stacks, winner) ==
    LET Due(u) == IF u = winner THEN 0 ELSE MinOf(stacks[u], BigBlind)
        total == SumFunction([u \in DOMAIN stacks |-> Due(u)])
    IN  [u \in DOMAIN stacks |-> IF u = winner THEN stacks[u] + total ELSE stacks[u] - Due(u)]

BonusWinners(g, winnersByPot, winnings) ==
    LET listed == FoldLeft(LAMBDA seq, ws : seq \o Filter(ws, Users \ ToSet(seq)),
                           <<>>, winnersByPot)
    IN  Filter(listed, {u \in DOMAIN winnings \cap DOMAIN g.hand.cards :
                            /\ "bonus_27" \in HouseRules
                            /\ winnings[u] > 0
                            /\ g.hand.cards[u].kind = "two_seven"})

\* _award_hand.  Statuses are left as they are until the next hand starts.
AwardHand(g) ==
    LET pots == CalculatePots(TotalContributions(g), InHand(g))
        winnersByPot == [i \in DOMAIN pots |-> PotWinners(g, pots[i])]
        winnings == AwardPots(pots, winnersByPot, Seated(g))
        paid == [u \in Seated(g) |-> g.players[u].stack + winnings[u]]
        stacks == FoldLeft(PayBonus, paid, BonusWinners(g, winnersByPot, winnings))
    IN  IF ~CanAward(g, pots) THEN {}
        ELSE {[g EXCEPT
                !.players = [u \in Seated(g) |-> [g.players[u] EXCEPT !.stack = stacks[u]]],
                !.hand    = EmptyHand("HAND_END", g.hand.dealer),
                !.phase   = "WAITING_FOR_PLAYERS"]}

-----------------------------------------------------------------------------
(* Betting rounds *)

\* The board is dealt out and the hand goes to the showdown.
RunOutBoard(g) == AwardHand([g EXCEPT !.hand.turn = NoSeat])

\* A bet of exactly two big blinds is taken for the straddle.
StraddleSeats(g) ==
    {g.players[u].seat : u \in {v \in Seated(g) : g.hand.bets[v] = 2 * BigBlind}}

FirstToAct(g, phase) ==
    LET seats == Seats(g)
        anchor == IF phase # "PRE_FLOP" THEN g.hand.dealer
                  ELSE IF StraddleSeats(g) # {} THEN MinSeat(StraddleSeats(g))
                  ELSE g.hand.bb
    IN  NextSeat(SeatsOf(g, CanAct(g)), Anchor(seats, anchor))

\* Pre-flop keeps the blinds as bets; later rounds start from nothing.
OpenRound(g, phase) ==
    LET h == IF phase = "PRE_FLOP" THEN g.hand
             ELSE [g.hand EXCEPT !.current_bet = 0, !.bets = NoBets,
                                 !.min_raise_to = BigBlind]
    IN  [g EXCEPT !.hand = [h EXCEPT !.phase = phase, !.acted = {}],
                  !.phase = phase]

BeginBettingRound(g, phase) ==
    LET o == OpenRound(g, phase)
    IN  IF Cardinality(CanAct(o)) <= 1
          THEN RunOutBoard(o)
          ELSE {[o EXCEPT !.hand.turn = FirstToAct(o, phase)]}

PhaseAfter == [PRE_FLOP |-> "FLOP", FLOP |-> "TURN", TURN |-> "RIVER"]

NextPhase(g) ==
    IF g.hand.phase = "RIVER" THEN AwardHand(g)
    ELSE BeginBettingRound(g, PhaseAfter[g.hand.phase])

\* A player who still owes an action in this round.
Owes(g, u) ==
    \/ g.players[u].seat \notin g.hand.acted
    \/ g.hand.bets[u] < g.hand.current_bet

\* Mutation of BettingRoundComplete: off by one player.
RoundCompleteButOne(g) == Cardinality({u \in CanAct(g) : Owes(g, u)}) <= 1

BettingRoundComplete(g) == \A u \in CanAct(g) : ~Owes(g, u)

\* Mutation of NextActiveSeat: players who are all in get the turn too.
NextSeatInHand(g) == NextSeat(SeatsOf(g, InHand(g)), Anchor(Seats(g), g.hand.turn))

NextActiveSeat(g) ==
    NextSeat(SeatsOf(g, {u \in CanAct(g) : Owes(g, u)}),
             Anchor(Seats(g), g.hand.turn))

\* _advance: last one standing, round over, or the next player who owes.
Advance(g) ==
    IF Cardinality(InHand(g)) = 1 THEN AwardHand(g)
    ELSE IF BettingRoundComplete(g) THEN NextPhase(g)
    ELSE {[g EXCEPT !.hand.turn = NextActiveSeat(g)]}

-----------------------------------------------------------------------------
(* Player actions *)

ToCall(g, u) == g.hand.current_bet - g.hand.bets[u]

\* validate_action
ValidTurn(g, u) ==
    /\ g.hand.phase \in BettingPhases
    /\ u \in Seated(g)
    /\ g.hand.turn # NoSeat
    /\ g.players[u].seat = g.hand.turn
    /\ g.players[u].status = "ACTIVE"

ValidAction(g, u, type, amount) ==
    /\ ValidTurn(g, u)
    /\ type = "check" => ToCall(g, u) <= 0
    /\ type = "call" => ToCall(g, u) > 0
    /\ type \in {"call", "raise", "all_in"} => g.players[u].stack > 0
    /\ type = "raise" => /\ amount > 0
                         /\ amount >= g.hand.min_raise_to
                         /\ amount <= g.hand.bets[u] + g.players[u].stack

\* Put chips in, up to the given total for this round; an empty stack is all in.
BetTotal(g, u, total) ==
    LET left == g.players[u].stack - (total - g.hand.bets[u])
    IN  [g EXCEPT !.players[u].stack = left,
                  !.players[u].status = IF left = 0 THEN "ALL_IN" ELSE @,
                  !.hand.bets[u] = total]

MarkActed(g, u) == [g EXCEPT !.hand.acted = @ \cup {g.players[u].seat}]

\* A bet above the current one: everybody else has to act again.
RaiseTo(g, u, total) ==
    LET b == BetTotal(g, u, total)
    IN  [b EXCEPT !.hand.current_bet = total,
                  !.hand.min_raise_to = 2 * total - g.hand.current_bet,
                  !.hand.acted = {g.players[u].seat}]

\* The effect of a valid action on the bets, before the turn moves on.
Bet(g, u, type, amount) ==
    LET stack == g.players[u].stack
        allIn == g.hand.bets[u] + stack
    IN  CASE type = "fold"  -> MarkActed([g EXCEPT !.players[u].status = "FOLDED"], u)
          [] type = "check" -> MarkActed(g, u)
          [] type = "call"  -> MarkActed(BetTotal(g, u, MinOf(g.hand.current_bet, allIn)), u)
          [] type = "raise" -> RaiseTo(g, u, amount)
          [] type = "all_in" -> IF allIn > g.hand.current_bet
                                  THEN RaiseTo(g, u, allIn)
                                  ELSE MarkActed(BetTotal(g, u, allIn), u)

ApplyAction(g, u, type, amount) ==
    IF ~ValidAction(g, u, type, amount) THEN {}
    ELSE Advance(Bet([g EXCEPT !.players[u].timeouts = 0], u, type, amount))

\* The automatic action of a timeout: check when it is free, else fold.
AutoAction(g, u) == IF g.hand.current_bet = g.hand.bets[u] THEN "check" ELSE "fold"

\* handle_timeout.  The sit-out is applied to the state apply_action returned,
\* in which the turn has already moved on.  The count stops at the threshold,
\* the only thing it is compared with.
HandleTimeout(g) ==
    IF g.hand.turn = NoSeat \/ g.hand.turn \notin Seats(g) THEN {g}
    ELSE LET u == UserAt(g, g.hand.turn)
             count == MinOf(g.players[u].timeouts + 1, SitOutAfter)
         IN  {[r EXCEPT !.players[u].timeouts = count,
                        !.players[u].status = IF count >= SitOutAfter
                                                THEN "SIT_OUT" ELSE @] :
                r \in ApplyAction(g, u, AutoAction(g, u), 0)}

-----------------------------------------------------------------------------
(* Starting a hand *)

\* Last hand's FOLDED and ALL_IN players come back, or sit out when broke.
ResetStatus(p) ==
    [p EXCEPT !.status = CASE @ = "WAITING" -> "ACTIVE"
                           [] @ \in {"FOLDED", "ALL_IN"} ->
                                IF p.stack > 0 THEN "ACTIVE" ELSE "SIT_OUT"
                           [] OTHER -> @]

\* The table when last hand's statuses are gone.
Reset(g) == [g EXCEPT !.players = [u \in Seated(g) |-> ResetStatus(g.players[u])]]

Eligible(g) == {u \in WithStatus(g, {"ACTIVE", "WAITING"}) : g.players[u].stack > 0}

\* Mutation of NextDealer: a dealer who is still there keeps the button.
DealerStays(g) ==
    IF g.hand.phase = "NONE" THEN MinSeat(Seats(g))
    ELSE Anchor(SeatsOf(g, CanAct(g)), g.hand.dealer)

\* The first button goes to the lowest seat, whatever that player's status.
NextDealer(g) ==
    IF g.hand.phase = "NONE" THEN MinSeat(Seats(g))
    ELSE NextSeat(SeatsOf(g, CanAct(g)),
                  IF g.hand.dealer \in Seats(g) THEN g.hand.dealer ELSE NoSeat)

\* <<small blind, big blind>>; heads up the dealer posts the small blind.
BlindSeats(g, dealer) ==
    LET S == SeatsOf(g, {u \in CanAct(g) : g.players[u].stack > 0})
        d == Anchor(S, dealer)
        sb == IF Cardinality(S) = 2 THEN d ELSE NextSeat(S, d)
    IN  <<sb, NextSeat(S, sb)>>

\* Mutation of PostForcedBet: a short stack posts the whole blind.
ForcedBetInFull(g, u, amount) ==
    LET total == g.hand.bets[u] + amount
        b == BetTotal(g, u, total)
    IN  IF total > g.hand.current_bet
          THEN [b EXCEPT !.hand.current_bet = total, !.hand.min_raise_to = total + amount]
          ELSE b

PostForcedBet(g, u, amount) ==
    LET actual == MinOf(amount, g.players[u].stack)
        total  == g.hand.bets[u] + actual
        b == BetTotal(g, u, total)
    IN  IF total > g.hand.current_bet
          THEN [b EXCEPT !.hand.current_bet = total, !.hand.min_raise_to = total + amount]
          ELSE b

\* The straddle rule: three players who can act, and the one left of the big
\* blind can act and covers two big blinds.
PostStraddle(g) ==
    LET seat == NextSeat(Seats(g), g.hand.bb)
        u == UserAt(g, seat)
    IN  IF /\ "straddle" \in HouseRules
           /\ Cardinality(CanAct(g)) >= 3
           /\ u \in CanAct(g)
           /\ g.players[u].stack >= 2 * BigBlind
          THEN PostForcedBet(g, u, 2 * BigBlind)
          ELSE g

\* Two cards to every player who is still ACTIVE after the forced bets; a
\* seven-ten is folded on the spot when the rule is on.
DealHoleCards(g) ==
    {[g EXCEPT !.hand.cards = c,
               !.players = [u \in Seated(g) |->
                    IF u \in CanAct(g) /\ c[u].kind = "seven_ten"
                      THEN [g.players[u] EXCEPT !.status = "FOLDED"]
                      ELSE g.players[u]]] :
        c \in [CanAct(g) -> Cards]}

PostBlinds(g, dealer) ==
    LET blinds == BlindSeats(g, dealer)
        opened == [g EXCEPT !.hand =
                    [EmptyHand("START_HAND", dealer) EXCEPT
                        !.bb = blinds[2],
                        !.min_raise_to = BigBlind,
                        !.start = [u \in Seated(g) |-> g.players[u].stack],
                        !.start_order = g.order]]
        small == PostForcedBet(opened, UserAt(g, blinds[1]), SmallBlind)
    IN  PostForcedBet(small, UserAt(g, blinds[2]), BigBlind)

\* The ways the cards can fall once the blinds and the straddle are in.
Deals(r) == DealHoleCards(PostStraddle(PostBlinds(r, NextDealer(r))))

MayStart(g) == g.phase \in BetweenHands /\ Cardinality(Eligible(Reset(g))) >= 2

StartHand(g) ==
    IF ~MayStart(g) THEN {}
    ELSE UNION {BeginBettingRound(d, "PRE_FLOP") : d \in Deals(Reset(g))}

\* start_hand raises, for some fall of the cards: when the table is not ready
\* for a hand, or it is run out at once and a pot has no contender with cards.
StartRaises(g) ==
    MayStart(g) => \E d \in Deals(Reset(g)) : BeginBettingRound(d, "PRE_FLOP") = {}
=============================================================================
