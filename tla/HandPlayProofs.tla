--------------------------- MODULE HandPlayProofs ---------------------------
(***************************************************************************)
(* What HandPlay's run checks on one table of three, for every table.      *)
(*                                                                         *)
(* The inductive invariant says that the table is in order (SoundTable of  *)
(* EngineLemmas: seats are not shared, bets are covered, the chips add up),*)
(* that everybody stays and is dealt in (FullTable), that the button is a  *)
(* player's (ButtonIs), that the turn is due and that the streets are even *)
(* (HandOrdered).  The first part of the module relates the state an       *)
(* engine call returns to the state it was given; the second proves from   *)
(* that what a state is like, and the last what a step may do: who wins,   *)
(* how much, and where the button goes.                                    *)
(***************************************************************************)
EXTENDS HandPlay, EngineLemmas

-----------------------------------------------------------------------------
(* The table *)

\* The chips that were bought in
AllChips == StartingStack * Cardinality(Users)

\* The table is in order, nobody leaves it and everybody is dealt in.
FullTable(s) ==
    /\ SoundTable(s, AllChips) /\ Seated(s) = Users
    /\ Playing(s) => DOMAIN s.hand.start = Users

\* A table at which everybody has just bought in is in order.
LEMMA FreshIsFull ==
    FullTable(Fresh) /\ Fresh.hand = NoHand
  <1> DEFINE seat == [u \in Users |-> (CHOOSE i \in DOMAIN InitOrder : InitOrder[i] = u) - 1]
             ps == [u \in Users |-> [seat |-> seat[u], stack |-> StartingStack,
                                     status |-> "ACTIVE", timeouts |-> 0]]
             n == Len(InitOrder)
  <1>1. /\ InitOrder \in Seq(Users) /\ Range(InitOrder) = Users /\ IsInjective(InitOrder)
        /\ n \in 2..MaxPlayers
    BY SeatingAssumption
  <1>2. DOMAIN InitOrder = 1..n /\ n \in Nat /\ n <= MaxPlayers /\ ToSet(InitOrder) = Users
    BY <1>1, Configured DEF Range, ToSet
  <1>3. IsFiniteSet(Users)
    BY <1>1, <1>2, InjectiveLength
  <1>4. \A u \in Users : seat[u] \in SeatIndex /\ InitOrder[seat[u] + 1] = u
    <2>1. ASSUME NEW u \in Users PROVE seat[u] \in SeatIndex /\ InitOrder[seat[u] + 1] = u
      <3> DEFINE i == CHOOSE j \in DOMAIN InitOrder : InitOrder[j] = u
      <3>1. \E j \in DOMAIN InitOrder : InitOrder[j] = u
        BY <1>2 DEF ToSet
      <3>2. i \in 1..n /\ InitOrder[i] = u
        BY <1>2, <3>1
      <3>3. seat[u] = i - 1
        OBVIOUS
      <3> HIDE DEF i, seat
      <3>4. seat[u] \in 0..(MaxPlayers - 1) /\ seat[u] + 1 = i
        BY <1>2, <3>2, <3>3, Configured
      <3> QED
        BY <3>2, <3>4 DEF SeatIndex
    <2> QED
      BY <2>1
  <1>5. Fresh = [phase |-> "WAITING_FOR_PLAYERS", players |-> ps, order |-> InitOrder,
                 hand |-> NoHand]
    BY DEF Fresh
  <1> HIDE DEF seat
  <1>6. /\ ps \in [Users -> SomePlayer] /\ DOMAIN ps = Users
        /\ \A u \in Users : ps[u].seat = seat[u] /\ ps[u].stack = StartingStack
    BY <1>4, Configured DEF SomePlayer, Statuses
  <1> HIDE DEF ps
  <1>7. Fresh.players = ps /\ Fresh.order = InitOrder /\ Fresh.hand = NoHand
        /\ Fresh.phase = "WAITING_FOR_PLAYERS"
    BY <1>5
  <1>8. NoSeat \in AnySeat /\ NoHand \in Hands /\ Idle(Fresh)
    <2>1. NoSeat \in AnySeat /\ "NONE" \in HandPhases
      BY DEF AnySeat, HandPhases
    <2> QED
      BY <1>7, <2>1, EmptyHandIs DEF NoHand, Idle
  <1>9. Fresh \in Games
    <2>1. ps \in OverSomeUsers(SomePlayer)
      BY <1>6, OverSomeUsersIs
    <2> QED
      BY <1>1, <1>5, <1>8, <2>1 DEF Games
  <1>10. OwnSeats(Fresh.players)
    <2>1. \A u, v \in Users : seat[u] = seat[v] => u = v
      BY <1>4
    <2> QED
      BY <1>6, <1>7, <2>1 DEF OwnSeats
  <1>11. Seated(Fresh) = Users /\ Ordered(Fresh)
    BY <1>1, <1>2, <1>6, <1>7 DEF Seated, Ordered
  <1>12. StacksOf(Fresh.players) = AllChips
    <2> DEFINE f == [u \in Users |-> Fresh.players[u].stack]
    <2>1. f \in [Users -> Int] /\ Users \in SUBSET Users /\ StartingStack \in Int
          /\ \A u \in Users : f[u] = StartingStack
      BY <1>6, <1>7, Configured
    <2>2. StacksOf(Fresh.players) = SumFunction(f)
      BY <1>11, Zenon DEF StacksOf, Seated
    <2> HIDE DEF f
    <2>3. SumFunction(f) = SumFunctionOnSet(f, Users)
      BY <2>1, SumFunctionIs
    <2>4. SumFunctionOnSet(f, Users) = StartingStack * Cardinality(Users)
      BY <1>3, <2>1, SumConst
    <2> QED
      BY <2>2, <2>3, <2>4 DEF AllChips
  <1> QED
    BY <1>7, <1>8, <1>9, <1>10, <1>11, <1>12, IdleIs DEF FullTable, SoundTable

\* With everybody dealt in, the bank is what the hand started with.
LEMMA FullBank ==
    ASSUME NEW s, FullTable(s), Playing(s)
    PROVE  Bank(s) = SumFunction(s.hand.start)
  <1> DEFINE late == [u \in Seated(s) \ DOMAIN s.hand.start |-> s.players[u].stack]
             f == s.hand.start
  <1>1. late \in [{} -> Int] /\ {} \in SUBSET {} /\ IsFiniteSet({})
    BY FS_EmptySet DEF FullTable
  <1>2. /\ f \in [Users -> Nat] /\ IsFiniteSet(Users)
    BY GameIs DEF FullTable, SoundTable
  <1>3. Bank(s) = SumFunction(f) + SumFunction(late)
    BY DEF Bank
  <1> HIDE DEF late, f
  <1>4. SumFunction(late) = SumFunctionOnSet(late, {}) /\ SumFunctionOnSet(late, {}) = 0
    BY <1>1, SumFunctionIs, SumStep
  <1>5. SumFunction(f) \in Int
    <2>1. f \in [Users -> Int] /\ Users \in SUBSET Users
      BY <1>2
    <2>2. SumFunction(f) = SumFunctionOnSet(f, Users) /\ SumFunctionOnSet(f, Users) \in Int
      BY <1>2, <2>1, SumFunctionIs, SumStep
    <2> QED
      BY <2>2
  <1> QED
    BY <1>3, <1>4, <1>5 DEF f

\* The fields of a table in order
LEMMA FullIs ==
    ASSUME NEW s, FullTable(s)
    PROVE  /\ s \in Games /\ OwnSeats(s.players) /\ s.players \in [Users -> SomePlayer]
           /\ s.hand \in Hands /\ s.hand.bets \in [Users -> Nat]
           /\ s.hand.current_bet \in Nat /\ s.hand.min_raise_to \in Nat
           /\ s.hand.start \in [DOMAIN s.hand.start -> Nat]
           /\ DOMAIN s.hand.cards \subseteq Users /\ IsFiniteSet(Users)
           /\ s.hand.turn \in AnySeat /\ s.hand.dealer \in AnySeat
           /\ s.hand.acted \subseteq SeatIndex
           /\ \A u \in Users : /\ s.players[u] \in SomePlayer /\ s.players[u].stack \in Nat
                               /\ s.players[u].seat \in SeatIndex
  BY GameIs DEF FullTable, SoundTable, Hands

\* A betting round is one of a hand that is on, and nothing is on otherwise.
LEMMA FullPhase ==
    ASSUME NEW s, FullTable(s)
    PROVE  \/ Playing(s) /\ Bank(s) = AllChips /\ s.hand.phase \in BettingPhases
           \/ Idle(s) /\ StacksOf(s.players) = AllChips /\ s.hand.phase \notin BettingPhases
  BY IdleIs DEF FullTable, SoundTable, Playing

-----------------------------------------------------------------------------
(* One hand, one street *)

\* s is a later state of the hand that is on in r: nobody has come back into it,
\* and only the players of T have won or lost chips.
SameHand(s, r, T) ==
    /\ Kept(s, r) /\ CanAct(s) \subseteq CanAct(r) /\ InHand(s) \subseteq InHand(r)
    /\ \A w \in Seated(r) \ T : s.players[w].stack = r.players[w].stack

\* Chips have gone nowhere but from the stacks to the bets of the street.
SameStreet(s, r) ==
    \A w \in Seated(r) :
        s.hand.bets[w] + s.players[w].stack = r.hand.bets[w] + r.players[w].stack

\* What a player has paid for the streets before this one
Behind(s, w) == s.hand.start[w] - s.players[w].stack - s.hand.bets[w]

\* Who was dealt in and has not left, whether he is still in or not
DealtIn(s) == Seated(s) \cap DOMAIN s.hand.start

\* The streets before this one are even.
EvenOn(s) ==
    \A u \in CanAct(s), v \in DealtIn(s) :
        Behind(s, v) <= Behind(s, u) /\ (v \in CanAct(s) => Behind(s, v) = Behind(s, u))

\* A player who is still in was dealt in, and his chips are counted.
LEMMA InHandIs ==
    ASSUME NEW s, InPlay(s)
    PROVE  /\ CanAct(s) \subseteq InHand(s) /\ InHand(s) \subseteq DealtIn(s)
           /\ \A w \in DealtIn(s) : /\ w \in Seated(s) /\ w \in Users /\ w \in DOMAIN s.hand.start
                                    /\ s.hand.start[w] \in Nat /\ s.players[w].stack \in Nat
                                    /\ s.hand.bets[w] \in Nat /\ Behind(s, w) \in Int
  <1>1. CanAct(s) \subseteq InHand(s) /\ InHand(s) \subseteq Seated(s)
    BY DEF CanAct, InHand, WithStatus
  <1>2. ASSUME NEW w \in InHand(s) PROVE w \in DealtIn(s)
    <2>1. w \in Seated(s) /\ s.players[w].status \notin {"WAITING", "SIT_OUT"}
      BY DEF InHand, WithStatus
    <2> QED
      BY <2>1, ActiveIsDealt DEF DealtIn
  <1>3. ASSUME NEW w \in DealtIn(s)
        PROVE  /\ w \in Seated(s) /\ w \in Users /\ w \in DOMAIN s.hand.start
               /\ s.hand.start[w] \in Nat /\ s.players[w].stack \in Nat
               /\ s.hand.bets[w] \in Nat /\ Behind(s, w) \in Int
    <2>1. w \in Seated(s) /\ w \in DOMAIN s.hand.start
      BY DEF DealtIn
    <2>2. w \in Users /\ s.hand.start[w] \in Nat /\ s.players[w].stack \in Nat
          /\ s.hand.bets[w] \in Nat
      BY <2>1, GameIs DEF InPlay
    <2> QED
      BY <2>1, <2>2 DEF Behind
  <1> QED
    BY <1>1, <1>2, <1>3

\* A state belongs to its own hand and street,
LEMMA SameHandSelf ==
    ASSUME NEW r, InPlay(r), NEW T
    PROVE  SameHand(r, r, T) /\ SameStreet(r, r)
  BY KeptSelf DEF SameHand, SameStreet

\* and what belongs to the same hand as a state of it belongs to it too.
LEMMA SameHandAgain ==
    ASSUME NEW s, NEW r, NEW q, NEW T, SameHand(s, r, T), SameHand(r, q, T)
    PROVE  SameHand(s, q, T) /\ (SameStreet(s, r) /\ SameStreet(r, q) => SameStreet(s, q))
  <1>1. Kept(s, q) /\ Seated(r) = Seated(q)
    BY KeptAgain DEF SameHand, Kept, SameTable
  <1> QED
    BY <1>1 DEF SameHand, SameStreet

\* A change after which every player has the status he had, or is all in when he
\* was in, or out
LEMMA SameHandIs ==
    ASSUME NEW s, NEW r, Kept(s, r), NEW T,
           \A w \in Seated(r) :
               \/ s.players[w].status = r.players[w].status
               \/ s.players[w].status = "ALL_IN" /\ w \in InHand(r)
               \/ s.players[w].status \notin {"ACTIVE", "ALL_IN"},
           \A w \in Seated(r) \ T : s.players[w].stack = r.players[w].stack
    PROVE  SameHand(s, r, T)
  <1>1. Seated(s) = Seated(r)
    BY DEF Kept, SameTable
  <1> QED
    BY <1>1 DEF SameHand, CanAct, InHand, WithStatus

\* Within a street the streets before it stay even.
LEMMA EvenKept ==
    ASSUME NEW r, InPlay(r), EvenOn(r), NEW s, NEW T, SameHand(s, r, T), SameStreet(s, r)
    PROVE  EvenOn(s)
  <1>1. InPlay(s) /\ s.hand.start = r.hand.start /\ CanAct(s) \subseteq CanAct(r)
        /\ DealtIn(s) = DealtIn(r)
    BY DEF SameHand, Kept, SameTable, DealtIn
  <1>2. ASSUME NEW w \in DealtIn(s) PROVE Behind(s, w) = Behind(r, w)
    <2>1. /\ r.hand.start[w] \in Nat /\ r.players[w].stack \in Nat /\ r.hand.bets[w] \in Nat
          /\ w \in Seated(r)
      BY <1>1, InHandIs
    <2>2. s.players[w].stack \in Nat /\ s.hand.bets[w] \in Nat
      BY <1>1, InHandIs
    <2>3. s.hand.bets[w] + s.players[w].stack = r.hand.bets[w] + r.players[w].stack
      BY <2>1 DEF SameStreet
    <2> QED
      BY <1>1, <2>1, <2>2, <2>3 DEF Behind
  <1>3. CanAct(s) \subseteq DealtIn(s)
    BY <1>1, InHandIs
  <1> QED
    BY <1>1, <1>2, <1>3 DEF EvenOn

-----------------------------------------------------------------------------
(* What a call does to the street *)

\* The turn goes to some seat.
LEMMA TurnStreet ==
    ASSUME NEW r, InPlay(r), NEW seat \in AnySeat, NEW T
    PROVE  LET s == [r EXCEPT !.hand.turn = seat]
           IN  SameHand(s, r, T) /\ SameStreet(s, r)
  <1> DEFINE s == [r EXCEPT !.hand.turn = seat]
  <1>1. Kept(s, r) /\ s.players = r.players /\ s.hand = [r.hand EXCEPT !.turn = seat]
    BY TurnIs
  <1>2. r.hand \in Hands
    BY GameIs DEF InPlay
  <1> HIDE DEF s
  <1>3. s.hand.bets = r.hand.bets
    BY <1>1, <1>2 DEF Hands
  <1>4. SameHand(s, r, T)
    BY <1>1, SameHandIs
  <1> QED
    BY <1>1, <1>3, <1>4 DEF SameStreet, s

\* A bet of a player of T who is still in
LEMMA BetStreet ==
    ASSUME NEW r, InPlay(r), NEW u \in InHand(r), NEW T, u \in T, NEW total \in Nat,
           NEW b, Betted(b, r, u, total),
           NEW s, Kept(s, r), s.players = b.players, s.hand.bets = b.hand.bets
    PROVE  SameHand(s, r, T) /\ SameStreet(s, r)
  <1>1. /\ r.hand.bets \in [Users -> Nat] /\ r.hand \in Hands /\ Seated(r) \subseteq Users
        /\ \A w \in Seated(r) : r.players[w].stack \in Nat
    BY GameIs DEF InPlay
  <1>2. u \in Seated(r) /\ u \in Users
    BY InHandIs
  <1>3. s.hand.bets = [r.hand.bets EXCEPT ![u] = total]
    BY <1>1 DEF Betted, Hands
  <1>4. s.hand.bets[u] = total /\ \A w \in Users \ {u} : s.hand.bets[w] = r.hand.bets[w]
    BY <1>1, <1>2, <1>3
  <1>5. \A w \in Seated(r) \ {u} : s.players[w] = r.players[w]
    BY DEF Betted
  <1>6. s.players[u].stack = r.players[u].stack - (total - r.hand.bets[u])
        /\ s.players[u].status \in {r.players[u].status, "ALL_IN"}
    BY DEF Betted
  <1>7. SameHand(s, r, T)
    BY <1>5, <1>6, SameHandIs
  <1>8. ASSUME NEW w \in Seated(r)
        PROVE  s.hand.bets[w] + s.players[w].stack = r.hand.bets[w] + r.players[w].stack
    <2>1. CASE w = u
      <3>1. r.players[u].stack \in Nat /\ r.hand.bets[u] \in Nat
        BY <1>1, <1>2
      <3> QED
        BY <1>4, <1>6, <2>1, <3>1
    <2>2. CASE w # u
      BY <1>1, <1>4, <1>5, <2>2
    <2> QED
      BY <2>1, <2>2
  <1> QED
    BY <1>7, <1>8 DEF SameStreet

\* Who has acted is remembered.
LEMMA MarkStreet ==
    ASSUME NEW r, InPlay(r), NEW u \in Seated(r), NEW T
    PROVE  LET s == MarkActed(r, u)
           IN  SameHand(s, r, T) /\ SameStreet(s, r)
  <1> DEFINE s == MarkActed(r, u)
  <1>1. Kept(s, r) /\ s.players = r.players
    BY MarkActedIs
  <1>2. r.hand \in Hands /\ r \in Games
    BY GameIs DEF InPlay
  <1>3. s.hand.bets = r.hand.bets
    BY <1>2 DEF MarkActed, Games, Hands
  <1> HIDE DEF s
  <1>4. SameHand(s, r, T)
    BY <1>1, SameHandIs
  <1> QED
    BY <1>1, <1>3, <1>4 DEF SameStreet, s

\* A call, or an all-in that raises nothing
LEMMA CallStreet ==
    ASSUME NEW r, InPlay(r), NEW u \in InHand(r), NEW T, u \in T,
           NEW total \in Nat, total <= r.hand.bets[u] + r.players[u].stack,
           total <= r.hand.current_bet
    PROVE  LET s == MarkActed(BetTotal(r, u, total), u)
           IN  SameHand(s, r, T) /\ SameStreet(s, r)
  <1> DEFINE b == BetTotal(r, u, total)
             s == MarkActed(b, u)
  <1>1. r \in Games /\ OwnSeats(r.players) /\ r.hand \in Hands /\ u \in Seated(r)
        /\ u \in DOMAIN r.hand.start
    BY GameIs, InHandIs DEF InPlay
  <1>2. Betted(b, r, u, total)
    BY <1>1, BetTotalIs
  <1>3. Kept(s, r)
    BY <1>1, CallIs
  <1>4. b \in Games /\ b.hand \in Hands
    BY <1>1, <1>2 DEF Betted, Games
  <1> HIDE DEF b
  <1>5. s.players = b.players /\ s.hand.bets = b.hand.bets
    BY <1>4 DEF MarkActed, Games, Hands
  <1> HIDE DEF s
  <1>6. SameHand(s, r, T) /\ SameStreet(s, r)
    BY <1>2, <1>3, <1>5, BetStreet
  <1> QED
    BY <1>6 DEF s, b

\* A raise
LEMMA RaiseStreet ==
    ASSUME NEW r, InPlay(r), NEW u \in InHand(r), NEW T, u \in T,
           NEW total \in Nat, total <= r.hand.bets[u] + r.players[u].stack,
           r.hand.current_bet <= total
    PROVE  LET s == RaiseTo(r, u, total)
           IN  SameHand(s, r, T) /\ SameStreet(s, r)
  <1> DEFINE b == BetTotal(r, u, total)
             s == RaiseTo(r, u, total)
  <1>1. r \in Games /\ OwnSeats(r.players) /\ r.hand \in Hands /\ u \in Seated(r)
        /\ u \in DOMAIN r.hand.start
    BY GameIs, InHandIs DEF InPlay
  <1>2. Betted(b, r, u, total)
    BY <1>1, BetTotalIs
  <1>3. Kept(s, r)
    BY <1>1, RaiseIs
  <1>4. b \in Games /\ b.hand \in Hands
    BY <1>1, <1>2 DEF Betted, Games
  <1>5. s = [b EXCEPT !.hand.current_bet = total,
                      !.hand.min_raise_to = 2 * total - r.hand.current_bet,
                      !.hand.acted = {r.players[u].seat}]
    BY DEF RaiseTo
  <1> HIDE DEF b, s
  <1>6. s.players = b.players /\ s.hand.bets = b.hand.bets
    BY <1>4, <1>5 DEF Games, Hands
  <1>7. SameHand(s, r, T) /\ SameStreet(s, r)
    BY <1>2, <1>3, <1>6, BetStreet
  <1> QED
    BY <1>7 DEF s

\* A fold
LEMMA FoldStreet ==
    ASSUME NEW r, InPlay(r), NEW u \in InHand(r), NEW T
    PROVE  LET s == [r EXCEPT !.players[u].status = "FOLDED"]
           IN  SameHand(s, r, T) /\ SameStreet(s, r)
  <1> DEFINE p == [r.players[u] EXCEPT !.status = "FOLDED"]
             s == [r EXCEPT !.players[u].status = "FOLDED"]
  <1>1. u \in Seated(r) /\ u \in DOMAIN r.hand.start
    BY InHandIs
  <1>2. Kept(s, r) /\ s.hand = r.hand
    BY <1>1, FoldKept
  <1>3. /\ r.players[u] \in SomePlayer /\ r.players \in [Seated(r) -> SomePlayer]
        /\ r \in Games /\ \A w \in Seated(r) : r.players[w].stack \in Nat
    BY <1>1, GameIs DEF InPlay
  <1>4. p.stack = r.players[u].stack /\ p.status = "FOLDED"
    BY <1>3 DEF SomePlayer
  <1>5. s.players = [r.players EXCEPT ![u] = p]
    BY <1>3 DEF Games
  <1> HIDE DEF p, s
  <1>6. s.players[u] = p /\ \A w \in Seated(r) \ {u} : s.players[w] = r.players[w]
    BY <1>1, <1>3, <1>5
  <1>7. SameHand(s, r, T)
    BY <1>2, <1>4, <1>6, SameHandIs
  <1>8. SameStreet(s, r)
    BY <1>2, <1>4, <1>6 DEF SameStreet
  <1> QED
    BY <1>7, <1>8 DEF s

\* A valid action moves only the chips of the player who takes it.
LEMMA ActionStreet ==
    ASSUME NEW r, InPlay(r), NEW u, NEW type \in {"fold", "check", "call", "raise", "all_in"},
           NEW amount \in Int, ValidAction(r, u, type, amount)
    PROVE  LET s == Bet(r, u, type, amount)
           IN  SameHand(s, r, {u}) /\ SameStreet(s, r)
  <1> DEFINE s == Bet(r, u, type, amount)
             T == {u}
             stack == r.players[u].stack
             allIn == r.hand.bets[u] + stack
  <1>1. u \in InHand(r) /\ u \in Seated(r) /\ u \in T
    BY DEF ValidAction, ValidTurn, InHand, WithStatus
  <1>2. /\ stack \in Nat /\ r.hand.bets[u] \in Nat /\ allIn \in Nat
        /\ r.hand.current_bet \in Nat /\ r.hand.min_raise_to \in Nat
        /\ r.hand.current_bet <= r.hand.min_raise_to
    <2>1. stack \in Nat /\ r.hand.bets[u] \in Nat
      BY <1>1, InHandIs
    <2>2. r.hand.current_bet \in Nat /\ r.hand.min_raise_to \in Nat
      BY GameIs DEF InPlay
    <2> HIDE DEF stack
    <2> QED
      BY <2>1, <2>2 DEF InPlay, BetsCovered
  <1> HIDE DEF T
  <1>3. CASE type = "fold"
    <2> DEFINE f == [r EXCEPT !.players[u].status = "FOLDED"]
    <2>1. SameHand(f, r, T) /\ SameStreet(f, r)
      BY <1>1, FoldStreet
    <2>2. s = MarkActed(f, u)
      BY <1>3 DEF Bet
    <2> HIDE DEF f, s
    <2>3. InPlay(f) /\ u \in Seated(f)
      BY <1>1, <2>1 DEF SameHand, Kept, SameTable
    <2>4. SameHand(s, f, T) /\ SameStreet(s, f)
      BY <2>2, <2>3, MarkStreet
    <2>5. SameHand(s, r, T) /\ SameStreet(s, r)
      BY <2>1, <2>4, SameHandAgain
    <2> QED
      BY <2>5 DEF s, T
  <1>4. CASE type = "check"
    <2>1. s = MarkActed(r, u)
      BY <1>4 DEF Bet
    <2>2. SameHand(s, r, T) /\ SameStreet(s, r)
      BY <1>1, <2>1, MarkStreet
    <2> QED
      BY <2>2 DEF T
  <1>5. CASE type = "call"
    <2> DEFINE total == MinOf(r.hand.current_bet, allIn)
    <2>1. total \in Nat /\ total <= allIn /\ total <= r.hand.current_bet
      <3> HIDE DEF allIn
      <3> QED
        BY <1>2 DEF MinOf
    <2>2. s = MarkActed(BetTotal(r, u, total), u)
      BY <1>5 DEF Bet
    <2> HIDE DEF total
    <2>3. SameHand(s, r, T) /\ SameStreet(s, r)
      BY <1>1, <2>1, <2>2, CallStreet
    <2> QED
      BY <2>3 DEF T
  <1>6. CASE type = "raise"
    <2>1. amount > 0 /\ amount >= r.hand.min_raise_to /\ amount <= r.hand.bets[u] + r.players[u].stack
      BY <1>6 DEF ValidAction
    <2>2. amount \in Nat /\ r.hand.current_bet <= amount
      BY <1>2, <2>1
    <2>3. s = RaiseTo(r, u, amount)
      BY <1>6 DEF Bet
    <2>4. SameHand(s, r, T) /\ SameStreet(s, r)
      BY <1>1, <2>1, <2>2, <2>3, RaiseStreet
    <2> QED
      BY <2>4 DEF T
  <1>7. CASE type = "all_in"
    <2> DEFINE total == allIn
    <2>1. total \in Nat /\ total <= r.hand.bets[u] + r.players[u].stack
      BY <1>2
    <2>2. CASE total > r.hand.current_bet
      <3>1. s = RaiseTo(r, u, total)
        BY <1>7, <2>2 DEF Bet
      <3>2. r.hand.current_bet <= total
        BY <1>2, <2>2
      <3> HIDE DEF total
      <3>3. SameHand(s, r, T) /\ SameStreet(s, r)
        BY <1>1, <2>1, <3>1, <3>2, RaiseStreet
      <3> QED
        BY <3>3 DEF T
    <2>3. CASE ~(total > r.hand.current_bet)
      <3>1. s = MarkActed(BetTotal(r, u, total), u)
        BY <1>7, <2>3 DEF Bet
      <3>2. total <= r.hand.current_bet
        BY <1>2, <2>3
      <3> HIDE DEF total
      <3>3. SameHand(s, r, T) /\ SameStreet(s, r)
        BY <1>1, <2>1, <3>1, <3>2, CallStreet
      <3> QED
        BY <3>3 DEF T
    <2> QED
      BY <2>2, <2>3
  <1> QED
    BY <1>3, <1>4, <1>5, <1>6, <1>7

-----------------------------------------------------------------------------
(* Where the turn goes *)

\* The turn is with a player who can act and owes an action.
TurnDue(s) ==
    /\ s.hand.turn \in Seats(s)
    /\ UserAt(s, s.hand.turn) \in CanAct(s) /\ Owes(s, UserAt(s, s.hand.turn))

\* The players of D can act and owe an action.
Owing(r, D) == D \in SUBSET CanAct(r) /\ D # {} /\ \A u \in D : Owes(r, u)

\* The turn is given to a seat.
Turned(r, seat) == [r EXCEPT !.hand.turn = seat]

\* The turn is given to one of those who can act and owe an action.
LEMMA TurnGiven ==
    ASSUME NEW r, InPlay(r), NEW D, Owing(r, D), NEW from,
           NEW s, s = Turned(r, NextSeat(SeatsOf(r, D), from)), NEW T
    PROVE  SameHand(s, r, T) /\ SameStreet(s, r) /\ TurnDue(s)
           /\ s.phase = r.phase /\ s.hand.phase = r.hand.phase
  <1> DEFINE seat == NextSeat(SeatsOf(r, D), from)
  <1>1. D \in SUBSET Seated(r)
    BY DEF CanAct, WithStatus, Owing
  <1>2. seat \in SeatsOf(r, D) /\ seat \in AnySeat
    BY <1>1, NextSeatOf DEF Owing
  <1>3. s = Turned(r, seat)
    OBVIOUS
  <1>4. PICK u \in D : r.players[u].seat = seat
    BY <1>2 DEF SeatsOf
  <1> HIDE DEF seat
  <1>5. SameHand(s, r, T) /\ SameStreet(s, r)
    <2> DEFINE q == [r EXCEPT !.hand.turn = seat]
    <2>1. SameHand(q, r, T) /\ SameStreet(q, r)
      BY <1>2, TurnStreet
    <2>2. s = q
      BY <1>3, Zenon DEF Turned
    <2> HIDE DEF q
    <2> QED
      BY <2>1, <2>2
  <1>6. Kept(s, r) /\ s.phase = r.phase /\ s.players = r.players
        /\ s.hand = [r.hand EXCEPT !.turn = seat]
    <2> DEFINE q == [r EXCEPT !.hand.turn = seat]
    <2>1. Kept(q, r) /\ q.phase = r.phase /\ q.players = r.players
          /\ q.hand = [r.hand EXCEPT !.turn = seat]
      BY <1>2, TurnIs
    <2>2. s = q
      BY <1>3, Zenon DEF Turned
    <2> HIDE DEF q
    <2> QED
      BY <2>1, <2>2
  <1>7. r.hand \in Hands /\ OwnSeats(r.players)
    BY GameIs DEF InPlay
  <1>8. /\ s.hand.turn = seat /\ s.hand.acted = r.hand.acted /\ s.hand.bets = r.hand.bets
        /\ s.hand.current_bet = r.hand.current_bet /\ s.hand.phase = r.hand.phase
    BY <1>6, <1>7 DEF Hands
  <1>9. seat \in Seats(s) /\ u \in Seated(s) /\ s.players[u].seat = seat
    <2>1. u \in Seated(r) /\ Seated(s) = Seated(r)
      BY <1>1, <1>6 DEF Seated
    <2>2. s.players[u].seat = seat
      BY <1>4, <1>6
    <2> QED
      BY <2>1, <2>2 DEF Seats
  <1>10. UserAt(s, seat) = u
    <2>1. UserAt(s, seat) \in Seated(s) /\ s.players[UserAt(s, seat)].seat = seat
      BY <1>9, UserAtIs
    <2> QED
      BY <1>6, <1>7, <1>9, <2>1 DEF OwnSeats, Seated
  <1>11. u \in CanAct(s)
    <2>1. u \in CanAct(r)
      BY DEF Owing
    <2> QED
      BY <1>6, <2>1 DEF CanAct, WithStatus, Seated
  <1>12. Owes(s, u)
    <2>1. Owes(r, u)
      BY DEF Owing
    <2> QED
      BY <1>6, <1>8, <2>1 DEF Owes
  <1> QED
    BY <1>5, <1>6, <1>8, <1>9, <1>10, <1>11, <1>12 DEF TurnDue

\* The state an engine call returns for a hand that is on in r: the hand goes
\* on, its streets even and its turn due, or it is awarded.
GoesOn(s, r, T) ==
    /\ SameHand(s, r, T) /\ s.phase \in BettingPhases /\ s.hand.phase = s.phase
    /\ EvenOn(s) /\ TurnDue(s)
Awarded(s, r, T) == \E q : SameHand(q, r, T) /\ s \in AwardHand(q)
Goes(s, r, T) == GoesOn(s, r, T) \/ Awarded(s, r, T)

\* Where an engine call leads from a state of a hand, it leads from the hand.
LEMMA GoesAgain ==
    ASSUME NEW s, NEW r, NEW q, NEW T, Goes(s, r, T), SameHand(r, q, T)
    PROVE  Goes(s, q, T)
  <1>1. CASE GoesOn(s, r, T)
    <2>1. SameHand(s, q, T)
      BY <1>1, SameHandAgain DEF GoesOn
    <2> QED
      BY <1>1, <2>1 DEF Goes, GoesOn
  <1>2. CASE Awarded(s, r, T)
    <2>1. PICK p : SameHand(p, r, T) /\ s \in AwardHand(p)
      BY <1>2 DEF Awarded
    <2>2. SameHand(p, q, T)
      BY <2>1, SameHandAgain
    <2> QED
      BY <2>1, <2>2 DEF Goes, Awarded
  <1> QED
    BY <1>1, <1>2 DEF Goes

\* A new round changes nobody's stack.
LEMMA OpenStreet ==
    ASSUME NEW r, InPlay(r), NEW phase \in BettingPhases, NEW T
    PROVE  LET o == OpenRound(r, phase)
           IN  /\ SameHand(o, r, T) /\ o.phase = phase /\ o.hand.phase = phase
               /\ o.players = r.players /\ o.hand.acted = {}
               /\ o.hand.bets = IF phase = "PRE_FLOP" THEN r.hand.bets ELSE NoBets
  <1> DEFINE o == OpenRound(r, phase)
  <1>1. Kept(o, r) /\ o.phase = phase /\ o.hand.phase = phase /\ o.players = r.players
        /\ o.hand.acted = {}
    BY OpenRoundIs
  <1>2. r \in Games /\ r.hand \in Hands
    BY GameIs DEF InPlay
  <1>3. o.hand.bets = IF phase = "PRE_FLOP" THEN r.hand.bets ELSE NoBets
    <2>1. CASE phase = "PRE_FLOP"
      BY <1>2, <2>1 DEF OpenRound, Games, Hands
    <2>2. CASE phase # "PRE_FLOP"
      BY <1>2, <2>2 DEF OpenRound, Games, Hands
    <2> QED
      BY <2>1, <2>2
  <1> HIDE DEF o
  <1>4. SameHand(o, r, T)
    BY <1>1, SameHandIs
  <1> QED
    BY <1>1, <1>3, <1>4 DEF o

\* Every round opens with even streets behind it: the first one because nobody
\* had paid anything before, the others because the one before was complete.
LEMMA OpenEven ==
    ASSUME NEW r, InPlay(r), EvenOn(r), NEW phase \in BettingPhases,
           phase = "PRE_FLOP" \/ BettingRoundComplete(r)
    PROVE  EvenOn(OpenRound(r, phase))
  <1> DEFINE o == OpenRound(r, phase)
  <1>1. /\ SameHand(o, r, {}) /\ o.players = r.players
        /\ o.hand.bets = IF phase = "PRE_FLOP" THEN r.hand.bets ELSE NoBets
    BY OpenStreet
  <1> HIDE DEF o
  <1>2. InPlay(o) /\ o.hand.start = r.hand.start
    BY <1>1 DEF SameHand, Kept
  <1>3. CASE phase = "PRE_FLOP"
    <2>1. SameStreet(o, r)
      BY <1>1, <1>3 DEF SameStreet
    <2> QED
      BY <1>1, <2>1, EvenKept DEF o
  <1>4. CASE phase # "PRE_FLOP"
    <2>1. CanAct(o) = CanAct(r) /\ DealtIn(o) = DealtIn(r)
      BY <1>1, <1>2 DEF CanAct, WithStatus, Seated, DealtIn
    <2>2. ASSUME NEW w \in DealtIn(r) PROVE Behind(o, w) = Behind(r, w) + r.hand.bets[w]
      <3>1. /\ r.hand.start[w] \in Nat /\ r.players[w].stack \in Nat
            /\ r.hand.bets[w] \in Nat /\ w \in Users
        BY InHandIs
      <3>2. o.hand.bets[w] = 0
        BY <1>1, <1>4, <3>1 DEF NoBets
      <3> QED
        BY <1>1, <1>2, <3>1, <3>2 DEF Behind
    <2>3. r.hand.current_bet \in Nat
      BY GameIs DEF InPlay
    <2>4. ASSUME NEW w \in DealtIn(r)
          PROVE  /\ r.hand.bets[w] <= r.hand.current_bet /\ r.hand.bets[w] \in Nat
                 /\ Behind(r, w) \in Int
                 /\ w \in CanAct(r) => r.hand.bets[w] = r.hand.current_bet
      <3>1. r.hand.bets[w] \in Nat /\ w \in Users /\ Behind(r, w) \in Int
        BY InHandIs
      <3>2. r.hand.bets[w] <= r.hand.current_bet
        BY <3>1 DEF InPlay, BetsCovered
      <3>3. w \in CanAct(r) => ~(r.hand.bets[w] < r.hand.current_bet)
        BY <1>4 DEF BettingRoundComplete, Owes
      <3> QED
        BY <2>3, <3>1, <3>2, <3>3
    <2>5. CanAct(r) \subseteq DealtIn(r)
      BY InHandIs
    <2>6. ASSUME NEW u \in CanAct(r), NEW v \in DealtIn(r)
          PROVE  /\ Behind(o, v) <= Behind(o, u)
                 /\ v \in CanAct(r) => Behind(o, v) = Behind(o, u)
      <3>1. Behind(r, v) <= Behind(r, u) /\ (v \in CanAct(r) => Behind(r, v) = Behind(r, u))
        BY DEF EvenOn
      <3>2. Behind(o, v) = Behind(r, v) + r.hand.bets[v]
            /\ Behind(o, u) = Behind(r, u) + r.hand.bets[u]
        BY <2>2, <2>5
      <3>3. /\ r.hand.bets[v] <= r.hand.bets[u] /\ r.hand.bets[v] \in Nat /\ r.hand.bets[u] \in Nat
            /\ v \in CanAct(r) => r.hand.bets[v] = r.hand.bets[u]
            /\ Behind(r, v) \in Int /\ Behind(r, u) \in Int
        BY <2>4, <2>5
      <3> QED
        BY <3>1, <3>2, <3>3
    <2> QED
      BY <2>1, <2>6 DEF EvenOn, o
  <1> QED
    BY <1>3, <1>4

\* _begin_betting_round
LEMMA BeginGoes ==
    ASSUME NEW r, InPlay(r), EvenOn(r), NEW phase \in BettingPhases,
           phase = "PRE_FLOP" \/ BettingRoundComplete(r),
           NEW s \in BeginBettingRound(r, phase), NEW T
    PROVE  Goes(s, r, T)
  <1> DEFINE o == OpenRound(r, phase)
  <1>1. /\ SameHand(o, r, T) /\ o.phase = phase /\ o.hand.phase = phase
        /\ o.hand.acted = {}
    BY OpenStreet
  <1>2. EvenOn(o)
    BY OpenEven
  <1>3. \/ Cardinality(CanAct(o)) <= 1 /\ s \in AwardHand([o EXCEPT !.hand.turn = NoSeat])
        \/ ~(Cardinality(CanAct(o)) <= 1) /\ s = [o EXCEPT !.hand.turn = FirstToAct(o, phase)]
    BY DEF BeginBettingRound, RunOutBoard
  <1> HIDE DEF o
  <1>4. InPlay(o)
    BY <1>1 DEF SameHand, Kept
  <1>5. CASE s \in AwardHand([o EXCEPT !.hand.turn = NoSeat])
    <2> DEFINE q == [o EXCEPT !.hand.turn = NoSeat]
    <2>1. SameHand(q, o, T)
      BY <1>4, TurnStreet DEF AnySeat
    <2> HIDE DEF q
    <2>2. SameHand(q, r, T)
      BY <1>1, <2>1, SameHandAgain
    <2> QED
      BY <1>5, <2>2 DEF Goes, Awarded, q
  <1>6. CASE ~(Cardinality(CanAct(o)) <= 1) /\ s = [o EXCEPT !.hand.turn = FirstToAct(o, phase)]
    <2> DEFINE D == CanAct(o)
               anchor == IF phase # "PRE_FLOP" THEN o.hand.dealer
                         ELSE IF StraddleSeats(o) # {} THEN MinSeat(StraddleSeats(o))
                         ELSE o.hand.bb
               from == Anchor(Seats(o), anchor)
    <2>1. D # {}
      <3>1. Cardinality({}) = 0
        BY FS_EmptySet
      <3> QED
        BY <1>6, <3>1
    <2>2. FirstToAct(o, phase) = NextSeat(SeatsOf(o, D), from)
      BY DEF FirstToAct
    <2>3. Owing(o, D)
      BY <1>1, <2>1 DEF Owes, Owing
    <2> HIDE DEF D, from, anchor
    <2>5. s = Turned(o, NextSeat(SeatsOf(o, D), from))
      BY <1>6, <2>2, Zenon DEF Turned
    <2>6. SameHand(s, o, T) /\ SameStreet(s, o) /\ TurnDue(s)
          /\ s.phase = o.phase /\ s.hand.phase = o.hand.phase
      BY <1>4, <2>3, <2>5, TurnGiven
    <2>7. EvenOn(s)
      BY <1>2, <1>4, <2>6, EvenKept
    <2>8. SameHand(s, r, T)
      BY <1>1, <2>6, SameHandAgain
    <2> QED
      BY <1>1, <2>6, <2>7, <2>8 DEF Goes, GoesOn
  <1> QED
    BY <1>3, <1>5, <1>6

\* _advance
LEMMA AdvanceGoes ==
    ASSUME NEW r, InPlay(r), EvenOn(r), r.phase \in BettingPhases, r.hand.phase = r.phase,
           NEW s \in Advance(r), NEW T
    PROVE  Goes(s, r, T)
  <1>1. \/ s \in AwardHand(r)
        \/ ~BettingRoundComplete(r) /\ s = [r EXCEPT !.hand.turn = NextActiveSeat(r)]
        \/ /\ BettingRoundComplete(r) /\ r.hand.phase # "RIVER"
           /\ s \in BeginBettingRound(r, PhaseAfter[r.hand.phase])
    BY DEF Advance, NextPhase
  <1>2. CASE s \in AwardHand(r)
    BY <1>2, SameHandSelf DEF Goes, Awarded
  <1>3. CASE ~BettingRoundComplete(r) /\ s = [r EXCEPT !.hand.turn = NextActiveSeat(r)]
    <2> DEFINE D == {u \in CanAct(r) : Owes(r, u)}
               from == Anchor(Seats(r), r.hand.turn)
    <2>1. Owing(r, D)
      BY <1>3 DEF BettingRoundComplete, Owing
    <2>2. NextActiveSeat(r) = NextSeat(SeatsOf(r, D), from)
      BY DEF NextActiveSeat
    <2> HIDE DEF D, from
    <2>3. s = Turned(r, NextSeat(SeatsOf(r, D), from))
      BY <1>3, <2>2, Zenon DEF Turned
    <2>4. SameHand(s, r, T) /\ SameStreet(s, r) /\ TurnDue(s)
          /\ s.phase = r.phase /\ s.hand.phase = r.hand.phase
      BY <2>1, <2>3, TurnGiven
    <2>5. EvenOn(s)
      BY <2>4, EvenKept
    <2> QED
      BY <2>4, <2>5 DEF Goes, GoesOn
  <1>4. CASE /\ BettingRoundComplete(r) /\ r.hand.phase # "RIVER"
             /\ s \in BeginBettingRound(r, PhaseAfter[r.hand.phase])
    <2>1. r.hand.phase \in {"PRE_FLOP", "FLOP", "TURN"}
      BY <1>4 DEF BettingPhases
    <2>2. PhaseAfter[r.hand.phase] \in BettingPhases
      BY <2>1 DEF PhaseAfter, BettingPhases
    <2> QED
      BY <1>4, <2>2, BeginGoes
  <1> QED
    BY <1>1, <1>2, <1>3, <1>4

\* apply_action
LEMMA ApplyGoes ==
    ASSUME NEW r, InPlay(r), EvenOn(r), r.phase \in BettingPhases, r.hand.phase = r.phase, NEW u,
           NEW type \in {"fold", "check", "call", "raise", "all_in"}, NEW amount \in Int,
           NEW s \in ApplyAction(r, u, type, amount)
    PROVE  Goes(s, r, {u}) /\ u \in CanAct(r)
  <1> DEFINE f == [r EXCEPT !.players[u].timeouts = 0]
             p == [r.players[u] EXCEPT !.timeouts = 0]
             b == Bet(f, u, type, amount)
             T == {u}
  <1>1. ValidAction(r, u, type, amount) /\ s \in Advance(b)
    BY DEF ApplyAction
  <1>2. u \in Seated(r) /\ u \in CanAct(r)
    BY <1>1 DEF ValidAction, ValidTurn, CanAct, WithStatus
  <1>3. /\ r.players[u] \in SomePlayer /\ r.players \in [Seated(r) -> SomePlayer]
        /\ Seated(r) \subseteq Users /\ r \in Games /\ OwnSeats(r.players)
    BY <1>2, GameIs DEF InPlay
  <1>4. /\ p \in SomePlayer /\ p.seat = r.players[u].seat /\ p.stack = r.players[u].stack
        /\ p.status = r.players[u].status
    BY <1>3 DEF SomePlayer, Statuses
  <1>5. f = [r EXCEPT !.players = [r.players EXCEPT ![u] = p]]
    BY <1>3 DEF Games
  <1>6. p.status \in {r.players[u].status, "SIT_OUT"}
    BY <1>4
  <1> HIDE DEF p, f
  <1>7. Kept(f, r) /\ f.phase = r.phase /\ f.hand = r.hand
    BY <1>2, <1>3, <1>4, <1>5, <1>6, StatusKept
  <1>8. Seated(f) = Seated(r) /\ f.players[u] = p
        /\ \A w \in Seated(r) \ {u} : f.players[w] = r.players[w]
    BY <1>2, <1>3, <1>4, <1>5, PlayerChanged
  <1>9. ValidAction(f, u, type, amount)
    BY <1>1, <1>2, <1>4, <1>7, <1>8, ValidKept
  <1>10. InPlay(f)
    BY <1>7 DEF Kept
  <1>11. SameHand(f, r, T) /\ SameStreet(f, r)
    <2>1. \A w \in Seated(r) : /\ f.players[w].status = r.players[w].status
                               /\ f.players[w].stack = r.players[w].stack
      BY <1>4, <1>8
    <2>2. SameHand(f, r, T)
      BY <1>7, <2>1, SameHandIs
    <2> QED
      BY <1>7, <2>1, <2>2 DEF SameStreet
  <1>12. Kept(b, f) /\ b.phase = f.phase /\ b.hand.phase = f.hand.phase
    BY <1>9, <1>10, BetIs
  <1>13. SameHand(b, f, T) /\ SameStreet(b, f)
    BY <1>9, <1>10, ActionStreet
  <1> HIDE DEF b, T
  <1>14. SameHand(b, r, T) /\ SameStreet(b, r)
    BY <1>11, <1>13, SameHandAgain
  <1>15. EvenOn(b)
    BY <1>14, EvenKept
  <1>16. InPlay(b) /\ b.phase \in BettingPhases /\ b.hand.phase = b.phase
    BY <1>7, <1>12 DEF Kept
  <1>17. Goes(s, b, T)
    BY <1>1, <1>15, <1>16, AdvanceGoes
  <1>18. Goes(s, r, T)
    BY <1>14, <1>17, GoesAgain
  <1> QED
    BY <1>2, <1>18 DEF T

-----------------------------------------------------------------------------
(* How a hand starts *)

\* A forced bet of a player who is in
LEMMA ForcedStreet ==
    ASSUME NEW r, InPlay(r), NEW u \in InHand(r), NEW T, u \in T, NEW amount \in Nat
    PROVE  LET s == PostForcedBet(r, u, amount)
           IN  SameHand(s, r, T) /\ SameStreet(s, r) /\ InHand(r) \subseteq InHand(s)
  <1> DEFINE total == r.hand.bets[u] + MinOf(amount, r.players[u].stack)
             b == BetTotal(r, u, total)
             s == PostForcedBet(r, u, amount)
  <1>1. r \in Games /\ OwnSeats(r.players) /\ u \in Seated(r) /\ u \in DOMAIN r.hand.start
        /\ r.hand.bets[u] \in Nat /\ r.players[u].stack \in Nat
    BY InHandIs DEF InPlay
  <1>2. total \in Nat /\ total <= r.hand.bets[u] + r.players[u].stack
    BY <1>1 DEF MinOf
  <1>3. s = IF total > r.hand.current_bet
              THEN [b EXCEPT !.hand.current_bet = total, !.hand.min_raise_to = total + amount]
              ELSE b
    BY DEF PostForcedBet
  <1>4. Kept(s, r)
    BY <1>1, ForcedBetIs
  <1> HIDE DEF total
  <1>5. Betted(b, r, u, total)
    BY <1>1, <1>2, BetTotalIs
  <1>6. b \in Games /\ b.hand \in Hands
    BY <1>5 DEF Betted, Games
  <1> HIDE DEF b, s
  <1>7. s.players = b.players /\ s.hand.bets = b.hand.bets
    BY <1>3, <1>6 DEF Games, Hands
  <1>8. SameHand(s, r, T) /\ SameStreet(s, r)
    BY <1>2, <1>4, <1>5, <1>7, BetStreet
  <1>9. InHand(r) \subseteq InHand(s)
    <2>1. Seated(s) = Seated(r)
      BY <1>4 DEF Kept, SameTable
    <2>2. s.players[u].status \in {r.players[u].status, "ALL_IN"}
          /\ \A w \in Seated(r) \ {u} : s.players[w] = r.players[w]
      BY <1>5, <1>7 DEF Betted
    <2> QED
      BY <2>1, <2>2 DEF InHand, WithStatus
  <1> QED
    BY <1>8, <1>9 DEF s

\* o is the table r when a hand opens: everybody is dealt in with his stack, who
\* can act is who could after the reset, and nobody else is in.
OpenedFrom(o, r) ==
    /\ InPlay(o) /\ SameTable(o, r) /\ DOMAIN o.hand.start = Seated(r)
    /\ CanAct(o) = CanAct(Reset(r)) /\ InHand(o) = CanAct(o) /\ EvenOn(o)
    /\ \A u \in Seated(r) : /\ o.hand.start[u] = r.players[u].stack
                            /\ o.players[u].stack = r.players[u].stack

\* What _reset_player_statuses leaves of the table
LEMMA OpenedFromIs ==
    ASSUME NEW r \in Games, OwnSeats(r.players), Ordered(r), NEW dealer \in AnySeat,
           NEW bb \in AnySeat
    PROVE  OpenedFrom(Opened(Reset(r), dealer, bb), r)
  <1> DEFINE x == Reset(r)
             o == Opened(x, dealer, bb)
  <1>1. /\ x \in Games /\ OwnSeats(x.players) /\ SameTable(x, r)
        /\ \A u \in Seated(r) : x.players[u].stack = r.players[u].stack
        /\ \A u \in Seated(r) : x.players[u] = ResetStatus(r.players[u])
    BY ResetIs
  <1> HIDE DEF x
  <1>2. Ordered(x)
    BY <1>1 DEF Ordered, SameTable
  <1>3. InPlay(o) /\ SameTable(o, x) /\ o.players = x.players /\ DOMAIN o.hand.start = Seated(x)
    BY <1>1, <1>2, OpenedIs
  <1>4. o.hand.bets = NoBets /\ o.hand.start = [u \in Seated(x) |-> x.players[u].stack]
    <2> DEFINE h == [EmptyHand("START_HAND", dealer) EXCEPT
                        !.bb = bb, !.min_raise_to = BigBlind,
                        !.start = [u \in Seated(x) |-> x.players[u].stack],
                        !.start_order = x.order]
    <2>1. o = [x EXCEPT !.hand = h]
      BY DEF Opened
    <2>2. h.bets = NoBets /\ h.start = [u \in Seated(x) |-> x.players[u].stack]
      BY DEF EmptyHand
    <2> HIDE DEF h, o
    <2>3. o.hand = h
      BY <1>1, <2>1 DEF Games
    <2> QED
      BY <2>2, <2>3
  <1> HIDE DEF o
  <1>5. Seated(x) = Seated(r) /\ Seated(o) = Seated(r) /\ SameTable(o, r)
    BY <1>1, <1>3 DEF SameTable
  <1>6. CanAct(o) = CanAct(x)
    BY <1>3 DEF CanAct, WithStatus, Seated
  <1>7. \A u \in Seated(r) : /\ o.hand.start[u] = r.players[u].stack
                             /\ o.players[u].stack = r.players[u].stack
    BY <1>1, <1>3, <1>4, <1>5
  <1>8. EvenOn(o)
    <2>1. ASSUME NEW w \in DealtIn(o) PROVE Behind(o, w) = 0
      <3>1. w \in Seated(r) /\ w \in Users /\ o.players[w].stack \in Nat
        BY <1>3, <1>5, InHandIs
      <3>2. o.hand.bets[w] = 0
        BY <1>4, <3>1 DEF NoBets
      <3>3. o.hand.start[w] = o.players[w].stack
        BY <1>7, <3>1
      <3> QED
        BY <3>1, <3>2, <3>3 DEF Behind
    <2>2. CanAct(o) \subseteq DealtIn(o)
      BY <1>3, InHandIs
    <2> QED
      BY <2>1, <2>2 DEF EvenOn
  <1>9. InHand(o) = CanAct(o)
    <2>1. ASSUME NEW u \in Seated(r) PROVE o.players[u].status # "ALL_IN"
      <3>1. r.players[u] \in SomePlayer /\ o.players[u] = ResetStatus(r.players[u])
        BY <1>1, <1>3, GameIs
      <3>2. ResetStatus(r.players[u]).status # "ALL_IN"
        BY <3>1 DEF ResetStatus, SomePlayer, Statuses
      <3> QED
        BY <3>1, <3>2
    <2> QED
      BY <1>5, <2>1 DEF InHand, CanAct, WithStatus
  <1> QED
    BY <1>3, <1>5, <1>6, <1>7, <1>8, <1>9 DEF OpenedFrom, x, o

\* The blinds are forced bets of players who can act.
LEMMA BlindsStreet ==
    ASSUME NEW r \in Games, OwnSeats(r.players), Ordered(r), NEW dealer \in AnySeat,
           {u \in CanAct(Reset(r)) : Reset(r).players[u].stack > 0} # {}
    PROVE  LET s == PostBlinds(Reset(r), dealer)
           IN  \E o : OpenedFrom(o, r) /\ SameHand(s, o, CanAct(o)) /\ SameStreet(s, o)
  <1> DEFINE x == Reset(r)
             C == {u \in CanAct(x) : x.players[u].stack > 0}
             S == SeatsOf(x, C)
             d == Anchor(S, dealer)
             sb == IF Cardinality(S) = 2 THEN d ELSE NextSeat(S, d)
             bb == NextSeat(S, sb)
             o == Opened(x, dealer, bb)
             a == UserAt(x, sb)
             b == UserAt(x, bb)
             small == PostForcedBet(o, a, SmallBlind)
             s == PostForcedBet(small, b, BigBlind)
             T == CanAct(o)
  <1>1. x \in Games /\ OwnSeats(x.players) /\ SameTable(x, r)
    BY ResetIs
  <1>2. PostBlinds(x, dealer) = s
    BY DEF PostBlinds, BlindSeats, Opened
  <1>3. SeatIndex \subseteq Nat /\ SmallBlind \in Nat /\ BigBlind \in Nat
    BY Configured
  <1>4. S \in SUBSET SeatIndex /\ S # {}
    <2>1. C \in SUBSET Seated(x) /\ C # {}
      BY DEF CanAct, WithStatus
    <2>2. \A u \in Seated(x) : x.players[u].seat \in SeatIndex
      BY <1>1, GameIs
    <2> HIDE DEF C, x
    <2> QED
      BY <2>1, <2>2 DEF SeatsOf
  <1>5. ASSUME NEW seat \in S PROVE UserAt(x, seat) \in CanAct(x)
    <2>1. PICK u \in C : x.players[u].seat = seat
      BY DEF SeatsOf
    <2>2. u \in Seated(x) /\ u \in CanAct(x) /\ seat \in Seats(x)
      BY <2>1 DEF CanAct, WithStatus, Seats
    <2>3. UserAt(x, seat) \in Seated(x) /\ x.players[UserAt(x, seat)].seat = seat
      BY <2>2, UserAtIs
    <2>4. UserAt(x, seat) = u
      BY <1>1, <2>1, <2>2, <2>3 DEF OwnSeats, Seated
    <2> QED
      BY <2>2, <2>4
  <1> HIDE DEF S, x
  <1>6. S \in SUBSET Nat
    BY <1>3, <1>4
  <1>7. d \in S
    BY <1>4, <1>6, AnchorIs
  <1>8. sb \in S
    <2>1. NextSeat(S, d) \in S
      BY <1>4, <1>6, NextSeatIs
    <2> QED
      BY <1>7, <2>1
  <1> HIDE DEF sb
  <1>9. bb \in S /\ bb \in AnySeat
    BY <1>4, <1>6, NextSeatIs DEF AnySeat
  <1> HIDE DEF bb
  <1>10. OpenedFrom(o, r)
    BY <1>9, OpenedFromIs DEF x
  <1> HIDE DEF o
  <1>11. a \in T /\ b \in T
    <2>1. a \in CanAct(x)
      BY <1>5, <1>8
    <2>2. b \in CanAct(x)
      BY <1>5, <1>9
    <2> QED
      BY <1>10, <2>1, <2>2 DEF OpenedFrom, x
  <1>12. InPlay(o) /\ T \subseteq InHand(o)
    <2>1. InPlay(o)
      BY <1>10 DEF OpenedFrom
    <2> QED
      BY <2>1, InHandIs
  <1> HIDE DEF a, b, T
  <1>13. SameHand(small, o, T) /\ SameStreet(small, o) /\ InHand(o) \subseteq InHand(small)
    BY <1>3, <1>11, <1>12, ForcedStreet
  <1> HIDE DEF small
  <1>14. InPlay(small)
    BY <1>13 DEF SameHand, Kept
  <1>15. SameHand(s, small, T) /\ SameStreet(s, small)
    BY <1>3, <1>11, <1>12, <1>13, <1>14, ForcedStreet
  <1> HIDE DEF s
  <1>16. SameHand(s, o, T) /\ SameStreet(s, o)
    BY <1>13, <1>15, SameHandAgain
  <1>17. \E p : OpenedFrom(p, r) /\ SameHand(s, p, CanAct(p)) /\ SameStreet(s, p)
    BY <1>10, <1>16 DEF T
  <1> QED
    BY <1>2, <1>17, Zenon DEF x

\* The straddle is one too.
LEMMA StraddleStreet ==
    ASSUME NEW r, InPlay(r), NEW T, CanAct(r) \subseteq T
    PROVE  SameHand(PostStraddle(r), r, T) /\ SameStreet(PostStraddle(r), r)
  <1> DEFINE u == UserAt(r, NextSeat(Seats(r), r.hand.bb))
             s == PostStraddle(r)
             amount == 2 * BigBlind
  <1>1. \/ s = r
        \/ u \in CanAct(r) /\ s = PostForcedBet(r, u, amount)
    BY DEF PostStraddle
  <1>2. amount \in Nat
    BY Configured
  <1> HIDE DEF u, s, amount
  <1>3. CASE s = r
    BY <1>3, SameHandSelf DEF s
  <1>4. CASE u \in CanAct(r) /\ s = PostForcedBet(r, u, amount)
    <2>1. u \in InHand(r) /\ u \in T
      BY <1>4, InHandIs
    <2>2. SameHand(s, r, T) /\ SameStreet(s, r)
      BY <1>2, <1>4, <2>1, ForcedStreet
    <2> QED
      BY <2>2 DEF s
  <1> QED
    BY <1>1, <1>3, <1>4

\* Dealing moves no chips, and may fold a seven-ten.
LEMMA DealStreet ==
    ASSUME NEW r, InPlay(r), NEW s \in DealHoleCards(r), NEW T
    PROVE  SameHand(s, r, T) /\ SameStreet(s, r)
  <1>1. PICK c \in [CanAct(r) -> Cards] :
           s = [r EXCEPT !.hand.cards = c,
                         !.players = [u \in Seated(r) |->
                              IF u \in CanAct(r) /\ c[u].kind = "seven_ten"
                                THEN [r.players[u] EXCEPT !.status = "FOLDED"]
                                ELSE r.players[u]]]
    BY DEF DealHoleCards
  <1>2. Kept(s, r)
    BY DealIs
  <1>3. r \in Games /\ r.hand \in Hands /\ \A u \in Seated(r) : r.players[u] \in SomePlayer
    BY GameIs DEF InPlay
  <1> DEFINE ps == [u \in Seated(r) |->
                       IF u \in CanAct(r) /\ c[u].kind = "seven_ten"
                         THEN [r.players[u] EXCEPT !.status = "FOLDED"]
                         ELSE r.players[u]]
             h == [r.hand EXCEPT !.cards = c]
  <1>4. s = [r EXCEPT !.hand = h, !.players = ps]
    BY <1>1, <1>3 DEF Games
  <1>5. h.bets = r.hand.bets
    BY <1>3 DEF Hands
  <1>6. \A u \in Seated(r) : /\ ps[u].stack = r.players[u].stack
                             /\ ps[u].status \in {r.players[u].status, "FOLDED"}
    BY <1>3 DEF SomePlayer
  <1> HIDE DEF ps, h
  <1>7. s.players = ps /\ s.hand = h
    BY <1>3, <1>4 DEF Games
  <1>8. SameHand(s, r, T)
    BY <1>2, <1>6, <1>7, SameHandIs
  <1> QED
    BY <1>5, <1>6, <1>7, <1>8 DEF SameStreet

\* start_hand
LEMMA StartGoes ==
    ASSUME NEW r \in Games, OwnSeats(r.players), Ordered(r), NEW s \in StartHand(r)
    PROVE  \E o : OpenedFrom(o, r) /\ Goes(s, o, CanAct(o))
  <1> DEFINE x == Reset(r)
             dealer == NextDealer(x)
             b == PostBlinds(x, dealer)
             st == PostStraddle(b)
  <1>1. /\ Cardinality(Eligible(x)) >= 2
        /\ \E d \in DealHoleCards(st) : s \in BeginBettingRound(d, "PRE_FLOP")
    BY DEF StartHand, MayStart, Deals
  <1>2. /\ x \in Games /\ OwnSeats(x.players) /\ SameTable(x, r)
        /\ \A u \in Seated(r) : x.players[u].status # "WAITING"
    BY ResetIs
  <1>3. {u \in CanAct(x) : x.players[u].stack > 0} # {}
    <2> HIDE DEF x
    <2>1. Eligible(x) # {}
      <3>1. Cardinality({}) = 0
        BY FS_EmptySet
      <3> QED
        BY <1>1, <3>1
    <2>2. \A u \in Seated(x) : x.players[u].status # "WAITING"
      BY <1>2 DEF SameTable
    <2>3. Eligible(x) \subseteq {u \in CanAct(x) : x.players[u].stack > 0}
      BY <2>2 DEF Eligible, CanAct, WithStatus
    <2> QED
      BY <2>1, <2>3
  <1>4. dealer \in AnySeat
    <2> HIDE DEF x
    <2>1. CanAct(x) # {}
      BY <1>3
    <2> QED
      BY <1>2, <2>1, DealerIs
  <1> HIDE DEF dealer
  <1>5. \E o : OpenedFrom(o, r) /\ SameHand(b, o, CanAct(o)) /\ SameStreet(b, o)
    BY <1>3, <1>4, BlindsStreet
  <1>6. PICK o : OpenedFrom(o, r) /\ SameHand(b, o, CanAct(o)) /\ SameStreet(b, o)
    BY <1>5
  <1> DEFINE T == CanAct(o)
  <1> HIDE DEF b, x, T
  <1>7. InPlay(o) /\ EvenOn(o)
    BY <1>6 DEF OpenedFrom
  <1>8. SameHand(b, o, T) /\ SameStreet(b, o) /\ InPlay(b) /\ CanAct(b) \subseteq T
    BY <1>6 DEF SameHand, Kept, T
  <1>9. SameHand(st, b, T) /\ SameStreet(st, b)
    BY <1>8, StraddleStreet
  <1> HIDE DEF st
  <1>10. SameHand(st, o, T) /\ SameStreet(st, o)
    BY <1>8, <1>9, SameHandAgain
  <1>11. InPlay(st)
    BY <1>9 DEF SameHand, Kept
  <1>12. PICK q \in DealHoleCards(st) : s \in BeginBettingRound(q, "PRE_FLOP")
    BY <1>1
  <1>13. SameHand(q, st, T) /\ SameStreet(q, st)
    BY <1>11, DealStreet
  <1>14. SameHand(q, o, T) /\ SameStreet(q, o)
    BY <1>10, <1>13, SameHandAgain
  <1>15. EvenOn(q) /\ InPlay(q)
    <2>1. InPlay(q)
      BY <1>14 DEF SameHand, Kept
    <2> QED
      BY <1>7, <1>14, <2>1, EvenKept
  <1>16. "PRE_FLOP" \in BettingPhases
    BY DEF BettingPhases
  <1>17. Goes(s, q, T)
    BY <1>12, <1>15, <1>16, BeginGoes
  <1>18. Goes(s, o, T)
    BY <1>14, <1>17, GoesAgain
  <1> QED
    BY <1>6, <1>18 DEF T

-----------------------------------------------------------------------------
(* Type correctness and the chips *)

\* Everybody has just bought in.
LEMMA FullInitially ==
    Init => FullTable(g)
  BY FreshIsFull DEF Init

\* The amounts of a raise are integers.
LEMMA ActionsAre ==
    ASSUME NEW u, Act(u)
    PROVE  \E type \in {"fold", "check", "call", "raise", "all_in"}, amount \in Int :
              g' \in ApplyAction(g, u, type, amount)
  BY DEF Act

\* Every call of the engine leaves the table in order, and everybody in his seat.
LEMMA StepFull ==
    ASSUME FullTable(g), Next
    PROVE  FullTable(g') /\ SameTable(g', g)
  <1>1. CASE Deal
    <2>1. g' \in StartHand(g)
      BY <1>1 DEF Deal
    <2>2. SoundTable(g', AllChips) /\ SameTable(g', g)
          /\ (Playing(g') => DOMAIN g'.hand.start = Seated(g'))
      BY <2>1, StartSound DEF FullTable
    <2> QED
      BY <2>2 DEF FullTable, SameTable
  <1>2. ASSUME NEW u \in Users, Act(u) PROVE FullTable(g') /\ SameTable(g', g)
    <2>1. PICK type \in {"fold", "check", "call", "raise", "all_in"}, amount \in Int :
             g' \in ApplyAction(g, u, type, amount)
      BY <1>2, ActionsAre
    <2>2. ValidTurn(g, u)
      BY <2>1 DEF ApplyAction, ValidAction
    <2>3. Playing(g) /\ Bank(g) = AllChips
      BY <2>2, FullPhase DEF ValidTurn
    <2>4. Played(g', g)
      BY <2>1, <2>3, ApplyActionIs DEF Playing
    <2>5. SoundTable(g', AllChips) /\ SameTable(g', g)
          /\ (Playing(g') => g'.hand.start = g.hand.start)
      BY <2>3, <2>4, PlayedSound DEF FullTable
    <2> QED
      BY <2>3, <2>5 DEF FullTable, SameTable
  <1>3. CASE Timeout
    <2>1. g' \in HandleTimeout(g) /\ g.hand.turn # NoSeat
      BY <1>3 DEF Timeout
    <2>2. Playing(g) /\ Bank(g) = AllChips
      BY <2>1, FullPhase, IdleIs
    <2>3. Played(g', g)
      BY <2>1, <2>2, HandleTimeoutIs DEF Playing
    <2>4. SoundTable(g', AllChips) /\ SameTable(g', g)
          /\ (Playing(g') => g'.hand.start = g.hand.start)
      BY <2>2, <2>3, PlayedSound DEF FullTable
    <2> QED
      BY <2>2, <2>4 DEF FullTable, SameTable
  <1> QED
    BY <1>1, <1>2, <1>3 DEF Next

\* So does a step that changes nothing.
LEMMA FullKept ==
    ASSUME FullTable(g), [Next]_g
    PROVE  FullTable(g)'
  <1>1. CASE Next
    BY <1>1, StepFull
  <1>2. CASE g' = g
    BY <1>2
  <1> QED
    BY <1>1, <1>2

\* The table stays in order and complete.
LEMMA FullAlways ==
    Spec => []FullTable(g)
  <1>1. Init => FullTable(g)
    BY FullInitially
  <1>2. FullTable(g) /\ [Next]_g => FullTable(g)'
    BY FullKept
  <1> QED
    BY <1>1, <1>2, PTL DEF Spec

\* A table in order is well typed.
LEMMA FullTyped ==
    FullTable(g) => TypeOK
  <1> SUFFICES ASSUME FullTable(g) PROVE TypeOK
    OBVIOUS
  <1>1. g.hand.phase \in BettingPhases \cup {"NONE", "HAND_END"}
    BY FullPhase, IdleIs
  <1>2. g.phase \in BettingPhases \cup {"WAITING_FOR_PLAYERS"}
    BY FullIs DEF Games
  <1> QED
    BY <1>1, <1>2, FullIs DEF TypeOK, PlayerRecord, SomePlayer, AnySeat

\* Every field of the game state holds what the engine may put there
\* (GameState and HandState, whatever calls are made).
THEOREM TypesAreKept ==
    Spec => []TypeOK
  BY FullAlways, FullTyped, PTL

\* No hand creates or destroys a chip, and a stack is never below zero
\* (calculate_pots, award_pots and _award_hand).
THEOREM ChipsAreConserved ==
    Spec => []ChipConservation
  <1>1. FullTable(g) => ChipConservation
    <2> SUFFICES ASSUME FullTable(g) PROVE ChipConservation
      OBVIOUS
    <2>1. CASE Playing(g) /\ Bank(g) = AllChips /\ g.hand.phase \in BettingPhases
      <3>1. SumFunction(g.hand.start) = StartingStack * Cardinality(Users)
        BY <2>1, FullBank DEF AllChips
      <3>2. ASSUME NEW u \in Users
            PROVE  Stack(u) >= 0 /\ g.hand.bets[u] <= Contribution(u)
        <4>1. /\ g.hand.bets[u] + g.players[u].stack <= g.hand.start[u]
              /\ Contribution(u) = g.hand.start[u] - g.players[u].stack
          BY <2>1 DEF FullTable, Playing, InPlay, BetsCovered, Contribution, TotalContributions
        <4>2. g.players[u].stack \in Nat /\ g.hand.bets[u] \in Nat /\ g.hand.start[u] \in Nat
          BY <2>1, FullIs DEF FullTable
        <4> QED
          BY <4>1, <4>2 DEF Stack
      <3> QED
        BY <2>1, <3>1, <3>2 DEF ChipConservation, Betting
    <2>2. CASE Idle(g) /\ StacksOf(g.players) = AllChips /\ g.hand.phase \notin BettingPhases
      <3>1. [u \in Users |-> Stack(u)] = [u \in DOMAIN g.players |-> g.players[u].stack]
        BY DEF FullTable, Seated, Stack
      <3>2. SumFunction([u \in Users |-> Stack(u)]) = StacksOf(g.players)
        BY <3>1, Zenon DEF StacksOf
      <3> QED
        BY <2>2, <3>2 DEF ChipConservation, Betting, AllChips
    <2> QED
      BY <2>1, <2>2, FullPhase
  <1> QED
    BY <1>1, FullAlways, PTL

-----------------------------------------------------------------------------
(* What a call returns, a timeout's sit-out included *)

\* The turn is with a player whom his last timeout sat out.
SatOutAtTurn(s) ==
    /\ s.hand.turn \in Seats(s)
    /\ s.players[UserAt(s, s.hand.turn)].status = "SIT_OUT"
    /\ s.players[UserAt(s, s.hand.turn)].timeouts >= SitOutAfter

\* The hand goes on, or it is over, with the stacks that were awarded.
WentOn(s, r, T) ==
    /\ SameHand(s, r, T) /\ s.phase \in BettingPhases /\ s.hand.phase = s.phase
    /\ EvenOn(s) /\ (TurnDue(s) \/ SatOutAtTurn(s))
Ended(s, r, T) ==
    \E a : /\ Awarded(a, r, T) /\ s.hand = a.hand
           /\ \A w \in Seated(r) : s.players[w].stack = a.players[w].stack
Went(s, r, T) == WentOn(s, r, T) \/ Ended(s, r, T)

\* What the engine returns is where the hand went.
LEMMA GoesWent ==
    ASSUME NEW s, NEW r, NEW T, Goes(s, r, T)
    PROVE  Went(s, r, T)
  BY DEF Goes, GoesOn, Went, WentOn, Ended

\* An award ends the hand, and the button stays where it was.
LEMMA AwardedIs ==
    ASSUME NEW s, NEW r, NEW T, Awarded(s, r, T)
    PROVE  s.hand.phase = "HAND_END" /\ s.hand.dealer = r.hand.dealer
           /\ s.hand.phase \notin BettingPhases
  <1>1. PICK q : SameHand(q, r, T) /\ s \in AwardHand(q)
    BY DEF Awarded
  <1>2. Over(s, q) /\ q.hand.dealer = r.hand.dealer
    BY <1>1, AwardHandIs DEF SameHand, Kept
  <1>3. s.hand = EmptyHand("HAND_END", q.hand.dealer)
    BY <1>2 DEF Over
  <1>4. \A phase, dealer : EmptyHand(phase, dealer).phase = phase
                           /\ EmptyHand(phase, dealer).dealer = dealer
    BY DEF EmptyHand
  <1> QED
    BY <1>2, <1>3, <1>4 DEF BettingPhases

\* One player's count of timeouts, and perhaps his seat sat out
LEMMA TimedOut ==
    ASSUME NEW a, InPlay(a), NEW u \in Seated(a), NEW p \in SomePlayer,
           p.seat = a.players[u].seat, p.stack = a.players[u].stack,
           \/ p.status = a.players[u].status
           \/ p.status = "SIT_OUT" /\ p.timeouts >= SitOutAfter,
           NEW s, s = [a EXCEPT !.players = [a.players EXCEPT ![u] = p]],
           TurnDue(a), NEW T
    PROVE  /\ SameHand(s, a, T) /\ SameStreet(s, a) /\ s.phase = a.phase /\ s.hand = a.hand
           /\ TurnDue(s) \/ SatOutAtTurn(s)
  <1>1. a \in Games /\ OwnSeats(a.players) /\ \A w \in Seated(a) : a.players[w].stack \in Nat
    BY GameIs DEF InPlay
  <1>2. p.status \in {a.players[u].status, "SIT_OUT"}
    OBVIOUS
  <1>3. /\ s \in Games /\ s.hand = a.hand /\ s.phase = a.phase
        /\ Seated(s) = Seated(a) /\ s.players[u] = p
        /\ \A w \in Seated(a) \ {u} : s.players[w] = a.players[w]
        /\ OwnSeats(s.players)
    BY <1>1, PlayerChanged
  <1>4. Kept(s, a)
    BY <1>1, <1>2, StatusKept
  <1>5. SameHand(s, a, T)
    BY <1>3, <1>4, SameHandIs
  <1>6. SameStreet(s, a)
    BY <1>3 DEF SameStreet
  <1> DEFINE seat == a.hand.turn
             v == UserAt(a, seat)
  <1>7. seat \in Seats(a) /\ v \in CanAct(a) /\ Owes(a, v)
    BY DEF TurnDue
  <1>8. v \in Seated(a) /\ a.players[v].seat = seat
    BY <1>7, UserAtIs
  <1> HIDE DEF v, seat
  <1>9. s.players[v].seat = seat /\ v \in Seated(s) /\ seat \in Seats(s)
    <2>1. s.players[v].seat = seat
      <3>1. CASE v = u
        BY <1>3, <1>8, <3>1
      <3>2. CASE v # u
        BY <1>3, <1>8, <3>2
      <3> QED
        BY <3>1, <3>2
    <2>2. v \in Seated(s)
      BY <1>3, <1>8
    <2> QED
      BY <2>1, <2>2 DEF Seats
  <1>10. UserAt(s, seat) = v
    <2>1. UserAt(s, seat) \in Seated(s) /\ s.players[UserAt(s, seat)].seat = seat
      BY ONLY <1>9, UserAtIs
    <2> QED
      BY <1>3, <1>9, <2>1 DEF OwnSeats, Seated
  <1>11. s.hand.turn = seat
    BY <1>3 DEF seat
  <1>12. CASE s.players[v].status = a.players[v].status
    <2>1. v \in CanAct(s)
      BY <1>7, <1>9, <1>12 DEF CanAct, WithStatus
    <2>2. Owes(s, v)
      BY <1>3, <1>7, <1>8, <1>9 DEF Owes
    <2> QED
      BY <1>3, <1>5, <1>6, <1>9, <1>10, <1>11, <2>1, <2>2 DEF TurnDue
  <1>13. CASE s.players[v].status # a.players[v].status
    <2>1. v = u /\ p.status = "SIT_OUT" /\ p.timeouts >= SitOutAfter
      BY <1>3, <1>8, <1>13
    <2> QED
      BY <1>3, <1>5, <1>6, <1>9, <1>10, <1>11, <2>1 DEF SatOutAtTurn
  <1> QED
    BY <1>12, <1>13

\* handle_timeout
LEMMA TimeoutWent ==
    ASSUME NEW r, InPlay(r), EvenOn(r), r.phase \in BettingPhases, r.hand.phase = r.phase,
           r.hand.turn # NoSeat, r.hand.turn \in Seats(r), NEW s \in HandleTimeout(r)
    PROVE  \E u \in CanAct(r) : Went(s, r, {u})
  <1> DEFINE u == UserAt(r, r.hand.turn)
             count == MinOf(r.players[u].timeouts + 1, SitOutAfter)
             type == AutoAction(r, u)
             S(a) == [a EXCEPT !.players[u].timeouts = count,
                               !.players[u].status = IF count >= SitOutAfter
                                                       THEN "SIT_OUT" ELSE @]
             T == {u}
  <1>1. u \in Seated(r)
    BY UserAtIs
  <1>2. r.players[u].timeouts \in Nat
    <2>1. r.players[u] \in SomePlayer
      BY <1>1, GameIs DEF InPlay
    <2> QED
      BY <2>1 DEF SomePlayer
  <1> HIDE DEF u
  <1>3. count \in Nat
    BY <1>2, Configured DEF MinOf
  <1>4. type \in {"fold", "check", "call", "raise", "all_in"} /\ 0 \in Int
    BY DEF AutoAction
  <1>5. \E a \in ApplyAction(r, u, type, 0) : s = S(a)
    BY Zenon DEF HandleTimeout, u
  <1>6. PICK a \in ApplyAction(r, u, type, 0) : s = S(a)
    BY <1>5
  <1> HIDE DEF type, count
  <1>7. Goes(a, r, {u}) /\ u \in CanAct(r)
    BY <1>4, ApplyGoes
  <1>8. Played(a, r)
    BY <1>4, ApplyActionIs
  <1>9. a \in Games /\ OwnSeats(a.players) /\ u \in Seated(a) /\ Seated(a) = Seated(r)
    BY <1>1, <1>8 DEF Played, PlayedOn, Kept, Over, InPlay, SameTable
  <1> DEFINE status == IF count >= SitOutAfter THEN "SIT_OUT" ELSE a.players[u].status
             p == [a.players[u] EXCEPT !.timeouts = count, !.status = status]
  <1>10. a.players \in [Seated(a) -> SomePlayer] /\ a.players[u] \in SomePlayer
    BY <1>9, GameIs
  <1>11. s = [a EXCEPT !.players = [a.players EXCEPT ![u] = p]]
    BY <1>6, <1>9, <1>10 DEF Games, SomePlayer
  <1>12. \/ status = a.players[u].status
         \/ status = "SIT_OUT" /\ count >= SitOutAfter
    OBVIOUS
  <1>13. status \in Statuses
    BY <1>10 DEF SomePlayer, Statuses
  <1> HIDE DEF status
  <1>14. /\ p \in SomePlayer /\ p.seat = a.players[u].seat
         /\ p.stack = a.players[u].stack /\ p.status = status /\ p.timeouts = count
    BY <1>3, <1>10, <1>13 DEF SomePlayer
  <1> HIDE DEF p, S
  <1>15. CASE GoesOn(a, r, T)
    <2>1. InPlay(a) /\ TurnDue(a) /\ EvenOn(a)
      BY <1>15 DEF GoesOn, SameHand, Kept
    <2> HIDE DEF T
    <2>2. /\ SameHand(s, a, T) /\ SameStreet(s, a) /\ s.phase = a.phase /\ s.hand = a.hand
          /\ TurnDue(s) \/ SatOutAtTurn(s)
      BY <1>9, <1>11, <1>12, <1>14, <2>1, TimedOut
    <2>3. EvenOn(s)
      BY <2>1, <2>2, EvenKept
    <2>4. SameHand(s, r, T)
      BY <1>15, <2>2, SameHandAgain DEF GoesOn
    <2> QED
      BY <1>7, <1>15, <2>2, <2>3, <2>4 DEF Went, WentOn, GoesOn, T
  <1>16. CASE Awarded(a, r, T)
    <2>1. s.hand = a.hand /\ \A w \in Seated(r) : s.players[w].stack = a.players[w].stack
      <3>1. /\ s.hand = a.hand /\ s.players[u] = p
            /\ \A w \in Seated(a) \ {u} : s.players[w] = a.players[w]
        BY <1>9, <1>11, <1>14, PlayerChanged
      <3> QED
        BY <1>9, <1>14, <3>1
    <2> HIDE DEF T
    <2>2. Went(s, r, T)
      BY <1>16, <2>1 DEF Went, Ended
    <2> QED
      BY <1>7, <2>2 DEF T
  <1> QED
    BY <1>7, <1>15, <1>16 DEF Goes

-----------------------------------------------------------------------------
(* The hand that is on *)

\* While a hand is on, the streets behind are even and the turn is due.
HandOrdered(s) == EvenOn(s) /\ (TurnDue(s) \/ SatOutAtTurn(s))
HandInv == FullTable(g) /\ (Playing(g) => HandOrdered(g))

\* A step of a hand that is on moves the chips of one player who can act, or
\* ends the hand.
LEMMA StepWent ==
    ASSUME HandInv, Playing(g), Next
    PROVE  \E u \in CanAct(g) : Went(g', g, {u})
  <1>1. InPlay(g) /\ EvenOn(g) /\ g.phase \in BettingPhases /\ g.hand.phase = g.phase
    BY DEF HandInv, HandOrdered, Playing
  <1>2. CASE Deal
    <2>1. g.phase \in BetweenHands
      BY <1>2 DEF Deal, StartHand, MayStart
    <2> QED
      BY <1>1, <2>1 DEF BetweenHands, BettingPhases
  <1>3. ASSUME NEW u \in Users, Act(u) PROVE \E v \in CanAct(g) : Went(g', g, {v})
    <2>1. PICK type \in {"fold", "check", "call", "raise", "all_in"}, amount \in Int :
             g' \in ApplyAction(g, u, type, amount)
      BY <1>3, ActionsAre
    <2>2. Goes(g', g, {u}) /\ u \in CanAct(g)
      BY <1>1, <2>1, ApplyGoes
    <2>3. Went(g', g, {u})
      BY <2>2, GoesWent
    <2> QED
      BY <2>2, <2>3
  <1>4. CASE Timeout
    <2>1. g' \in HandleTimeout(g) /\ g.hand.turn # NoSeat
      BY <1>4 DEF Timeout
    <2>2. g.hand.turn \in Seats(g)
      BY DEF HandInv, HandOrdered, TurnDue, SatOutAtTurn
    <2> QED
      BY <1>1, <2>1, <2>2, TimeoutWent
  <1> QED
    BY <1>2, <1>3, <1>4 DEF Next

\* Between hands the only step is a deal.
LEMMA StepStarts ==
    ASSUME FullTable(g), ~Playing(g), Next
    PROVE  /\ g' \in StartHand(g)
           /\ \E o : OpenedFrom(o, g) /\ Went(g', o, CanAct(o))
  <1>1. Idle(g) /\ g.hand.phase \notin BettingPhases /\ g.hand.turn = NoSeat
    BY FullPhase, IdleIs
  <1>2. ~Timeout
    BY <1>1 DEF Timeout
  <1>3. ASSUME NEW u \in Users PROVE ~Act(u)
    BY <1>1, ActionsAre DEF ApplyAction, ValidAction, ValidTurn
  <1>4. g' \in StartHand(g)
    BY <1>2, <1>3 DEF Next, Deal
  <1>5. PICK o : OpenedFrom(o, g) /\ Goes(g', o, CanAct(o))
    BY <1>4, StartGoes DEF FullTable, SoundTable
  <1>6. Went(g', o, CanAct(o))
    BY <1>5, GoesWent
  <1> QED
    BY <1>4, <1>5, <1>6

\* A hand that went on is in order; one that ended is not on.
LEMMA WentOrdered ==
    ASSUME NEW s, NEW r, NEW T, Went(s, r, T), Playing(s)
    PROVE  WentOn(s, r, T) /\ HandOrdered(s)
  <1>1. ~Ended(s, r, T)
    BY AwardedIs DEF Ended, Playing
  <1> QED
    BY <1>1 DEF Went, WentOn, HandOrdered

\* Every step leaves a hand whose streets are even and whose turn is due, or no
\* hand at all.
LEMMA HandKept ==
    ASSUME HandInv, [Next]_g
    PROVE  HandInv'
  <1>1. FullTable(g)'
    BY FullKept DEF HandInv
  <1>2. ASSUME Playing(g') PROVE HandOrdered(g')
    <2>1. CASE g' = g
      BY <1>2, <2>1 DEF HandInv
    <2>2. CASE Next /\ Playing(g)
      BY <1>2, <2>2, StepWent, WentOrdered
    <2>3. CASE Next /\ ~Playing(g)
      BY <1>2, <2>3, StepStarts, WentOrdered DEF HandInv
    <2> QED
      BY <2>1, <2>2, <2>3
  <1> QED
    BY <1>1, <1>2 DEF HandInv

\* The streets are even and the turn is due in every reachable state.
LEMMA HandAlways ==
    Spec => []HandInv
  <1>1. Init => HandInv
    <2>1. Init => FullTable(g) /\ g.hand = NoHand
      BY FreshIsFull DEF Init
    <2>2. g.hand = NoHand => ~Playing(g)
      BY DEF NoHand, EmptyHand, Playing, BettingPhases
    <2> QED
      BY <2>1, <2>2 DEF HandInv
  <1>2. HandInv /\ [Next]_g => HandInv'
    BY HandKept
  <1> QED
    BY <1>1, <1>2, PTL DEF Spec

\* A street closes only when the bets are even: whoever can still act has paid
\* the same for the streets before, and nobody else has paid more
\* (_betting_round_complete, _begin_betting_round).
THEOREM StreetsAreEven ==
    Spec => []EvenStreets
  <1>1. HandInv => EvenStreets
    <2> SUFFICES ASSUME HandInv, Betting PROVE EvenStreets
      BY DEF EvenStreets
    <2>1. Playing(g)
      BY FullPhase DEF Betting, HandInv
    <2>2. EvenOn(g) /\ InPlay(g) /\ DOMAIN g.hand.start = Users /\ Seated(g) = Users
      BY <2>1 DEF HandInv, HandOrdered, FullTable, Playing
    <2>3. DealtIn(g) = Users /\ \A w \in Users : Contribution(w) - g.hand.bets[w] = Behind(g, w)
      BY <2>2, InHandIs DEF DealtIn, Contribution, TotalContributions, Behind
    <2>4. CanAct(g) \subseteq Users
      BY <2>2, <2>3, InHandIs
    <2>5. ASSUME NEW u \in CanAct(g), NEW v \in Users
          PROVE  LET Paid(w) == Contribution(w) - g.hand.bets[w]
                 IN  Paid(v) <= Paid(u) /\ (v \in CanAct(g) => Paid(v) = Paid(u))
      BY <2>2, <2>3, <2>4 DEF EvenOn
    <2> QED
      BY <2>5 DEF EvenStreets
  <1> QED
    BY <1>1, HandAlways, PTL

\* While a hand is on, the turn is with a player who can act and owes an action,
\* or with one whom his last timeout sat out (_first_to_act, _next_active_seat,
\* handle_timeout).
THEOREM TurnIsDue ==
    Spec => []TurnHolderOwesOrSatOut
  <1>1. HandInv => TurnHolderOwesOrSatOut
    <2> SUFFICES ASSUME HandInv, Betting PROVE TurnHolderOwesOrSatOut
      BY DEF TurnHolderOwesOrSatOut
    <2>1. Playing(g)
      BY FullPhase DEF Betting, HandInv
    <2>2. TurnDue(g) \/ SatOutAtTurn(g)
      BY <2>1 DEF HandInv, HandOrdered
    <2> QED
      BY <2>2 DEF TurnHolderOwesOrSatOut, TurnDue, SatOutAtTurn
  <1> QED
    BY <1>1, HandAlways, PTL

-----------------------------------------------------------------------------
(* The button *)

\* The seats strictly between two seats, clockwise
Between(old, new) ==
    IF old < new THEN (old + 1)..(new - 1) ELSE {s \in SeatIndex : s > old \/ s < new}

\* The next seat is another one when there is one, and nobody sits between.
LEMMA NextSeatPasses ==
    ASSUME NEW S \in SUBSET SeatIndex, NEW from \in SeatIndex, S \ {from} # {}
    PROVE  LET new == NextSeat(S, from)
           IN  new # from /\ S \cap Between(from, new) = {}
  <1> DEFINE H == {s \in S : s > from}
             new == NextSeat(S, from)
  <1>1. SeatIndex \subseteq Nat
    BY Configured
  <1>2. H \in SUBSET Nat /\ S \in SUBSET Nat /\ S # {} /\ from \in Nat
    BY <1>1
  <1>3. new = IF H # {} THEN MinSeat(H) ELSE MinSeat(S)
    BY DEF NextSeat
  <1> HIDE DEF new
  <1>4. CASE H # {}
    <2>1. new \in H /\ \A s \in H : new <= s
      BY <1>2, <1>3, <1>4, MinSeatIs
    <2>2. new \in Nat /\ new > from
      BY <1>2, <2>1
    <2>3. Between(from, new) = (from + 1)..(new - 1)
      BY <1>2, <2>2 DEF Between
    <2> QED
      BY <1>2, <2>1, <2>2, <2>3 DEF new
  <1>5. CASE H = {}
    <2>1. new \in S /\ \A s \in S : new <= s
      BY <1>2, <1>3, <1>5, MinSeatIs
    <2>2. \A s \in S : s <= from
      BY <1>2, <1>5
    <2>3. new \in Nat /\ new <= from
      BY <1>2, <2>1, <2>2
    <2>4. PICK s \in S : s # from
      OBVIOUS
    <2>5. s \in Nat /\ new <= s /\ s <= from
      BY <1>2, <2>1, <2>2
    <2>6. new # from
      BY <1>2, <2>3, <2>4, <2>5
    <2>7. Between(from, new) = {t \in SeatIndex : t > from \/ t < new}
      BY <1>2, <2>3 DEF Between
    <2>8. \A t \in S : ~(t > from) /\ ~(t < new)
      BY <1>2, <2>1, <2>2, <2>3
    <2> QED
      BY <2>6, <2>7, <2>8 DEF new
  <1> QED
    BY <1>4, <1>5

\* A hand starts with two players who can act.
LEMMA TwoCanAct ==
    ASSUME NEW r \in Games, OwnSeats(r.players), NEW s \in StartHand(r)
    PROVE  \E a, b \in CanAct(Reset(r)) : a # b
  <1> DEFINE x == Reset(r)
             E == Eligible(x)
  <1>1. Cardinality(E) >= 2
    BY DEF StartHand, MayStart, Deals
  <1>2. /\ x \in Games /\ OwnSeats(x.players) /\ SameTable(x, r)
        /\ \A u \in Seated(r) : x.players[u].status # "WAITING"
    BY ResetIs
  <1> HIDE DEF x
  <1>3. IsFiniteSet(Seated(x))
    BY <1>2, GameIs
  <1>4. E \subseteq Seated(x)
    BY DEF Eligible, WithStatus
  <1>5. E \subseteq CanAct(x)
    BY <1>2 DEF Eligible, CanAct, WithStatus, SameTable
  <1> HIDE DEF E
  <1>6. IsFiniteSet(E)
    BY <1>3, <1>4, FS_Subset
  <1>7. E # {}
    BY <1>1, FS_EmptySet
  <1>8. PICK a \in E : TRUE
    BY <1>7
  <1>9. \E b \in E : b # a
    <2> SUFFICES ASSUME \A b \in E : b = a PROVE FALSE
      OBVIOUS
    <2>1. E = {a}
      BY <1>8
    <2>2. Cardinality(E) = 1
      BY <2>1, FS_Singleton
    <2> QED
      BY <1>1, <2>2
  <1> QED
    BY <1>5, <1>8, <1>9 DEF x

\* The button is a player's, and there is none before the first hand.
ButtonIs(s) ==
    /\ s.hand.dealer \in Seats(s) \cup {NoSeat}
    /\ s.hand.phase = "NONE" => s.hand.dealer = NoSeat

ButtonInv == HandInv /\ ButtonIs(g)

\* A hand that is on keeps the button.
LEMMA WentButton ==
    ASSUME NEW s, NEW r, NEW T, Went(s, r, T)
    PROVE  s.hand.dealer = r.hand.dealer /\ s.hand.phase # "NONE"
  <1>1. CASE WentOn(s, r, T)
    BY <1>1 DEF WentOn, SameHand, Kept, BettingPhases
  <1>2. CASE Ended(s, r, T)
    <2>1. PICK a : Awarded(a, r, T) /\ s.hand = a.hand
      BY <1>2 DEF Ended
    <2>2. a.hand.phase = "HAND_END" /\ a.hand.dealer = r.hand.dealer
      BY <2>1, AwardedIs
    <2> QED
      BY <2>1, <2>2
  <1> QED
    BY <1>1, <1>2 DEF Went

\* Seats are given to nobody else.
LEMMA SameSeats ==
    ASSUME NEW s, NEW r, SameTable(s, r)
    PROVE  Seats(s) = Seats(r)
  BY DEF SameTable, Seats

\* A hand that starts gives the button to a player.
LEMMA StartButton ==
    ASSUME NEW r \in Games, OwnSeats(r.players), Ordered(r), NEW s \in StartHand(r)
    PROVE  /\ s.hand.dealer = NextDealer(Reset(r)) /\ s.hand.dealer \in Seats(s)
           /\ s.hand.phase # "NONE" /\ SameTable(s, r)
  <1> DEFINE x == Reset(r)
  <1>1. Started(s, r)
    BY StartHandIs
  <1>2. x \in Games /\ OwnSeats(x.players) /\ SameTable(x, r)
    BY ResetIs
  <1>3. CanAct(x) # {}
    BY TwoCanAct
  <1> HIDE DEF x
  <1>4. NextDealer(x) \in Seats(x)
    BY <1>2, <1>3, DealerIs
  <1>5. Seats(x) = Seats(r) /\ Seats(s) = Seats(r)
    BY <1>1, <1>2, SameSeats DEF Started
  <1>6. s.hand.phase # "NONE"
    <2>1. \A phase, dealer : EmptyHand(phase, dealer).phase = phase
      BY DEF EmptyHand
    <2> QED
      BY <1>1, <2>1 DEF Started, BettingPhases
  <1> QED
    BY <1>1, <1>4, <1>5, <1>6 DEF Started, x

\* Every step leaves the button with a player.
LEMMA ButtonKept ==
    ASSUME ButtonInv, [Next]_g
    PROVE  ButtonInv'
  <1>1. HandInv /\ HandInv' /\ FullTable(g) /\ Seated(g) = Users
    BY HandKept DEF ButtonInv, HandInv, FullTable
  <1>2. CASE g' = g
    BY <1>1, <1>2 DEF ButtonInv
  <1>3. CASE Next /\ Playing(g)
    <2>1. PICK u \in CanAct(g) : Went(g', g, {u})
      BY <1>1, <1>3, StepWent
    <2>2. g'.hand.dealer = g.hand.dealer /\ g'.hand.phase # "NONE"
      BY <2>1, WentButton
    <2>3. Seats(g') = Seats(g)
      <3>1. SameTable(g', g)
        BY <1>1, <1>3, StepFull
      <3> QED
        BY <3>1, SameSeats
    <2> QED
      BY <1>1, <2>2, <2>3 DEF ButtonInv, ButtonIs
  <1>4. CASE Next /\ ~Playing(g)
    <2>1. g' \in StartHand(g)
      BY <1>1, <1>4, StepStarts
    <2>2. g \in Games /\ OwnSeats(g.players) /\ Ordered(g)
      BY <1>1 DEF FullTable, SoundTable
    <2>3. g'.hand.dealer \in Seats(g') /\ g'.hand.phase # "NONE"
      BY <2>1, <2>2, StartButton
    <2> QED
      BY <1>1, <2>3 DEF ButtonInv, ButtonIs
  <1> QED
    BY <1>2, <1>3, <1>4

\* The button never stays where it was, and skips nobody with chips who is not
\* sitting out (_next_dealer).
THEOREM TheButtonMoves ==
    Spec => ButtonMoves
  <1> DEFINE Moves ==
        LET old == g.hand.dealer
            new == g'.hand.dealer
            between == IF old < new THEN (old + 1)..(new - 1)
                       ELSE {s \in SeatIndex : s > old \/ s < new}
        IN  ~Betting /\ old # NoSeat /\ g' # g =>
              /\ new # old
              /\ \A u \in Users : g.players[u].seat \in between =>
                                     Stack(u) = 0 \/ g.players[u].status = "SIT_OUT"
  <1>1. Init => ButtonInv
    <2> SUFFICES ASSUME Init PROVE ButtonInv
      OBVIOUS
    <2>1. FullTable(g) /\ g.hand = NoHand
      BY FreshIsFull DEF Init
    <2>2. ~Playing(g) /\ g.hand.dealer = NoSeat
      BY <2>1 DEF NoHand, EmptyHand, Playing, BettingPhases
    <2> QED
      BY <2>1, <2>2 DEF ButtonInv, HandInv, ButtonIs
  <1>2. ButtonInv /\ [Next]_g => ButtonInv'
    BY ButtonKept
  <1>3. ButtonInv /\ [Next]_g => Moves
    <2> SUFFICES ASSUME ButtonInv, Next, ~Betting, g.hand.dealer # NoSeat, g' # g
                 PROVE  Moves
      OBVIOUS
    <2> DEFINE old == g.hand.dealer
               new == g'.hand.dealer
               x == Reset(g)
               A == SeatsOf(x, CanAct(x))
    <2>1. FullTable(g) /\ Seated(g) = Users /\ g \in Games /\ OwnSeats(g.players) /\ Ordered(g)
      BY DEF ButtonInv, HandInv, FullTable, SoundTable
    <2>2. ~Playing(g)
      BY DEF Playing, Betting
    <2>3. g' \in StartHand(g)
      BY <2>1, <2>2, StepStarts
    <2>4. old \in Seats(g) /\ g.hand.phase # "NONE"
      BY DEF ButtonInv, ButtonIs
    <2>5. /\ x \in Games /\ OwnSeats(x.players) /\ SameTable(x, g) /\ x.hand = g.hand
          /\ \A u \in Users : x.players[u] = ResetStatus(g.players[u])
      BY <2>1, ResetIs
    <2>6. \E a, b \in CanAct(x) : a # b
      BY <2>1, <2>3, TwoCanAct
    <2>7. new = NextDealer(x)
      BY <2>1, <2>3, StartButton
    <2> HIDE DEF x
    <2>8. Seats(x) = Seats(g)
      BY <2>5, SameSeats
    <2>9. new = NextSeat(A, old)
      BY <2>4, <2>5, <2>7, <2>8 DEF NextDealer
    <2>10. CanAct(x) \subseteq Seated(x) /\ Seated(x) = Users
      BY <2>1, <2>5 DEF CanAct, WithStatus, SameTable
    <2>11. A \in SUBSET SeatIndex /\ old \in SeatIndex
      <3>1. \A u \in Seated(x) : x.players[u].seat \in SeatIndex
        BY <2>5, GameIs
      <3> QED
        BY <2>4, <2>8, <2>10, <3>1 DEF SeatsOf, Seats
    <2>12. A \ {old} # {}
      <3>1. PICK a \in CanAct(x), b \in CanAct(x) : a # b
        BY <2>6
      <3>2. x.players[a].seat # x.players[b].seat
        BY <2>5, <2>10, <3>1 DEF OwnSeats, Seated
      <3> QED
        BY <3>1, <3>2 DEF SeatsOf
    <2>13. new # old /\ A \cap Between(old, new) = {}
      <3> HIDE DEF A
      <3> QED
        BY <2>9, <2>11, <2>12, NextSeatPasses
    <2>14. ASSUME NEW u \in Users, g.players[u].seat \in Between(old, new)
           PROVE  Stack(u) = 0 \/ g.players[u].status = "SIT_OUT"
      <3>1. x.players[u].seat = g.players[u].seat
        BY <2>1, <2>5 DEF SameTable
      <3>2. u \notin CanAct(x)
        BY <2>13, <2>14, <3>1 DEF SeatsOf
      <3>3. x.players[u].status # "ACTIVE"
        BY <2>10, <3>2 DEF CanAct, WithStatus
      <3>4. g.players[u] \in SomePlayer /\ g.players[u].stack \in Nat
        BY <2>1, FullIs
      <3>5. x.players[u] = ResetStatus(g.players[u])
        BY <2>5
      <3> QED
        BY <3>3, <3>4, <3>5 DEF ResetStatus, SomePlayer, Statuses, Stack
    <2> HIDE DEF x, A
    <2> QED
      BY <2>13, <2>14 DEF Between
  <1>4. Spec => []ButtonInv
    BY <1>1, <1>2, PTL DEF Spec
  <1>5. Spec => [][Moves]_g
    BY <1>3, <1>4, PTL DEF Spec
  <1> QED
    BY <1>5, Zenon DEF ButtonMoves

-----------------------------------------------------------------------------
(* What a hand wins a player *)

\* A share is at most the pot, and only a winner has one.
LEMMA ShareBound ==
    ASSUME NEW S, IsFiniteSet(S), NEW w, WinnersOf(w, S), NEW amount \in Nat, NEW u \in S
    PROVE  /\ Share(amount, w, u) \in Nat /\ Share(amount, w, u) <= amount
           /\ u \notin ToSet(w) => Share(amount, w, u) = 0
  <1> DEFINE f == [v \in S |-> Share(amount, w, v)]
  <1>0. \A v \in S : Share(amount, w, v) \in Nat
    BY ShareIs
  <1>1. f \in [S -> Nat] /\ f \in [S -> Int] /\ f[u] = Share(amount, w, u)
    BY <1>0
  <1>2. SumFunction(f) = amount
    BY ShareIs
  <1>3. u \notin ToSet(w) => Share(amount, w, u) = 0
    BY DEF Share
  <1> HIDE DEF f
  <1>4. SumFunction(f) = SumFunctionOnSet(f, S)
    BY <1>1, SumFunctionIs
  <1>5. f[u] <= SumFunctionOnSet(f, S)
    BY <1>1, SumNat
  <1> QED
    BY <1>1, <1>2, <1>3, <1>4, <1>5

\* What the pots pay a player is at most what everybody has put in, each up to
\* what he has himself.
LEMMA PrizeBound ==
    ASSUME NEW S, IsFiniteSet(S), NEW D, NEW c \in [D -> Nat], NEW A,
           NEW ps, PotsFor(ps, c, A),
           NEW w, \A i \in DOMAIN ps : WinnersOf(w[i], S) /\ ToSet(w[i]) \subseteq ps[i].eligible,
           NEW u \in S
    PROVE  /\ u \notin D \cap A => AwardPots(ps, w, S)[u] = 0
           /\ u \in D \cap A => AwardPots(ps, w, S)[u] <= Capped(c, c[u])
  <1> DEFINE I == DOMAIN ps
             F == {E \in SUBSET D : u \in E}
             f == [i \in I |-> Share(ps[i].amount, w[i], u)]
             e == [i \in I |-> IF ps[i].eligible \in F THEN ps[i].amount ELSE 0]
  <1>1. ps \in Seq(PotOf(D \cap A)) /\ (u \in D \cap A => Chips(ps, F) = Capped(c, c[u]))
    BY DEF PotsFor
  <1>2. IsFiniteSet(I)
    <2>1. Len(ps) \in Nat /\ I = 1..Len(ps)
      BY <1>1
    <2> QED
      BY <2>1, FS_Interval
  <1>3. ASSUME NEW i \in I
        PROVE  /\ ps[i].amount \in Nat /\ ps[i].eligible \subseteq D \cap A
               /\ f[i] \in Nat /\ f[i] <= ps[i].amount
               /\ u \notin ps[i].eligible => f[i] = 0
    <2>1. ps[i] \in PotOf(D \cap A)
      BY <1>1
    <2>2. ps[i].amount \in Nat /\ ps[i].eligible \subseteq D \cap A
      BY <2>1 DEF PotOf
    <2>3. WinnersOf(w[i], S) /\ ToSet(w[i]) \subseteq ps[i].eligible
      OBVIOUS
    <2> DEFINE amount == ps[i].amount
               l == w[i]
    <2>4. f[i] = Share(amount, l, u)
      OBVIOUS
    <2> HIDE DEF amount, l, f
    <2>5. amount \in Nat /\ WinnersOf(l, S)
      BY <2>2, <2>3 DEF amount, l
    <2>6. /\ Share(amount, l, u) \in Nat /\ Share(amount, l, u) <= amount
          /\ u \notin ToSet(l) => Share(amount, l, u) = 0
      BY <2>5, ShareBound
    <2> QED
      BY <2>2, <2>3, <2>4, <2>6 DEF amount, l
  <1>4. \A i \in I : f[i] <= e[i] /\ e[i] \in Nat
    <2>1. ASSUME NEW i \in I PROVE f[i] <= e[i] /\ e[i] \in Nat
      <3>1. e[i] = IF ps[i].eligible \in F THEN ps[i].amount ELSE 0
        OBVIOUS
      <3>2. ps[i].eligible \in F <=> u \in ps[i].eligible
        BY <1>3
      <3> HIDE DEF e, f, F
      <3> QED
        BY <1>3, <3>1, <3>2
    <2> QED
      BY <2>1
  <1>5. f \in [I -> Int] /\ e \in [I -> Int]
    <2>1. \A i \in I : f[i] \in Int /\ e[i] \in Int
      BY <1>3, <1>4
    <2> QED
      BY <2>1
  <1>6. AwardPots(ps, w, S)[u] = SumFunction(f)
    BY Zenon DEF AwardPots
  <1>7. Chips(ps, F) = SumFunction(e)
    BY Zenon DEF Chips
  <1>8. u \notin D \cap A => \A i \in I : f[i] = 0
    BY <1>3
  <1> HIDE DEF f, e, I, F
  <1>9. SumFunction(f) = SumFunctionOnSet(f, I) /\ SumFunction(e) = SumFunctionOnSet(e, I)
    BY <1>5, SumFunctionIs
  <1>10. I \in SUBSET I
    OBVIOUS
  <1>11. u \notin D \cap A => SumFunctionOnSet(f, I) = 0
    BY <1>2, <1>5, <1>8, <1>10, SumZero
  <1>12. SumFunctionOnSet(f, I) <= SumFunctionOnSet(e, I)
    BY <1>2, <1>4, <1>5, <1>10, SumOrder
  <1> QED
    BY <1>1, <1>6, <1>7, <1>9, <1>11, <1>12

\* The most a player can win: the smaller stack of each pair he is one of
MostWon(b, u) == SumFunction([v \in DOMAIN b \ {u} |-> MinOf(b[u], b[v])])

\* What everybody has put in up to a player's own contribution is that
\* contribution and what he can win of the others.
LEMMA CappedRest ==
    ASSUME NEW D, IsFiniteSet(D), NEW c \in [D -> Nat], NEW b \in [D -> Nat],
           \A v \in D : c[v] <= b[v], NEW u \in D
    PROVE  /\ Capped(c, c[u]) - c[u] <= MostWon(b, u) /\ MostWon(b, u) \in Nat
           /\ Capped(c, c[u]) \in Nat
  <1> DEFINE R == D \ {u}
             f == [v \in D |-> MinOf(c[v], c[u])]
             h == [v \in R |-> MinOf(b[u], b[v])]
  <1>1. f \in [D -> Int] /\ h \in [R -> Int] /\ h \in [R -> Nat] /\ f[u] = c[u]
        /\ \A v \in R : f[v] <= h[v]
    BY DEF MinOf
  <1>2. Capped(c, c[u]) = SumFunction(f)
    BY Zenon DEF Capped
  <1>3. IsFiniteSet(R) /\ R \in SUBSET D /\ R \in SUBSET R /\ D \in SUBSET D /\ R = D \ {u}
    BY FS_Subset
  <1>4. Capped(c, c[u]) \in Nat
    BY CappedIs
  <1> HIDE DEF f, h, R
  <1>5. SumFunction(f) = SumFunctionOnSet(f, D) /\ SumFunction(h) = SumFunctionOnSet(h, R)
    BY <1>1, SumFunctionIs
  <1>6. SumFunctionOnSet(f, D) = f[u] + SumFunctionOnSet(f, R)
    BY <1>1, <1>3, SumStep
  <1>7. SumFunctionOnSet(f, R) \in Int
    BY <1>1, <1>3, SumStep
  <1>8. SumFunctionOnSet(f, R) <= SumFunctionOnSet(h, R)
    BY <1>1, <1>3, SumOrder
  <1>9. SumFunctionOnSet(h, R) \in Nat
    BY <1>1, <1>3, SumNat
  <1>10. Capped(c, c[u]) - c[u] <= SumFunction(h) /\ SumFunction(h) \in Nat
    BY <1>1, <1>2, <1>5, <1>6, <1>7, <1>8, <1>9
  <1>11. MostWon(b, u) = SumFunction(h)
    <2>1. DOMAIN b = D
      OBVIOUS
    <2> QED
      BY <2>1, Zenon DEF MostWon, h, R
  <1> QED
    BY <1>4, <1>10, <1>11

\* _award_hand takes chips from nobody and gives them to those still in, at most
\* what each opponent had to lose to them.
LEMMA AwardStakes ==
    ASSUME "bonus_27" \notin HouseRules, NEW q, InPlay(q), DOMAIN q.hand.start = Seated(q),
           NEW s \in AwardHand(q), NEW u \in Seated(q)
    PROVE  /\ u \notin InHand(q) => s.players[u].stack = q.players[u].stack
           /\ s.players[u].stack - q.hand.start[u] <= MostWon(q.hand.start, u)
  <1> DEFINE S == Seated(q)
             A == InHand(q)
             c == TotalContributions(q)
             b == q.hand.start
             pots == CalculatePots(c, A)
             ws == [i \in DOMAIN pots |-> PotWinners(q, pots[i])]
             wins == AwardPots(pots, ws, S)
             paid == [v \in S |-> q.players[v].stack + wins[v]]
             stacks == FoldLeft(PayBonus, paid, BonusWinners(q, ws, wins))
             r == [v \in S |-> [q.players[v] EXCEPT !.stack = stacks[v]]]
  <1>1. /\ q \in Games /\ OwnSeats(q.players)
        /\ IsFiniteSet(S) /\ q.players \in [S -> SomePlayer]
        /\ \A v \in S : q.players[v] \in SomePlayer /\ q.players[v].stack \in Nat
        /\ b \in [S -> Nat]
    BY GameIs DEF InPlay
  <1>2. c \in [S -> Nat] /\ \A v \in S : c[v] = b[v] - q.players[v].stack
    BY ContributionsAre DEF TotalContributions
  <1>3. CanAward(q, pots) /\ s = [q EXCEPT !.players = r, !.hand = EmptyHand("HAND_END", q.hand.dealer),
                                           !.phase = "WAITING_FOR_PLAYERS"]
    BY DEF AwardHand
  <1>4. s.players = r
    BY <1>1, <1>3 DEF Games
  <1> HIDE DEF c
  <1>5. PotsFor(pots, c, A)
    BY <1>1, <1>2, PotsAre
  <1> HIDE DEF pots
  <1>6. pots \in Seq(PotOf(S \cap A))
    BY <1>2, <1>5 DEF PotsFor
  <1>7. \A i \in DOMAIN pots : WinnersOf(ws[i], S) /\ ToSet(ws[i]) \subseteq pots[i].eligible
    <2>1. ASSUME NEW i \in DOMAIN pots
          PROVE  /\ WinnersOf(PotWinners(q, pots[i]), S)
                 /\ ToSet(PotWinners(q, pots[i])) \subseteq pots[i].eligible
      <3>1. pots[i] \in PotOf(S \cap A)
        BY <1>6
      <3>2. Cardinality(pots[i].eligible) = 1 \/ Contenders(q, pots[i]) # {}
        BY <1>3 DEF CanAward
      <3> QED
        BY <3>1, <3>2, PotWinnersAre
    <2> QED
      BY <2>1
  <1>8. Len(pots) \in Nat /\ DOMAIN pots = 1..Len(pots) /\ DOMAIN ws = 1..Len(pots)
    BY <1>6
  <1> HIDE DEF ws
  <1>9. wins \in [S -> Nat]
    BY <1>1, <1>6, <1>7, AwardPotsIs
  <1>10. /\ u \notin S \cap A => wins[u] = 0
         /\ u \in S \cap A => wins[u] <= Capped(c, c[u])
    BY <1>1, <1>2, <1>5, <1>7, PrizeBound
  <1> HIDE DEF wins
  <1>11. stacks = paid
    <2>1. \A i \in 1..Len(pots) : ws[i] \in Seq(S)
      BY <1>7, <1>8 DEF WinnersOf
    <2> HIDE DEF paid
    <2> QED
      BY <1>8, <1>9, <2>1, NoBonus
  <1> HIDE DEF stacks
  <1>12. s.players[u].stack = q.players[u].stack + wins[u]
    <2>1. r[u] = [q.players[u] EXCEPT !.stack = q.players[u].stack + wins[u]]
      BY <1>11
    <2>2. q.players[u] \in SomePlayer
      BY <1>1
    <2> HIDE DEF r, paid
    <2> QED
      BY <1>4, <2>1, <2>2 DEF SomePlayer
  <1>13. \A v \in S : c[v] <= b[v]
    BY <1>1, <1>2
  <1> HIDE DEF b
  <1>14. /\ Capped(c, c[u]) - c[u] <= MostWon(b, u) /\ MostWon(b, u) \in Nat
         /\ Capped(c, c[u]) \in Nat
    <2>1. u \in S
      OBVIOUS
    <2> HIDE DEF S
    <2>2. /\ IsFiniteSet(S) /\ c \in [S -> Nat] /\ b \in [S -> Nat]
          /\ \A v \in S : c[v] <= b[v]
      BY <1>1, <1>2, <1>13 DEF b
    <2> QED
      BY ONLY <2>1, <2>2, CappedRest
  <1>15. /\ c[u] \in Nat /\ b[u] \in Nat /\ c[u] = b[u] - q.players[u].stack
         /\ q.players[u].stack \in Nat /\ wins[u] \in Nat
    BY <1>1, <1>2, <1>9 DEF b
  <1>16. u \notin A => wins[u] = 0
    BY <1>10
  <1>17. s.players[u].stack - b[u] <= MostWon(b, u)
    <2>1. wins[u] <= Capped(c, c[u]) \/ wins[u] = 0
      BY <1>10
    <2> DEFINE x == s.players[u].stack
               y == q.players[u].stack
               m == MostWon(b, u)
               k == Capped(c, c[u])
    <2>2. x = y + wins[u] /\ k - c[u] <= m /\ m \in Nat /\ k \in Nat
      BY <1>12, <1>14
    <2> HIDE DEF x, y, m, k
    <2>3. x - b[u] <= m
      BY <1>15, <2>1, <2>2 DEF y, k
    <2> QED
      BY <2>3 DEF x, m
  <1>18. u \notin A => s.players[u].stack = q.players[u].stack
    BY <1>12, <1>15, <1>16
  <1> QED
    BY <1>17, <1>18 DEF b

\* The end of a hand pays only players who are still in, and to each at most
\* what his opponents had to lose to him.
LEMMA HandWon ==
    ASSUME "bonus_27" \notin HouseRules, NEW r, InPlay(r), DOMAIN r.hand.start = Seated(r),
           NEW T, NEW s, Ended(s, r, T), NEW u \in Seated(r)
    PROVE  /\ u \notin InHand(r) /\ u \notin T => s.players[u].stack = r.players[u].stack
           /\ s.players[u].stack - r.hand.start[u] <= MostWon(r.hand.start, u)
  <1>1. PICK a : Awarded(a, r, T) /\ s.players[u].stack = a.players[u].stack
    BY DEF Ended
  <1>2. PICK q : SameHand(q, r, T) /\ a \in AwardHand(q)
    BY <1>1 DEF Awarded
  <1>3. /\ InPlay(q) /\ q.hand.start = r.hand.start /\ Seated(q) = Seated(r)
        /\ InHand(q) \subseteq InHand(r)
        /\ u \notin T => q.players[u].stack = r.players[u].stack
    BY <1>2 DEF SameHand, Kept, SameTable
  <1>4. /\ u \notin InHand(q) => a.players[u].stack = q.players[u].stack
        /\ a.players[u].stack - q.hand.start[u] <= MostWon(q.hand.start, u)
    BY <1>2, <1>3, AwardStakes
  <1> QED
    BY <1>1, <1>3, <1>4

\* A hand that has just opened holds the stacks there were before it.
LEMMA OpenedHand ==
    ASSUME NEW r, FullTable(r), NEW o, OpenedFrom(o, r)
    PROVE  /\ InPlay(o) /\ DOMAIN o.hand.start = Users /\ Seated(o) = Users
           /\ \A u \in Users : /\ o.hand.start[u] = r.players[u].stack
                               /\ o.players[u].stack = r.players[u].stack
                               /\ r.players[u].status = "SIT_OUT" => u \notin InHand(o)
  <1>1. /\ r \in Games /\ OwnSeats(r.players) /\ Seated(r) = Users
    BY DEF FullTable, SoundTable
  <1>2. InHand(o) = CanAct(Reset(r))
    BY DEF OpenedFrom
  <1>3. ASSUME NEW u \in Users, r.players[u].status = "SIT_OUT"
        PROVE  u \notin InHand(o)
    <2>1. Reset(r).players[u] = ResetStatus(r.players[u])
      BY <1>1, ResetIs
    <2>2. r.players[u] \in SomePlayer
      BY FullIs
    <2>3. ResetStatus(r.players[u]).status = "SIT_OUT"
      BY <1>3, <2>2 DEF ResetStatus, SomePlayer
    <2> QED
      BY <1>2, <2>1, <2>3 DEF CanAct, WithStatus
  <1> QED
    BY <1>1, <1>3 DEF OpenedFrom, SameTable

\* No step moves the chips of a player who has folded in the hand that is on,
\* or who sits out, unless the house pays a bonus for 2-7 (_award_hand,
\* _post_forced_bet, _eligible_players).
THEOREM BystandersAreFrozen ==
    ASSUME "bonus_27" \notin HouseRules
    PROVE  Spec => BystandersFrozen
  <1> DEFINE Frozen == \A u \in Users : Bystander(u) => g'.players[u].stack = g.players[u].stack
  <1>1. HandInv /\ [Next]_g => Frozen
    <2> SUFFICES ASSUME HandInv, [Next]_g, NEW u \in Users, Bystander(u)
                 PROVE  g'.players[u].stack = g.players[u].stack
      OBVIOUS
    <2>1. FullTable(g) /\ Seated(g) = Users
      BY DEF HandInv, FullTable
    <2>2. CASE g' = g
      BY <2>2
    <2>3. CASE Next /\ Playing(g)
      <3>1. PICK v \in CanAct(g) : Went(g', g, {v})
        BY <2>3, StepWent
      <3>2. InPlay(g) /\ DOMAIN g.hand.start = Seated(g)
        BY <2>1, <2>3 DEF FullTable, Playing
      <3>3. u \notin InHand(g) /\ u \notin {v}
        BY <3>1 DEF Bystander, InHand, CanAct, WithStatus
      <3>4. CASE WentOn(g', g, {v})
        BY <2>1, <3>3, <3>4 DEF WentOn, SameHand
      <3>5. CASE Ended(g', g, {v})
        <4> DEFINE T == {v}
        <4>1. Ended(g', g, T) /\ u \notin T
          BY <3>3, <3>5
        <4> HIDE DEF T
        <4> QED
          BY <2>1, <3>2, <3>3, <4>1, HandWon
      <3> QED
        BY <3>1, <3>4, <3>5 DEF Went
    <2>4. CASE Next /\ ~Playing(g)
      <3>1. PICK o : OpenedFrom(o, g) /\ Went(g', o, CanAct(o))
        BY <2>1, <2>4, StepStarts
      <3>2. g.players[u].status = "SIT_OUT"
        BY <2>1, <2>4, FullPhase DEF Bystander, Betting
      <3>3. /\ InPlay(o) /\ DOMAIN o.hand.start = Users /\ Seated(o) = Users
            /\ o.players[u].stack = g.players[u].stack /\ u \notin InHand(o)
        BY <2>1, <3>1, <3>2, OpenedHand
      <3>4. u \notin CanAct(o)
        BY <3>3, InHandIs
      <3>5. CASE WentOn(g', o, CanAct(o))
        BY <3>3, <3>4, <3>5 DEF WentOn, SameHand
      <3>6. CASE Ended(g', o, CanAct(o))
        BY <3>3, <3>4, <3>6, HandWon
      <3> QED
        BY <3>1, <3>5, <3>6 DEF Went
    <2> QED
      BY <2>2, <2>3, <2>4
  <1>2. Spec => [][Frozen]_g
    BY <1>1, HandAlways, PTL DEF Spec
  <1> QED
    BY <1>2, Zenon DEF BystandersFrozen

\* What a hand wins a player from each opponent is at most the smaller of the
\* two stacks they started it with, unless the house pays a bonus for 2-7
\* (calculate_pots and _award_hand).
THEOREM StakesAreTable ==
    ASSUME "bonus_27" \notin HouseRules
    PROVE  Spec => TableStakes
  <1> DEFINE Won(u) == g'.hand.phase = "HAND_END" =>
                g'.players[u].stack - StackBefore(u) <=
                    SumFunction([v \in Users \ {u} |-> MinOf(StackBefore(u), StackBefore(v))])
             Stakes == \A u \in Users :
                g'.hand.phase = "HAND_END" =>
                    g'.players[u].stack - StackBefore(u) <=
                        SumFunction([v \in Users \ {u} |-> MinOf(StackBefore(u), StackBefore(v))])
  <1>1. ASSUME HandInv, Next, NEW u \in Users PROVE Won(u)
    <2> DEFINE m == SumFunction([v \in Users \ {u} |-> MinOf(StackBefore(u), StackBefore(v))])
    <2> SUFFICES ASSUME g'.hand.phase = "HAND_END"
                 PROVE  g'.players[u].stack - StackBefore(u) <= m
      OBVIOUS
    <2>1. FullTable(g) /\ Seated(g) = Users
      BY <1>1 DEF HandInv, FullTable
    <2>2. \A r, T : ~WentOn(g', r, T)
      BY DEF WentOn, BettingPhases
    <2>3. ASSUME NEW b, DOMAIN b = Users, \A v \in Users : b[v] = StackBefore(v)
          PROVE  m = MostWon(b, u)
      <3>1. [v \in Users \ {u} |-> MinOf(StackBefore(u), StackBefore(v))]
               = [v \in DOMAIN b \ {u} |-> MinOf(b[u], b[v])]
        BY <2>3
      <3> QED
        BY <3>1, Zenon DEF MostWon
    <2> HIDE DEF m
    <2>4. CASE Playing(g)
      <3>1. PICK w \in CanAct(g) : Went(g', g, {w})
        BY <1>1, <2>4, StepWent
      <3>2. InPlay(g) /\ DOMAIN g.hand.start = Users
        BY <2>1, <2>4 DEF FullTable, Playing
      <3>3. \A v \in Users : StackBefore(v) = g.hand.start[v]
        BY <2>4 DEF StackBefore, Betting, Playing
      <3>4. m = MostWon(g.hand.start, u)
        BY <2>3, <3>2, <3>3
      <3>5. Ended(g', g, {w})
        BY <2>2, <3>1 DEF Went
      <3>6. g'.players[u].stack - g.hand.start[u] <= MostWon(g.hand.start, u)
        <4> DEFINE T == {w}
        <4>1. Ended(g', g, T)
          BY <3>5
        <4> HIDE DEF T
        <4> QED
          BY <2>1, <3>2, <4>1, HandWon
      <3> QED
        BY <3>3, <3>4, <3>6
    <2>5. CASE ~Playing(g)
      <3>1. PICK o : OpenedFrom(o, g) /\ Went(g', o, CanAct(o))
        BY <1>1, <2>1, <2>5, StepStarts
      <3>2. /\ InPlay(o) /\ DOMAIN o.hand.start = Users /\ Seated(o) = Users
            /\ \A v \in Users : o.hand.start[v] = g.players[v].stack
        BY <2>1, <3>1, OpenedHand
      <3>3. \A v \in Users : StackBefore(v) = o.hand.start[v]
        BY <2>1, <2>5, <3>2, FullPhase DEF StackBefore, Betting, Stack
      <3>4. m = MostWon(o.hand.start, u)
        BY <2>3, <3>2, <3>3
      <3>5. Ended(g', o, CanAct(o))
        BY <2>2, <3>1 DEF Went
      <3>6. g'.players[u].stack - o.hand.start[u] <= MostWon(o.hand.start, u)
        BY <3>2, <3>5, HandWon
      <3> QED
        BY <3>3, <3>4, <3>6
    <2> QED
      BY <2>4, <2>5
  <1>2. HandInv /\ [Next]_g => [Stakes]_g
    BY <1>1
  <1> QED
    BY <1>2, HandAlways, PTL DEF Spec, TableStakes
=============================================================================
