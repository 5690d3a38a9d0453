---------------------------- MODULE TableSession ----------------------------
(***************************************************************************)
(* backend/sessions/session_manager.py: one table, its players coming and  *)
(* going while hands are played, and the three kinds of asyncio tasks that *)
(* act on it by themselves: the turn timer, the disconnect timers and the  *)
(* delayed start of the next hand.                                         *)
(*                                                                         *)
(* Every public call and every task does its work under the session's one  *)
(* lock, so each is one action, with the dispatch of the engine's events,  *)
(* the timers this arms and the scheduling of the next hand all in it.     *)
(* What interleaves is the order of the calls and the tasks.               *)
(*                                                                         *)
(* Left out: broadcasting and snapshots (Gateway has the connections),     *)
(* persistence, analytics, the action feed, and spectators, who touch no   *)
(* state of the players except through disconnect and leave (Gateway).     *)
(***************************************************************************)
EXTENDS PokerEngine

CONSTANTS
    Requests,   \* the kinds of calls the clients make: see RequestKinds
    Rebuys,     \* the amounts they ask to rebuy for
    ChipBound,  \* BOUND on the chips ever bought, by a guard of TakeSeat and Rebuy
    TaskBound,  \* BOUND on the pending start tasks: more are not created
    DropBound   \* BOUND on the players who are gone at a time, by a guard of Disconnect

RequestKinds == {"join", "leave", "disconnect", "sit_out", "sit_in",
                 "rebuy", "fold", "check", "call", "raise", "all_in"}

ASSUME SessionAssumption ==
    /\ Requests \subseteq RequestKinds
    /\ Rebuys \subseteq Int
    /\ ChipBound \in Nat
    /\ TaskBound \in Nat \ {0}
    /\ DropBound \in Nat

VARIABLES
    g,        \* self._state
    online,   \* the seated users with is_connected
    reserve,  \* self._disconnect_tasks: users whose disconnect timer runs
    timer,    \* self._turn_task: the seat it was armed for, NoSeat when none runs
    pending,  \* how many start_hand tasks are sleeping
    bought,   \* history: all chips bought at this table
    taken,    \* history: all chips carried away from it by leavers
    raised,   \* history: the last task to start a hand had start_hand raise
    rejoined, \* history: somebody has sat down again in a hand he had left
    unseen    \* history: a rebuy has made a player ready, and nothing that looks
              \* for the next hand has happened since

ledger == <<bought, taken>>
notes == <<raised, rejoined, unseen>>
vars == <<g, online, reserve, timer, pending, ledger, notes>>

EmptyTable ==
    [phase |-> "WAITING_FOR_PLAYERS", players |-> <<>>, order |-> <<>>, hand |-> NoHand]

Init ==
    /\ g = EmptyTable
    /\ online = {} /\ reserve = {}
    /\ timer = NoSeat /\ pending = 0
    /\ bought = 0 /\ taken = 0
    /\ raised = FALSE /\ rejoined = FALSE /\ unseen = FALSE

-----------------------------------------------------------------------------
(* What the handlers share *)

HandOn(s) == s.hand.phase # "NONE" /\ s.phase \notin BetweenHands

\* Players who count for starting a hand.  A player who went all in still has
\* that status when the hand is over, and does not count.
Ready(s) ==
    {u \in WithStatus(s, {"ACTIVE", "WAITING", "FOLDED"}) : s.players[u].stack > 0}

\* Mutation of AfterMaybeStart: two players are not enough.
AfterMaybeStartThree(s, connected, tasks) ==
    IF s.phase \in BetweenHands /\ Cardinality(Ready(s) \cap connected) > 2
      THEN MinOf(tasks + 1, TaskBound) ELSE tasks

\* _maybe_start_hand_unlocked: how many tasks are pending after it.  It never
\* looks for a task that is pending already.
AfterMaybeStart(s, connected, tasks) ==
    IF s.phase \in BetweenHands /\ Cardinality(Ready(s) \cap connected) >= 2
      THEN MinOf(tasks + 1, TaskBound) ELSE tasks

\* The engine has returned s: _dispatch_events arms the timer for the turn it
\* announces, and looks for the next hand when the hand is over.
AfterHandEnd(s, tasks) ==
    IF s.hand.phase = "HAND_END" THEN AfterMaybeStart(s, online, tasks) ELSE tasks

\* Mutations of Dispatch: a finished hand leaves its last timer running; no
\* timer is armed for a new turn.
DispatchKeepsTimer(s, tasks) ==
    /\ timer' = IF s.hand.turn # NoSeat THEN s.hand.turn ELSE timer
    /\ pending' = AfterHandEnd(s, tasks)

DispatchArmsNothing(s, tasks) ==
    /\ timer' = NoSeat
    /\ pending' = AfterHandEnd(s, tasks)

Dispatch(s, tasks) ==
    /\ timer' = s.hand.turn
    /\ pending' = AfterHandEnd(s, tasks)

Unseat(s, u) ==
    [s EXCEPT !.players = [v \in Seated(s) \ {u} |-> s.players[v]],
              !.order   = Filter(s.order, Seated(s) \ {u})]

OnTurn(u) == HandOn(g) /\ g.hand.turn = g.players[u].seat /\ g.players[u].status = "ACTIVE"

-----------------------------------------------------------------------------
(* Coming and going *)

FreeSeats == SeatIndex \ Seats(g)
LeftThisHand(u) == HandOn(g) /\ u \in DOMAIN g.hand.start \ Seated(g)

\* Somebody has looked for the next hand, and noted nothing else.
Looked == unseen' = FALSE /\ UNCHANGED <<raised, rejoined>>

Seat(u, p) ==
    [g EXCEPT !.players = [v \in Seated(g) \cup {u} |-> IF v = u THEN p ELSE g.players[v]],
              !.order   = Append(@, u)]

\* Mutation of TakeSeat: whoever sits down is ACTIVE at once.
TakeSeatActive(u) ==
    LET p == [seat |-> MinSeat(FreeSeats), stack |-> StartingStack,
              status |-> "ACTIVE", timeouts |-> 0]
        s == Seat(u, p)
    IN  /\ "join" \in Requests
        /\ u \notin Seated(g)
        /\ FreeSeats # {}
        /\ bought + StartingStack <= ChipBound
        /\ g' = s
        /\ online' = online \cup {u}
        /\ pending' = AfterMaybeStart(s, online', pending)
        /\ bought' = bought + StartingStack
        /\ rejoined' = (rejoined \/ LeftThisHand(u))
        /\ unseen' = FALSE
        /\ UNCHANGED <<reserve, timer, taken, raised>>

\* join_as_player, a new player: the lowest free seat.  "Table is full" changes
\* nothing.
TakeSeat(u) ==
    LET p == [seat     |-> MinSeat(FreeSeats),
              stack    |-> StartingStack,
              status   |-> IF HandOn(g) THEN "WAITING" ELSE "ACTIVE",
              timeouts |-> 0]
        s == Seat(u, p)
    IN  /\ "join" \in Requests
        /\ u \notin Seated(g)
        /\ FreeSeats # {}
        /\ bought + StartingStack <= ChipBound
        /\ g' = s
        /\ online' = online \cup {u}
        /\ pending' = AfterMaybeStart(s, online', pending)
        /\ bought' = bought + StartingStack
        /\ rejoined' = (rejoined \/ LeftThisHand(u))
        /\ unseen' = FALSE
        /\ UNCHANGED <<reserve, timer, taken, raised>>

\* join_as_player of a seated player, and reconnect: _do_reconnect.
Reconnect(u) ==
    /\ "join" \in Requests
    /\ u \in Seated(g)
    /\ online' = online \cup {u}
    /\ reserve' = reserve \ {u}
    /\ pending' = AfterMaybeStart(g, online', pending)
    /\ Looked
    /\ UNCHANGED <<g, timer, ledger>>

\* disconnect, of a player.  Only a fresh one starts the timer.
Disconnect(u) ==
    /\ "disconnect" \in Requests
    /\ u \in online
    /\ Cardinality(Seated(g) \ online) < DropBound
    /\ online' = online \ {u}
    /\ reserve' = reserve \cup {u}
    /\ UNCHANGED <<g, timer, pending, ledger, notes>>

\* What _do_leave does before it deletes the player: on turn he is folded by
\* the engine and the hand goes on from there; an engine that refuses is
\* ignored.  Off turn he is only marked FOLDED.
LeaveTable(u) ==
    \/ /\ OnTurn(u)
       /\ \E s \in ApplyAction(g, u, "fold", 0) :
             /\ g' = Unseat(s, u)
             /\ Dispatch(s, pending)
             /\ taken' = taken + (IF HandOn(s) THEN 0 ELSE s.players[u].stack)
    \/ /\ \/ ~OnTurn(u)
          \/ ApplyAction(g, u, "fold", 0) = {}
       /\ g' = Unseat(g, u)
       /\ taken' = taken + (IF HandOn(g) /\ u \in DOMAIN g.hand.start
                              THEN 0 ELSE g.players[u].stack)
       /\ UNCHANGED <<timer, pending>>

\* Mutation of Leave: the disconnect timer is not cancelled.
LeaveKeepsReserve(u) ==
    /\ "leave" \in Requests
    /\ u \in Seated(g)
    /\ LeaveTable(u)
    /\ online' = online \ {u}
    /\ UNCHANGED <<reserve, bought, notes>>

\* leave.  The FOLDED mark of an off-turn leaver is not seen again, and the
\* chips he leaves in a running hand are the pot's: _total_contributions
\* counts a missing player's whole starting stack.
Leave(u) ==
    /\ "leave" \in Requests
    /\ u \in Seated(g)
    /\ LeaveTable(u)
    /\ online' = online \ {u}
    /\ reserve' = reserve \ {u}
    /\ UNCHANGED <<bought, notes>>

-----------------------------------------------------------------------------
(* Sitting out and in, rebuy *)

SetStatus(s, u, status) == [s EXCEPT !.players[u].status = status]

\* _force_sit_out_unlocked: fold first when on turn, then SIT_OUT, whatever the
\* status was.  The hand does not move on for an off-turn player.
ForceSitOut(u) ==
    \/ /\ OnTurn(u)
       /\ \E s \in ApplyAction(g, u, "fold", 0) :
             /\ g' = SetStatus(s, u, "SIT_OUT")
             /\ Dispatch(s, pending)
    \/ /\ \/ ~OnTurn(u)
          \/ ApplyAction(g, u, "fold", 0) = {}
       /\ g' = SetStatus(g, u, "SIT_OUT")
       /\ UNCHANGED <<timer, pending>>

SitOut(u) ==
    /\ "sit_out" \in Requests
    /\ u \in Seated(g)
    /\ g.players[u].status # "SIT_OUT"
    /\ ForceSitOut(u)
    /\ UNCHANGED <<online, reserve, ledger, notes>>

\* Mutation of SitIn: nobody looks whether a hand can start now.
SitInUnnoticed(u) ==
    /\ "sit_in" \in Requests
    /\ u \in WithStatus(g, {"SIT_OUT"})
    /\ g.players[u].stack > 0
    /\ g' = SetStatus(g, u, "WAITING")
    /\ UNCHANGED <<online, reserve, timer, pending, ledger, notes>>

SitIn(u) ==
    LET s == SetStatus(g, u, "WAITING")
    IN  /\ "sit_in" \in Requests
        /\ u \in WithStatus(g, {"SIT_OUT"})
        /\ g.players[u].stack > 0
        /\ g' = s
        /\ pending' = AfterMaybeStart(s, online, pending)
        /\ Looked
        /\ UNCHANGED <<online, reserve, timer, ledger>>

\* Mutation of Rebuy: during a hand too.
RebuyAnyTime(u, amount) ==
    /\ "rebuy" \in Requests
    /\ u \in Seated(g)
    /\ amount > 0 /\ amount <= StartingStack \div 2
    /\ bought + amount <= ChipBound
    /\ g' = [g EXCEPT !.players[u].stack = @ + amount]
    /\ bought' = bought + amount
    /\ UNCHANGED <<online, reserve, timer, pending, taken, notes>>

\* rebuy: between hands, at most half the buy-in.  No look for the next hand.
Rebuy(u, amount) ==
    /\ "rebuy" \in Requests
    /\ u \in Seated(g)
    /\ ~HandOn(g)
    /\ amount > 0 /\ amount <= StartingStack \div 2
    /\ bought + amount <= ChipBound
    /\ g' = [g EXCEPT !.players[u].stack = @ + amount]
    /\ bought' = bought + amount
    /\ unseen' = (unseen \/ Ready(g') # Ready(g))
    /\ UNCHANGED <<online, reserve, timer, pending, taken, raised, rejoined>>

-----------------------------------------------------------------------------
(* Actions: handle_action.  A call the engine refuses changes nothing here. *)

Act(u, type, amount) ==
    /\ type \in Requests
    /\ \E s \in ApplyAction(g, u, type, amount) :
          /\ g' = s
          /\ Dispatch(s, pending)
    /\ UNCHANGED <<online, reserve, ledger, notes>>

Raises(u) ==
    IF u \in Seated(g) THEN g.hand.min_raise_to .. (g.hand.bets[u] + g.players[u].stack)
    ELSE {}

ActAny(u) ==
    \/ \E type \in {"fold", "check", "call", "all_in"} : Act(u, type, 0)
    \/ \E amount \in Raises(u) : Act(u, "raise", amount)

-----------------------------------------------------------------------------
(* The session's own tasks *)

\* _run_turn_timer: the task ends whatever happens.  It finds the turn moved
\* on, or the engine times the player out; an engine that raises ends the task
\* with the state as it was and no other timer.
TurnTimer ==
    /\ timer # NoSeat
    /\ \/ /\ g.hand.turn = timer
          /\ \E s \in HandleTimeout(g) :
                /\ g' = s
                /\ IF timer \in Seats(g) THEN Dispatch(s, pending)
                   ELSE timer' = NoSeat /\ UNCHANGED pending
       \/ /\ g.hand.turn # timer \/ HandleTimeout(g) = {}
          /\ timer' = NoSeat
          /\ UNCHANGED <<g, pending>>
    /\ UNCHANGED <<online, reserve, ledger, notes>>

\* _run_disconnect_timer
ReserveTimer(u) ==
    /\ u \in reserve
    /\ reserve' = reserve \ {u}
    /\ IF u \in Seated(g) \ online THEN ForceSitOut(u)
       ELSE UNCHANGED <<g, timer, pending>>
    /\ UNCHANGED <<online, ledger, notes>>

\* _start_hand_after_delay: phase and players are checked again, the
\* connections are not.  An engine that raises is logged and the table waits.
StartTask ==
    /\ pending > 0
    /\ \/ /\ g.phase \in BetweenHands
          /\ Cardinality(Ready(g)) >= 2
          /\ \E s \in StartHand(g) : g' = s /\ Dispatch(s, pending - 1)
          /\ raised' = FALSE
       \/ /\ g.phase \notin BetweenHands \/ Cardinality(Ready(g)) < 2
          /\ pending' = pending - 1
          /\ raised' = FALSE
          /\ UNCHANGED <<g, timer>>
       \/ /\ g.phase \in BetweenHands
          /\ Cardinality(Ready(g)) >= 2
          /\ StartRaises(g)
          /\ pending' = pending - 1
          /\ raised' = TRUE
          /\ UNCHANGED <<g, timer>>
    /\ unseen' = FALSE
    /\ UNCHANGED <<online, reserve, ledger, rejoined>>

-----------------------------------------------------------------------------
Request(u) ==
    \/ TakeSeat(u) \/ Reconnect(u) \/ Disconnect(u) \/ Leave(u)
    \/ SitOut(u) \/ SitIn(u)
    \/ \E amount \in Rebuys : Rebuy(u, amount)
    \/ ActAny(u)

Next ==
    \/ \E u \in Users : Request(u) \/ ReserveTimer(u)
    \/ TurnTimer
    \/ StartTask

Spec == Init /\ [][Next]_vars

\* A running task is scheduled by asyncio sooner or later: a timer that nobody
\* cancels fires.  The first two are WF_vars(TurnTimer) and WF_vars(StartTask)
\* with the enabling conditions written out, each of which is exactly "the task
\* exists" (TLC evaluates ENABLED of an engine call far too slowly).  The third
\* says that a disconnect timer ends, which is the same as that it is fair.
Ends(u) == u \in reserve /\ reserve' = reserve \ {u}
Fairness ==
    /\ []<>(timer = NoSeat) \/ []<><<TurnTimer>>_vars
    /\ []<>(pending = 0) \/ []<><<StartTask>>_vars
    /\ \A u \in Users : WF_reserve(Ends(u))
FairSpec == Spec /\ Fairness

-----------------------------------------------------------------------------
(* Properties *)

SumOf(f) == SumFunction(f)
StackOf(u) == g.players[u].stack
PlayerRecord == [seat : SeatIndex, stack : Nat, status : Statuses, timeouts : Nat]

\* What each variable may hold; seats are not shared, and the order of the
\* players is an order of exactly the seated ones.
TypeOK ==
    /\ Seated(g) \subseteq Users
    /\ \A u \in Seated(g) : g.players[u] \in PlayerRecord
    /\ Cardinality(Seats(g)) = Cardinality(Seated(g))
    /\ ToSet(g.order) = Seated(g) /\ IsInjective(g.order)
    /\ online \subseteq Seated(g)
    /\ reserve \subseteq Seated(g) \ online
    /\ timer \in SeatIndex \cup {NoSeat}
    /\ pending \in 0..TaskBound
    /\ bought \in 0..ChipBound /\ taken \in Nat
    /\ raised \in BOOLEAN /\ rejoined \in BOOLEAN /\ unseen \in BOOLEAN

\* The table's chips are what was bought less what leavers carried away, hand
\* after hand; while one is on, the stacks it started with stand for the pot
\* (join_as_player, leave, rebuy, _total_contributions and _award_hand).  A player
\* who sits down again in a hand he has left makes or loses chips, because
\* _total_contributions takes his new stack for what is left of the old one: the
\* ledger is kept until somebody does.
ChipLedger ==
    LET late == IF HandOn(g) THEN Seated(g) \ DOMAIN g.hand.start ELSE Seated(g)
        inHand == IF HandOn(g) THEN SumOf(g.hand.start) ELSE 0
    IN  ~rejoined => inHand + SumOf([u \in late |-> StackOf(u)]) = bought - taken

\* "Total chips put in by each player across ALL betting rounds of this hand":
\* that is never less than the bet of the round that is on, for anybody who was
\* dealt in, whether he is still there or not (_total_contributions), until
\* somebody sits down again in a hand he has left.
ContributionsCoverBets ==
    ~rejoined /\ HandOn(g) =>
        \A u \in DOMAIN g.hand.start : TotalContributions(g)[u] >= g.hand.bets[u]

\* The turn timer that runs is the timer of the turn that is on: none survives
\* its turn, so that none acts for the wrong player (_schedule_turn_timer,
\* _cancel_turn_timer in every handler that moves the turn).
TimerIsTurn == timer # NoSeat => timer = g.hand.turn

\* Nobody enters a hand that is on, whoever sits down, sits in or comes back in
\* the middle of it, also into a hand he has left: those who may win it are among
\* those who might before, and nobody else puts in a bet (join_as_player, sit_in,
\* _do_reconnect).
HandIsClosed ==
    [][HandOn(g) /\ HandOn(g') =>
         /\ InHand(g') \subseteq InHand(g)
         /\ \A u \in Users \ InHand(g) : g'.hand.bets[u] \in {0, g.hand.bets[u]}]_vars

\* Between hands, when two connected players are ready, somebody has scheduled
\* the next hand, or the last task to start one had start_hand raise, which is
\* logged and not tried again.  No other path that makes a player ready forgets
\* to look but a rebuy, and a rebuy makes nobody ready, because who is broke is
\* ALL_IN or sits out, unless a bonus took his last chips or chips were lost when
\* somebody sat down again in a hand he had left.
TableReady == ~HandOn(g) /\ Cardinality(Ready(g) \cap online) >= 2
NextHandScheduled ==
    TableReady => \/ pending > 0
                  \/ raised
                  \/ unseen /\ (rejoined \/ "bonus_27" \in HouseRules)

\* "Schedule next hand - must always run": the same for players as the table
\* sees them, connected, with chips and not sitting out.
Willing(u) == u \in online /\ StackOf(u) > 0 /\ g.players[u].status # "SIT_OUT"
NextHandAlwaysScheduled ==
    ~HandOn(g) /\ Cardinality({u \in Seated(g) : Willing(u)}) >= 2 => pending > 0

\* As long as nobody is sat out or walks away, every hand comes to an end,
\* whoever is connected and whether or not anybody acts.
SomebodySitsOut == WithStatus(g, {"SIT_OUT"}) # {}
HandEnds == HandOn(g) ~> (~HandOn(g) \/ SomebodySitsOut)

\* "the game can't wait forever": every hand comes to an end.
HandAlwaysEnds == HandOn(g) ~> ~HandOn(g)

\* Two connected players who are ready get a hand, unless they stop being so.
NextHandStarts ==
    TableReady ~> (HandOn(g) \/ Cardinality(Ready(g) \cap online) < 2)
=============================================================================
