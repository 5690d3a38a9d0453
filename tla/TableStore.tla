----------------------------- MODULE TableStore -----------------------------
(***************************************************************************)
(* What a table (backend/sessions/session_manager.py) writes through the   *)
(* SQLite adapter, call by call: the rows of player_sessions, the snapshot *)
(* of game_snapshots, the summaries of hand_summaries.                     *)
(*                                                                         *)
(* A handler changes self._state first and then awaits one call of the     *)
(* adapter after another, under the session's lock.  Here the first part   *)
(* is one action, which leaves the rest of the handler as the steps `todo`;*)
(* each of them is a transaction that commits or raises, and the process   *)
(* may die before any of them.                                             *)
(*                                                                         *)
(* The hand is what an engine may make of it: a move bets a chip or none,  *)
(* or folds, and then the turn goes on, a street begins or the hand ends.  *)
(* TableSession has the engine itself, with its positions, its house rules *)
(* and the deals that raise.  Left out: connections, seats, broadcasts,    *)
(* which do not raise, and analytics.                                      *)
(***************************************************************************)
EXTENDS Integers, FiniteSets, Sequences, SequencesExt

CONSTANTS
    Users,      \* those who come to the table
    BuyIn,      \* config.starting_stack
    MaxChips,   \* BOUND on the chips at the table, a guard of Join and Rebuy
    MaxHands,   \* BOUND on the hands started, a guard of StartHand
    MaxCrashes, \* BOUND on crashes
    MaxFailures \* BOUND on calls of the adapter that raise

Nobody == "nobody"

ASSUME StoreAssumption ==
    /\ Nobody \notin Users
    /\ BuyIn \in Nat \ {0} /\ MaxChips \in Nat /\ MaxHands \in Nat
    /\ MaxCrashes \in Nat /\ MaxFailures \in Nat

VARIABLES
    t,          \* self._state
    pending,    \* a start_hand task is sleeping
    todo,       \* what the handler that holds the lock has still to do
    sessions,   \* table player_sessions: user -> what is kept of the seat
    snapshot,   \* table game_snapshots: the phase of the row, "NONE" if none
    summaries,  \* table hand_summaries: the numbers of the hands
    inherited,  \* history: users whose row an earlier process left
    owed,       \* history: the steps of this process that did not take place
    moved,      \* history: "action" if a client's action made the last move
    crashes, failures

durable == <<sessions, snapshot, summaries>>
bounds  == <<crashes, failures>>
vars == <<t, pending, todo, sessions, snapshot, summaries, inherited, owed, moved,
          crashes, failures>>

Streets == {"FLOP", "TURN"}     \* standing for FLOP, TURN and RIVER
Between == {"WAITING", "HAND_END"}
Phases == Between \cup Streets \cup {"PRE_FLOP"}

EmptyTable ==
    [stack |-> [u \in {} |-> 0], out |-> {}, allin |-> {}, phase |-> "WAITING",
     playing |-> {}, pot |-> 0, turn |-> Nobody, hand |-> 0]

Seated(s) == DOMAIN s.stack
HandOn(s) == s.phase \notin Between
Ready(s) == {u \in Seated(s) \ (s.out \cup s.allin) : s.stack[u] > 0}
Chips(s) == FoldSet(LAMBDA u, n : s.stack[u] + n, s.pot, Seated(s))
Row(s, u) == [stack |-> s.stack[u], out |-> u \in s.out]

-----------------------------------------------------------------------------
(* The steps of a handler after its change of the state *)

Step(op, u) == [op |-> op, user |-> u]
Do(op) == Step(op, Nobody)

\* Of these, what can raise is a call of the adapter; "catch" ends a try block.
Writes == {"save", "delete", "snapshot", "summary"}

\* _on_hand_end: the summary, every player's row, the search for a next hand
HandEndSteps(s) ==
    <<Do("summary")>> \o [i \in 1 .. Cardinality(Seated(s)) |->
                             Step("save", SetToSeq(Seated(s))[i])] \o <<Do("look")>>

\* Mutation of DispatchSteps: the end of a hand does not look for the next one.
DispatchSteps_NoLook(s) ==
    IF s.phase # "HAND_END" THEN <<>> ELSE Front(HandEndSteps(s))

\* Mutation of DispatchSteps: the summary is forgotten.
DispatchSteps_NoSummary(s) ==
    IF s.phase # "HAND_END" THEN <<>> ELSE Tail(HandEndSteps(s))

\* _dispatch_events: nothing of it is saved, unless the hand is over
DispatchSteps(s) == IF s.phase = "HAND_END" THEN HandEndSteps(s) ELSE <<>>

\* Mutation of PhaseSteps: a street that was added later is not in the list.
PhaseSteps_FlopOnly(s) == IF s.phase = "FLOP" THEN <<Do("snapshot")>> ELSE <<>>

\* _maybe_persist_phase
PhaseSteps(s) == IF s.phase \in Streets THEN <<Do("snapshot")>> ELSE <<>>

Free == todo = <<>>     \* nobody holds the lock

\* A handler takes the lock, makes the state s and leaves the rest to do.
Begin(s, steps) ==
    /\ Free
    /\ t' = s
    /\ todo' = steps

-----------------------------------------------------------------------------
(* Moves *)

End(s, w) == [s EXCEPT !.phase = "HAND_END", !.turn = Nobody, !.pot = 0,
                       !.stack[w] = @ + s.pot]

\* What the engine may make of a hand when a move has been made: it ends with
\* the last street, or when one is left or can act; else the turn goes on, in
\* this street or the next
Outcomes(s) ==
    LET acting == s.playing \ s.allin
        next   == IF s.phase = "PRE_FLOP" THEN "FLOP" ELSE "TURN"
    IN  (IF s.phase = "TURN" \/ Cardinality(s.playing) = 1 \/ Cardinality(acting) <= 1
         THEN {End(s, w) : w \in s.playing} ELSE {})
        \cup (IF Cardinality(s.playing) = 1 THEN {}
              ELSE {[s EXCEPT !.turn = u] : u \in acting \ {s.turn}})
        \cup (IF s.phase = "TURN" \/ Cardinality(acting) <= 1 THEN {}
              ELSE {[s EXCEPT !.turn = u, !.phase = next] : u \in acting})

Fold(s, u) == [s EXCEPT !.playing = @ \ {u}]

\* The status SIT_OUT takes the place of the one before, ALL_IN too.
SatOut(s, u) == [s EXCEPT !.out = @ \cup {u}, !.allin = @ \ {u}, !.playing = @ \ {u}]

\* Mutation of Unseat: who leaves keeps his status.
Unseat_KeepsStatus(s, u) ==
    [s EXCEPT !.stack = [v \in Seated(s) \ {u} |-> s.stack[v]],
              !.allin = @ \ {u}, !.playing = @ \ {u}]

\* A player who leaves takes his chips and his status along.
Unseat(s, u) ==
    [s EXCEPT !.stack = [v \in Seated(s) \ {u} |-> s.stack[v]],
              !.out = @ \ {u}, !.allin = @ \ {u}, !.playing = @ \ {u}]

Bet(s, u, n) == [s EXCEPT !.stack[u] = @ - n, !.pot = @ + n,
                          !.allin = IF s.stack[u] = n THEN @ \cup {u} ELSE @]

\* apply_action by the player on turn: the states it may return.  A fold that
\* would leave nobody raises, and has none.
Folded(u) == IF HandOn(t) /\ u \in t.playing /\ t.turn = u /\ Cardinality(t.playing) > 1
             THEN Outcomes(Fold(t, u)) ELSE {}
Checked(u) == IF HandOn(t) /\ u \in t.playing /\ t.turn = u
              THEN Outcomes(t) ELSE {}
CalledOrRaised(u) ==
    IF HandOn(t) /\ u \in t.playing /\ t.turn = u /\ t.stack[u] > 0
    THEN Outcomes(Bet(t, u, 1)) ELSE {}

-----------------------------------------------------------------------------
(* Handlers *)

\* join_as_player, a user who has no seat
Join(u) ==
    /\ u \notin Seated(t)
    /\ Chips(t) + BuyIn <= MaxChips
    /\ Begin([t EXCEPT !.stack = [v \in Seated(t) \cup {u} |->
                                     IF v = u THEN BuyIn ELSE t.stack[v]]],
             <<Step("save", u), Do("look")>>)
    /\ UNCHANGED <<pending, durable, inherited, owed, moved, bounds>>

\* handle_action, its dispatch and _maybe_persist_phase
Act(u) ==
    /\ \E s \in Folded(u) \cup Checked(u) \cup CalledOrRaised(u) :
          Begin(s, DispatchSteps(s) \o PhaseSteps(s))
    /\ moved' = "action"
    /\ UNCHANGED <<pending, durable, inherited, owed, bounds>>

\* _run_turn_timer.  Announcing the next turn cancels the running timer, which
\* is this very task: its next await that suspends, the one of the snapshot,
\* raises CancelledError, so a street it opens is not persisted.
TurnTimeout ==
    /\ \E s \in Folded(t.turn) \cup Checked(t.turn), third \in BOOLEAN :
          Begin(IF third THEN SatOut(s, t.turn) ELSE s,
                DispatchSteps(s))
    /\ moved' = "other"
    /\ UNCHANGED <<pending, durable, inherited, owed, bounds>>

\* Mutation of LeaveSteps: the row goes first, while the hand that the fold
\* ends still saves every player's.
LeaveSteps_RowFirst(u, s) ==
    <<Step("delete", u)>> \o DispatchSteps(s) \o <<Do("catch"), Step("unseat", u)>>

\* _do_leave after the fold: it does not persist the phase
LeaveSteps(u, s) ==
    DispatchSteps(s) \o <<Do("catch"), Step("unseat", u), Step("delete", u)>>

\* leave: a player on turn folds first; another is out of the hand at once
Leave(u) ==
    /\ u \in Seated(t)
    /\ \/ \E s \in Folded(u) : Begin(s, LeaveSteps(u, s)) /\ moved' = "other"
       \/ /\ Folded(u) = {}
          /\ Begin(IF HandOn(t) /\ t.turn # u THEN Fold(t, u) ELSE t,
                   <<Step("unseat", u), Step("delete", u)>>)
          /\ moved' = moved
    /\ UNCHANGED <<pending, durable, inherited, owed, bounds>>

\* sit_out and the disconnect timer, by _force_sit_out_unlocked
SitOut(u) ==
    /\ u \in Seated(t) \ t.out
    /\ \/ \E s \in Folded(u) :
             /\ Begin(s, DispatchSteps(s) \o <<Do("catch"), Step("sit_out", u),
                                               Step("save", u)>>)
             /\ moved' = "other"
       \/ /\ Folded(u) = {}
          /\ Begin(t, <<Step("sit_out", u), Step("save", u)>>)
          /\ moved' = moved
    /\ UNCHANGED <<pending, durable, inherited, owed, bounds>>

\* sit_in
SitIn(u) ==
    /\ u \in Seated(t) \cap t.out
    /\ t.stack[u] > 0
    /\ Begin([t EXCEPT !.out = @ \ {u}, !.allin = @ \ {u}],
             <<Step("save", u), Do("look")>>)
    /\ UNCHANGED <<pending, durable, inherited, owed, moved, bounds>>

\* Mutation of Rebuy: the broadcast is there, the save is not.
Rebuy_Unsaved(u) ==
    /\ u \in Seated(t) /\ ~HandOn(t) /\ 1 <= BuyIn \div 2 /\ Chips(t) < MaxChips
    /\ t' = [t EXCEPT !.stack[u] = @ + 1]
    /\ UNCHANGED <<todo, pending, durable, inherited, owed, moved, bounds>>

\* rebuy, between hands and for at most half the buy-in.  It looks for no hand.
Rebuy(u) ==
    /\ u \in Seated(t)
    /\ ~HandOn(t)
    /\ 1 <= BuyIn \div 2 /\ Chips(t) < MaxChips
    /\ Begin([t EXCEPT !.stack[u] = @ + 1], <<Step("save", u)>>)
    /\ UNCHANGED <<pending, durable, inherited, owed, moved, bounds>>

\* The table as start_hand resets it: those with chips who do not sit out play,
\* who was all in among them, and who was and has none left sits out.
Reset(s) ==
    [s EXCEPT !.phase = "PRE_FLOP", !.hand = @ + 1, !.allin = {},
              !.playing = {u \in Seated(s) \ s.out : s.stack[u] > 0},
              !.out = @ \cup {u \in Seated(s) \cap s.allin : s.stack[u] = 0}]

\* Two of them post a chip, and a house rule folds hands that were dealt, but
\* not all of them.
Dealt(s) ==
    {Bet(Bet(s, pair[1], 1), pair[2], 1) : pair \in {p \in s.playing \X s.playing : p[1] # p[2]}}
Kept(s) == {[s EXCEPT !.playing = @ \ F] : F \in SUBSET (s.playing \ s.allin) \ {s.playing}}

\* _begin_betting_round: where no two can act the hand ends with the deal.
Opened(s) ==
    LET acting == s.playing \ s.allin
    IN  IF Cardinality(acting) <= 1 THEN {End(s, w) : w \in s.playing}
        ELSE {[s EXCEPT !.turn = u] : u \in acting}

Deals(s) == UNION {UNION {Opened(k) : k \in Kept(d)} : d \in Dealt(Reset(s))}

\* _start_hand_after_delay, everything in its try block: the dispatch, which may
\* be that of a hand's end, and a snapshot
StartHand ==
    /\ pending
    /\ pending' = FALSE
    /\ IF ~HandOn(t) /\ Cardinality(Ready(t)) >= 2
       THEN /\ t.hand < MaxHands
            /\ \E s \in Deals(t) : Begin(s, DispatchSteps(s) \o <<Do("snapshot")>>)
            /\ moved' = "other"
       ELSE Free /\ UNCHANGED <<t, todo, moved>>
    /\ UNCHANGED <<durable, inherited, owed, bounds>>

-----------------------------------------------------------------------------
(* The steps, in order *)

First == Head(todo)
About(u) == {x \in owed : x.user = u}

\* A step that works in memory only
Proceed ==
    /\ ~Free /\ First.op \notin Writes
    /\ LET u == First.user IN
       /\ t' = CASE First.op = "unseat" -> Unseat(t, u)
                 [] First.op = "sit_out" -> SatOut(t, u)
                 [] OTHER -> t
       /\ pending' = (\/ pending
                      \/ First.op = "look" /\ ~HandOn(t) /\ Cardinality(Ready(t)) >= 2)
       /\ owed' = IF First.op = "look" THEN owed \ {First} ELSE owed
    /\ todo' = Tail(todo)
    /\ UNCHANGED <<durable, inherited, moved, bounds>>

\* A call of the adapter commits: save_player_session, delete_player_session,
\* save_game_state_snapshot, save_hand_summary
Commit ==
    /\ ~Free /\ First.op \in Writes
    /\ LET u == First.user IN
       /\ sessions' =
            CASE First.op = "save" -> [v \in DOMAIN sessions \cup {u} |->
                                          IF v = u THEN Row(t, u) ELSE sessions[v]]
              [] First.op = "delete" -> [v \in DOMAIN sessions \ {u} |-> sessions[v]]
              [] OTHER -> sessions
       /\ snapshot' = IF First.op = "snapshot" THEN t.phase ELSE snapshot
       /\ summaries' = IF First.op = "summary" THEN summaries \cup {t.hand} ELSE summaries
       /\ inherited' = inherited \ {u}
       /\ owed' = IF u # Nobody THEN owed \ About(u) ELSE owed \ {First}
    /\ todo' = Tail(todo)
    /\ UNCHANGED <<t, pending, moved, bounds>>

\* How many steps are lost with the first: to the end of the try block it is
\* in, or the whole handler.  save_hand_summary has a try block of its own.
Lost ==
    LET ends == {i \in 1 .. Len(todo) : todo[i].op = "catch"}
    IN  IF First.op = "summary" THEN 1
        ELSE IF ends = {} THEN Len(todo)
        ELSE CHOOSE i \in ends : \A j \in ends : i <= j

\* A call of the adapter raises.
Raise ==
    /\ ~Free /\ First.op \in Writes
    /\ failures < MaxFailures
    /\ failures' = failures + 1
    /\ owed' = owed \cup {todo[i] : i \in {j \in 1 .. Lost : todo[j].op # "catch"}}
    /\ todo' = SubSeq(todo, Lost + 1, Len(todo))
    /\ UNCHANGED <<t, pending, durable, inherited, moved, crashes>>

\* The process dies and another starts: nothing is loaded, and the registry
\* makes an empty table for the first who comes.
Crash ==
    /\ crashes < MaxCrashes
    /\ crashes' = crashes + 1
    /\ t' = [EmptyTable EXCEPT !.hand = t.hand]     \* keeps the numbers apart
    /\ pending' = FALSE /\ todo' = <<>>
    /\ inherited' = DOMAIN sessions
    /\ owed' = {} /\ moved' = "other"
    /\ UNCHANGED <<durable, failures>>

Init ==
    /\ t = EmptyTable
    /\ pending = FALSE /\ todo = <<>>
    /\ sessions = [u \in {} |-> 0] /\ snapshot = "NONE" /\ summaries = {}
    /\ inherited = {} /\ owed = {} /\ moved = "other"
    /\ crashes = 0 /\ failures = 0

Handle(u) == Join(u) \/ Act(u) \/ Leave(u) \/ SitOut(u) \/ SitIn(u) \/ Rebuy(u)

Next ==
    \/ \E u \in Users : Handle(u)
    \/ TurnTimeout
    \/ StartHand
    \/ Proceed
    \/ Commit
    \/ Raise
    \/ Crash

Spec == Init /\ [][Next]_vars

-----------------------------------------------------------------------------
(* Properties.  Each is about a table whose lock is free: within a handler the *)
(* rows lag behind the state by what is to do.                              *)

Steps == [op : Writes \cup {"unseat", "sit_out", "look", "catch"}, user : Users \cup {Nobody}]

TypeOK ==
    /\ Seated(t) \subseteq Users /\ \A u \in Seated(t) : t.stack[u] \in Nat
    /\ t.out \subseteq Seated(t) /\ t.phase \in Phases /\ t.pot \in Nat
    /\ t.turn \in Users \cup {Nobody}
    /\ pending \in BOOLEAN /\ todo \in Seq(Steps) /\ owed \subseteq Steps
    /\ DOMAIN sessions \subseteq Users /\ inherited \subseteq DOMAIN sessions
    /\ snapshot \in Phases \cup {"NONE"} /\ summaries \subseteq 1 .. MaxHands

\* Between hands every seat is in the table as it stands, so that a crash now
\* would lose nothing, except for a seat whose save has failed since.
RowsMatchSeats ==
    Free /\ ~HandOn(t) =>
        \A u \in Seated(t) :
            About(u) = {} => u \in DOMAIN sessions /\ sessions[u] = Row(t, u)

\* Who has left has no row, though the hand his fold ended saved it once more:
\* the rows of users without a seat were left by an earlier process, or their
\* deletion failed (_do_leave, session_manager.py:541-571).
NoGhostRow ==
    Free => \A u \in DOMAIN sessions \ Seated(t) : u \in inherited \/ About(u) # {}

\* However a hand ended, by an action, the timer, a leave, a sitting out or at
\* its own deal, its summary is written, unless that very write has failed.
HandEndIsDurable ==
    Free /\ t.phase = "HAND_END" =>
        t.hand \in summaries \/ Do("summary") \in owed

\* Two players who can play have a hand on its way, unless the write before the
\* search has failed in the handler of a hand's end, a join or a sitting in and
\* has taken the search along.  SearchAlwaysRuns is what the code claims instead.
NextHandLookedFor ==
    Free /\ ~HandOn(t) /\ Cardinality(Ready(t)) >= 2 => pending \/ Do("look") \in owed

\* _on_hand_end (session_manager.py:953): "Schedule next hand - must always run
\* even if persistence above failed".  Only the summary's write is in a try
\* block: when a player's row cannot be saved, no next hand is scheduled.
SearchAlwaysRuns ==
    Free /\ t.phase = "HAND_END" /\ Cardinality(Ready(t)) >= 2 => pending

\* The street a client's action has led to is in the snapshot; only the timer,
\* a leave and a sitting out move the hand without persisting its phase.
StreetPersisted ==
    Free /\ t.phase \in Streets /\ moved = "action" =>
        snapshot = t.phase \/ Do("snapshot") \in owed
=============================================================================
