# Zepo: a verification project

Zepo is a multiplayer poker platform: a stateless rules engine, an asyncio
server that keeps one session per table and talks to clients over WebSockets,
SQLite or dictionaries behind it, and a mobile client. This directory holds TLA+
modules translated from the source, the TLC configurations that check them on
small instances, and theorems checked by the TLA+ proof system. `PROJECT.json`
says which lines of the source each definition stands for.

## 1. The system

| part | source | state it keeps | operations |
|---|---|---|---|
| pot calculator | `poker_engine/engine/pot_calculator.py` | none | `calculate_pots`, `award_pots` |
| hand engine | `poker_engine/engine/game_engine.py`, `validator.py`, `models.py` | none: a `GameState` goes in and a new one comes out, or it raises | `start_hand`, `apply_action`, `handle_timeout` |
| house rules | `poker_engine/rules/` | none | hooks before the deal, after the hole cards, after a win |
| evaluator, deck | `poker_engine/engine/evaluator.py`, `deck.py` | none | `compare_hands`, shuffling |
| views | `poker_engine/engine/view_builder.py` | none | who sees which cards |
| table session | `backend/sessions/session_manager.py` | the `GameState`, spectators, disconnect timers, the turn timer, delayed starts, seen request ids, caches | join, leave, disconnect, reconnect, sit out/in, rebuy, act, chat, sync |
| gateway | `backend/realtime/ws_router.py`, `ws_broadcaster.py` | one record per table and user | one coroutine per socket |
| session registry | `backend/session_registry.py` | table id to session | `get_or_create` |
| persistence | `backend/persistence/` | users, clubs, memberships, tables, player sessions, snapshots, summaries | one transaction per call in SQLite, dictionaries in memory |
| authentication | `backend/auth/`, `backend/api/auth_router.py` | one-time codes, in memory; users, in persistence | register, log in, request and verify a code |
| clubs, tables | `backend/clubs/`, `backend/tables/`, `backend/api/` | in persistence | create a club with its table, join one |
| application start | `backend/main.py`, `dev_seed.py` | the choice of the adapter | seeding the Admin account and, outside production, two demo users and their club |
| mobile client | `mobile/src/ws/SocketClient.ts`, `mobile/src/store/`, the table screen | the socket, its reconnect timer, a replica of the table | connect, reconnect, join again, apply messages |
| chat, stats, analytics | `backend/chat/`, `backend/stats/`, `backend/analytics/` | append-only | |
| simulation | `simulation/` | | scenarios that drive the server in tests |

How they interact. A client's socket is served by one coroutine of `ws_router`,
which registers the user with the broadcaster, turns each message into one call
of the table session, and at the end unregisters and calls `disconnect`. A
session call holds the session's lock from start to end. Inside it the session
calls the engine, replaces its `GameState` by the result, broadcasts the events,
arms timers and awaits one call of the persistence adapter after another. Three
kinds of asyncio tasks call back into the session under the same lock: the turn
timer, a disconnect timer per player, and the delayed start of the next hand.
HTTP handlers have no lock: they interleave at the calls of the adapter.

What is hard. At a table not the data races, which the lock excludes, but the
order of calls and tasks: the turn timer against the player who acts, the
disconnect timer against the player who returns, a leave, a sit-out or a rebuy
in the middle of a hand, the end of an old socket against the start of a new
one, an engine call that raises inside a task nobody watches, and the fact that
nothing happens at an idle table unless somebody thought of scheduling it. In
the engine it is the order of the steps at the end of a street, short stacks,
side pots, blinds that put players all in, and house rules. In what is written,
a call that raises in the middle of a handler, and a process that dies between
two of them. Over HTTP, what one handler read and another has changed since. On
the phone, everything that is lost with a socket, and timers that outlive it.

What makes each part correct:

* pots: every chip is in one pot, a player can win what he paid for, prizes add up;
* engine: chips are conserved, a street closes only even, the turn is with
  somebody who can and must act, folded and absent players are left alone, the
  button moves on;
* session: the chips of the table are those bought and not carried away, the
  timer that runs is the timer of the turn, hands end and the next one starts;
* gateway: a connected player has a socket, one that is gone has a timer or sits
  out, the broadcaster's record is a live socket of its user;
* persistence: with the lock free, the rows say what the table says, except for
  what a failed call accounts for;
* accounts and clubs: a name or a phone means one account, a code opens the door
  once, a club that was reported is complete, no membership is lost;
* client: one way back to the table at a time, the banner is true, who is
  connected has his seat, and the screen catches up with the table.

`PROJECT.json` lists the hazards of the code one by one, each with the line
where it bites and the properties that would catch it.

## 2. The modules

| module | models | composed of |
|---|---|---|
| `PotCalculator` | the pot calculator, as operators | |
| `SidePots` | a driver that pays and folds, and a reference definition | `PotCalculator` |
| `PokerEngine` | the engine, the validator and the house rules, as operators | `PotCalculator` |
| `HandPlay` | a table of fixed players that plays hand after hand | `PokerEngine` |
| `TableSession` | the table session | `PokerEngine` |
| `SeatLease` | abstract specification: what a seat promises its player | |
| `Gateway` | sockets, broadcaster, and the connection side of the session | refines `SeatLease` |
| `TableStore` | what the table session writes, call by call | |
| `Accounts` | accounts, codes, clubs and their tables, over both adapters | |
| `TableClient` | the phone's socket, store and table screen, with the server's end of the connection | |
| `EngineLemmas` | lemmas about sums, folds, pots and engine calls | `PokerEngine` |
| `SidePotsProofs`, `HandPlayProofs`, `SessionProofs` | theorems | the module they name and `EngineLemmas` |
| `GatewayProofs`, `TableStoreProofs`, `AccountsProofs`, `TableClientProofs` | theorems | the module they name |
| `MC...` | the model values of the runs | the module they name |

**PokerEngine.** An engine call is an operator on a game-state record that
returns the set of states the call may return: the empty set when the code
raises, more than one only for `StartHand`, where the deck is shuffled. The
caller keeps its old state when the set is empty, as the code does, because the
engine works on a deep copy. The deck is fixed by the shuffle and comes off its
top, so the order of the hands at the showdown is decided at the deal: a
player's cards are a rank and, for the two rules that look at the holding, a
kind. `seat_map` is the inverse of the players' seats. The order of the players
dict is kept (`order`, `start_order`), since it decides who gets an odd chip.
A finished hand keeps only its dealer, the one field of it that is read later;
`timeout_count` stops at the threshold, the only number it is compared with.
The set of reachable states of the operators was compared with that of the
Python engine by breadth-first search over the same inputs; they agree.

**HandPlay** has one action per engine call: `Deal`, `Act(u)` and `Timeout`.

**TableSession** has one action per public call of `TableSessionManager` and
per task: `TakeSeat`, `Reconnect`, `Disconnect`, `Leave`, `SitOut`, `SitIn`,
`Rebuy`, `Act`; `TurnTimer`, `ReserveTimer`, `StartTask`. Each is the whole
critical section, with the dispatch of the engine's events (`Dispatch`: which
timer is armed, whether the next hand is looked for) and the scheduling of the
next hand (`AfterMaybeStart`). `timer` is the seat the turn timer was armed
for, `reserve` the users whose disconnect timer runs, `pending` how many
delayed starts sleep. The rest is history: `bought` and `taken`, the chips that
came to the table and went; `raised`, whether the last delayed start had
`start_hand` raise, which the code only prints; `rejoined`, whether somebody has
sat down again in a hand he had left; `unseen`, whether a rebuy has made a player
ready and nothing has looked for the next hand since.

**Gateway** has the life of each socket (`Register`, `Unregister`, `Disconnect`;
the last two are separate steps because they are separate critical sections),
the messages that touch the connection state, and the two things the session
does by itself. Cards and bets are left out of it: what the engine does to a
seat's status is the action `EngineSitsOut`.

**SeatLease** has no sockets, flags or timers: the seat of a user is free, held,
reserved or lapsed, and five operations move it. `Gateway` implements it: its
`LeaseOf(u)` reads the lease off the seat, the connected flag, the reserve timer
and the status, and every step of the gateway is a step of one lease or of none.
The refinement is stated for the users who neither watch as spectators nor send
SIT_IN (`Lessees`); section 3 lists what the code does with the others.

**TableStore** is the same session seen from the database. A handler changes
`self._state` and then awaits the adapter; here the change is one action
(`Join`, `Act`, `TurnTimeout`, `Leave`, `SitOut`, `SitIn`, `Rebuy`,
`StartHand`), which leaves the rest of the handler as the sequence `todo`:
`save`, `delete`, `snapshot`, `summary`, which can raise, and `unseat`,
`sit_out`, `look` (for a next hand), which cannot. `Proceed` and `Commit` take
the first step, `Raise` loses it together with all that follows up to the end of
its try block (`catch`) or of the handler, `Crash` empties memory and keeps the
rows. While `todo` is not empty the lock is held. The hand is abstracted to what
an engine may make of it, since which rows are written depends on the phase, the
seats and the stacks only; it may end at its own deal (`Deals`, `Opened`), and
then the start task writes what the end of a hand writes. Sitting out takes the
place of ALL_IN, as the status does in the code. `owed` remembers the steps that did not take place,
`inherited` the rows an earlier process left, `moved` what moved the hand last.

**Accounts** has a slot per request under way and one action per call of the
adapter. Over SQLite any request may run between two calls; the in-memory
adapter never suspends, which `MayRun` expresses, so one module covers both.
`SaveUser` does what `INSERT OR REPLACE` does under the two partial unique
indexes: it deletes the rows it collides with. `MembersSaved` is the upsert of
SQLite or the object the dictionary is given. `Restart` drops requests and codes,
empties the dictionaries and seeds as `main.py` does: Admin always, the demo
users Alice and Bob and the Demo Club outside production, the one place where
the dictionaries are used (`settings` has the two values of `app_env`).

**TableClient** has the socket of the phone with its reconnect timer (`Connect`,
`Disconnect`, `OnOpen`, `OnClose`, `TimerFires`), the screen and the app's state
(`Focus`, `Blur`, `Retry`, `PickRole`, `Background`, `Foreground`), the store
(`Shown`, `Replies`), and the server's end of the same connection with a table
that deals hands. The two directions are queues that are lost when the
connection is cut, and each end notices in its own time. Cards are tagged with
the hand they belong to, so that a board that mixes two hands is told apart.

## 3. The runs

Bounds are named in the modules or are the sizes of the sets in the
configurations. Deadlock is not an error in any of the runs: a table at which
nobody acts, a server nobody calls, really stop.

| run | instance | states | shows |
|---|---|---|---|
| `pots` | 4 players, 0..3 chips each, 2 ranks | 61 thousand | pots and prizes against a definition by pairwise stakes |
| `hands` | 3 players, stacks of 4, 2 ranks, timeouts, straddle and seven-ten | 452 thousand | chips, even streets, bets, turn, table stakes, bystanders, button |
| `session_three` | 3 users on 3 seats who join, leave, sit down again, disconnect, come back, sit in, rebuy and go all in; stacks of 4, rebuys of 2, 12 chips | 743 thousand | the ledger of the table, contributions, the turn timer, hands closed to others, the next hand scheduled |
| `session_liveness` | 2 users, 8 chips, fair tasks, every bet, disconnects and sit-outs | 55 thousand | hands end, the next ones start |
| `gateway` | 3 users, 5 sockets, 2 seats, fair server | 97 thousand | sockets, timers and flags agree; the seats implement `SeatLease` |
| `store` | 2 players, 2 hands, one failing write, one crash | 2.1 million | rows, snapshot and summaries against the table |
| `accounts` | 2 requests at a time, either adapter, in production or not, one restart | 4.6 million | accounts, codes, clubs and memberships |
| `client` | 2 hands of 2 streets, 3 attempts, queues of 3 | 213 thousand | the way back to the table, the seat, the screen |

In `session_three` the users are interchangeable (`SYMMETRY`): they differ only
in the order in which they sit down, and the run checks invariants and one
property of steps, no liveness. Since the first timeout sits a player out there,
states that differ only in the counts of past timeouts are one (`VIEW AnyCount`).
The requests of `accounts` are interchangeable, too.

The bounds. `MaxPaid` caps the chips a player pays into the pots; `ChipBound` and
`MaxChips` the chips bought at a table; `TaskBound` the count of delayed starts;
`DropBound` the players who are gone at a time; `MaxHands` and `MaxStreets` the
hands and streets dealt; `MaxCrashes`, `MaxFailures` and `MaxRestarts` the
faults; `MaxUsers`, `MaxCodes` and `MaxClubs` the ids drawn, and `FewCodes` keeps
the demo user's phone to one code; `QueueBound` the messages under way when more
are caused (`MaxAttempts` is the code's own number of attempts, 3).

Why they are enough. Four players with three chips have three levels, two
side pots and odd chips. A stack of four small blinds is the smallest that
leaves room for a raise after the blinds; it makes blinds, calls, raises, short
all-ins and unequal stacks happen within a hand or two, and stacks diverge to
every split of the chips over the hands that follow. Three players are the
fewest that have a side pot, a bystander and a seat to skip; the two-player
runs have the heads-up blinds. Two sockets per user are what a race between an
old and a new one needs; a third user contends for the seats. `SitOutAfter`,
the number of timeouts in a row that sits a player out, is 3 in the code and in
the runs that end with a counterexample; in `hands` and `session_liveness` it is
2, which tells a first timeout from the last one, and in `session_three` 1, where
the sitting out matters and not the count. There a player checks or folds by his
timer and bets by going all in: what the ledger needs is hands with money of
players who leave, not every raise, which `hands` has. `TaskBound` saturates
the count of delayed starts: one task more than the bound finds what the last
one left, and returns. In `store`, two players make a hand, the second hand
meets what the first one left, and one failure and one crash are met in every
state and in either order; what more of them do is left to the proofs, which
have no bound. In `accounts`, two requests are what a race needs, and one name
and two phones, one of them a demo user's, make them race; the restart finds the
rows of both adapters. In
`client`, three messages are a new hand's two and one more, and a second hand is
what a board that was left over needs.

What the passing runs or their properties leave out on purpose, because a run of
its own shows it broken or because of a disagreement listed below:

* in `ChipLedger` and `ContributionsCoverBets`, what comes after a player has sat
  down again in a hand he had left (`rejoined`): the code then makes or loses
  chips. The run has these steps, and its other properties are about them too;
* in `session_liveness`, leaving and sitting in: a hand can lose all the players
  who can act, and then no call succeeds and no timer is left. Stacks are
  followed until the chips are with one player;
* in `NextHandScheduled`, players still ALL_IN from the last hand (run
  `next_hand_always`), a table at which the last delayed start had `start_hand`
  raise (`raised`; it takes three players), and a rebuy that made a player ready
  (`unseen`) at a table where `bonus_27` or a second seating had left him broke
  without a mark;
* in `NextHandLookedFor`, a search that a failed write took along (run
  `search_always_runs`);
* in `TurnHolderOwesOrSatOut`, a turn that rests on a player who has just been
  sat out (run `hand_always_ends`);
* `bonus_27` in `hands`, and in two properties of `Gateway` and in the refinement
  the users who also spectate (`Spectators`) or who send SIT_IN (`Returners`).

### Disagreements found

Each of these runs checks one sentence of the documentation or of a comment and
ends with a counterexample; `findings` in `PROJECT.json` quotes the sentence.

| run | what the counterexample shows |
|---|---|
| `hand_always_ends` | a third timeout closes the street, the same player opens the next and is sat out with the turn in his hands: his timer raises, no other is armed, and the hand stands still |
| `next_hand_always` | after an all-in nobody schedules the next hand, though both players have chips |
| `online_is_reachable` | of two sockets of a user the newer ends and takes the only record along; the older then joins the table, is connected, and hears nothing |
| `search_always_runs` | the save of a player's row raises at the end of a hand, and the search for the next hand is skipped |

The same models, and the reading that went into them, show more, which no run of
its own repeats. At the table:

* a fold raises when the last opponent was sat out by his third timeout and
  nobody is left to win, though `validator.py:82` calls it always legal; its root
  is that of `hand_always_ends`: `handle_timeout` applies the sit-out after
  `_advance` has moved the turn;
* the contribution of a player who leaves a hand and sits down again is computed
  from his new stack, and can be less than his bet (`game_engine.py:742-752`); the
  chips of the table are then more or fewer than were bought;
* a player who lost everything and rebuys between hands is still ALL_IN, so two
  players with chips stay without a hand (`session_manager.py:648`, the root of
  `next_hand_always`); and a rebuy looks for no next hand itself;
* a short all-in makes the next minimum raise smaller (`game_engine.py:257-261`,
  against the comment at 231);
* `start_hand` raises when the blinds put players all in, because only ACTIVE
  players are dealt cards (`game_engine.py:422-425`), and the delayed task that
  called it only prints the error (`session_manager.py:689`): nothing is
  scheduled after it;
* `bonus_27` takes chips from players who sit out or have folded
  (`builtin_rules.py:73-77`); one it breaks is not ALL_IN, so his rebuy makes him
  ready, and `rebuy` looks for no next hand (`session_manager.py:357-388`);
* a turn is left without a timer when the engine raises in the timer's task
  (`session_manager.py:595-614`);
* a seated user who joined as a spectator as well stays connected after his
  last socket is gone: `disconnect` drops the spectator and returns
  (`session_manager.py:279-283`);
* SIT_IN from a socket that is still being served brings back a player whose
  disconnect timer has run out (`session_manager.py:334-355`).

In what is written:

* a street that the turn timer, a leave or a sitting out opens is not in the
  snapshot (`session_manager.py:541-571`; the timer's task, `:623`, has cancelled
  itself by then, `:617`): `StreetPersisted` is about the moves of clients only;
* a crash between the two transactions of `create_club` leaves a club without a
  table (`clubs_router.py:137`); it was not reported to anybody;
* the history of a table comes oldest first and from the start in SQLite
  (`ORDER BY ... ASC LIMIT`, `sqlite_adapter.py:431`), the newest in memory;
* of two registrations that race for a username none is refused over SQLite, and
  the later row replaces the earlier account, whose token then belongs to nobody
  (`service.py:18` says a taken name raises, the save is an `INSERT OR REPLACE`);
* a crash within the migration of the users table leaves the accounts in
  `_users_old` (`sqlite_adapter.py:165-182`).

In what is shown:

* a tap on an action names no turn, so one that was meant for an earlier turn of
  the same player is played in this one;
* `view_builder.py:74-86` never shows the cards of a FOLDED player, but a player
  who folds and then sits out or leaves is not FOLDED any more, and the end of a
  hand nobody contested shows cards too.

## 4. Fairness

Nothing is assumed of the clients: they may fall silent for ever. What is
assumed is that asyncio runs a task that is due. In `TableSession` that is
weak fairness of the turn timer, of each disconnect timer and of the delayed
start; in `Gateway` of the end of a `finally` block and of the disconnect timer.
The first and the last are written with the enabling condition spelled out
(`timer # NoSeat`, `pending > 0`: each is exactly "the task exists"), because
TLC is slow at ENABLED of an engine call; that of the disconnect timer is stated
of its end, whether it fires or is cancelled, which is equivalent. A task whose
engine call raises ends and leaves the state of the game alone, and nothing is
concluded from a call that never succeeds. `HandPlay` is checked without
fairness: its server's timer is the action `Timeout`, which may happen at any
turn.

In `TableClient` a timeout of the phone fires, an attempt to connect ends, in
`onopen` or in `onclose`, and the server's coroutine reaches the end of its
`finally` block. Neither the user nor the network is fair: `Settles` holds though
every attempt may fail, because the attempts are counted.

`TableStore` and `Accounts` are checked and proved without fairness: their
properties are about every point at which the process can stop.

## 5. Proofs

Every theorem is about all values of the constants that satisfy the assumption of
its module, which TLC evaluates in the run of that module, and about any number
of steps; where a bound is a constant (`MaxCrashes`, `MaxCodes`...) the theorem
holds for each of its values. Every invariant and every safety property of steps
that a passing run checks has its theorem, and so has the refinement; `theorems`
in `PROJECT.json` pairs them.

### The engine and the table

**EngineLemmas** says what the operators of `PotCalculator` and `PokerEngine`
return. Those are sums, folds and filters, and the induction theorems of the
library, which take the predicate as an operator, cannot be used with the provers
at hand. The first section restates induction over numbers and finite sets with a
*set* for the predicate (`NatSetInduction`, `SubsetsInduction`), and shows that a fold, which the community modules define by a recursive function,
unfolds one element at a time. The rest is built on it:

* sums: adding a member, comparing term by term, moving chips between two terms;
* pots: `CalculatePots` cuts the contributions into layers. The layers up to a
  level hold what everybody paid up to it (`Capped`); merging layers with the
  same eligible players keeps the chips (`Layered`, `AllFor`); `AwardPots` pays out
  the whole of each pot, odd chips included;
* engine calls: `InPlay` is a game state in which a hand is on, nobody shares a
  seat and every bet is covered by the stack its player started with. A call made
  in such a state returns one that is `Played`: either still `InPlay` with the same
  players, start stacks and dealer, or `Over`, with no hand and as many chips as
  the hand had. `StartHand` returns a state that has `Started` in the same sense.

Three things in the models were rewritten so that they could be reasoned about,
without changing what they compute: recursion became folds of the community
modules (`Filter`, `Ascending`), `StartHand` was cut into the parts of the code
it goes through (`MayStart`, `Reset`, `Deals`), and the guard of the task that
finds it raising got a name (`StartRaises`).

**SidePotsProofs** proves both properties of run `pots`. They are facts about
`CalculatePots` and `AwardPots`, so the inductive invariant only gives the
variables their types. That the pots agree with the stakes of each pair of players
is the sum, over the layers a player paid for, of what each opponent put in them.

**HandPlayProofs** proves the seven properties of run `hands`. `FullTable`: the
table is in order (`SoundTable` of `EngineLemmas`) and everybody is dealt in.
`HandOrdered` adds, while a hand is on, that the streets behind were closed even,
and that nobody who was dealt in has paid more for them than who can act (`EvenOn`) and that the turn is with a player who owes an action or with one his
last timeout sat out (`TurnDue`, `SatOutAtTurn`). The second is
what `_advance` relies on without saying: a round that goes on has somebody who
owes, because one that is complete is closed in the same call. `ButtonIs` says
that the button is a seat that was taken. The action properties follow from how
a step moves chips: it moves those of the player whose turn it is, or ends the
hand (`Went`), and then whoever wins gets from each opponent at most what both
put in (`MostWon`), which `TableStakes` bounds by the stacks. `TableStakes` and
`BystandersFrozen` exclude the house rule `bonus_27`: the bonus is paid from
outside the pot, by every seat whatever its status.

**SessionProofs** proves the safety properties of run `session_three`, for any
requests and house rules, with players who come, go and sit down again.
`SessionInv`: the table is in order and holds `bought - taken` chips, connections
and disconnect timers are of seated players, the turn timer is that of the turn.
What a hand holds is counted by the stacks it was started with, so a leaver takes
nothing out of it that is not accounted for, and a late joiner brings nothing in.
It holds until somebody sits down again in a hand he has left (`rejoined`), from
where the code makes and loses chips (section 3); `TypeOK`, `ChipLedger` and
`ContributionsCoverBets` follow from it, up to that step.

Two invariants hold for ever, since they know no amounts. `TimerInv`: the timer
that runs is that of the turn. `TableInv`: the state has its shape (`Shaped`), it is
as an engine call leaves it or no hand was ever dealt (`Fits`), and two connected
players who are ready have a task, or `start_hand` has raised, or a rebuy was not
seen (`Scheduled` with `raised \/ unseen`). A step either ends in a look
(`LookSchedules`), or leaves a hand on, or makes nobody ready (`FewerScheduled`),
or is a rebuy. `EveryStep` keeps `TableInv` and shows at the same time that a step
within a hand lets nobody in, which is `HandIsClosed`.

`NextHandScheduled` says besides when a rebuy can go unseen: `SolventInv` is
`SessionInv` with `unseen = FALSE` and with every player who has no chips marked,
ALL_IN or sitting out (`Solvent`), and it is kept as long as nobody sits down again
in a hand he has left and `bonus_27`, which can break a player who has folded, is
not played. The disjunct `raised` is needed: with stacks of 1, 1 and 10
small blinds both blinds are all in, the third is dealt the only cards, a pot has
no contender, `start_hand` raises, and no task is left.

### The connection and what is written

**GatewayProofs** proves the invariants of run `gateway` and
`NoForgottenSeat`, the safety half of the liveness property `GoneIsSatOut`: a
seat whose player is gone has a timer or sits out. The inductive invariant `IInv`
is their conjunction: they need no strengthening beyond the type invariant, whose
parts `reserve \subseteq seated` and
`spectating \subseteq Spectators` are used (a seat just taken has no timer; only
somebody who may spectate can give up the entry of a spectator). `InitIInv` and
`StepIInv` are the two halves of the induction, the second with one step per
action and, below it, one per conjunct.

Its second part proves that `Gateway` implements `SeatLease` (`Refinement`). The
argument: `IInv` says that an offline seat is reserved or lapsed, so the lease is
always one of the four values; each action changes the flags of one user
(`OneLease`), from one value to another that an operation of the lease allows
(`LeaseStep`); the limit of the table bounds the leases too, for which
`WithinLimit`, a theorem of its own, is proved by counting seats.

**AccountsProofs** has one inductive invariant per property. `OtpInv`: codes
accepted and codes outstanding together are no more than those sent. `ClubInv`:
a request that is about to save a table or a member carries a club that is
saved. `RowInv`: no two rows
share a name or a phone, over SQLite because a save displaces the rows it
collides with, over the dictionaries because a request that has found nobody
runs alone until it has saved (`Alone`, `StillFree`). `MemberInv`: over the
dictionaries the copy a request carries holds every member there is. `OwnerInv`:
the owner of a club that was created is the Admin row, which has no phone and
which no other save can displace, and that of the demo club is Alice, whose phone
no request is about to save (`AliceStays`); `StartKeepsOwners` is what the seeding
of a start makes of the rows it finds. `TypeInv`
is the type invariant with what it needs of the requests under way.

**TableStoreProofs** proves the properties of run `store`. Each says "it is
written, or its write has failed", which does not hold in the middle of a
handler; `StoreInv` adds the third case, "or it is still to do". That is
inductive only with the order of what is to do: a failure drops steps from the
front up to a `catch`, so `Ordered` says that the steps which change the seats
come last, each next to the write that follows it, and that no row is deleted
under a seat. `BeginKeeps` is the common part of all handlers: what a change of
the state makes due is among the steps the handler leaves, or was due before.
With the lock free nothing is to do, and the properties follow.

**TableClientProofs** proves the safety properties of run `client`. For
`OneWayBack`, `WayInv` adds the ranges of the counters and that a socket or a
timeout is there only while it is wanted (`Wanted`); for `BackInSeat`, `SeatInv`
adds that over a live connection an offline seat has a JOIN on its way
(`JoinUnderWay`). For `ViewCatchesUp` the question is what the screen *will* show:
`Shows(w, v, q)` says that `w` is the sequence of views that the queue `q` leads
to from the view `v`, and `ViewInv` that, while an end of the server listens to a
seated player, a request for the state is on its way to it, or the news of a new
hand, which causes one, or the messages on their way to the phone lead to the
table as it is (`Fresh`).

### Only model-checked

Liveness under fairness is out of the provers' reach: `HandEnds`, `NextHandStarts`,
`GoneIsSatOut` (whose safety half is proved) and `Settles` are properties of runs
only. What a recursive definition computes for every input cannot be proved either,
but none is left in the models.

## 6. Not modelled, and the plan

Not modelled yet, in the order in which it is planned:

1. the window of request ids, and what a retry of a refused action meets;
2. who sees which cards (`view_builder.py`), for every way out of a hand;
3. the migrations of the SQLite schema, with a crash between their statements;
4. stacks, bets and labels in the replica of the phone.

Planned theorems: that a `TableSession` on which nobody comes or goes is a
`HandPlay`, so that the even streets and the turn of the second carry over to the
first; the safety halves of `HandEnds` and `NextHandStarts` (whenever a turn is on
and its holder can act, a timer runs for it).

Left out for good: wording of events, the fields of message schemas, layout of screens,
chat, statistics and analytics (append-only, nothing reads them back to decide
anything), `tables_router.py` (it only reads), the ranking of five cards (a
function without state), passwords and hashes, wiring and test drivers.
