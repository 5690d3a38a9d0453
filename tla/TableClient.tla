---------------------------- MODULE TableClient ----------------------------
(***************************************************************************)
(* The phone's side of a table: the socket with its reconnect timer        *)
(* (mobile/src/ws/SocketClient.ts), the store that turns the server's      *)
(* messages into what the screen shows (mobile/src/store/tableStore.ts)    *)
(* and the screen that joins again after a reconnect                       *)
(* (mobile/app/(app)/table/[tableId].tsx), against the server's end of the *)
(* same connection.  One user, who joins as a player.                      *)
(*                                                                         *)
(* A WebSocket keeps order and neither repeats nor loses, until it is cut: *)
(* then what is on the way is lost, the server notices, and the client     *)
(* notices, each in its own time.                                          *)
(*                                                                         *)
(* Left out: the server reads a new socket only when it is through with    *)
(* the last one (Gateway has their race); stacks, bets, labels, chat, and  *)
(* the deadlines.  Cards are counted by street and tagged by hand.         *)
(***************************************************************************)
EXTENDS Naturals, Sequences

CONSTANTS
    MaxAttempts,    \* BACKOFF_DELAYS_MS.length
    MaxHands,       \* BOUND on the hands dealt
    MaxStreets,     \* BOUND on the streets of a hand that bring cards
    QueueBound      \* BOUND on the messages under way when more are caused

ASSUME ClientAssumption ==
    /\ MaxAttempts \in Nat \ {0} /\ MaxHands \in Nat
    /\ MaxStreets \in Nat /\ QueueBound \in Nat \ {0}

VARIABLES
    sock,       \* SocketClient.ws: "none", "connecting" or "open"
    retry,      \* shouldReconnect
    attempt,    \* reconnectAttempt
    timers,     \* reconnect timeouts that are pending
    status,     \* connectionStatus
    focused,    \* the table screen has focus: the store has a savedTableId
    active,     \* the app is in the foreground
    joined,     \* the role picker: "no", "asked" or "yes" (joinedRole is set)
    view,       \* gameState: what the screen shows of the hand, NoView if null
    link,       \* the server's end: "down", "accepted", "up" or "closing"
    up, down,   \* messages under way to and from the server
    seat,       \* the user's seat: "none", "online" or "offline"
    table       \* the hand as the server has it

client == <<sock, retry, attempt, timers, status, focused, active, joined, view>>
server == <<link, seat, table>>
vars == <<sock, retry, attempt, timers, status, focused, active, joined, view,
          link, up, down, seat, table>>

Me == "me"
Players == {Me, "other"}
NoActor == "none"
NoView == [hand |-> 0, board |-> <<>>, actor |-> NoActor]   \* current_hand: null

-----------------------------------------------------------------------------
(* SocketClient *)

\* send: nothing happens when the socket is not open, and what goes to an end
\* the server has closed is lost.
Sent(messages) == IF sock = "open" /\ link \in {"accepted", "up"} THEN up \o messages ELSE up

\* A socket that goes takes what is under way with it.
Hang == /\ link' = IF link = "down" THEN "down" ELSE "closing"
        /\ up' = <<>> /\ down' = <<>>

\* _openSocket, where the attempts stand at n: an older socket is closed.
OpenSocket(n) ==
    /\ sock' = "connecting"
    /\ status' = IF n = 0 THEN "connecting" ELSE "reconnecting"
    /\ attempt' = n
    /\ IF sock = "none" THEN UNCHANGED <<link, up, down>> ELSE Hang

\* connect: a pending timeout is left alone
Connect == retry' = TRUE /\ OpenSocket(0) /\ UNCHANGED timers

\* disconnect
Disconnect ==
    /\ retry' = FALSE /\ sock' = "none" /\ status' = "disconnected"
    /\ timers' = IF timers = 0 THEN 0 ELSE timers - 1
    /\ UNCHANGED attempt
    /\ IF sock = "none" THEN UNCHANGED <<link, up, down>> ELSE Hang

\* Mutation of OnOpen: the screen asks for the state without joining.
OnOpen_NoJoin ==
    /\ sock = "connecting" /\ link = "down"
    /\ sock' = "open" /\ link' = "accepted"
    /\ attempt' = 0 /\ status' = "connected"
    /\ joined' = IF joined = "no" THEN "asked" ELSE joined
    /\ up' = IF joined = "yes" THEN <<"SYNC">> ELSE <<>>
    /\ UNCHANGED <<retry, timers, focused, active, view, down, seat, table>>

\* onopen: the attempts count from zero again, the screen shows the role picker
\* the first time, and joins and asks for the state each later time
OnOpen ==
    /\ sock = "connecting" /\ link = "down"
    /\ sock' = "open" /\ link' = "accepted"
    /\ attempt' = 0 /\ status' = "connected"
    /\ joined' = IF joined = "no" THEN "asked" ELSE joined
    /\ up' = IF joined = "yes" THEN <<"JOIN", "SYNC">> ELSE <<>>
    /\ UNCHANGED <<retry, timers, focused, active, view, down, seat, table>>

\* Mutation of OnClose: the last attempt is followed by silence.
OnClose_NeverFails ==
    /\ sock = "connecting" \/ (sock = "open" /\ link \in {"closing", "down"})
    /\ sock' = "none"
    /\ IF attempt >= MaxAttempts
       THEN UNCHANGED <<attempt, timers, status>>
       ELSE attempt' = attempt + 1 /\ timers' = timers + 1 /\ status' = "reconnecting"
    /\ UNCHANGED <<retry, focused, active, joined, view, link, up, down, seat, table>>

\* Mutation of OnClose: the attempts are counted one too far.
OnClose_OneMore ==
    /\ sock = "connecting" \/ (sock = "open" /\ link \in {"closing", "down"})
    /\ sock' = "none"
    /\ IF attempt > MaxAttempts
       THEN status' = "failed" /\ UNCHANGED <<attempt, timers>>
       ELSE attempt' = attempt + 1 /\ timers' = timers + 1 /\ status' = "reconnecting"
    /\ UNCHANGED <<retry, focused, active, joined, view, link, up, down, seat, table>>

\* onclose, of an attempt that failed or a socket that was cut, and
\* _scheduleReconnect: a timeout, or "failed" after the last attempt
OnClose ==
    /\ sock = "connecting" \/ (sock = "open" /\ link \in {"closing", "down"})
    /\ sock' = "none"
    /\ IF attempt >= MaxAttempts
       THEN status' = "failed" /\ UNCHANGED <<attempt, timers>>
       ELSE attempt' = attempt + 1 /\ timers' = timers + 1 /\ status' = "reconnecting"
    /\ UNCHANGED <<retry, focused, active, joined, view, link, up, down, seat, table>>

\* The timeout of _scheduleReconnect
TimerFires ==
    /\ timers > 0
    /\ timers' = timers - 1
    /\ IF retry THEN OpenSocket(attempt) ELSE UNCHANGED <<sock, attempt, status, link, up, down>>
    /\ UNCHANGED <<retry, focused, active, joined, view, seat, table>>

-----------------------------------------------------------------------------
(* The screen and the app's state *)

\* useFocusEffect: the screen connects when it gets the focus
Focus ==
    /\ active /\ ~focused /\ focused' = TRUE
    /\ Connect
    /\ UNCHANGED <<active, joined, view, seat, table>>

\* ... and disconnects when it loses it, and the store forgets the table; a
\* screen that is unmounted forgets the role too
Blur ==
    /\ active /\ focused /\ focused' = FALSE
    /\ Disconnect
    /\ view' = NoView
    /\ joined' \in {joined, "no"}
    /\ UNCHANGED <<active, seat, table>>

\* ConnectionBanner: the button is there when the attempts are used up
Retry ==
    /\ active /\ focused /\ status = "failed"
    /\ Connect
    /\ UNCHANGED <<focused, active, joined, view, seat, table>>

\* handleRoleSelect: the message is dropped if the socket is gone by now
PickRole ==
    /\ active /\ focused /\ joined = "asked"
    /\ joined' = "yes"
    /\ up' = Sent(<<"JOIN">>)
    /\ UNCHANGED <<sock, retry, attempt, timers, status, focused, active, view, down, server>>

\* AppState "background"
Background ==
    /\ active /\ active' = FALSE
    /\ Disconnect
    /\ UNCHANGED <<focused, joined, view, seat, table>>

\* Mutation of Foreground: whatever is not connected is connected anew.
Foreground_Always ==
    /\ active' = TRUE
    /\ Len(up) < QueueBound
    /\ IF focused /\ status # "connected"
       THEN Connect
       ELSE /\ up' = IF focused /\ status = "connected" THEN Sent(<<"SYNC">>) ELSE up
            /\ UNCHANGED <<sock, retry, attempt, timers, status, link, down>>
    /\ UNCHANGED <<focused, joined, view, seat, table>>

\* AppState "active", also from "inactive", where the socket was kept
Foreground ==
    /\ active' = TRUE
    /\ Len(up) < QueueBound
    /\ IF focused /\ status = "disconnected"
       THEN Connect
       ELSE /\ up' = IF focused /\ status = "connected" THEN Sent(<<"SYNC">>) ELSE up
            /\ UNCHANGED <<sock, retry, attempt, timers, status, link, down>>
    /\ UNCHANGED <<focused, joined, view, seat, table>>

-----------------------------------------------------------------------------
(* The store: socketClient.onMessage *)

Snapshot == [type |-> "snapshot", hand |-> table.hand, actor |-> table.actor,
             board |-> [i \in 1 .. table.street |-> table.hand]]
Turn(u)  == [type |-> "turn", actor |-> u]
Phase(p) == [type |-> "phase", phase |-> p]
Cards(n) == [type |-> "cards", cards |-> [i \in 1 .. n |-> table.hand]]

\* A snapshot replaces everything that is shown.
FromSnapshot(m) == [hand |-> m.hand, board |-> m.board, actor |-> m.actor]

\* Mutation of Shown: the board of a new street replaces the older cards.
Shown_NoAppend(v, m) ==
    IF m.type = "snapshot" THEN FromSnapshot(m)
    ELSE IF v.hand = 0 THEN v
    ELSE CASE m.type = "turn"  -> [v EXCEPT !.actor = m.actor]
           [] m.type = "phase" -> [v EXCEPT !.actor = NoActor]
           [] m.type = "cards" -> [v EXCEPT !.board = m.cards]

\* What the screen shows after message m if it shows v: all but the snapshot
\* change the hand that is shown, and nothing when none is.  New cards are
\* appended to what is there, even to the board of the hand before.
Shown(v, m) ==
    IF m.type = "snapshot" THEN FromSnapshot(m)
    ELSE IF v.hand = 0 THEN v
    ELSE CASE m.type = "turn"  -> [v EXCEPT !.actor = m.actor]
           [] m.type = "phase" -> [v EXCEPT !.actor = NoActor]
           [] m.type = "cards" -> [v EXCEPT !.board = @ \o m.cards]

\* What it sends: a new hand is fetched, since no other message names it
Replies(m) == IF m = Phase("PRE_FLOP") THEN <<"SYNC">> ELSE <<>>

ClientReceives ==
    /\ sock = "open" /\ down # <<>>
    /\ down' = Tail(down)
    /\ view' = Shown(view, Head(down))
    /\ up' = Sent(Replies(Head(down)))
    /\ UNCHANGED <<sock, retry, attempt, timers, status, focused, active, joined, server>>

-----------------------------------------------------------------------------
(* The server's end *)

\* Broadcasts and replies go to the socket that is registered, if any.
Emitted(messages) == IF link = "up" THEN down \o messages ELSE down

\* ws_router: from accept to broadcaster.register, and the finally block
RegisterLink ==
    /\ link = "accepted" /\ link' = "up"
    /\ UNCHANGED <<client, up, down, seat, table>>

Finally ==
    /\ link = "closing" /\ link' = "down"
    /\ seat' = IF seat = "online" THEN "offline" ELSE seat
    /\ UNCHANGED <<client, up, down, table>>

\* JOIN_TABLE seats the player, or welcomes him back, or finds the table full;
\* SYNC_REQUEST is answered to who has a seat.  Both send the state as it is.
ServerReceives ==
    /\ link = "up" /\ up # <<>> /\ Len(down) < QueueBound
    /\ up' = Tail(up)
    /\ \/ /\ Head(up) = "JOIN"
          /\ seat' = "online"
          /\ down' = Emitted(<<Snapshot>>)
       \/ /\ Head(up) = "JOIN" /\ seat = "none"
          /\ UNCHANGED <<seat, down>>
       \/ /\ Head(up) = "SYNC"
          /\ down' = IF seat # "none" THEN Emitted(<<Snapshot>>) ELSE down
          /\ UNCHANGED seat
    /\ UNCHANGED <<client, link, table>>

\* What the table does under its lock, with the messages of _dispatch_events in
\* the order of the engine's events.
Move(t, messages) ==
    /\ Len(down) < QueueBound
    /\ table' = t
    /\ down' = Emitted(messages)
    /\ UNCHANGED <<client, up, link, seat>>

Actors == IF seat = "none" THEN Players \ {Me} ELSE Players

StartHand ==
    /\ table.actor = NoActor /\ table.hand < MaxHands
    /\ \E u \in Actors : Move([hand |-> table.hand + 1, street |-> 0, actor |-> u],
                              <<Phase("PRE_FLOP"), Turn(u)>>)

PassTurn ==
    /\ table.actor # NoActor
    /\ \E u \in Actors : Move([table EXCEPT !.actor = u], <<Turn(u)>>)

DealStreet ==
    /\ table.actor # NoActor /\ table.street < MaxStreets
    /\ \E u \in Actors : Move([table EXCEPT !.street = @ + 1, !.actor = u],
                              <<Cards(1), Phase("street"), Turn(u)>>)

\* With or without the rest of the board
EndHand ==
    /\ table.actor # NoActor
    /\ \E n \in {0, MaxStreets - table.street} :
          Move([table EXCEPT !.street = @ + n, !.actor = NoActor],
               (IF n = 0 THEN <<>> ELSE <<Cards(n)>>) \o <<Phase("HAND_END")>>)

\* The connection is cut; neither end knows yet.
Cut ==
    /\ link \in {"accepted", "up"}
    /\ Hang
    /\ UNCHANGED <<client, seat, table>>

-----------------------------------------------------------------------------
Init ==
    /\ sock = "none" /\ retry = FALSE /\ attempt = 0 /\ timers = 0
    /\ status = "disconnected" /\ focused = FALSE /\ active = TRUE
    /\ joined = "no" /\ view = NoView
    /\ link = "down" /\ up = <<>> /\ down = <<>>
    /\ seat = "none" /\ table = [hand |-> 0, street |-> 0, actor |-> NoActor]

Phone == OnOpen \/ OnClose \/ TimerFires \/ ClientReceives
User == Focus \/ Blur \/ Retry \/ PickRole \/ Background \/ Foreground
Server == RegisterLink \/ Finally \/ ServerReceives
Table == StartHand \/ PassTurn \/ DealStreet \/ EndHand

Next == Phone \/ User \/ Server \/ Table \/ Cut

Spec == Init /\ [][Next]_vars

\* Timeouts fire, an attempt to connect succeeds or fails, and the server's
\* coroutine runs.  Nothing is assumed of the user or the network.
FairSpec ==
    /\ Spec
    /\ WF_vars(TimerFires) /\ WF_vars(OnOpen \/ OnClose) /\ WF_vars(Finally)

-----------------------------------------------------------------------------
(* Properties *)

Hands == 0 .. MaxHands
Messages == [type : {"turn"}, actor : Players]
            \cup [type : {"phase"}, phase : {"PRE_FLOP", "street", "HAND_END"}]
            \cup [type : {"cards"}, cards : Seq(Hands)]
            \cup [type : {"snapshot"}, hand : Hands, board : Seq(Hands),
                  actor : Players \cup {NoActor}]

TypeOK ==
    /\ sock \in {"none", "connecting", "open"}
    /\ retry \in BOOLEAN /\ attempt \in 0 .. MaxAttempts /\ timers \in Nat
    /\ status \in {"disconnected", "connecting", "connected", "reconnecting", "failed"}
    /\ focused \in BOOLEAN /\ active \in BOOLEAN /\ joined \in {"no", "asked", "yes"}
    /\ view \in [hand : Hands, board : Seq(Hands), actor : Players \cup {NoActor}]
    /\ link \in {"down", "accepted", "up", "closing"}
    /\ up \in Seq({"JOIN", "SYNC"}) /\ down \in Seq(Messages)
    /\ seat \in {"none", "online", "offline"}
    /\ table \in [hand : Hands, street : 0 .. MaxStreets, actor : Players \cup {NoActor}]

\* There is at most one way back to the table, and the banner tells which.  A
\* socket and a pending timeout exclude each other: connect does not clear the
\* timeout (SocketClient.ts:26-32) but is only called where none is pending, as
\* a late one would close the socket that is in use.  And what the banner says,
\* and the code that asks for "connected", is true of the socket; where no way
\* back is open, the button or the app coming back offers one.
OneWay == timers + (IF sock = "none" THEN 0 ELSE 1) <= 1
StatusIsTrue ==
    /\ status = "connected" <=> sock = "open"
    /\ status \in {"connecting", "reconnecting"} <=>
           sock = "connecting" \/ (timers > 0 /\ retry)
    /\ ~(active /\ focused /\ status = "disconnected")
OneWayBack == OneWay /\ StatusIsTrue

\* Nothing is under way and the user has chosen his role.
Quiet == sock = "open" /\ link = "up" /\ up = <<>> /\ down = <<>> /\ joined = "yes"

\* A client that is connected has its seat back: after every cut, in whatever
\* state the join before it was lost, the player is online again and the
\* reserve of the seat is not used up while he looks at the table.
BackInSeat == Quiet => seat # "offline"

\* The screen of a player who is online shows the hand, the whole board and
\* the turn as the server has them, whatever was lost with earlier sockets and
\* however the rest came: cards that were put on an old board are gone.
ViewCatchesUp ==
    Quiet /\ seat = "online" =>
        /\ view.hand = table.hand
        /\ view.board = [i \in 1 .. table.street |-> table.hand]
        /\ view.actor = table.actor

\* Whoever looks at the table is connected sooner or later, or is told that it
\* failed and can retry: the banner does not say "reconnecting" for ever.
Settles ==
    (focused /\ active) ~> (status \in {"connected", "failed"} \/ ~focused \/ ~active)
=============================================================================
