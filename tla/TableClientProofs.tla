------------------------- MODULE TableClientProofs -------------------------
(***************************************************************************)
(* TableClient for any number of attempts, hands and streets: there is one *)
(* way back to the table, a client that is connected has its seat, and its *)
(* screen shows the table.                                                 *)
(*                                                                         *)
(* OneWayBack needs to be told why a timeout and connect() never meet: a   *)
(* screen without focus has neither socket nor timeout, and a timeout or a *)
(* socket is there only while the client wants to be connected.  BackInSeat *)
(* holds because a JOIN is under way whenever the server still has the     *)
(* seat down as offline.  ViewCatchesUp holds because there is always one  *)
(* of three ways to the right view: the state is being asked for, a new    *)
(* hand that will make the store ask for it is under way, or the messages  *)
(* under way lead from what is shown to what the table is.                 *)
(***************************************************************************)
EXTENDS TableClient, SequenceTheorems, TLAPS

-----------------------------------------------------------------------------
(* One way back *)

\* The ranges of the client's variables that the argument needs
Ranges ==
    /\ sock \in {"none", "connecting", "open"}
    /\ status \in {"disconnected", "connecting", "connected", "reconnecting", "failed"}
    /\ timers \in Nat /\ attempt \in 0 .. MaxAttempts

\* What a socket or a timeout is good for, and that no focus means neither
Wanted ==
    /\ sock # "none" \/ timers > 0 => retry
    /\ ~focused => sock = "none" /\ timers = 0

WayInv == Ranges /\ Wanted /\ OneWayBack

\* At first there is neither socket nor timeout, and no focus.
LEMMA InitWayInv == Init => WayInv
  <1> SUFFICES ASSUME Init PROVE WayInv
    OBVIOUS
  <1>1. Ranges
    BY ClientAssumption DEF Init, Ranges
  <1>2. Wanted
    BY DEF Init, Wanted
  <1>3. OneWay
    BY DEF Init, OneWay
  <1>4. StatusIsTrue
    BY DEF Init, StatusIsTrue
  <1> QED
    BY <1>1, <1>2, <1>3, <1>4 DEF WayInv, OneWayBack

\* connect(), where no timeout is pending, leaves a socket that connects.
LEMMA ConnectKeepsWay ==
    ASSUME WayInv, timers = 0, Connect, focused' = TRUE
    PROVE  WayInv'
  BY ClientAssumption
  DEF WayInv, Ranges, Wanted, OneWayBack, OneWay, StatusIsTrue, Connect, OpenSocket

\* disconnect() leaves neither; somebody must have looked away.
LEMMA DisconnectKeepsWay ==
    ASSUME WayInv, Disconnect, ~(active' /\ focused')
    PROVE  WayInv'
  <1>1. timers' = 0 /\ sock' = "none" /\ status' = "disconnected" /\ attempt' = attempt
    BY DEF WayInv, Ranges, OneWayBack, OneWay, Disconnect
  <1>2. Ranges'
    BY <1>1 DEF WayInv, Ranges, Disconnect
  <1>3. Wanted'
    BY <1>1 DEF Wanted
  <1>4. OneWay'
    BY <1>1 DEF OneWay
  <1>5. StatusIsTrue'
    BY <1>1 DEF StatusIsTrue
  <1> QED
    BY <1>2, <1>3, <1>4, <1>5 DEF WayInv, OneWayBack

\* A step that leaves the client's connection alone.
LEMMA OthersKeepWay ==
    ASSUME WayInv, UNCHANGED <<sock, retry, attempt, timers, status, focused, active>>
    PROVE  WayInv'
  BY DEF WayInv, Ranges, Wanted, OneWayBack, OneWay, StatusIsTrue

\* No step of the phone, its user or the server breaks it.
LEMMA StepWayInv == WayInv /\ [Next]_vars => WayInv'
  <1> SUFFICES ASSUME WayInv, [Next]_vars PROVE WayInv'
    OBVIOUS
  \* A socket that is there has no timeout beside it.
  <1>1. CASE OnOpen
    BY <1>1, ClientAssumption
    DEF OnOpen, WayInv, Ranges, Wanted, OneWayBack, OneWay, StatusIsTrue
  \* ... so the timeout that takes its place is the only one.
  <1>2. CASE OnClose
    <2>1. timers = 0 /\ retry /\ focused
      BY <1>2 DEF OnClose, WayInv, Ranges, Wanted, OneWayBack, OneWay
    <2>2. CASE attempt >= MaxAttempts
      BY <1>2, <2>1, <2>2
      DEF OnClose, WayInv, Ranges, Wanted, OneWayBack, OneWay, StatusIsTrue
    <2>3. CASE ~(attempt >= MaxAttempts)
      BY <1>2, <2>1, <2>3, ClientAssumption
      DEF OnClose, WayInv, Ranges, Wanted, OneWayBack, OneWay, StatusIsTrue
    <2> QED
      BY <2>2, <2>3
  \* The timeout was the only way, and the socket it opens takes its place.
  <1>3. CASE TimerFires
    BY <1>3
    DEF TimerFires, OpenSocket, WayInv, Ranges, Wanted, OneWayBack, OneWay, StatusIsTrue
  <1>4. CASE Focus
    BY <1>4, ConnectKeepsWay DEF Focus, WayInv, Ranges, Wanted
  <1>5. CASE Blur
    BY <1>5, DisconnectKeepsWay DEF Blur, WayInv, Ranges
  \* "failed" and "disconnected" are said only when no timeout is pending.
  <1>6. CASE Retry
    BY <1>6, ConnectKeepsWay
    DEF Retry, WayInv, Ranges, Wanted, OneWayBack, StatusIsTrue
  <1>7. CASE Background
    BY <1>7, DisconnectKeepsWay DEF Background, WayInv, Ranges
  <1>8. CASE Foreground
    <2>1. CASE focused /\ status = "disconnected"
      BY <1>8, <2>1, ConnectKeepsWay
      DEF Foreground, WayInv, Ranges, Wanted, OneWayBack, StatusIsTrue
    <2>2. CASE ~(focused /\ status = "disconnected")
      BY <1>8, <2>2
      DEF Foreground, WayInv, Ranges, Wanted, OneWayBack, OneWay, StatusIsTrue
    <2> QED
      BY <2>1, <2>2
  <1>9. CASE PickRole \/ ClientReceives
    BY <1>9, OthersKeepWay DEF PickRole, ClientReceives
  <1>10. CASE Server \/ Table \/ Cut \/ UNCHANGED vars
    BY <1>10, OthersKeepWay
    DEF Server, Table, RegisterLink, Finally, ServerReceives, StartHand, PassTurn,
        DealStreet, EndHand, Move, Cut, client, vars
  <1> QED
    BY <1>1, <1>2, <1>3, <1>4, <1>5, <1>6, <1>7, <1>8, <1>9, <1>10
    DEF Next, Phone, User

\* A socket and a reconnect timeout exclude each other, and the banner is true
\* (SocketClient.connect, _scheduleReconnect; the AppState listener).
THEOREM OneWay_Always == Spec => []OneWayBack
  <1>1. Init => WayInv
    BY InitWayInv
  <1>2. WayInv /\ [Next]_vars => WayInv'
    BY StepWayInv
  <1>3. WayInv => OneWayBack
    BY DEF WayInv
  <1> QED
    BY <1>1, <1>2, <1>3, PTL DEF Spec

-----------------------------------------------------------------------------
(* Back in the seat *)

\* Once the role is chosen, a seat that is offline has a JOIN on its way to an
\* end of the server that will read it.
JoinUnderWay ==
    sock = "open" /\ link \in {"accepted", "up"} /\ joined = "yes" =>
        seat # "offline" \/ \E i \in 1 .. Len(up) : up[i] = "JOIN"

SeatInv ==
    /\ up \in Seq({"JOIN", "SYNC"})
    /\ link \in {"down", "accepted", "up", "closing"}
    /\ JoinUnderWay

\* Nothing is chosen yet.
LEMMA InitSeatInv == Init => SeatInv
  BY DEF Init, SeatInv, JoinUnderWay

\* A message behind the others leaves them where they are.
LEMMA JoinStays ==
    ASSUME NEW q \in Seq({"JOIN", "SYNC"}), NEW r \in Seq({"JOIN", "SYNC"}),
           (\E i \in 1 .. Len(q) : q[i] = "JOIN") \/ (\E i \in 1 .. Len(r) : r[i] = "JOIN")
    PROVE  \E i \in 1 .. Len(q \o r) : (q \o r)[i] = "JOIN"
  <1>1. CASE \E i \in 1 .. Len(q) : q[i] = "JOIN"
    <2>1. PICK i \in 1 .. Len(q) : q[i] = "JOIN"
      BY <1>1
    <2>2. i \in 1 .. Len(q \o r) /\ (q \o r)[i] = "JOIN"
      BY <2>1
    <2> QED
      BY <2>2
  <1>2. CASE \E i \in 1 .. Len(r) : r[i] = "JOIN"
    <2>1. PICK i \in 1 .. Len(r) : r[i] = "JOIN"
      BY <1>2
    <2>2. Len(q) + i \in 1 .. Len(q \o r) /\ (q \o r)[Len(q) + i] = "JOIN"
      BY <2>1
    <2> QED
      BY <2>2
  <1> QED
    BY <1>1, <1>2

\* Sending keeps a JOIN that is under way.
LEMMA SentKeepsSeat ==
    ASSUME SeatInv, NEW r \in Seq({"JOIN", "SYNC"}), up' = Sent(r),
           UNCHANGED <<sock, link, joined, seat>>
    PROVE  SeatInv'
  BY JoinStays DEF SeatInv, JoinUnderWay, Sent

\* A cut or a closed socket: nobody will read what was under way.
LEMMA HungKeepsSeat ==
    ASSUME SeatInv, link' \in {"down", "closing"}, up' \in Seq({"JOIN", "SYNC"})
    PROVE  SeatInv'
  BY DEF SeatInv, JoinUnderWay

\* No step breaks it: the JOIN goes when it has brought the seat back.
LEMMA StepSeatInv == SeatInv /\ [Next]_vars => SeatInv'
  <1> SUFFICES ASSUME SeatInv, [Next]_vars PROVE SeatInv'
    OBVIOUS
  <1> DEFINE M == {"JOIN", "SYNC"}
  <1>0. <<>> \in Seq(M) /\ <<"JOIN">> \in Seq(M) /\ <<"SYNC">> \in Seq(M)
        /\ <<"JOIN", "SYNC">> \in Seq(M)
    OBVIOUS
  \* The screen joins again at every later connection.
  <1>1. CASE OnOpen
    <2>1. up' \in Seq(M) /\ link' = "accepted"
      BY <1>0, <1>1 DEF OnOpen
    <2>2. CASE joined = "yes"
      <3>1. up' = <<"JOIN", "SYNC">>
        BY <1>1, <2>2 DEF OnOpen
      <3>2. 1 \in 1 .. Len(up') /\ up'[1] = "JOIN"
        BY <3>1
      <3> QED
        BY <2>1, <3>2 DEF SeatInv, JoinUnderWay
    <2>3. CASE joined # "yes"
      <3>1. joined' # "yes"
        BY <1>1, <2>3 DEF OnOpen
      <3> QED
        BY <2>1, <3>1 DEF SeatInv, JoinUnderWay
    <2> QED
      BY <2>2, <2>3
  \* No socket is open after these.
  <1>2. CASE OnClose
    BY <1>2 DEF OnClose, SeatInv, JoinUnderWay
  <1>3. ASSUME sock' # "open", link' \in {"down", "accepted", "up", "closing"}, up' \in Seq(M)
        PROVE  SeatInv'
    BY <1>3 DEF SeatInv, JoinUnderWay
  <1>4. ASSUME NEW n, OpenSocket(n) PROVE SeatInv'
    BY <1>0, <1>3, <1>4 DEF OpenSocket, Hang, SeatInv
  <1>5. CASE Disconnect
    BY <1>0, <1>3, <1>5 DEF Disconnect, Hang, SeatInv
  <1>6. CASE TimerFires
    BY <1>4, <1>6 DEF TimerFires, SeatInv, JoinUnderWay
  <1>7. CASE Focus \/ Retry
    BY <1>4, <1>7 DEF Focus, Retry, Connect
  <1>8. CASE Blur \/ Background
    BY <1>5, <1>8 DEF Blur, Background
  <1>9. CASE Foreground
    <2>1. CASE Connect
      BY <1>4, <2>1 DEF Connect
    <2>2. CASE ~Connect
      <3>1. /\ up' = Sent(<<"SYNC">>) \/ up' = up
            /\ UNCHANGED <<sock, link, joined, seat>>
        BY <1>9, <2>2 DEF Foreground
      <3> QED
        BY <1>0, <3>1, SentKeepsSeat DEF SeatInv, JoinUnderWay
    <2> QED
      BY <2>1, <2>2
  \* The choice of the role is sent, if anybody can hear it.
  <1>10. CASE PickRole
    <2>1. up' = Sent(<<"JOIN">>) /\ UNCHANGED <<sock, link, seat>>
      BY <1>10 DEF PickRole, server
    <2>2. up' \in Seq(M)
      <3>1. up \in Seq(M) /\ up \o <<"JOIN">> \in Seq(M)
        BY <1>0 DEF SeatInv
      <3>2. up' = up \o <<"JOIN">> \/ up' = up
        BY <2>1 DEF Sent
      <3> QED
        BY <3>1, <3>2
    <2>3. ASSUME sock = "open", link \in {"accepted", "up"}
          PROVE  \E i \in 1 .. Len(up') : up'[i] = "JOIN"
      <3>1. up' = up \o <<"JOIN">>
        BY <2>1, <2>3 DEF Sent
      <3>2. Len(up) + 1 \in 1 .. Len(up') /\ up'[Len(up) + 1] = "JOIN"
        BY <3>1 DEF SeatInv
      <3> QED
        BY <3>2
    <2> QED
      BY <2>1, <2>2, <2>3 DEF SeatInv, JoinUnderWay
  <1>11. CASE ClientReceives
    <2>1. PICK r \in Seq(M) : up' = Sent(r)
      BY <1>0, <1>11 DEF ClientReceives, Replies
    <2>2. UNCHANGED <<sock, link, joined, seat>>
      BY <1>11 DEF ClientReceives, server
    <2> QED
      BY <2>1, <2>2, SentKeepsSeat
  <1>12. CASE RegisterLink
    BY <1>12 DEF RegisterLink, client, SeatInv, JoinUnderWay
  \* The seat goes offline where no end of the server is left.
  <1>13. CASE Finally
    BY <1>13, HungKeepsSeat DEF Finally, SeatInv
  \* JOIN at the head brings the seat back; SYNC at the head leaves the others.
  <1>14. CASE ServerReceives
    <2>1. up # <<>> /\ up' = Tail(up) /\ UNCHANGED <<sock, joined, link>>
      BY <1>14 DEF ServerReceives, client
    <2>2. up' \in Seq(M)
      BY <2>1 DEF SeatInv
    <2>3. CASE Head(up) = "JOIN"
      <3>1. seat' # "offline"
        BY <1>14, <2>3 DEF ServerReceives
      <3> QED
        BY <2>1, <2>2, <3>1 DEF SeatInv, JoinUnderWay
    <2>4. CASE Head(up) = "SYNC"
      <3>1. seat' = seat
        BY <1>14, <2>4 DEF ServerReceives
      <3>2. ASSUME NEW i \in 1 .. Len(up), up[i] = "JOIN"
            PROVE  i - 1 \in 1 .. Len(up') /\ up'[i - 1] = "JOIN"
        BY <2>1, <2>4, <3>2 DEF SeatInv
      <3> QED
        BY <2>1, <2>2, <3>1, <3>2 DEF SeatInv, JoinUnderWay
    <2> QED
      BY <1>14, <2>3, <2>4 DEF ServerReceives
  <1>15. CASE Table
    BY <1>15 DEF Table, StartHand, PassTurn, DealStreet, EndHand, Move, client, SeatInv, JoinUnderWay
  <1>16. CASE Cut
    BY <1>0, <1>16, HungKeepsSeat DEF Cut, Hang
  <1>17. CASE UNCHANGED vars
    BY <1>17 DEF vars, SeatInv, JoinUnderWay
  <1> QED
    BY <1>1, <1>2, <1>6, <1>7, <1>8, <1>9, <1>10, <1>11, <1>12, <1>13, <1>14, <1>15,
       <1>16, <1>17 DEF Next, Phone, User, Server

\* A client with nothing under way has its seat back, however often and
\* wherever the connection was cut (the rejoin effect of the table screen).
THEOREM SeatComesBack == Spec => []BackInSeat
  <1>1. Init => SeatInv
    BY InitSeatInv
  <1>2. SeatInv /\ [Next]_vars => SeatInv'
    BY StepSeatInv
  <1>3. SeatInv => BackInSeat
    BY DEF SeatInv, JoinUnderWay, BackInSeat, Quiet
  <1> QED
    BY <1>1, <1>2, <1>3, PTL DEF Spec

-----------------------------------------------------------------------------
(* The view catches up *)

\* The hand as the screen should show it
ViewOf(t) == [hand |-> t.hand, board |-> [i \in 1 .. t.street |-> t.hand], actor |-> t.actor]

\* w is what the screen shows, from v on, after each message of q.
Shows(w, v, q) == w[0] = v /\ \A i \in 1 .. Len(q) : w[i] = Shown(w[i - 1], q[i])

\* An end of the server listens to a player who is online.
Playing == /\ sock = "open" /\ link \in {"accepted", "up"} /\ joined = "yes"
           /\ seat = "online"

\* The three ways in which the screen will come to show the table: the state is
\* being asked for, or will be when the new hand is heard of, or what is under
\* way leads there.
Fresh ==
    \/ up # <<>>
    \/ \E i \in 1 .. Len(down) : down[i] = Phase("PRE_FLOP")
    \/ \A w : Shows(w, view, down) => w[Len(down)] = ViewOf(table)

\* What the two ends know of each other
Linked ==
    /\ link \in {"accepted", "up"} => sock = "open"
    /\ link # "up" => down = <<>>
    /\ link = "accepted" /\ joined = "yes" => up # <<>>
    /\ table.hand = 0 => table.actor = NoActor

ViewTypes ==
    /\ view \in [hand : Hands, board : Seq(Hands), actor : Players \cup {NoActor}]
    /\ up \in Seq({"JOIN", "SYNC"}) /\ down \in Seq(Messages)
    /\ table \in [hand : Hands, street : 0 .. MaxStreets, actor : Players \cup {NoActor}]
    /\ link \in {"down", "accepted", "up", "closing"}

ViewInv == ViewTypes /\ Linked /\ (Playing => Fresh)

\* The same card n times over is a board.
LEMMA CardsAreABoard ==
    ASSUME NEW n \in Nat, NEW h \in Hands
    PROVE  [i \in 1 .. n |-> h] \in Seq(Hands)
  OBVIOUS

\* What each kind of message is
LEMMA MessageTypes ==
    ASSUME ViewTypes
    PROVE  /\ Snapshot \in Messages
           /\ \A u \in Players : Turn(u) \in Messages
           /\ \A p \in {"PRE_FLOP", "street", "HAND_END"} : Phase(p) \in Messages
           /\ \A n \in Nat : Cards(n) \in Messages
  <1>1. table.hand \in Hands /\ table.street \in Nat /\ table.actor \in Players \cup {NoActor}
    BY ClientAssumption DEF ViewTypes
  <1>2. \A n \in Nat : [i \in 1 .. n |-> table.hand] \in Seq(Hands)
    BY <1>1, CardsAreABoard
  <1>3. Snapshot \in Messages
    BY <1>1, <1>2 DEF Snapshot, Messages
  <1>4. \A u \in Players : Turn(u) \in Messages
    BY DEF Turn, Messages
  <1>5. \A p \in {"PRE_FLOP", "street", "HAND_END"} : Phase(p) \in Messages
    BY DEF Phase, Messages
  <1>6. \A n \in Nat : Cards(n) \in Messages
    BY <1>2 DEF Cards, Messages
  <1> QED
    BY <1>3, <1>4, <1>5, <1>6

\* What is shown stays a view.
LEMMA ShownIsAView ==
    ASSUME NEW v \in [hand : Hands, board : Seq(Hands), actor : Players \cup {NoActor}],
           NEW m \in Messages
    PROVE  Shown(v, m) \in [hand : Hands, board : Seq(Hands), actor : Players \cup {NoActor}]
  <1>1. CASE m.type = "snapshot"
    <2>1. m \in [type : {"snapshot"}, hand : Hands, board : Seq(Hands),
                 actor : Players \cup {NoActor}]
      BY <1>1 DEF Messages
    <2> QED
      BY <1>1, <2>1 DEF Shown, FromSnapshot
  <1>2. CASE m.type # "snapshot" /\ v.hand = 0
    BY <1>2 DEF Shown
  <1>3. CASE m.type = "turn" /\ v.hand # 0
    <2>1. m.actor \in Players
      BY <1>3 DEF Messages
    <2> QED
      BY <1>3, <2>1 DEF Shown
  <1>4. CASE m.type = "phase" /\ v.hand # 0
    BY <1>4 DEF Shown
  <1>5. CASE m.type = "cards" /\ v.hand # 0
    <2>1. m.cards \in Seq(Hands)
      BY <1>5 DEF Messages
    <2>2. v.board \o m.cards \in Seq(Hands)
      BY <2>1
    <2> QED
      BY <1>5, <2>2 DEF Shown
  <1> QED
    BY <1>1, <1>2, <1>3, <1>4, <1>5 DEF Messages

\* Messages behind those that are under way are shown after them.
LEMMA ShowsPrefix ==
    ASSUME NEW q \in Seq(Messages), NEW r \in Seq(Messages), NEW w, NEW v,
           Shows(w, v, q \o r)
    PROVE  /\ Shows(w, v, q)
           /\ \A i \in 1 .. Len(r) :
                 w[Len(q) + i] = Shown(w[Len(q) + i - 1], r[i])
  <1>1. Len(q \o r) = Len(q) + Len(r) /\ Len(q) \in Nat /\ Len(r) \in Nat
    OBVIOUS
  <1>2. \A i \in 1 .. Len(q) : (q \o r)[i] = q[i]
    OBVIOUS
  <1>3. \A i \in 1 .. Len(r) : (q \o r)[Len(q) + i] = r[i]
    OBVIOUS
  <1>4. Shows(w, v, q)
    BY <1>1, <1>2 DEF Shows
  <1>5. ASSUME NEW i \in 1 .. Len(r)
        PROVE  w[Len(q) + i] = Shown(w[Len(q) + i - 1], r[i])
    <2>1. Len(q) + i \in 1 .. Len(q \o r)
      BY <1>1
    <2> QED
      BY <1>3, <2>1 DEF Shows
  <1> QED
    BY <1>4, <1>5

\* What is shown after the first message and those behind it
LEMMA ShowsTail ==
    ASSUME NEW q \in Seq(Messages), q # <<>>, NEW v, NEW w,
           Shows(w, Shown(v, Head(q)), Tail(q))
    PROVE  \E x : Shows(x, v, q) /\ x[Len(q)] = w[Len(Tail(q))]
  <1> DEFINE x == [i \in 0 .. Len(q) |-> IF i = 0 THEN v ELSE w[i - 1]]
  <1>1. Len(q) \in Nat \ {0} /\ Len(Tail(q)) = Len(q) - 1 /\ Head(q) = q[1]
    OBVIOUS
  <1>2. x[0] = v /\ \A i \in 1 .. Len(q) : x[i] = w[i - 1]
    BY <1>1
  <1>3. ASSUME NEW i \in 1 .. Len(q) PROVE x[i] = Shown(x[i - 1], q[i])
    <2>1. CASE i = 1
      <3>1. x[1] = w[0]
        BY <1>1, <1>2
      <3> QED
        BY <1>1, <1>2, <2>1, <3>1 DEF Shows
    <2>2. CASE i # 1
      <3>1. i - 1 \in 1 .. Len(Tail(q)) /\ Tail(q)[i - 1] = q[i]
        BY <1>1, <2>2
      <3>2. w[i - 1] = Shown(w[i - 1 - 1], q[i])
        BY <3>1 DEF Shows
      <3>3. x[i] = w[i - 1] /\ x[i - 1] = w[i - 1 - 1]
        BY <1>1, <1>2, <2>2
      <3> QED
        BY <3>2, <3>3
    <2> QED
      BY <2>1, <2>2
  <1>4. Shows(x, v, q) /\ x[Len(q)] = w[Len(Tail(q))]
    BY <1>1, <1>2, <1>3 DEF Shows
  <1> QED
    BY <1>4

\* At first the table is empty and so is the screen.
LEMMA InitViewInv == Init => ViewInv
  <1> SUFFICES ASSUME Init PROVE ViewInv
    OBVIOUS
  <1>1. ViewTypes
    BY ClientAssumption DEF Init, ViewTypes, NoView, Hands, NoActor
  <1>2. Linked
    BY DEF Init, Linked
  <1>3. ~Playing
    BY DEF Init, Playing
  <1> QED
    BY <1>1, <1>2, <1>3 DEF ViewInv

\* Nobody listens after a step that closes the socket or cuts the connection.
LEMMA HungKeepsView ==
    ASSUME ViewInv, link' \in {"down", "closing"}, up' = <<>>, down' = <<>>, table' = table,
           view' \in [hand : Hands, board : Seq(Hands), actor : Players \cup {NoActor}]
    PROVE  ViewInv'
  <1>1. ViewTypes'
    BY DEF ViewInv, ViewTypes
  <1>2. Linked'
    BY DEF ViewInv, Linked
  <1>3. ~Playing'
    BY DEF Playing
  <1> QED
    BY <1>1, <1>2, <1>3 DEF ViewInv

\* ... or that finds no socket to close.
LEMMA NoSocketKeepsView ==
    ASSUME ViewInv, sock # "open", sock' # "open", UNCHANGED <<link, up, down, table>>,
           view' \in [hand : Hands, board : Seq(Hands), actor : Players \cup {NoActor}]
    PROVE  ViewInv'
  <1>1. link \notin {"accepted", "up"}
    BY DEF ViewInv, Linked
  <1>2. ViewTypes' /\ Linked'
    BY <1>1 DEF ViewInv, ViewTypes, Linked
  <1>3. ~Playing'
    BY DEF Playing
  <1> QED
    BY <1>2, <1>3 DEF ViewInv

\* A step that changes no more than up, and takes nothing from it.
LEMMA SendingKeepsView ==
    ASSUME ViewInv, up' \in Seq({"JOIN", "SYNC"}), up # <<>> => up' # <<>>,
           joined' = joined \/ up' # <<>> \/ joined' = "no",
           UNCHANGED <<sock, link, view, down, table, seat>>
    PROVE  ViewInv'
  <1>1. ViewTypes'
    BY DEF ViewInv, ViewTypes
  <1>2. Linked'
    BY DEF ViewInv, Linked
  <1>3. ASSUME Playing' PROVE Fresh'
    <2>1. CASE up' # <<>>
      BY <2>1 DEF Fresh
    <2>2. CASE up' = <<>>
      <3>1. Playing /\ up = <<>>
        BY <1>3, <2>2 DEF Playing
      <3>2. CASE \E i \in 1 .. Len(down) : down[i] = Phase("PRE_FLOP")
        BY <3>2 DEF Fresh, Phase
      <3>3. CASE \A w : Shows(w, view, down) => w[Len(down)] = ViewOf(table)
        BY <3>3 DEF Fresh
      <3> QED
        BY <3>1, <3>2, <3>3 DEF ViewInv, Fresh
    <2> QED
      BY <2>1, <2>2
  <1> QED
    BY <1>1, <1>2, <1>3 DEF ViewInv

\* connect() and disconnect(): either there is nothing under way or it is lost.
LEMMA OpenSocketKeepsView ==
    ASSUME ViewInv, sock \in {"none", "connecting", "open"}, NEW n, OpenSocket(n),
           UNCHANGED <<table, view>>
    PROVE  ViewInv'
  <1>1. sock' # "open" /\ view \in [hand : Hands, board : Seq(Hands), actor : Players \cup {NoActor}]
    BY DEF OpenSocket, ViewInv, ViewTypes
  <1>2. CASE sock = "none"
    BY <1>1, <1>2, NoSocketKeepsView DEF OpenSocket
  <1>3. CASE sock # "none"
    <2>1. Hang
      BY <1>3 DEF OpenSocket
    <2>2. link' \in {"down", "closing"} /\ up' = <<>> /\ down' = <<>>
      BY <2>1 DEF Hang
    <2> QED
      BY <1>1, <2>2, HungKeepsView
  <1> QED
    BY <1>2, <1>3

\* disconnect() of the socket client: the queues go with the connection.
LEMMA DisconnectKeepsView ==
    ASSUME ViewInv, Disconnect, table' = table,
           view' \in [hand : Hands, board : Seq(Hands), actor : Players \cup {NoActor}]
    PROVE  ViewInv'
  <1>1. sock' # "open"
    BY DEF Disconnect
  <1>2. CASE sock = "none"
    BY <1>1, <1>2, NoSocketKeepsView DEF Disconnect
  <1>3. CASE sock # "none"
    <2>1. Hang
      BY <1>3 DEF Disconnect
    <2>2. link' \in {"down", "closing"} /\ up' = <<>> /\ down' = <<>>
      BY <2>1 DEF Hang
    <2> QED
      BY <2>2, HungKeepsView
  <1> QED
    BY <1>2, <1>3

\* The view takes the next message: what was to be shown in the end still is,
\* and a new hand is asked for.
LEMMA ReceivingKeepsView ==
    ASSUME ViewInv, ClientReceives
    PROVE  ViewInv'
  <1> DEFINE m == Head(down)
  <1>1. /\ sock = "open" /\ down # <<>> /\ link = "up" /\ down \in Seq(Messages)
        /\ down' = Tail(down) /\ view' = Shown(view, m) /\ up' = Sent(Replies(m))
        /\ UNCHANGED <<sock, joined, link, seat, table>>
    BY DEF ClientReceives, server, ViewInv, Linked, ViewTypes
  <1>2. up' = up \o Replies(m)
    BY <1>1 DEF Sent
  <1>3. m \in Messages /\ Tail(down) \in Seq(Messages)
    BY <1>1
  <1>4. ViewTypes'
    <2>1. view' \in [hand : Hands, board : Seq(Hands), actor : Players \cup {NoActor}]
      BY <1>1, <1>3, ShownIsAView DEF ViewInv, ViewTypes
    <2>2. up' \in Seq({"JOIN", "SYNC"})
      <3>1. Replies(m) = <<>> \/ Replies(m) = <<"SYNC">>
        BY DEF Replies
      <3>2. up \in Seq({"JOIN", "SYNC"})
        BY DEF ViewInv, ViewTypes
      <3>3. up \o <<>> \in Seq({"JOIN", "SYNC"}) /\ up \o <<"SYNC">> \in Seq({"JOIN", "SYNC"})
        BY <3>2
      <3> QED
        BY <1>2, <3>1, <3>3
    <2> QED
      BY <1>1, <1>3, <2>1, <2>2 DEF ViewInv, ViewTypes
  <1>5. Linked'
    BY <1>1 DEF ViewInv, Linked
  <1>6. ASSUME Playing' PROVE Fresh'
    <2>1. Playing
      BY <1>1, <1>6 DEF Playing
    <2>2. CASE up # <<>>
      <3>1. up' # <<>>
        BY <1>2, <2>2 DEF ViewInv, ViewTypes, Replies
      <3> QED
        BY <3>1 DEF Fresh
    <2>3. CASE \E i \in 1 .. Len(down) : down[i] = Phase("PRE_FLOP")
      <3>1. PICK i \in 1 .. Len(down) : down[i] = Phase("PRE_FLOP")
        BY <2>3
      <3>2. CASE i = 1
        <4>1. m = Phase("PRE_FLOP")
          BY <1>1, <3>1, <3>2
        <4>2. up' = up \o <<"SYNC">>
          BY <1>2, <4>1 DEF Replies
        <4>3. up' # <<>>
          BY <4>2 DEF ViewInv, ViewTypes
        <4> QED
          BY <4>3 DEF Fresh
      <3>3. CASE i # 1
        <4>1. i - 1 \in 1 .. Len(down') /\ down'[i - 1] = Phase("PRE_FLOP")
          BY <1>1, <3>1, <3>3
        <4> QED
          BY <4>1 DEF Fresh, Phase
      <3> QED
        BY <3>2, <3>3
    <2>4. CASE \A w : Shows(w, view, down) => w[Len(down)] = ViewOf(table)
      <3>1. ASSUME NEW w, Shows(w, view', down')
            PROVE  w[Len(down')] = ViewOf(table')
        <4>1. \E x : Shows(x, view, down) /\ x[Len(down)] = w[Len(Tail(down))]
          BY <1>1, <3>1, ShowsTail
        <4> QED
          BY <1>1, <2>4, <4>1
      <3> QED
        BY <3>1 DEF Fresh, Shows
    <2> QED
      BY <2>1, <2>2, <2>3, <2>4 DEF ViewInv, Fresh
  <1> QED
    BY <1>4, <1>5, <1>6 DEF ViewInv

\* Messages of the server go behind those that are under way.  If what was to be
\* shown showed the table as it was, they lead from there to the table as it is.
LEMMA EmittingKeepsView ==
    ASSUME ViewInv, NEW r \in Seq(Messages), down' = Emitted(r),
           \A w : Shows(w, ViewOf(table), r)
                     => \/ \E i \in 1 .. Len(r) : r[i] = Phase("PRE_FLOP")
                        \/ w[Len(r)] = ViewOf(table'),
           UNCHANGED <<sock, link, up, joined, seat, view>>,
           table' \in [hand : Hands, street : 0 .. MaxStreets, actor : Players \cup {NoActor}],
           table'.hand = 0 => table'.actor = NoActor
    PROVE  ViewInv'
  <1>1. down' = IF link = "up" THEN down \o r ELSE down
    BY DEF Emitted
  <1>2. ViewTypes'
    BY <1>1 DEF ViewInv, ViewTypes
  <1>3. Linked'
    BY <1>1 DEF ViewInv, Linked
  <1>4. ASSUME Playing' PROVE Fresh'
    <2>1. Playing
      BY <1>4 DEF Playing
    <2>2. CASE up # <<>>
      BY <2>2 DEF Fresh
    <2>3. CASE up = <<>>
      <3>1. link = "up" /\ down' = down \o r /\ down \in Seq(Messages)
        BY <1>1, <2>1, <2>3 DEF Playing, ViewInv, Linked, ViewTypes
      <3>2. CASE \E i \in 1 .. Len(down) : down[i] = Phase("PRE_FLOP")
        <4>1. PICK i \in 1 .. Len(down) : down[i] = Phase("PRE_FLOP")
          BY <3>2
        <4>2. i \in 1 .. Len(down') /\ down'[i] = Phase("PRE_FLOP")
          BY <3>1, <4>1
        <4> QED
          BY <4>2 DEF Fresh, Phase
      <3>3. CASE \E i \in 1 .. Len(r) : r[i] = Phase("PRE_FLOP")
        <4>1. PICK i \in 1 .. Len(r) : r[i] = Phase("PRE_FLOP")
          BY <3>3
        <4>2. Len(down) + i \in 1 .. Len(down') /\ down'[Len(down) + i] = Phase("PRE_FLOP")
          BY <3>1, <4>1
        <4> QED
          BY <4>2 DEF Fresh, Phase
      <3>4. CASE /\ \A w : Shows(w, view, down) => w[Len(down)] = ViewOf(table)
                 /\ ~ \E i \in 1 .. Len(r) : r[i] = Phase("PRE_FLOP")
        <4>1. ASSUME NEW w, Shows(w, view', down')
              PROVE  w[Len(down')] = ViewOf(table')
          <5> DEFINE x == [i \in 0 .. Len(r) |-> w[Len(down) + i]]
          <5>1. /\ Shows(w, view, down)
                /\ \A i \in 1 .. Len(r) :
                      w[Len(down) + i] = Shown(w[Len(down) + i - 1], r[i])
            <6>1. Shows(w, view, down \o r)
              BY <3>1, <4>1
            <6> QED
              BY <3>1, <6>1, ShowsPrefix
          <5>2. w[Len(down)] = ViewOf(table)
            BY <3>4, <5>1
          <5>3. Len(down) \in Nat /\ Len(r) \in Nat /\ Len(down') = Len(down) + Len(r)
            BY <3>1
          <5>4. x[0] = ViewOf(table) /\ x[Len(r)] = w[Len(down')]
            BY <5>2, <5>3
          <5>5. ASSUME NEW i \in 1 .. Len(r) PROVE x[i] = Shown(x[i - 1], r[i])
            <6>1. x[i] = w[Len(down) + i] /\ x[i - 1] = w[Len(down) + (i - 1)]
              BY <5>3
            <6>2. Len(down) + (i - 1) = Len(down) + i - 1
              BY <5>3
            <6> QED
              BY <5>1, <6>1, <6>2
          <5>6. x[Len(r)] = ViewOf(table')
            <6> HIDE DEF x
            <6>1. Shows(x, ViewOf(table), r)
              BY <5>4, <5>5 DEF Shows
            <6> QED
              BY <3>4, <6>1
          <5> QED
            BY <5>4, <5>6
        <4> QED
          BY <4>1 DEF Fresh, Shows
      <3> QED
        BY <2>1, <2>3, <3>2, <3>3, <3>4 DEF ViewInv, Fresh
    <2> QED
      BY <2>2, <2>3
  <1> QED
    BY <1>2, <1>3, <1>4 DEF ViewInv

\* A snapshot shows the table as it is.
LEMMA SnapshotShowsAll ==
    ASSUME NEW v PROVE Shown(v, Snapshot) = ViewOf(table)
  BY DEF Shown, Snapshot, FromSnapshot, ViewOf

\* A turn changes the actor alone.
LEMMA TurnIsShown ==
    ASSUME NEW t, NEW u, t.hand # 0
    PROVE  Shown(ViewOf(t), Turn(u)) = [ViewOf(t) EXCEPT !.actor = u]
  BY DEF Shown, Turn, ViewOf

\* A new phase clears the actor alone.
LEMMA PhaseIsShown ==
    ASSUME NEW v, NEW p, v.hand # 0
    PROVE  Shown(v, Phase(p)) = [v EXCEPT !.actor = NoActor]
  BY DEF Shown, Phase

\* New cards make the board of a later street.
LEMMA CardsAreShown ==
    ASSUME ViewTypes, table.hand # 0, NEW n \in Nat
    PROVE  Shown(ViewOf(table), Cards(n))
           = ViewOf([table EXCEPT !.street = table.street + n])
  <1> DEFINE h == table.hand
             k == table.street
  <1>1. h \in Hands /\ k \in Nat
    BY ClientAssumption DEF ViewTypes
  <1>2. [i \in 1 .. k |-> h] \in Seq(Hands) /\ [i \in 1 .. n |-> h] \in Seq(Hands)
    BY <1>1, CardsAreABoard
  <1>3. [i \in 1 .. k |-> h] \o [i \in 1 .. n |-> h] = [i \in 1 .. k + n |-> h]
    BY <1>1, <1>2
  <1>4. Shown(ViewOf(table), Cards(n))
        = [ViewOf(table) EXCEPT !.board = [i \in 1 .. k |-> h] \o [i \in 1 .. n |-> h]]
    BY DEF Shown, Cards, ViewOf
  <1>5. [table EXCEPT !.street = k + n].hand = h /\ [table EXCEPT !.street = k + n].street = k + n
        /\ [table EXCEPT !.street = k + n].actor = table.actor
    BY DEF ViewTypes
  <1> QED
    BY <1>3, <1>4, <1>5 DEF ViewOf

\* An answer of the server is a snapshot, behind what is under way.
LEMMA AnsweringKeepsView ==
    ASSUME ViewInv, ServerReceives
    PROVE  ViewInv'
  <1>1. /\ link = "up" /\ up # <<>> /\ up' = Tail(up)
        /\ UNCHANGED <<sock, link, joined, view, table>>
    BY DEF ServerReceives, client
  <1>2. Snapshot \in Messages
    BY MessageTypes DEF ViewInv
  <1>3. up' \in Seq({"JOIN", "SYNC"})
    BY <1>1 DEF ViewInv, ViewTypes
  <1>4. CASE down' = Emitted(<<Snapshot>>)
    <2>1. down' = down \o <<Snapshot>> /\ down \in Seq(Messages)
      BY <1>1, <1>4 DEF Emitted, ViewInv, ViewTypes
    <2>2. down' \in Seq(Messages) /\ Len(down') = Len(down) + 1 /\ down'[Len(down')] = Snapshot
          /\ Len(down') \in 1 .. Len(down')
      BY <1>2, <2>1
    <2>3. ViewTypes' /\ Linked'
      BY <1>1, <1>3, <2>2 DEF ViewInv, ViewTypes, Linked
    <2>4. ASSUME NEW w, Shows(w, view', down') PROVE w[Len(down')] = ViewOf(table')
      <3>1. w[Len(down')] = Shown(w[Len(down') - 1], Snapshot)
        BY <2>2, <2>4 DEF Shows
      <3>2. Shown(w[Len(down') - 1], Snapshot) = ViewOf(table)
        BY SnapshotShowsAll
      <3>3. ViewOf(table') = ViewOf(table)
        BY <1>1
      <3> QED
        BY <3>1, <3>2, <3>3
    <2>5. Fresh'
      BY <2>4 DEF Fresh, Shows
    <2> QED
      BY <2>3, <2>5 DEF ViewInv
  \* Without one there is no seat.
  <1>5. CASE down' = down /\ seat' = "none"
    <2>1. ViewTypes' /\ Linked'
      BY <1>1, <1>3, <1>5 DEF ViewInv, ViewTypes, Linked
    <2>2. ~Playing'
      BY <1>5 DEF Playing
    <2> QED
      BY <2>1, <2>2 DEF ViewInv
  <1>6. down' = Emitted(<<Snapshot>>) \/ (down' = down /\ seat' = "none")
    BY DEF ServerReceives
  <1> QED
    BY <1>4, <1>5, <1>6

\* Two messages in a row
LEMMA PairOfOnes == ASSUME NEW a, NEW b PROVE <<a>> \o <<b>> = <<a, b>>
  <1>1. <<a>> \in Seq({a, b}) /\ <<b>> \in Seq({a, b}) /\ <<a, b>> \in Seq({a, b})
    OBVIOUS
  <1>2. <<a>> \o <<b>> \in Seq({a, b}) /\ Len(<<a>> \o <<b>>) = 2
    BY <1>1
  <1>3. (<<a>> \o <<b>>)[1] = a /\ (<<a>> \o <<b>>)[2] = b
    BY <1>1
  <1>4. Len(<<a, b>>) = 2 /\ <<a, b>>[1] = a /\ <<a, b>>[2] = b
    OBVIOUS
  <1>5. \A i \in 1 .. 2 : (<<a>> \o <<b>>)[i] = <<a, b>>[i]
    BY <1>3, <1>4
  <1> QED
    BY <1>1, <1>2, <1>4, <1>5, SeqEqual

\* A new hand is announced by its first phase.
LEMMA StartHandKeepsView ==
    ASSUME ViewInv, StartHand
    PROVE  ViewInv'
  <1>1. PICK u \in Actors : Move([hand |-> table.hand + 1, street |-> 0, actor |-> u],
                                 <<Phase("PRE_FLOP"), Turn(u)>>)
    BY DEF StartHand
  <1> DEFINE r == <<Phase("PRE_FLOP"), Turn(u)>>
  <1>2. u \in Players
    BY DEF Actors
  <1>3. r \in Seq(Messages) /\ r[1] = Phase("PRE_FLOP") /\ 1 \in 1 .. Len(r)
    BY <1>2, MessageTypes DEF ViewInv
  <1>4. table.hand \in Nat /\ table.hand < MaxHands
    BY DEF StartHand, ViewInv, ViewTypes, Hands
  <1>5. /\ table' = [hand |-> table.hand + 1, street |-> 0, actor |-> u]
        /\ down' = Emitted(r) /\ UNCHANGED <<sock, link, up, joined, seat, view>>
    BY <1>1 DEF Move, client
  <1>6. /\ table' \in [hand : Hands, street : 0 .. MaxStreets, actor : Players \cup {NoActor}]
        /\ table'.hand # 0
    BY <1>2, <1>4, <1>5, ClientAssumption DEF Hands
  <1> HIDE DEF r
  <1> QED
    BY <1>3, <1>5, <1>6, EmittingKeepsView

\* The other steps of a hand that is being played
LEMMA PlayTypes ==
    ASSUME ViewInv, table.actor # NoActor
    PROVE  /\ table.hand # 0 /\ table.hand \in Hands /\ table.street \in Nat
           /\ table.street \in 0 .. MaxStreets
           /\ table = [hand |-> table.hand, street |-> table.street, actor |-> table.actor]
  BY ClientAssumption DEF ViewInv, Linked, ViewTypes, Hands

\* The turn passes: TURN_CHANGED is on its way to the screen.
LEMMA PassTurnKeepsView ==
    ASSUME ViewInv, PassTurn
    PROVE  ViewInv'
  <1>1. PICK u \in Actors : Move([table EXCEPT !.actor = u], <<Turn(u)>>)
    BY DEF PassTurn
  <1> DEFINE r == <<Turn(u)>>
  <1>2. u \in Players /\ table.actor # NoActor
    BY DEF Actors, PassTurn
  <1>3. r \in Seq(Messages) /\ r[1] = Turn(u) /\ Len(r) = 1
    BY <1>2, MessageTypes DEF ViewInv
  <1>4. /\ table' = [table EXCEPT !.actor = u]
        /\ down' = Emitted(r) /\ UNCHANGED <<sock, link, up, joined, seat, view>>
    BY <1>1 DEF Move, client
  <1>5. /\ table' \in [hand : Hands, street : 0 .. MaxStreets, actor : Players \cup {NoActor}]
        /\ table'.hand = table.hand /\ table'.street = table.street /\ table'.actor = u
        /\ table.hand # 0
    BY <1>2, <1>4, PlayTypes DEF ViewInv, ViewTypes
  <1>6. ASSUME NEW w, Shows(w, ViewOf(table), r) PROVE w[Len(r)] = ViewOf(table')
    <2>1. w[1] = Shown(w[0], Turn(u)) /\ w[0] = ViewOf(table)
      BY <1>3, <1>6 DEF Shows
    <2>2. Shown(ViewOf(table), Turn(u)) = [ViewOf(table) EXCEPT !.actor = u]
      BY <1>5, TurnIsShown
    <2>3. ViewOf(table') = [ViewOf(table) EXCEPT !.actor = u]
      BY <1>5 DEF ViewOf
    <2> QED
      BY <1>3, <2>1, <2>2, <2>3
  <1> HIDE DEF r
  <1> QED
    BY <1>3, <1>4, <1>5, <1>6, EmittingKeepsView

\* A street is dealt: its phase, its card and its turn are on their way.
LEMMA DealStreetKeepsView ==
    ASSUME ViewInv, DealStreet
    PROVE  ViewInv'
  <1>1. PICK u \in Actors : Move([table EXCEPT !.street = @ + 1, !.actor = u],
                                 <<Cards(1), Phase("street"), Turn(u)>>)
    BY DEF DealStreet
  <1> DEFINE r == <<Cards(1), Phase("street"), Turn(u)>>
             t == [table EXCEPT !.street = table.street + 1]
  <1>2. u \in Players /\ table.actor # NoActor /\ table.street < MaxStreets
    BY DEF Actors, DealStreet
  <1>3. r \in Seq(Messages) /\ r[1] = Cards(1) /\ r[2] = Phase("street") /\ r[3] = Turn(u)
        /\ Len(r) = 3
    BY <1>2, MessageTypes DEF ViewInv
  <1>4. /\ table' = [table EXCEPT !.street = table.street + 1, !.actor = u]
        /\ down' = Emitted(r) /\ UNCHANGED <<sock, link, up, joined, seat, view>>
    BY <1>1 DEF Move, client
  <1>5. /\ table' \in [hand : Hands, street : 0 .. MaxStreets, actor : Players \cup {NoActor}]
        /\ table'.hand = table.hand /\ table'.street = table.street + 1 /\ table'.actor = u
        /\ table.hand # 0
    <2>1. table.hand # 0 /\ table.street + 1 \in 0 .. MaxStreets
      BY <1>2, PlayTypes, ClientAssumption
    <2> QED
      BY <1>2, <1>4, <2>1 DEF ViewInv, ViewTypes
  <1>6. t.hand = table.hand /\ t.street = table.street + 1 /\ t.actor = table.actor
    BY DEF ViewInv, ViewTypes
  <1>7. ASSUME NEW w, Shows(w, ViewOf(table), r) PROVE w[Len(r)] = ViewOf(table')
    <2> HIDE DEF t
    <2>1. /\ w[0] = ViewOf(table) /\ w[1] = Shown(w[0], Cards(1))
          /\ w[2] = Shown(w[1], Phase("street")) /\ w[3] = Shown(w[2], Turn(u))
      <3> HIDE DEF r
      <3>1. 1 \in 1 .. Len(r) /\ 2 \in 1 .. Len(r) /\ 3 \in 1 .. Len(r)
        BY <1>3
      <3> QED
        BY <1>3, <1>7, <3>1 DEF Shows
    <2>2. w[1] = ViewOf(t)
      BY <1>5, <2>1, CardsAreShown DEF t, ViewInv
    <2>3. w[2] = [ViewOf(t) EXCEPT !.actor = NoActor]
      <3>1. ViewOf(t).hand # 0
        BY <1>5, <1>6 DEF ViewOf
      <3> QED
        BY <2>1, <2>2, <3>1, PhaseIsShown
    <2>4. w[3] = [ViewOf(t) EXCEPT !.actor = u]
      BY <1>5, <1>6, <2>1, <2>3 DEF ViewOf, Shown, Turn
    <2>5. ViewOf(table') = [ViewOf(t) EXCEPT !.actor = u]
      BY <1>5, <1>6 DEF ViewOf
    <2> QED
      BY <1>3, <2>4, <2>5
  <1> HIDE DEF r
  <1> QED
    BY <1>3, <1>4, <1>5, <1>7, EmittingKeepsView

\* A hand ends: the board of a run-out and the phase are on their way.
LEMMA EndHandKeepsView ==
    ASSUME ViewInv, EndHand
    PROVE  ViewInv'
  <1>1. PICK n \in {0, MaxStreets - table.street} :
          Move([table EXCEPT !.street = @ + n, !.actor = NoActor],
               (IF n = 0 THEN <<>> ELSE <<Cards(n)>>) \o <<Phase("HAND_END")>>)
    BY DEF EndHand
  <1> DEFINE r == (IF n = 0 THEN <<>> ELSE <<Cards(n)>>) \o <<Phase("HAND_END")>>
             t == [table EXCEPT !.street = table.street + n]
  <1>2. table.actor # NoActor
    BY DEF EndHand
  <1>3. n \in Nat /\ table.street + n \in 0 .. MaxStreets
    BY <1>2, PlayTypes, ClientAssumption
  <1>4. r \in Seq(Messages)
    BY <1>3, MessageTypes DEF ViewInv
  <1>5. /\ table' = [table EXCEPT !.street = table.street + n, !.actor = NoActor]
        /\ down' = Emitted(r) /\ UNCHANGED <<sock, link, up, joined, seat, view>>
    BY <1>1 DEF Move, client
  <1>6. /\ table' \in [hand : Hands, street : 0 .. MaxStreets, actor : Players \cup {NoActor}]
        /\ table'.hand = table.hand /\ table'.street = table.street + n /\ table'.actor = NoActor
        /\ table.hand # 0
    BY <1>2, <1>3, <1>5, PlayTypes DEF ViewInv, ViewTypes
  <1>7. t.hand = table.hand /\ t.street = table.street + n /\ t.actor = table.actor
    BY DEF ViewInv, ViewTypes
  <1>8. ViewOf(table') = [ViewOf(t) EXCEPT !.actor = NoActor]
    BY <1>6, <1>7 DEF ViewOf
  <1>9. ASSUME NEW w, Shows(w, ViewOf(table), r) PROVE w[Len(r)] = ViewOf(table')
    <2> HIDE DEF t
    <2>1. CASE n = 0
      <3>1. r = <<Phase("HAND_END")>>
        BY <2>1
      <3>2. w[0] = ViewOf(table) /\ w[1] = Shown(w[0], Phase("HAND_END")) /\ Len(r) = 1
        BY <1>9, <3>1 DEF Shows
      <3>3. ViewOf(t) = ViewOf(table)
        <4>1. t.street = table.street
          BY <1>7, <2>1, <1>2, PlayTypes
        <4> QED
          BY <1>7, <4>1 DEF ViewOf
      <3>4. ViewOf(t).hand # 0
        BY <1>6, <1>7 DEF ViewOf
      <3>5. w[1] = [ViewOf(t) EXCEPT !.actor = NoActor]
        BY <3>2, <3>3, <3>4, PhaseIsShown
      <3> QED
        BY <1>8, <3>2, <3>5
    <2>2. CASE n # 0
      <3>1. r = <<Cards(n), Phase("HAND_END")>>
        <4>1. r = <<Cards(n)>> \o <<Phase("HAND_END")>>
          BY <2>2
        <4> QED
          BY <4>1, PairOfOnes
      <3>2. /\ w[0] = ViewOf(table) /\ w[1] = Shown(w[0], Cards(n))
            /\ w[2] = Shown(w[1], Phase("HAND_END")) /\ Len(r) = 2
        BY <1>9, <3>1 DEF Shows
      <3>3. w[1] = ViewOf(t)
        BY <1>3, <1>6, <3>2, CardsAreShown DEF t, ViewInv
      <3>4. ViewOf(t).hand # 0
        BY <1>6, <1>7 DEF ViewOf
      <3>5. w[2] = [ViewOf(t) EXCEPT !.actor = NoActor]
        BY <3>2, <3>3, <3>4, PhaseIsShown
      <3> QED
        BY <1>8, <3>2, <3>5
    <2> QED
      BY <2>1, <2>2
  <1> HIDE DEF r
  <1> QED
    BY <1>4, <1>5, <1>6, <1>9, EmittingKeepsView

\* No step of the phone, its user or the server breaks it.
LEMMA StepViewInv ==
    ASSUME ViewInv, sock \in {"none", "connecting", "open"}, [Next]_vars
    PROVE  ViewInv'
  <1>0. /\ view \in [hand : Hands, board : Seq(Hands), actor : Players \cup {NoActor}]
        /\ NoView \in [hand : Hands, board : Seq(Hands), actor : Players \cup {NoActor}]
    BY ClientAssumption DEF ViewInv, ViewTypes, NoView, NoActor, Hands
  \* The screen asks for the state at every later connection, before anything
  \* can be under way to it.
  <1>1. CASE OnOpen
    <2>1. /\ sock' = "open" /\ link' = "accepted" /\ link = "down"
          /\ up' = IF joined = "yes" THEN <<"JOIN", "SYNC">> ELSE <<>>
          /\ joined' = IF joined = "no" THEN "asked" ELSE joined
          /\ UNCHANGED <<view, down, seat, table>>
      BY <1>1 DEF OnOpen
    <2>2. joined' = "yes" => up' # <<>>
      BY <2>1
    <2>3. up' \in Seq({"JOIN", "SYNC"})
      <3>1. <<"JOIN", "SYNC">> \in Seq({"JOIN", "SYNC"}) /\ <<>> \in Seq({"JOIN", "SYNC"})
        OBVIOUS
      <3> QED
        BY <2>1, <3>1
    <2>4. ViewTypes' /\ Linked'
      BY <2>1, <2>2, <2>3 DEF ViewInv, ViewTypes, Linked
    <2>5. Playing' => Fresh'
      BY <2>2 DEF Playing, Fresh
    <2> QED
      BY <2>4, <2>5 DEF ViewInv
  <1>2. CASE OnClose
    <2>1. /\ link \notin {"accepted", "up"} \/ sock # "open"
          /\ sock' # "open" /\ UNCHANGED <<link, up, down, table, view>>
      BY <1>2 DEF OnClose
    <2>2. link \notin {"accepted", "up"}
      BY <2>1 DEF ViewInv, Linked
    <2>3. ViewTypes' /\ Linked'
      BY <2>1, <2>2 DEF ViewInv, ViewTypes, Linked
    <2>4. ~Playing'
      BY <2>1 DEF Playing
    <2> QED
      BY <2>3, <2>4 DEF ViewInv
  <1>3. CASE TimerFires
    <2>1. CASE retry
      BY <1>3, <2>1, OpenSocketKeepsView DEF TimerFires
    <2>2. CASE ~retry
      <3>1. UNCHANGED <<sock, link, up, down, joined, view, seat, table>>
        BY <1>3, <2>2 DEF TimerFires
      <3> QED
        BY <3>1, SendingKeepsView DEF ViewInv, ViewTypes
    <2> QED
      BY <2>1, <2>2
  <1>4. CASE ClientReceives
    BY <1>4, ReceivingKeepsView
  <1>5. CASE Focus \/ Retry
    BY <1>5, OpenSocketKeepsView DEF Focus, Retry, Connect
  <1>6. CASE Blur \/ Background
    BY <1>0, <1>6, DisconnectKeepsView DEF Blur, Background
  <1>7. CASE PickRole
    <2>1. /\ joined' = "yes" /\ up' = Sent(<<"JOIN">>)
          /\ UNCHANGED <<sock, view, down, link, seat, table>>
      BY <1>7 DEF PickRole, server
    <2>2. up \in Seq({"JOIN", "SYNC"}) /\ up \o <<"JOIN">> \in Seq({"JOIN", "SYNC"})
          /\ up \o <<"JOIN">> # <<>>
      BY DEF ViewInv, ViewTypes
    <2>3. up' \in Seq({"JOIN", "SYNC"}) /\ (sock = "open" /\ link \in {"accepted", "up"} => up' # <<>>)
      BY <2>1, <2>2 DEF Sent
    <2>4. ViewTypes' /\ Linked'
      BY <2>1, <2>3 DEF ViewInv, ViewTypes, Linked
    <2>5. Playing' => Fresh'
      BY <2>1, <2>3 DEF Playing, Fresh
    <2> QED
      BY <2>4, <2>5 DEF ViewInv
  <1>8. CASE Foreground
    <2>1. CASE focused /\ status = "disconnected"
      BY <1>8, <2>1, OpenSocketKeepsView DEF Foreground, Connect
    <2>2. CASE ~(focused /\ status = "disconnected")
      <3>1. /\ up' = Sent(<<"SYNC">>) \/ up' = up
            /\ UNCHANGED <<sock, link, view, down, table, seat, joined>>
        BY <1>8, <2>2 DEF Foreground
      <3>2. up \in Seq({"JOIN", "SYNC"}) /\ up \o <<"SYNC">> \in Seq({"JOIN", "SYNC"})
            /\ up \o <<"SYNC">> # <<>>
        BY DEF ViewInv, ViewTypes
      <3>3. up' \in Seq({"JOIN", "SYNC"}) /\ (up # <<>> => up' # <<>>)
        BY <3>1, <3>2 DEF Sent
      <3> QED
        BY <3>1, <3>3, SendingKeepsView
    <2> QED
      BY <2>1, <2>2
  <1>9. CASE RegisterLink
    <2>1. /\ link = "accepted" /\ link' = "up"
          /\ UNCHANGED <<sock, up, down, joined, view, seat, table>>
      BY <1>9 DEF RegisterLink, client
    <2>2. ViewTypes' /\ Linked'
      BY <2>1 DEF ViewInv, ViewTypes, Linked
    <2>3. ASSUME Playing' PROVE Fresh'
      <3>1. up' # <<>>
        BY <2>1, <2>3 DEF Playing, ViewInv, Linked
      <3> QED
        BY <3>1 DEF Fresh
    <2> QED
      BY <2>2, <2>3 DEF ViewInv
  <1>10. CASE Finally
    <2>1. /\ link = "closing" /\ link' = "down"
          /\ UNCHANGED <<sock, up, down, joined, view, table>>
      BY <1>10 DEF Finally, client
    <2>2. ViewTypes' /\ Linked'
      BY <2>1 DEF ViewInv, ViewTypes, Linked
    <2>3. ~Playing'
      BY <2>1 DEF Playing
    <2> QED
      BY <2>2, <2>3 DEF ViewInv
  <1>11. CASE ServerReceives
    BY <1>11, AnsweringKeepsView
  <1>12. CASE Table
    BY <1>12, StartHandKeepsView, PassTurnKeepsView, DealStreetKeepsView, EndHandKeepsView
    DEF Table
  <1>13. CASE Cut
    <2>1. /\ link' \in {"down", "closing"} /\ up' = <<>> /\ down' = <<>>
          /\ view' = view /\ table' = table
      BY <1>13 DEF Cut, Hang, client
    <2> QED
      BY <1>0, <2>1, HungKeepsView
  <1>14. CASE UNCHANGED vars
    <2>1. UNCHANGED <<sock, link, up, down, joined, view, seat, table>>
      BY <1>14 DEF vars
    <2> QED
      BY <2>1, SendingKeepsView DEF ViewInv, ViewTypes
  <1> QED
    BY <1>1, <1>2, <1>3, <1>4, <1>5, <1>6, <1>7, <1>8, <1>9, <1>10, <1>11, <1>12, <1>13, <1>14
    DEF Next, Phone, User, Server

\* The screen of a player who is online shows the table once nothing is under
\* way, whatever was lost before (tableStore.ts, the rejoin effect and the SYNC
\* that answers PRE_FLOP).
THEOREM ViewIsTheTable == Spec => []ViewCatchesUp
  <1>1. Init => WayInv /\ ViewInv
    BY InitWayInv, InitViewInv
  <1>2. WayInv /\ ViewInv /\ [Next]_vars => WayInv' /\ ViewInv'
    BY StepWayInv, StepViewInv DEF WayInv, Ranges
  <1>3. ViewInv => ViewCatchesUp
    <2> SUFFICES ASSUME ViewInv, Quiet, seat = "online"
                 PROVE  view = ViewOf(table)
      BY DEF ViewCatchesUp, ViewOf
    <2>1. Playing /\ Fresh /\ up = <<>> /\ down = <<>>
      BY DEF ViewInv, Quiet, Playing
    <2> DEFINE w == [i \in {0} |-> view]
    <2>2. w[0] = view /\ Shows(w, view, down) /\ Len(down) = 0
      BY <2>1 DEF Shows
    <2> HIDE DEF w
    <2>3. ~ \E i \in 1 .. Len(down) : down[i] = Phase("PRE_FLOP")
      BY <2>2
    <2> QED
      BY <2>1, <2>2, <2>3 DEF Fresh
  <1> QED
    BY <1>1, <1>2, <1>3, PTL DEF Spec

-----------------------------------------------------------------------------
(* Types *)

\* What the invariants above leave open of the types
OtherTypes ==
    /\ retry \in BOOLEAN /\ focused \in BOOLEAN /\ active \in BOOLEAN
    /\ joined \in {"no", "asked", "yes"} /\ seat \in {"none", "online", "offline"}

\* Every step keeps these types.
LEMMA StepOtherTypes == OtherTypes /\ [Next]_vars => OtherTypes'
  <1> SUFFICES ASSUME OtherTypes, [Next]_vars PROVE OtherTypes'
    OBVIOUS
  <1>1. CASE Phone
    BY <1>1 DEF OtherTypes, Phone, OnOpen, OnClose, TimerFires, ClientReceives, server
  <1>2. CASE User
    BY <1>2 DEF OtherTypes, User, Focus, Blur, Retry, PickRole, Background, Foreground,
                Connect, Disconnect, server
  <1>3. CASE Server
    BY <1>3 DEF OtherTypes, Server, RegisterLink, Finally, ServerReceives, client
  <1>4. CASE Table \/ Cut \/ UNCHANGED vars
    BY <1>4 DEF OtherTypes, Table, StartHand, PassTurn, DealStreet, EndHand, Move, Cut,
                client, vars
  <1> QED
    BY <1>1, <1>2, <1>3, <1>4 DEF Next

\* The variables keep their types (the phone's store and socket, the server's
\* end and what is under way between them).
THEOREM TypesAreKept == Spec => []TypeOK
  <1>1. Init => WayInv /\ ViewInv /\ OtherTypes
    BY InitWayInv, InitViewInv DEF Init, OtherTypes
  <1>2. WayInv /\ ViewInv /\ OtherTypes /\ [Next]_vars => WayInv' /\ ViewInv' /\ OtherTypes'
    BY StepWayInv, StepViewInv, StepOtherTypes DEF WayInv, Ranges
  <1>3. WayInv /\ ViewInv /\ OtherTypes => TypeOK
    BY DEF WayInv, Ranges, ViewInv, ViewTypes, OtherTypes, TypeOK
  <1> QED
    BY <1>1, <1>2, <1>3, PTL DEF Spec
=============================================================================
