------------------------------ MODULE Gateway -------------------------------
(***************************************************************************)
(* backend/realtime/ws_router.py, ws_broadcaster.py and the connection     *)
(* side of backend/sessions/session_manager.py, for one table.             *)
(*                                                                         *)
(* Every socket is served by a coroutine of its own: it registers with the *)
(* broadcaster, handles one message after the other and, when the socket   *)
(* is gone, unregisters and then tells the session.  The last two are      *)
(* separate critical sections, and nothing orders the end of an old socket *)
(* against a new one of the same user.  The broadcaster keeps one record   *)
(* per user, the session one flag per user; neither knows sockets.         *)
(*                                                                         *)
(* Each session call holds the session's lock from start to end and is one *)
(* action.  Cards, bets and hands are left out: TableSession has them.     *)
(* Left out too: the record's role (only broadcast_to_spectators reads it, *)
(* and nothing calls that) and the session's own _connections map, which   *)
(* is written and never read.                                              *)
(***************************************************************************)
EXTENDS Integers, FiniteSets

CONSTANTS
    Users,        \* user ids
    Sockets,      \* every socket that will ever be opened to this table
    Owner,        \* the user each socket authenticates as
    NoSocket,     \* no record in the broadcaster
    MaxPlayers,   \* config.max_players
    Spectators,   \* the users whose client may join as a spectator
    Returners     \* the users whose client may send SIT_IN

ASSUME GatewayAssumption ==
    /\ Owner \in [Sockets -> Users]
    /\ NoSocket \notin Sockets
    /\ MaxPlayers \in 2..10
    /\ Spectators \subseteq Users
    /\ Returners \subseteq Users

VARIABLES
    pc,         \* where the coroutine of each socket is
    registered, \* broadcaster._connections[table]: the socket of each user
    seated,     \* session._state.players
    spectating, \* session._spectators
    online,     \* the seated users with is_connected
    reserve,    \* the users whose disconnect timer is running
    sittingOut  \* the seated users whose status is SIT_OUT

sessionVars == <<seated, spectating, online, reserve, sittingOut>>
vars == <<pc, registered, seated, spectating, online, reserve, sittingOut>>

Init ==
    /\ pc = [s \in Sockets |-> "new"]
    /\ registered = [u \in Users |-> NoSocket]
    /\ seated = {}
    /\ spectating = {}
    /\ online = {}
    /\ reserve = {}
    /\ sittingOut = {}

-----------------------------------------------------------------------------
(* The socket's coroutine: ws_table_endpoint *)

\* Token and table checked, session found; the user's record is overwritten.
Register(s) ==
    /\ pc[s] = "new"
    /\ pc' = [pc EXCEPT ![s] = "open"]
    /\ registered' = [registered EXCEPT ![Owner[s]] = s]
    /\ UNCHANGED sessionVars

\* Mutations of Unregister: the record stays; the finally block ends here.
UnregisterNobody(s) ==
    /\ pc[s] = "open"
    /\ pc' = [pc EXCEPT ![s] = "closing"]
    /\ UNCHANGED <<registered, sessionVars>>

UnregisterOnly(s) ==
    /\ pc[s] = "open"
    /\ pc' = [pc EXCEPT ![s] = "closed"]
    /\ registered' = [registered EXCEPT ![Owner[s]] = NoSocket]
    /\ UNCHANGED sessionVars

\* First half of the finally block: whatever record the user has is removed.
Unregister(s) ==
    /\ pc[s] = "open"
    /\ pc' = [pc EXCEPT ![s] = "closing"]
    /\ registered' = [registered EXCEPT ![Owner[s]] = NoSocket]
    /\ UNCHANGED sessionVars

\* Mutation of Disconnect: a player who sits out is left alone.
DisconnectInPlay(s) ==
    LET u == Owner[s]
    IN  /\ pc[s] = "closing"
        /\ pc' = [pc EXCEPT ![s] = "closed"]
        /\ spectating' = spectating \ {u}
        /\ IF u \in online \ (spectating \cup sittingOut)
             THEN online' = online \ {u} /\ reserve' = reserve \cup {u}
             ELSE UNCHANGED <<online, reserve>>
        /\ UNCHANGED <<registered, seated, sittingOut>>

\* Mutation of Disconnect: a player is sat out at once, with no reserve.
DisconnectSitsOut(s) ==
    LET u == Owner[s]
    IN  /\ pc[s] = "closing"
        /\ pc' = [pc EXCEPT ![s] = "closed"]
        /\ spectating' = spectating \ {u}
        /\ IF u \in online \ spectating
             THEN online' = online \ {u} /\ sittingOut' = sittingOut \cup {u}
             ELSE UNCHANGED <<online, sittingOut>>
        /\ UNCHANGED <<registered, seated, reserve>>

\* Second half: session.disconnect.  A spectator's entry goes first, and then
\* a seat the same user holds is not looked at.
Disconnect(s) ==
    LET u == Owner[s]
    IN  /\ pc[s] = "closing"
        /\ pc' = [pc EXCEPT ![s] = "closed"]
        /\ \/ /\ u \in spectating
              /\ spectating' = spectating \ {u}
              /\ UNCHANGED <<seated, online, reserve, sittingOut>>
           \/ /\ u \notin spectating
              /\ u \in online
              /\ online' = online \ {u}
              /\ reserve' = reserve \cup {u}
              /\ UNCHANGED <<seated, spectating, sittingOut>>
           \/ /\ u \notin spectating
              /\ u \notin online
              /\ UNCHANGED sessionVars
        /\ UNCHANGED registered

-----------------------------------------------------------------------------
(* Messages: _dispatch_message and the session call behind each *)

Receives(s) == pc[s] = "open" /\ UNCHANGED <<pc, registered>>

\* Mutation of Rejoin: the disconnect timer is not cancelled.
RejoinKeepsTimer(s) ==
    /\ Receives(s)
    /\ Owner[s] \in seated
    /\ online' = online \cup {Owner[s]}
    /\ UNCHANGED <<seated, spectating, reserve, sittingOut>>

\* JOIN_TABLE as a player who is already seated: _do_reconnect.
Rejoin(s) ==
    /\ Receives(s)
    /\ Owner[s] \in seated
    /\ reserve' = reserve \ {Owner[s]}
    /\ online' = online \cup {Owner[s]}
    /\ UNCHANGED <<seated, spectating, sittingOut>>

\* JOIN_TABLE as a player: a seat is free.  The spectators are not looked at.
TakeSeat(s) ==
    /\ Receives(s)
    /\ Owner[s] \notin seated
    /\ Cardinality(seated) < MaxPlayers
    /\ seated' = seated \cup {Owner[s]}
    /\ online' = online \cup {Owner[s]}
    /\ UNCHANGED <<spectating, reserve, sittingOut>>

\* JOIN_TABLE as a spectator.  The players are not looked at.
Spectate(s) ==
    /\ Receives(s)
    /\ Owner[s] \in Spectators
    /\ spectating' = spectating \cup {Owner[s]}
    /\ UNCHANGED <<seated, online, reserve, sittingOut>>

\* Mutation of Leave: the status of the seat outlives it.
LeaveKeepsStatus(s) ==
    LET u == Owner[s]
    IN  /\ Receives(s)
        /\ reserve' = reserve \ {u}
        /\ IF u \in spectating
             THEN /\ spectating' = spectating \ {u}
                  /\ UNCHANGED <<seated, online, sittingOut>>
             ELSE /\ seated' = seated \ {u}
                  /\ online' = online \ {u}
                  /\ UNCHANGED <<sittingOut, spectating>>

\* LEAVE_TABLE: the disconnect timer is cancelled; a spectator's entry goes
\* first, else the seat.
Leave(s) ==
    LET u == Owner[s]
    IN  /\ Receives(s)
        /\ reserve' = reserve \ {u}
        /\ IF u \in spectating
             THEN /\ spectating' = spectating \ {u}
                  /\ UNCHANGED <<seated, online, sittingOut>>
             ELSE /\ seated' = seated \ {u}
                  /\ online' = online \ {u}
                  /\ sittingOut' = sittingOut \ {u}
                  /\ UNCHANGED spectating

\* SIT_OUT, and SIT_IN with chips left.  Neither looks at is_connected.
SitOut(s) ==
    /\ Receives(s)
    /\ Owner[s] \in seated
    /\ sittingOut' = sittingOut \cup {Owner[s]}
    /\ UNCHANGED <<seated, spectating, online, reserve>>

SitIn(s) ==
    /\ Receives(s)
    /\ Owner[s] \in sittingOut \cap Returners
    /\ sittingOut' = sittingOut \ {Owner[s]}
    /\ UNCHANGED <<seated, spectating, online, reserve>>

-----------------------------------------------------------------------------
(* What the session does by itself *)

\* _run_disconnect_timer after its sleep.  The check of is_connected is the
\* code's; a timer that is still running belongs to a disconnected player.
ReserveExpires(u) ==
    /\ u \in reserve
    /\ reserve' = reserve \ {u}
    /\ sittingOut' = IF u \in seated /\ u \notin online
                       THEN sittingOut \cup {u} ELSE sittingOut
    /\ UNCHANGED <<pc, registered, seated, spectating, online>>

\* The engine sits a player out: a third timeout, or broke at the next deal.
EngineSitsOut(u) ==
    /\ u \in seated
    /\ sittingOut' = sittingOut \cup {u}
    /\ UNCHANGED <<pc, registered, seated, spectating, online, reserve>>

-----------------------------------------------------------------------------
SocketStep(s) == Register(s) \/ Unregister(s) \/ Disconnect(s)

Message(s) ==
    \/ Rejoin(s) \/ TakeSeat(s) \/ Spectate(s)
    \/ Leave(s) \/ SitOut(s) \/ SitIn(s)

SessionStep(u) == ReserveExpires(u) \/ EngineSitsOut(u)

Next ==
    \/ \E s \in Sockets : SocketStep(s) \/ Message(s)
    \/ \E u \in Users : SessionStep(u)

Spec == Init /\ [][Next]_vars

\* The server's own steps: a finally block runs to its end and a timer that is
\* not cancelled fires.  Nothing is assumed of the clients.
Fairness ==
    /\ \A s \in Sockets : WF_vars(Disconnect(s))
    /\ \A u \in Users : WF_vars(ReserveExpires(u))
FairSpec == Spec /\ Fairness

-----------------------------------------------------------------------------
(* Properties *)

SocketsOf(u) == {s \in Sockets : Owner[s] = u}

\* What each variable may hold.
TypeOK ==
    /\ pc \in [Sockets -> {"new", "open", "closing", "closed"}]
    /\ registered \in [Users -> Sockets \cup {NoSocket}]
    /\ seated \subseteq Users
    /\ spectating \subseteq Spectators
    /\ online \subseteq seated
    /\ reserve \subseteq seated
    /\ sittingOut \subseteq seated

\* The broadcaster never keeps a socket whose coroutine is past unregister,
\* nor a socket of somebody else: no event goes to a dead or foreign handle.
RegisteredIsLive ==
    \A u \in Users, s \in Sockets :
        registered[u] = s => Owner[s] = u /\ pc[s] = "open"

\* "ghost sessions cannot accumulate": a player the session takes for
\* connected has a socket that is open, or whose finally block is still going
\* to disconnect him.  This is for users who never join as spectators.
Attended(u) == \E s \in SocketsOf(u) : pc[s] \in {"open", "closing"}
NoGhost == \A u \in Users \ Spectators : u \in online => Attended(u)

\* The reserve timer is for disconnected players only, so that it never sits
\* out one who came back in time (disconnect, _do_reconnect and _do_leave).
TimerOnlyWhenOffline == reserve \cap online = {}

\* A seat whose player is disconnected is either counting down or already
\* sitting out: it is never forgotten.  This is for players whose client sends
\* no SIT_IN and never joins as a spectator (whose LEAVE_TABLE gives up the
\* spectator's entry but cancels the timer of the seat).
Forgotten(u) == u \in seated \ (online \cup reserve \cup sittingOut)
NoForgottenSeat == \A u \in Users \ (Returners \cup Spectators) : ~Forgotten(u)

\* The seats of the users NoForgottenSeat speaks of, as leases.  "lost" is no
\* lease: no step of SeatLease leads there.
Lessees == Users \ (Spectators \cup Returners)
LeaseOf(u) ==
    IF u \notin seated THEN "free"
    ELSE IF u \in online THEN "held"
    ELSE IF u \in reserve THEN "reserved"
    ELSE IF u \in sittingOut THEN "lapsed" ELSE "lost"
Lease == INSTANCE SeatLease WITH
    Users <- Lessees, Capacity <- MaxPlayers, lease <- [u \in Lessees |-> LeaseOf(u)]

\* The racing sockets, the flags and the timers implement the leases: step by
\* step a seat is taken, dropped, returned to, lapsed or released.
LeaseSpec == Lease!Spec

\* A connected player whose one live socket is open gets the table's events:
\* "No ghost sessions accumulate. [...] The lock and the dict semantics make
\* it safe" says the design of the racing reconnect.
OnlineIsReachable ==
    \A u \in online :
        (\A s \in SocketsOf(u) : pc[s] # "closing") /\ Attended(u)
            => registered[u] # NoSocket

\* A player all of whose sockets are closed is sat out sooner or later, unless
\* he opens another one: no seat is kept for ever for somebody who is gone.
Gone(u) == \A s \in SocketsOf(u) : pc[s] \in {"new", "closed"}
GoneIsSatOut ==
    \A u \in Users \ (Spectators \cup Returners) :
        (u \in seated /\ Gone(u)) ~> (u \in sittingOut \/ ~Gone(u))
=============================================================================
