--------------------------- MODULE GatewayProofs ---------------------------
(***************************************************************************)
(* The invariants of Gateway hold for any users, sockets and table size.   *)
(*                                                                         *)
(* The properties need no strengthening beyond the type invariant, but     *)
(* some need that: a seat just taken has no timer because reserve lies     *)
(* within seated, and LEAVE_TABLE as a spectator cancels the timer of a    *)
(* seat only for a user that may spectate.                                 *)
(***************************************************************************)
EXTENDS Gateway, FiniteSetTheorems, TLAPS

\* The inductive invariant: the type invariant and every invariant of the
\* gateway run.
IInv ==
    /\ TypeOK
    /\ RegisteredIsLive
    /\ NoGhost
    /\ TimerOnlyWhenOffline
    /\ NoForgottenSeat

\* Nobody is connected or seated at first.
LEMMA InitIInv == Init => IInv
  BY GatewayAssumption DEF Init, IInv, TypeOK, RegisteredIsLive, NoGhost,
     TimerOnlyWhenOffline, NoForgottenSeat, Forgotten

\* No step of a socket's coroutine, of a message or of the session breaks it.
LEMMA StepIInv == IInv /\ [Next]_vars => IInv'
  <1> SUFFICES ASSUME IInv, [Next]_vars PROVE IInv'
    OBVIOUS
  \* The user's record now names s, which is open.
  <1>1. ASSUME NEW s \in Sockets, Register(s) PROVE IInv'
    <2>1. TypeOK'
      BY <1>1 DEF IInv, Register, sessionVars, TypeOK
    <2>2. RegisteredIsLive'
      BY <1>1 DEF IInv, Register, TypeOK, RegisteredIsLive
    <2>3. NoGhost'
      BY <1>1 DEF IInv, Register, sessionVars, NoGhost, Attended
    <2>4. TimerOnlyWhenOffline' /\ NoForgottenSeat'
      BY <1>1 DEF IInv, Register, sessionVars, TimerOnlyWhenOffline, NoForgottenSeat, Forgotten
    <2> QED
      BY <2>1, <2>2, <2>3, <2>4 DEF IInv
  \* The user's record goes, so it no longer names s; s still attends.
  <1>2. ASSUME NEW s \in Sockets, Unregister(s) PROVE IInv'
    <2>1. TypeOK'
      BY <1>2 DEF IInv, Unregister, sessionVars, TypeOK
    <2>2. RegisteredIsLive'
      BY <1>2, GatewayAssumption DEF IInv, Unregister, TypeOK, RegisteredIsLive
    <2>3. NoGhost'
      BY <1>2 DEF IInv, Unregister, sessionVars, NoGhost, Attended
    <2>4. TimerOnlyWhenOffline' /\ NoForgottenSeat'
      BY <1>2 DEF IInv, Unregister, sessionVars, TimerOnlyWhenOffline, NoForgottenSeat, Forgotten
    <2> QED
      BY <2>1, <2>2, <2>3, <2>4 DEF IInv
  \* A spectator's entry goes, or the player goes offline with a timer.
  <1>3. ASSUME NEW s \in Sockets, Disconnect(s) PROVE IInv'
    <2>1. TypeOK'
      BY <1>3 DEF IInv, Disconnect, sessionVars, TypeOK
    <2>2. RegisteredIsLive'
      BY <1>3 DEF IInv, Disconnect, TypeOK, RegisteredIsLive
    <2>3. NoGhost'
      BY <1>3 DEF IInv, Disconnect, sessionVars, TypeOK, SocketsOf, NoGhost, Attended
    <2>4. TimerOnlyWhenOffline'
      BY <1>3 DEF IInv, Disconnect, sessionVars, TimerOnlyWhenOffline
    <2>5. NoForgottenSeat'
      BY <1>3 DEF IInv, Disconnect, sessionVars, NoForgottenSeat, Forgotten
    <2> QED
      BY <2>1, <2>2, <2>3, <2>4, <2>5 DEF IInv
  \* The timer goes as the player comes online, through an open socket.
  <1>4. ASSUME NEW s \in Sockets, Rejoin(s) PROVE IInv'
    <2>1. TypeOK'
      BY <1>4 DEF IInv, Rejoin, Receives, TypeOK
    <2>2. NoGhost'
      BY <1>4 DEF IInv, Rejoin, Receives, SocketsOf, NoGhost, Attended
    <2>3. TimerOnlyWhenOffline'
      BY <1>4 DEF IInv, Rejoin, Receives, TimerOnlyWhenOffline
    <2>4. NoForgottenSeat'
      BY <1>4 DEF IInv, Rejoin, Receives, NoForgottenSeat, Forgotten
    <2>5. RegisteredIsLive'
      BY <1>4 DEF IInv, Rejoin, Receives, RegisteredIsLive
    <2> QED
      BY <2>1, <2>2, <2>3, <2>4, <2>5 DEF IInv
  \* Whoever has no seat has no timer.
  <1>5. ASSUME NEW s \in Sockets, TakeSeat(s) PROVE IInv'
    <2>1. TypeOK'
      BY <1>5, GatewayAssumption DEF IInv, TakeSeat, Receives, TypeOK
    <2>2. NoGhost'
      BY <1>5 DEF IInv, TakeSeat, Receives, SocketsOf, NoGhost, Attended
    <2>3. TimerOnlyWhenOffline'
      BY <1>5 DEF IInv, TakeSeat, Receives, TypeOK, TimerOnlyWhenOffline
    <2>4. NoForgottenSeat'
      BY <1>5 DEF IInv, TakeSeat, Receives, NoForgottenSeat, Forgotten
    <2>5. RegisteredIsLive'
      BY <1>5 DEF IInv, TakeSeat, Receives, RegisteredIsLive
    <2> QED
      BY <2>1, <2>2, <2>3, <2>4, <2>5 DEF IInv
  \* Only the spectators change.
  <1>6. ASSUME NEW s \in Sockets, Spectate(s) PROVE IInv'
    <2>1. TypeOK'
      BY <1>6 DEF IInv, Spectate, Receives, TypeOK
    <2>2. RegisteredIsLive' /\ NoGhost' /\ TimerOnlyWhenOffline' /\ NoForgottenSeat'
      BY <1>6 DEF IInv, Spectate, Receives, RegisteredIsLive, NoGhost, Attended,
         TimerOnlyWhenOffline, NoForgottenSeat, Forgotten
    <2> QED
      BY <2>1, <2>2 DEF IInv
  \* The timer goes with the seat, or with a spectator's entry.
  <1>7. ASSUME NEW s \in Sockets, Leave(s) PROVE IInv'
    <2>1. TypeOK'
      BY <1>7 DEF IInv, Leave, Receives, TypeOK
    <2>2. NoGhost'
      BY <1>7 DEF IInv, Leave, Receives, NoGhost, Attended
    <2>3. TimerOnlyWhenOffline'
      BY <1>7 DEF IInv, Leave, Receives, TimerOnlyWhenOffline
    <2>4. NoForgottenSeat'
      BY <1>7 DEF IInv, Leave, Receives, TypeOK, NoForgottenSeat, Forgotten
    <2>5. RegisteredIsLive'
      BY <1>7 DEF IInv, Leave, Receives, RegisteredIsLive
    <2> QED
      BY <2>1, <2>2, <2>3, <2>4, <2>5 DEF IInv
  \* More players sit out.
  <1>8. ASSUME NEW s \in Sockets, SitOut(s) PROVE IInv'
    <2>1. TypeOK'
      BY <1>8 DEF IInv, SitOut, Receives, TypeOK
    <2>2. NoForgottenSeat'
      BY <1>8 DEF IInv, SitOut, Receives, NoForgottenSeat, Forgotten
    <2>3. RegisteredIsLive' /\ NoGhost' /\ TimerOnlyWhenOffline'
      BY <1>8 DEF IInv, SitOut, Receives, RegisteredIsLive, NoGhost, Attended, TimerOnlyWhenOffline
    <2> QED
      BY <2>1, <2>2, <2>3 DEF IInv
  \* A returner comes back: NoForgottenSeat is not about him.
  <1>9. ASSUME NEW s \in Sockets, SitIn(s) PROVE IInv'
    <2>1. TypeOK'
      BY <1>9 DEF IInv, SitIn, Receives, TypeOK
    <2>2. NoForgottenSeat'
      BY <1>9 DEF IInv, SitIn, Receives, NoForgottenSeat, Forgotten
    <2>3. RegisteredIsLive' /\ NoGhost' /\ TimerOnlyWhenOffline'
      BY <1>9 DEF IInv, SitIn, Receives, RegisteredIsLive, NoGhost, Attended, TimerOnlyWhenOffline
    <2> QED
      BY <2>1, <2>2, <2>3 DEF IInv
  \* The timer goes as its player is sat out.
  <1>10. ASSUME NEW u \in Users, ReserveExpires(u) PROVE IInv'
    <2>1. TypeOK'
      BY <1>10 DEF IInv, ReserveExpires, TypeOK
    <2>2. TimerOnlyWhenOffline'
      BY <1>10 DEF IInv, ReserveExpires, TimerOnlyWhenOffline
    <2>3. NoForgottenSeat'
      BY <1>10 DEF IInv, ReserveExpires, NoForgottenSeat, Forgotten
    <2>4. RegisteredIsLive' /\ NoGhost'
      BY <1>10 DEF IInv, ReserveExpires, RegisteredIsLive, NoGhost, Attended
    <2> QED
      BY <2>1, <2>2, <2>3, <2>4 DEF IInv
  \* More players sit out.
  <1>11. ASSUME NEW u \in Users, EngineSitsOut(u) PROVE IInv'
    <2>1. TypeOK'
      BY <1>11 DEF IInv, EngineSitsOut, TypeOK
    <2>2. NoForgottenSeat'
      BY <1>11 DEF IInv, EngineSitsOut, NoForgottenSeat, Forgotten
    <2>3. RegisteredIsLive' /\ NoGhost' /\ TimerOnlyWhenOffline'
      BY <1>11 DEF IInv, EngineSitsOut, RegisteredIsLive, NoGhost, Attended, TimerOnlyWhenOffline
    <2> QED
      BY <2>1, <2>2, <2>3 DEF IInv
  <1>12. CASE UNCHANGED vars
    BY <1>12 DEF IInv, vars, TypeOK, RegisteredIsLive, NoGhost, Attended, SocketsOf,
       TimerOnlyWhenOffline, NoForgottenSeat, Forgotten
  <1> QED
    BY <1>1, <1>2, <1>3, <1>4, <1>5, <1>6, <1>7, <1>8, <1>9, <1>10, <1>11, <1>12
       DEF Next, SocketStep, Message, SessionStep

-----------------------------------------------------------------------------
\* IInv holds in every reachable state of the gateway.
THEOREM Invariance == Spec => []IInv
  <1>1. Init => IInv
    BY InitIInv
  <1>2. IInv /\ [Next]_vars => IInv'
    BY StepIInv
  <1> QED
    BY <1>1, <1>2, PTL DEF Spec

\* Every variable stays within its type: in particular no disconnect timer, no
\* status and no online flag outlives its seat (_do_leave, disconnect).
THEOREM TypeCorrect == Spec => []TypeOK
  <1>1. IInv => TypeOK
    BY DEF IInv
  <1> QED
    BY <1>1, Invariance, PTL

\* register overwrites and unregister pops before the session is told, so the
\* broadcaster never holds a socket that is closing or somebody else's.
THEOREM Registered == Spec => []RegisteredIsLive
  <1>1. IInv => RegisteredIsLive
    BY DEF IInv
  <1> QED
    BY <1>1, Invariance, PTL

\* However the sockets of a user who never spectates open and close, the
\* session takes him for connected only while a coroutine of his is there to
\* disconnect him.
THEOREM GhostFree == Spec => []NoGhost
  <1>1. IInv => NoGhost
    BY DEF IInv
  <1> QED
    BY <1>1, Invariance, PTL

\* No disconnect timer runs for a player who is back: _do_reconnect and
\* _do_leave cancel it in the same critical section.
THEOREM TimersOffline == Spec => []TimerOnlyWhenOffline
  <1>1. IInv => TimerOnlyWhenOffline
    BY DEF IInv
  <1> QED
    BY <1>1, Invariance, PTL

\* A seat is never left behind with nothing that would sit its player out.
THEOREM SeatsRemembered == Spec => []NoForgottenSeat
  <1>1. IInv => NoForgottenSeat
    BY DEF IInv
  <1> QED
    BY <1>1, Invariance, PTL

-----------------------------------------------------------------------------
(* Gateway implements SeatLease, for any users, sockets and table size.  The *)
(* type invariant gives that a taken seat has no flag left over, and         *)
(* NoForgottenSeat that every offline seat is reserved or lapsed.  What is   *)
(* added here is that the table is finite and never over its limit, so that  *)
(* the seats of the lessees are within the limit too.                        *)

\* The table is never over its limit: seats are taken one at a time and
\* join_as_player checks the number of players in the same critical section.
WithinLimit == IsFiniteSet(seated) /\ Cardinality(seated) <= MaxPlayers

\* The seats of the lessees as a state function.
Leases == [u \in Lessees |-> LeaseOf(u)]

\* An empty table is within its limit.
LEMMA InitWithinLimit == Init => WithinLimit
  BY FS_EmptySet, GatewayAssumption DEF Init, WithinLimit

\* Only TakeSeat adds a seat, and it checks the limit.
LEMMA StepWithinLimit == WithinLimit /\ [Next]_vars => WithinLimit'
  <1> SUFFICES ASSUME WithinLimit, [Next]_vars PROVE WithinLimit'
    OBVIOUS
  <1> DEFINE n == Cardinality(seated)
  <1>0. IsFiniteSet(seated) /\ n \in Nat /\ n <= MaxPlayers /\ MaxPlayers \in Nat
    BY FS_CardinalityType, GatewayAssumption DEF WithinLimit
  <1>1. ASSUME NEW s \in Sockets, TakeSeat(s) PROVE WithinLimit'
    <2> DEFINE more == seated \cup {Owner[s]}
    <2>1. seated' = more /\ Owner[s] \notin seated /\ n < MaxPlayers
      BY <1>1 DEF TakeSeat
    <2>2. IsFiniteSet(more) /\ Cardinality(more) = n + 1
      BY <1>0, <2>1, FS_AddElement, Zenon
    <2>3. Cardinality(more) <= MaxPlayers
      BY <1>0, <2>1, <2>2
    <2> QED
      BY <2>1, <2>2, <2>3, Zenon DEF WithinLimit
  <1>2. ASSUME NEW s \in Sockets, Leave(s) PROVE WithinLimit'
    <2> DEFINE fewer == seated \ {Owner[s]}
    <2>1. seated' = seated \/ seated' = fewer
      BY <1>2 DEF Leave
    <2>2. IsFiniteSet(fewer) /\ Cardinality(fewer) \in {n, n - 1}
      BY <1>0, FS_RemoveElement
    <2>3. Cardinality(fewer) <= MaxPlayers
      BY <1>0, <2>2
    <2> QED
      BY <2>1, <2>2, <2>3, <1>0, Zenon DEF WithinLimit
  <1>3. ASSUME seated' = seated PROVE WithinLimit'
    BY <1>3 DEF WithinLimit
  <1> QED
    BY <1>1, <1>2, <1>3 DEF Next, SocketStep, Message, SessionStep, Register, Unregister,
       Disconnect, Rejoin, Spectate, SitOut, SitIn, ReserveExpires, EngineSitsOut,
       sessionVars, vars

\* Whatever an owner does leaves the leases of the others alone: a step that
\* changes one user's flags is a step of the abstract lease of that user.
LEMMA OneLease ==
  ASSUME NEW u \in Users, NEW to,
         \A v \in Users \ {u} :
             /\ v \in seated' <=> v \in seated
             /\ v \in online' <=> v \in online
             /\ v \in reserve' <=> v \in reserve
             /\ v \in sittingOut' <=> v \in sittingOut,
         LeaseOf(u)' = to
  PROVE  Leases' = IF u \in Lessees THEN [Leases EXCEPT ![u] = to] ELSE Leases
  <1>1. \A v \in Lessees \ {u} : LeaseOf(v)' = LeaseOf(v)
    BY DEF LeaseOf, Lessees
  <1> QED
    BY <1>1 DEF Leases, Lessees

\* The lessees' taken seats are some of the seats, so the limit holds for them.
LEMMA RoomForLessee ==
  ASSUME IsFiniteSet(seated), Cardinality(seated) < MaxPlayers
  PROVE  Cardinality(Lease!Taken) < MaxPlayers
  <1>1. Lease!Taken \subseteq seated
    BY DEF Lease!Taken, LeaseOf
  <1>2. IsFiniteSet(Lease!Taken) /\ Cardinality(Lease!Taken) <= Cardinality(seated)
    BY <1>1, FS_Subset
  <1> QED
    BY <1>2, FS_CardinalityType, GatewayAssumption

\* The instance has its own copy of FiniteSets.
LEMMA SameCardinality == ASSUME NEW S PROVE Lease!Cardinality(S) = Cardinality(S)
  BY DEF Lease!Cardinality, Cardinality, Lease!IsFiniteSet, IsFiniteSet

\* A change of one user's lease between these two values is an abstract step.
LEMMA LeaseStep ==
  ASSUME NEW u \in Lessees,
         \/ LeaseOf(u) = "free" /\ LeaseOf(u)' = "held" /\ Cardinality(Lease!Taken) < MaxPlayers
         \/ LeaseOf(u) = "held" /\ LeaseOf(u)' = "reserved"
         \/ LeaseOf(u) \in {"reserved", "lapsed"} /\ LeaseOf(u)' = "held"
         \/ LeaseOf(u) = "reserved" /\ LeaseOf(u)' = "lapsed"
         \/ LeaseOf(u) \in {"held", "reserved", "lapsed"} /\ LeaseOf(u)' = "free",
         Leases' = [Leases EXCEPT ![u] = LeaseOf(u)']
  PROVE  Lease!Next
  <1>1. Leases[u] = LeaseOf(u)
    BY DEF Leases
  <1>2. CASE LeaseOf(u) = "free" /\ LeaseOf(u)' = "held" /\ Cardinality(Lease!Taken) < MaxPlayers
    BY <1>1, <1>2, SameCardinality, Zenon DEF Leases, Lease!Take, Lease!Becomes, Lease!Next
  <1>3. CASE LeaseOf(u) = "held" /\ LeaseOf(u)' = "reserved"
    BY <1>1, <1>3, Zenon DEF Leases, Lease!Drop, Lease!Becomes, Lease!Next
  <1>4. CASE LeaseOf(u) \in {"reserved", "lapsed"} /\ LeaseOf(u)' = "held"
    BY <1>1, <1>4, Zenon DEF Leases, Lease!Return, Lease!Becomes, Lease!Next
  <1>5. CASE LeaseOf(u) = "reserved" /\ LeaseOf(u)' = "lapsed"
    BY <1>1, <1>5, Zenon DEF Leases, Lease!Lapse, Lease!Becomes, Lease!Next
  <1>6. CASE LeaseOf(u) \in {"held", "reserved", "lapsed"} /\ LeaseOf(u)' = "free"
    BY <1>1, <1>6, Zenon DEF Leases, Lease!Release, Lease!Becomes, Lease!Next
  <1> QED
    BY <1>2, <1>3, <1>4, <1>5, <1>6

\* Every step of the gateway is a step of one lease, or of none.
LEMMA StepIsLeaseStep == IInv /\ WithinLimit /\ [Next]_vars => Lease!Next \/ Leases' = Leases
  <1> SUFFICES ASSUME IInv, WithinLimit, [Next]_vars
               PROVE  Lease!Next \/ Leases' = Leases
    OBVIOUS
  <1> USE DEF Lessees
  \* The flags of an offline lessee say which lease it is.
  <1>0. \A u \in Lessees : LeaseOf(u) \in {"free", "held", "reserved", "lapsed"}
    BY DEF IInv, NoForgottenSeat, Forgotten, LeaseOf
  \* No flag of a lessee changes.
  <1>1. ASSUME \A v \in Lessees : LeaseOf(v)' = LeaseOf(v) PROVE Leases' = Leases
    BY <1>1 DEF Leases
  <1>2. ASSUME NEW s \in Sockets, Register(s) \/ Unregister(s) \/ Spectate(s)
        PROVE  Leases' = Leases
    BY <1>1, <1>2 DEF Register, Unregister, Spectate, sessionVars, LeaseOf
  \* A player sat out keeps the lease he has: only an offline seat without a
  \* timer would change, and that one sits out already.
  <1>3. ASSUME NEW u \in Users, seated' = seated, online' = online, reserve' = reserve,
               sittingOut' = sittingOut \cup {u}
        PROVE  Leases' = Leases
    BY <1>1, <1>3, <1>0 DEF LeaseOf
  \* held -> reserved
  <1>4. ASSUME NEW s \in Sockets, Disconnect(s) PROVE Lease!Next \/ Leases' = Leases
    <2> DEFINE u == Owner[s]
    <2>0. u \in Users
      BY GatewayAssumption
    <2>1. CASE UNCHANGED <<seated, online, reserve, sittingOut>>
      BY <1>1, <2>1 DEF LeaseOf
    <2>2. CASE /\ u \in online /\ online' = online \ {u} /\ reserve' = reserve \cup {u}
               /\ UNCHANGED <<seated, sittingOut>>
      <3>1. LeaseOf(u) = "held" /\ LeaseOf(u)' = "reserved"
        BY <2>2 DEF LeaseOf, IInv, TypeOK
      <3>2. Leases' = IF u \in Lessees THEN [Leases EXCEPT ![u] = LeaseOf(u)'] ELSE Leases
        BY <2>0, <2>2, OneLease
      <3> QED
        BY <3>1, <3>2, LeaseStep
    <2> QED
      BY <1>4, <2>1, <2>2 DEF Disconnect, sessionVars
  \* reserved or lapsed -> held
  <1>5. ASSUME NEW s \in Sockets, Rejoin(s) PROVE Lease!Next \/ Leases' = Leases
    <2> DEFINE u == Owner[s]
    <2>0. u \in Users
      BY GatewayAssumption
    <2>1. LeaseOf(u) # "free" /\ LeaseOf(u)' = "held"
      BY <1>5 DEF Rejoin, LeaseOf
    <2>2. Leases' = IF u \in Lessees THEN [Leases EXCEPT ![u] = LeaseOf(u)'] ELSE Leases
      BY <1>5, <2>0, OneLease DEF Rejoin
    <2>3. CASE u \in Lessees /\ LeaseOf(u) \in {"reserved", "lapsed"}
      BY <2>1, <2>2, <2>3, LeaseStep
    <2>4. CASE u \in Lessees /\ LeaseOf(u) = "held"
      BY <2>1, <2>2, <2>4 DEF Leases
    <2> QED
      BY <1>0, <2>1, <2>2, <2>3, <2>4
  \* free -> held, within the limit
  <1>6. ASSUME NEW s \in Sockets, TakeSeat(s) PROVE Lease!Next \/ Leases' = Leases
    <2> DEFINE u == Owner[s]
    <2>0. u \in Users
      BY GatewayAssumption
    <2>1. LeaseOf(u) = "free" /\ LeaseOf(u)' = "held"
      BY <1>6 DEF TakeSeat, LeaseOf
    <2>2. Cardinality(Lease!Taken) < MaxPlayers
      BY <1>6, RoomForLessee DEF TakeSeat, WithinLimit
    <2>3. Leases' = IF u \in Lessees THEN [Leases EXCEPT ![u] = LeaseOf(u)'] ELSE Leases
      BY <1>6, <2>0, OneLease DEF TakeSeat
    <2> QED
      BY <2>1, <2>2, <2>3, LeaseStep
  \* held, reserved or lapsed -> free; a spectator's entry is no lease
  <1>7. ASSUME NEW s \in Sockets, Leave(s) PROVE Lease!Next \/ Leases' = Leases
    <2> DEFINE u == Owner[s]
    <2>0. u \in Users
      BY GatewayAssumption
    <2>1. Leases' = IF u \in Lessees THEN [Leases EXCEPT ![u] = LeaseOf(u)'] ELSE Leases
      BY <1>7, <2>0, OneLease DEF Leave
    <2>2. u \in Lessees => LeaseOf(u)' = "free"
      BY <1>7 DEF Leave, LeaseOf, IInv, TypeOK
    <2>3. CASE u \in Lessees /\ LeaseOf(u) = "free"
      BY <2>1, <2>2, <2>3 DEF Leases
    <2>4. CASE u \in Lessees /\ LeaseOf(u) # "free"
      BY <1>0, <2>1, <2>2, <2>4, LeaseStep
    <2> QED
      BY <2>1, <2>3, <2>4
  <1>8. ASSUME NEW s \in Sockets, SitOut(s) PROVE Leases' = Leases
    <2>1. Owner[s] \in Users
      BY GatewayAssumption
    <2> QED
      BY <1>3, <1>8, <2>1 DEF SitOut
  \* SIT_IN is for returners, who are no lessees.
  <1>9. ASSUME NEW s \in Sockets, SitIn(s) PROVE Leases' = Leases
    BY <1>1, <1>9 DEF SitIn, LeaseOf
  \* reserved -> lapsed
  <1>10. ASSUME NEW u \in Users, ReserveExpires(u) PROVE Lease!Next \/ Leases' = Leases
    <2>1. u \in seated /\ u \notin online
      BY <1>10 DEF ReserveExpires, IInv, TypeOK, TimerOnlyWhenOffline
    <2>2. LeaseOf(u) = "reserved" /\ LeaseOf(u)' = "lapsed"
      BY <1>10, <2>1 DEF ReserveExpires, LeaseOf
    <2>3. Leases' = IF u \in Lessees THEN [Leases EXCEPT ![u] = LeaseOf(u)'] ELSE Leases
      BY <1>10, OneLease DEF ReserveExpires
    <2> QED
      BY <2>2, <2>3, LeaseStep
  <1>11. ASSUME NEW u \in Users, EngineSitsOut(u) PROVE Leases' = Leases
    BY <1>3, <1>11 DEF EngineSitsOut
  <1>12. CASE UNCHANGED vars
    BY <1>1, <1>12 DEF vars, LeaseOf
  <1> QED
    BY <1>2, <1>4, <1>5, <1>6, <1>7, <1>8, <1>9, <1>10, <1>11, <1>12
       DEF Next, SocketStep, Message, SessionStep

-----------------------------------------------------------------------------
\* join_as_player never seats more than config.max_players.
THEOREM LimitKept == Spec => []WithinLimit
  BY InitWithinLimit, StepWithinLimit, PTL DEF Spec

\* For any users, sockets and table size, the sockets' coroutines, the messages
\* and the session's timers implement the leases of the seats.
THEOREM Refinement == Spec => LeaseSpec
  <1>1. Init => Lease!Init
    BY DEF Init, Lease!Init, LeaseOf
  <1>2. IInv /\ WithinLimit /\ [Next]_vars => Lease!Next \/ Leases' = Leases
    BY StepIsLeaseStep
  <1>3. IInv /\ WithinLimit /\ [Next]_vars
        => [Lease!Next]_[u \in Lessees |-> LeaseOf(u)]
    BY <1>2 DEF Leases
  <1> QED
    BY <1>1, <1>3, Invariance, LimitKept, PTL DEF Spec, LeaseSpec, Lease!Spec
=============================================================================
