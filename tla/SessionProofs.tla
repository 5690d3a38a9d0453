----------------------------- MODULE SessionProofs -----------------------------
(***************************************************************************)
(* Proofs about TableSession, for any players, seats, stacks, rules and    *)
(* calls: a table that is played at keeps its chips, until somebody sits   *)
(* down again in a hand he has left, and nobody ever enters a hand that is *)
(* on, disturbs its timer, or is forgotten when the next one is due.       *)
(*                                                                         *)
(* The lemmas of the engine say what a call of it makes of one hand; here  *)
(* the hands, the seats and the tasks of a session are put together.  Two  *)
(* invariants serve: SessionInv, with the chips, as long as nobody has sat *)
(* down again, and TableInv, which knows no numbers, for ever.             *)
(***************************************************************************)
EXTENDS TableSession, EngineLemmas

-----------------------------------------------------------------------------
(* Players who sit out and in, buy chips, come and go *)

\* HandOn tells whether a hand is on.
LEMMA HandOnIs ==
    ASSUME NEW s
    PROVE  /\ Playing(s) => HandOn(s)
           /\ Idle(s) => ~HandOn(s) /\ s.hand.phase \notin BettingPhases /\ s.hand.turn = NoSeat
  <1>1. Playing(s) => HandOn(s)
    BY DEF Playing, HandOn, BettingPhases, BetweenHands
  <1>2. Idle(s) => ~HandOn(s)
    BY DEF Idle, HandOn, BetweenHands
  <1> QED
    BY <1>1, <1>2, IdleIs

\* A new status of somebody who had no cards, or is to have none, and new chips
\* between hands
LEMMA PlayerSound ==
    ASSUME NEW s, NEW chips, SoundTable(s, chips), NEW u \in Seated(s), NEW p \in SomePlayer,
           p.seat = s.players[u].seat, p.stack = s.players[u].stack \/ ~HandOn(s),
           p.status \in {"WAITING", "SIT_OUT"} \/ ~HandOn(s),
           NEW r, r = [s EXCEPT !.players = [s.players EXCEPT ![u] = p]]
    PROVE  /\ SoundTable(r, chips + p.stack - s.players[u].stack)
           /\ SameTable(r, s) /\ r.hand = s.hand
  <1> DEFINE x == chips + p.stack - s.players[u].stack
  <1>1. s \in Games /\ OwnSeats(s.players)
    BY DEF SoundTable
  <1>2. /\ r \in Games /\ r.hand = s.hand /\ r.phase = s.phase /\ r.order = s.order
        /\ Seated(r) = Seated(s) /\ r.players[u] = p
        /\ \A v \in Seated(s) \ {u} : r.players[v] = s.players[v]
        /\ SameTable(r, s) /\ OwnSeats(r.players)
    BY <1>1, PlayerChanged
  <1>3. /\ IsFiniteSet(Seated(s)) /\ s.players[u].stack \in Nat /\ p.stack \in Nat
        /\ \A v \in Seated(s) : s.players[v].stack \in Nat
    BY <1>1, GameIs DEF SomePlayer
  <1>4. Ordered(r)
    BY <1>2 DEF SoundTable, Ordered
  <1>5. chips \in Nat
    BY ChipsAre
  <1>6. CASE Playing(s) /\ Bank(s) = chips
    <2>1. p.stack = s.players[u].stack /\ p.status \in {"WAITING", "SIT_OUT"}
      BY <1>6, HandOnIs
    <2>2. \A v \in Seated(s) : r.players[v].stack = s.players[v].stack
      BY <1>2, <2>1
    <2>3. Dealt(r)
      BY <1>2, <1>6, <2>1 DEF Playing, InPlay, Dealt
    <2>4. BetsCovered(r)
      BY <1>2, <1>6, <2>2 DEF Playing, InPlay, BetsCovered
    <2>5. Playing(r)
      BY <1>2, <1>6, <2>3, <2>4 DEF Playing, InPlay
    <2>6. Bank(r) = Bank(s)
      <3>1. [v \in Seated(r) \ DOMAIN r.hand.start |-> r.players[v].stack]
               = [v \in Seated(s) \ DOMAIN s.hand.start |-> s.players[v].stack]
        BY <1>2, <2>2
      <3> QED
        BY <1>2, <3>1, Zenon DEF Bank
    <2>7. x = chips
      BY <1>3, <1>5, <2>1
    <2> QED
      BY <1>2, <1>4, <1>6, <2>5, <2>6, <2>7 DEF SoundTable
  <1>7. CASE Idle(s) /\ StacksOf(s.players) = chips
    <2> DEFINE f == [v \in Seated(s) |-> r.players[v].stack]
               e == [v \in Seated(s) |-> s.players[v].stack]
    <2>1. f \in [Seated(s) -> Int] /\ e \in [Seated(s) -> Int]
          /\ \A v \in Seated(s) \ {u} : f[v] = e[v]
      BY <1>2, <1>3
    <2>2. StacksOf(r.players) = SumFunction(f) /\ StacksOf(s.players) = SumFunction(e)
      BY <1>2 DEF StacksOf, Seated
    <2>3. f[u] = p.stack /\ e[u] = s.players[u].stack
      BY <1>2
    <2> HIDE DEF f, e
    <2>4. SumFunction(f) = SumFunction(e) - e[u] + f[u]
      BY <1>3, <2>1, SumChanged
    <2>5. StacksOf(r.players) = x
      BY <1>3, <1>5, <1>7, <2>2, <2>3, <2>4
    <2>6. Idle(r)
      BY <1>2, <1>7 DEF Idle
    <2> QED
      BY <1>2, <1>4, <2>5, <2>6 DEF SoundTable
  <1> QED
    BY <1>6, <1>7 DEF SoundTable

\* SetStatus, as it is called
LEMMA StatusSound ==
    ASSUME NEW s, NEW chips, SoundTable(s, chips), NEW u \in Seated(s),
           NEW status \in {"WAITING", "SIT_OUT"}
    PROVE  LET r == SetStatus(s, u, status)
           IN  SoundTable(r, chips) /\ SameTable(r, s) /\ r.hand = s.hand
  <1> DEFINE p == [s.players[u] EXCEPT !.status = status]
             r == SetStatus(s, u, status)
  <1>1. /\ s.players[u] \in SomePlayer /\ s \in Games
        /\ s.players \in [Seated(s) -> SomePlayer] /\ s.players[u].stack \in Nat
    BY GameIs DEF SoundTable
  <1>2. /\ p \in SomePlayer /\ p.seat = s.players[u].seat /\ p.stack = s.players[u].stack
        /\ p.status = status
    BY <1>1 DEF SomePlayer, Statuses
  <1>3. r = [s EXCEPT !.players = [s.players EXCEPT ![u] = p]]
    BY <1>1 DEF SetStatus, Games
  <1> HIDE DEF p, r
  <1>4. /\ SoundTable(r, chips + p.stack - s.players[u].stack)
        /\ SameTable(r, s) /\ r.hand = s.hand
    BY <1>2, <1>3, PlayerSound
  <1>5. chips + p.stack - s.players[u].stack = chips
    BY <1>1, <1>2, ChipsAre
  <1> QED
    BY <1>4, <1>5 DEF r

\* The table without, and with, one of its players
LEMMA StacksSplit ==
    ASSUME NEW S, IsFiniteSet(S), NEW f \in [S -> Nat], NEW T, IsFiniteSet(T), NEW e \in [T -> Nat],
           NEW x \in T, S = T \ {x}, \A y \in S : f[y] = e[y]
    PROVE  SumFunction(e) = SumFunction(f) + e[x] /\ SumFunction(f) \in Nat
  <1>1. f \in [S -> Int] /\ e \in [T -> Int] /\ S \in SUBSET S /\ T \in SUBSET T /\ S \in SUBSET T
    OBVIOUS
  <1>2. SumFunction(f) = SumFunctionOnSet(f, S) /\ SumFunction(e) = SumFunctionOnSet(e, T)
    BY <1>1, SumFunctionIs
  <1>3. SumFunctionOnSet(e, T) = e[x] + SumFunctionOnSet(e, S)
    BY <1>1, SumStep
  <1>4. SumFunctionOnSet(f, S) = SumFunctionOnSet(e, S)
    BY <1>1, SumAgree
  <1>5. SumFunctionOnSet(f, S) \in Nat
    BY <1>1, SumNat
  <1> QED
    BY <1>2, <1>3, <1>4, <1>5

\* A player sits down on a free seat; in a hand that is on he has no part in it,
\* as long as he has not been in it before.
Seating(s, u, p) ==
    [s EXCEPT !.players = [v \in Seated(s) \cup {u} |-> IF v = u THEN p ELSE s.players[v]],
              !.order   = Append(s.order, u)]

\* The table with the new player is in order, and richer by his stack.
LEMMA SeatingSound ==
    ASSUME NEW s, NEW chips, SoundTable(s, chips), NEW u \in Users \ Seated(s),
           NEW p \in SomePlayer, p.seat \notin Seats(s),
           HandOn(s) => p.status = "WAITING" /\ u \notin DOMAIN s.hand.start
    PROVE  LET r == Seating(s, u, p)
           IN  /\ SoundTable(r, chips + p.stack)
               /\ Seated(r) = Seated(s) \cup {u} /\ r.hand = s.hand
  <1> DEFINE S == Seated(s)
             T == S \cup {u}
             ps == [v \in T |-> IF v = u THEN p ELSE s.players[v]]
             r == Seating(s, u, p)
             D == DOMAIN s.hand.start
  <1>1. s \in Games /\ OwnSeats(s.players) /\ Ordered(s)
    BY DEF SoundTable
  <1>2. /\ s.players \in [S -> SomePlayer] /\ S \subseteq Users /\ IsFiniteSet(S)
        /\ s.order \in Seq(Users) /\ \A v \in S : s.players[v].stack \in Nat
        /\ p.stack \in Nat /\ u \notin S
    BY <1>1, GameIs DEF SomePlayer
  <1>3. /\ ps \in [T -> SomePlayer] /\ T \subseteq Users /\ ps[u] = p
        /\ \A v \in S : ps[v] = s.players[v]
    BY <1>2
  <1>4. IsFiniteSet(T) /\ S = T \ {u} /\ u \in T
    BY <1>2, FS_AddElement
  <1>5. r = [s EXCEPT !.players = ps, !.order = Append(s.order, u)]
    BY DEF Seating
  <1>6. DOMAIN s.players = S
    BY DEF Seated
  <1> HIDE DEF ps, r, S
  <1>7. ps \in OverSomeUsers(SomePlayer) /\ DOMAIN ps = T
    BY <1>3, OverSomeUsersIs
  <1>8. Append(s.order, u) \in Seq(Users)
    BY <1>2
  <1>9. /\ r \in Games /\ r.players = ps /\ r.order = Append(s.order, u)
        /\ r.hand = s.hand /\ r.phase = s.phase
    BY <1>1, <1>5, <1>7, <1>8 DEF Games
  <1>10. Seated(r) = T
    BY <1>7, <1>9 DEF Seated
  <1>11. OwnSeats(r.players)
    <2>1. \A v \in S : s.players[v].seat \in Seats(s)
      BY DEF Seats, S
    <2>2. \A v, w \in S : s.players[v].seat = s.players[w].seat => v = w
      BY <1>1, <1>6 DEF OwnSeats
    <2> QED
      BY <1>3, <1>7, <1>9, <2>1, <2>2 DEF OwnSeats
  <1>12. Ordered(r)
    <2>1. ToSet(s.order) = S /\ IsInjective(s.order)
      BY <1>1 DEF Ordered, S
    <2>2. ToSet(Append(s.order, u)) = T /\ IsInjective(Append(s.order, u))
      BY <1>2, <2>1, AppendIs
    <2> QED
      BY <1>9, <1>10, <2>2 DEF Ordered
  <1>13. chips \in Nat
    BY ChipsAre
  <1>14. CASE Playing(s) /\ Bank(s) = chips
    <2> DEFINE f == [v \in S \ D |-> s.players[v].stack]
               e == [v \in T \ D |-> r.players[v].stack]
    <2>1. p.status = "WAITING" /\ u \notin D
      BY <1>14, HandOnIs
    <2>2. Dealt(r)
      BY <1>3, <1>9, <1>10, <1>14, <2>1 DEF Playing, InPlay, Dealt, S
    <2>3. BetsCovered(r)
      <3>1. \A v \in D : v \in Seated(r) <=> v \in Seated(s)
        BY <1>10, <2>1 DEF S
      <3>2. \A v \in Seated(s) : r.players[v] = s.players[v]
        BY <1>3, <1>9 DEF S
      <3> QED
        BY <1>9, <1>14, <3>1, <3>2 DEF Playing, InPlay, BetsCovered
    <2>4. Playing(r)
      BY <1>9, <1>11, <1>14, <2>2, <2>3 DEF Playing, InPlay
    <2>5. f \in [S \ D -> Nat] /\ e \in [T \ D -> Nat] /\ e[u] = p.stack
          /\ \A v \in S \ D : f[v] = e[v]
      BY <1>2, <1>3, <1>9, <2>1
    <2>6. /\ IsFiniteSet(S \ D) /\ IsFiniteSet(T \ D) /\ u \in T \ D
          /\ S \ D = (T \ D) \ {u}
      BY <1>2, <1>4, <2>1, FS_Subset
    <2>7. Bank(r) = SumFunction(s.hand.start) + SumFunction(e)
      BY <1>9, <1>10, Zenon DEF Bank
    <2>8. Bank(s) = SumFunction(s.hand.start) + SumFunction(f)
      BY Zenon DEF Bank, S
    <2> HIDE DEF f, e, D
    <2>9. SumFunction(e) = SumFunction(f) + e[u] /\ SumFunction(f) \in Nat
      <3> DEFINE A == S \ D
                 B == T \ D
      <3>1. /\ f \in [A -> Nat] /\ e \in [B -> Nat] /\ \A v \in A : f[v] = e[v]
            /\ IsFiniteSet(A) /\ IsFiniteSet(B) /\ u \in B /\ A = B \ {u}
        BY <2>5, <2>6
      <3> HIDE DEF A, B
      <3> QED
        BY ONLY <3>1, StacksSplit
    <2>10. SumFunction(s.hand.start) \in Int
      <3>1. s.hand.start \in [DOMAIN s.hand.start -> Int]
        BY <1>1, GameIs
      <3>2. IsFiniteSet(DOMAIN s.hand.start) /\ DOMAIN s.hand.start \in SUBSET DOMAIN s.hand.start
        BY <1>14, ContributionsAre DEF Playing
      <3>3. SumFunctionOnSet(s.hand.start, DOMAIN s.hand.start) \in Int
        BY <3>1, <3>2, SumStep
      <3> QED
        BY <3>1, <3>3, SumFunctionIs
    <2>11. Bank(r) = chips + p.stack
      BY <1>2, <1>14, <2>5, <2>7, <2>8, <2>9, <2>10
    <2> QED
      BY <1>9, <1>10, <1>11, <1>12, <2>4, <2>11 DEF SoundTable, r, S
  <1>15. CASE Idle(s) /\ StacksOf(s.players) = chips
    <2> DEFINE f == [v \in S |-> s.players[v].stack]
               e == [v \in T |-> r.players[v].stack]
    <2>1. f \in [S -> Nat] /\ e \in [T -> Nat] /\ e[u] = p.stack /\ \A v \in S : f[v] = e[v]
      BY <1>2, <1>3, <1>9
    <2>2. StacksOf(r.players) = SumFunction(e)
      BY <1>7, <1>9, Zenon DEF StacksOf
    <2>3. StacksOf(s.players) = SumFunction(f)
      BY <1>6, Zenon DEF StacksOf
    <2> HIDE DEF f, e
    <2>4. SumFunction(e) = SumFunction(f) + e[u] /\ SumFunction(f) \in Nat
      <3>1. /\ f \in [S -> Nat] /\ e \in [T -> Nat] /\ \A v \in S : f[v] = e[v]
            /\ IsFiniteSet(S) /\ IsFiniteSet(T) /\ u \in T /\ S = T \ {u}
        BY <1>2, <1>4, <2>1
      <3> HIDE DEF T
      <3> QED
        BY ONLY <3>1, StacksSplit
    <2>5. StacksOf(r.players) = chips + p.stack
      BY <1>15, <2>1, <2>2, <2>3, <2>4
    <2>6. Idle(r)
      BY <1>9, <1>15 DEF Idle
    <2> QED
      BY <1>9, <1>10, <1>11, <1>12, <2>5, <2>6 DEF SoundTable, r, S
  <1> QED
    BY <1>14, <1>15 DEF SoundTable

\* A player leaves.  What he put into a hand that is on stays there, with the
\* rest of the stack he started it with.
LEMMA UnseatSound ==
    ASSUME NEW s, NEW chips, SoundTable(s, chips), NEW u \in Seated(s)
    PROVE  LET r == Unseat(s, u)
           IN  /\ SoundTable(r, chips - (IF HandOn(s) /\ u \in DOMAIN s.hand.start
                                           THEN 0 ELSE s.players[u].stack))
               /\ Seated(r) = Seated(s) \ {u} /\ r.hand = s.hand
  <1> DEFINE S == Seated(s)
             T == S \ {u}
             ps == [v \in T |-> s.players[v]]
             q == Filter(s.order, T)
             r == Unseat(s, u)
             D == DOMAIN s.hand.start
  <1>1. s \in Games /\ OwnSeats(s.players) /\ Ordered(s)
    BY DEF SoundTable
  <1>2. /\ s.players \in [S -> SomePlayer] /\ S \subseteq Users /\ IsFiniteSet(S)
        /\ s.order \in Seq(Users) /\ \A v \in S : s.players[v].stack \in Nat
    BY <1>1, GameIs
  <1>3. /\ ps \in [T -> SomePlayer] /\ T \subseteq Users /\ \A v \in T : ps[v] = s.players[v]
    BY <1>2
  <1>4. IsFiniteSet(T)
    BY <1>2, FS_RemoveElement
  <1>5. r = [s EXCEPT !.players = ps, !.order = q]
    BY DEF Unseat
  <1>6. DOMAIN s.players = S
    BY DEF Seated
  <1>7. u \in S /\ s.players[u].stack \in Nat
    BY <1>2
  <1> HIDE DEF ps, r, S, q
  <1>8. ps \in OverSomeUsers(SomePlayer) /\ DOMAIN ps = T
    BY <1>3, OverSomeUsersIs
  <1>9. /\ q \in Seq(Users) /\ ToSet(q) = ToSet(s.order) \cap T
        /\ IsInjective(s.order) => IsInjective(q)
    BY <1>2, FilterIs DEF q
  <1>10. /\ r \in Games /\ r.players = ps /\ r.order = q
         /\ r.hand = s.hand /\ r.phase = s.phase
    BY <1>1, <1>5, <1>8, <1>9 DEF Games
  <1>11. Seated(r) = T
    BY <1>8, <1>10 DEF Seated
  <1>12. OwnSeats(r.players)
    <2>1. \A v, w \in S : s.players[v].seat = s.players[w].seat => v = w
      BY <1>1, <1>6 DEF OwnSeats
    <2> QED
      BY <1>3, <1>8, <1>10, <2>1 DEF OwnSeats
  <1>13. Ordered(r)
    <2>1. ToSet(s.order) = S /\ IsInjective(s.order)
      BY <1>1 DEF Ordered, S
    <2> QED
      BY <1>9, <1>10, <1>11, <2>1 DEF Ordered
  <1>14. chips \in Nat
    BY ChipsAre
  <1>15. CASE Playing(s) /\ Bank(s) = chips
    <2> DEFINE f == [v \in T \ D |-> r.players[v].stack]
               e == [v \in S \ D |-> s.players[v].stack]
    <2>1. \A v \in T : r.players[v] = s.players[v]
      BY <1>3, <1>10
    <2>2. Dealt(r)
      BY <1>10, <1>11, <1>15, <2>1 DEF Playing, InPlay, Dealt, S
    <2>3. BetsCovered(r)
      <3>1. \A v \in D : s.hand.bets[v] \in Nat /\ s.hand.start[v] \in Nat
        BY <1>1, GameIs
      <3>2. \A v \in D : s.hand.bets[v] + (IF v \in S THEN s.players[v].stack ELSE 0)
                            <= s.hand.start[v]
        BY <1>15 DEF Playing, InPlay, BetsCovered, S
      <3>3. \A v \in D : r.hand.bets[v] + (IF v \in Seated(r) THEN r.players[v].stack ELSE 0)
                            <= r.hand.start[v]
        <4> TAKE v \in D
        <4>1. CASE v = u
          <5>1. v \notin Seated(r)
            BY <1>11, <4>1
          <5> QED
            BY <1>7, <1>10, <3>1, <3>2, <4>1, <5>1
        <4>2. CASE v # u
          BY <1>10, <1>11, <2>1, <3>2, <4>2
        <4> QED
          BY <4>1, <4>2
      <3> QED
        BY <1>10, <1>15, <3>3 DEF Playing, InPlay, BetsCovered
    <2>4. Playing(r)
      BY <1>10, <1>12, <1>15, <2>2, <2>3 DEF Playing, InPlay
    <2>5. Bank(r) = SumFunction(s.hand.start) + SumFunction(f)
      BY <1>10, <1>11, Zenon DEF Bank
    <2>6. Bank(s) = SumFunction(s.hand.start) + SumFunction(e)
      BY Zenon DEF Bank, S
    <2>7. HandOn(s)
      BY <1>15, HandOnIs
    <2>8. CASE u \in D
      <3>1. f = e
        BY <1>7, <2>1, <2>8
      <3>2. Bank(r) = Bank(s)
        BY <2>5, <2>6, <3>1
      <3>3. chips = chips - 0
        BY <1>14
      <3> QED
        BY <1>10, <1>11, <1>12, <1>13, <1>15, <2>4, <2>7, <2>8, <3>2, <3>3
           DEF SoundTable, r, S
    <2>9. CASE u \notin D
      <3>1. f \in [T \ D -> Nat] /\ e \in [S \ D -> Nat] /\ e[u] = s.players[u].stack
            /\ \A v \in T \ D : f[v] = e[v]
        BY <1>2, <1>7, <2>1, <2>9
      <3>2. /\ IsFiniteSet(S \ D) /\ IsFiniteSet(T \ D) /\ u \in S \ D
            /\ T \ D = (S \ D) \ {u}
        BY <1>2, <1>4, <1>7, <2>9, FS_Subset
      <3> HIDE DEF f, e, D
      <3>3. SumFunction(e) = SumFunction(f) + e[u] /\ SumFunction(f) \in Nat
        <4> DEFINE A == T \ D
                   B == S \ D
        <4>1. /\ f \in [A -> Nat] /\ e \in [B -> Nat] /\ \A v \in A : f[v] = e[v]
              /\ IsFiniteSet(A) /\ IsFiniteSet(B) /\ u \in B /\ A = B \ {u}
          BY <3>1, <3>2
        <4> HIDE DEF A, B
        <4> QED
          BY ONLY <4>1, StacksSplit
      <3>4. SumFunction(s.hand.start) \in Int
        <4>1. s.hand.start \in [DOMAIN s.hand.start -> Int]
          BY <1>1, GameIs
        <4>2. IsFiniteSet(DOMAIN s.hand.start)
              /\ DOMAIN s.hand.start \in SUBSET DOMAIN s.hand.start
          BY <1>15, ContributionsAre DEF Playing
        <4>3. SumFunctionOnSet(s.hand.start, DOMAIN s.hand.start) \in Int
          BY <4>1, <4>2, SumStep
        <4> QED
          BY <4>1, <4>3, SumFunctionIs
      <3>5. Bank(r) = chips - s.players[u].stack
        BY <1>7, <1>14, <1>15, <2>5, <2>6, <3>1, <3>3, <3>4
      <3> QED
        BY <1>10, <1>11, <1>12, <1>13, <2>4, <2>9, <3>5 DEF SoundTable, r, S, D
    <2> QED
      BY <2>8, <2>9
  <1>16. CASE Idle(s) /\ StacksOf(s.players) = chips
    <2> DEFINE f == [v \in T |-> r.players[v].stack]
               e == [v \in S |-> s.players[v].stack]
    <2>1. f \in [T -> Nat] /\ e \in [S -> Nat] /\ e[u] = s.players[u].stack
          /\ \A v \in T : f[v] = e[v]
      BY <1>2, <1>3, <1>7, <1>10
    <2>2. StacksOf(r.players) = SumFunction(f)
      BY <1>8, <1>10, Zenon DEF StacksOf
    <2>3. StacksOf(s.players) = SumFunction(e)
      BY <1>6, Zenon DEF StacksOf
    <2> HIDE DEF f, e
    <2>4. SumFunction(e) = SumFunction(f) + e[u] /\ SumFunction(f) \in Nat
      BY ONLY <1>2, <1>4, <1>7, <2>1, StacksSplit
    <2>5. StacksOf(r.players) = chips - s.players[u].stack
      BY <1>7, <1>16, <2>1, <2>2, <2>3, <2>4
    <2>6. Idle(r) /\ ~HandOn(s)
      BY <1>10, <1>16, HandOnIs DEF Idle
    <2> QED
      BY <1>10, <1>11, <1>12, <1>13, <2>5, <2>6 DEF SoundTable, r, S
  <1> QED
    BY <1>15, <1>16 DEF SoundTable

-----------------------------------------------------------------------------
(* The invariant *)

\* The table holds what was bought less what was carried away, the sets of users
\* and the timers are about players who are there, and the turn timer is the
\* timer of the turn that is on.
SessionInv ==
    /\ SoundTable(g, bought - taken)
    /\ online \subseteq Seated(g) /\ reserve \subseteq Seated(g) \ online
    /\ timer \in AnySeat /\ (timer # NoSeat => timer = g.hand.turn)
    /\ pending \in 0..TaskBound
    /\ bought \in 0..ChipBound /\ taken \in Nat

\* The turn of a table
LEMMA TurnHolder ==
    ASSUME NEW s, NEW chips, SoundTable(s, chips)
    PROVE  s.hand.turn \in AnySeat
  BY GameIs DEF SoundTable, Hands

\* No more tasks than the bound
LEMMA TasksBounded ==
    ASSUME NEW s, NEW connected, NEW tasks \in 0..TaskBound
    PROVE  /\ AfterMaybeStart(s, connected, tasks) \in 0..TaskBound
           /\ AfterHandEnd(s, tasks) \in 0..TaskBound
  <1>1. TaskBound \in Nat
    BY SessionAssumption
  <1>2. \A c : AfterMaybeStart(s, c, tasks) \in 0..TaskBound
    BY <1>1 DEF AfterMaybeStart, MinOf
  <1> QED
    BY <1>2 DEF AfterHandEnd

\* The timer is armed for the turn of the state that is dispatched.
LEMMA DispatchSound ==
    ASSUME NEW s, NEW chips, SoundTable(s, chips), NEW tasks \in 0..TaskBound,
           Dispatch(s, tasks)
    PROVE  timer' \in AnySeat /\ timer' = s.hand.turn /\ pending' \in 0..TaskBound
  BY TurnHolder, TasksBounded DEF Dispatch

\* No player sits at an empty table.
LEMMA SessionInitially == Init => SessionInv
  <1> SUFFICES ASSUME Init PROVE SessionInv
    OBVIOUS
  <1> DEFINE f == [v \in DOMAIN g.players |-> g.players[v].stack]
  <1>1. /\ g = EmptyTable /\ online = {} /\ reserve = {} /\ timer = NoSeat /\ pending = 0
        /\ bought = 0 /\ taken = 0
    BY DEF Init
  <1>2. NoSeat \in AnySeat /\ "NONE" \in HandPhases
    BY DEF AnySeat, HandPhases
  <1>3. NoHand \in Hands /\ DOMAIN <<>> = {}
    BY <1>2, EmptyHandIs DEF NoHand
  <1>4. <<>> \in OverSomeUsers(SomePlayer) /\ <<>> \in Seq(Users)
    <2>1. <<>> = [x \in {} |-> x]
      OBVIOUS
    <2>2. <<>> \in [DOMAIN <<>> -> SomePlayer] /\ DOMAIN <<>> \subseteq Users
      BY <1>3, <2>1
    <2>3. <<>> \in Seq(Users)
      OBVIOUS
    <2>4. <<>> \in OverSomeUsers(SomePlayer)
      BY <2>2, OverSomeUsersIs
    <2> QED
      BY <2>3, <2>4
  <1>5. /\ g.phase = "WAITING_FOR_PLAYERS" /\ g.players = <<>> /\ g.order = <<>>
        /\ g.hand = NoHand
    BY <1>1 DEF EmptyTable
  <1>6. g \in Games
    BY <1>1, <1>3, <1>4 DEF EmptyTable, Games
  <1>7. Seated(g) = {} /\ OwnSeats(g.players)
    BY <1>3, <1>5 DEF Seated, OwnSeats
  <1>8. Ordered(g)
    <2>1. ToSet(<<>>) = {} /\ IsInjective(<<>>)
      BY <1>3 DEF ToSet, IsInjective
    <2> QED
      BY <1>5, <1>7, <2>1 DEF Ordered
  <1>9. Idle(g)
    BY <1>2, <1>5 DEF Idle, NoHand
  <1>10. StacksOf(g.players) = 0
    <2>1. f \in [{} -> Int]
      BY <1>3, <1>5
    <2>2. StacksOf(g.players) = SumFunction(f)
      BY Zenon DEF StacksOf
    <2> HIDE DEF f
    <2>3. SumFunction(f) = SumFunctionOnSet(f, {})
      BY <2>1, SumFunctionIs
    <2>4. IsFiniteSet({}) /\ {} \in SUBSET {}
      BY FS_EmptySet
    <2>5. SumFunctionOnSet(f, {}) = 0
      BY <2>1, <2>4, SumStep
    <2> QED
      BY <2>2, <2>3, <2>5
  <1>11. SoundTable(g, bought - taken)
    BY <1>1, <1>6, <1>7, <1>8, <1>9, <1>10 DEF SoundTable
  <1>12. TaskBound \in Nat /\ ChipBound \in Nat
    BY SessionAssumption
  <1> QED
    BY <1>1, <1>2, <1>7, <1>11, <1>12 DEF SessionInv

-----------------------------------------------------------------------------
(* Every call and every task keeps the invariant *)

\* join_as_player, of somebody who has not left the hand that is on
LEMMA TakeSeatKeeps ==
    ASSUME SessionInv, ~rejoined', NEW u \in Users, TakeSeat(u)
    PROVE  SessionInv'
  <1> DEFINE p == [seat     |-> MinSeat(FreeSeats),
                   stack    |-> StartingStack,
                   status   |-> IF HandOn(g) THEN "WAITING" ELSE "ACTIVE",
                   timeouts |-> 0]
  <1>1. /\ ~LeftThisHand(u) /\ u \notin Seated(g) /\ FreeSeats # {}
        /\ bought + StartingStack <= ChipBound /\ g' = Seat(u, p)
        /\ online' = online \cup {u} /\ bought' = bought + StartingStack
        /\ pending' = AfterMaybeStart(Seat(u, p), online', pending)
        /\ reserve' = reserve /\ timer' = timer /\ taken' = taken
    BY DEF TakeSeat
  <1>2. /\ SoundTable(g, bought - taken) /\ pending \in 0..TaskBound
        /\ bought \in 0..ChipBound /\ taken \in Nat
    BY DEF SessionInv
  <1>3. ~(HandOn(g) /\ u \in DOMAIN g.hand.start)
    BY <1>1 DEF LeftThisHand
  <1>4. StartingStack \in Nat /\ SeatIndex \subseteq Nat /\ ChipBound \in Nat
    BY Configured, SessionAssumption
  <1>5. MinSeat(FreeSeats) \in SeatIndex \ Seats(g)
    BY <1>1, <1>4, MinSeatIs DEF FreeSeats
  <1>6. /\ p \in SomePlayer /\ p.seat \notin Seats(g) /\ p.stack = StartingStack
        /\ HandOn(g) => p.status = "WAITING"
    BY <1>4, <1>5 DEF SomePlayer, Statuses
  <1>7. Seat(u, p) = Seating(g, u, p)
    BY <1>2 DEF Seat, Seating, SoundTable, Games
  <1> HIDE DEF p
  <1>8. /\ SoundTable(g', (bought - taken) + p.stack)
        /\ Seated(g') = Seated(g) \cup {u} /\ g'.hand = g.hand
    BY <1>1, <1>2, <1>3, <1>6, <1>7, SeatingSound
  <1>9. bought' \in 0..ChipBound /\ (bought - taken) + p.stack = bought' - taken'
    BY <1>1, <1>2, <1>4, <1>6
  <1>10. pending' \in 0..TaskBound
    BY <1>1, <1>2, TasksBounded
  <1>11. /\ online' \subseteq Seated(g)' /\ reserve' \subseteq Seated(g)' \ online'
    BY <1>1, <1>8 DEF SessionInv, Seated
  <1>12. timer' \in AnySeat /\ (timer' # NoSeat => timer' = g'.hand.turn)
    BY <1>1, <1>8 DEF SessionInv
  <1> QED
    BY <1>1, <1>2, <1>8, <1>9, <1>10, <1>11, <1>12 DEF SessionInv

\* A change of who is connected, and of the tasks, with the table as it was
LEMMA SameGameKeeps ==
    ASSUME SessionInv, g' = g, timer' \in {timer, NoSeat}, pending' \in 0..TaskBound,
           online' \subseteq Seated(g), reserve' \subseteq Seated(g) \ online',
           bought' = bought, taken' = taken
    PROVE  SessionInv'
  BY DEF SessionInv, Seated, AnySeat

\* The table as another state of it, with the same players
LEMMA SameSeatsKeeps ==
    ASSUME SessionInv, SameTable(g', g), SoundTable(g', bought' - taken'),
           \/ timer' = g'.hand.turn
           \/ timer' = timer /\ g'.hand = g.hand
           \/ timer' = NoSeat,
           pending' \in 0..TaskBound, online' = online, reserve' \in SUBSET reserve,
           bought' \in 0..ChipBound, taken' = taken
    PROVE  SessionInv'
  <1>1. Seated(g)' = Seated(g)
    BY DEF SameTable, Seated
  <1>2. g'.hand.turn \in AnySeat
    BY TurnHolder
  <1>3. timer' \in AnySeat /\ (timer' # NoSeat => timer' = g'.hand.turn)
    BY <1>2 DEF SessionInv, AnySeat
  <1> QED
    BY <1>1, <1>3 DEF SessionInv

\* _do_reconnect and disconnect
LEMMA ReconnectKeeps ==
    ASSUME SessionInv, NEW u \in Users, Reconnect(u)
    PROVE  SessionInv'
  <1>1. /\ u \in Seated(g) /\ g' = g /\ timer' = timer
        /\ online' = online \cup {u} /\ reserve' = reserve \ {u}
        /\ pending' = AfterMaybeStart(g, online', pending)
        /\ bought' = bought /\ taken' = taken
    BY DEF Reconnect, ledger
  <1>2. pending' \in 0..TaskBound
    BY <1>1, TasksBounded DEF SessionInv
  <1>3. online' \subseteq Seated(g) /\ reserve' \subseteq Seated(g) \ online'
    BY <1>1 DEF SessionInv
  <1> QED
    BY <1>1, <1>2, <1>3, SameGameKeeps

\* disconnect: the seat stays, with its reserve timer.
LEMMA DisconnectKeeps ==
    ASSUME SessionInv, NEW u \in Users, Disconnect(u)
    PROVE  SessionInv'
  <1>1. /\ u \in online /\ g' = g /\ timer' = timer /\ pending' = pending
        /\ online' = online \ {u} /\ reserve' = reserve \cup {u}
        /\ bought' = bought /\ taken' = taken
    BY DEF Disconnect, ledger
  <1>2. /\ pending' \in 0..TaskBound
        /\ online' \subseteq Seated(g) /\ reserve' \subseteq Seated(g) \ online'
    BY <1>1 DEF SessionInv
  <1> QED
    BY <1>1, <1>2, SameGameKeeps

\* leave, on turn and off turn
LEMMA LeaveKeeps ==
    ASSUME SessionInv, NEW u \in Users, Leave(u)
    PROVE  SessionInv'
  <1>1. /\ u \in Seated(g) /\ LeaveTable(u)
        /\ online' = online \ {u} /\ reserve' = reserve \ {u} /\ bought' = bought
    BY DEF Leave
  <1>2. /\ SoundTable(g, bought - taken) /\ pending \in 0..TaskBound
        /\ bought \in 0..ChipBound /\ taken \in Nat
    BY DEF SessionInv
  <1>3. ASSUME NEW s, SoundTable(s, bought - taken), SameTable(s, g), g' = Unseat(s, u),
               taken' = taken + (IF HandOn(s) /\ u \in DOMAIN s.hand.start
                                   THEN 0 ELSE s.players[u].stack),
               timer' \in AnySeat, timer' # NoSeat => timer' = s.hand.turn,
               pending' \in 0..TaskBound
        PROVE  SessionInv'
    <2> DEFINE gone == IF HandOn(s) /\ u \in DOMAIN s.hand.start THEN 0 ELSE s.players[u].stack
    <2>1. u \in Seated(s) /\ Seated(s) = Seated(g)
      BY <1>1, <1>3 DEF SameTable
    <2>2. s.players[u].stack \in Nat
      BY <1>3, <2>1, GameIs DEF SoundTable
    <2>3. gone \in Nat
      BY <2>2
    <2>4. /\ SoundTable(g', (bought - taken) - gone)
          /\ Seated(g') = Seated(s) \ {u} /\ g'.hand = s.hand
      BY <1>3, <2>1, UnseatSound
    <2>5. taken' = taken + gone
      BY <1>3
    <2> HIDE DEF gone
    <2>6. taken' \in Nat /\ (bought - taken) - gone = bought' - taken'
      BY <1>1, <1>2, <2>3, <2>5
    <2>7. online' \subseteq Seated(g)' /\ reserve' \subseteq Seated(g)' \ online'
      BY <1>1, <2>1, <2>4 DEF SessionInv, Seated
    <2>8. timer' # NoSeat => timer' = g'.hand.turn
      BY <1>3, <2>4
    <2> QED
      BY <1>1, <1>2, <1>3, <2>4, <2>6, <2>7, <2>8 DEF SessionInv
  <1>4. CASE /\ g' = Unseat(g, u)
             /\ taken' = taken + (IF HandOn(g) /\ u \in DOMAIN g.hand.start
                                    THEN 0 ELSE g.players[u].stack)
             /\ timer' = timer /\ pending' = pending
    <2>1. SameTable(g, g)
      BY DEF SameTable
    <2>2. timer' \in AnySeat /\ (timer' # NoSeat => timer' = g.hand.turn)
          /\ pending' \in 0..TaskBound
      BY <1>4 DEF SessionInv
    <2> QED
      BY <1>2, <1>3, <1>4, <2>1, <2>2
  <1>5. ASSUME NEW s \in ApplyAction(g, u, "fold", 0), g' = Unseat(s, u), Dispatch(s, pending),
               taken' = taken + (IF HandOn(s) THEN 0 ELSE s.players[u].stack)
        PROVE  SessionInv'
    <2>1. /\ SoundTable(s, bought - taken) /\ SameTable(s, g)
          /\ HandOn(s) => u \in DOMAIN s.hand.start
      <3>1. /\ SoundTable(s, bought - taken) /\ SameTable(s, g)
            /\ Playing(s) => u \in DOMAIN s.hand.start
        BY <1>2, ActionSound
      <3>2. HandOn(s) => Playing(s)
        BY <3>1, HandOnIs DEF SoundTable
      <3> QED
        BY <3>1, <3>2
    <2>2. timer' \in AnySeat /\ timer' = s.hand.turn /\ pending' \in 0..TaskBound
      BY <1>2, <1>5, <2>1, DispatchSound
    <2>3. taken' = taken + (IF HandOn(s) /\ u \in DOMAIN s.hand.start
                              THEN 0 ELSE s.players[u].stack)
      BY <1>5, <2>1
    <2> QED
      BY <1>3, <1>5, <2>1, <2>2, <2>3
  <1> QED
    BY <1>1, <1>4, <1>5 DEF LeaveTable

\* _force_sit_out_unlocked, for the request and for the disconnect timer
LEMMA ForceSitOutKeeps ==
    ASSUME SessionInv, NEW u \in Seated(g), ForceSitOut(u), online' = online,
           reserve' \in SUBSET reserve, bought' = bought, taken' = taken
    PROVE  SessionInv'
  <1>1. /\ SoundTable(g, bought - taken) /\ pending \in 0..TaskBound /\ bought \in 0..ChipBound
    BY DEF SessionInv
  <1>2. ASSUME NEW s, SoundTable(s, bought - taken), SameTable(s, g),
               g' = SetStatus(s, u, "SIT_OUT")
        PROVE  /\ SoundTable(g', bought' - taken') /\ SameTable(g', g) /\ g'.hand = s.hand
    <2> DEFINE r == SetStatus(s, u, "SIT_OUT")
    <2>1. u \in Seated(s)
      BY <1>2 DEF SameTable
    <2>2. SoundTable(r, bought - taken) /\ SameTable(r, s) /\ r.hand = s.hand
      BY <1>2, <2>1, StatusSound
    <2>3. g' = r
      BY <1>2
    <2> HIDE DEF r
    <2> QED
      BY <1>2, <2>2, <2>3 DEF SameTable
  <1>3. CASE g' = SetStatus(g, u, "SIT_OUT") /\ timer' = timer /\ pending' = pending
    <2>1. SameTable(g, g)
      BY DEF SameTable
    <2>2. SoundTable(g', bought' - taken') /\ SameTable(g', g) /\ g'.hand = g.hand
      BY <1>1, <1>2, <1>3, <2>1
    <2>3. pending' \in 0..TaskBound /\ bought' \in 0..ChipBound
      BY <1>1, <1>3
    <2> QED
      BY <1>3, <2>2, <2>3, SameSeatsKeeps
  <1>4. ASSUME NEW s \in ApplyAction(g, u, "fold", 0), g' = SetStatus(s, u, "SIT_OUT"),
               Dispatch(s, pending)
        PROVE  SessionInv'
    <2>1. SoundTable(s, bought - taken) /\ SameTable(s, g)
      BY <1>1, ActionSound
    <2>2. timer' = s.hand.turn /\ pending' \in 0..TaskBound
      BY <1>1, <1>4, <2>1, DispatchSound
    <2>3. SoundTable(g', bought' - taken') /\ SameTable(g', g) /\ g'.hand = s.hand
      BY <1>2, <1>4, <2>1
    <2>4. timer' = g'.hand.turn /\ bought' \in 0..ChipBound
      BY <1>1, <2>2, <2>3
    <2> QED
      BY <2>2, <2>3, <2>4, SameSeatsKeeps
  <1> QED
    BY <1>3, <1>4 DEF ForceSitOut

\* sit_in, which the engine does not hear of
LEMMA SitInKeeps ==
    ASSUME SessionInv, NEW u \in Users, SitIn(u)
    PROVE  SessionInv'
  <1> DEFINE s == SetStatus(g, u, "WAITING")
  <1>1. /\ u \in Seated(g) /\ g' = s /\ pending' = AfterMaybeStart(s, online, pending)
        /\ online' = online /\ reserve' = reserve /\ timer' = timer
        /\ bought' = bought /\ taken' = taken
    BY DEF SitIn, WithStatus, ledger
  <1>2. SoundTable(g, bought - taken) /\ pending \in 0..TaskBound /\ bought \in 0..ChipBound
    BY DEF SessionInv
  <1>3. SoundTable(s, bought - taken) /\ SameTable(s, g) /\ s.hand = g.hand
    BY <1>1, <1>2, StatusSound
  <1> HIDE DEF s
  <1>4. pending' \in 0..TaskBound
    BY <1>1, <1>2, TasksBounded
  <1>5. /\ SameTable(g', g) /\ SoundTable(g', bought' - taken') /\ g'.hand = g.hand
        /\ bought' \in 0..ChipBound /\ reserve' \in SUBSET reserve
    BY <1>1, <1>2, <1>3
  <1> QED
    BY <1>1, <1>4, <1>5, SameSeatsKeeps

\* rebuy, between hands
LEMMA RebuyKeeps ==
    ASSUME SessionInv, NEW u \in Users, NEW amount \in Rebuys, Rebuy(u, amount)
    PROVE  SessionInv'
  <1> DEFINE p == [g.players[u] EXCEPT !.stack = @ + amount]
  <1>1. /\ u \in Seated(g) /\ ~HandOn(g) /\ amount > 0 /\ bought + amount <= ChipBound
        /\ g' = [g EXCEPT !.players[u].stack = @ + amount] /\ bought' = bought + amount
        /\ online' = online /\ reserve' = reserve /\ timer' = timer /\ pending' = pending
        /\ taken' = taken
    BY DEF Rebuy
  <1>2. /\ SoundTable(g, bought - taken) /\ pending \in 0..TaskBound
        /\ bought \in 0..ChipBound /\ taken \in Nat
    BY DEF SessionInv
  <1>3. amount \in Nat /\ ChipBound \in Nat
    BY <1>1, SessionAssumption
  <1>4. /\ g.players[u] \in SomePlayer /\ g.players[u].stack \in Nat /\ g \in Games
        /\ g.players \in [Seated(g) -> SomePlayer]
    BY <1>1, <1>2, GameIs DEF SoundTable
  <1>5. /\ p \in SomePlayer /\ p.seat = g.players[u].seat
        /\ p.stack = g.players[u].stack + amount
    BY <1>3, <1>4 DEF SomePlayer, Statuses
  <1>6. g' = [g EXCEPT !.players = [g.players EXCEPT ![u] = p]]
    BY <1>1, <1>4 DEF Games
  <1> HIDE DEF p
  <1>7. /\ SoundTable(g', (bought - taken) + p.stack - g.players[u].stack)
        /\ SameTable(g', g) /\ g'.hand = g.hand
    BY <1>1, <1>2, <1>5, <1>6, PlayerSound
  <1>8. /\ (bought - taken) + p.stack - g.players[u].stack = bought' - taken'
        /\ bought' \in 0..ChipBound
    BY <1>1, <1>2, <1>3, <1>4, <1>5
  <1>9. SoundTable(g', bought' - taken') /\ pending' \in 0..TaskBound
        /\ reserve' \in SUBSET reserve
    BY <1>1, <1>2, <1>7, <1>8
  <1> QED
    BY <1>1, <1>7, <1>8, <1>9, SameSeatsKeeps

\* handle_action
LEMMA ActKeeps ==
    ASSUME SessionInv, NEW u \in Users,
           NEW type \in {"fold", "check", "call", "raise", "all_in"}, NEW amount \in Int,
           Act(u, type, amount)
    PROVE  SessionInv'
  <1>1. PICK s \in ApplyAction(g, u, type, amount) : g' = s /\ Dispatch(s, pending)
    BY DEF Act
  <1>2. online' = online /\ reserve' = reserve /\ bought' = bought /\ taken' = taken
    BY DEF Act, ledger
  <1>3. SoundTable(g, bought - taken) /\ pending \in 0..TaskBound /\ bought \in 0..ChipBound
    BY DEF SessionInv
  <1>4. SoundTable(s, bought - taken) /\ SameTable(s, g)
    BY <1>3, ActionSound
  <1>5. timer' = s.hand.turn /\ pending' \in 0..TaskBound
    BY <1>1, <1>3, <1>4, DispatchSound
  <1>6. /\ SameTable(g', g) /\ SoundTable(g', bought' - taken') /\ timer' = g'.hand.turn
        /\ bought' \in 0..ChipBound /\ reserve' \in SUBSET reserve
    BY <1>1, <1>2, <1>3, <1>4, <1>5
  <1> QED
    BY <1>2, <1>5, <1>6, SameSeatsKeeps

\* handle_action: any request of the player, whatever amount comes with it
LEMMA ActAnyKeeps ==
    ASSUME SessionInv, NEW u \in Users, ActAny(u)
    PROVE  SessionInv'
  <1>1. ASSUME NEW type \in {"fold", "check", "call", "all_in"}, Act(u, type, 0)
        PROVE  SessionInv'
    <2>1. type \in {"fold", "check", "call", "raise", "all_in"} /\ 0 \in Int
      OBVIOUS
    <2> QED
      BY <1>1, <2>1, ActKeeps
  <1>2. ASSUME NEW amount \in Raises(u), Act(u, "raise", amount)
        PROVE  SessionInv'
    <2>1. amount \in Int
      BY DEF Raises
    <2> QED
      BY <1>2, <2>1, ActKeeps
  <1> QED
    BY <1>1, <1>2 DEF ActAny

\* _run_turn_timer
LEMMA TurnTimerKeeps ==
    ASSUME SessionInv, TurnTimer
    PROVE  SessionInv'
  <1>1. online' = online /\ reserve' = reserve /\ bought' = bought /\ taken' = taken
    BY DEF TurnTimer, ledger
  <1>2. /\ SoundTable(g, bought - taken) /\ pending \in 0..TaskBound /\ bought \in 0..ChipBound
        /\ online \subseteq Seated(g) /\ reserve \subseteq Seated(g) \ online
    BY DEF SessionInv
  <1>3. ASSUME NEW s \in HandleTimeout(g), g' = s,
               Dispatch(s, pending) \/ (timer' = NoSeat /\ pending' = pending)
        PROVE  SessionInv'
    <2>1. SoundTable(s, bought - taken) /\ SameTable(s, g)
      BY <1>2, TimeoutSound
    <2>2. timer' \in {s.hand.turn, NoSeat} /\ pending' \in 0..TaskBound
      BY <1>2, <1>3, <2>1, DispatchSound
    <2>3. /\ SameTable(g', g) /\ SoundTable(g', bought' - taken')
          /\ timer' = g'.hand.turn \/ timer' = NoSeat
          /\ bought' \in 0..ChipBound /\ reserve' \in SUBSET reserve
      BY <1>1, <1>2, <1>3, <2>1, <2>2
    <2> QED
      BY <1>1, <2>2, <2>3, SameSeatsKeeps
  <1>4. CASE timer' = NoSeat /\ g' = g /\ pending' = pending
    <2>1. /\ timer' \in {timer, NoSeat} /\ pending' \in 0..TaskBound
          /\ online' \subseteq Seated(g) /\ reserve' \subseteq Seated(g) \ online'
      BY <1>1, <1>2, <1>4
    <2> QED
      BY <1>1, <1>4, <2>1, SameGameKeeps
  <1> QED
    BY <1>3, <1>4 DEF TurnTimer

\* _run_disconnect_timer
LEMMA ReserveTimerKeeps ==
    ASSUME SessionInv, NEW u \in Users, ReserveTimer(u)
    PROVE  SessionInv'
  <1>1. /\ reserve' = reserve \ {u} /\ online' = online /\ bought' = bought /\ taken' = taken
        /\ reserve' \in SUBSET reserve
    BY DEF ReserveTimer, ledger
  <1>2. CASE u \in Seated(g) /\ ForceSitOut(u)
    BY <1>1, <1>2, ForceSitOutKeeps
  <1>3. CASE g' = g /\ timer' = timer /\ pending' = pending
    <2>1. /\ timer' \in {timer, NoSeat} /\ pending' \in 0..TaskBound
          /\ online' \subseteq Seated(g) /\ reserve' \subseteq Seated(g) \ online'
      BY <1>1, <1>3 DEF SessionInv
    <2> QED
      BY <1>1, <1>3, <2>1, SameGameKeeps
  <1> QED
    BY <1>2, <1>3 DEF ReserveTimer

\* _start_hand_after_delay
LEMMA StartTaskKeeps ==
    ASSUME SessionInv, StartTask
    PROVE  SessionInv'
  <1>1. /\ pending > 0 /\ online' = online /\ reserve' = reserve
        /\ bought' = bought /\ taken' = taken
    BY DEF StartTask, ledger
  <1>2. /\ SoundTable(g, bought - taken) /\ pending \in 0..TaskBound /\ bought \in 0..ChipBound
        /\ online \subseteq Seated(g) /\ reserve \subseteq Seated(g) \ online
    BY DEF SessionInv
  <1>3. pending - 1 \in 0..TaskBound
    <2>1. TaskBound \in Nat
      BY SessionAssumption
    <2> QED
      BY <1>1, <1>2, <2>1
  <1>4. ASSUME NEW s \in StartHand(g), g' = s, Dispatch(s, pending - 1)
        PROVE  SessionInv'
    <2>1. SoundTable(s, bought - taken) /\ SameTable(s, g)
      BY <1>2, StartSound
    <2>2. timer' = s.hand.turn /\ pending' \in 0..TaskBound
      BY <1>3, <1>4, <2>1, DispatchSound
    <2>3. /\ SameTable(g', g) /\ SoundTable(g', bought' - taken') /\ timer' = g'.hand.turn
          /\ bought' \in 0..ChipBound /\ reserve' \in SUBSET reserve
      BY <1>1, <1>2, <1>4, <2>1, <2>2
    <2> QED
      BY <1>1, <2>2, <2>3, SameSeatsKeeps
  <1>5. CASE pending' = pending - 1 /\ g' = g /\ timer' = timer
    <2>1. /\ timer' \in {timer, NoSeat} /\ pending' \in 0..TaskBound
          /\ online' \subseteq Seated(g) /\ reserve' \subseteq Seated(g) \ online'
      BY <1>1, <1>2, <1>3, <1>5
    <2> QED
      BY <1>1, <1>5, <2>1, SameGameKeeps
  <1> QED
    BY <1>4, <1>5 DEF StartTask

\* Every step keeps the invariant, unless somebody sits down again in a hand he
\* has left.
LEMMA SessionKept ==
    ASSUME SessionInv, ~rejoined', [Next]_vars
    PROVE  SessionInv'
  <1>1. ASSUME NEW u \in Users, Request(u)
        PROVE  SessionInv'
    <2>1. CASE TakeSeat(u)
      BY <2>1, TakeSeatKeeps
    <2>2. CASE Reconnect(u)
      BY <2>2, ReconnectKeeps
    <2>3. CASE Disconnect(u)
      BY <2>3, DisconnectKeeps
    <2>4. CASE Leave(u)
      BY <2>4, LeaveKeeps
    <2>5. CASE SitOut(u)
      <3>1. /\ u \in Seated(g) /\ ForceSitOut(u) /\ online' = online
            /\ reserve' \in SUBSET reserve /\ bought' = bought /\ taken' = taken
        BY <2>5 DEF SitOut, ledger
      <3> QED
        BY <3>1, ForceSitOutKeeps
    <2>6. CASE SitIn(u)
      BY <2>6, SitInKeeps
    <2>7. ASSUME NEW amount \in Rebuys, Rebuy(u, amount)
          PROVE  SessionInv'
      BY <2>7, RebuyKeeps
    <2>8. CASE ActAny(u)
      BY <2>8, ActAnyKeeps
    <2> QED
      BY <1>1, <2>1, <2>2, <2>3, <2>4, <2>5, <2>6, <2>7, <2>8 DEF Request
  <1>2. ASSUME NEW u \in Users, ReserveTimer(u)
        PROVE  SessionInv'
    BY <1>2, ReserveTimerKeeps
  <1>3. CASE TurnTimer
    BY <1>3, TurnTimerKeeps
  <1>4. CASE StartTask
    BY <1>4, StartTaskKeeps
  <1>5. CASE UNCHANGED vars
    BY <1>5 DEF vars, ledger, SessionInv, Seated
  <1> QED
    BY <1>1, <1>2, <1>3, <1>4, <1>5 DEF Next

\* Every step leaves the notes alone or sets them, and none takes back that
\* somebody has sat down again.
NotesAre == raised \in BOOLEAN /\ rejoined \in BOOLEAN /\ unseen \in BOOLEAN
LEMMA NotesKept ==
    ASSUME NotesAre, [Next]_vars
    PROVE  NotesAre' /\ (rejoined => rejoined')
  <1> DEFINE NotesStay == NotesAre' /\ (rejoined => rejoined')
  <1>1. ASSUME NEW u, Request(u)
        PROVE  NotesStay
    <2>1. CASE TakeSeat(u)
      BY <2>1 DEF TakeSeat, NotesAre
    <2>2. CASE Reconnect(u) \/ SitIn(u)
      BY <2>2 DEF Reconnect, SitIn, Looked, NotesAre
    <2>3. CASE Disconnect(u) \/ Leave(u) \/ SitOut(u)
      BY <2>3 DEF Disconnect, Leave, SitOut, notes, NotesAre
    <2>4. ASSUME NEW amount, Rebuy(u, amount)
          PROVE  NotesStay
      BY <2>4 DEF Rebuy, NotesAre
    <2>5. CASE ActAny(u)
      BY <2>5 DEF ActAny, Act, notes, NotesAre
    <2> QED
      BY <1>1, <2>1, <2>2, <2>3, <2>4, <2>5 DEF Request
  <1>2. ASSUME NEW u, ReserveTimer(u)
        PROVE  NotesStay
    BY <1>2 DEF ReserveTimer, notes, NotesAre
  <1>3. TurnTimer => NotesStay
    BY DEF TurnTimer, notes, NotesAre
  <1>4. ASSUME StartTask
        PROVE  NotesStay
    <2>1. raised' \in BOOLEAN
      BY <1>4 DEF StartTask
    <2>2. unseen' = FALSE /\ rejoined' = rejoined
      BY <1>4 DEF StartTask
    <2> QED
      BY <2>1, <2>2 DEF NotesAre
  <1>5. UNCHANGED vars => NotesStay
    BY DEF vars, notes, NotesAre
  <1> QED
    BY <1>1, <1>2, <1>3, <1>4, <1>5 DEF Next

\* The invariant holds in every state of the session, until somebody sits down
\* again in a hand he has left.
LEMMA SessionAlways == Spec => [](NotesAre /\ (~rejoined => SessionInv))
  <1> DEFINE Inv == NotesAre /\ (~rejoined => SessionInv)
  <1>1. Init => Inv
    BY SessionInitially DEF Init, NotesAre
  <1>2. Inv /\ [Next]_vars => Inv'
    <2> SUFFICES ASSUME Inv, [Next]_vars PROVE Inv'
      OBVIOUS
    <2>1. NotesAre' /\ (~rejoined' => ~rejoined)
      BY NotesKept
    <2>2. ~rejoined' => SessionInv'
      BY <2>1, SessionKept
    <2> QED
      BY <2>1, <2>2
  <1> HIDE DEF Inv
  <1>3. Spec => []Inv
    BY <1>1, <1>2, PTL DEF Spec
  <1> QED
    BY <1>3 DEF Inv

-----------------------------------------------------------------------------
(* What follows from it *)

\* Seats are not shared, so there are as many as players.
LEMMA SeatsCounted ==
    ASSUME NEW s \in Games, OwnSeats(s.players)
    PROVE  Cardinality(Seats(s)) = Cardinality(Seated(s))
  <1> DEFINE f == [u \in Seated(s) |-> s.players[u].seat]
             S == Seated(s)
             T == Seats(s)
  <1>1. IsFiniteSet(S)
    BY GameIs
  <1>2. f \in [S -> T] /\ \A t \in T : \E u \in S : f[u] = t
    BY DEF Seats
  <1>3. \A u, v \in S : f[u] = f[v] => u = v
    BY DEF OwnSeats, Seated
  <1> HIDE DEF f, S, T
  <1>4. f \in Bijection(S, T)
    BY <1>2, <1>3 DEF Bijection, Injection, Surjection, IsInjective
  <1>5. ExistsBijection(S, T)
    BY <1>4 DEF ExistsBijection
  <1>6. Cardinality(T) = Cardinality(S)
    BY <1>1, <1>5, FS_Bijection
  <1> QED
    BY <1>6 DEF S, T

\* What each variable may hold: a session never shares a seat, and never loses
\* track of who is connected (session_manager.py, all handlers), until somebody
\* sits down again in a hand he has left.
THEOREM TypesAreKept == Spec => [](~rejoined => TypeOK)
  <1>1. SessionInv /\ NotesAre => TypeOK
    <2> SUFFICES ASSUME SessionInv, NotesAre PROVE TypeOK
      OBVIOUS
    <2>1. g \in Games /\ OwnSeats(g.players) /\ Ordered(g) /\ SoundTable(g, bought - taken)
      BY DEF SessionInv, SoundTable
    <2>2. Seated(g) \subseteq Users /\ \A u \in Seated(g) : g.players[u] \in PlayerRecord
      BY <2>1, GameIs DEF SomePlayer, PlayerRecord
    <2>3. Cardinality(Seats(g)) = Cardinality(Seated(g))
      BY <2>1, SeatsCounted
    <2> QED
      BY <2>1, <2>2, <2>3 DEF SessionInv, NotesAre, TypeOK, Ordered, AnySeat
  <1>2. Spec => [](NotesAre /\ (~rejoined => SessionInv))
    BY SessionAlways
  <1> QED
    BY <1>1, <1>2, PTL

\* Chips are neither made nor lost by joins, leaves, rebuys, actions, timeouts and
\* hands: the table's are what was bought less what was carried away, as long as
\* nobody has sat down again in a hand he had left.
THEOREM ChipsAreConserved == Spec => []ChipLedger
  <1>1. (~rejoined => SessionInv) => ChipLedger
    <2> SUFFICES ASSUME SessionInv PROVE ChipLedger
      BY DEF ChipLedger
    <2>1. SoundTable(g, bought - taken) /\ bought \in Int /\ taken \in Int
      BY DEF SessionInv
    <2>2. CASE Playing(g) /\ Bank(g) = bought - taken
      <3>1. HandOn(g)
        BY <2>2, HandOnIs
      <3>2. Bank(g) = SumOf(g.hand.start)
                        + SumOf([u \in Seated(g) \ DOMAIN g.hand.start |-> StackOf(u)])
        BY Zenon DEF Bank, SumOf, StackOf
      <3> QED
        BY <2>2, <3>1, <3>2, Zenon DEF ChipLedger
    <2>3. CASE Idle(g) /\ StacksOf(g.players) = bought - taken
      <3>1. ~HandOn(g)
        BY <2>3, HandOnIs
      <3>2. StacksOf(g.players) = SumOf([u \in Seated(g) |-> StackOf(u)])
        BY Zenon DEF StacksOf, SumOf, StackOf, Seated
      <3>3. 0 + SumOf([u \in Seated(g) |-> StackOf(u)]) = bought - taken
        BY <2>1, <2>3, <3>2
      <3> QED
        BY <3>1, <3>3, Zenon DEF ChipLedger
    <2> QED
      BY <2>1, <2>2, <2>3 DEF SoundTable
  <1>2. Spec => [](NotesAre /\ (~rejoined => SessionInv))
    BY SessionAlways
  <1> QED
    BY <1>1, <1>2, PTL

\* What a player has put into a hand is never less than his bet of the round
\* that is on, whether he is still there or has left (_total_contributions), as
\* long as nobody has sat down again in a hand he had left.
THEOREM BetsArePaid == Spec => []ContributionsCoverBets
  <1>1. (~rejoined => SessionInv) => ContributionsCoverBets
    <2> SUFFICES ASSUME SessionInv, HandOn(g), NEW u \in DOMAIN g.hand.start
                 PROVE  TotalContributions(g)[u] >= g.hand.bets[u]
      BY DEF ContributionsCoverBets
    <2>1. SoundTable(g, bought - taken)
      BY DEF SessionInv
    <2>2. Playing(g)
      BY <2>1, HandOnIs DEF SoundTable
    <2> DEFINE left == IF u \in Seated(g) THEN g.players[u].stack ELSE 0
    <2>3. g.hand.bets[u] + left <= g.hand.start[u]
      BY <2>2 DEF Playing, InPlay, BetsCovered
    <2>4. g.hand.bets[u] \in Nat /\ g.hand.start[u] \in Nat /\ left \in Nat
      BY <2>1, GameIs DEF SoundTable
    <2>5. TotalContributions(g)[u] = g.hand.start[u] - left
      BY DEF TotalContributions
    <2> HIDE DEF left
    <2> QED
      BY <2>3, <2>4, <2>5
  <1>2. Spec => [](NotesAre /\ (~rejoined => SessionInv))
    BY SessionAlways
  <1> QED
    BY <1>1, <1>2, PTL

-----------------------------------------------------------------------------
(* The turn timer, whoever joins *)

\* The engine returns states with the fields of the one it was passed, whatever
\* the table is like: enough to know that nothing but Dispatch moves the turn.
LEMMA AwardFields ==
    ASSUME NEW s, NEW r \in AwardHand(s)
    PROVE  DOMAIN r = DOMAIN s
  BY DEF AwardHand

\* _begin_betting_round
LEMMA BeginFields ==
    ASSUME NEW s, NEW phase, NEW r \in BeginBettingRound(s, phase)
    PROVE  DOMAIN r = DOMAIN s
  <1> DEFINE o == OpenRound(s, phase)
             t == [o EXCEPT !.hand.turn = NoSeat]
  <1>1. DOMAIN o = DOMAIN s
    BY DEF OpenRound
  <1>2. DOMAIN t = DOMAIN o
    OBVIOUS
  <1>3. r \in AwardHand(t) \/ r = [o EXCEPT !.hand.turn = FirstToAct(o, phase)]
    BY DEF BeginBettingRound, RunOutBoard
  <1> HIDE DEF o, t
  <1>4. r \in AwardHand(t) => DOMAIN r = DOMAIN t
    BY AwardFields
  <1> QED
    BY <1>1, <1>2, <1>3, <1>4

\* _advance
LEMMA AdvanceFields ==
    ASSUME NEW s, NEW r \in Advance(s)
    PROVE  DOMAIN r = DOMAIN s
  <1>1. \/ r \in AwardHand(s)
        \/ \E phase : r \in BeginBettingRound(s, phase)
        \/ r = [s EXCEPT !.hand.turn = NextActiveSeat(s)]
    BY DEF Advance, NextPhase
  <1> QED
    BY <1>1, AwardFields, BeginFields

\* apply_action
LEMMA ActionFields ==
    ASSUME NEW s, NEW u, NEW type \in {"fold", "check", "call", "raise", "all_in"},
           NEW amount, NEW r \in ApplyAction(s, u, type, amount)
    PROVE  DOMAIN r = DOMAIN s
  <1> DEFINE f == [s EXCEPT !.players[u].timeouts = 0]
             b == Bet(f, u, type, amount)
  <1>1. DOMAIN f = DOMAIN s
    OBVIOUS
  <1>2. \A x, total : DOMAIN BetTotal(x, u, total) = DOMAIN x
    BY DEF BetTotal
  <1>3. \A x : DOMAIN MarkActed(x, u) = DOMAIN x
    BY DEF MarkActed
  <1>4. \A x, total : DOMAIN RaiseTo(x, u, total) = DOMAIN x
    BY <1>2 DEF RaiseTo
  <1>5. r \in Advance(b)
    BY DEF ApplyAction
  <1>6. DOMAIN b = DOMAIN f
    <2> HIDE DEF f
    <2>1. CASE type = "fold"
      BY <1>3, <2>1 DEF Bet
    <2>2. CASE type = "check"
      BY <1>3, <2>2 DEF Bet
    <2>3. CASE type = "call"
      BY <1>2, <1>3, <2>3 DEF Bet
    <2>4. CASE type = "raise"
      BY <1>4, <2>4 DEF Bet
    <2>5. CASE type = "all_in"
      BY <1>2, <1>3, <1>4, <2>5 DEF Bet
    <2> QED
      BY <2>1, <2>2, <2>3, <2>4, <2>5
  <1> HIDE DEF b, f
  <1> QED
    BY <1>1, <1>5, <1>6, AdvanceFields

\* handle_timeout
LEMMA TimeoutFields ==
    ASSUME NEW s, NEW r \in HandleTimeout(s)
    PROVE  DOMAIN r = DOMAIN s
  <1>1. CASE s.hand.turn = NoSeat \/ s.hand.turn \notin Seats(s)
    BY <1>1 DEF HandleTimeout
  <1>2. CASE ~(s.hand.turn = NoSeat \/ s.hand.turn \notin Seats(s))
    <2> DEFINE u == UserAt(s, s.hand.turn)
    <2>1. \E t \in ApplyAction(s, u, AutoAction(s, u), 0) : DOMAIN r = DOMAIN t
      BY <1>2 DEF HandleTimeout
    <2>2. AutoAction(s, u) \in {"fold", "check", "call", "raise", "all_in"}
      BY DEF AutoAction
    <2> HIDE DEF u
    <2> QED
      BY <2>1, <2>2, ActionFields
  <1> QED
    BY <1>1, <1>2

\* start_hand
LEMMA StartFields ==
    ASSUME NEW s, NEW r \in StartHand(s)
    PROVE  DOMAIN r = DOMAIN s
  <1> DEFINE t == Reset(s)
             b == PostBlinds(t, NextDealer(t))
  <1>1. DOMAIN t = DOMAIN s
    BY DEF Reset
  <1>2. \A x, u, total : DOMAIN BetTotal(x, u, total) = DOMAIN x
    BY DEF BetTotal
  <1>3. \A x, u, amount : DOMAIN PostForcedBet(x, u, amount) = DOMAIN x
    BY <1>2 DEF PostForcedBet
  <1>4. \E d \in DealHoleCards(PostStraddle(b)) : r \in BeginBettingRound(d, "PRE_FLOP")
    BY DEF StartHand, Deals
  <1> HIDE DEF t
  <1>5. DOMAIN b = DOMAIN t
    BY <1>3 DEF PostBlinds
  <1> HIDE DEF b
  <1>6. DOMAIN PostStraddle(b) = DOMAIN b
    BY <1>3 DEF PostStraddle
  <1>7. PICK d \in DealHoleCards(PostStraddle(b)) : r \in BeginBettingRound(d, "PRE_FLOP")
    BY <1>4
  <1>8. DOMAIN d = DOMAIN PostStraddle(b)
    BY DEF DealHoleCards
  <1>9. DOMAIN r = DOMAIN d
    BY <1>7, BeginFields
  <1> QED
    BY <1>1, <1>5, <1>6, <1>8, <1>9

\* The timer that runs is for the turn of a state that has a hand.
TimerInv == "hand" \in DOMAIN g /\ TimerIsTurn

\* The turn a state was dispatched with is still its turn when one of its
\* players has left or sits out.
LEMMA DispatchedIsTurn ==
    ASSUME NEW s, DOMAIN s = DOMAIN g, "hand" \in DOMAIN g, NEW tasks, Dispatch(s, tasks),
           \/ g' = s
           \/ \E u : g' = Unseat(s, u)
           \/ \E u, status : g' = SetStatus(s, u, status)
    PROVE  TimerInv'
  BY DEF Dispatch, Unseat, SetStatus, TimerInv, TimerIsTurn

\* A call that dispatches nothing leaves the turn where it was, as long as the
\* game is left alone or changed at the seats only.
LEMMA UndispatchedIsTurn ==
    ASSUME TimerInv, timer' = timer,
           \/ g' = g
           \/ \E u, p : g' = Seat(u, p)
           \/ \E u : g' = Unseat(g, u)
           \/ \E u, status : g' = SetStatus(g, u, status)
           \/ \E u, amount : g' = [g EXCEPT !.players[u].stack = @ + amount]
    PROVE  TimerInv'
  BY DEF Seat, Unseat, SetStatus, TimerInv, TimerIsTurn

\* Every step leaves the timer that runs on the turn that is on.
LEMMA TimerKept ==
    ASSUME TimerInv, [Next]_vars
    PROVE  TimerInv'
  <1>0. "hand" \in DOMAIN g
    BY DEF TimerInv
  <1>1. ASSUME NEW u, NEW s \in ApplyAction(g, u, "fold", 0), Dispatch(s, pending),
               g' = Unseat(s, u) \/ g' = SetStatus(s, u, "SIT_OUT")
        PROVE  TimerInv'
    <2>1. DOMAIN s = DOMAIN g
      BY <1>1, ActionFields
    <2> QED
      BY <1>0, <1>1, <2>1, DispatchedIsTurn
  <1>2. ASSUME NEW u, ForceSitOut(u)
        PROVE  TimerInv'
    BY <1>1, <1>2, UndispatchedIsTurn DEF ForceSitOut
  <1>3. ASSUME NEW u, LeaveTable(u)
        PROVE  TimerInv'
    BY <1>1, <1>3, UndispatchedIsTurn DEF LeaveTable
  <1>4. ASSUME NEW u, NEW type \in {"fold", "check", "call", "raise", "all_in"}, NEW amount,
               Act(u, type, amount)
        PROVE  TimerInv'
    <2>1. PICK s \in ApplyAction(g, u, type, amount) : g' = s /\ Dispatch(s, pending)
      BY <1>4 DEF Act
    <2>2. DOMAIN s = DOMAIN g
      BY ActionFields
    <2> QED
      BY <1>0, <2>1, <2>2, DispatchedIsTurn
  <1>5. ASSUME NEW u, Request(u)
        PROVE  TimerInv'
    <2>1. CASE TakeSeat(u)
      BY <2>1, UndispatchedIsTurn DEF TakeSeat
    <2>2. CASE Reconnect(u) \/ Disconnect(u)
      BY <2>2, UndispatchedIsTurn DEF Reconnect, Disconnect
    <2>3. CASE Leave(u) \/ SitOut(u)
      BY <1>2, <1>3, <2>3 DEF Leave, SitOut
    <2>4. CASE SitIn(u)
      BY <2>4, UndispatchedIsTurn DEF SitIn
    <2>5. ASSUME NEW amount, Rebuy(u, amount)
          PROVE  TimerInv'
      BY <2>5, UndispatchedIsTurn DEF Rebuy
    <2>6. CASE ActAny(u)
      BY <1>4, <2>6 DEF ActAny
    <2> QED
      BY <1>5, <2>1, <2>2, <2>3, <2>4, <2>5, <2>6 DEF Request
  <1>6. ASSUME NEW u, ReserveTimer(u)
        PROVE  TimerInv'
    BY <1>2, <1>6, UndispatchedIsTurn DEF ReserveTimer
  <1>7. CASE TurnTimer
    <2>1. ASSUME NEW s \in HandleTimeout(g), g' = s, Dispatch(s, pending)
          PROVE  TimerInv'
      <3>1. DOMAIN s = DOMAIN g
        BY TimeoutFields
      <3> QED
        BY <1>0, <2>1, <3>1, DispatchedIsTurn
    <2>2. ASSUME g' = g \/ g' \in HandleTimeout(g), timer' = NoSeat
          PROVE  TimerInv'
      <3>1. "hand" \in DOMAIN g'
        BY <1>0, <2>2, TimeoutFields
      <3> QED
        BY <2>2, <3>1 DEF TimerInv, TimerIsTurn
    <2> QED
      BY <1>7, <2>1, <2>2 DEF TurnTimer
  <1>8. CASE StartTask
    <2>1. ASSUME NEW s \in StartHand(g), g' = s, Dispatch(s, pending - 1)
          PROVE  TimerInv'
      <3>1. DOMAIN s = DOMAIN g
        BY StartFields
      <3> QED
        BY <1>0, <2>1, <3>1, DispatchedIsTurn
    <2> QED
      BY <1>8, <2>1, UndispatchedIsTurn DEF StartTask
  <1>9. CASE UNCHANGED vars
    BY <1>9, UndispatchedIsTurn DEF vars
  <1> QED
    BY <1>5, <1>6, <1>7, <1>8, <1>9 DEF Next

\* The turn timer that runs is the timer of the turn that is on: whatever the
\* clients ask for, no timer survives its turn, so that none acts for the wrong
\* player (_schedule_turn_timer, _cancel_turn_timer).
THEOREM TimerFollowsTurn == Spec => []TimerIsTurn
  <1>1. Init => TimerInv
    BY DEF Init, EmptyTable, TimerInv, TimerIsTurn
  <1>2. TimerInv /\ [Next]_vars => TimerInv'
    BY TimerKept
  <1>3. TimerInv => TimerIsTurn
    BY DEF TimerInv
  <1> QED
    BY <1>1, <1>2, <1>3, PTL DEF Spec

-----------------------------------------------------------------------------
(* What a table is made of, whoever sits down again *)

\* Somebody who sits down again in a hand he has left upsets the numbers of the
\* table, but not what it is made of: the players with their fields, and a hand
\* with a bet of every user.
Shaped(s) ==
    /\ DOMAIN s = {"phase", "players", "order", "hand"}
    /\ DOMAIN s.hand = DOMAIN NoHand
    /\ DOMAIN s.hand.bets = Users
    /\ \A u \in Seated(s) : DOMAIN s.players[u] = {"seat", "stack", "status", "timeouts"}
    /\ IsFiniteSet(Seated(s))

\* The engine has returned a hand that goes on, or one that is over, and a table
\* is as it returned it or has had no hand yet.
Returned(s) ==
    \/ s.hand.phase = "HAND_END" /\ s.phase \in BetweenHands
    \/ s.hand.phase \in BettingPhases /\ s.phase = s.hand.phase
Fits(s) == Returned(s) \/ (s.hand.phase = "NONE" /\ s.phase \in BetweenHands)

\* From s to r nobody has entered the hand.
Closed(r, s) ==
    /\ InHand(r) \subseteq InHand(s)
    /\ \A u \in Users \ InHand(s) : r.hand.bets[u] \in {0, s.hand.bets[u]}

LEMMA ClosedTwice ==
    ASSUME NEW q, NEW r, NEW s, Closed(q, r), Closed(r, s)
    PROVE  Closed(q, s)
  BY DEF Closed

\* A hand is on when it is at one of its streets.
LEMMA FitsIs ==
    ASSUME NEW s, Fits(s)
    PROVE  /\ HandOn(s) <=> s.hand.phase \in BettingPhases
           /\ HandOn(s) => s.phase = s.hand.phase
           /\ ~HandOn(s) => s.phase \in BetweenHands
  BY DEF Fits, Returned, HandOn, BettingPhases, BetweenHands

\* What a hand and its end are made of
LEMMA HandShape ==
    ASSUME NEW phase, NEW dealer
    PROVE  LET h == EmptyHand(phase, dealer)
           IN  /\ DOMAIN h = DOMAIN NoHand /\ DOMAIN h.bets = Users
               /\ h.phase = phase /\ h.turn = NoSeat
               /\ \A u \in Users : h.bets[u] = 0
  BY DEF EmptyHand, NoHand, NoBets

\* _award_hand
LEMMA AwardShaped ==
    ASSUME NEW s, Shaped(s), NEW r \in AwardHand(s)
    PROVE  Shaped(r) /\ Closed(r, s) /\ Seated(r) = Seated(s) /\ Returned(r)
  <1>1. PICK stacks :
          r = [s EXCEPT
                !.players = [u \in Seated(s) |-> [s.players[u] EXCEPT !.stack = stacks[u]]],
                !.hand    = EmptyHand("HAND_END", s.hand.dealer),
                !.phase   = "WAITING_FOR_PLAYERS"]
    BY DEF AwardHand
  <1> DEFINE h == EmptyHand("HAND_END", s.hand.dealer)
             ps == [u \in Seated(s) |-> [s.players[u] EXCEPT !.stack = stacks[u]]]
  <1>2. /\ r.players = ps /\ r.hand = h /\ r.phase = "WAITING_FOR_PLAYERS"
        /\ DOMAIN r = {"phase", "players", "order", "hand"}
    BY <1>1 DEF Shaped
  <1>3. /\ DOMAIN ps = Seated(s)
        /\ \A u \in Seated(s) : /\ DOMAIN ps[u] = {"seat", "stack", "status", "timeouts"}
                                /\ ps[u].status = s.players[u].status
    BY DEF Shaped
  <1>4. /\ DOMAIN h = DOMAIN NoHand /\ DOMAIN h.bets = Users /\ h.phase = "HAND_END"
        /\ \A u \in Users : h.bets[u] = 0
    BY HandShape
  <1> HIDE DEF h, ps
  <1>5. Seated(r) = Seated(s)
    BY <1>2, <1>3 DEF Seated
  <1>6. Shaped(r)
    BY <1>2, <1>3, <1>4, <1>5 DEF Shaped
  <1>7. Closed(r, s)
    BY <1>2, <1>3, <1>4, <1>5 DEF Closed, InHand, WithStatus
  <1> QED
    BY <1>2, <1>4, <1>5, <1>6, <1>7 DEF Returned, BetweenHands

\* The turn moves on, and a table is otherwise as it was.
LEMMA TurnShaped ==
    ASSUME NEW s, Shaped(s), NEW turn, NEW r, r = [s EXCEPT !.hand.turn = turn]
    PROVE  /\ Shaped(r) /\ Closed(r, s) /\ Seated(r) = Seated(s)
           /\ r.phase = s.phase /\ r.hand.phase = s.hand.phase
  <1>1. /\ DOMAIN r = {"phase", "players", "order", "hand"} /\ r.players = s.players
        /\ r.phase = s.phase /\ r.hand = [s.hand EXCEPT !.turn = turn]
    BY DEF Shaped
  <1>2. /\ DOMAIN r.hand = DOMAIN NoHand /\ r.hand.bets = s.hand.bets
        /\ r.hand.phase = s.hand.phase
    BY <1>1 DEF Shaped, NoHand, EmptyHand
  <1>3. Seated(r) = Seated(s)
    BY <1>1 DEF Seated
  <1>4. Shaped(r)
    BY <1>1, <1>2, <1>3 DEF Shaped
  <1>5. Closed(r, s)
    BY <1>1, <1>2, <1>3 DEF Closed, InHand, WithStatus
  <1> QED
    BY <1>1, <1>2, <1>3, <1>4, <1>5

\* _begin_betting_round
LEMMA OpenShaped ==
    ASSUME NEW s, Shaped(s), NEW phase
    PROVE  LET r == OpenRound(s, phase)
           IN  /\ Shaped(r) /\ Closed(r, s) /\ Seated(r) = Seated(s)
               /\ r.phase = phase /\ r.hand.phase = phase
  <1> DEFINE h == IF phase = "PRE_FLOP" THEN s.hand
                  ELSE [s.hand EXCEPT !.current_bet = 0, !.bets = NoBets,
                                      !.min_raise_to = BigBlind]
             r == OpenRound(s, phase)
  <1>1. /\ DOMAIN h = DOMAIN NoHand /\ (h.bets = s.hand.bets \/ h.bets = NoBets)
    BY DEF Shaped, NoHand, EmptyHand
  <1>2. /\ DOMAIN r = {"phase", "players", "order", "hand"} /\ r.players = s.players
        /\ r.phase = phase /\ r.hand = [h EXCEPT !.phase = phase, !.acted = {}]
    BY DEF OpenRound, Shaped
  <1> HIDE DEF h, r
  <1>3. DOMAIN r.hand = DOMAIN NoHand /\ r.hand.bets = h.bets /\ r.hand.phase = phase
    BY <1>1, <1>2 DEF NoHand, EmptyHand
  <1>4. Seated(r) = Seated(s)
    BY <1>2 DEF Seated
  <1>5. DOMAIN NoBets = Users /\ \A u \in Users : NoBets[u] = 0
    BY DEF NoBets
  <1>6. Shaped(r)
    BY <1>1, <1>2, <1>3, <1>4, <1>5 DEF Shaped
  <1>7. Closed(r, s)
    BY <1>1, <1>2, <1>3, <1>4, <1>5 DEF Closed, InHand, WithStatus
  <1> QED
    BY <1>2, <1>3, <1>4, <1>6, <1>7 DEF r

LEMMA BeginShaped ==
    ASSUME NEW s, Shaped(s), NEW phase \in BettingPhases, NEW r \in BeginBettingRound(s, phase)
    PROVE  Shaped(r) /\ Closed(r, s) /\ Seated(r) = Seated(s) /\ Returned(r)
  <1> DEFINE o == OpenRound(s, phase)
             t == [o EXCEPT !.hand.turn = NoSeat]
             e == [o EXCEPT !.hand.turn = FirstToAct(o, phase)]
  <1>1. /\ Shaped(o) /\ Closed(o, s) /\ Seated(o) = Seated(s)
        /\ o.phase = phase /\ o.hand.phase = phase
    BY OpenShaped
  <1>2. r \in AwardHand(t) \/ r = e
    BY DEF BeginBettingRound, RunOutBoard
  <1> HIDE DEF o
  <1>3. Shaped(t) /\ Closed(t, o) /\ Seated(t) = Seated(o)
    BY <1>1, TurnShaped
  <1>4. /\ Shaped(e) /\ Closed(e, o) /\ Seated(e) = Seated(o)
        /\ e.phase = phase /\ e.hand.phase = phase
    BY <1>1, TurnShaped
  <1> HIDE DEF t, e
  <1>5. CASE r \in AwardHand(t)
    <2>1. Shaped(r) /\ Closed(r, t) /\ Seated(r) = Seated(t) /\ Returned(r)
      BY <1>3, <1>5, AwardShaped
    <2>2. Closed(r, s)
      BY <1>1, <1>3, <2>1, ClosedTwice
    <2> QED
      BY <1>1, <1>3, <2>1, <2>2
  <1>6. CASE r = e
    <2>1. Closed(r, s)
      BY <1>1, <1>4, <1>6, ClosedTwice
    <2> QED
      BY <1>1, <1>4, <1>6, <2>1 DEF Returned
  <1> QED
    BY <1>2, <1>5, <1>6

\* _advance
LEMMA AdvanceShaped ==
    ASSUME NEW s, Shaped(s), s.hand.phase \in BettingPhases, s.phase = s.hand.phase,
           NEW r \in Advance(s)
    PROVE  Shaped(r) /\ Closed(r, s) /\ Seated(r) = Seated(s) /\ Returned(r)
  <1>1. CASE r \in AwardHand(s)
    BY <1>1, AwardShaped
  <1>2. CASE /\ s.hand.phase # "RIVER"
             /\ r \in BeginBettingRound(s, PhaseAfter[s.hand.phase])
    <2>1. PhaseAfter[s.hand.phase] \in BettingPhases
      BY <1>2 DEF PhaseAfter, BettingPhases
    <2> QED
      BY <1>2, <2>1, BeginShaped
  <1>3. CASE r = [s EXCEPT !.hand.turn = NextActiveSeat(s)]
    <2>1. /\ Shaped(r) /\ Closed(r, s) /\ Seated(r) = Seated(s)
          /\ r.phase = s.phase /\ r.hand.phase = s.hand.phase
      BY <1>3, TurnShaped
    <2> QED
      BY <2>1 DEF Returned
  <1> QED
    BY <1>1, <1>2, <1>3 DEF Advance, NextPhase

\* From s to r at most the player u, his bet and the round's have changed.
Touches(r, s, u) ==
    /\ Shaped(r) /\ Seated(r) = Seated(s)
    /\ r.phase = s.phase /\ r.hand.phase = s.hand.phase
    /\ \A v \in Seated(s) \ {u} : r.players[v].status = s.players[v].status
    /\ \A v \in Users \ {u} : r.hand.bets[v] = s.hand.bets[v]

LEMMA TouchesTwice ==
    ASSUME NEW q, NEW r, NEW s, NEW u, Touches(q, r, u), Touches(r, s, u)
    PROVE  Touches(q, s, u)
  BY DEF Touches

\* That is nobody's way into the hand, when u is in it.
LEMMA TouchesCloses ==
    ASSUME NEW r, NEW s, NEW u \in InHand(s), Touches(r, s, u)
    PROVE  Closed(r, s)
  BY DEF Touches, Closed, InHand, WithStatus

\* The parts of a table a player's move may change
LEMMA TouchedIs ==
    ASSUME NEW s, Shaped(s), NEW u, NEW r,
           DOMAIN r = DOMAIN s, r.phase = s.phase, DOMAIN r.players = DOMAIN s.players,
           \A v \in DOMAIN s.players : DOMAIN r.players[v] = DOMAIN s.players[v],
           \A v \in DOMAIN s.players \ {u} : r.players[v] = s.players[v],
           DOMAIN r.hand = DOMAIN s.hand, r.hand.phase = s.hand.phase,
           DOMAIN r.hand.bets = DOMAIN s.hand.bets,
           \A v \in DOMAIN s.hand.bets \ {u} : r.hand.bets[v] = s.hand.bets[v]
    PROVE  Touches(r, s, u)
  BY DEF Shaped, Touches, Seated

\* A new field of the player
LEMMA FieldTouches ==
    ASSUME NEW s, Shaped(s), NEW u, NEW x,
           NEW r, \/ r = [s EXCEPT !.players[u].timeouts = x]
                  \/ r = [s EXCEPT !.players[u].status = x]
    PROVE  Touches(r, s, u)
  <1>1. DOMAIN r = DOMAIN s /\ r.phase = s.phase /\ r.hand = s.hand
    BY DEF Shaped
  <1>2. DOMAIN r.players = DOMAIN s.players
    BY DEF Shaped
  <1>3. \A v \in DOMAIN s.players : DOMAIN r.players[v] = DOMAIN s.players[v]
    BY DEF Shaped
  <1>4. \A v \in DOMAIN s.players \ {u} : r.players[v] = s.players[v]
    BY DEF Shaped
  <1> QED
    BY <1>1, <1>2, <1>3, <1>4, TouchedIs

\* Chips put in, and an action marked
LEMMA BetTouches ==
    ASSUME NEW s, Shaped(s), NEW u, NEW total
    PROVE  Touches(BetTotal(s, u, total), s, u)
  <1> DEFINE left == s.players[u].stack - (total - s.hand.bets[u])
             p == [s EXCEPT !.players[u].stack = left]
             q == [p EXCEPT !.players[u].status = IF left = 0 THEN "ALL_IN" ELSE @]
             r == [q EXCEPT !.hand.bets[u] = total]
  <1>1. BetTotal(s, u, total) = r
    BY DEF BetTotal
  <1>2. DOMAIN p = DOMAIN s /\ p.phase = s.phase /\ p.hand = s.hand
    BY DEF Shaped
  <1>3. /\ DOMAIN p.players = DOMAIN s.players
        /\ \A v \in DOMAIN s.players : DOMAIN p.players[v] = DOMAIN s.players[v]
        /\ \A v \in DOMAIN s.players \ {u} : p.players[v] = s.players[v]
    BY DEF Shaped
  <1> HIDE DEF p
  <1>4. Touches(p, s, u)
    BY <1>2, <1>3, TouchedIs
  <1>5. Shaped(p)
    BY <1>4 DEF Touches
  <1>6. Touches(q, p, u)
    BY <1>5, FieldTouches
  <1> HIDE DEF q
  <1>7. Shaped(q)
    BY <1>6 DEF Touches
  <1>8. DOMAIN r = DOMAIN q /\ r.phase = q.phase /\ r.players = q.players
    BY <1>7 DEF Shaped
  <1>9. /\ DOMAIN r.hand = DOMAIN q.hand /\ r.hand.phase = q.hand.phase
        /\ DOMAIN r.hand.bets = DOMAIN q.hand.bets
        /\ \A v \in DOMAIN q.hand.bets \ {u} : r.hand.bets[v] = q.hand.bets[v]
    BY <1>7 DEF Shaped, NoHand, EmptyHand
  <1> HIDE DEF r
  <1>10. Touches(r, q, u)
    BY <1>7, <1>8, <1>9, TouchedIs
  <1>11. Touches(r, s, u)
    BY <1>4, <1>6, <1>10, TouchesTwice
  <1> QED
    BY <1>1, <1>11

LEMMA RoundTouches ==
    ASSUME NEW s, Shaped(s), NEW u, NEW x, NEW y, NEW z,
           NEW r, \/ r = MarkActed(s, u)
                  \/ r = [s EXCEPT !.hand.current_bet = x, !.hand.min_raise_to = y]
                  \/ r = [s EXCEPT !.hand.current_bet = x, !.hand.min_raise_to = y,
                                   !.hand.acted = z]
    PROVE  Touches(r, s, u)
  <1>1. DOMAIN r = DOMAIN s /\ r.phase = s.phase /\ r.players = s.players
    BY DEF Shaped, MarkActed
  <1>2. \/ \E c : r.hand = [s.hand EXCEPT !.acted = c]
        \/ r.hand = [s.hand EXCEPT !.current_bet = x, !.min_raise_to = y]
        \/ r.hand = [s.hand EXCEPT !.current_bet = x, !.min_raise_to = y, !.acted = z]
    BY DEF MarkActed, Shaped
  <1>3. "phase" \in DOMAIN s.hand /\ "bets" \in DOMAIN s.hand
    BY DEF Shaped, NoHand, EmptyHand
  <1>4. /\ DOMAIN r.hand = DOMAIN s.hand /\ r.hand.phase = s.hand.phase
        /\ r.hand.bets = s.hand.bets
    BY <1>2, <1>3
  <1> QED
    BY <1>1, <1>4, TouchedIs

LEMMA RaiseTouches ==
    ASSUME NEW s, Shaped(s), NEW u, NEW total
    PROVE  Touches(RaiseTo(s, u, total), s, u)
  <1> DEFINE b == BetTotal(s, u, total)
  <1>1. Touches(b, s, u)
    BY BetTouches
  <1>2. Shaped(b)
    BY <1>1 DEF Touches
  <1>3. \E x, y, z : RaiseTo(s, u, total) =
             [b EXCEPT !.hand.current_bet = x, !.hand.min_raise_to = y, !.hand.acted = z]
    BY DEF RaiseTo
  <1> HIDE DEF b
  <1>4. Touches(RaiseTo(s, u, total), b, u)
    BY <1>2, <1>3, RoundTouches
  <1> QED
    BY <1>1, <1>4, TouchesTwice

\* What an action does to the bets
LEMMA ActionTouches ==
    ASSUME NEW s, Shaped(s), NEW u, NEW type \in {"fold", "check", "call", "raise", "all_in"},
           NEW amount
    PROVE  Touches(Bet(s, u, type, amount), s, u)
  <1>1. \A total : Touches(BetTotal(s, u, total), s, u) /\ Touches(RaiseTo(s, u, total), s, u)
    BY BetTouches, RaiseTouches
  <1>2. \A q : Touches(q, s, u) => Touches(MarkActed(q, u), s, u)
    <2> SUFFICES ASSUME NEW q, Touches(q, s, u) PROVE Touches(MarkActed(q, u), s, u)
      OBVIOUS
    <2>1. Shaped(q)
      BY DEF Touches
    <2>2. Touches(MarkActed(q, u), q, u)
      BY <2>1, RoundTouches
    <2> QED
      BY <2>2, TouchesTwice
  <1>3. Touches(MarkActed(s, u), s, u)
    BY RoundTouches
  <1>4. Touches([s EXCEPT !.players[u].status = "FOLDED"], s, u)
    BY FieldTouches
  <1>5. CASE type = "fold"
    BY <1>2, <1>4, <1>5 DEF Bet
  <1>6. CASE type = "check"
    BY <1>3, <1>6 DEF Bet
  <1>7. CASE type = "call"
    BY <1>1, <1>2, <1>7 DEF Bet
  <1>8. CASE type = "raise"
    BY <1>1, <1>8 DEF Bet
  <1>9. CASE type = "all_in"
    BY <1>1, <1>2, <1>9 DEF Bet
  <1> QED
    BY <1>5, <1>6, <1>7, <1>8, <1>9

\* apply_action, which takes actions of those who are in the hand only
LEMMA ActionShaped ==
    ASSUME NEW s, Shaped(s), Fits(s), NEW u,
           NEW type \in {"fold", "check", "call", "raise", "all_in"}, NEW amount,
           NEW r \in ApplyAction(s, u, type, amount)
    PROVE  /\ Shaped(r) /\ Closed(r, s) /\ Seated(r) = Seated(s) /\ Returned(r)
           /\ u \in Seated(s)
  <1> DEFINE f == [s EXCEPT !.players[u].timeouts = 0]
             b == Bet(f, u, type, amount)
  <1>1. /\ s.hand.phase \in BettingPhases /\ u \in InHand(s) /\ u \in Seated(s)
        /\ r \in Advance(b)
    BY DEF ApplyAction, ValidAction, ValidTurn, InHand, WithStatus
  <1>2. s.phase = s.hand.phase
    BY <1>1, FitsIs
  <1>3. Touches(f, s, u)
    BY FieldTouches
  <1> HIDE DEF f
  <1>4. Shaped(f)
    BY <1>3 DEF Touches
  <1>5. Touches(b, f, u)
    BY <1>4, ActionTouches
  <1> HIDE DEF b
  <1>6. Touches(b, s, u)
    BY <1>3, <1>5, TouchesTwice
  <1>7. Closed(b, s)
    BY <1>1, <1>6, TouchesCloses
  <1>8. /\ Shaped(b) /\ Seated(b) = Seated(s) /\ b.hand.phase \in BettingPhases
        /\ b.phase = b.hand.phase
    BY <1>1, <1>2, <1>6 DEF Touches
  <1>9. Shaped(r) /\ Closed(r, b) /\ Seated(r) = Seated(b) /\ Returned(r)
    BY <1>1, <1>8, AdvanceShaped
  <1>10. Closed(r, s)
    BY <1>7, <1>9, ClosedTwice
  <1> QED
    BY <1>1, <1>8, <1>9, <1>10

\* handle_timeout: a player without a turn is left alone.
LEMMA TimeoutShaped ==
    ASSUME NEW s, Shaped(s), Fits(s), NEW r \in HandleTimeout(s)
    PROVE  /\ Shaped(r) /\ Seated(r) = Seated(s) /\ Fits(r)
           /\ \/ Returned(r) /\ Closed(r, s)
              \/ r = s /\ (s.hand.turn = NoSeat \/ s.hand.turn \notin Seats(s))
  <1>1. CASE r = s /\ (s.hand.turn = NoSeat \/ s.hand.turn \notin Seats(s))
    BY <1>1
  <1>2. CASE \E u, count, t : /\ t \in ApplyAction(s, u, AutoAction(s, u), 0)
                              /\ r = [t EXCEPT !.players[u].timeouts = count,
                                               !.players[u].status =
                                                    IF count >= SitOutAfter THEN "SIT_OUT" ELSE @]
    <2>1. PICK u, count, t :
                 /\ t \in ApplyAction(s, u, AutoAction(s, u), 0)
                 /\ r = [t EXCEPT !.players[u].timeouts = count,
                                  !.players[u].status =
                                        IF count >= SitOutAfter THEN "SIT_OUT" ELSE @]
      BY <1>2
    <2>2. AutoAction(s, u) \in {"fold", "check", "call", "raise", "all_in"}
      BY DEF AutoAction
    <2>3. Shaped(t) /\ Closed(t, s) /\ Seated(t) = Seated(s) /\ Returned(t)
      BY <2>1, <2>2, ActionShaped
    <2> DEFINE p == [t EXCEPT !.players[u].timeouts = count]
               x == IF count >= SitOutAfter THEN "SIT_OUT" ELSE p.players[u].status
    <2>4. r = [p EXCEPT !.players[u].status = x]
      BY <2>1
    <2>5. Touches(p, t, u)
      BY <2>3, FieldTouches
    <2>6. /\ p.hand = t.hand /\ DOMAIN p.players = DOMAIN t.players
          /\ u \in Seated(t) => p.players[u].status = t.players[u].status
      BY <2>3 DEF Shaped
    <2> HIDE DEF p
    <2>7. Shaped(p)
      BY <2>5 DEF Touches
    <2>8. Touches(r, p, u)
      BY <2>4, <2>7, FieldTouches
    <2>9. /\ r.hand = p.hand
          /\ u \in Seated(p) => r.players[u].status \in {"SIT_OUT", p.players[u].status}
      BY <2>4, <2>7 DEF Shaped, Seated
    <2>10. /\ Touches(r, t, u) /\ r.hand = t.hand
           /\ u \in Seated(t) => r.players[u].status \in {"SIT_OUT", t.players[u].status}
      BY <2>5, <2>6, <2>8, <2>9, TouchesTwice DEF Seated
    <2>11. Closed(r, t)
      BY <2>10 DEF Touches, Closed, InHand, WithStatus
    <2>12. Closed(r, s)
      BY <2>3, <2>11, ClosedTwice
    <2> QED
      BY <2>3, <2>10, <2>12 DEF Touches, Returned, Fits
  <1> QED
    BY <1>1, <1>2 DEF HandleTimeout

\* start_hand, which begins a hand out of whatever the table is left with
LEMMA StartShaped ==
    ASSUME NEW s, Shaped(s), NEW r \in StartHand(s)
    PROVE  Shaped(r) /\ Seated(r) = Seated(s) /\ Returned(r)
  <1> DEFINE t == Reset(s)
             b == PostBlinds(t, NextDealer(t))
             e == PostStraddle(b)
  <1>1. PICK d \in DealHoleCards(e) : r \in BeginBettingRound(d, "PRE_FLOP")
    BY DEF StartHand, Deals
  <1>2. Shaped(t) /\ Seated(t) = Seated(s)
    <2>1. /\ DOMAIN t = DOMAIN s /\ t.hand = s.hand
          /\ t.players = [u \in Seated(s) |-> ResetStatus(s.players[u])]
      BY DEF Reset, Shaped
    <2>2. Seated(t) = Seated(s)
      BY <2>1 DEF Seated
    <2>3. \A p : DOMAIN ResetStatus(p) = DOMAIN p
      BY DEF ResetStatus
    <2> HIDE DEF t
    <2> QED
      BY <2>1, <2>2, <2>3 DEF Shaped
  <1> HIDE DEF t
  <1>3. \A q, u, amount : Shaped(q) => /\ Shaped(PostForcedBet(q, u, amount))
                                       /\ Seated(PostForcedBet(q, u, amount)) = Seated(q)
    <2> SUFFICES ASSUME NEW q, NEW u, NEW amount, Shaped(q)
                 PROVE  /\ Shaped(PostForcedBet(q, u, amount))
                        /\ Seated(PostForcedBet(q, u, amount)) = Seated(q)
      OBVIOUS
    <2> DEFINE f == PostForcedBet(q, u, amount)
    <2>1. PICK total : LET a == BetTotal(q, u, total)
                       IN  \/ f = a
                           \/ \E x, y : f = [a EXCEPT !.hand.current_bet = x,
                                                      !.hand.min_raise_to = y]
      BY DEF PostForcedBet
    <2> DEFINE a == BetTotal(q, u, total)
    <2>2. f = a \/ \E x, y : f = [a EXCEPT !.hand.current_bet = x, !.hand.min_raise_to = y]
      BY <2>1
    <2>3. Touches(a, q, u)
      BY BetTouches
    <2> HIDE DEF a, f
    <2>4. Shaped(a) /\ Seated(a) = Seated(q)
      BY <2>3 DEF Touches
    <2>5. f = a \/ Touches(f, a, u)
      BY <2>2, <2>4, RoundTouches
    <2>6. Shaped(f) /\ Seated(f) = Seated(a)
      BY <2>4, <2>5 DEF Touches
    <2> QED
      BY <2>4, <2>6 DEF f
  <1>4. Shaped(b) /\ Seated(b) = Seated(t)
    <2> DEFINE dealer == NextDealer(t)
               blinds == BlindSeats(t, dealer)
               h == [EmptyHand("START_HAND", dealer) EXCEPT
                        !.bb = blinds[2],
                        !.min_raise_to = BigBlind,
                        !.start = [u \in Seated(t) |-> t.players[u].stack],
                        !.start_order = t.order]
               opened == [t EXCEPT !.hand = h]
               small == PostForcedBet(opened, UserAt(t, blinds[1]), SmallBlind)
    <2>1. /\ DOMAIN h = DOMAIN EmptyHand("START_HAND", dealer)
          /\ h.bets = EmptyHand("START_HAND", dealer).bets
      BY DEF EmptyHand
    <2>2. DOMAIN h = DOMAIN NoHand /\ DOMAIN h.bets = Users
      BY <2>1, HandShape
    <2> HIDE DEF h
    <2>3. DOMAIN opened = DOMAIN t /\ opened.hand = h /\ opened.players = t.players
      BY <1>2 DEF Shaped
    <2> HIDE DEF opened
    <2>4. Seated(opened) = Seated(t) /\ Shaped(opened)
      BY <1>2, <2>2, <2>3 DEF Shaped, Seated
    <2>5. \E u, v : b = PostForcedBet(PostForcedBet(opened, u, SmallBlind), v, BigBlind)
      BY Zenon DEF PostBlinds, opened, h
    <2> QED
      BY <1>3, <2>4, <2>5
  <1> HIDE DEF b
  <1>5. Shaped(e) /\ Seated(e) = Seated(b)
    BY <1>3, <1>4 DEF PostStraddle
  <1> HIDE DEF e
  <1>6. Shaped(d) /\ Seated(d) = Seated(e)
    <2>1. PICK c \in [CanAct(e) -> Cards] :
            d = [e EXCEPT !.hand.cards = c,
                          !.players = [u \in Seated(e) |->
                              IF u \in CanAct(e) /\ c[u].kind = "seven_ten"
                                THEN [e.players[u] EXCEPT !.status = "FOLDED"]
                                ELSE e.players[u]]]
      BY DEF DealHoleCards
    <2> DEFINE ps == [u \in Seated(e) |->
                          IF u \in CanAct(e) /\ c[u].kind = "seven_ten"
                            THEN [e.players[u] EXCEPT !.status = "FOLDED"]
                            ELSE e.players[u]]
    <2>2. /\ DOMAIN ps = Seated(e)
          /\ \A u \in Seated(e) : DOMAIN ps[u] = {"seat", "stack", "status", "timeouts"}
      BY <1>5 DEF Shaped
    <2>3. d = [e EXCEPT !.hand.cards = c, !.players = ps]
      BY <2>1
    <2> HIDE DEF ps
    <2>4. DOMAIN d = DOMAIN e /\ d.players = ps /\ d.hand = [e.hand EXCEPT !.cards = c]
      BY <1>5, <2>3 DEF Shaped
    <2>5. DOMAIN d.hand = DOMAIN e.hand /\ d.hand.bets = e.hand.bets
      BY <1>5, <2>4 DEF Shaped, NoHand, EmptyHand
    <2> QED
      BY <1>5, <2>2, <2>4, <2>5 DEF Shaped, Seated
  <1>7. Shaped(r) /\ Seated(r) = Seated(d) /\ Returned(r)
    BY <1>1, <1>6, BeginShaped DEF BettingPhases
  <1> QED
    BY <1>2, <1>4, <1>5, <1>6, <1>7

\* The players change, and the hand does not.
LEMMA SeatsShaped ==
    ASSUME NEW s, Shaped(s), NEW r, DOMAIN r = DOMAIN s, r.phase = s.phase, r.hand = s.hand,
           IsFiniteSet(Seated(r)),
           \A v \in Seated(r) : DOMAIN r.players[v] = {"seat", "stack", "status", "timeouts"},
           \/ ~HandOn(s)
           \/ \A v \in Seated(r) :
                 \/ r.players[v].status \in {"WAITING", "SIT_OUT"}
                 \/ v \in Seated(s) /\ r.players[v].status = s.players[v].status
    PROVE  /\ Shaped(r) /\ (HandOn(r) <=> HandOn(s)) /\ (HandOn(s) => Closed(r, s))
           /\ Fits(s) => Fits(r)
  <1>1. Shaped(r)
    BY DEF Shaped
  <1>2. (HandOn(r) <=> HandOn(s)) /\ (Fits(s) => Fits(r))
    BY DEF HandOn, Fits, Returned
  <1>3. HandOn(s) => Closed(r, s)
    BY DEF Closed, InHand, WithStatus
  <1> QED
    BY <1>1, <1>2, <1>3

\* join_as_player, sit_in and rebuy: whoever comes waits, as long as a hand is on.
LEMMA ComingShaped ==
    ASSUME NEW u, NEW p, DOMAIN p = {"seat", "stack", "status", "timeouts"}, Shaped(g),
           ~HandOn(g) \/ p.status = "WAITING", g' = Seat(u, p)
    PROVE  /\ Shaped(g') /\ (HandOn(g') <=> HandOn(g)) /\ (HandOn(g) => Closed(g', g))
           /\ Fits(g) => Fits(g')
  <1> DEFINE ps == [v \in Seated(g) \cup {u} |-> IF v = u THEN p ELSE g.players[v]]
  <1>1. /\ DOMAIN g' = DOMAIN g /\ g'.phase = g.phase /\ g'.hand = g.hand
        /\ g'.players = ps
    BY DEF Seat, Shaped
  <1>2. /\ Seated(g') = Seated(g) \cup {u} /\ g'.players[u] = p
        /\ \A v \in Seated(g) \ {u} : g'.players[v] = g.players[v]
    BY <1>1 DEF Seated
  <1> HIDE DEF ps
  <1>3. IsFiniteSet(Seated(g'))
    BY <1>2, FS_AddElement DEF Shaped
  <1>4. \A v \in Seated(g') : DOMAIN g'.players[v] = {"seat", "stack", "status", "timeouts"}
    BY <1>2 DEF Shaped
  <1> QED
    BY <1>1, <1>2, <1>3, <1>4, SeatsShaped

LEMMA BackShaped ==
    ASSUME NEW u \in Seated(g), Shaped(g), NEW amount,
           \/ g' = SetStatus(g, u, "WAITING")
           \/ ~HandOn(g) /\ g' = [g EXCEPT !.players[u].stack = @ + amount]
    PROVE  /\ Shaped(g') /\ (HandOn(g') <=> HandOn(g)) /\ (HandOn(g) => Closed(g', g))
           /\ Fits(g) => Fits(g')
  <1>1. /\ DOMAIN g' = DOMAIN g /\ g'.phase = g.phase /\ g'.hand = g.hand
        /\ DOMAIN g'.players = DOMAIN g.players
    BY DEF SetStatus, Shaped
  <1>2. \A v \in Seated(g) \ {u} : g'.players[v] = g.players[v]
    BY DEF SetStatus, Shaped, Seated
  <1>3. /\ DOMAIN g'.players[u] = DOMAIN g.players[u]
        /\ ~HandOn(g) \/ g'.players[u].status = "WAITING"
    BY DEF SetStatus, Shaped, Seated
  <1>4. Seated(g') = Seated(g) /\ IsFiniteSet(Seated(g'))
    BY <1>1 DEF Seated, Shaped
  <1>5. \A v \in Seated(g') : DOMAIN g'.players[v] = {"seat", "stack", "status", "timeouts"}
    BY <1>2, <1>3, <1>4 DEF Shaped
  <1> QED
    BY <1>1, <1>2, <1>3, <1>4, <1>5, SeatsShaped

\* Nobody is ready who has left or who sits out.
LEMMA GoneShaped ==
    ASSUME NEW s, Shaped(s), NEW u \in Seated(s),
           NEW r, r = Unseat(s, u) \/ r = SetStatus(s, u, "SIT_OUT")
    PROVE  /\ Shaped(r) /\ (HandOn(r) <=> HandOn(s)) /\ (HandOn(s) => Closed(r, s))
           /\ Fits(s) => Fits(r)
           /\ Ready(r) \subseteq Ready(s)
  <1>1. /\ DOMAIN r = DOMAIN s /\ r.phase = s.phase /\ r.hand = s.hand
        /\ Seated(r) \subseteq Seated(s)
        /\ \A v \in Seated(r) \ {u} : r.players[v] = s.players[v]
        /\ u \in Seated(r) => /\ DOMAIN r.players[u] = DOMAIN s.players[u]
                              /\ r.players[u].status = "SIT_OUT"
    <2>1. CASE r = Unseat(s, u)
      <3> DEFINE ps == [v \in Seated(s) \ {u} |-> s.players[v]]
      <3>1. /\ DOMAIN r = DOMAIN s /\ r.phase = s.phase /\ r.hand = s.hand
            /\ r.players = ps
        BY <2>1 DEF Unseat, Shaped
      <3>2. DOMAIN ps = Seated(s) \ {u} /\ \A v \in Seated(s) \ {u} : ps[v] = s.players[v]
        OBVIOUS
      <3> HIDE DEF ps
      <3> QED
        BY <3>1, <3>2 DEF Seated
    <2>2. CASE r = SetStatus(s, u, "SIT_OUT")
      BY <2>2 DEF SetStatus, Shaped, Seated
    <2> QED
      BY <2>1, <2>2
  <1>2. IsFiniteSet(Seated(r))
    BY <1>1, FS_Subset DEF Shaped
  <1>3. \A v \in Seated(r) : DOMAIN r.players[v] = {"seat", "stack", "status", "timeouts"}
    BY <1>1 DEF Shaped
  <1>4. /\ Shaped(r) /\ (HandOn(r) <=> HandOn(s)) /\ (HandOn(s) => Closed(r, s))
        /\ Fits(s) => Fits(r)
    BY <1>1, <1>2, <1>3, SeatsShaped
  <1>5. Ready(r) \subseteq Ready(s)
    BY <1>1 DEF Ready, WithStatus
  <1> QED
    BY <1>4, <1>5

-----------------------------------------------------------------------------
(* The next hand, and the hand that is on *)

\* A table, with so many tasks, has somebody looking after the next hand.
Scheduled(s, connected, tasks, failed) ==
    ~HandOn(s) /\ Cardinality(Ready(s) \cap connected) >= 2 => tasks > 0 \/ failed

\* What is so of every session, whoever sits down: somebody looks after the next
\* hand, or the notes say why nobody does.
TableInv ==
    /\ Shaped(g) /\ Fits(g)
    /\ pending \in 0..TaskBound
    /\ Scheduled(g, online, pending, raised \/ unseen)

\* What a step has to do for it, and for the hand that is on
Step ==
    /\ TableInv'
    /\ HandOn(g) /\ HandOn(g') => Closed(g', g)

LEMMA StepIs ==
    ASSUME Shaped(g'), Fits(g'), pending' \in 0..TaskBound,
           Scheduled(g', online', pending', raised' \/ unseen'),
           HandOn(g) /\ HandOn(g') => Closed(g', g)
    PROVE  Step
  <1>1. Shaped(g)' /\ Fits(g)'
    BY DEF Shaped, Fits, Returned, Seated
  <1>2. Scheduled(g, online, pending, raised \/ unseen)'
    BY DEF Scheduled, HandOn, Ready, WithStatus, Seated
  <1> QED
    BY <1>1, <1>2 DEF Step, TableInv

\* Whoever looks schedules it.
LEMMA LookSchedules ==
    ASSUME NEW s, Fits(s), NEW connected, NEW tasks \in 0..TaskBound, NEW failed
    PROVE  Scheduled(s, connected, AfterMaybeStart(s, connected, tasks), failed)
  <1>1. ~HandOn(s) => s.phase \in BetweenHands
    BY FitsIs
  <1>2. TaskBound \in Nat /\ TaskBound > 0
    BY SessionAssumption
  <1> QED
    BY <1>1, <1>2 DEF Scheduled, AfterMaybeStart, MinOf

\* The end of a hand is looked at, and while a hand is on there is nothing to
\* schedule.
LEMMA DispatchSchedules ==
    ASSUME NEW s, Returned(s), NEW tasks \in 0..TaskBound, Dispatch(s, tasks), NEW failed
    PROVE  pending' \in 0..TaskBound /\ Scheduled(s, online, pending', failed)
  <1>1. pending' = AfterHandEnd(s, tasks)
    BY DEF Dispatch
  <1>2. Fits(s)
    BY DEF Fits
  <1>3. pending' \in 0..TaskBound
    BY <1>1, TasksBounded
  <1>4. CASE s.hand.phase = "HAND_END"
    <2>1. pending' = AfterMaybeStart(s, online, tasks)
      BY <1>1, <1>4 DEF AfterHandEnd
    <2> QED
      BY <1>2, <1>3, <2>1, LookSchedules
  <1>5. CASE s.hand.phase \in BettingPhases
    <2>1. HandOn(s)
      BY <1>2, <1>5, FitsIs
    <2> QED
      BY <1>3, <2>1 DEF Scheduled
  <1> QED
    BY <1>4, <1>5 DEF Returned

\* When fewer players are ready, nothing more has to be scheduled.
LEMMA FewerScheduled ==
    ASSUME NEW s, NEW connected, NEW tasks, NEW failed, Scheduled(s, connected, tasks, failed),
           IsFiniteSet(Seated(s)), NEW r, HandOn(s) => HandOn(r), NEW others,
           Ready(r) \cap others \subseteq Ready(s) \cap connected
    PROVE  Scheduled(r, others, tasks, failed)
  <1> DEFINE A == Ready(r) \cap others
             B == Ready(s) \cap connected
  <1>1. B \subseteq Seated(s)
    BY DEF Ready, WithStatus
  <1>2. IsFiniteSet(B) /\ A \subseteq B
    BY <1>1, FS_Subset
  <1> HIDE DEF A, B
  <1>3. Cardinality(A) <= Cardinality(B) /\ Cardinality(A) \in Nat /\ Cardinality(B) \in Nat
    BY <1>2, FS_Subset, FS_CardinalityType
  <1>4. Cardinality(A) >= 2 => Cardinality(B) >= 2
    BY <1>3
  <1> QED
    BY <1>4 DEF Scheduled, A, B

\* The table is as it was, with somebody disconnected perhaps.
LEMMA SameTableSteps ==
    ASSUME TableInv, g' = g, pending' = pending, online' \subseteq online,
           raised' = raised, unseen' = unseen
    PROVE  Step
  <1>1. Shaped(g) /\ Fits(g) /\ Scheduled(g, online, pending, raised \/ unseen)
    BY DEF TableInv
  <1>2. Ready(g') \cap online' \subseteq Ready(g) \cap online
    OBVIOUS
  <1>3. Scheduled(g', online', pending', raised' \/ unseen')
    BY <1>1, <1>2, FewerScheduled DEF Shaped
  <1>4. Closed(g', g)
    BY DEF Closed
  <1> QED
    BY <1>1, <1>3, <1>4, StepIs DEF TableInv

\* Somebody comes and is looked at: join_as_player, _do_reconnect and sit_in.
LEMMA LookedAtSteps ==
    ASSUME TableInv, NEW u \in Users, TakeSeat(u) \/ Reconnect(u) \/ SitIn(u)
    PROVE  Step
  <1>1. Shaped(g) /\ Fits(g) /\ pending \in 0..TaskBound
    BY DEF TableInv
  <1>2. /\ Shaped(g') /\ Fits(g') /\ pending' = AfterMaybeStart(g', online', pending)
        /\ HandOn(g) => Closed(g', g)
    <2>1. CASE TakeSeat(u)
      <3> DEFINE p == [seat     |-> MinSeat(FreeSeats),
                       stack    |-> StartingStack,
                       status   |-> IF HandOn(g) THEN "WAITING" ELSE "ACTIVE",
                       timeouts |-> 0]
      <3>1. g' = Seat(u, p) /\ pending' = AfterMaybeStart(g', online', pending)
        BY <2>1 DEF TakeSeat
      <3>2. /\ DOMAIN p = {"seat", "stack", "status", "timeouts"}
            /\ ~HandOn(g) \/ p.status = "WAITING"
        OBVIOUS
      <3> HIDE DEF p
      <3> QED
        BY <1>1, <3>1, <3>2, ComingShaped
    <2>2. CASE Reconnect(u)
      <3>1. g' = g /\ pending' = AfterMaybeStart(g', online', pending)
        BY <2>2 DEF Reconnect
      <3>2. Closed(g', g)
        BY <3>1 DEF Closed
      <3> QED
        BY <1>1, <3>1, <3>2
    <2>3. CASE SitIn(u)
      <3>1. /\ u \in Seated(g) /\ g' = SetStatus(g, u, "WAITING")
            /\ pending' = AfterMaybeStart(g', online', pending)
        BY <2>3 DEF SitIn, WithStatus
      <3> QED
        BY <1>1, <3>1, BackShaped
    <2> QED
      BY <2>1, <2>2, <2>3
  <1>3. Scheduled(g', online', pending', raised' \/ unseen') /\ pending' \in 0..TaskBound
    BY <1>1, <1>2, LookSchedules, TasksBounded
  <1> QED
    BY <1>2, <1>3, StepIs

\* Somebody leaves or sits out, and his turn is played to its end first.
LEMMA GoneSteps ==
    ASSUME TableInv, NEW u \in Seated(g), online' \subseteq online,
           raised' = raised, unseen' = unseen,
           \/ /\ g' = Unseat(g, u) \/ g' = SetStatus(g, u, "SIT_OUT")
              /\ pending' = pending
           \/ \E s \in ApplyAction(g, u, "fold", 0) :
                 /\ g' = Unseat(s, u) \/ g' = SetStatus(s, u, "SIT_OUT")
                 /\ Dispatch(s, pending)
    PROVE  Step
  <1>1. /\ Shaped(g) /\ Fits(g) /\ pending \in 0..TaskBound
        /\ Scheduled(g, online, pending, raised \/ unseen)
    BY DEF TableInv
  <1>2. PICK s : /\ Shaped(s) /\ Fits(s) /\ Closed(s, g) /\ Seated(s) = Seated(g)
                 /\ g' = Unseat(s, u) \/ g' = SetStatus(s, u, "SIT_OUT")
                 /\ pending' \in 0..TaskBound
                 /\ Scheduled(s, online, pending', raised \/ unseen)
    <2>1. CASE /\ g' = Unseat(g, u) \/ g' = SetStatus(g, u, "SIT_OUT")
               /\ pending' = pending
      <3>1. Closed(g, g)
        BY DEF Closed
      <3> QED
        BY <1>1, <2>1, <3>1
    <2>2. ASSUME NEW s \in ApplyAction(g, u, "fold", 0), Dispatch(s, pending),
                 g' = Unseat(s, u) \/ g' = SetStatus(s, u, "SIT_OUT")
          PROVE  /\ Shaped(s) /\ Fits(s) /\ Closed(s, g) /\ Seated(s) = Seated(g)
                 /\ g' = Unseat(s, u) \/ g' = SetStatus(s, u, "SIT_OUT")
                 /\ pending' \in 0..TaskBound
                 /\ Scheduled(s, online, pending', raised \/ unseen)
      <3>1. Shaped(s) /\ Closed(s, g) /\ Seated(s) = Seated(g) /\ Returned(s)
        BY <1>1, ActionShaped
      <3>2. pending' \in 0..TaskBound /\ Scheduled(s, online, pending', raised \/ unseen)
        BY <1>1, <2>2, <3>1, DispatchSchedules
      <3> QED
        BY <2>2, <3>1, <3>2 DEF Fits
    <2> QED
      BY <2>1, <2>2
  <1>3. /\ Shaped(g') /\ (HandOn(g') <=> HandOn(s)) /\ (HandOn(s) => Closed(g', s))
        /\ Fits(g') /\ Ready(g') \subseteq Ready(s)
    BY <1>2, GoneShaped
  <1>4. Scheduled(g', online', pending', raised' \/ unseen')
    <2>1. Ready(g') \cap online' \subseteq Ready(s) \cap online
      BY <1>3
    <2>2. Scheduled(g', online', pending', raised \/ unseen)
      BY <1>2, <1>3, <2>1, FewerScheduled DEF Shaped
    <2> QED
      BY <2>2
  <1>5. HandOn(g') => Closed(g', g)
    BY <1>2, <1>3, ClosedTwice
  <1> QED
    BY <1>2, <1>3, <1>4, <1>5, StepIs

\* rebuy, which nobody looks at, but which is noted when it makes a difference
LEMMA RebuySteps ==
    ASSUME TableInv, NEW u, NEW amount, Rebuy(u, amount)
    PROVE  Step
  <1>1. /\ u \in Seated(g) /\ ~HandOn(g) /\ g' = [g EXCEPT !.players[u].stack = @ + amount]
        /\ online' = online /\ pending' = pending /\ raised' = raised
        /\ unseen' = (unseen \/ Ready(g') # Ready(g))
    BY DEF Rebuy
  <1>2. /\ Shaped(g) /\ Fits(g) /\ pending \in 0..TaskBound
        /\ Scheduled(g, online, pending, raised \/ unseen)
    BY DEF TableInv
  <1>3. /\ Shaped(g') /\ (HandOn(g') <=> HandOn(g)) /\ (HandOn(g) => Closed(g', g)) /\ Fits(g')
    BY <1>1, <1>2, BackShaped
  <1>4. Scheduled(g', online', pending', raised' \/ unseen')
    <2>1. CASE Ready(g') = Ready(g)
      <3>1. Scheduled(g', online', pending', raised \/ unseen)
        BY <1>1, <1>2, <1>3, <2>1, FewerScheduled DEF Shaped
      <3> QED
        BY <1>1, <3>1 DEF Scheduled
    <2>2. CASE Ready(g') # Ready(g)
      BY <1>1, <2>2 DEF Scheduled
    <2> QED
      BY <2>1, <2>2
  <1> QED
    BY <1>1, <1>2, <1>3, <1>4, StepIs

\* handle_action
LEMMA ActSteps ==
    ASSUME TableInv, NEW u, NEW type \in {"fold", "check", "call", "raise", "all_in"},
           NEW amount, Act(u, type, amount)
    PROVE  Step
  <1>1. PICK s \in ApplyAction(g, u, type, amount) : g' = s /\ Dispatch(s, pending)
    BY DEF Act
  <1>2. online' = online
    BY DEF Act
  <1>3. Shaped(g) /\ Fits(g) /\ pending \in 0..TaskBound
    BY DEF TableInv
  <1>4. Shaped(s) /\ Closed(s, g) /\ Returned(s)
    BY <1>3, ActionShaped
  <1>5. pending' \in 0..TaskBound /\ Scheduled(s, online, pending', raised' \/ unseen')
    BY <1>1, <1>3, <1>4, DispatchSchedules
  <1> QED
    BY <1>1, <1>2, <1>4, <1>5, StepIs DEF Fits

\* _run_turn_timer
LEMMA TurnTimerSteps ==
    ASSUME TableInv, TurnTimer
    PROVE  Step
  <1>1. online' = online /\ raised' = raised /\ unseen' = unseen
    BY DEF TurnTimer, notes
  <1>2. /\ Shaped(g) /\ Fits(g) /\ pending \in 0..TaskBound
        /\ Scheduled(g, online, pending, raised \/ unseen)
    BY DEF TableInv
  <1>3. CASE g' = g /\ pending' = pending
    BY <1>1, <1>3, SameTableSteps
  <1>4. ASSUME NEW s \in HandleTimeout(g), g' = s, g.hand.turn # NoSeat,
               g.hand.turn \in Seats(g), Dispatch(s, pending)
        PROVE  Step
    <2>1. Shaped(s) /\ Fits(s) /\ Returned(s) /\ Closed(s, g)
      BY <1>2, <1>4, TimeoutShaped
    <2>2. pending' \in 0..TaskBound /\ Scheduled(s, online, pending', raised' \/ unseen')
      BY <1>2, <1>4, <2>1, DispatchSchedules
    <2> QED
      BY <1>1, <1>4, <2>1, <2>2, StepIs
  <1>5. CASE g' \in HandleTimeout(g) /\ g.hand.turn \notin Seats(g) /\ pending' = pending
    <2>1. g' = g
      BY <1>5 DEF HandleTimeout
    <2> QED
      BY <1>3, <1>5, <2>1
  <1> QED
    BY <1>3, <1>4, <1>5 DEF TurnTimer

\* _start_hand_after_delay: the hand starts, the players are not ready any more,
\* or start_hand raises and that is remembered.
LEMMA StartTaskSteps ==
    ASSUME TableInv, StartTask
    PROVE  Step
  <1>1. pending > 0 /\ online' = online
    BY DEF StartTask
  <1>2. /\ Shaped(g) /\ Fits(g) /\ pending \in 0..TaskBound
        /\ IsFiniteSet(Seated(g))
    BY DEF TableInv, Shaped
  <1>3. pending - 1 \in 0..TaskBound
    <2>1. TaskBound \in Nat
      BY SessionAssumption
    <2> QED
      BY <1>1, <1>2, <2>1
  <1>4. ASSUME NEW s \in StartHand(g), g' = s, Dispatch(s, pending - 1), g.phase \in BetweenHands
        PROVE  Step
    <2>1. Shaped(s) /\ Returned(s)
      BY <1>2, StartShaped
    <2>2. pending' \in 0..TaskBound /\ Scheduled(s, online, pending', raised' \/ unseen')
      BY <1>3, <1>4, <2>1, DispatchSchedules
    <2>3. ~HandOn(g)
      BY <1>4 DEF HandOn
    <2> QED
      BY <1>1, <1>4, <2>1, <2>2, <2>3, StepIs DEF Fits
  <1>5. ASSUME g' = g, pending' = pending - 1, Scheduled(g, online, pending', raised' \/ unseen')
        PROVE  Step
    <2>1. Closed(g', g)
      BY <1>5 DEF Closed
    <2> QED
      BY <1>1, <1>2, <1>3, <1>5, <2>1, StepIs
  <1>6. CASE g.phase \notin BetweenHands /\ g' = g /\ pending' = pending - 1
    <2>1. HandOn(g)
      BY <1>2, <1>6, FitsIs
    <2> QED
      BY <1>5, <1>6, <2>1 DEF Scheduled
  <1>7. CASE Cardinality(Ready(g)) < 2 /\ g' = g /\ pending' = pending - 1
    <2> DEFINE A == Ready(g) \cap online
               B == Ready(g)
    <2>1. B \subseteq Seated(g) /\ A \subseteq B
      BY DEF Ready, WithStatus
    <2> HIDE DEF A, B
    <2>2. IsFiniteSet(B)
      BY <1>2, <2>1, FS_Subset
    <2>3. Cardinality(A) <= Cardinality(B) /\ Cardinality(A) \in Nat /\ Cardinality(B) \in Nat
      BY <2>1, <2>2, FS_Subset, FS_CardinalityType
    <2>4. ~(Cardinality(A) >= 2)
      BY <1>7, <2>3 DEF B
    <2> QED
      BY <1>5, <1>7, <2>4 DEF Scheduled, A
  <1>8. CASE raised' = TRUE /\ g' = g /\ pending' = pending - 1
    BY <1>5, <1>8 DEF Scheduled
  <1> QED
    BY <1>4, <1>6, <1>7, <1>8 DEF StartTask

\* Every step keeps the table so, and the hand that is on closed.
LEMMA EveryStep ==
    ASSUME TableInv, [Next]_vars
    PROVE  Step
  <1>1. ASSUME NEW u \in Users, Request(u)
        PROVE  Step
    <2>1. CASE TakeSeat(u) \/ Reconnect(u) \/ SitIn(u)
      BY <2>1, LookedAtSteps
    <2>2. CASE Disconnect(u)
      <3>1. /\ g' = g /\ pending' = pending /\ online' \subseteq online
            /\ raised' = raised /\ unseen' = unseen
        BY <2>2 DEF Disconnect, notes
      <3> QED
        BY <3>1, SameTableSteps
    <2>3. CASE Leave(u)
      <3>1. /\ u \in Seated(g) /\ LeaveTable(u) /\ online' \subseteq online
            /\ raised' = raised /\ unseen' = unseen
        BY <2>3 DEF Leave, notes
      <3> QED
        BY <3>1, GoneSteps DEF LeaveTable
    <2>4. CASE SitOut(u)
      <3>1. /\ u \in Seated(g) /\ ForceSitOut(u) /\ online' \subseteq online
            /\ raised' = raised /\ unseen' = unseen
        BY <2>4 DEF SitOut, notes
      <3> QED
        BY <3>1, GoneSteps DEF ForceSitOut
    <2>5. ASSUME NEW amount \in Rebuys, Rebuy(u, amount)
          PROVE  Step
      BY <2>5, RebuySteps
    <2>6. CASE ActAny(u)
      BY <2>6, ActSteps DEF ActAny
    <2> QED
      BY <1>1, <2>1, <2>2, <2>3, <2>4, <2>5, <2>6 DEF Request
  <1>2. ASSUME NEW u \in Users, ReserveTimer(u)
        PROVE  Step
    <2>1. online' = online /\ raised' = raised /\ unseen' = unseen
      BY <1>2 DEF ReserveTimer, notes
    <2>2. CASE u \in Seated(g) /\ ForceSitOut(u)
      BY <2>1, <2>2, GoneSteps DEF ForceSitOut
    <2>3. CASE g' = g /\ pending' = pending
      BY <2>1, <2>3, SameTableSteps
    <2> QED
      BY <1>2, <2>2, <2>3 DEF ReserveTimer
  <1>3. CASE UNCHANGED vars
    <2>1. /\ g' = g /\ pending' = pending /\ online' \subseteq online
          /\ raised' = raised /\ unseen' = unseen
      BY <1>3 DEF vars, notes
    <2> QED
      BY <2>1, SameTableSteps
  <1> QED
    BY <1>1, <1>2, <1>3, TurnTimerSteps, StartTaskSteps DEF Next

LEMMA TableInitially == Init => TableInv
  <1> SUFFICES ASSUME Init PROVE TableInv
    OBVIOUS
  <1>1. /\ g.phase = "WAITING_FOR_PLAYERS" /\ g.players = <<>> /\ g.hand = NoHand
        /\ DOMAIN g = {"phase", "players", "order", "hand"} /\ pending = 0
    BY DEF Init, EmptyTable
  <1>2. Seated(g) = {}
    BY <1>1 DEF Seated
  <1>3. DOMAIN NoHand.bets = Users /\ NoHand.phase = "NONE"
    BY HandShape DEF NoHand
  <1>4. IsFiniteSet({}) /\ Cardinality({}) = 0
    BY FS_EmptySet
  <1>5. Ready(g) \cap online = {}
    BY <1>2 DEF Ready, WithStatus
  <1>6. TaskBound \in Nat
    BY SessionAssumption
  <1>7. Shaped(g)
    BY <1>1, <1>2, <1>3, <1>4 DEF Shaped
  <1>8. Fits(g)
    BY <1>1, <1>3 DEF Fits, BetweenHands
  <1>9. Scheduled(g, online, pending, raised \/ unseen)
    <2>1. ~(Cardinality(Ready(g) \cap online) >= 2)
      BY <1>4, <1>5
    <2> QED
      BY <2>1 DEF Scheduled
  <1> QED
    BY <1>1, <1>6, <1>7, <1>8, <1>9 DEF TableInv

\* Nobody enters a hand that is on, whatever the clients ask for and whoever sits
\* down again in a hand he has left: those who may win it are among those who
\* might before, and nobody else puts in a bet (join_as_player, sit_in,
\* _do_reconnect, and the engine's calls).
THEOREM NobodyEntersAHand == Spec => HandIsClosed
  <1>1. Init => TableInv
    BY TableInitially
  <1>2. TableInv /\ [Next]_vars => TableInv'
    BY EveryStep DEF Step
  <1>3. TableInv /\ [Next]_vars =>
           [HandOn(g) /\ HandOn(g') =>
              /\ InHand(g') \subseteq InHand(g)
              /\ \A u \in Users \ InHand(g) : g'.hand.bets[u] \in {0, g.hand.bets[u]}]_vars
    BY EveryStep DEF Step, Closed
  <1> QED
    BY <1>1, <1>2, <1>3, PTL DEF Spec, HandIsClosed

-----------------------------------------------------------------------------
(* Nobody plays without chips *)

\* A player without chips is marked: all in, as long as the hand he lost them in
\* is not forgotten, or sitting out.
Solvent(s) ==
    \A u \in Seated(s) : s.players[u].stack > 0 \/ s.players[u].status \in {"ALL_IN", "SIT_OUT"}

\* That is so as well when nobody's chips or status have changed.
LEMMA SolventSame ==
    ASSUME NEW s, NEW r, Solvent(s), r.players = s.players
    PROVE  Solvent(r)
  BY DEF Solvent, Seated

\* _award_hand leaves the statuses alone, and takes chips from nobody unless a
\* bonus is paid.
LEMMA AwardSolvent ==
    ASSUME "bonus_27" \notin HouseRules, NEW q, InPlay(q), Solvent(q), NEW s \in AwardHand(q)
    PROVE  Solvent(s)
  <1> DEFINE S == Seated(q)
             A == InHand(q)
             D == DOMAIN q.hand.start
             c == TotalContributions(q)
             pots == CalculatePots(c, A)
             ws == [i \in DOMAIN pots |-> PotWinners(q, pots[i])]
             wins == AwardPots(pots, ws, S)
             paid == [v \in S |-> q.players[v].stack + wins[v]]
             stacks == FoldLeft(PayBonus, paid, BonusWinners(q, ws, wins))
             r == [v \in S |-> [q.players[v] EXCEPT !.stack = stacks[v]]]
  <1>1. /\ q \in Games /\ OwnSeats(q.players)
        /\ IsFiniteSet(S) /\ q.players \in [S -> SomePlayer]
        /\ \A v \in S : q.players[v] \in SomePlayer /\ q.players[v].stack \in Nat
    BY GameIs DEF InPlay
  <1>2. IsFiniteSet(D) /\ c \in [D -> Nat]
    BY ContributionsAre
  <1>3. CanAward(q, pots) /\ s = [q EXCEPT !.players = r, !.hand = EmptyHand("HAND_END", q.hand.dealer),
                                           !.phase = "WAITING_FOR_PLAYERS"]
    BY DEF AwardHand
  <1>4. s.players = r
    BY <1>1, <1>3 DEF Games
  <1> HIDE DEF c, D
  <1>5. PotsFor(pots, c, A) /\ DOMAIN c = D
    BY <1>2, PotsAre
  <1> HIDE DEF pots
  <1>6. pots \in Seq(PotOf(D \cap A))
    BY <1>5 DEF PotsFor
  <1>7. \A i \in DOMAIN pots : WinnersOf(ws[i], S)
    <2>1. ASSUME NEW i \in DOMAIN pots PROVE WinnersOf(PotWinners(q, pots[i]), S)
      <3>1. pots[i] \in PotOf(D \cap A)
        BY <1>6
      <3>2. Cardinality(pots[i].eligible) = 1 \/ Contenders(q, pots[i]) # {}
        BY <1>3 DEF CanAward
      <3> QED
        BY <3>1, <3>2, PotWinnersAre DEF D
    <2> QED
      BY <2>1
  <1>8. Len(pots) \in Nat /\ DOMAIN pots = 1..Len(pots) /\ DOMAIN ws = 1..Len(pots)
    BY <1>6
  <1> HIDE DEF ws
  <1>9. wins \in [S -> Nat]
    BY <1>1, <1>6, <1>7, AwardPotsIs
  <1> HIDE DEF wins
  <1>10. stacks = paid
    <2>1. \A i \in 1..Len(pots) : ws[i] \in Seq(S)
      BY <1>7, <1>8 DEF WinnersOf
    <2> DEFINE n == Len(pots)
    <2>2. n \in Nat /\ DOMAIN ws = 1..n /\ \A i \in 1..n : ws[i] \in Seq(S)
      BY <1>8, <2>1
    <2> HIDE DEF paid, S, n
    <2> QED
      BY <1>9, <2>2, NoBonus
  <1> HIDE DEF stacks
  <1>11. ASSUME NEW u \in S
         PROVE  s.players[u].stack > 0 \/ s.players[u].status \in {"ALL_IN", "SIT_OUT"}
    <2>1. s.players[u] = [q.players[u] EXCEPT !.stack = q.players[u].stack + wins[u]]
      BY <1>4, <1>10 DEF r
    <2>2. s.players[u].stack = q.players[u].stack + wins[u]
          /\ s.players[u].status = q.players[u].status
      BY <1>1, <2>1 DEF SomePlayer
    <2>3. q.players[u].stack > 0 \/ q.players[u].status \in {"ALL_IN", "SIT_OUT"}
      BY DEF Solvent
    <2> QED
      BY <1>1, <1>9, <2>2, <2>3
  <1>12. Seated(s) = S
    BY <1>4, <1>10 DEF Seated
  <1> QED
    BY <1>11, <1>12 DEF Solvent

\* Chips that are bet go from one stack, and an empty stack is all in.
LEMMA BettedSolvent ==
    ASSUME NEW s, Solvent(s), NEW u \in Seated(s), NEW total, NEW b, Betted(b, s, u, total),
           NEW r, r.players = b.players
    PROVE  Solvent(r)
  BY DEF Betted, SameTable, Solvent, Seated

\* Forced bets too
LEMMA ForcedSolvent ==
    ASSUME NEW s, InPlay(s), Solvent(s), NEW u \in Seated(s), NEW amount \in Nat
    PROVE  Solvent(PostForcedBet(s, u, amount))
  <1> DEFINE total == s.hand.bets[u] + MinOf(amount, s.players[u].stack)
             b == BetTotal(s, u, total)
             r == PostForcedBet(s, u, amount)
  <1>1. /\ s \in Games /\ OwnSeats(s.players) /\ s.hand.bets[u] \in Nat
        /\ s.players[u].stack \in Nat
    <2>1. s.hand.bets \in [Users -> Nat] /\ u \in Users
      BY GameIs DEF InPlay
    <2> QED
      BY <2>1, GameIs DEF InPlay
  <1>2. total \in Nat /\ total <= s.hand.bets[u] + s.players[u].stack
    BY <1>1 DEF MinOf
  <1>3. r = IF total > s.hand.current_bet
              THEN [b EXCEPT !.hand.current_bet = total, !.hand.min_raise_to = total + amount]
              ELSE b
    BY DEF PostForcedBet
  <1> HIDE DEF total
  <1>4. Betted(b, s, u, total)
    BY <1>1, <1>2, BetTotalIs
  <1> HIDE DEF b, r
  <1>5. b \in Games
    BY <1>4 DEF Betted
  <1>6. r.players = b.players
    BY <1>3, <1>5 DEF Games
  <1> QED
    BY <1>4, <1>6, BettedSolvent DEF r

\* The effect of an action on the bets
LEMMA BetSolvent ==
    ASSUME NEW s, InPlay(s), Solvent(s), NEW u,
           NEW type \in {"fold", "check", "call", "raise", "all_in"},
           NEW amount \in Int, ValidAction(s, u, type, amount)
    PROVE  Solvent(Bet(s, u, type, amount))
  <1> DEFINE r == Bet(s, u, type, amount)
             allIn == s.hand.bets[u] + s.players[u].stack
  <1>1. u \in Seated(s) /\ s.players[u].status = "ACTIVE"
    BY DEF ValidAction, ValidTurn
  <1>2. /\ s \in Games /\ OwnSeats(s.players) /\ allIn \in Nat /\ s.hand.current_bet \in Nat
        /\ s.players[u].stack > 0 /\ s.players \in [Seated(s) -> SomePlayer]
    <2>1. s.hand.bets \in [Users -> Nat] /\ u \in Users
      BY <1>1, GameIs DEF InPlay
    <2> QED
      BY <1>1, <2>1, GameIs DEF InPlay, Solvent
  <1>3. ASSUME NEW x, x \in Games
        PROVE  MarkActed(x, u).players = x.players
    BY <1>3 DEF MarkActed, Games
  <1>4. ASSUME NEW total \in Nat, total <= allIn
        PROVE  /\ Solvent(MarkActed(BetTotal(s, u, total), u))
               /\ Solvent(RaiseTo(s, u, total))
    <2> DEFINE b == BetTotal(s, u, total)
    <2>1. Betted(b, s, u, total)
      BY <1>1, <1>2, <1>4, BetTotalIs
    <2>2. RaiseTo(s, u, total)
            = [b EXCEPT !.hand.current_bet = total,
                        !.hand.min_raise_to = 2 * total - s.hand.current_bet,
                        !.hand.acted = {s.players[u].seat}]
      BY DEF RaiseTo
    <2> HIDE DEF b
    <2>3. b \in Games
      BY <2>1 DEF Betted
    <2>4. MarkActed(b, u).players = b.players
      BY <1>3, <2>3
    <2>5. RaiseTo(s, u, total).players = b.players
      BY <2>2, <2>3 DEF Games
    <2> QED
      BY <1>1, <2>1, <2>4, <2>5, BettedSolvent DEF b
  <1>5. CASE type = "fold"
    <2> DEFINE p == [s.players[u] EXCEPT !.status = "FOLDED"]
               f == [s EXCEPT !.players[u].status = "FOLDED"]
    <2>1. r = MarkActed(f, u)
      BY <1>5 DEF Bet
    <2>2. p \in SomePlayer /\ p.seat = s.players[u].seat /\ p.stack = s.players[u].stack
      BY <1>1, <1>2 DEF SomePlayer, Statuses
    <2>3. f = [s EXCEPT !.players = [s.players EXCEPT ![u] = p]]
      BY <1>1, <1>2 DEF Games
    <2> HIDE DEF p, f, r
    <2>4. /\ f \in Games /\ Seated(f) = Seated(s) /\ f.players[u] = p
          /\ \A v \in Seated(s) \ {u} : f.players[v] = s.players[v]
      BY <1>1, <1>2, <2>2, <2>3, PlayerChanged
    <2>5. Solvent(f)
      BY <1>1, <1>2, <2>2, <2>4 DEF Solvent
    <2>6. r.players = f.players
      BY <1>3, <2>1, <2>4
    <2> QED
      BY <2>5, <2>6, SolventSame DEF r
  <1>6. CASE type = "check"
    <2>1. r = MarkActed(s, u)
      BY <1>6 DEF Bet
    <2>2. MarkActed(s, u).players = s.players
      BY <1>2, <1>3
    <2> HIDE DEF r
    <2> QED
      BY <2>1, <2>2, SolventSame DEF r
  <1>7. CASE type = "call"
    <2> DEFINE total == MinOf(s.hand.current_bet, allIn)
    <2>1. total \in Nat /\ total <= allIn
      <3> HIDE DEF allIn
      <3> QED
        BY <1>2 DEF MinOf
    <2>2. r = MarkActed(BetTotal(s, u, total), u)
      BY <1>7 DEF Bet
    <2> HIDE DEF total, r
    <2> QED
      BY <1>4, <2>1, <2>2 DEF r
  <1>8. CASE type = "raise"
    <2>1. amount > 0 /\ amount <= allIn
      BY <1>8 DEF ValidAction
    <2>2. amount \in Nat
      BY <2>1
    <2>3. r = RaiseTo(s, u, amount)
      BY <1>8 DEF Bet
    <2> HIDE DEF r, allIn
    <2> QED
      BY <1>4, <2>1, <2>2, <2>3 DEF r
  <1>9. CASE type = "all_in"
    <2>1. allIn \in Nat /\ allIn <= allIn
      BY <1>2
    <2>2. r \in {RaiseTo(s, u, allIn), MarkActed(BetTotal(s, u, allIn), u)}
      BY <1>9 DEF Bet
    <2> HIDE DEF r, allIn
    <2> QED
      BY <1>4, <2>1, <2>2 DEF r
  <1> QED
    BY <1>5, <1>6, <1>7, <1>8, <1>9

\* _begin_betting_round
LEMMA BeginSolvent ==
    ASSUME "bonus_27" \notin HouseRules, NEW s, InPlay(s), Solvent(s),
           NEW phase \in BettingPhases, NEW r \in BeginBettingRound(s, phase)
    PROVE  Solvent(r)
  <1> DEFINE o == OpenRound(s, phase)
             q == [o EXCEPT !.hand.turn = NoSeat]
  <1>1. Kept(o, s) /\ o.players = s.players
    BY OpenRoundIs
  <1>2. \/ r \in AwardHand(q)
        \/ r = [o EXCEPT !.hand.turn = FirstToAct(o, phase)]
    BY DEF BeginBettingRound, RunOutBoard
  <1> HIDE DEF o
  <1>3. InPlay(o) /\ Solvent(o)
    BY <1>1, SolventSame DEF Kept
  <1>4. CASE r \in AwardHand(q)
    <2>1. Kept(q, o) /\ q.players = o.players
      <3>1. NoSeat \in AnySeat
        BY DEF AnySeat
      <3> QED
        BY <1>3, <3>1, TurnIs
    <2> HIDE DEF q
    <2>2. InPlay(q) /\ Solvent(q)
      BY <1>3, <2>1, SolventSame DEF Kept
    <2> QED
      BY <1>4, <2>2, AwardSolvent
  <1>5. CASE r = [o EXCEPT !.hand.turn = FirstToAct(o, phase)]
    <2>1. o \in Games
      BY <1>3 DEF InPlay
    <2>2. r.players = o.players
      BY <1>5, <2>1 DEF Games
    <2> QED
      BY <1>3, <2>2, SolventSame
  <1> QED
    BY <1>2, <1>4, <1>5

\* _advance
LEMMA AdvanceSolvent ==
    ASSUME "bonus_27" \notin HouseRules, NEW s, InPlay(s), Solvent(s),
           s.phase \in BettingPhases, s.hand.phase = s.phase, NEW r \in Advance(s)
    PROVE  Solvent(r)
  <1>1. \/ r \in AwardHand(s)
        \/ r = [s EXCEPT !.hand.turn = NextActiveSeat(s)]
        \/ s.hand.phase # "RIVER" /\ r \in BeginBettingRound(s, PhaseAfter[s.hand.phase])
    BY DEF Advance, NextPhase
  <1>2. CASE r = [s EXCEPT !.hand.turn = NextActiveSeat(s)]
    <2>1. r.players = s.players
      BY <1>2 DEF InPlay, Games
    <2> QED
      BY <2>1, SolventSame
  <1>3. CASE s.hand.phase # "RIVER" /\ r \in BeginBettingRound(s, PhaseAfter[s.hand.phase])
    <2>1. s.hand.phase \in {"PRE_FLOP", "FLOP", "TURN"}
      BY <1>3 DEF BettingPhases
    <2>2. PhaseAfter[s.hand.phase] \in BettingPhases
      BY <2>1 DEF PhaseAfter, BettingPhases
    <2> QED
      BY <1>3, <2>2, BeginSolvent
  <1> QED
    BY <1>1, <1>2, <1>3, AwardSolvent

\* apply_action
LEMMA ActionSolvent ==
    ASSUME "bonus_27" \notin HouseRules, NEW s, NEW chips, SoundTable(s, chips), Solvent(s),
           NEW u, NEW type \in {"fold", "check", "call", "raise", "all_in"},
           NEW amount \in Int, NEW r \in ApplyAction(s, u, type, amount)
    PROVE  Solvent(r)
  <1> DEFINE f == [s EXCEPT !.players[u].timeouts = 0]
             p == [s.players[u] EXCEPT !.timeouts = 0]
             b == Bet(f, u, type, amount)
  <1>1. ValidAction(s, u, type, amount) /\ r \in Advance(b)
    BY DEF ApplyAction
  <1>2. u \in Seated(s) /\ s.hand.phase \in BettingPhases
    BY <1>1 DEF ValidAction, ValidTurn
  <1>3. InPlay(s) /\ s.phase \in BettingPhases /\ s.hand.phase = s.phase
    BY <1>2, IdleIs DEF SoundTable, Playing
  <1>4. /\ s.players[u] \in SomePlayer /\ s.players \in [Seated(s) -> SomePlayer]
        /\ Seated(s) \subseteq Users /\ s \in Games /\ OwnSeats(s.players)
    BY <1>2, GameIs DEF SoundTable
  <1>5. /\ p \in SomePlayer /\ p.seat = s.players[u].seat /\ p.stack = s.players[u].stack
        /\ p.status = s.players[u].status
    BY <1>4 DEF SomePlayer, Statuses
  <1>6. f = [s EXCEPT !.players = [s.players EXCEPT ![u] = p]]
    BY <1>4 DEF Games
  <1>7. p.status \in {s.players[u].status, "SIT_OUT"}
    BY <1>5
  <1> HIDE DEF p, f
  <1>8. Kept(f, s) /\ f.phase = s.phase /\ f.hand = s.hand
    BY <1>2, <1>3, <1>4, <1>5, <1>6, <1>7, StatusKept
  <1>9. /\ Seated(f) = Seated(s) /\ f.players[u] = p
        /\ \A v \in Seated(s) \ {u} : f.players[v] = s.players[v]
    BY <1>2, <1>4, <1>5, <1>6, PlayerChanged
  <1>10. ValidAction(f, u, type, amount)
    BY <1>1, <1>2, <1>5, <1>8, <1>9, ValidKept
  <1>11. InPlay(f) /\ Solvent(f)
    BY <1>2, <1>5, <1>8, <1>9 DEF Kept, Solvent
  <1>12. Kept(b, f) /\ b.phase = f.phase /\ b.hand.phase = f.hand.phase
    BY <1>10, <1>11, BetIs
  <1>13. Solvent(b)
    BY <1>10, <1>11, BetSolvent
  <1> HIDE DEF b
  <1>14. InPlay(b) /\ b.phase \in BettingPhases /\ b.hand.phase = b.phase
    BY <1>3, <1>8, <1>12 DEF Kept
  <1> QED
    BY <1>1, <1>13, <1>14, AdvanceSolvent

\* handle_timeout: a player who is sat out by it has no need of chips.
LEMMA TimeoutSolvent ==
    ASSUME "bonus_27" \notin HouseRules, NEW s, NEW chips, SoundTable(s, chips), Solvent(s),
           NEW r \in HandleTimeout(s)
    PROVE  Solvent(r)
  <1>1. CASE s.hand.turn = NoSeat \/ s.hand.turn \notin Seats(s)
    <2>1. r = s
      BY <1>1 DEF HandleTimeout
    <2> QED
      BY <2>1
  <1>2. CASE ~(s.hand.turn = NoSeat \/ s.hand.turn \notin Seats(s))
    <2> DEFINE u == UserAt(s, s.hand.turn)
               count == MinOf(s.players[u].timeouts + 1, SitOutAfter)
               type == AutoAction(s, u)
    <2>1. type \in {"fold", "check", "call", "raise", "all_in"} /\ 0 \in Int
      BY DEF AutoAction
    <2>2. u \in Seated(s)
      BY <1>2, UserAtIs
    <2> HIDE DEF u
    <2>3. \E q \in ApplyAction(s, u, type, 0) :
             r = [q EXCEPT !.players[u].timeouts = count,
                           !.players[u].status = IF count >= SitOutAfter
                                                   THEN "SIT_OUT" ELSE @]
      BY <1>2, Zenon DEF HandleTimeout, u
    <2> HIDE DEF type, count
    <2>4. PICK q \in ApplyAction(s, u, type, 0) :
             r = [q EXCEPT !.players[u].timeouts = count,
                           !.players[u].status = IF count >= SitOutAfter
                                                   THEN "SIT_OUT" ELSE @]
      BY <2>3
    <2>5. Solvent(q)
      BY <2>1, ActionSolvent
    <2>6. SoundTable(q, chips) /\ SameTable(q, s)
      BY <2>1, ActionSound
    <2>7. u \in Seated(q) /\ q \in Games /\ q.players \in [Seated(q) -> SomePlayer]
      BY <2>2, <2>6, GameIs DEF SoundTable, SameTable
    <2> DEFINE status == IF count >= SitOutAfter THEN "SIT_OUT" ELSE q.players[u].status
               p == [q.players[u] EXCEPT !.timeouts = count, !.status = status]
    <2>8. r.players = [q.players EXCEPT ![u] = p]
      BY <2>4, <2>7 DEF Games, SomePlayer
    <2>9. p.stack = q.players[u].stack /\ p.status \in {q.players[u].status, "SIT_OUT"}
      <3>1. status \in {q.players[u].status, "SIT_OUT"}
        OBVIOUS
      <3> HIDE DEF status
      <3> QED
        BY <2>7, <3>1 DEF SomePlayer
    <2> HIDE DEF p
    <2>10. /\ Seated(r) = Seated(q) /\ r.players[u] = p
           /\ \A v \in Seated(q) \ {u} : r.players[v] = q.players[v]
      BY <2>7, <2>8 DEF Seated
    <2> QED
      BY <2>5, <2>9, <2>10 DEF Solvent
  <1> QED
    BY <1>1, <1>2

\* Last hand's statuses go, and the ALL_IN of a player who lost it becomes a
\* SIT_OUT.
LEMMA ResetSolvent ==
    ASSUME NEW s \in Games, OwnSeats(s.players), Solvent(s)
    PROVE  Solvent(Reset(s))
  <1>1. Seated(Reset(s)) = Seated(s)
    BY ResetIs DEF SameTable
  <1>2. ASSUME NEW u \in Seated(s)
        PROVE  \/ Reset(s).players[u].stack > 0
               \/ Reset(s).players[u].status \in {"ALL_IN", "SIT_OUT"}
    <2>1. Reset(s).players[u] = ResetStatus(s.players[u])
          /\ Reset(s).players[u].stack = s.players[u].stack
      BY ResetIs
    <2>2. s.players[u].stack > 0 \/ s.players[u].status \in {"ALL_IN", "SIT_OUT"}
      BY DEF Solvent
    <2>3. s.players[u] \in SomePlayer
      BY GameIs
    <2> QED
      BY <2>1, <2>2, <2>3 DEF ResetStatus, SomePlayer
  <1> QED
    BY <1>1, <1>2 DEF Solvent

\* The blinds
LEMMA BlindsSolvent ==
    ASSUME NEW s \in Games, OwnSeats(s.players), Ordered(s), Solvent(s),
           {u \in CanAct(s) : s.players[u].stack > 0} # {}, NEW dealer \in AnySeat
    PROVE  Solvent(PostBlinds(s, dealer))
  <1> DEFINE T == {u \in CanAct(s) : s.players[u].stack > 0}
             S == SeatsOf(s, T)
             d == Anchor(S, dealer)
             sb == IF Cardinality(S) = 2 THEN d ELSE NextSeat(S, d)
             bb == NextSeat(S, sb)
             x == UserAt(s, sb)
             y == UserAt(s, bb)
             o == Opened(s, dealer, bb)
             small == PostForcedBet(o, x, SmallBlind)
  <1>1. S \in SUBSET SeatIndex /\ S # {} /\ S \subseteq Seats(s)
    <2>1. T \in SUBSET Seated(s) /\ T # {}
      BY DEF CanAct, WithStatus
    <2>2. \A u \in Seated(s) : s.players[u].seat \in SeatIndex
      BY GameIs
    <2> HIDE DEF T
    <2> QED
      BY <2>1, <2>2 DEF SeatsOf, Seats
  <1>2. SeatIndex \subseteq Nat /\ SmallBlind \in Nat /\ BigBlind \in Nat
    BY Configured
  <1>3. PostBlinds(s, dealer) = PostForcedBet(small, y, BigBlind)
    BY DEF PostBlinds, BlindSeats, Opened
  <1> HIDE DEF S
  <1>4. S \in SUBSET Nat
    BY <1>1, <1>2
  <1>5. d \in S /\ NextSeat(S, d) \in S
    BY <1>1, <1>4, AnchorIs, NextSeatIs
  <1>6. sb \in S
    BY <1>5
  <1> HIDE DEF sb
  <1>7. bb \in S
    BY <1>1, <1>4, NextSeatIs
  <1> HIDE DEF bb
  <1>8. x \in Seated(s) /\ y \in Seated(s)
    <2>1. sb \in Seats(s) /\ bb \in Seats(s)
      BY <1>1, <1>6, <1>7
    <2>2. x \in Seated(s)
      BY <2>1, UserAtIs
    <2>3. y \in Seated(s)
      BY <2>1, UserAtIs
    <2> QED
      BY <2>2, <2>3
  <1>9. bb \in AnySeat
    BY <1>1, <1>7 DEF AnySeat
  <1> HIDE DEF x, y
  <1>10. /\ InPlay(o) /\ SameTable(o, s) /\ o.players = s.players
         /\ DOMAIN o.hand.start = Seated(s)
    BY <1>9, OpenedIs
  <1> HIDE DEF o
  <1>11. Solvent(o) /\ x \in Seated(o) /\ x \in DOMAIN o.hand.start
    BY <1>8, <1>10, SolventSame DEF SameTable
  <1>12. Kept(small, o) /\ Solvent(small)
    BY <1>2, <1>10, <1>11, ForcedBetIs, ForcedSolvent
  <1> HIDE DEF small
  <1>13. InPlay(small) /\ y \in Seated(small)
    BY <1>8, <1>10, <1>12 DEF Kept, SameTable
  <1> QED
    BY <1>2, <1>3, <1>12, <1>13, ForcedSolvent

\* The straddle
LEMMA StraddleSolvent ==
    ASSUME NEW s, InPlay(s), Solvent(s)
    PROVE  Solvent(PostStraddle(s))
  <1> DEFINE u == UserAt(s, NextSeat(Seats(s), s.hand.bb))
             amount == 2 * BigBlind
             r == PostStraddle(s)
  <1>1. r = s \/ (u \in CanAct(s) /\ r = PostForcedBet(s, u, amount))
    BY DEF PostStraddle
  <1>2. amount \in Nat
    BY Configured
  <1> HIDE DEF u, amount, r
  <1>3. CASE u \in CanAct(s) /\ r = PostForcedBet(s, u, amount)
    <2>1. u \in Seated(s)
      BY <1>3 DEF CanAct, WithStatus
    <2> QED
      BY <1>2, <1>3, <2>1, ForcedSolvent DEF r
  <1> QED
    BY <1>1, <1>3 DEF r

\* The cards: who folds a seven-ten on the spot has chips.
LEMMA DealSolvent ==
    ASSUME NEW s, InPlay(s), Solvent(s), NEW r \in DealHoleCards(s)
    PROVE  Solvent(r)
  <1>1. PICK c \in [CanAct(s) -> Cards] :
           r = [s EXCEPT !.hand.cards = c,
                         !.players = [u \in Seated(s) |->
                              IF u \in CanAct(s) /\ c[u].kind = "seven_ten"
                                THEN [s.players[u] EXCEPT !.status = "FOLDED"]
                                ELSE s.players[u]]]
    BY DEF DealHoleCards
  <1> DEFINE ps == [u \in Seated(s) |->
                       IF u \in CanAct(s) /\ c[u].kind = "seven_ten"
                         THEN [s.players[u] EXCEPT !.status = "FOLDED"]
                         ELSE s.players[u]]
  <1>2. s \in Games /\ \A u \in Seated(s) : s.players[u] \in SomePlayer
    BY GameIs DEF InPlay
  <1>3. r.players = ps
    BY <1>1, <1>2 DEF Games
  <1>4. Seated(r) = Seated(s)
    BY <1>3 DEF Seated
  <1>5. ASSUME NEW u \in Seated(s)
        PROVE  r.players[u].stack > 0 \/ r.players[u].status \in {"ALL_IN", "SIT_OUT"}
    <2>1. s.players[u].stack > 0 \/ s.players[u].status \in {"ALL_IN", "SIT_OUT"}
      BY DEF Solvent
    <2>2. CASE r.players[u] = s.players[u]
      BY <2>1, <2>2
    <2>3. CASE u \in CanAct(s) /\ r.players[u] = [s.players[u] EXCEPT !.status = "FOLDED"]
      <3>1. s.players[u].status = "ACTIVE"
        BY <2>3 DEF CanAct, WithStatus
      <3>2. r.players[u].stack = s.players[u].stack
        BY <1>2, <2>3 DEF SomePlayer
      <3> QED
        BY <2>1, <3>1, <3>2
    <2> QED
      BY <1>3, <2>2, <2>3
  <1> QED
    BY <1>4, <1>5 DEF Solvent

\* start_hand
LEMMA StartSolvent ==
    ASSUME "bonus_27" \notin HouseRules, NEW s, NEW chips, SoundTable(s, chips), Solvent(s),
           NEW r \in StartHand(s)
    PROVE  Solvent(r)
  <1> DEFINE x == Reset(s)
             T == {u \in CanAct(x) : x.players[u].stack > 0}
             dealer == NextDealer(x)
             b == PostBlinds(x, dealer)
             st == PostStraddle(b)
  <1>1. /\ Cardinality(Eligible(x)) >= 2
        /\ \E d \in DealHoleCards(st) : r \in BeginBettingRound(d, "PRE_FLOP")
    BY DEF StartHand, MayStart, Deals
  <1>2. s \in Games /\ OwnSeats(s.players) /\ Ordered(s)
    BY DEF SoundTable
  <1>3. /\ x \in Games /\ OwnSeats(x.players) /\ SameTable(x, s) /\ Solvent(x)
        /\ \A u \in Seated(s) : x.players[u].status # "WAITING"
    BY <1>2, ResetIs, ResetSolvent
  <1> HIDE DEF x
  <1>4. Ordered(x)
    BY <1>2, <1>3 DEF Ordered, SameTable
  <1>5. T # {}
    <2>1. Eligible(x) # {}
      <3>1. Cardinality({}) = 0
        BY FS_EmptySet
      <3> QED
        BY <1>1, <3>1
    <2>2. Eligible(x) \subseteq T
      BY <1>3 DEF Eligible, CanAct, WithStatus, SameTable
    <2> QED
      BY <2>1, <2>2
  <1>6. dealer \in AnySeat
    BY <1>3, <1>5, DealerIs
  <1> HIDE DEF dealer
  <1>7. InPlay(b) /\ SameTable(b, x) /\ DOMAIN b.hand.start = Seated(x) /\ Solvent(b)
    BY <1>3, <1>4, <1>5, <1>6, PostBlindsIs, BlindsSolvent
  <1> HIDE DEF b
  <1>8. Kept(st, b) /\ Solvent(st)
    <2>1. DOMAIN b.hand.start = Seated(b)
      BY <1>7 DEF SameTable
    <2> QED
      BY <1>7, <2>1, StraddleIs, StraddleSolvent
  <1> HIDE DEF st
  <1>9. PICK d \in DealHoleCards(st) : r \in BeginBettingRound(d, "PRE_FLOP")
    BY <1>1
  <1>10. InPlay(st)
    BY <1>8 DEF Kept
  <1>11. InPlay(d) /\ Solvent(d)
    BY <1>8, <1>10, DealIs, DealSolvent DEF Kept
  <1>12. "PRE_FLOP" \in BettingPhases
    BY DEF BettingPhases
  <1> QED
    BY <1>9, <1>11, <1>12, BeginSolvent

-----------------------------------------------------------------------------
(* A rebuy makes nobody ready *)

\* A status that is marked, and a player who is gone, leave the rest solvent.
LEMMA ChangedSolvent ==
    ASSUME NEW s \in Games, OwnSeats(s.players), Solvent(s), NEW u \in Seated(s),
           NEW r, \/ r = Unseat(s, u)
                  \/ r = SetStatus(s, u, "SIT_OUT")
                  \/ s.players[u].stack > 0 /\ r = SetStatus(s, u, "WAITING")
    PROVE  Solvent(r)
  <1>1. s.players \in [Seated(s) -> SomePlayer] /\ s.players[u] \in SomePlayer
    BY GameIs
  <1>2. CASE r = Unseat(s, u)
    <2> DEFINE T == Seated(s) \ {u}
               ps == [v \in T |-> s.players[v]]
    <2>1. r.players = ps
      BY <1>2 DEF Unseat, Games
    <2>2. Seated(r) = T /\ \A v \in T : r.players[v] = s.players[v]
      BY <2>1 DEF Seated
    <2> QED
      BY <2>2 DEF Solvent
  <1>3. ASSUME NEW status \in {"SIT_OUT", "WAITING"}, r = SetStatus(s, u, status),
               status = "SIT_OUT" \/ s.players[u].stack > 0
        PROVE  Solvent(r)
    <2> DEFINE p == [s.players[u] EXCEPT !.status = status]
    <2>1. r = [s EXCEPT !.players = [s.players EXCEPT ![u] = p]]
      BY <1>1, <1>3 DEF SetStatus, Games
    <2>2. /\ p \in SomePlayer /\ p.seat = s.players[u].seat /\ p.status = status
          /\ p.stack = s.players[u].stack
      BY <1>1 DEF SomePlayer, Statuses
    <2> HIDE DEF p
    <2>3. /\ Seated(r) = Seated(s) /\ r.players[u] = p
          /\ \A v \in Seated(s) \ {u} : r.players[v] = s.players[v]
      BY <1>1, <2>1, <2>2, PlayerChanged
    <2> QED
      BY <1>3, <2>2, <2>3 DEF Solvent
  <1> QED
    BY <1>2, <1>3

\* As long as nobody has sat down again in a hand he had left, and no bonus is
\* paid, nobody plays without chips and no rebuy has gone unseen.
SolventInv == SessionInv /\ Solvent(g) /\ unseen = FALSE
SolventNext == Solvent(g') /\ unseen' = FALSE

LEMMA SolventFacts ==
    ASSUME SolventInv
    PROVE  /\ SoundTable(g, bought - taken) /\ (Playing(g) \/ Idle(g))
           /\ g \in Games /\ OwnSeats(g.players) /\ Solvent(g)
           /\ unseen = FALSE
  BY DEF SolventInv, SessionInv, SoundTable

\* Whoever comes has chips: join_as_player, _do_reconnect and sit_in.
LEMMA ComingSolvent ==
    ASSUME SolventInv, NEW u, TakeSeat(u) \/ Reconnect(u) \/ SitIn(u)
    PROVE  SolventNext
  <1>1. g \in Games /\ OwnSeats(g.players) /\ Solvent(g)
    BY SolventFacts
  <1>2. CASE TakeSeat(u)
    <2> DEFINE p == [seat     |-> MinSeat(FreeSeats),
                     stack    |-> StartingStack,
                     status   |-> IF HandOn(g) THEN "WAITING" ELSE "ACTIVE",
                     timeouts |-> 0]
    <2>1. g' = Seat(u, p) /\ unseen' = FALSE
      BY <1>2 DEF TakeSeat
    <2>2. p.stack > 0
      BY ConfigAssumption, Configured
    <2> HIDE DEF p
    <2>3. g'.players = [v \in Seated(g) \cup {u} |-> IF v = u THEN p ELSE g.players[v]]
      BY <1>1, <2>1 DEF Seat, Games
    <2>4. Seated(g') = Seated(g) \cup {u}
      BY <2>3 DEF Seated
    <2> QED
      BY <1>1, <2>1, <2>2, <2>3, <2>4 DEF Solvent, SolventNext
  <1>3. CASE Reconnect(u)
    BY <1>1, <1>3 DEF Reconnect, Looked, SolventNext
  <1>4. CASE SitIn(u)
    <2>1. /\ u \in Seated(g) /\ g.players[u].stack > 0 /\ g' = SetStatus(g, u, "WAITING")
          /\ unseen' = FALSE
      BY <1>4 DEF SitIn, Looked, WithStatus
    <2> QED
      BY <1>1, <2>1, ChangedSolvent DEF SolventNext
  <1> QED
    BY <1>2, <1>3, <1>4

\* apply_action returns a table in order, on which nobody plays without chips.
LEMMA ActionReturns ==
    ASSUME "bonus_27" \notin HouseRules, SolventInv, NEW u,
           NEW type \in {"fold", "check", "call", "raise", "all_in"}, NEW amount \in Int,
           NEW s \in ApplyAction(g, u, type, amount)
    PROVE  s \in Games /\ OwnSeats(s.players) /\ Seated(s) = Seated(g) /\ Solvent(s)
  <1>1. SoundTable(g, bought - taken) /\ Solvent(g)
    BY SolventFacts
  <1>2. SoundTable(s, bought - taken) /\ SameTable(s, g)
    BY <1>1, ActionSound
  <1>3. Solvent(s)
    BY <1>1, ActionSolvent
  <1> QED
    BY <1>2, <1>3 DEF SoundTable, SameTable

\* Somebody leaves or sits out, and his turn is played to its end first.
LEMMA GoneSolvent ==
    ASSUME "bonus_27" \notin HouseRules, SolventInv, NEW u \in Seated(g), unseen' = unseen,
           \/ g' = Unseat(g, u) \/ g' = SetStatus(g, u, "SIT_OUT")
           \/ \E s \in ApplyAction(g, u, "fold", 0) :
                 g' = Unseat(s, u) \/ g' = SetStatus(s, u, "SIT_OUT")
    PROVE  SolventNext
  <1>1. PICK s : /\ s \in Games /\ OwnSeats(s.players) /\ Solvent(s) /\ u \in Seated(s)
                 /\ g' = Unseat(s, u) \/ g' = SetStatus(s, u, "SIT_OUT")
    <2>1. CASE g' = Unseat(g, u) \/ g' = SetStatus(g, u, "SIT_OUT")
      BY <2>1, SolventFacts
    <2>2. CASE \E s \in ApplyAction(g, u, "fold", 0) :
                  g' = Unseat(s, u) \/ g' = SetStatus(s, u, "SIT_OUT")
      BY <2>2, ActionReturns
    <2> QED
      BY <2>1, <2>2
  <1> QED
    BY <1>1, ChangedSolvent, SolventFacts DEF SolventNext

\* rebuy: a broke player is not ready with new chips either, because he is all in
\* or sits out.
LEMMA RebuySolvent ==
    ASSUME SolventInv, NEW u, NEW amount \in Rebuys, Rebuy(u, amount)
    PROVE  SolventNext
  <1> DEFINE p == [g.players[u] EXCEPT !.stack = @ + amount]
  <1>1. /\ u \in Seated(g) /\ amount > 0 /\ g' = [g EXCEPT !.players[u].stack = @ + amount]
        /\ unseen' = (unseen \/ Ready(g') # Ready(g))
    BY DEF Rebuy
  <1>2. g \in Games /\ OwnSeats(g.players) /\ Solvent(g) /\ unseen = FALSE
    BY SolventFacts
  <1>3. amount \in Nat
    BY <1>1, SessionAssumption
  <1>4. /\ g.players[u] \in SomePlayer /\ g.players[u].stack \in Nat
        /\ g.players \in [Seated(g) -> SomePlayer]
    BY <1>1, <1>2, GameIs
  <1>5. /\ p \in SomePlayer /\ p.seat = g.players[u].seat /\ p.status = g.players[u].status
        /\ p.stack > 0
    BY <1>1, <1>3, <1>4 DEF SomePlayer, Statuses
  <1> DEFINE r == [g EXCEPT !.players = [g.players EXCEPT ![u] = p]]
  <1>6. g' = r
    BY <1>1, <1>4 DEF Games
  <1> HIDE DEF p
  <1>7. /\ Seated(r) = Seated(g) /\ r.players[u] = p
        /\ \A v \in Seated(g) \ {u} : r.players[v] = g.players[v]
    BY <1>1, <1>2, <1>5, PlayerChanged
  <1> HIDE DEF r
  <1>8. /\ Seated(g') = Seated(g) /\ g'.players[u] = p
        /\ \A v \in Seated(g) \ {u} : g'.players[v] = g.players[v]
    BY <1>6, <1>7, Zenon
  <1>9. Solvent(g')
    BY <1>2, <1>5, <1>8 DEF Solvent
  <1>10. Ready(g') = Ready(g)
    BY <1>1, <1>2, <1>5, <1>8 DEF Ready, WithStatus, Solvent
  <1> QED
    BY <1>1, <1>2, <1>9, <1>10 DEF SolventNext

\* Every step keeps that.
LEMMA SolventKept ==
    ASSUME "bonus_27" \notin HouseRules, SolventInv, [Next]_vars
    PROVE  SolventNext
  <1>0. /\ SoundTable(g, bought - taken) /\ (Playing(g) \/ Idle(g)) /\ Solvent(g)
        /\ unseen = FALSE
    BY SolventFacts
  <1>1. ASSUME NEW u, Request(u)
        PROVE  SolventNext
    <2>1. CASE TakeSeat(u) \/ Reconnect(u) \/ SitIn(u)
      BY <2>1, ComingSolvent
    <2>2. CASE Disconnect(u)
      BY <1>0, <2>2 DEF Disconnect, notes, SolventNext
    <2>3. CASE Leave(u)
      <3>1. u \in Seated(g) /\ LeaveTable(u) /\ unseen' = unseen
        BY <2>3 DEF Leave, notes
      <3> QED
        BY <3>1, GoneSolvent DEF LeaveTable
    <2>4. CASE SitOut(u)
      <3>1. u \in Seated(g) /\ ForceSitOut(u) /\ unseen' = unseen
        BY <2>4 DEF SitOut, notes
      <3> QED
        BY <3>1, GoneSolvent DEF ForceSitOut
    <2>5. ASSUME NEW amount \in Rebuys, Rebuy(u, amount)
          PROVE  SolventNext
      BY <2>5, RebuySolvent
    <2>6. ASSUME NEW type \in {"fold", "check", "call", "raise", "all_in"}, NEW amount \in Int,
                 Act(u, type, amount)
          PROVE  SolventNext
      BY <1>0, <2>6, ActionReturns DEF Act, notes, SolventNext
    <2>7. ActAny(u) => SolventNext
      <3>1. 0 \in Int /\ \A amount \in Raises(u) : amount \in Int
        BY DEF Raises
      <3> QED
        BY <2>6, <3>1 DEF ActAny
    <2> QED
      BY <1>1, <2>1, <2>2, <2>3, <2>4, <2>5, <2>7 DEF Request
  <1>2. ASSUME NEW u, ReserveTimer(u)
        PROVE  SolventNext
    <2>1. unseen' = unseen
      BY <1>2 DEF ReserveTimer, notes
    <2>2. CASE u \in Seated(g) /\ ForceSitOut(u)
      BY <2>1, <2>2, GoneSolvent DEF ForceSitOut
    <2>3. CASE g' = g
      BY <1>0, <2>1, <2>3 DEF SolventNext
    <2> QED
      BY <1>2, <2>2, <2>3 DEF ReserveTimer
  <1>3. ASSUME TurnTimer
        PROVE  SolventNext
    <2>1. unseen' = unseen /\ (g' = g \/ g' \in HandleTimeout(g))
      BY <1>3 DEF TurnTimer, notes
    <2>2. ASSUME g' \in HandleTimeout(g)
          PROVE  Solvent(g')
      BY <1>0, <2>2, TimeoutSolvent
    <2> QED
      BY <1>0, <2>1, <2>2 DEF SolventNext
  <1>4. ASSUME StartTask
        PROVE  SolventNext
    <2>1. unseen' = FALSE /\ (g' = g \/ g' \in StartHand(g))
      BY <1>4 DEF StartTask
    <2>2. ASSUME g' \in StartHand(g)
          PROVE  Solvent(g')
      BY <1>0, <2>2, StartSolvent
    <2> QED
      BY <1>0, <2>1, <2>2 DEF SolventNext
  <1>5. CASE UNCHANGED vars
    BY <1>0, <1>5 DEF vars, notes, SolventNext
  <1> QED
    BY <1>1, <1>2, <1>3, <1>4, <1>5 DEF Next

\* Between hands, when two connected players are ready, the next hand is
\* scheduled, unless the last attempt to start one raised: every path that makes a
\* player ready looks (_maybe_start_hand_unlocked and its callers), but for a
\* rebuy, and a rebuy makes nobody ready as long as no bonus is paid and nobody has
\* sat down again in a hand he had left.
THEOREM NextHandIsScheduled == Spec => []NextHandScheduled
  <1> DEFINE Safe == ~rejoined /\ "bonus_27" \notin HouseRules => SolventInv
             Inv == TableInv /\ NotesAre /\ Safe
  <1>1. Init => Inv
    <2> SUFFICES ASSUME Init PROVE Inv
      OBVIOUS
    <2>1. SessionInv /\ TableInv
      BY SessionInitially, TableInitially
    <2>2. g.players = <<>> /\ NotesAre /\ unseen = FALSE
      BY DEF Init, EmptyTable, NotesAre
    <2>3. Solvent(g)
      BY <2>2 DEF Solvent, Seated
    <2> QED
      BY <2>1, <2>2, <2>3 DEF SolventInv
  <1>2. Inv /\ [Next]_vars => Inv'
    <2> SUFFICES ASSUME Inv, [Next]_vars PROVE Inv'
      OBVIOUS
    <2>1. TableInv' /\ NotesAre' /\ (~rejoined' => ~rejoined)
      BY EveryStep, NotesKept DEF Step
    <2>2. ASSUME ~rejoined', "bonus_27" \notin HouseRules
          PROVE  SolventInv'
      <3>1. SolventInv
        BY <2>1, <2>2
      <3>2. SessionInv'
        BY <2>2, <3>1, SessionKept DEF SolventInv
      <3>3. SolventNext
        BY <2>2, <3>1, SolventKept
      <3>4. Solvent(g)' /\ (unseen = FALSE)'
        BY <3>3 DEF SolventNext, Solvent, Seated
      <3> QED
        BY <3>2, <3>4 DEF SolventInv
    <2> QED
      BY <2>1, <2>2
  <1>3. Inv => NextHandScheduled
    BY DEF TableInv, SolventInv, Scheduled, NextHandScheduled, TableReady
  <1> HIDE DEF Inv
  <1> QED
    BY <1>1, <1>2, <1>3, PTL DEF Spec
=============================================================================
