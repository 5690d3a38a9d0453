-------------------------- MODULE TableStoreProofs --------------------------
(***************************************************************************)
(* TableStore for any players, chips, hands, crashes and failed writes.    *)
(*                                                                         *)
(* Each of its properties says that something has been written unless the  *)
(* write has failed.  Within a handler there is a third case: the write is *)
(* still to do.  That makes the invariant, once it is known what a handler *)
(* may have to do and in which order (Ordered): the steps that end it come *)
(* last, and a failure drops the steps from the front.                     *)
(***************************************************************************)
EXTENDS TableStore, FiniteSetTheorems, FunctionTheorems, SequenceTheorems,
        WellFoundedInduction, TLAPS

-----------------------------------------------------------------------------
(* Sequences of steps *)

Has(q, x) == \E i \in 1 .. Len(q) : q[i] = x

\* What is in one part is in the whole, and the other way round.
LEMMA HasConcat ==
    ASSUME NEW S, NEW q \in Seq(S), NEW r \in Seq(S), NEW x
    PROVE  Has(q \o r, x) <=> Has(q, x) \/ Has(r, x)
  <1>1. ASSUME NEW i \in 1 .. Len(q), q[i] = x PROVE Has(q \o r, x)
    <2>1. i \in 1 .. Len(q \o r) /\ (q \o r)[i] = x
      BY <1>1
    <2> QED
      BY <2>1 DEF Has
  <1>2. ASSUME NEW i \in 1 .. Len(r), r[i] = x PROVE Has(q \o r, x)
    <2>1. Len(q) + i \in 1 .. Len(q \o r) /\ (q \o r)[Len(q) + i] = x
      BY <1>2
    <2> QED
      BY <2>1 DEF Has
  <1>3. ASSUME NEW i \in 1 .. Len(q \o r), (q \o r)[i] = x PROVE Has(q, x) \/ Has(r, x)
    <2>1. CASE i <= Len(q)
      <3>1. i \in 1 .. Len(q) /\ q[i] = x
        BY <1>3, <2>1
      <3> QED
        BY <3>1 DEF Has
    <2>2. CASE i > Len(q)
      <3>1. i - Len(q) \in 1 .. Len(r) /\ r[i - Len(q)] = x
        BY <1>3, <2>2
      <3> QED
        BY <3>1 DEF Has
    <2> QED
      BY <2>1, <2>2
  <1> QED
    BY <1>1, <1>2, <1>3 DEF Has

\* What is not the first is in the rest.
LEMMA HasTail ==
    ASSUME NEW S, NEW q \in Seq(S), q # <<>>, NEW x, Has(q, x), x # Head(q)
    PROVE  Has(Tail(q), x)
  <1>1. PICK i \in 1 .. Len(q) : q[i] = x
    BY DEF Has
  <1>2. i - 1 \in 1 .. Len(Tail(q)) /\ Tail(q)[i - 1] = x
    BY <1>1
  <1> QED
    BY <1>2 DEF Has

\* What is not among the first n is in the rest.
LEMMA HasRest ==
    ASSUME NEW S, NEW q \in Seq(S), NEW n \in 1 .. Len(q), NEW x, Has(q, x),
           ~\E i \in 1 .. n : q[i] = x
    PROVE  Has(SubSeq(q, n + 1, Len(q)), x)
  <1>1. PICK i \in 1 .. Len(q) : q[i] = x
    BY DEF Has
  <1>2. i \in n + 1 .. Len(q)
    BY <1>1
  <1>3. /\ Len(SubSeq(q, n + 1, Len(q))) = Len(q) - n
        /\ \A k \in 1 .. Len(q) - n : SubSeq(q, n + 1, Len(q))[k] = q[n + k]
    BY SubSeqProperties
  <1>4. i - n \in 1 .. Len(q) - n /\ q[n + (i - n)] = x
    BY <1>1, <1>2
  <1> QED
    BY <1>3, <1>4 DEF Has

\* One element.
LEMMA HasOne == ASSUME NEW x, NEW y PROVE Has(<<x>>, y) <=> x = y
  BY DEF Has

-----------------------------------------------------------------------------
(* The table *)

TableOK(s) ==
    /\ s = [stack |-> s.stack, out |-> s.out, allin |-> s.allin, phase |-> s.phase,
            playing |-> s.playing, pot |-> s.pot, turn |-> s.turn, hand |-> s.hand]
    /\ s.stack \in [Seated(s) -> Nat] /\ Seated(s) \subseteq Users /\ IsFiniteSet(Seated(s))
    /\ s.out \subseteq Seated(s) /\ s.playing \subseteq Seated(s)
    /\ s.phase \in Phases /\ s.pot \in Nat /\ s.turn \in Users \cup {Nobody}
    /\ s.hand \in 0 .. MaxHands /\ (s.phase # "WAITING" => s.hand >= 1)
    /\ \A u \in Seated(s) : s.stack[u] = 0 => u \in s.out \cup s.allin

\* The end of a hand.
LEMMA EndOK ==
    ASSUME NEW s, TableOK(s), s.phase # "WAITING", NEW w \in s.playing
    PROVE  LET r == End(s, w)
           IN  /\ TableOK(r) /\ r.hand = s.hand /\ Seated(r) = Seated(s) /\ r.phase = "HAND_END"
               /\ r.out = s.out /\ r.playing = s.playing
  <1> DEFINE r == End(s, w)
             paid == [s.stack EXCEPT ![w] = @ + s.pot]
  <1>1. r = [s EXCEPT !.phase = "HAND_END", !.turn = Nobody, !.pot = 0, !.stack = paid]
    BY DEF End
  <1>2. paid \in [Seated(s) -> Nat] /\ \A u \in Seated(s) : paid[u] = 0 => s.stack[u] = 0
    BY DEF TableOK
  <1> HIDE DEF r, paid
  <1>3. r = [stack |-> paid, out |-> s.out, allin |-> s.allin, phase |-> "HAND_END",
             playing |-> s.playing, pot |-> 0, turn |-> Nobody, hand |-> s.hand]
    BY <1>1 DEF TableOK
  <1>4. TableOK(r) /\ r.hand = s.hand /\ Seated(r) = Seated(s) /\ r.phase = "HAND_END"
        /\ r.out = s.out /\ r.playing = s.playing
    BY <1>2, <1>3 DEF TableOK, Phases, Between, Seated
  <1> QED
    BY <1>4 DEF r

\* Whatever a move makes of the hand.
LEMMA OutcomesOK ==
    ASSUME NEW s, TableOK(s), s.phase # "WAITING", NEW r \in Outcomes(s)
    PROVE  /\ TableOK(r) /\ r.hand = s.hand /\ Seated(r) = Seated(s) /\ r.phase # "WAITING"
           /\ r.out = s.out /\ r.playing = s.playing
  <1> DEFINE next == IF s.phase = "PRE_FLOP" THEN "FLOP" ELSE "TURN"
  <1>1. \/ \E w \in s.playing : r = End(s, w)
        \/ \E u \in s.playing : r = [s EXCEPT !.turn = u]
        \/ \E u \in s.playing : r = [s EXCEPT !.turn = u, !.phase = next]
    BY DEF Outcomes
  <1>2. CASE \E w \in s.playing : r = End(s, w)
    BY <1>2, EndOK
  <1>3. ASSUME NEW u \in s.playing, r = [s EXCEPT !.turn = u]
        PROVE  TableOK(r) /\ r.hand = s.hand /\ Seated(r) = Seated(s) /\ r.phase # "WAITING"
               /\ r.out = s.out /\ r.playing = s.playing
    <2>1. r = [stack |-> s.stack, out |-> s.out, allin |-> s.allin, phase |-> s.phase,
               playing |-> s.playing, pot |-> s.pot, turn |-> u, hand |-> s.hand]
      BY <1>3 DEF TableOK
    <2> QED
      BY <2>1 DEF TableOK, Seated
  <1>4. ASSUME NEW u \in s.playing, r = [s EXCEPT !.turn = u, !.phase = next]
        PROVE  TableOK(r) /\ r.hand = s.hand /\ Seated(r) = Seated(s) /\ r.phase # "WAITING"
               /\ r.out = s.out /\ r.playing = s.playing
    <2>1. r = [stack |-> s.stack, out |-> s.out, allin |-> s.allin, phase |-> next,
               playing |-> s.playing, pot |-> s.pot, turn |-> u, hand |-> s.hand]
      BY <1>4 DEF TableOK
    <2>2. next \in Phases /\ next # "WAITING"
      BY DEF Phases, Streets
    <2> HIDE DEF next
    <2> QED
      BY <2>1, <2>2 DEF TableOK, Seated
  <1> QED
    BY <1>1, <1>2, <1>3, <1>4

\* A fold leaves the rest alone.
LEMMA FoldOK ==
    ASSUME NEW s, TableOK(s), NEW u
    PROVE  LET r == Fold(s, u)
           IN  /\ TableOK(r) /\ r.hand = s.hand /\ Seated(r) = Seated(s) /\ r.phase = s.phase
               /\ r.out = s.out /\ r.allin = s.allin /\ r.stack = s.stack
  <1> DEFINE r == Fold(s, u)
  <1>1. r = [stack |-> s.stack, out |-> s.out, allin |-> s.allin, phase |-> s.phase,
             playing |-> s.playing \ {u}, pot |-> s.pot, turn |-> s.turn, hand |-> s.hand]
    BY DEF Fold, TableOK
  <1> HIDE DEF r
  <1>2. TableOK(r) /\ r.hand = s.hand /\ Seated(r) = Seated(s) /\ r.phase = s.phase
        /\ r.out = s.out /\ r.allin = s.allin /\ r.stack = s.stack
    BY <1>1 DEF TableOK, Seated
  <1> QED
    BY <1>2 DEF r

\* Who sits out keeps his chips and is ready no longer.
LEMMA SatOutOK ==
    ASSUME NEW s, TableOK(s), NEW u \in Seated(s)
    PROVE  LET r == SatOut(s, u)
           IN  /\ TableOK(r) /\ r.hand = s.hand /\ Seated(r) = Seated(s) /\ r.phase = s.phase
               /\ Ready(r) \subseteq Ready(s)
               /\ \A v \in Seated(s) \ {u} : Row(r, v) = Row(s, v)
  <1> DEFINE r == SatOut(s, u)
             outs == s.out \cup {u}
             alls == s.allin \ {u}
             left == s.playing \ {u}
  <1>1. r = [s EXCEPT !.out = outs, !.allin = alls, !.playing = left]
    BY DEF SatOut
  <1>2. /\ outs \subseteq Seated(s) /\ left \subseteq Seated(s) /\ s.out \subseteq outs /\ u \in outs
        /\ \A v : v # u => (v \in outs <=> v \in s.out) /\ (v \in alls <=> v \in s.allin)
    BY DEF TableOK
  <1> HIDE DEF r, outs, alls, left
  <1>3. r = [stack |-> s.stack, out |-> outs, allin |-> alls, phase |-> s.phase,
             playing |-> left, pot |-> s.pot, turn |-> s.turn, hand |-> s.hand]
    BY <1>1 DEF TableOK
  <1>4. TableOK(r) /\ r.hand = s.hand /\ Seated(r) = Seated(s) /\ r.phase = s.phase
    BY <1>2, <1>3 DEF TableOK, Seated
  <1>5. Ready(r) \subseteq Ready(s)
    BY <1>2, <1>3, <1>4 DEF Ready
  <1>6. \A v \in Seated(s) \ {u} : Row(r, v) = Row(s, v)
    BY <1>2, <1>3 DEF Row
  <1> QED
    BY <1>4, <1>5, <1>6 DEF r

\* A bet moves a chip to the pot.
LEMMA BetOK ==
    ASSUME NEW s, TableOK(s), NEW u \in s.playing, s.stack[u] > 0
    PROVE  LET r == Bet(s, u, 1)
           IN  /\ TableOK(r) /\ r.hand = s.hand /\ Seated(r) = Seated(s) /\ r.phase = s.phase
               /\ r.out = s.out /\ r.playing = s.playing
               /\ \A v \in Seated(s) \ {u} : r.stack[v] = s.stack[v]
  <1> DEFINE r == Bet(s, u, 1)
             left == [s.stack EXCEPT ![u] = @ - 1]
             all == IF s.stack[u] = 1 THEN s.allin \cup {u} ELSE s.allin
  <1>1. r = [s EXCEPT !.stack = left, !.pot = @ + 1, !.allin = all]
    BY DEF Bet
  <1>2. left \in [Seated(s) -> Nat] /\ s.allin \subseteq all
        /\ \A v \in Seated(s) \ {u} : left[v] = s.stack[v]
    BY DEF TableOK
  <1>5. \A v \in Seated(s) : left[v] = 0 => v \in s.out \cup all
    <2>1. left[u] = 0 => u \in all
      BY DEF TableOK
    <2> HIDE DEF left, all
    <2> QED
      BY <1>2, <2>1 DEF TableOK
  <1> HIDE DEF r, left, all
  <1>3. r = [stack |-> left, out |-> s.out, allin |-> all, phase |-> s.phase,
             playing |-> s.playing, pot |-> s.pot + 1, turn |-> s.turn, hand |-> s.hand]
    BY <1>1 DEF TableOK
  <1>4. TableOK(r) /\ r.hand = s.hand /\ Seated(r) = Seated(s) /\ r.phase = s.phase
        /\ r.out = s.out /\ r.playing = s.playing
        /\ \A v \in Seated(s) \ {u} : r.stack[v] = s.stack[v]
    BY <1>2, <1>3, <1>5 DEF TableOK, Seated
  <1> QED
    BY <1>4 DEF r

\* A player's move: a hand was on, and it stays on or has ended.
LEMMA MoveOK ==
    ASSUME TableOK(t), NEW u, NEW r \in Folded(u) \cup Checked(u) \cup CalledOrRaised(u)
    PROVE  /\ HandOn(t) /\ t.turn = u /\ u \in Seated(t)
           /\ TableOK(r) /\ r.hand = t.hand /\ Seated(r) = Seated(t) /\ r.out = t.out
           /\ r.phase # "WAITING"
  <1>1. HandOn(t) /\ t.turn = u /\ u \in t.playing
    BY DEF Folded, Checked, CalledOrRaised
  <1>2. t.phase # "WAITING" /\ u \in Seated(t)
    BY <1>1 DEF HandOn, Between, TableOK
  <1>3. CASE r \in Folded(u)
    <2>1. r \in Outcomes(Fold(t, u))
      BY <1>3 DEF Folded
    <2> DEFINE s == Fold(t, u)
    <2>2. TableOK(s) /\ s.hand = t.hand /\ Seated(s) = Seated(t) /\ s.phase = t.phase
          /\ s.out = t.out
      BY FoldOK
    <2> HIDE DEF s
    <2>3. r \in Outcomes(s)
      BY <2>1 DEF s
    <2> QED
      BY <1>1, <1>2, <2>2, <2>3, OutcomesOK
  <1>4. CASE r \in Checked(u)
    BY <1>1, <1>2, <1>4, OutcomesOK DEF Checked
  <1>5. CASE r \in CalledOrRaised(u)
    <2>1. r \in Outcomes(Bet(t, u, 1)) /\ t.stack[u] > 0
      BY <1>5 DEF CalledOrRaised
    <2> DEFINE s == Bet(t, u, 1)
    <2>2. TableOK(s) /\ s.hand = t.hand /\ Seated(s) = Seated(t) /\ s.phase = t.phase
          /\ s.out = t.out
      BY <1>1, <2>1, BetOK
    <2> HIDE DEF s
    <2>3. r \in Outcomes(s)
      BY <2>1 DEF s
    <2> QED
      BY <1>1, <1>2, <2>2, <2>3, OutcomesOK
  <1> QED
    BY <1>3, <1>4, <1>5

\* A deal: it begins a betting round, or ends the hand at once.
LEMMA DealsOK ==
    ASSUME TableOK(t), t.hand < MaxHands, NEW r \in Deals(t)
    PROVE  TableOK(r) /\ Seated(r) = Seated(t) /\ r.phase \in {"PRE_FLOP", "HAND_END"}
  <1> DEFINE s == Reset(t)
             next == t.hand + 1
             in == {u \in Seated(t) \ t.out : t.stack[u] > 0}
             outs == t.out \cup {u \in Seated(t) \cap t.allin : t.stack[u] = 0}
  <1>1. TableOK(s) /\ Seated(s) = Seated(t) /\ s.phase = "PRE_FLOP"
        /\ \A u \in s.playing : s.stack[u] > 0
    <2>1. s = [t EXCEPT !.phase = "PRE_FLOP", !.hand = next, !.allin = {}, !.playing = in,
                        !.out = outs]
      BY DEF Reset
    <2>2. next \in 1 .. MaxHands
      BY StoreAssumption DEF TableOK
    <2>3. /\ in \subseteq Seated(t) /\ outs \subseteq Seated(t) /\ \A u \in in : t.stack[u] > 0
          /\ \A u \in Seated(t) : t.stack[u] = 0 => u \in outs
      BY DEF TableOK
    <2> HIDE DEF s, next, in, outs
    <2>4. s = [stack |-> t.stack, out |-> outs, allin |-> {}, phase |-> "PRE_FLOP",
               playing |-> in, pot |-> t.pot, turn |-> t.turn, hand |-> next]
      BY <2>1 DEF TableOK
    <2> QED
      BY <2>2, <2>3, <2>4 DEF TableOK, Seated, Phases
  <1> HIDE DEF s
  <1>2. PICK d \in Dealt(s) : \E k \in Kept(d) : r \in Opened(k)
    BY DEF Deals, s
  <1>3. PICK k \in Kept(d) : r \in Opened(k)
    BY <1>2
  <1>4. TableOK(d) /\ Seated(d) = Seated(t) /\ d.phase = "PRE_FLOP"
    <2>1. PICK u \in s.playing, v \in s.playing : u # v /\ d = Bet(Bet(s, u, 1), v, 1)
      BY DEF Dealt
    <2> DEFINE b == Bet(s, u, 1)
    <2>2. /\ TableOK(b) /\ Seated(b) = Seated(s) /\ b.phase = s.phase /\ b.playing = s.playing
          /\ \A w \in Seated(s) \ {u} : b.stack[w] = s.stack[w]
      BY <1>1, BetOK
    <2> HIDE DEF b
    <2>3. v \in b.playing /\ b.stack[v] > 0
      BY <1>1, <2>1, <2>2 DEF TableOK
    <2>4. d = Bet(b, v, 1)
      BY <2>1 DEF b
    <2> QED
      BY <1>1, <2>2, <2>3, <2>4, BetOK
  <1>5. TableOK(k) /\ Seated(k) = Seated(t) /\ k.phase = "PRE_FLOP"
    <2>1. PICK F : k = [d EXCEPT !.playing = @ \ F]
      BY <1>3 DEF Kept
    <2>2. k = [stack |-> d.stack, out |-> d.out, allin |-> d.allin, phase |-> d.phase,
               playing |-> d.playing \ F, pot |-> d.pot, turn |-> d.turn, hand |-> d.hand]
      BY <1>4, <2>1 DEF TableOK
    <2> QED
      BY <1>4, <2>2 DEF TableOK, Seated
  <1>6. \/ \E w \in k.playing : r = End(k, w)
        \/ \E u \in k.playing : r = [k EXCEPT !.turn = u]
    BY <1>3 DEF Opened
  <1>7. CASE \E w \in k.playing : r = End(k, w)
    BY <1>5, <1>7, EndOK
  <1>8. ASSUME NEW u \in k.playing, r = [k EXCEPT !.turn = u]
        PROVE  TableOK(r) /\ Seated(r) = Seated(t) /\ r.phase \in {"PRE_FLOP", "HAND_END"}
    <2>1. r = [stack |-> k.stack, out |-> k.out, allin |-> k.allin, phase |-> k.phase,
               playing |-> k.playing, pot |-> k.pot, turn |-> u, hand |-> k.hand]
      BY <1>5, <1>8 DEF TableOK
    <2> QED
      BY <1>5, <1>8, <2>1 DEF TableOK, Seated
  <1> QED
    BY <1>6, <1>7, <1>8

-----------------------------------------------------------------------------
(* What a handler has to do *)

\* Steps that write the state or look for a hand, at the table s.
Plain(q, s) ==
    /\ q \in Seq(Steps)
    /\ \A i \in 1 .. Len(q) :
          /\ q[i].op \in {"save", "snapshot", "summary", "look"}
          /\ q[i].op = "save" => q[i].user \in Seated(s)
          /\ q[i].op = "summary" => s.hand >= 1
          /\ q[i].op # "save" => q[i].user = Nobody

\* The end of a hand is written in full.
LEMMA HandEndPlain ==
    ASSUME NEW s, TableOK(s), s.phase # "WAITING"
    PROVE  LET q == HandEndSteps(s)
           IN  /\ Plain(q, s)
               /\ Has(q, Do("summary")) /\ Has(q, Do("look"))
               /\ \A u \in Seated(s) : Has(q, Step("save", u))
  <1> DEFINE n == Cardinality(Seated(s))
             f == SetToSeq(Seated(s))
             saves == [i \in 1 .. n |-> Step("save", f[i])]
  <1>1. n \in Nat /\ ExistsBijection(1 .. n, Seated(s))
    BY FS_CardinalityType DEF TableOK
  <1>2. f \in [1 .. n -> Seated(s)] /\ \A u \in Seated(s) : \E i \in 1 .. n : f[i] = u
    <2>1. PICK g \in [1 .. n -> Seated(s)] : IsInjective(g)
      BY <1>1 DEF ExistsBijection, Bijection, Injection
    <2>2. f \in [1 .. n -> Seated(s)] /\ IsInjective(f)
      BY <2>1 DEF SetToSeq
    <2>3. f \in Injection(1 .. n, Seated(s))
      BY <2>2 DEF Injection
    <2>4. IsFiniteSet(1 .. n) /\ Cardinality(1 .. n) = n /\ IsFiniteSet(Seated(s))
      <3>1. \A k \in Nat : IsFiniteSet(1 .. k) /\ Cardinality(1 .. k) = k
        BY FS_Interval
      <3> QED
        BY <1>1, <3>1 DEF TableOK
    <2>5. f \in Surjection(1 .. n, Seated(s))
      BY <2>3, <2>4, FS_Injection
    <2> QED
      BY <2>2, <2>5 DEF Surjection
  <1> HIDE DEF n, f
  <1>3. \A u \in Seated(s) : Step("save", u) \in Steps
    BY DEF Step, Steps, Writes, TableOK
  <1>4. saves \in Seq(Steps) /\ Len(saves) = n /\ \A i \in 1 .. n : saves[i] = Step("save", f[i])
    BY <1>1, <1>2, <1>3
  <1>5. \A u \in Seated(s) : Has(saves, Step("save", u))
    BY <1>2, <1>4 DEF Has
  <1> HIDE DEF saves
  <1>6. Do("summary") \in Steps /\ Do("look") \in Steps
    BY DEF Do, Step, Steps, Writes
  <1> DEFINE q == <<Do("summary")>> \o saves \o <<Do("look")>>
  <1>7. /\ q \in Seq(Steps) /\ Len(q) = n + 2
        /\ \A i \in 1 .. n + 2 : q[i] = IF i = 1 THEN Do("summary")
                                      ELSE IF i = n + 2 THEN Do("look") ELSE saves[i - 1]
    BY <1>1, <1>4, <1>6
  <1>8. HandEndSteps(s) = q
    BY DEF HandEndSteps, saves, n, f
  <1> HIDE DEF q
  <1>9. Plain(q, s)
    BY <1>1, <1>2, <1>4, <1>7 DEF Plain, Do, Step, TableOK
  <1>10. Has(q, Do("summary")) /\ Has(q, Do("look"))
    BY <1>1, <1>7 DEF Has
  <1>11. ASSUME NEW u \in Seated(s) PROVE Has(q, Step("save", u))
    <2>1. PICK i \in 1 .. n : saves[i] = Step("save", u)
      BY <1>4, <1>5 DEF Has
    <2>2. i + 1 \in 1 .. n + 2 /\ q[i + 1] = Step("save", u)
      BY <1>1, <1>7, <2>1
    <2> QED
      BY <1>7, <2>2 DEF Has
  <1> QED
    BY <1>8, <1>9, <1>10, <1>11

\* So are the other ends of a handler.
LEMMA DispatchPlain ==
    ASSUME NEW s, TableOK(s), s.phase # "WAITING"
    PROVE  LET q == DispatchSteps(s)
           IN  /\ Plain(q, s)
               /\ s.phase = "HAND_END" =>
                      /\ Has(q, Do("summary")) /\ Has(q, Do("look"))
                      /\ \A u \in Seated(s) : Has(q, Step("save", u))
  <1>1. CASE s.phase = "HAND_END"
    BY <1>1, HandEndPlain DEF DispatchSteps
  <1>2. CASE s.phase # "HAND_END"
    BY <1>2 DEF DispatchSteps, Plain
  <1> QED
    BY <1>1, <1>2

\* The steps that end a handler come last: a seat is given up, then its row; a
\* player sits out, then his row is saved.
Ordered(q, s) ==
    /\ q \in Seq(Steps)
    /\ \A i \in 1 .. Len(q) :
          /\ q[i].user = Nobody <=> q[i].op \in {"snapshot", "summary", "look", "catch"}
          /\ q[i].op = "save" => q[i].user \in Seated(s)
          /\ q[i].op = "summary" => s.hand >= 1
          /\ q[i].op = "unseat" => i = Len(q) - 1 /\ q[i + 1] = Step("delete", q[i].user)
          /\ q[i].op = "sit_out" => i = Len(q) - 1 /\ q[i + 1] = Step("save", q[i].user)
          /\ q[i].op = "delete" =>
                /\ i = Len(q)
                /\ q[i].user \notin Seated(s) \/ (i > 1 /\ q[i - 1] = Step("unseat", q[i].user))

\* Steps that only write and look are in order.
LEMMA PlainOrdered ==
    ASSUME NEW s, TableOK(s), NEW q, Plain(q, s)
    PROVE  Ordered(q, s)
  <1>1. \A u \in Seated(s) : u # Nobody
    BY StoreAssumption DEF TableOK
  <1> QED
    BY <1>1 DEF Plain, Ordered

\* The rest of a handler is in order.
LEMMA OrderedRest ==
    ASSUME NEW s, NEW q, Ordered(q, s), NEW n \in 1 .. Len(q), n = Len(q) \/ q[n].op # "unseat"
    PROVE  Ordered(SubSeq(q, n + 1, Len(q)), s)
  <1> DEFINE r == SubSeq(q, n + 1, Len(q))
             m == Len(q) - n
  <1>1. Len(q) \in Nat /\ n \in Nat
    BY DEF Ordered
  <1>2. /\ q \in Seq(Steps) /\ m \in Nat /\ r \in Seq(Steps) /\ Len(r) = m
        /\ \A k \in 1 .. m : r[k] = q[n + k]
    BY SubSeqProperties DEF Ordered
  <1> HIDE DEF r
  <1>3. ASSUME NEW k \in 1 .. m
        PROVE  /\ r[k].user = Nobody <=> r[k].op \in {"snapshot", "summary", "look", "catch"}
               /\ r[k].op = "save" => r[k].user \in Seated(s)
               /\ r[k].op = "summary" => s.hand >= 1
               /\ r[k].op = "unseat" => k = m - 1 /\ r[k + 1] = Step("delete", r[k].user)
               /\ r[k].op = "sit_out" => k = m - 1 /\ r[k + 1] = Step("save", r[k].user)
               /\ r[k].op = "delete" =>
                     /\ k = m
                     /\ r[k].user \notin Seated(s) \/ (k > 1 /\ r[k - 1] = Step("unseat", r[k].user))
    <2>1. n + k \in 1 .. Len(q) /\ r[k] = q[n + k]
      BY <1>2
    <2>2. ASSUME r[k].op \in {"unseat", "sit_out"} PROVE k = m - 1 /\ r[k + 1] = q[n + k + 1]
      <3>1. n + k = Len(q) - 1
        BY <2>1, <2>2 DEF Ordered
      <3>2. k = m - 1 /\ k + 1 \in 1 .. m /\ n + (k + 1) = n + k + 1
        BY <1>1, <3>1
      <3> QED
        BY <1>2, <3>2
    <2>3. ASSUME r[k].op = "delete"
          PROVE  /\ k = m
                 /\ r[k].user \notin Seated(s) \/ (k > 1 /\ r[k - 1] = Step("unseat", r[k].user))
      <3>1. n + k = Len(q) /\ k = m
        BY <1>2, <2>1, <2>3 DEF Ordered
      <3>2. CASE q[n + k].user \notin Seated(s)
        BY <2>1, <3>1, <3>2
      <3>3. CASE q[n + k - 1] = Step("unseat", q[n + k].user)
        <4>1. k > 1
          <5>1. CASE k = 1
            <6>1. n + k - 1 = n /\ n # Len(q)
              BY <1>2, <3>1, <5>1
            <6>2. q[n].op = "unseat"
              BY <3>3, <6>1 DEF Step
            <6> QED
              BY <6>1, <6>2
          <5> QED
            BY <1>2, <5>1
        <4>2. r[k - 1] = q[n + k - 1]
          BY <1>2, <4>1
        <4> QED
          BY <2>1, <3>1, <3>3, <4>1, <4>2
      <3> QED
        BY <2>1, <2>3, <3>2, <3>3 DEF Ordered
    <2> QED
      BY <2>1, <2>2, <2>3 DEF Ordered
  <1> QED
    BY <1>2, <1>3 DEF Ordered, r

\* A handler that ends with a seat given up.
LEMMA LeaveOrdered ==
    ASSUME NEW s, TableOK(s), NEW q, Plain(q, s), NEW u \in Seated(s)
    PROVE  /\ Ordered(<<Step("unseat", u), Step("delete", u)>>, s)
           /\ Ordered(q \o <<Do("catch"), Step("unseat", u), Step("delete", u)>>, s)
  <1>1. u \in Users /\ u # Nobody
    BY StoreAssumption DEF TableOK
  <1>2. Step("unseat", u) \in Steps /\ Step("delete", u) \in Steps /\ Do("catch") \in Steps
    BY <1>1 DEF Do, Step, Steps, Writes
  <1>3. Ordered(<<Step("unseat", u), Step("delete", u)>>, s)
    BY <1>1, <1>2 DEF Ordered, Step
  <1> DEFINE r == q \o <<Do("catch"), Step("unseat", u), Step("delete", u)>>
             n == Len(q)
  <1>4. /\ n \in Nat /\ r \in Seq(Steps) /\ Len(r) = n + 3
        /\ \A i \in 1 .. n : r[i] = q[i]
        /\ r[n + 1] = Do("catch") /\ r[n + 2] = Step("unseat", u) /\ r[n + 3] = Step("delete", u)
    BY <1>2 DEF Plain
  <1>5. \A i \in 1 .. n + 3 : i \in 1 .. n \/ i = n + 1 \/ i = n + 2 \/ i = n + 3
    BY <1>4
  <1>6. \A v \in Seated(s) : v # Nobody
    BY StoreAssumption DEF TableOK
  <1> HIDE DEF r, n
  <1>7. Ordered(r, s)
    BY <1>1, <1>4, <1>5, <1>6 DEF Ordered, Plain, Do, Step, n
  <1> QED
    BY <1>3, <1>7 DEF r

\* A handler that ends with a player sitting out.
LEMMA SitOutOrdered ==
    ASSUME NEW s, TableOK(s), NEW q, Plain(q, s), NEW u \in Seated(s)
    PROVE  /\ Ordered(<<Step("sit_out", u), Step("save", u)>>, s)
           /\ Ordered(q \o <<Do("catch"), Step("sit_out", u), Step("save", u)>>, s)
  <1>1. u \in Users /\ u # Nobody
    BY StoreAssumption DEF TableOK
  <1>2. Step("sit_out", u) \in Steps /\ Step("save", u) \in Steps /\ Do("catch") \in Steps
    BY <1>1 DEF Do, Step, Steps, Writes
  <1>3. Ordered(<<Step("sit_out", u), Step("save", u)>>, s)
    BY <1>1, <1>2 DEF Ordered, Step
  <1> DEFINE r == q \o <<Do("catch"), Step("sit_out", u), Step("save", u)>>
             n == Len(q)
  <1>4. /\ n \in Nat /\ r \in Seq(Steps) /\ Len(r) = n + 3
        /\ \A i \in 1 .. n : r[i] = q[i]
        /\ r[n + 1] = Do("catch") /\ r[n + 2] = Step("sit_out", u) /\ r[n + 3] = Step("save", u)
    BY <1>2 DEF Plain
  <1>5. \A i \in 1 .. n + 3 : i \in 1 .. n \/ i = n + 1 \/ i = n + 2 \/ i = n + 3
    BY <1>4
  <1>6. \A v \in Seated(s) : v # Nobody
    BY StoreAssumption DEF TableOK
  <1> HIDE DEF r, n
  <1>7. Ordered(r, s)
    BY <1>1, <1>4, <1>5, <1>6 DEF Ordered, Plain, Do, Step, n
  <1> QED
    BY <1>3, <1>7 DEF r

-----------------------------------------------------------------------------
(* The invariant: written, or failed, or still to do *)

TypesHold ==
    /\ TableOK(t) /\ Ordered(todo, t) /\ owed \subseteq Steps
    /\ DOMAIN sessions \subseteq Users /\ inherited \subseteq DOMAIN sessions
    /\ snapshot \in Phases \cup {"NONE"} /\ summaries \subseteq 1 .. MaxHands

SummaryDue ==
    t.phase = "HAND_END" =>
        t.hand \in summaries \/ Do("summary") \in owed \/ Has(todo, Do("summary"))

SnapshotDue ==
    t.phase \in Streets /\ moved = "action" =>
        snapshot = t.phase \/ Do("snapshot") \in owed \/ Has(todo, Do("snapshot"))

LookDue ==
    ~HandOn(t) /\ Cardinality(Ready(t)) >= 2 =>
        pending \/ Do("look") \in owed \/ Has(todo, Do("look"))

RowsDue ==
    ~HandOn(t) =>
        \A u \in Seated(t) :
            About(u) = {} =>
                \/ u \in DOMAIN sessions /\ sessions[u] = Row(t, u)
                \/ Has(todo, Step("save", u))

DeletionDue ==
    \A u \in DOMAIN sessions \ Seated(t) :
        u \in inherited \/ About(u) # {} \/ Has(todo, Step("delete", u))

StoreInv == TypesHold /\ SummaryDue /\ SnapshotDue /\ LookDue /\ RowsDue /\ DeletionDue

\* An empty table, nothing to do and nothing written.
LEMMA InitStoreInv == Init => StoreInv
  <1> SUFFICES ASSUME Init PROVE StoreInv
    OBVIOUS
  <1>1. Seated(t) = {} /\ t.phase = "WAITING" /\ t = EmptyTable
    BY DEF Init, EmptyTable, Seated
  <1>2. TableOK(t)
    BY <1>1, FS_EmptySet, StoreAssumption DEF TableOK, EmptyTable, Phases, Between, Seated
  <1>3. todo \in Seq(Steps) /\ Len(todo) = 0 /\ owed = {} /\ DOMAIN sessions = {}
        /\ inherited = {} /\ snapshot = "NONE" /\ summaries = {}
    BY DEF Init
  <1>4. TypesHold
    BY <1>2, <1>3 DEF TypesHold, Ordered
  <1>5. Ready(t) = {} /\ Cardinality(Ready(t)) = 0
    BY <1>1, FS_EmptySet DEF Ready
  <1>6. SummaryDue /\ SnapshotDue
    BY <1>1 DEF SummaryDue, SnapshotDue, Streets
  <1>7. LookDue
    BY <1>5 DEF LookDue
  <1>8. RowsDue /\ DeletionDue
    BY <1>1, <1>3 DEF RowsDue, DeletionDue
  <1> QED
    BY <1>4, <1>6, <1>7, <1>8 DEF StoreInv

\* Who can play is finite in number, and fewer are no more.
LEMMA FewerReady ==
    ASSUME NEW s, TableOK(s), NEW T, T \subseteq Ready(s)
    PROVE  IsFiniteSet(T) /\ Cardinality(T) \in Nat /\ Cardinality(Ready(s)) \in Nat
           /\ Cardinality(T) <= Cardinality(Ready(s))
  <1>1. Ready(s) \subseteq Seated(s) /\ IsFiniteSet(Seated(s))
    BY DEF Ready, TableOK
  <1>2. IsFiniteSet(Ready(s))
    BY <1>1, FS_Subset
  <1>3. IsFiniteSet(T) /\ Cardinality(T) <= Cardinality(Ready(s))
    BY <1>2, FS_Subset
  <1> QED
    BY <1>2, <1>3, FS_CardinalityType

\* A handler that begins: what its change of the state makes due is among the
\* steps it leaves to do, or was due before.
LEMMA BeginKeeps ==
    ASSUME StoreInv, NEW s, NEW q, Begin(s, q), UNCHANGED <<durable, inherited>>,
           owed \subseteq owed', owed' \subseteq Steps,
           TableOK(s), Ordered(q, s), Seated(t) \subseteq Seated(s),
           s.phase = "HAND_END" =>
               Has(q, Do("summary")) \/ (t.phase = "HAND_END" /\ s.hand = t.hand),
           s.phase \in Streets /\ moved' = "action" =>
               Has(q, Do("snapshot")) \/ (s.phase = t.phase /\ moved = "action"),
           ~HandOn(s) /\ Cardinality(Ready(s)) >= 2 =>
               \/ pending' \/ Do("look") \in owed' \/ Has(q, Do("look"))
               \/ ~HandOn(t) /\ Ready(s) = Ready(t) /\ (pending => pending'),
           ~HandOn(s) => \A u \in Seated(s) :
               \/ Has(q, Step("save", u))
               \/ ~HandOn(t) /\ u \in Seated(t) /\ Row(s, u) = Row(t, u)
    PROVE  StoreInv'
  <1>1. t' = s /\ todo' = q /\ todo = <<>>
        /\ UNCHANGED <<sessions, snapshot, summaries, inherited>>
    BY DEF Begin, Free, durable
  <1>2. \A x : ~Has(todo, x)
    BY <1>1 DEF Has
  <1>3. TypesHold'
    BY <1>1 DEF StoreInv, TypesHold
  <1>4. SummaryDue'
    BY <1>1, <1>2 DEF StoreInv, SummaryDue
  <1>5. SnapshotDue'
    BY <1>1, <1>2 DEF StoreInv, SnapshotDue
  <1>6. LookDue'
    BY <1>1, <1>2 DEF StoreInv, LookDue
  <1>7. \A u : About(u) \subseteq About(u)'
    BY DEF About
  <1>8. RowsDue'
    <2> SUFFICES ASSUME ~HandOn(s), NEW u \in Seated(s), About(u)' = {}, ~Has(q, Step("save", u))
                 PROVE  u \in DOMAIN sessions /\ sessions[u] = Row(s, u)
      BY <1>1 DEF RowsDue
    <2>1. ~HandOn(t) /\ u \in Seated(t) /\ Row(s, u) = Row(t, u) /\ About(u) = {}
      BY <1>7
    <2> QED
      BY <1>2, <2>1 DEF StoreInv, RowsDue
  <1>9. DeletionDue'
    BY <1>1, <1>2, <1>7 DEF StoreInv, DeletionDue
  <1> QED
    BY <1>3, <1>4, <1>5, <1>6, <1>8, <1>9 DEF StoreInv

-----------------------------------------------------------------------------
(* Handlers that begin *)

\* The short ones: a row, and perhaps a look for a hand.
LEMMA SaveOrdered ==
    ASSUME NEW s, TableOK(s), NEW u \in Seated(s)
    PROVE  /\ Ordered(<<Step("save", u), Do("look")>>, s) /\ Ordered(<<Step("save", u)>>, s)
           /\ Has(<<Step("save", u), Do("look")>>, Step("save", u))
           /\ Has(<<Step("save", u), Do("look")>>, Do("look"))
           /\ Has(<<Step("save", u)>>, Step("save", u))
  <1>1. Step("save", u) \in Steps /\ Do("look") \in Steps
    BY DEF Do, Step, Steps, Writes, TableOK
  <1>2. Plain(<<Step("save", u), Do("look")>>, s) /\ Plain(<<Step("save", u)>>, s)
    BY <1>1 DEF Plain, Do, Step
  <1>3. Has(<<Step("save", u), Do("look")>>, Step("save", u))
        /\ Has(<<Step("save", u), Do("look")>>, Do("look"))
        /\ Has(<<Step("save", u)>>, Step("save", u))
    <2> DEFINE q == <<Step("save", u), Do("look")>>
    <2>1. Len(q) = 2 /\ q[1] = Step("save", u) /\ q[2] = Do("look")
      OBVIOUS
    <2>2. 1 \in 1 .. Len(q) /\ 2 \in 1 .. Len(q)
      BY <2>1
    <2> QED
      BY <2>1, <2>2, HasOne DEF Has
  <1> QED
    BY <1>2, <1>3, PlainOrdered

\* A new seat.
LEMMA JoinKeeps == ASSUME StoreInv, NEW u \in Users, Join(u) PROVE StoreInv'
  <1> DEFINE all == [v \in Seated(t) \cup {u} |-> IF v = u THEN BuyIn ELSE t.stack[v]]
             s == [t EXCEPT !.stack = all]
             q == <<Step("save", u), Do("look")>>
  <1>1. Begin(s, q) /\ u \notin Seated(t) /\ UNCHANGED <<pending, durable, inherited, owed, moved>>
    BY DEF Join
  <1>2. TableOK(t) /\ owed \subseteq Steps
    BY DEF StoreInv, TypesHold
  <1>3. all \in [Seated(t) \cup {u} -> Nat] /\ IsFiniteSet(Seated(t) \cup {u}) /\ all[u] > 0
    BY <1>2, FS_AddElement, StoreAssumption DEF TableOK
  <1>4. \A v \in Seated(t) : all[v] = t.stack[v]
    BY <1>1
  <1> HIDE DEF s, all
  <1>5. s = [stack |-> all, out |-> t.out, allin |-> t.allin, phase |-> t.phase,
             playing |-> t.playing, pot |-> t.pot, turn |-> t.turn, hand |-> t.hand]
    BY <1>2 DEF s, TableOK
  <1>6. Seated(s) = Seated(t) \cup {u}
    BY <1>3, <1>5 DEF Seated
  <1>7. TableOK(s)
    BY <1>2, <1>3, <1>4, <1>5, <1>6 DEF TableOK
  <1>8. Ordered(q, s) /\ Has(q, Step("save", u)) /\ Has(q, Do("look"))
    BY <1>6, <1>7, SaveOrdered
  <1>9. \A v \in Seated(t) : Row(s, v) = Row(t, v)
    BY <1>4, <1>5 DEF Row
  <1>10. s.phase = t.phase /\ s.hand = t.hand /\ (HandOn(s) <=> HandOn(t))
    BY <1>5 DEF HandOn
  <1> HIDE DEF q
  <1> QED
    BY <1>1, <1>2, <1>6, <1>7, <1>8, <1>9, <1>10, BeginKeeps

\* A player who comes back to the game.
LEMMA SitInKeeps == ASSUME StoreInv, NEW u \in Users, SitIn(u) PROVE StoreInv'
  <1> DEFINE s == [t EXCEPT !.out = @ \ {u}, !.allin = @ \ {u}]
             q == <<Step("save", u), Do("look")>>
  <1>1. Begin(s, q) /\ u \in Seated(t) /\ t.stack[u] > 0
        /\ UNCHANGED <<pending, durable, inherited, owed, moved>>
    BY DEF SitIn
  <1>2. TableOK(t) /\ owed \subseteq Steps
    BY DEF StoreInv, TypesHold
  <1> HIDE DEF s
  <1>3. s = [stack |-> t.stack, out |-> t.out \ {u}, allin |-> t.allin \ {u}, phase |-> t.phase,
             playing |-> t.playing, pot |-> t.pot, turn |-> t.turn, hand |-> t.hand]
    <2> DEFINE outs == t.out \ {u}
               alls == t.allin \ {u}
    <2>1. s = [t EXCEPT !.out = outs, !.allin = alls]
      BY DEF s
    <2> HIDE DEF outs, alls
    <2>2. s = [stack |-> t.stack, out |-> outs, allin |-> alls, phase |-> t.phase,
               playing |-> t.playing, pot |-> t.pot, turn |-> t.turn, hand |-> t.hand]
      BY <1>2, <2>1 DEF TableOK
    <2> QED
      BY <2>2 DEF outs, alls
  <1>4. Seated(s) = Seated(t) /\ TableOK(s)
    <2>1. Seated(s) = Seated(t)
      BY <1>3 DEF Seated
    <2>2. \A v \in Seated(s) : s.stack[v] = 0 => v \in s.out \cup s.allin
      <3>1. ASSUME NEW v \in Seated(s), s.stack[v] = 0 PROVE v # u /\ v \in t.out \cup t.allin
        BY <1>1, <1>2, <1>3, <2>1, <3>1 DEF TableOK
      <3> QED
        BY <1>3, <3>1
    <2> QED
      BY <1>2, <1>3, <2>1, <2>2 DEF TableOK
  <1>5. Ordered(q, s) /\ Has(q, Step("save", u)) /\ Has(q, Do("look"))
    BY <1>1, <1>4, SaveOrdered
  <1>6. ASSUME NEW v \in Seated(t), v # u PROVE Row(s, v) = Row(t, v)
    <2>1. (v \in s.out) = (v \in t.out) /\ s.stack = t.stack
      BY <1>3, <1>6
    <2> QED
      BY <2>1 DEF Row
  <1>7. s.phase = t.phase /\ s.hand = t.hand /\ (HandOn(s) <=> HandOn(t))
    BY <1>3 DEF HandOn
  <1> HIDE DEF q
  <1> QED
    BY <1>1, <1>2, <1>4, <1>5, <1>6, <1>7, BeginKeeps

\* More chips: who had none sits out or was all in, and is no more ready for it.
LEMMA RebuyKeeps == ASSUME StoreInv, NEW u \in Users, Rebuy(u) PROVE StoreInv'
  <1> DEFINE more == [t.stack EXCEPT ![u] = @ + 1]
             s == [t EXCEPT !.stack = more]
             q == <<Step("save", u)>>
  <1>1. Begin(s, q) /\ u \in Seated(t) /\ UNCHANGED <<pending, durable, inherited, owed, moved>>
    BY DEF Rebuy
  <1>2. TableOK(t) /\ owed \subseteq Steps
    BY DEF StoreInv, TypesHold
  <1>3. more \in [Seated(t) -> Nat] /\ (\A v \in Seated(t) \ {u} : more[v] = t.stack[v])
        /\ more[u] = t.stack[u] + 1 /\ t.stack[u] \in Nat
    BY <1>1, <1>2 DEF TableOK, Seated
  <1> HIDE DEF s, more
  <1>4. s = [stack |-> more, out |-> t.out, allin |-> t.allin, phase |-> t.phase,
             playing |-> t.playing, pot |-> t.pot, turn |-> t.turn, hand |-> t.hand]
    BY <1>2 DEF s, TableOK
  <1>5. Seated(s) = Seated(t) /\ TableOK(s)
    BY <1>2, <1>3, <1>4 DEF TableOK, Seated
  <1>6. Ordered(q, s) /\ Has(q, Step("save", u))
    BY <1>1, <1>5, SaveOrdered
  <1>7. \A v \in Seated(t) : v # u => Row(s, v) = Row(t, v)
    BY <1>3, <1>4 DEF Row
  <1>8. s.phase = t.phase /\ s.hand = t.hand /\ (HandOn(s) <=> HandOn(t))
    BY <1>4 DEF HandOn
  <1>9. Ready(s) = Ready(t)
    <2>1. ASSUME NEW v \in Seated(t) PROVE v \in Ready(s) <=> v \in Ready(t)
      <3>1. CASE v # u
        BY <1>3, <1>4, <1>5, <3>1 DEF Ready
      <3>2. CASE v = u
        BY <1>1, <1>2, <1>3, <1>4, <1>5, <3>2 DEF Ready, TableOK
      <3> QED
        BY <3>1, <3>2
    <2> QED
      BY <1>5, <2>1 DEF Ready
  <1> HIDE DEF q
  <1> QED
    BY <1>1, <1>2, <1>5, <1>6, <1>7, <1>8, <1>9, BeginKeeps

\* A move, with what its handler does after the dispatch: the end of a hand is
\* dispatched in full, and only a client's action owes the street's snapshot.
LEMMA MoveKeeps ==
    ASSUME StoreInv, NEW r, TableOK(r), r.hand = t.hand, Seated(r) = Seated(t), r.phase # "WAITING",
           NEW e \in Seq(Steps), NEW q, q = DispatchSteps(r) \o e, Ordered(q, r), Begin(r, q),
           UNCHANGED <<durable, inherited, owed>>,
           moved' = "other" \/ (r.phase \in Streets => Has(e, Do("snapshot")))
    PROVE  StoreInv'
  <1> DEFINE d == DispatchSteps(r)
  <1>1. /\ Plain(d, r)
        /\ r.phase = "HAND_END" =>
              /\ Has(d, Do("summary")) /\ Has(d, Do("look"))
              /\ \A u \in Seated(r) : Has(d, Step("save", u))
    BY DispatchPlain
  <1>2. d \in Seq(Steps)
    BY <1>1 DEF Plain
  <1> HIDE DEF d
  <1>3. \A x : Has(d, x) \/ Has(e, x) => Has(q, x)
    BY <1>2, HasConcat DEF d
  <1>4. owed \subseteq owed' /\ owed' \subseteq Steps
    BY DEF StoreInv, TypesHold
  <1>5. ~HandOn(r) => r.phase = "HAND_END"
    BY DEF HandOn, Between
  <1> QED
    BY <1>1, <1>3, <1>4, <1>5, BeginKeeps

\* A client's action.
LEMMA ActKeeps == ASSUME StoreInv, NEW u \in Users, Act(u) PROVE StoreInv'
  <1>1. PICK r \in Folded(u) \cup Checked(u) \cup CalledOrRaised(u) :
            Begin(r, DispatchSteps(r) \o PhaseSteps(r))
    BY DEF Act
  <1>2. UNCHANGED <<durable, inherited, owed>>
    BY DEF Act
  <1>3. TableOK(r) /\ r.hand = t.hand /\ Seated(r) = Seated(t) /\ r.phase # "WAITING"
    BY <1>1, MoveOK DEF StoreInv, TypesHold
  <1> DEFINE d == DispatchSteps(r)
             e == PhaseSteps(r)
  <1>4. Plain(d, r)
    BY <1>3, DispatchPlain
  <1>5. Do("snapshot") \in Steps
    BY DEF Do, Step, Steps, Writes
  <1>6. /\ e = IF r.phase \in Streets THEN <<Do("snapshot")>> ELSE <<>>
        /\ e \in Seq(Steps)
        /\ r.phase \in Streets => Has(e, Do("snapshot"))
    BY <1>5, HasOne DEF PhaseSteps
  <1> HIDE DEF d, e
  <1>7. Plain(d \o e, r)
    BY <1>4, <1>5, <1>6 DEF Plain, Do, Step
  <1>8. Ordered(d \o e, r)
    BY <1>3, <1>7, PlainOrdered
  <1> QED
    BY <1>1, <1>2, <1>3, <1>6, <1>8, MoveKeeps DEF d, e

\* A timeout, which may sit the player out.
LEMMA TurnTimeoutKeeps == ASSUME StoreInv, TurnTimeout PROVE StoreInv'
  <1>1. PICK s \in Folded(t.turn) \cup Checked(t.turn), third \in BOOLEAN :
            Begin(IF third THEN SatOut(s, t.turn) ELSE s, DispatchSteps(s))
    BY DEF TurnTimeout
  <1>2. UNCHANGED <<durable, inherited, owed>> /\ moved' = "other"
    BY DEF TurnTimeout
  <1>3. TableOK(s) /\ s.hand = t.hand /\ Seated(s) = Seated(t) /\ s.phase # "WAITING"
        /\ t.turn \in Seated(t)
    BY <1>1, MoveOK DEF StoreInv, TypesHold
  <1> DEFINE gone == SatOut(s, t.turn)
             r == IF third THEN gone ELSE s
  <1>8. TableOK(gone) /\ gone.hand = s.hand /\ Seated(gone) = Seated(s) /\ gone.phase = s.phase
    BY <1>3, SatOutOK
  <1> HIDE DEF gone
  <1>9. TableOK(r) /\ r.hand = t.hand /\ Seated(r) = Seated(t) /\ r.phase # "WAITING"
        /\ r.phase = s.phase
    BY <1>3, <1>8
  <1>10. DispatchSteps(s) = DispatchSteps(r)
    BY <1>3, <1>9 DEF DispatchSteps, HandEndSteps
  <1>11. Begin(r, DispatchSteps(r))
    BY <1>1, <1>10 DEF gone
  <1> HIDE DEF r
  <1> DEFINE d == DispatchSteps(r)
  <1>12. Plain(d, r)
    BY <1>9, DispatchPlain
  <1>13. d = d \o <<>> /\ <<>> \in Seq(Steps)
    BY <1>12, ConcatEmptySeq DEF Plain
  <1>14. Ordered(d, r)
    BY <1>9, <1>12, PlainOrdered
  <1> QED
    BY <1>2, <1>9, <1>11, <1>13, <1>14, MoveKeeps

\* A player who leaves.
LEMMA LeaveKeeps == ASSUME StoreInv, NEW u \in Users, Leave(u) PROVE StoreInv'
  <1> DEFINE e == <<Do("catch"), Step("unseat", u), Step("delete", u)>>
  <1>1. TableOK(t) /\ u \in Seated(t) /\ owed \subseteq Steps
        /\ UNCHANGED <<pending, durable, inherited, owed>>
    BY DEF StoreInv, TypesHold, Leave
  <1>2. ASSUME NEW s \in Folded(u), Begin(s, LeaveSteps(u, s)), moved' = "other" PROVE StoreInv'
    <2>1. TableOK(s) /\ s.hand = t.hand /\ Seated(s) = Seated(t) /\ s.phase # "WAITING"
      BY <1>1, <1>2, MoveOK
    <2>2. Plain(DispatchSteps(s), s)
      BY <2>1, DispatchPlain
    <2>3. Ordered(DispatchSteps(s) \o e, s)
      BY <1>1, <2>1, <2>2, LeaveOrdered
    <2>4. e \in Seq(Steps)
      BY DEF Do, Step, Steps, Writes
    <2>5. Begin(s, DispatchSteps(s) \o e)
      BY <1>2 DEF LeaveSteps
    <2> HIDE DEF e
    <2> QED
      BY <1>1, <1>2, <2>1, <2>3, <2>4, <2>5, MoveKeeps
  <1>3. ASSUME Begin(IF HandOn(t) /\ t.turn # u THEN Fold(t, u) ELSE t,
                     <<Step("unseat", u), Step("delete", u)>>), moved' = moved
        PROVE  StoreInv'
    <2> DEFINE s == IF HandOn(t) /\ t.turn # u THEN Fold(t, u) ELSE t
               q == <<Step("unseat", u), Step("delete", u)>>
    <2>1. TableOK(s) /\ s.hand = t.hand /\ Seated(s) = Seated(t) /\ s.phase = t.phase
          /\ s.out = t.out /\ s.allin = t.allin /\ s.stack = t.stack
      BY <1>1, FoldOK
    <2> HIDE DEF s
    <2>2. Plain(<<>>, s)
      BY DEF Plain
    <2>3. Ordered(q, s)
      BY <1>1, <2>1, <2>2, LeaveOrdered
    <2>4. Ready(s) = Ready(t) /\ (HandOn(s) <=> HandOn(t)) /\ \A v : Row(s, v) = Row(t, v)
      BY <2>1 DEF Ready, HandOn, Row
    <2>5. Begin(s, q)
      BY <1>3 DEF s
    <2> HIDE DEF q
    <2> QED
      BY <1>1, <1>3, <2>1, <2>3, <2>4, <2>5, BeginKeeps
  <1> QED
    BY <1>2, <1>3 DEF Leave

\* A player who sits out.
LEMMA SitOutKeeps == ASSUME StoreInv, NEW u \in Users, SitOut(u) PROVE StoreInv'
  <1> DEFINE e == <<Do("catch"), Step("sit_out", u), Step("save", u)>>
  <1>1. TableOK(t) /\ u \in Seated(t) /\ owed \subseteq Steps
        /\ UNCHANGED <<pending, durable, inherited, owed>>
    BY DEF StoreInv, TypesHold, SitOut
  <1>2. ASSUME NEW s \in Folded(u), Begin(s, DispatchSteps(s) \o e), moved' = "other"
        PROVE  StoreInv'
    <2>1. TableOK(s) /\ s.hand = t.hand /\ Seated(s) = Seated(t) /\ s.phase # "WAITING"
      BY <1>1, <1>2, MoveOK
    <2>2. Plain(DispatchSteps(s), s)
      BY <2>1, DispatchPlain
    <2>3. Ordered(DispatchSteps(s) \o e, s)
      BY <1>1, <2>1, <2>2, SitOutOrdered
    <2>4. e \in Seq(Steps)
      BY DEF Do, Step, Steps, Writes
    <2> HIDE DEF e
    <2> QED
      BY <1>1, <1>2, <2>1, <2>3, <2>4, MoveKeeps
  <1>3. ASSUME Begin(t, <<Step("sit_out", u), Step("save", u)>>), moved' = moved
        PROVE  StoreInv'
    <2> DEFINE q == <<Step("sit_out", u), Step("save", u)>>
    <2>1. Plain(<<>>, t)
      BY DEF Plain
    <2>2. Ordered(q, t)
      BY <1>1, <2>1, SitOutOrdered
    <2> HIDE DEF q
    <2> QED
      BY <1>1, <1>3, <2>2, BeginKeeps DEF q
  <1> QED
    BY <1>2, <1>3 DEF SitOut

\* A hand that starts, or finds that it cannot.
LEMMA StartHandKeeps == ASSUME StoreInv, StartHand PROVE StoreInv'
  <1>1. TableOK(t) /\ owed \subseteq Steps /\ UNCHANGED <<durable, inherited, owed>>
    BY DEF StoreInv, TypesHold, StartHand
  <1>2. CASE ~HandOn(t) /\ Cardinality(Ready(t)) >= 2
    <2>1. t.hand < MaxHands /\ moved' = "other"
          /\ \E s \in Deals(t) : Begin(s, DispatchSteps(s) \o <<Do("snapshot")>>)
      BY <1>2 DEF StartHand
    <2>2. PICK s \in Deals(t) : Begin(s, DispatchSteps(s) \o <<Do("snapshot")>>)
      BY <2>1
    <2>3. TableOK(s) /\ Seated(s) = Seated(t) /\ s.phase \in {"PRE_FLOP", "HAND_END"}
      BY <1>1, <2>1, DealsOK
    <2> DEFINE d == DispatchSteps(s)
               q == d \o <<Do("snapshot")>>
    <2>4. /\ Plain(d, s)
          /\ s.phase = "HAND_END" =>
                /\ Has(d, Do("summary")) /\ Has(d, Do("look"))
                /\ \A u \in Seated(s) : Has(d, Step("save", u))
      BY <2>3, DispatchPlain
    <2>5. Do("snapshot") \in Steps
      BY DEF Do, Step, Steps, Writes
    <2> HIDE DEF d
    <2>6. Plain(q, s)
      BY <2>4, <2>5 DEF Plain, Do, Step
    <2>7. Ordered(q, s)
      BY <2>3, <2>6, PlainOrdered
    <2>8. \A x : Has(d, x) => Has(q, x)
      <3>1. d \in Seq(Steps) /\ <<Do("snapshot")>> \in Seq(Steps)
        BY <2>4, <2>5 DEF Plain
      <3> DEFINE last == <<Do("snapshot")>>
      <3> HIDE DEF last
      <3>2. q = d \o last /\ last \in Seq(Steps)
        BY <3>1 DEF last
      <3> HIDE DEF q
      <3> QED
        BY <3>1, <3>2, HasConcat
    <2>9. Begin(s, q)
      BY <2>2 DEF d
    <2>10. s.phase \notin Streets /\ (~HandOn(s) => s.phase = "HAND_END")
      BY <2>3 DEF HandOn, Between, Streets
    <2> HIDE DEF q
    <2> QED
      BY <1>1, <2>1, <2>3, <2>4, <2>7, <2>8, <2>9, <2>10, BeginKeeps
  <1>3. CASE ~(~HandOn(t) /\ Cardinality(Ready(t)) >= 2)
    <2>1. Begin(t, <<>>) /\ moved' = moved
      BY <1>3 DEF StartHand, Begin, Free
    <2>2. Ordered(<<>>, t)
      BY DEF Ordered
    <2> QED
      BY <1>1, <1>3, <2>1, <2>2, BeginKeeps
  <1> QED
    BY <1>2, <1>3

-----------------------------------------------------------------------------
(* Steps of a handler under way *)

\* The first step, and what is left after it.
LEMMA FirstAndRest ==
    ASSUME StoreInv, ~Free
    PROVE  /\ todo \in Seq(Steps) /\ todo # <<>> /\ Len(todo) \in Nat /\ Len(todo) >= 1
           /\ First = todo[1] /\ First \in Steps
           /\ First.op # "unseat" => Ordered(Tail(todo), t)
           /\ \A x : Has(todo, x) => x = First \/ Has(Tail(todo), x)
  <1>1. todo \in Seq(Steps) /\ todo # <<>> /\ Ordered(todo, t)
    BY DEF StoreInv, TypesHold, Ordered, Free
  <1>2. Len(todo) \in Nat /\ Len(todo) >= 1 /\ First = todo[1] /\ First \in Steps
    BY <1>1 DEF First
  <1>3. ASSUME First.op # "unseat" PROVE Ordered(Tail(todo), t)
    <2>1. Tail(todo) = SubSeq(todo, 1 + 1, Len(todo))
      BY <1>1, TailIsSubSeq
    <2>2. Ordered(SubSeq(todo, 1 + 1, Len(todo)), t)
      BY <1>1, <1>2, <1>3, OrderedRest
    <2> QED
      BY <2>1, <2>2
  <1>4. ASSUME NEW x, Has(todo, x), x # First PROVE Has(Tail(todo), x)
    BY <1>1, <1>4, HasTail DEF First
  <1> QED
    BY <1>1, <1>2, <1>3, <1>4

\* What follows a step that changes the state.
LEMMA OrderedFirst ==
    ASSUME NEW s, NEW q, Ordered(q, s), q # <<>>, NEW w, w = q[1].user
    PROVE  /\ w = Nobody <=> q[1].op \in {"snapshot", "summary", "look", "catch"}
           /\ q[1].op \in {"unseat", "sit_out"} => Len(q) = 2
           /\ q[1].op = "unseat" => q[2] = Step("delete", w)
           /\ q[1].op = "sit_out" => q[2] = Step("save", w) /\ w \in Seated(s)
  <1>1. q \in Seq(Steps) /\ Len(q) \in Nat /\ 1 \in 1 .. Len(q)
    BY DEF Ordered
  <1>2. /\ w = Nobody <=> q[1].op \in {"snapshot", "summary", "look", "catch"}
        /\ q[1].op = "unseat" => 1 = Len(q) - 1 /\ q[1 + 1] = Step("delete", w)
        /\ q[1].op = "sit_out" => 1 = Len(q) - 1 /\ q[1 + 1] = Step("save", w)
    BY <1>1 DEF Ordered
  <1>3. ASSUME q[1].op = "sit_out" PROVE w \in Seated(s)
    <2>1. 2 \in 1 .. Len(q) /\ q[2] = Step("save", w)
      BY <1>1, <1>2, <1>3
    <2>2. q[2].op = "save" /\ q[2].user = w
      BY <2>1 DEF Step
    <2> QED
      BY <2>1, <2>2 DEF Ordered
  <1> QED
    BY <1>1, <1>2, <1>3

\* A step in memory: giving up a seat, sitting out, looking for a hand, or
\* nothing.
LEMMA ProceedKeeps == ASSUME StoreInv, Proceed PROVE StoreInv'
  <1> DEFINE w == First.user
             stay == [v \in Seated(t) \ {w} |-> t.stack[v]]
  <1>1. ~Free /\ First.op \notin Writes /\ todo' = Tail(todo)
        /\ UNCHANGED <<sessions, snapshot, summaries, inherited, moved>>
    BY DEF Proceed, durable
  <1>2. /\ todo \in Seq(Steps) /\ todo # <<>> /\ Len(todo) \in Nat /\ Len(todo) >= 1
        /\ First = todo[1] /\ First \in Steps
        /\ First.op # "unseat" => Ordered(Tail(todo), t)
        /\ \A x : Has(todo, x) => x = First \/ Has(Tail(todo), x)
    BY <1>1, FirstAndRest
  <1>3. /\ TableOK(t) /\ Ordered(todo, t) /\ owed \subseteq Steps
        /\ DOMAIN sessions \subseteq Users /\ inherited \subseteq DOMAIN sessions
        /\ snapshot \in Phases \cup {"NONE"} /\ summaries \subseteq 1 .. MaxHands
    BY DEF StoreInv, TypesHold
  <1>4. /\ w = Nobody <=> First.op \in {"look", "catch"}
        /\ First.op \in {"unseat", "sit_out"} => Len(todo) = 2
        /\ First.op = "unseat" => todo[2] = Step("delete", w)
        /\ First.op = "sit_out" => todo[2] = Step("save", w) /\ w \in Seated(t)
        /\ First.op \in {"unseat", "sit_out", "look", "catch"}
    <2>1. First.op \in {"unseat", "sit_out", "look", "catch"}
      BY <1>1, <1>2 DEF Steps
    <2>2. /\ w = Nobody <=> First.op \in {"snapshot", "summary", "look", "catch"}
          /\ First.op \in {"unseat", "sit_out"} => Len(todo) = 2
          /\ First.op = "unseat" => todo[2] = Step("delete", w)
          /\ First.op = "sit_out" => todo[2] = Step("save", w) /\ w \in Seated(t)
      BY <1>2, <1>3, OrderedFirst
    <2> QED
      BY <2>1, <2>2
  <1>5. \A x : Has(todo, x) /\ x.op \in Writes => Has(todo', x)
    BY <1>1, <1>2
  <1>6. \A v : Step("save", v).op \in Writes /\ Step("delete", v).op \in Writes
                 /\ Do("summary").op \in Writes /\ Do("snapshot").op \in Writes
    BY DEF Step, Do, Writes
  <1>7. CASE First.op = "look"
    <2>1. t' = t /\ owed' = owed \ {First}
          /\ pending' = (pending \/ (~HandOn(t) /\ Cardinality(Ready(t)) >= 2))
      BY <1>7 DEF Proceed
    <2>2. First = Do("look")
      BY <1>2, <1>4, <1>7 DEF Do, Step, Steps
    <2>3. \A u : u # Nobody => About(u)' = About(u)
      BY <1>4, <1>7, <2>1 DEF About
    <2>4. \A u \in Users : u # Nobody
      BY StoreAssumption
    <2>5. TypesHold'
      BY <1>1, <1>2, <1>3, <1>7, <2>1 DEF TypesHold
    <2>6. Do("summary") # First /\ Do("snapshot") # First
      BY <2>2 DEF Do, Step
    <2>7. SummaryDue' /\ SnapshotDue'
      BY <1>1, <1>5, <1>6, <2>1, <2>6 DEF StoreInv, SummaryDue, SnapshotDue
    <2>8. LookDue'
      BY <2>1 DEF LookDue
    <2>9. RowsDue' /\ DeletionDue'
      BY <1>1, <1>3, <1>5, <1>6, <2>1, <2>3, <2>4 DEF StoreInv, RowsDue, DeletionDue, TableOK
    <2> QED
      BY <2>5, <2>7, <2>8, <2>9 DEF StoreInv
  <1>8. CASE First.op = "catch"
    <2>1. t' = t /\ owed' = owed /\ pending' = (pending \/ FALSE)
      BY <1>8 DEF Proceed
    <2>2. Do("look") # First /\ \A u : About(u)' = About(u)
      BY <1>8, <2>1 DEF Do, Step, About
    <2>3. TypesHold'
      BY <1>1, <1>2, <1>3, <1>8, <2>1 DEF TypesHold
    <2>4. SummaryDue' /\ SnapshotDue'
      BY <1>1, <1>5, <1>6, <2>1 DEF StoreInv, SummaryDue, SnapshotDue
    <2>5. LookDue'
      BY <1>1, <1>2, <2>1, <2>2 DEF StoreInv, LookDue
    <2>6. RowsDue' /\ DeletionDue'
      BY <1>1, <1>5, <1>6, <2>1, <2>2 DEF StoreInv, RowsDue, DeletionDue
    <2> QED
      BY <2>3, <2>4, <2>5, <2>6 DEF StoreInv
  <1>9. CASE First.op \in {"unseat", "sit_out"}
    <2>1. owed' = owed /\ pending' = (pending \/ FALSE)
      BY <1>9 DEF Proceed
    <2>2. Do("look") # First /\ \A u : About(u)' = About(u)
      BY <1>9, <2>1 DEF Do, Step, About
    <2>3. w \in Users /\ w # Nobody
      BY <1>2, <1>4, <1>9 DEF Steps
    <2>4. Len(todo') = 1 /\ todo' \in Seq(Steps) /\ todo'[1] = todo[2]
      BY <1>1, <1>2, <1>4, <1>9
    <2> DEFINE q == IF First.op = "unseat" THEN Step("delete", w) ELSE Step("save", w)
    <2>5. todo'[1] = q
      BY <1>4, <1>9, <2>4
    <2>6. Has(todo', q) /\ \A x : Has(todo', x) => x = q
      BY <2>4, <2>5 DEF Has
    <2>7. \E s : /\ t' = s /\ TableOK(s) /\ s.phase = t.phase /\ s.hand = t.hand
                 /\ Seated(s) = IF First.op = "unseat" THEN Seated(t) \ {w} ELSE Seated(t)
                 /\ Ready(s) \subseteq Ready(t)
                 /\ \A v \in Seated(s) \ {w} : Row(s, v) = Row(t, v)
      <3> DEFINE outs == IF First.op = "unseat" THEN t.out \ {w} ELSE t.out \cup {w}
                 left == t.playing \ {w}
                 alls == t.allin \ {w}
      <3>1. t = [stack |-> t.stack, out |-> t.out, allin |-> t.allin, phase |-> t.phase,
                 playing |-> t.playing, pot |-> t.pot, turn |-> t.turn, hand |-> t.hand]
        BY <1>3 DEF TableOK
      <3>2. CASE First.op = "unseat"
        <4>1. t' = [t EXCEPT !.stack = stay, !.out = outs, !.allin = alls, !.playing = left]
          BY <3>2 DEF Proceed, Unseat
        <4>2. /\ stay \in [Seated(t) \ {w} -> Nat] /\ IsFiniteSet(Seated(t) \ {w})
              /\ \A v \in Seated(t) \ {w} : stay[v] = t.stack[v]
          BY <1>3, FS_RemoveElement DEF TableOK
        <4>3. outs = t.out \ {w} /\ outs \subseteq Seated(t) \ {w} /\ left \subseteq Seated(t) \ {w}
          BY <1>3, <3>2 DEF TableOK
        <4>4. \A v \in Seated(t) \ {w} : v \in outs <=> v \in t.out
          BY <4>3
        <4>5. \A v \in Seated(t) \ {w} : v \in alls <=> v \in t.allin
          OBVIOUS
        <4> HIDE DEF stay, outs, left, alls
        <4> DEFINE s == [stack |-> stay, out |-> outs, allin |-> alls, phase |-> t.phase,
                         playing |-> left, pot |-> t.pot, turn |-> t.turn, hand |-> t.hand]
        <4>6. t' = s
          BY <3>1, <4>1
        <4>7. Seated(s) = Seated(t) \ {w}
          BY <4>2 DEF Seated
        <4> DEFINE fields == /\ s.stack = stay /\ s.out = outs /\ s.allin = alls
                             /\ s.phase = t.phase /\ s.playing = left /\ s.pot = t.pot
                             /\ s.turn = t.turn /\ s.hand = t.hand
                             /\ s = [stack |-> s.stack, out |-> s.out, allin |-> s.allin,
                                     phase |-> s.phase, playing |-> s.playing, pot |-> s.pot,
                                     turn |-> s.turn, hand |-> s.hand]
        <4>8. fields
          OBVIOUS
        <4> HIDE DEF s
        <4>9. TableOK(s)
          BY <1>3, <4>2, <4>3, <4>4, <4>5, <4>7, <4>8 DEF TableOK
        <4>10. Ready(s) \subseteq Ready(t)
          BY <4>2, <4>4, <4>5, <4>7, <4>8 DEF Ready
        <4>11. \A v \in Seated(s) \ {w} : Row(s, v) = Row(t, v)
          BY <4>2, <4>4, <4>7, <4>8 DEF Row
        <4> QED
          BY <3>2, <4>6, <4>7, <4>8, <4>9, <4>10, <4>11
      <3>3. CASE First.op = "sit_out"
        <4>1. First.op # "unseat"
          BY <3>3
        <4>2. t' = SatOut(t, w) /\ w \in Seated(t)
          BY <1>4, <3>3 DEF Proceed
        <4> QED
          BY <1>3, <4>1, <4>2, SatOutOK
      <3> QED
        BY <1>9, <3>2, <3>3
    <2>8. PICK s : /\ t' = s /\ TableOK(s) /\ s.phase = t.phase /\ s.hand = t.hand
                   /\ Seated(s) = IF First.op = "unseat" THEN Seated(t) \ {w} ELSE Seated(t)
                   /\ Ready(s) \subseteq Ready(t)
                   /\ \A v \in Seated(s) \ {w} : Row(s, v) = Row(t, v)
      BY <2>7
    <2>9. HandOn(s) <=> HandOn(t)
      BY <2>8 DEF HandOn
    <2>10. Ordered(todo', s)
      <3>1. CASE First.op = "unseat"
        <4>1. todo'[1] = Step("delete", w) /\ w \notin Seated(s)
          BY <2>5, <2>8, <3>1
        <4> QED
          BY <2>3, <2>4, <4>1 DEF Ordered, Step
      <3>2. CASE First.op = "sit_out"
        <4>1. todo'[1] = Step("save", w) /\ w \in Seated(s)
          BY <1>4, <2>4, <2>8, <3>2
        <4> QED
          BY <2>3, <2>4, <4>1 DEF Ordered, Step
      <3> QED
        BY <1>9, <3>1, <3>2
    <2> HIDE DEF q, w
    <2>11. TypesHold'
      BY <1>1, <1>3, <2>1, <2>8, <2>10 DEF TypesHold
    <2>12. SummaryDue' /\ SnapshotDue'
      BY <1>1, <1>5, <1>6, <2>1, <2>8 DEF StoreInv, SummaryDue, SnapshotDue
    <2>13. LookDue'
      <3>1. Cardinality(Ready(s)) >= 2 => Cardinality(Ready(t)) >= 2
        BY <1>3, <2>8, FewerReady
      <3>2. Has(todo, Do("look")) => Has(todo', Do("look"))
        BY <1>1, <1>2, <2>2
      <3> QED
        BY <2>1, <2>8, <2>9, <3>1, <3>2 DEF StoreInv, LookDue
    <2>14. RowsDue'
      <3> SUFFICES ASSUME ~HandOn(s), NEW u \in Seated(s), About(u)' = {}
                   PROVE  \/ u \in DOMAIN sessions /\ sessions[u] = Row(s, u)
                          \/ Has(todo', Step("save", u))
        BY <1>1, <2>8 DEF RowsDue
      <3>1. CASE u # w
        <4>1. u \in Seated(t) /\ Row(s, u) = Row(t, u) /\ About(u) = {}
          BY <2>2, <2>8, <3>1
        <4> QED
          BY <1>5, <1>6, <2>9, <4>1 DEF StoreInv, RowsDue
      <3>2. CASE u = w
        <4>1. First.op = "sit_out"
          BY <1>9, <2>8, <3>2
        <4> QED
          BY <2>6, <3>2, <4>1 DEF q
      <3> QED
        BY <3>1, <3>2
    <2>15. DeletionDue'
      <3> SUFFICES ASSUME NEW u \in DOMAIN sessions, u \notin Seated(s)
                   PROVE  u \in inherited \/ About(u)' # {} \/ Has(todo', Step("delete", u))
        BY <1>1, <2>8 DEF DeletionDue
      <3>1. CASE u \notin Seated(t)
        BY <1>5, <1>6, <2>2, <3>1 DEF StoreInv, DeletionDue
      <3>2. CASE u \in Seated(t)
        <4>1. First.op = "unseat" /\ u = w
          BY <2>8, <3>2
        <4> QED
          BY <2>6, <4>1 DEF q
      <3> QED
        BY <3>1, <3>2
    <2> QED
      BY <2>11, <2>12, <2>13, <2>14, <2>15 DEF StoreInv
  <1> QED
    BY <1>4, <1>7, <1>8, <1>9

\* A call of the adapter that commits.
LEMMA CommitKeeps == ASSUME StoreInv, Commit PROVE StoreInv'
  <1> DEFINE w == First.user
  <1>1. ~Free /\ First.op \in Writes /\ todo' = Tail(todo) /\ UNCHANGED <<t, pending, moved>>
        /\ inherited' = inherited \ {w}
        /\ owed' = IF w # Nobody THEN owed \ About(w) ELSE owed \ {First}
    BY DEF Commit
  <1>2. /\ todo \in Seq(Steps) /\ todo # <<>> /\ Len(todo) \in Nat /\ Len(todo) >= 1
        /\ First = todo[1] /\ First \in Steps
        /\ First.op # "unseat" => Ordered(Tail(todo), t)
        /\ \A x : Has(todo, x) => x = First \/ Has(Tail(todo), x)
    BY <1>1, FirstAndRest
  <1>3. /\ TableOK(t) /\ Ordered(todo, t) /\ owed \subseteq Steps
        /\ DOMAIN sessions \subseteq Users /\ inherited \subseteq DOMAIN sessions
        /\ snapshot \in Phases \cup {"NONE"} /\ summaries \subseteq 1 .. MaxHands
    BY DEF StoreInv, TypesHold
  <1>4. Ordered(todo', t) /\ \A x : Has(todo, x) => x = First \/ Has(todo', x)
    BY <1>1, <1>2 DEF Writes
  <1>5. /\ w = Nobody <=> First.op \in {"snapshot", "summary", "look", "catch"}
        /\ First.op = "save" => w \in Seated(t)
        /\ First.op = "summary" => t.hand >= 1
        /\ First.op = "delete" => w \notin Seated(t)
    <2>1. 1 \in 1 .. Len(todo)
      BY <1>2
    <2>2. ~(1 > 1)
      OBVIOUS
    <2> QED
      BY <1>2, <1>3, <2>1, <2>2 DEF Ordered
  <1>6. Nobody \notin Users
    BY StoreAssumption
  <1>7. owed' \subseteq owed
    BY <1>1
  <1>8. ASSUME NEW v \in Users, v # w PROVE About(v)' = About(v)
    BY <1>1, <1>6, <1>8 DEF About
  <1>9. ASSUME NEW op, Do(op) \in owed, Do(op) # First PROVE Do(op) \in owed'
    BY <1>1, <1>9 DEF About, Do, Step
  <1>10. First = Step(First.op, w)
    BY <1>2 DEF Steps, Step
  <1>11. LookDue'
    <2>1. Do("look") # First
      BY <1>1 DEF Do, Step, Writes
    <2> QED
      BY <1>1, <1>4, <1>9, <2>1 DEF StoreInv, LookDue
  <1>12. CASE First.op = "save"
    <2>1. /\ sessions' = [v \in DOMAIN sessions \cup {w} |-> IF v = w THEN Row(t, w) ELSE sessions[v]]
          /\ snapshot' = snapshot /\ summaries' = summaries
      BY <1>12 DEF Commit
    <2>2. w \in Users /\ w \in Seated(t)
      BY <1>3, <1>5, <1>12 DEF TableOK
    <2>3. /\ DOMAIN sessions' = DOMAIN sessions \cup {w} /\ sessions'[w] = Row(t, w)
          /\ \A v \in DOMAIN sessions : v # w => sessions'[v] = sessions[v]
      BY <2>1
    <2>4. TypesHold'
      BY <1>1, <1>3, <1>4, <1>7, <2>1, <2>2, <2>3 DEF TypesHold
    <2>5. Do("summary") # First /\ Do("snapshot") # First
          /\ \A v : Step("delete", v) # First /\ (v # w => Step("save", v) # First)
      BY <1>10, <1>12 DEF Do, Step
    <2>6. SummaryDue' /\ SnapshotDue'
      BY <1>1, <1>4, <1>9, <2>1, <2>5 DEF StoreInv, SummaryDue, SnapshotDue
    <2>7. RowsDue'
      BY <1>1, <1>3, <1>4, <1>8, <2>3, <2>5 DEF StoreInv, RowsDue, TableOK
    <2>8. DeletionDue'
      BY <1>1, <1>3, <1>4, <1>8, <2>2, <2>3, <2>5 DEF StoreInv, DeletionDue
    <2> QED
      BY <1>11, <2>4, <2>6, <2>7, <2>8 DEF StoreInv
  <1>13. CASE First.op = "delete"
    <2>1. /\ sessions' = [v \in DOMAIN sessions \ {w} |-> sessions[v]]
          /\ snapshot' = snapshot /\ summaries' = summaries
      BY <1>13 DEF Commit
    <2>2. w \notin Seated(t)
      BY <1>5, <1>13
    <2>3. /\ DOMAIN sessions' = DOMAIN sessions \ {w}
          /\ \A v \in DOMAIN sessions : v # w => sessions'[v] = sessions[v]
      BY <2>1
    <2>4. TypesHold'
      BY <1>1, <1>3, <1>4, <1>7, <2>1, <2>3 DEF TypesHold
    <2>5. Do("summary") # First /\ Do("snapshot") # First
          /\ \A v : Step("save", v) # First /\ (v # w => Step("delete", v) # First)
      BY <1>10, <1>13 DEF Do, Step
    <2>6. SummaryDue' /\ SnapshotDue'
      BY <1>1, <1>4, <1>9, <2>1, <2>5 DEF StoreInv, SummaryDue, SnapshotDue
    <2>7. RowsDue'
      BY <1>1, <1>3, <1>4, <1>8, <2>2, <2>3, <2>5 DEF StoreInv, RowsDue, TableOK
    <2>8. DeletionDue'
      BY <1>1, <1>3, <1>4, <1>8, <2>3, <2>5 DEF StoreInv, DeletionDue
    <2> QED
      BY <1>11, <2>4, <2>6, <2>7, <2>8 DEF StoreInv
  <1>14. CASE First.op \in {"snapshot", "summary"}
    <2>1. /\ sessions' = sessions
          /\ snapshot' = IF First.op = "snapshot" THEN t.phase ELSE snapshot
          /\ summaries' = IF First.op = "summary" THEN summaries \cup {t.hand} ELSE summaries
      BY <1>14 DEF Commit
    <2>2. w = Nobody /\ First = Do(First.op)
      BY <1>5, <1>10, <1>14 DEF Do
    <2>3. inherited' = inherited /\ \A v \in Users : About(v)' = About(v)
      BY <1>1, <1>3, <1>6, <1>8, <2>2
    <2>4. summaries' \subseteq 1 .. MaxHands
      BY <1>3, <1>5, <2>1, StoreAssumption DEF TableOK
    <2>5. TypesHold'
      BY <1>1, <1>3, <1>4, <1>7, <2>1, <2>3, <2>4 DEF TypesHold, TableOK
    <2>6. \A v : Step("save", v) # First /\ Step("delete", v) # First
      BY <1>10, <1>14 DEF Step
    <2>7. First.op # "summary" => Do("summary") # First
      BY DEF Do, Step
    <2>8. First.op # "snapshot" => Do("snapshot") # First
      BY DEF Do, Step
    <2>9. SummaryDue'
      BY <1>1, <1>4, <1>9, <2>1, <2>7 DEF StoreInv, SummaryDue
    <2>10. SnapshotDue'
      BY <1>1, <1>4, <1>9, <2>1, <2>8 DEF StoreInv, SnapshotDue
    <2>11. RowsDue'
      BY <1>1, <1>3, <1>4, <2>1, <2>3, <2>6 DEF StoreInv, RowsDue, TableOK
    <2>12. DeletionDue'
      BY <1>1, <1>3, <1>4, <2>1, <2>3, <2>6 DEF StoreInv, DeletionDue
    <2> QED
      BY <1>11, <2>5, <2>9, <2>10, <2>11, <2>12 DEF StoreInv
  <1> QED
    BY <1>1, <1>12, <1>13, <1>14 DEF Writes

\* A failure drops steps up to the end of a try block, or all of them.
LEMMA LostOK ==
    ASSUME StoreInv, ~Free, First.op \in Writes
    PROVE  Lost \in 1 .. Len(todo) /\ (Lost = Len(todo) \/ todo[Lost].op # "unseat")
  <1> DEFINE ends == {i \in 1 .. Len(todo) : todo[i].op = "catch"}
  <1>1. Len(todo) \in Nat /\ Len(todo) >= 1 /\ First = todo[1]
    BY FirstAndRest
  <1>2. CASE First.op = "summary"
    BY <1>1, <1>2 DEF Lost
  <1>3. CASE First.op # "summary" /\ ends = {}
    BY <1>1, <1>3 DEF Lost
  <1>4. CASE First.op # "summary" /\ ends # {}
    <2>1. \E i \in ends : \A j \in ends : i <= j
      <3>1. ends \subseteq Nat
        BY <1>1
      <3> HIDE DEF ends
      <3> DEFINE less == OpToRel(<, Nat)
      <3>2. IsWellFoundedOn(less, Nat)
        BY NatLessThanWellFounded
      <3>3. \A a, b \in Nat : a < b => <<a, b>> \in less
        BY DEF OpToRel
      <3> HIDE DEF less
      <3>4. PICK i \in ends : \A j \in ends : ~(<<j, i>> \in less)
        <4>1. \E i \in ends : \A j \in ends : ~(<<j, i>> \in less)
          BY <1>4, <3>1, <3>2, WFMin
        <4> QED
          BY <4>1
      <3>5. ASSUME NEW j \in ends PROVE i <= j
        <4>1. i \in Nat /\ j \in Nat /\ ~(j < i)
          BY <3>1, <3>4, <3>3
        <4> QED
          BY <4>1
      <3> QED
        BY <3>5
    <2>2. Lost = CHOOSE i \in ends : \A j \in ends : i <= j
      BY <1>4 DEF Lost
    <2>3. Lost \in ends
      BY <2>1, <2>2
    <2> QED
      BY <2>3
  <1> QED
    BY <1>2, <1>3, <1>4

\* A call of the adapter that raises: what is dropped is owed.
LEMMA RaiseKeeps == ASSUME StoreInv, Raise PROVE StoreInv'
  <1> DEFINE n == Lost
             lost == {todo[i] : i \in {j \in 1 .. n : todo[j].op # "catch"}}
  <1>1. /\ ~Free /\ First.op \in Writes /\ owed' = owed \cup lost
        /\ todo' = SubSeq(todo, n + 1, Len(todo))
        /\ UNCHANGED <<t, pending, sessions, snapshot, summaries, inherited, moved>>
    BY DEF Raise, durable
  <1>2. n \in 1 .. Len(todo) /\ (n = Len(todo) \/ todo[n].op # "unseat")
    BY <1>1, LostOK
  <1>3. /\ TableOK(t) /\ Ordered(todo, t) /\ owed \subseteq Steps
        /\ DOMAIN sessions \subseteq Users /\ inherited \subseteq DOMAIN sessions
        /\ snapshot \in Phases \cup {"NONE"} /\ summaries \subseteq 1 .. MaxHands
    BY DEF StoreInv, TypesHold
  <1> HIDE DEF n
  <1>4. Ordered(todo', t)
    BY <1>1, <1>2, <1>3, OrderedRest
  <1>5. todo \in Seq(Steps)
    BY <1>3 DEF Ordered
  <1>6. lost \subseteq Steps
    BY <1>2, <1>5
  <1>7. ASSUME NEW x, Has(todo, x), x.op # "catch" PROVE x \in owed' \/ Has(todo', x)
    <2>1. CASE \E i \in 1 .. n : todo[i] = x
      BY <1>1, <1>7, <2>1
    <2>2. CASE ~\E i \in 1 .. n : todo[i] = x
      BY <1>1, <1>2, <1>5, <1>7, <2>2, HasRest
    <2> QED
      BY <2>1, <2>2
  <1> HIDE DEF lost
  <1>8. /\ \A v : Step("save", v).op # "catch" /\ Step("delete", v).op # "catch"
        /\ \A v : Step("save", v).user = v /\ Step("delete", v).user = v
        /\ Do("summary").op # "catch" /\ Do("snapshot").op # "catch" /\ Do("look").op # "catch"
    BY DEF Do, Step
  <1>9. \A v : About(v) \subseteq About(v)'
    BY <1>1 DEF About
  <1>10. \A x : x \in owed' => x \in About(x.user)'
    BY DEF About
  <1>11. TypesHold'
    BY <1>1, <1>3, <1>4, <1>6 DEF TypesHold
  <1>12. SummaryDue' /\ SnapshotDue' /\ LookDue'
    BY <1>1, <1>7, <1>8 DEF StoreInv, SummaryDue, SnapshotDue, LookDue
  <1>13. RowsDue'
    <2> SUFFICES ASSUME ~HandOn(t), NEW u \in Seated(t), About(u)' = {}
                 PROVE  \/ u \in DOMAIN sessions /\ sessions[u] = Row(t, u)
                        \/ Has(todo', Step("save", u))
      BY <1>1 DEF RowsDue
    <2>1. About(u) = {}
      BY <1>9
    <2>2. Step("save", u) \notin owed'
      BY <1>8, <1>10
    <2> QED
      BY <1>7, <1>8, <2>1, <2>2 DEF StoreInv, RowsDue
  <1>14. DeletionDue'
    <2> SUFFICES ASSUME NEW u \in DOMAIN sessions \ Seated(t), About(u)' = {}
                 PROVE  u \in inherited \/ Has(todo', Step("delete", u))
      BY <1>1 DEF DeletionDue
    <2>1. About(u) = {}
      BY <1>9
    <2>2. Step("delete", u) \notin owed'
      BY <1>8, <1>10
    <2> QED
      BY <1>7, <1>8, <2>1, <2>2 DEF StoreInv, DeletionDue
  <1> QED
    BY <1>11, <1>12, <1>13, <1>14 DEF StoreInv

\* A process that starts: every row it finds was left by another.
LEMMA CrashKeeps == ASSUME StoreInv, Crash PROVE StoreInv'
  <1> DEFINE s == [EmptyTable EXCEPT !.hand = t.hand]
  <1>1. /\ t' = s /\ todo' = <<>> /\ inherited' = DOMAIN sessions /\ owed' = {}
        /\ UNCHANGED <<sessions, snapshot, summaries>>
    BY DEF Crash, durable
  <1>2. TableOK(t) /\ DOMAIN sessions \subseteq Users
        /\ snapshot \in Phases \cup {"NONE"} /\ summaries \subseteq 1 .. MaxHands
    BY DEF StoreInv, TypesHold
  <1>3. s = [stack |-> [u \in {} |-> 0], out |-> {}, allin |-> {}, phase |-> "WAITING",
             playing |-> {}, pot |-> 0, turn |-> Nobody, hand |-> t.hand]
    <2> DEFINE nothing == [u \in {} |-> 0]
    <2>1. EmptyTable = [stack |-> nothing, out |-> {}, allin |-> {}, phase |-> "WAITING",
                        playing |-> {}, pot |-> 0, turn |-> Nobody, hand |-> 0]
      BY DEF EmptyTable
    <2> HIDE DEF nothing
    <2>2. s = [stack |-> nothing, out |-> {}, allin |-> {}, phase |-> "WAITING",
               playing |-> {}, pot |-> 0, turn |-> Nobody, hand |-> t.hand]
      BY <2>1
    <2> QED
      BY <2>2 DEF nothing
  <1> HIDE DEF s
  <1>4. Seated(s) = {} /\ s.phase = "WAITING" /\ Ready(s) = {}
    BY <1>3 DEF Seated, Ready
  <1>5. TableOK(s)
    BY <1>2, <1>3, <1>4, FS_EmptySet DEF TableOK, Phases, Between
  <1>6. Ordered(<<>>, s)
    BY DEF Ordered
  <1>7. TypesHold'
    BY <1>1, <1>2, <1>5, <1>6 DEF TypesHold
  <1>8. SummaryDue' /\ SnapshotDue'
    BY <1>1, <1>4 DEF SummaryDue, SnapshotDue, Streets
  <1>9. LookDue'
    BY <1>1, <1>4, FS_EmptySet DEF LookDue
  <1>10. RowsDue' /\ DeletionDue'
    BY <1>1, <1>4 DEF RowsDue, DeletionDue
  <1> QED
    BY <1>7, <1>8, <1>9, <1>10 DEF StoreInv

\* A step outside the system.
LEMMA StutterKeeps == ASSUME StoreInv, UNCHANGED vars PROVE StoreInv'
  <1>1. UNCHANGED <<t, pending, todo, sessions, snapshot, summaries, inherited, owed, moved>>
    BY DEF vars
  <1>2. \A u : About(u)' = About(u)
    BY <1>1 DEF About
  <1>3. TypesHold' /\ SummaryDue' /\ SnapshotDue' /\ LookDue'
    BY <1>1 DEF StoreInv, TypesHold, SummaryDue, SnapshotDue, LookDue
  <1>4. RowsDue' /\ DeletionDue'
    BY <1>1, <1>2 DEF StoreInv, RowsDue, DeletionDue
  <1> QED
    BY <1>3, <1>4 DEF StoreInv

\* The step of the induction.
LEMMA StepStoreInv == StoreInv /\ [Next]_vars => StoreInv'
  <1> SUFFICES ASSUME StoreInv, [Next]_vars PROVE StoreInv'
    OBVIOUS
  <1>1. ASSUME NEW u \in Users, Handle(u) PROVE StoreInv'
    BY <1>1, JoinKeeps, ActKeeps, LeaveKeeps, SitOutKeeps, SitInKeeps, RebuyKeeps DEF Handle
  <1> QED
    BY <1>1, TurnTimeoutKeeps, StartHandKeeps, ProceedKeeps, CommitKeeps, RaiseKeeps,
       CrashKeeps, StutterKeeps DEF Next

\* So it holds in every state.
LEMMA StoreInvHolds == Spec => []StoreInv
  BY InitStoreInv, StepStoreInv, PTL DEF Spec

-----------------------------------------------------------------------------
(* With the lock free nothing is left to do *)

\* The third case, gone.
LEMMA NothingToDo == ASSUME Free, NEW x PROVE ~Has(todo, x)
  BY DEF Free, Has

\* However a hand ended, its summary is written or its write has failed.
THEOREM SummariesAreKept == Spec => []HandEndIsDurable
  <1>1. StoreInv => HandEndIsDurable
    BY NothingToDo DEF StoreInv, SummaryDue, HandEndIsDurable
  <1> QED
    BY <1>1, StoreInvHolds, PTL

\* The street a client's action has led to is in the snapshot.
THEOREM StreetsAreKept == Spec => []StreetPersisted
  <1>1. StoreInv => StreetPersisted
    BY NothingToDo DEF StoreInv, SnapshotDue, StreetPersisted
  <1> QED
    BY <1>1, StoreInvHolds, PTL

\* Two players who can play have a hand on its way.
THEOREM HandsAreLookedFor == Spec => []NextHandLookedFor
  <1>1. StoreInv => NextHandLookedFor
    BY NothingToDo DEF StoreInv, LookDue, NextHandLookedFor
  <1> QED
    BY <1>1, StoreInvHolds, PTL

\* Between hands the rows are the seats.
THEOREM SeatsAreKept == Spec => []RowsMatchSeats
  <1>1. StoreInv => RowsMatchSeats
    BY NothingToDo DEF StoreInv, RowsDue, RowsMatchSeats
  <1> QED
    BY <1>1, StoreInvHolds, PTL

\* Who has left leaves no row behind.
THEOREM RowsAreRemoved == Spec => []NoGhostRow
  <1>1. StoreInv => NoGhostRow
    BY NothingToDo DEF StoreInv, DeletionDue, NoGhostRow
  <1> QED
    BY <1>1, StoreInvHolds, PTL

\* The state, the steps that are left and the rows have their types, whatever
\* failed or crashed: no step is left for somebody who is no user, and every
\* row is of a user and of a hand that was started.
THEOREM TypesAreKept == Spec => []TypeOK
  <1>1. Init => pending \in BOOLEAN
    BY DEF Init
  <1>2. pending \in BOOLEAN /\ [Next]_vars => (pending \in BOOLEAN)'
    <2>1. ASSUME NEW u \in Users, Join(u) PROVE pending' = pending
      BY <2>1 DEF Join
    <2>2. ASSUME NEW u \in Users, Act(u) PROVE pending' = pending
      BY <2>2 DEF Act
    <2>3. ASSUME NEW u \in Users, Leave(u) PROVE pending' = pending
      BY <2>3 DEF Leave
    <2>4. ASSUME NEW u \in Users, SitOut(u) PROVE pending' = pending
      BY <2>4 DEF SitOut
    <2>5. ASSUME NEW u \in Users, SitIn(u) PROVE pending' = pending
      BY <2>5 DEF SitIn
    <2>6. ASSUME NEW u \in Users, Rebuy(u) PROVE pending' = pending
      BY <2>6 DEF Rebuy
    <2>7. ASSUME TurnTimeout PROVE pending' = pending
      BY <2>7 DEF TurnTimeout
    <2>8. ASSUME Commit PROVE pending' = pending
      BY <2>8 DEF Commit
    <2>9. ASSUME Raise PROVE pending' = pending
      BY <2>9 DEF Raise
    <2>10. ASSUME UNCHANGED vars PROVE pending' = pending
      BY <2>10 DEF vars
    <2>11. ASSUME StartHand PROVE pending' = FALSE
      BY <2>11 DEF StartHand
    <2>12. ASSUME Crash PROVE pending' = FALSE
      BY <2>12 DEF Crash
    <2>13. ASSUME Proceed PROVE pending' \in BOOLEAN
      BY <2>13 DEF Proceed
    <2> QED
      BY <2>1, <2>2, <2>3, <2>4, <2>5, <2>6, <2>7, <2>8, <2>9, <2>10, <2>11, <2>12, <2>13 DEF Next, Handle
  <1>3. StoreInv /\ pending \in BOOLEAN => TypeOK
    BY DEF StoreInv, TypesHold, TableOK, Ordered, TypeOK
  <1> QED
    BY <1>1, <1>2, <1>3, StoreInvHolds, PTL DEF Spec
=============================================================================
