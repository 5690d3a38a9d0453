----------------------------- MODULE SeatLease ------------------------------
(***************************************************************************)
(* What connection-resilience promises of a seat, with no sockets, flags   *)
(* or timers: a seat is held by a connected player, reserved while he is   *)
(* away, and lapses (its player sits out) when the reserve runs out.  It   *)
(* never lapses under a connected player, is never reserved for somebody   *)
(* who did not hold it, and a player who comes back gets it back.          *)
(***************************************************************************)
EXTENDS Integers, FiniteSets

CONSTANTS
    Users,     \* those who may sit
    Capacity   \* how many may sit at a time

VARIABLE lease \* "free", "held", "reserved" or "lapsed", for each user

Taken == {u \in Users : lease[u] # "free"}

Init == lease = [u \in Users |-> "free"]

Becomes(u, from, to) ==
    /\ lease[u] \in from
    /\ lease' = [lease EXCEPT ![u] = to]

Take(u) == Cardinality(Taken) < Capacity /\ Becomes(u, {"free"}, "held")
Drop(u) == Becomes(u, {"held"}, "reserved")
Return(u) == Becomes(u, {"reserved", "lapsed"}, "held")
Lapse(u) == Becomes(u, {"reserved"}, "lapsed")
Release(u) == Becomes(u, {"held", "reserved", "lapsed"}, "free")

Next == \E u \in Users : Take(u) \/ Drop(u) \/ Return(u) \/ Lapse(u) \/ Release(u)

Spec == Init /\ [][Next]_lease
=============================================================================
