--------------------------- MODULE MCTableSession ---------------------------
EXTENDS TableSession
CONSTANTS u1, u2, u3
\* Users are told apart by their seats alone, and seats go to whoever asks: sound
\* for the runs of invariants.
AnyOrder == Permutations(Users)

\* Where the first timeout sits a player out (SitOutAfter is 1), how many he had
\* before makes no difference to what follows: states that differ in nothing else
\* are one.
AnyCount ==
    LET counted == [u \in Seated(g) |-> [g.players[u] EXCEPT !.timeouts = 0]]
    IN  <<[g EXCEPT !.players = counted], online, reserve, timer, pending, ledger, notes>>
=============================================================================
