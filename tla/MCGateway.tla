----------------------------- MODULE MCGateway ------------------------------
EXTENDS Gateway, TLC
CONSTANTS u1, u2, u3, s1, s2, s3, s4, s5
\* Two users who open two sockets each, one who opens one.
OwnerTwoTwoOne == s1 :> u1 @@ s2 :> u1 @@ s3 :> u2 @@ s4 :> u2 @@ s5 :> u3
\* One user who opens two sockets.
OwnerTwo == s1 :> u1 @@ s2 :> u1
=============================================================================
