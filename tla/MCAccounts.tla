----------------------------- MODULE MCAccounts -----------------------------
EXTENDS Accounts, TLC
\* Requests differ by what they do, not by which of them does it.
AnySlot == Permutations(Slots)
\* BOUND: one code for the demo user's phone, next to the two for the new one
FewCodes == sent[AlicePhone] <= 1
=============================================================================
