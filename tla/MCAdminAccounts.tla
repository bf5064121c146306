---------------------------- MODULE MCAdminAccounts ----------------------------
\* Two backends, the seed's address and two more (interchangeable) ones.
EXTENDS AdminAccounts, TLC

CONSTANTS a, b, i1, i2

Alike == Permutations({a, b}) \cup Permutations({i1, i2})
=============================================================================
