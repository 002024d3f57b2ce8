------------------------------ MODULE MCSignIn ------------------------------
(* Two browsers, two accounts, two records, one outage or rotation.        *)
EXTENDS SignIn, TLC

CONSTANTS b1, b2, ann, bob, r1, r2

Symmetric == Permutations(Browser) \cup Permutations(Account) \cup Permutations(Record)
=============================================================================
