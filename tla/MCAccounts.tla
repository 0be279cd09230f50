----------------------------- MODULE MCAccounts -----------------------------
(* A small instance of Accounts for TLC. *)
EXTENDS Accounts, TLC

CONSTANTS u1, n1, n2, e1, e2, gr, c1, c2, r1, r2

\* Requests, drawn names and channels may change places; the default name may not.
Alike == Permutations(Requests) \cup Permutations(UserNames) \cup Permutations(Channels)
=============================================================================
