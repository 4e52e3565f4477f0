------------------------ MODULE MCIdentityProvider ------------------------
EXTENDS IdentityProvider, TLC

\* Two users, one of them with a phone and an unverified address.
CONSTANTS ua, ub, r1, r2, c1, c2, n1, n2
MCSymmetry == Permutations({r1, r2}) \cup Permutations({c1, c2}) \cup Permutations({n1, n2})
===========================================================================
