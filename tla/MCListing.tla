----------------------------- MODULE MCListing -----------------------------
EXTENDS Listing, TLC

CONSTANTS u1, u2, u3

Symmetry == Permutations({u1, u2, u3} \ Admins)
=============================================================================
