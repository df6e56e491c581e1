------------------------------ MODULE MCRoster ------------------------------
EXTENDS ActivityRoster, TLC

\* Users and sessions are interchangeable.
MCSymmetry == Permutations(Users) \cup Permutations(Sessions)
=============================================================================
