----------------------------- MODULE MCCommerce -----------------------------
EXTENDS Commerce, TLC

\* Order ids, keys and client sessions are interchangeable in the safety runs.
MCSymmetry == Permutations(Orders) \cup Permutations(Clients) \cup Permutations(Keys)
=============================================================================
