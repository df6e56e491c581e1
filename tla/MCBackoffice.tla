---------------------------- MODULE MCBackoffice -----------------------------
EXTENDS Backoffice, TLC

CONSTANTS u1, u2, o1, o2, x1, x2, d1, d2, s1, s2, e1, e2

\* The values of trust events, in hundredths: a sanction, a value so small that the
\* column rounds its effect away, an adjustment of an admin.
MCWorths == {-2500, -3, 6000}

\* Near and far apart, so that the bonus of a shelf decides for some and not for others.
MCScore == <<10, 12, 40, 45, 50, 55, 60, 65, 70>>

\* Where requests overlap, what grows without end is cut off; a seeder of demo
\* data is cut off on the first days only.
MCSmall ==
  \/ /\ serial
     /\ part = "demo" => ~cut /\ (touched => now <= 1)
  \/ /\ ~serial
     /\ part = "accounts" => \A r \in Reports : reports[r] = "none"
     /\ part = "sessions" => Len(tokens) <= 3
     /\ part = "trust" => Cardinality(recorded) <= 2
     /\ part = "outreach" => \A u \in Users : replies[u] = 0

\* In every set of two, both at once.
Swap == (u1 :> u2) @@ (u2 :> u1) @@ (o1 :> o2) @@ (o2 :> o1) @@ (x1 :> x2) @@ (x2 :> x1)
        @@ (d1 :> d2) @@ (d2 :> d1) @@ (s1 :> s2) @@ (s2 :> s1) @@ (e1 :> e2) @@ (e2 :> e1)

MCSymmetry == Permutations(Members) \cup {Swap}
=============================================================================
