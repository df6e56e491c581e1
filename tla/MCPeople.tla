------------------------------ MODULE MCPeople -------------------------------
EXTENDS People, TLC

CONSTANTS u1, u2, a1, a2, t1, t2

\* Only two members come near the guild, and they follow it or consult it.
TwoAtTheGuild ==
  /\ follows = {} \/ consults = <<>>
  /\ \E u \in Members :
       /\ u \notin inside \cup follows /\ guildTx[u] = NoGuildTx
       /\ \A i \in DOMAIN consults : consults[i].asker # u

\* Where requests overlap, only two of the three members come near the club, with two
\* requests open at once; it is not hidden, and its conversation is replaced once.
TwoAtTheClub ==
  /\ club.count <= base + 2 /\ club.room <= 2 /\ club.status # "hidden"
  /\ \E u \in Members : seats[u] = NoSeat /\ chat[u] = "absent" /\ clubTx[u] = NoClubTx
  /\ Cardinality({u \in DOMAIN clubTx : clubTx[u] # NoClubTx}) <= 2

\* Where requests overlap, counters that drift and what grows without end are cut off.
MCSmall ==
  \/ serial /\ (part = "guilds" => TwoAtTheGuild)
  \/ /\ part = "clubs" => TwoAtTheClub
     /\ part = "guilds" => TwoAtTheGuild /\ Len(consults) <= 1
     /\ part = "content" => item.count <= 3
     /\ part = "transfers" => call = "none" /\ \A u \in Users : purses[u].version <= 3

\* In every set of two, both at once.
Swap == (u1 :> u2) @@ (u2 :> u1) @@ (a1 :> a2) @@ (a2 :> a1) @@ (t1 :> t2) @@ (t2 :> t1)

MCSymmetry == Permutations(Members) \cup {Swap}
=============================================================================
