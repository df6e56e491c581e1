-------------------------------- MODULE Escrow -------------------------------
(***************************************************************************)
(* What transfers between users promise: the amount leaves the sender when *)
(* the transfer is made and is then handed to exactly one of the two, once.*)
(***************************************************************************)
EXTENDS Naturals

CONSTANTS Parties, Ids, Amounts, Gift

VARIABLES
  purse,  \* purse[p]: what p can spend
  known,  \* parties that have spent or received: the gift is for the others
  held    \* held[i]: the transfer i: none, held, paid or returned

NoDeal == [stage |-> "none", from |-> "none", to |-> "none", amount |-> 0]

Init ==
  /\ purse = [p \in Parties |-> 0] /\ known = {}
  /\ held = [i \in Ids |-> NoDeal]

GiftOf(p) == IF p \in known THEN 0 ELSE Gift

\* p looks at its purse.
Open(p) ==
  /\ p \notin known
  /\ purse' = [purse EXCEPT ![p] = @ + Gift] /\ known' = known \cup {p}
  /\ UNCHANGED held

Hold(i, p, q, n) ==
  /\ p # q /\ held[i].stage = "none" /\ purse[p] + GiftOf(p) >= n
  /\ purse' = [purse EXCEPT ![p] = @ + GiftOf(p) - n] /\ known' = known \cup {p}
  /\ held' = [held EXCEPT ![i] = [stage |-> "held", from |-> p, to |-> q, amount |-> n]]

Settle(i, p, stage) ==
  /\ held[i].stage = "held"
  /\ purse' = [purse EXCEPT ![p] = @ + held[i].amount] /\ known' = known \cup {p}
  /\ held' = [held EXCEPT ![i].stage = stage]

Next ==
  \/ \E p \in Parties : Open(p)
  \/ \E i \in Ids :
       \/ \E p, q \in Parties, n \in Amounts : Hold(i, p, q, n)
       \/ Settle(i, held[i].to, "paid") \/ Settle(i, held[i].from, "returned")

escrowVars == <<purse, known, held>>

Spec == Init /\ [][Next]_escrowVars
=============================================================================
