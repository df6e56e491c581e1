---------------------------- MODULE TransfersProofs ---------------------------
(***************************************************************************)
(* Wallets and transfers are an escrow where requests do not overlap, for  *)
(* any users, transfers, amounts and welcome credit.  A commit pays what   *)
(* the request has read; that this is what the escrow pays holds because   *)
(* the purse and the transfer that the one open request has read are still *)
(* those of the tables (Grounded).  A purse stays a natural number however *)
(* requests overlap, since it is computed from the row that was looked at. *)
(***************************************************************************)
EXTENDS Transfers, TLAPS

USE TransfersAssumption, WelcomeAssumption

Deal == [status : {"none", "pending", "accepted", "cancelled"},
         from : Users \cup {"none"}, to : Users \cup {"none"}, amount : Nat]
MoneyRequest ==
  [op : {"idle", "create", "accept", "cancel", "answer"}, on : TransferIds \cup {"none"},
   with : Users \cup {"none"}, amount : Nat, purse : Account]

\* A purse of nobody is empty.
Empty(a) == ~a.exists => a.balance = 0

\* What an open request has checked before it began.
Checked(u) ==
  LET t == moneyTx[u] IN
  /\ Empty(t.purse)
  /\ t.op = "create" => /\ t.on \in TransferIds /\ t.with \in Users \ {u}
                        /\ t.amount \in Sums /\ Covers(t.purse, t.amount)
  /\ t.op \in {"accept", "cancel"} => t.on \in TransferIds

\* What an open request that nothing has overtaken rests on.
Grounded(u) ==
  LET t == moneyTx[u]  deal == transfers[t.on] IN
  /\ \A v \in Users \ {u} : moneyTx[v] = NoMoneyTx
  /\ t.purse = purses[u]
  /\ t.op = "create" => deal = NoTransfer
  /\ t.op = "accept" => deal.status = "pending" /\ deal.to = u /\ deal.amount = t.amount
  /\ t.op = "cancel" => deal.status = "pending" /\ deal.from = u /\ deal.amount = t.amount

TransfersInv ==
  /\ purses \in [Users -> Account]
  /\ transfers \in [TransferIds -> Deal]
  /\ moneyTx \in [Users -> MoneyRequest]
  /\ \A u \in Users : Empty(purses[u]) /\ Checked(u)
  /\ serial => \A u \in Users : moneyTx[u] # NoMoneyTx => Grounded(u)

LEMMA NoneIsTyped == NoMoneyTx \in MoneyRequest /\ NoTransfer \in Deal /\ Empty(NoAccount)
BY DEF NoMoneyTx, NoTransfer, NoAccount, Account, MoneyRequest, Deal, Empty

\* What somebody who has spent or received nothing can still get.
GiftFor(a, grant) == IF ~a.exists /\ grant THEN Welcome ELSE 0

\* The row that a request makes sure of: the gift is for a new one.
LEMMA EnsuredRow ==
  ASSUME NEW a \in Account, Empty(a), NEW grant \in BOOLEAN
  PROVE  /\ ensure_account(a, grant) \in Account /\ ensure_account(a, grant).exists
         /\ ensure_account(a, grant).balance = a.balance + GiftFor(a, grant)
<1>1. a.balance \in Nat BY DEF Account
<1>2. CASE a.exists
  <2>1. ensure_account(a, grant) = a BY <1>2 DEF ensure_account
  <2>2. GiftFor(a, grant) = 0 BY <1>2 DEF GiftFor
  <2> QED BY <1>1, <1>2, <2>1, <2>2
<1>3. CASE ~a.exists
  <2> DEFINE g == grant /\ Welcome > 0
  <2>1. ensure_account(a, grant) =
          [exists |-> TRUE, balance |-> IF g THEN Welcome ELSE 0,
           version |-> IF g THEN 1 ELSE 0]
    BY <1>3 DEF ensure_account, WelcomeDue
  <2>2. GiftFor(a, grant) = IF g THEN Welcome ELSE 0 BY <1>3 DEF GiftFor
  <2>3. a.balance = 0 BY <1>3 DEF Empty
  <2> HIDE DEF g
  <2>4. ensure_account(a, grant) \in Account /\ ensure_account(a, grant).exists
    BY <2>1 DEF Account
  <2>5. ensure_account(a, grant).balance = IF g THEN Welcome ELSE 0 BY <2>1
  <2> QED BY <2>2, <2>3, <2>4, <2>5
<1> QED BY <1>2, <1>3

\* A posting on a row that covers it.
LEMMA PostedRow ==
  ASSUME NEW b \in Account, b.exists, NEW d \in Int, b.balance + d >= 0
  PROVE  /\ Credit(b, d) \in Account /\ Credit(b, d).exists
         /\ Credit(b, d).balance = b.balance + d
<1> DEFINE x == b.balance + d
           y == b.version + 1
<1>1. x \in Nat /\ y \in Nat BY DEF Account
<1>2. Credit(b, d) = [b EXCEPT !.balance = x, !.version = y] BY DEF Credit
<1>3. x = b.balance + d OBVIOUS
<1> HIDE DEF x, y
<1>4. [b EXCEPT !.balance = x, !.version = y] \in Account BY <1>1 DEF Account
<1>5. [b EXCEPT !.balance = x, !.version = y].balance = x BY DEF Account
<1>6. [b EXCEPT !.balance = x, !.version = y].exists BY DEF Account
<1> QED BY <1>2, <1>3, <1>4, <1>5, <1>6

\* The purse after a charge and after a credit.
LEMMA AfterCharge ==
  ASSUME NEW a \in Account, Empty(a), NEW n \in Sums, Covers(a, n)
  PROVE  /\ AccountAfter(a, TRUE, 0 - n) \in Account
         /\ AccountAfter(a, TRUE, 0 - n).exists
         /\ AccountAfter(a, TRUE, 0 - n).balance = (a.balance + GiftFor(a, TRUE)) - n
         /\ a.balance + GiftFor(a, TRUE) >= n
<1> DEFINE base == ensure_account(a, TRUE)
           d == 0 - n
<1>1. n \in Nat /\ d \in Int /\ d # 0 /\ \A b \in Nat : b + d = b - n
  OBVIOUS
<1>2. base \in Account /\ base.exists /\ base.balance = a.balance + GiftFor(a, TRUE)
  BY EnsuredRow
<1>3. base.balance >= n BY DEF Covers
<1> HIDE DEF d
<1>4. AccountAfter(a, TRUE, d) = Credit(base, d) BY <1>1 DEF AccountAfter
<1> HIDE DEF base
<1>5. base.balance \in Nat BY <1>2 DEF Account
<1>6. base.balance + d = base.balance - n /\ base.balance + d >= 0
  BY <1>1, <1>3, <1>5
<1>7. /\ Credit(base, d) \in Account /\ Credit(base, d).exists
      /\ Credit(base, d).balance = base.balance + d
  BY <1>1, <1>2, <1>6, PostedRow
<1>8. /\ AccountAfter(a, TRUE, d) \in Account /\ AccountAfter(a, TRUE, d).exists
      /\ AccountAfter(a, TRUE, d).balance = (a.balance + GiftFor(a, TRUE)) - n
      /\ a.balance + GiftFor(a, TRUE) >= n
  <2>1. Credit(base, d).balance = (a.balance + GiftFor(a, TRUE)) - n
    BY <1>2, <1>6, <1>7
  <2>2. a.balance + GiftFor(a, TRUE) >= n BY <1>2, <1>3
  <2> QED BY <1>4, <1>7, <2>1, <2>2
<1> QED BY <1>8, Zenon DEF d

LEMMA AfterCredit ==
  ASSUME NEW a \in Account, Empty(a), NEW n \in Nat
  PROVE  /\ AccountAfter(a, FALSE, n) \in Account
         /\ AccountAfter(a, FALSE, n).exists
         /\ AccountAfter(a, FALSE, n).balance = a.balance + n
<1> DEFINE base == ensure_account(a, FALSE)
<1>1. a.balance \in Nat /\ a.balance + 0 = a.balance BY DEF Account
<1>2. GiftFor(a, FALSE) = 0 BY DEF GiftFor
<1>3. base \in Account /\ base.exists /\ base.balance = a.balance
  BY <1>1, <1>2, EnsuredRow
<1>4. AccountAfter(a, FALSE, n) = IF n = 0 THEN base ELSE Credit(base, n)
  BY DEF AccountAfter
<1> HIDE DEF base
<1>5. /\ Credit(base, n) \in Account /\ Credit(base, n).exists
      /\ Credit(base, n).balance = base.balance + n
  BY <1>1, <1>3, PostedRow
<1> QED BY <1>1, <1>3, <1>4, <1>5

\* A request that begins has read the rows as they are.
LEMMA BeginKeeps ==
  ASSUME TransfersInv, NEW u \in Users, NEW op \in {"create", "accept", "cancel", "answer"},
         NEW on \in TransferIds \cup {"none"}, NEW with \in Users \cup {"none"},
         NEW n \in Nat, BeginMoney(u, op, on, with, n),
         op = "create" => /\ on \in TransferIds /\ transfers[on] = NoTransfer
                          /\ with \in Users \ {u} /\ n \in Sums /\ Covers(purses[u], n),
         op \in {"accept", "cancel"} =>
           on \in TransferIds /\ transfers[on].status = "pending" /\ transfers[on].amount = n,
         op = "accept" => transfers[on].to = u,
         op = "cancel" => transfers[on].from = u
  PROVE  TransfersInv' /\ UNCHANGED <<serial, purses, transfers>>
<1> DEFINE t == [op |-> op, on |-> on, with |-> with, amount |-> n, purse |-> purses[u]]
<1>1. /\ moneyTx' = [moneyTx EXCEPT ![u] = t] /\ UNCHANGED <<serial, purses, transfers>>
      /\ serial => \A v \in Users : moneyTx[v] = NoMoneyTx
  <2>1. DOMAIN moneyTx = Users BY DEF TransfersInv
  <2> QED BY <2>1 DEF BeginMoney, MayBegin
<1>2. \A v \in Users : moneyTx'[v] = IF v = u THEN t ELSE moneyTx[v]
  BY <1>1 DEF TransfersInv
<1>3. moneyTx' \in [Users -> MoneyRequest]
  <2>1. t \in MoneyRequest BY DEF TransfersInv, MoneyRequest
  <2> QED BY <1>1, <2>1 DEF TransfersInv
<1>4. ASSUME NEW v \in Users PROVE Checked(v)'
  BY <1>1, <1>2 DEF TransfersInv, Checked, Covers, ensure_account, WelcomeDue, Empty
<1>5. ASSUME serial', NEW v \in Users, moneyTx'[v] # NoMoneyTx PROVE Grounded(v)'
  <2>1. v = u /\ moneyTx'[v] = t BY <1>1, <1>2, <1>5
  <2>2. \A w \in Users \ {v} : moneyTx'[w] = NoMoneyTx BY <1>1, <1>2, <1>5, <2>1
  <2> QED BY <1>1, <2>1, <2>2 DEF Grounded
<1> QED BY <1>1, <1>3, <1>4, <1>5 DEF TransfersInv, Empty

\* A request that ends, with the rows it leaves.
LEMMA EndKeeps ==
  ASSUME TransfersInv, NEW u \in Users, moneyTx[u] # NoMoneyTx, EndMoney(u), serial' = serial,
         purses' \in [Users -> Account], transfers' \in [TransferIds -> Deal],
         \A v \in Users : Empty(purses'[v])
  PROVE  TransfersInv'
<1>1. \A v \in Users : moneyTx'[v] = IF v = u THEN NoMoneyTx ELSE moneyTx[v]
  BY DEF EndMoney, TransfersInv
<1>2. moneyTx' \in [Users -> MoneyRequest] BY NoneIsTyped DEF EndMoney, TransfersInv
<1>3. ASSUME NEW v \in Users PROVE Checked(v)'
  <2>1. NoMoneyTx.op = "idle" /\ Empty(NoMoneyTx.purse) BY NoneIsTyped DEF NoMoneyTx
  <2> QED BY <1>1, <2>1 DEF TransfersInv, Checked, Covers, ensure_account, WelcomeDue, Empty
<1>4. ASSUME serial', NEW v \in Users PROVE moneyTx'[v] = NoMoneyTx
  BY <1>1, <1>4 DEF TransfersInv, Grounded
<1> QED BY <1>2, <1>3, <1>4 DEF TransfersInv, Empty

\* The escrow as the tables show it.
Purse == [u \in Users |-> purses[u].balance]
Known == {u \in Users : purses[u].exists}
Held == [i \in TransferIds |->
           [stage |-> Stage(transfers[i].status), from |-> transfers[i].from,
            to |-> transfers[i].to, amount |-> transfers[i].amount]]

\* A row that is written shows in one purse, or in one deal.
LEMMA PurseWritten ==
  ASSUME purses \in [Users -> Account], NEW u \in Users, NEW b \in Account, b.exists,
         purses' = [purses EXCEPT ![u] = b]
  PROVE  /\ Purse' = [Purse EXCEPT ![u] = b.balance] /\ Known' = Known \cup {u}
         /\ purses' \in [Users -> Account]
BY DEF Purse, Known

LEMMA DealWritten ==
  ASSUME transfers \in [TransferIds -> Deal], NEW i \in TransferIds, NEW d \in Deal,
         transfers' = [transfers EXCEPT ![i] = d]
  PROVE  /\ Held' = [Held EXCEPT ![i] = [stage |-> Stage(d.status), from |-> d.from,
                                         to |-> d.to, amount |-> d.amount]]
         /\ transfers' \in [TransferIds -> Deal]
BY DEF Held

\* create_transfer holds the amount.
LEMMA CreateKeeps ==
  ASSUME TransfersInv, NEW u \in Users, CommitTransfer(u)
  PROVE  TransfersInv' /\ (serial => E!Next)
<1> DEFINE t == moneyTx[u]
           b == AccountAfter(t.purse, TRUE, 0 - t.amount)
           d == [status |-> "pending", from |-> u, to |-> t.with, amount |-> t.amount]
<1>1. /\ t.op = "create" /\ EndMoney(u) /\ serial' = serial /\ t # NoMoneyTx
      /\ purses' = [purses EXCEPT ![u] = b]
      /\ transfers' = [transfers EXCEPT ![t.on] = d]
  BY DEF CommitTransfer, NoMoneyTx
<1>2. /\ t.purse \in Account /\ Empty(t.purse) /\ t.on \in TransferIds
      /\ t.with \in Users \ {u} /\ t.amount \in Sums /\ Covers(t.purse, t.amount)
      /\ t.amount \in Nat
  BY <1>1 DEF TransfersInv, Checked, MoneyRequest
<1>3. /\ b \in Account /\ b.exists
      /\ b.balance = (t.purse.balance + GiftFor(t.purse, TRUE)) - t.amount
      /\ t.purse.balance + GiftFor(t.purse, TRUE) >= t.amount
  BY <1>2, AfterCharge
<1>4. d \in Deal BY <1>2 DEF Deal
<1> HIDE DEF b
<1>5. /\ Purse' = [Purse EXCEPT ![u] = b.balance] /\ Known' = Known \cup {u}
      /\ purses' \in [Users -> Account]
  BY <1>1, <1>3, PurseWritten DEF TransfersInv
<1>6. /\ Held' = [Held EXCEPT ![t.on] =
             [stage |-> "held", from |-> u, to |-> t.with, amount |-> t.amount]]
      /\ transfers' \in [TransferIds -> Deal]
  <2>1. Stage(d.status) = "held" BY DEF Stage
  <2> QED BY <1>1, <1>2, <1>4, <2>1, DealWritten DEF TransfersInv
<1>7. \A v \in Users : Empty(purses'[v]) BY <1>1, <1>3 DEF TransfersInv, Empty
<1>8. TransfersInv' BY <1>1, <1>5, <1>6, <1>7, EndKeeps
<1>9. ASSUME serial PROVE E!Hold(t.on, u, t.with, t.amount)
  <2>1. t.purse = purses[u] /\ transfers[t.on] = NoTransfer
    BY <1>1, <1>9 DEF TransfersInv, Grounded
  <2>2. Held[t.on].stage = "none" BY <1>2, <2>1 DEF Held, Stage, NoTransfer
  <2> DEFINE gift == IF u \in Known THEN 0 ELSE Welcome
  <2>3. GiftFor(t.purse, TRUE) = gift BY <2>1 DEF GiftFor, Known
  <2>4. Purse[u] = t.purse.balance /\ Purse[u] \in Nat /\ gift \in Nat
    BY <1>2, <2>1 DEF Purse, Account
  <2> HIDE DEF gift
  <2>5. Purse[u] + gift >= t.amount /\ b.balance = Purse[u] + gift - t.amount
    <3> DEFINE p == t.purse.balance
               n == t.amount
    <3>1. /\ p \in Nat /\ n \in Nat /\ gift \in Nat /\ Purse[u] = p
          /\ p + gift >= n /\ b.balance = (p + gift) - n
      BY <1>2, <1>3, <2>3, <2>4
    <3> HIDE DEF p, n
    <3>2. Purse[u] + gift >= n /\ b.balance = Purse[u] + gift - n BY <3>1
    <3> QED BY <3>2 DEF n
  <2>6. Purse' = [Purse EXCEPT ![u] = @ + gift - t.amount] BY <1>5, <2>5 DEF Purse
  <2> QED BY <1>2, <1>5, <1>6, <2>2, <2>5, <2>6
          DEF gift, E!Hold, E!GiftOf, Purse, Known, Held
<1>10. ASSUME serial PROVE E!Next
  <2>1. PICK i \in TransferIds, q \in Users, n \in Sums :
          i = t.on /\ q = t.with /\ n = t.amount
    BY <1>2
  <2>2. E!Hold(i, u, q, n) BY <1>9, <1>10, <2>1 DEF E!Hold
  <2> QED BY <2>1, <2>2 DEF E!Next
<1> QED BY <1>8, <1>10

\* accept_transfer and cancel_transfer hand it over, to the one or to the other.
LEMMA SettlementKeeps ==
  ASSUME TransfersInv, NEW u \in Users, CommitSettlement(u)
  PROVE  TransfersInv' /\ (serial => E!Next)
<1> DEFINE t == moneyTx[u]
           b == AccountAfter(t.purse, FALSE, t.amount)
           status == IF t.op = "accept" THEN "accepted" ELSE "cancelled"
           stage == IF t.op = "accept" THEN "paid" ELSE "returned"
           d == [transfers[t.on] EXCEPT !.status = status]
<1>1. /\ t.op \in {"accept", "cancel"} /\ EndMoney(u) /\ serial' = serial /\ t # NoMoneyTx
      /\ purses' = [purses EXCEPT ![u] = b]
      /\ transfers' = [transfers EXCEPT ![t.on] = d]
  BY DEF CommitSettlement, NoMoneyTx
<1>2. /\ t.purse \in Account /\ Empty(t.purse) /\ t.on \in TransferIds /\ t.amount \in Nat
      /\ transfers[t.on] \in Deal
  BY <1>1 DEF TransfersInv, Checked, MoneyRequest
<1>3. b \in Account /\ b.exists /\ b.balance = t.purse.balance + t.amount
  BY <1>2, AfterCredit
<1>4. /\ d \in Deal /\ d.from = transfers[t.on].from /\ d.to = transfers[t.on].to
      /\ d.amount = transfers[t.on].amount /\ Stage(d.status) = stage
  BY <1>2 DEF Deal, Stage
<1> HIDE DEF b, d
<1>5. /\ Purse' = [Purse EXCEPT ![u] = b.balance] /\ Known' = Known \cup {u}
      /\ purses' \in [Users -> Account]
  BY <1>1, <1>3, PurseWritten DEF TransfersInv
<1>6. /\ Held' = [Held EXCEPT ![t.on].stage = stage]
      /\ transfers' \in [TransferIds -> Deal]
  <2>1. /\ Held' = [Held EXCEPT ![t.on] = [stage |-> Stage(d.status), from |-> d.from,
                                           to |-> d.to, amount |-> d.amount]]
        /\ transfers' \in [TransferIds -> Deal]
    BY <1>1, <1>2, <1>4, DealWritten DEF TransfersInv
  <2>2. [Held[t.on] EXCEPT !.stage = stage] =
          [stage |-> stage, from |-> transfers[t.on].from,
           to |-> transfers[t.on].to, amount |-> transfers[t.on].amount]
    <3>1. Held[t.on] = [stage |-> Stage(transfers[t.on].status),
                        from |-> transfers[t.on].from, to |-> transfers[t.on].to,
                        amount |-> transfers[t.on].amount]
      BY <1>2 DEF Held
    <3> HIDE DEF stage
    <3> QED BY <3>1
  <2>3. [Held EXCEPT ![t.on].stage = stage] =
          [Held EXCEPT ![t.on] = [Held[t.on] EXCEPT !.stage = stage]]
    OBVIOUS
  <2> QED BY <1>4, <2>1, <2>2, <2>3
<1>7. \A v \in Users : Empty(purses'[v]) BY <1>1, <1>3 DEF TransfersInv, Empty
<1>8. TransfersInv' BY <1>1, <1>5, <1>6, <1>7, EndKeeps
<1>9. ASSUME serial PROVE E!Settle(t.on, u, stage)
  <2>1. t.purse = purses[u] /\ transfers[t.on].status = "pending"
        /\ transfers[t.on].amount = t.amount
    BY <1>1, <1>9 DEF TransfersInv, Grounded
  <2>2. Held[t.on].stage = "held" /\ Held[t.on].amount = t.amount
    BY <1>2, <2>1 DEF Held, Stage
  <2>3. Purse' = [Purse EXCEPT ![u] = @ + Held[t.on].amount]
    BY <1>3, <1>5, <2>1, <2>2 DEF Purse
  <2> QED BY <1>5, <1>6, <2>2, <2>3 DEF E!Settle, Purse, Known, Held
<1>10. ASSUME serial
       PROVE  \/ u = Held[t.on].to /\ stage = "paid"
              \/ u = Held[t.on].from /\ stage = "returned"
  BY <1>1, <1>2, <1>10 DEF TransfersInv, Grounded, Held
<1> HIDE DEF stage
<1>11. ASSUME serial
       PROVE  \/ E!Settle(t.on, Held[t.on].to, "paid")
              \/ E!Settle(t.on, Held[t.on].from, "returned")
  BY <1>9, <1>10, <1>11 DEF E!Settle
<1>12. ASSUME serial PROVE E!Next
  <2>1. PICK i \in TransferIds : i = t.on BY <1>2
  <2>2. E!Settle(i, Held[i].to, "paid") \/ E!Settle(i, Held[i].from, "returned")
    BY <1>11, <1>12, <2>1 DEF E!Settle
  <2> QED BY <2>1, <2>2 DEF E!Next, Held
<1> QED BY <1>8, <1>12

\* A wallet is opened.
LEMMA OpenKeeps ==
  ASSUME TransfersInv, NEW u \in Users, OpenWallet(u)
  PROVE  TransfersInv' /\ E!Next
<1> DEFINE b == ensure_account(purses[u], TRUE)
<1>1. /\ ~purses[u].exists /\ purses' = [purses EXCEPT ![u] = b]
      /\ UNCHANGED <<serial, transfers, moneyTx>>
      /\ serial => \A v \in Users : moneyTx[v] = NoMoneyTx
  <2>1. DOMAIN moneyTx = Users BY DEF TransfersInv
  <2> QED BY <2>1 DEF OpenWallet, MayBegin
<1>2. purses[u] \in Account /\ Empty(purses[u]) BY DEF TransfersInv
<1>3. b \in Account /\ b.exists /\ b.balance = purses[u].balance + Welcome
  <2>1. GiftFor(purses[u], TRUE) = Welcome BY <1>1 DEF GiftFor
  <2> QED BY <1>2, <2>1, EnsuredRow
<1> HIDE DEF b
<1>4. /\ Purse' = [Purse EXCEPT ![u] = b.balance] /\ Known' = Known \cup {u}
      /\ purses' \in [Users -> Account]
  BY <1>1, <1>3, PurseWritten DEF TransfersInv
<1>5. TransfersInv'
  <2>1. \A v \in Users : Empty(purses'[v]) BY <1>1, <1>3 DEF TransfersInv, Empty
  <2>2. \A v \in Users : Checked(v)'
    BY <1>1 DEF TransfersInv, Checked, Covers, ensure_account, WelcomeDue, Empty
  <2> QED BY <1>1, <1>4, <2>1, <2>2 DEF TransfersInv, Empty
<1>6. E!Open(u)
  <2>1. u \notin Known BY <1>1 DEF Known
  <2>2. Purse' = [Purse EXCEPT ![u] = @ + Welcome] BY <1>3, <1>4 DEF Purse
  <2>3. Held' = Held BY <1>1 DEF Held
  <2> QED BY <1>4, <2>1, <2>2, <2>3 DEF E!Open, Purse, Known, Held
<1> QED BY <1>5, <1>6 DEF E!Next

\* Every step keeps the invariant; where requests do not overlap it is a step of
\* the escrow or one that the escrow does not see.
LEMMA TransfersStep ==
  ASSUME TransfersInv, [TransfersNext]_<<serial, blocks, transferVars>>
  PROVE  /\ TransfersInv'
         /\ serial => E!Next \/ UNCHANGED E!escrowVars
<1>1. ASSUME UNCHANGED <<purses, transfers>> PROVE UNCHANGED E!escrowVars
  BY <1>1 DEF E!escrowVars
<1>2. ASSUME UNCHANGED <<serial, purses, transfers, moneyTx>>
      PROVE  TransfersInv' /\ UNCHANGED E!escrowVars
  <2>1. TransfersInv'
    BY <1>2 DEF TransfersInv, Checked, Grounded, Covers, ensure_account, WelcomeDue, Empty
  <2> QED BY <1>1, <1>2, <2>1
<1>3. CASE UNCHANGED <<serial, blocks, transferVars>> BY <1>2, <1>3 DEF transferVars
<1>4. ASSUME NEW u \in Users, NEW v \in Users, NEW i \in TransferIds, NEW n \in Sums,
             BeginTransfer(u, v, i, n)
      PROVE  TransfersInv' /\ UNCHANGED E!escrowVars
  <2>1. n \in Nat OBVIOUS
  <2> QED BY <1>1, <1>4, <2>1, BeginKeeps DEF BeginTransfer
<1>5. ASSUME NEW u \in Users, NEW i \in TransferIds, BeginAcceptance(u, i)
      PROVE  TransfersInv' /\ UNCHANGED E!escrowVars
  <2>1. transfers[i].amount \in Nat BY DEF TransfersInv, Deal
  <2> QED BY <1>1, <1>5, <2>1, BeginKeeps DEF BeginAcceptance
<1>6. ASSUME NEW u \in Users, NEW i \in TransferIds, BeginCancellation(u, i)
      PROVE  TransfersInv' /\ UNCHANGED E!escrowVars
  <2>1. transfers[i].amount \in Nat BY DEF TransfersInv, Deal
  <2> QED BY <1>1, <1>6, <2>1, BeginKeeps DEF BeginCancellation, Revocable
<1>7. ASSUME NEW u \in Users, BeginAnswer(u)
      PROVE  TransfersInv' /\ UNCHANGED E!escrowVars
  BY <1>1, <1>7, BeginKeeps DEF BeginAnswer
<1>8. ASSUME NEW u \in Users, AbortMoney(u) \/ CommitAnswer(u)
      PROVE  TransfersInv' /\ UNCHANGED E!escrowVars
  <2>1. /\ moneyTx[u] # NoMoneyTx /\ EndMoney(u)
        /\ UNCHANGED <<serial, purses, transfers>>
    BY <1>8 DEF AbortMoney, CommitAnswer, NoMoneyTx
  <2> QED BY <1>1, <2>1, EndKeeps DEF TransfersInv
<1>9. ASSUME NEW u \in Users, StartCall(u) \/ HangUp(u)
      PROVE  TransfersInv' /\ UNCHANGED E!escrowVars
  BY <1>2, <1>9 DEF StartCall, HangUp
<1>10. ASSUME NEW i \in TransferIds, Expire(i)
       PROVE  TransfersInv' /\ UNCHANGED E!escrowVars
  BY <1>2, <1>10 DEF Expire
<1> QED
  BY <1>3, <1>4, <1>5, <1>6, <1>7, <1>8, <1>9, <1>10, OpenKeeps, CreateKeeps,
     SettlementKeeps DEF TransfersNext

LEMMA TransfersInitially ==
  ASSUME RequestsInit, TransfersInit
  PROVE  TransfersInv /\ E!Init
<1>1. TransfersInv
  <2>1. \A u \in Users : Checked(u)
    BY NoneIsTyped DEF TransfersInit, Checked, NoMoneyTx
  <2>2. NoAccount \in Account BY DEF NoAccount, Account
  <2> QED BY <2>1, <2>2, NoneIsTyped DEF TransfersInit, TransfersInv
<1>2. E!Init
  BY DEF TransfersInit, E!Init, E!NoDeal, NoAccount, NoTransfer, Stage
<1> QED BY <1>1, <1>2

\* create_transfer, accept_transfer and cancel_transfer implement the escrow as
\* long as requests do not overlap, for any users, transfers, amounts and gift.
THEOREM TransfersImplementEscrow == TransfersSpec => TransfersAreEscrow
<1>1. TransfersInv /\ [TransfersNext]_<<serial, blocks, transferVars>> => TransfersInv'
  BY TransfersStep
<1>2. TransfersInv /\ [TransfersNext]_<<serial, blocks, transferVars>> =>
        [serial => E!Next]_(E!escrowVars)
  BY TransfersStep
<1>3. RequestsInit /\ TransfersInit => TransfersInv /\ E!Init BY TransfersInitially
<1> QED BY <1>1, <1>2, <1>3, PTL DEF TransfersSpec, TransfersAreEscrow
===============================================================================
