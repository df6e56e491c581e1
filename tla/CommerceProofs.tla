--------------------------- MODULE CommerceProofs ---------------------------
(***************************************************************************)
(* Proofs about Commerce, for any users, orders, sessions, prices and      *)
(* bounds.  However the requests overlap: the rows stay well typed and the *)
(* wallet sound (IInv; a balance is a natural number only because a charge *)
(* is computed from the row its guard has looked at, so typing and         *)
(* soundness are proved together), who paid is heard and a settled order   *)
(* stays so (HeardInv), and the ledger says of every order what its        *)
(* payments and refunds say (BooksInv).  When one session serves all       *)
(* requests: the ledgers reconcile, nothing is left behind an order that   *)
(* is over, keys are unique (AloneInv), and what is refunded has been paid *)
(* (CoverInv).  Each invariant rests on the one before it.                 *)
(***************************************************************************)
EXTENDS Commerce, FiniteSetTheorems, TLAPS

\* The operations that work on an order they have found in the table.
OnOrder == {"pay", "cancel", "close", "notify_ok", "notify_fail", "refund",
            "complete", "reject"}

\* What an open transaction may rely on while others commit: its user and order
\* exist, and a charge it is about to post is covered by the row it holds.
GoodTx(t) ==
  /\ t.op \notin {"idle", "expire"} => t.row.user \in Users
  /\ t.op \in {"create", "topup"} => t.row.status \in OrderStatus
  /\ t.op \in {"pay", "topup"} => t.method \in Methods
  /\ t.op \in OnOrder => t.o \in Orders /\ orders[t.o].status # "absent"
  /\ \A o \in t.batch : orders[o].status # "absent"
  /\ t.holds /\ Charges(t) => Covers(t.acct, t.row.payable)

\* Every order has a user, and only orders in the table have refunds.
OrdersOwned ==
  \A o \in Orders :
    /\ orders[o].status # "absent" => orders[o].user \in Users
    /\ refunds[o] # <<>> => orders[o].status # "absent"

\* The welcome credit is posted with the account, and never to an old account.
WelcomeWithAccount ==
  \A u \in Users : /\ ledger[u].welcomes <= 1
                   /\ ~wallet[u].exists => ledger[u].welcomes = 0

\* The inductive invariant.
IInv ==
  /\ TypeOK
  /\ OrdersOwned
  /\ WelcomeWithAccount
  /\ \A s \in Sessions : GoodTx(tx[s])

USE CommerceAssumption, WelcomeAssumption

LEMMA IdleTyped == Idle \in Tx /\ NoOrder \in OrderRow
BY DEF Idle, Tx, NoOrder, OrderRow, Account, NoAccount, Ops

\* The invariant holds of the empty database.
LEMMA InitIInv == Init => IInv
<1> SUFFICES ASSUME Init PROVE IInv
  OBVIOUS
<1> USE DEF Init
<1>1. TypeOK
  BY IdleTyped DEF TypeOK, Account, NoAccount, Ledger, NoRows
<1>2. OrdersOwned
  BY DEF OrdersOwned, NoOrder
<1>3. WelcomeWithAccount
  BY DEF WelcomeWithAccount, NoRows
<1>4. \A s \in Sessions : GoodTx(tx[s])
  BY DEF GoodTx, Idle, OnOrder
<1> QED
  BY <1>1, <1>2, <1>3, <1>4 DEF IInv

\* A step that only opens or extends a transaction keeps the invariant when what
\* the transaction has read is good.
LEMMA TxStep ==
  ASSUME IInv, NEW s \in Sessions, NEW t \in Tx, GoodTx(t),
         tx' = [tx EXCEPT ![s] = t], UNCHANGED db
  PROVE  IInv'
<1>2. TypeOK'
  BY DEF IInv, TypeOK, db
<1>3. OrdersOwned' /\ WelcomeWithAccount'
  BY DEF IInv, OrdersOwned, WelcomeWithAccount, db
<1>4. ASSUME NEW r \in Sessions PROVE GoodTx(tx[r])'
  <2>1. UNCHANGED orders /\ tx' \in [Sessions -> Tx] /\ tx'[r] = IF r = s THEN t ELSE tx[r]
    BY DEF IInv, TypeOK, db
  <2>2. GoodTx(tx'[r])
    BY <2>1 DEF IInv
  <2> QED
    BY <2>1, <2>2 DEF GoodTx, Charges, Covers, ensure_account, WelcomeDue
<1> QED
  BY <1>2, <1>3, <1>4 DEF IInv

LEMMA BeginStep ==
  ASSUME IInv, NEW s \in Sessions, NEW t \in Tx, GoodTx(t), Begin(s, t)
  PROVE  IInv'
BY TxStep DEF Begin

\* Requests on an order: each reads rows that exist.
LEMMA BeginOnOrderStep ==
  ASSUME IInv, NEW s \in Sessions, NEW o \in Orders, BeginOnOrder(s, o)
  PROVE  IInv'
<1> USE DEF GoodTx, OnOrder, Charges
<1>t. /\ orders[o] \in OrderRow /\ (orders[o].status # "absent" => orders[o].user \in Users)
      /\ orders[o].payable \in Nat
      /\ \A i \in DOMAIN refunds[o] : i \in Nat /\ refunds[o][i].cents \in Nat
      /\ \A i \in DOMAIN payments[o] : i \in Nat
      /\ (refunds[o] # <<>> => orders[o].status # "absent")
  <2>1. orders[o] \in OrderRow
    BY DEF IInv, TypeOK
  <2>2. /\ orders[o].status # "absent" => orders[o].user \in Users
        /\ refunds[o] # <<>> => orders[o].status # "absent"
    BY DEF IInv, OrdersOwned
  <2>3. \A i \in DOMAIN refunds[o] : i \in Nat /\ refunds[o][i].cents \in Nat
    <3> DEFINE R == [cents : Nat, status : {"submitted", "completed", "rejected"}]
    <3>1. refunds[o] \in Seq(R)
      BY DEF IInv, TypeOK
    <3>2. \A i \in DOMAIN refunds[o] : i \in Nat /\ refunds[o][i] \in R
      <4> HIDE DEF R
      <4> QED
        BY <3>1
    <3> QED
      BY <3>2
  <2>4. \A i \in DOMAIN payments[o] : i \in Nat
    <3>1. payments[o] \in Seq([method : Methods, status : {"pending", "succeeded", "failed"}])
      BY DEF IInv, TypeOK
    <3> QED
      BY <3>1
  <2>5. orders[o].payable \in Nat
    BY <2>1 DEF OrderRow
  <2> QED
    BY <2>1, <2>2, <2>3, <2>4, <2>5
<1>1. ASSUME NEW u \in Users, NEW kind \in Kinds, NEW p \in Prices,
             NEW k \in Keys \cup {NoKey}, BeginCreate(s, o, u, kind, p, k)
      PROVE  IInv'
  <2> DEFINE t == [Idle EXCEPT !.op = "create", !.o = o, !.row = NewOrder(u, kind, p, k)]
  <2>1. NewOrder(u, kind, p, k) \in OrderRow
    BY DEF NewOrder, OrderRow, OrderStatus, Methods
  <2>2. t \in Tx
    BY <2>1, IdleTyped DEF Tx, Idle, Ops
  <2>3. GoodTx(t)
    BY DEF Idle, NewOrder, OrderStatus
  <2> QED
    BY <1>1, <2>2, <2>3, BeginStep DEF BeginCreate
<1>2. ASSUME NEW u \in Users, NEW p \in Prices, NEW k \in Keys \cup {NoKey},
             NEW m \in Channels, BeginTopup(s, o, u, p, k, m)
      PROVE  IInv'
  <2> DEFINE t == [Idle EXCEPT !.op = "topup", !.o = o, !.method = m,
                               !.row = NewOrder(u, "wallet_topup", p, k)]
  <2>1. NewOrder(u, "wallet_topup", p, k) \in OrderRow
    BY DEF NewOrder, OrderRow, OrderStatus, Methods
  <2>2. t \in Tx
    BY <2>1, IdleTyped DEF Tx, Idle, Ops, Methods
  <2>3. GoodTx(t)
    BY DEF Idle, NewOrder, OrderStatus, Methods
  <2> QED
    BY <1>2, <2>2, <2>3, BeginStep DEF BeginTopup
<1>3. ASSUME NEW m \in Methods, BeginPay(s, o, m) PROVE IInv'
  <2> DEFINE t == [Idle EXCEPT !.op = "pay", !.o = o, !.method = m, !.row = orders[o]]
  <2>1. t \in Tx
    BY <1>t, IdleTyped DEF Tx, Idle, Ops
  <2>2. GoodTx(t)
    BY <1>3, <1>t DEF Idle, BeginPay, PAYABLE_STATUSES
  <2> QED
    BY <1>3, <2>1, <2>2, BeginStep DEF BeginPay
<1>4. CASE BeginCancel(s, o)
  <2> DEFINE t == [Idle EXCEPT !.op = "cancel", !.o = o, !.row = orders[o]]
  <2>1. t \in Tx
    BY <1>t, IdleTyped DEF Tx, Idle, Ops
  <2>2. GoodTx(t)
    BY <1>4, <1>t DEF Idle, BeginCancel, PAYABLE_STATUSES
  <2> QED
    BY <1>4, <2>1, <2>2, BeginStep DEF BeginCancel
<1>5. CASE BeginClose(s, o)
  <2> DEFINE t == [Idle EXCEPT !.op = "close", !.o = o, !.row = orders[o]]
  <2>1. t \in Tx
    BY <1>t, IdleTyped DEF Tx, Idle, Ops
  <2>2. GoodTx(t)
    BY <1>5, <1>t DEF Idle, BeginClose, OrderStatus
  <2> QED
    BY <1>5, <2>1, <2>2, BeginStep DEF BeginClose
<1>6. ASSUME NEW m \in Channels, NEW success \in BOOLEAN, BeginNotify(s, o, m, success)
      PROVE  IInv'
  <2> DEFINE op == IF success THEN "notify_ok" ELSE "notify_fail"
  <2>1. op \in {"notify_ok", "notify_fail"}
    OBVIOUS
  <2> PICK i \in RowsOfTxn(o, m) :
        Begin(s, [Idle EXCEPT !.op = op, !.o = o, !.idx = i, !.row = orders[o]])
    BY <1>6 DEF BeginNotify
  <2>i. i \in Nat
    BY <1>t DEF RowsOfTxn
  <2> HIDE DEF op
  <2> DEFINE t == [Idle EXCEPT !.op = op, !.o = o, !.idx = i, !.row = orders[o]]
  <2>2. t \in Tx
    BY <1>t, <2>1, <2>i, IdleTyped DEF Tx, Idle, Ops
  <2>3. GoodTx(t)
    BY <1>6, <1>t, <2>1 DEF Idle, BeginNotify, OrderStatus
  <2>4. Begin(s, t)
    OBVIOUS
  <2> QED
    BY <2>2, <2>3, <2>4, BeginStep
<1>7. ASSUME NEW cents \in 1 .. orders[o].payable, BeginRefund(s, o, cents) PROVE IInv'
  <2> DEFINE t == [Idle EXCEPT !.op = "refund", !.o = o, !.cents = cents, !.row = orders[o]]
  <2>0. cents \in Nat
    BY <1>t
  <2>1. t \in Tx
    BY <1>t, <2>0, IdleTyped DEF Tx, Idle, Ops
  <2>2. GoodTx(t)
    BY <1>7, <1>t DEF Idle, BeginRefund, REFUNDABLE
  <2> QED
    BY <1>7, <2>1, <2>2, BeginStep DEF BeginRefund
<1>8. ASSUME NEW i \in DOMAIN refunds[o], NEW op \in {"complete", "reject"},
             BeginProcess(s, o, i, op)
      PROVE  IInv'
  <2> DEFINE t == [Idle EXCEPT !.op = op, !.o = o, !.idx = i,
                               !.cents = refunds[o][i].cents, !.row = orders[o]]
  <2>1. t \in Tx
    BY <1>t, IdleTyped DEF Tx, Idle, Ops
  <2>2. refunds[o] # <<>>
    BY <1>8
  <2>3. GoodTx(t)
    BY <1>8, <1>t, <2>2 DEF Idle
  <2> QED
    BY <1>8, <2>1, <2>3, BeginStep DEF BeginProcess
<1> QED
  BY <1>1, <1>2, <1>3, <1>4, <1>5, <1>6, <1>7, <1>8 DEF BeginOnOrder

\* The requests on a wallet and the run of the cron.
LEMMA BeginOtherStep ==
  ASSUME IInv, NEW s \in Sessions
  PROVE  /\ \A u \in Users : BeginMyWallet(s, u) => IInv'
         /\ \A u \in Users, cents \in Prices \ {0} : BeginGrant(s, u, cents) => IInv'
         /\ BeginExpire(s) => IInv'
<1> USE DEF GoodTx, OnOrder, Charges
<1>1. ASSUME NEW u \in Users, NEW cents \in Nat,
             Begin(s, [Idle EXCEPT !.op = "grant", !.cents = cents,
                                   !.row = [NoOrder EXCEPT !.user = u]])
      PROVE  IInv'
  <2> DEFINE t == [Idle EXCEPT !.op = "grant", !.cents = cents, !.row = [NoOrder EXCEPT !.user = u]]
  <2>1. [NoOrder EXCEPT !.user = u] \in OrderRow
    BY DEF OrderRow, NoOrder
  <2>2. t \in Tx
    BY <2>1, IdleTyped DEF Tx, Idle, Ops
  <2>3. GoodTx(t)
    BY DEF Idle, NoOrder
  <2> QED
    BY <1>1, <2>2, <2>3, BeginStep
<1>2. ASSUME NEW u \in Users, BeginMyWallet(s, u) PROVE IInv'
  <2> DEFINE t == [Idle EXCEPT !.op = "my_wallet", !.row = [NoOrder EXCEPT !.user = u]]
  <2>1. [NoOrder EXCEPT !.user = u] \in OrderRow
    BY DEF OrderRow, NoOrder
  <2>2. t \in Tx
    BY <2>1, IdleTyped DEF Tx, Idle, Ops
  <2>3. GoodTx(t)
    BY DEF Idle, NoOrder
  <2> QED
    BY <1>2, <2>2, <2>3, BeginStep DEF BeginMyWallet
<1>3. ASSUME NEW u \in Users, NEW cents \in Prices \ {0}, BeginGrant(s, u, cents) PROVE IInv'
  BY <1>1, <1>3 DEF BeginGrant
<1>4. ASSUME BeginExpire(s) PROVE IInv'
  <2> DEFINE t == [Idle EXCEPT !.op = "expire", !.batch = DueOrders]
  <2>1. t \in Tx
    BY IdleTyped DEF Tx, Idle, Ops, DueOrders
  <2>2. GoodTx(t)
    BY DEF Idle, DueOrders, PAYABLE_STATUSES
  <2> QED
    BY <1>4, <2>1, <2>2, BeginStep DEF BeginExpire
<1> QED
  BY <1>2, <1>3, <1>4

\* While no order leaves the table, a session that ends its transaction leaves
\* those of the others as good as they were.
LEMMA EndStep ==
  ASSUME IInv, NEW s \in Sessions, tx' = [tx EXCEPT ![s] = Idle],
         \A o \in Orders : orders[o].status # "absent" => orders'[o].status # "absent"
  PROVE  tx' \in [Sessions -> Tx] /\ \A r \in Sessions : GoodTx(tx[r])'
<1>1. tx \in [Sessions -> Tx] /\ tx' \in [Sessions -> Tx]
  BY IdleTyped DEF IInv, TypeOK
<1>2. ASSUME NEW r \in Sessions PROVE GoodTx(tx[r])'
  <2>1. CASE r = s
    <3>1. tx'[r] = Idle
      BY <1>1, <2>1
    <3> QED
      BY <3>1 DEF GoodTx, Idle, OnOrder
  <2>2. CASE r # s
    <3>1. tx'[r] = tx[r]
      BY <1>1, <2>2
    <3>2. tx[r].batch \subseteq Orders
      BY <1>1 DEF Tx
    <3>3. GoodTx(tx[r])
      BY DEF IInv
    <3> QED
      BY <3>1, <3>2, <3>3 DEF GoodTx, Charges, Covers, ensure_account, WelcomeDue
  <2> QED
    BY <2>1, <2>2
<1> QED
  BY <1>1, <1>2

\* A transaction that is rolled back, and a deadline that passes.
LEMMA RollbackStep ==
  ASSUME IInv, NEW s \in Sessions, tx' = [tx EXCEPT ![s] = Idle], UNCHANGED db
  PROVE  IInv'
<1>1. tx' \in [Sessions -> Tx] /\ \A r \in Sessions : GoodTx(tx[r])'
  BY EndStep DEF db
<1>2. TypeOK'
  BY <1>1 DEF IInv, TypeOK, db
<1>3. OrdersOwned' /\ WelcomeWithAccount'
  BY DEF IInv, OrdersOwned, WelcomeWithAccount, db
<1> QED
  BY <1>1, <1>2, <1>3 DEF IInv

LEMMA DeadlineStep ==
  ASSUME IInv, NEW o \in Orders, PassDeadline(o)
  PROVE  IInv'
<1> USE DEF PassDeadline
<1>1. TypeOK'
  BY DEF IInv, TypeOK
<1>2. OrdersOwned' /\ WelcomeWithAccount'
  BY DEF IInv, OrdersOwned, WelcomeWithAccount
<1>3. \A r \in Sessions : GoodTx(tx[r])'
  BY DEF IInv, GoodTx, Charges, Covers, ensure_account, WelcomeDue
<1> QED
  BY <1>1, <1>2, <1>3 DEF IInv

\* Reading the account: the row that is held is the row the guard looked at.
LEMMA ReadStep ==
  ASSUME IInv, NEW s \in Sessions, ReadAccount(s)
  PROVE  IInv'
<1> DEFINE t == tx[s]
           n == [t EXCEPT !.acct = wallet[t.row.user], !.holds = TRUE]
<1>1. t \in Tx /\ GoodTx(t) /\ NeedsAccount(t) /\ UNCHANGED db
  BY DEF IInv, TypeOK, ReadAccount
<1>2. t.op \notin {"idle", "expire"}
  BY <1>1 DEF NeedsAccount, AutoRefund
<1>3. t.row.user \in Users
  BY <1>1, <1>2 DEF GoodTx
<1>4. wallet[t.row.user] \in Account
  BY <1>3 DEF IInv, TypeOK
<1>5. n \in Tx
  BY <1>1, <1>4 DEF Tx
<1>6. /\ n.op = t.op /\ n.o = t.o /\ n.row = t.row /\ n.method = t.method
      /\ n.batch = t.batch /\ n.acct = wallet[t.row.user]
  BY <1>1 DEF Tx
<1>7. Charges(t) => Covers(wallet[t.row.user], t.row.payable)
  BY DEF ReadAccount
<1>8. GoodTx(n)
  BY <1>1, <1>6, <1>7 DEF GoodTx, Charges
<1>9. tx' = [tx EXCEPT ![s] = n]
  BY DEF ReadAccount, IInv, TypeOK
<1>10. PICK m \in Tx : m = n
  BY <1>5
<1> HIDE DEF n
<1>11. GoodTx(m) /\ tx' = [tx EXCEPT ![s] = m]
  BY <1>8, <1>9, <1>10
<1> QED
  BY <1>1, <1>11, TxStep

\* What the operators of Wallet return: a row whose balance stays natural when
\* the posting is covered, and one welcome credit at most, with a new row only.
LEMMA AccountAfterTyped ==
  ASSUME NEW acct \in Account, NEW grant \in BOOLEAN, NEW delta \in Int,
         ensure_account(acct, grant).balance + delta >= 0
  PROVE  /\ AccountAfter(acct, grant, delta) \in Account
         /\ AccountAfter(acct, grant, delta).exists
<1> DEFINE base == ensure_account(acct, grant)
<1>1. base \in Account /\ base.exists
  BY DEF ensure_account, Account
<1> HIDE DEF base
<1>2. ensure_account(acct, grant) = base
  BY DEF base
<1>3. base.balance + delta \in Nat /\ base.version + 1 \in Nat
  BY <1>1, <1>2 DEF Account
<1>4. Credit(base, delta) \in Account
  <2> DEFINE x == base.balance + delta
             y == base.version + 1
  <2>1. Credit(base, delta) = [base EXCEPT !.balance = x, !.version = y]
    BY DEF Credit
  <2>2. x \in Nat /\ y \in Nat
    BY <1>3
  <2> HIDE DEF x, y
  <2>3. [base EXCEPT !.balance = x, !.version = y] \in Account
    BY <1>1, <2>2 DEF Account
  <2> QED
    BY <2>1, <2>3
<1>5. Credit(base, delta).exists
  BY <1>1 DEF Credit, Account
<1> QED
  BY <1>1, <1>2, <1>4, <1>5 DEF AccountAfter

LEMMA LedgerAfterTyped ==
  ASSUME NEW led \in Ledger, NEW acct \in Account, NEW grant \in BOOLEAN, NEW delta \in Int
  PROVE  /\ LedgerAfter(led, acct, grant, delta) \in Ledger
         /\ LedgerAfter(led, acct, grant, delta).welcomes =
              led.welcomes + (IF WelcomeDue(acct, grant) THEN 1 ELSE 0)
<1> DEFINE w == IF WelcomeDue(acct, grant) THEN 1 ELSE 0
           d == IF delta = 0 THEN 0 ELSE 1
<1>1. w \in Nat /\ d \in Nat /\ w * Welcome \in Nat
  OBVIOUS
<1> HIDE DEF w, d
<1>2. LedgerAfter(led, acct, grant, delta) =
        [rows |-> led.rows + w + d, total |-> led.total + delta + w * Welcome,
         welcomes |-> led.welcomes + w]
  BY DEF LedgerAfter, w, d
<1>3. LedgerAfter(led, acct, grant, delta) \in Ledger
  BY <1>1, <1>2 DEF Ledger
<1> QED
  BY <1>2, <1>3 DEF w

\* What a request that touches the account posts is covered by the row it holds.
LEMMA DeltaCovered ==
  ASSUME IInv, NEW t \in Tx, GoodTx(t), NeedsAccount(t), t.holds
  PROVE  /\ Delta(t) \in Int /\ GrantsWelcome(t) \in BOOLEAN
         /\ ensure_account(t.acct, GrantsWelcome(t)).balance + Delta(t) >= 0
<1>1. t.acct \in Account /\ t.row.payable \in Nat /\ t.cents \in Nat
  BY DEF Tx, OrderRow
<1>2. GrantsWelcome(t) \in BOOLEAN
  BY DEF GrantsWelcome, Charges
<1>3. ensure_account(t.acct, GrantsWelcome(t)).balance \in Nat
  BY <1>1 DEF ensure_account, Account
<1>4. CASE Charges(t)
  <2>1. Delta(t) = - t.row.payable
    BY <1>4 DEF Delta
  <2>2. ensure_account(t.acct, GrantsWelcome(t)).balance = ensure_account(t.acct, TRUE).balance
    BY <1>4 DEF GrantsWelcome, ensure_account, WelcomeDue
  <2>3. ensure_account(t.acct, TRUE).balance >= t.row.payable
    BY <1>4 DEF GoodTx, Covers
  <2> DEFINE b == ensure_account(t.acct, GrantsWelcome(t)).balance
             p == t.row.payable
  <2>4. b \in Nat /\ p \in Nat /\ b >= p
    BY <1>1, <1>3, <2>2, <2>3
  <2> HIDE DEF b, p
  <2>5. b + (- p) >= 0 /\ - p \in Int
    BY <2>4
  <2> QED
    BY <1>2, <2>1, <2>5 DEF b, p
<1>5. CASE ~Charges(t)
  <2>1. Delta(t) \in Nat
    BY <1>1, <1>5 DEF Delta
  <2> QED
    BY <1>2, <1>3, <2>1
<1> QED
  BY <1>4, <1>5

\* Posting to the wallet: the row that is written was computed from a row that
\* covers the charge, and the welcome credit goes with a row nobody else wrote.
LEMMA PostStep ==
  ASSUME IInv, NEW t \in Tx, GoodTx(t), Post(t), t.op \notin {"idle", "expire"},
         NeedsAccount(t) => t.holds /\ (wallet[t.row.user].exists => t.acct.exists)
  PROVE  /\ wallet' \in [Users -> Account] /\ ledger' \in [Users -> Ledger]
         /\ booked' \in [Orders -> [charged : Nat, refunded : Nat]]
         /\ WelcomeWithAccount'
<1>t. /\ wallet \in [Users -> Account] /\ ledger \in [Users -> Ledger]
      /\ booked \in [Orders -> [charged : Nat, refunded : Nat]]
      /\ WelcomeWithAccount
  BY DEF IInv, TypeOK
<1>1. CASE ~NeedsAccount(t)
  BY <1>1, <1>t DEF Post, WelcomeWithAccount
<1>2. CASE NeedsAccount(t)
  <2> DEFINE u == t.row.user
             grant == GrantsWelcome(t)
             delta == Delta(t)
  <2>1. t.acct \in Account /\ t.row.payable \in Nat /\ t.cents \in Nat /\ u \in Users
    BY DEF Tx, OrderRow, GoodTx
  <2>2. delta \in Int /\ grant \in BOOLEAN /\ ensure_account(t.acct, grant).balance + delta >= 0
    BY <1>2, DeltaCovered
  <2> DEFINE acct == AccountAfter(t.acct, grant, delta)
             led == LedgerAfter(ledger[u], t.acct, grant, delta)
  <2>3. wallet' = [wallet EXCEPT ![u] = acct] /\ ledger' = [ledger EXCEPT ![u] = led]
    BY <1>2 DEF Post
  <2>4. booked' \in [Orders -> [charged : Nat, refunded : Nat]]
    <3> DEFINE c == IF Charges(t) THEN t.row.payable ELSE 0
               r == IF t.op \in {"refund", "complete"} THEN t.cents ELSE 0
    <3>1. c \in Nat /\ r \in Nat
      BY <2>1
    <3> HIDE DEF c, r
    <3>2. booked' = [o \in Orders |->
            IF o # t.o THEN booked[o]
            ELSE [charged |-> booked[o].charged + c, refunded |-> booked[o].refunded + r]]
      BY <1>2 DEF Post, c, r
    <3> QED
      BY <1>t, <3>1, <3>2
  <2>5. acct \in Account /\ acct.exists
    BY <2>1, <2>2, AccountAfterTyped
  <2>6. ledger[u] \in Ledger
    BY <1>t, <2>1
  <2>7. led \in Ledger
        /\ led.welcomes = ledger[u].welcomes + (IF WelcomeDue(t.acct, grant) THEN 1 ELSE 0)
    BY <2>1, <2>2, <2>6, LedgerAfterTyped
  <2> HIDE DEF acct, led, delta, grant
  <2>8. led.welcomes <= 1
    <3>1. ledger[u].welcomes \in Nat /\ ledger[u].welcomes <= 1
      BY <1>t, <2>1, <2>6 DEF WelcomeWithAccount, Ledger
    <3>2. WelcomeDue(t.acct, grant) => ledger[u].welcomes = 0
      BY <1>2, <1>t, <2>1 DEF WelcomeDue, WelcomeWithAccount
    <3> QED
      BY <2>7, <3>1, <3>2
  <2>9. wallet' \in [Users -> Account] /\ ledger' \in [Users -> Ledger]
    BY <1>t, <2>3, <2>5, <2>7
  <2>10. WelcomeWithAccount'
    <3> SUFFICES ASSUME NEW v \in Users
                 PROVE  /\ ledger'[v].welcomes <= 1
                        /\ ~wallet'[v].exists => ledger'[v].welcomes = 0
      BY DEF WelcomeWithAccount
    <3>1. CASE v = u
      BY <1>t, <2>3, <2>5, <2>8, <3>1
    <3>2. CASE v # u
      BY <1>t, <2>3, <3>2 DEF WelcomeWithAccount
    <3> QED
      BY <3>1, <3>2
  <2> QED
    BY <2>4, <2>9, <2>10
<1> QED
  BY <1>1, <1>2

\* The rows of the payments and refunds tables.
PaymentRow == [method : Methods, status : {"pending", "succeeded", "failed"}]
RefundRow == [cents : Nat, status : {"submitted", "completed", "rejected"}]

\* What a commit does to the orders: they stay typed and owned, and none is lost.
OrdersKept ==
  /\ orders' \in [Orders -> OrderRow]
  /\ \A o \in Orders : /\ orders[o].status # "absent" => orders'[o].status # "absent"
                       /\ orders'[o].status # "absent" => orders'[o].user \in Users

\* The payment rows stay typed.
PaymentsKept == payments' \in [Orders -> Seq(PaymentRow)]

\* The order and refund rows of a commit fit together.
RefundsKept ==
  /\ refunds' \in [Orders -> Seq(RefundRow)]
  /\ \A o \in Orders : refunds'[o] # <<>> => orders'[o].status # "absent"

WalletKept ==
  /\ wallet' \in [Users -> Account] /\ ledger' \in [Users -> Ledger]
  /\ booked' \in [Orders -> [charged : Nat, refunded : Nat]]
  /\ WelcomeWithAccount'

ServiceKept ==
  /\ active' \in [Orders -> Nat]
  /\ events' \in [Orders -> SUBSET {"ORDER_PAID", "ORDER_CANCELLED", "ORDER_REFUNDED"}]

\* A commit keeps the invariant when it keeps each of its parts.
LEMMA CommitStep ==
  ASSUME IInv, NEW s \in Sessions, tx' = [tx EXCEPT ![s] = Idle],
         UNCHANGED <<auto, due>>, OrdersKept, PaymentsKept, RefundsKept, WalletKept, ServiceKept
  PROVE  IInv'
<1>1. tx' \in [Sessions -> Tx] /\ \A r \in Sessions : GoodTx(tx[r])'
  BY EndStep DEF OrdersKept
<1>2. TypeOK'
  BY <1>1 DEF IInv, TypeOK, OrdersKept, PaymentsKept, RefundsKept, WalletKept,
              ServiceKept, PaymentRow, RefundRow
<1>3. OrdersOwned' /\ WelcomeWithAccount'
  BY DEF OrdersOwned, OrdersKept, RefundsKept, WalletKept
<1> QED
  BY <1>1, <1>2, <1>3 DEF IInv

\* What does not change is kept.
LEMMA UnchangedKept ==
  ASSUME IInv
  PROVE  /\ UNCHANGED orders => OrdersKept
         /\ UNCHANGED payments => PaymentsKept
         /\ UNCHANGED refunds /\ OrdersKept => RefundsKept
         /\ UNCHANGED <<wallet, ledger, booked>> => WalletKept
         /\ UNCHANGED <<active, events>> => ServiceKept
<1>1. UNCHANGED orders => OrdersKept
  BY DEF IInv, TypeOK, OrdersOwned, OrdersKept
<1>2. UNCHANGED payments => PaymentsKept
  BY DEF IInv, TypeOK, PaymentsKept, PaymentRow
<1>3. UNCHANGED refunds /\ OrdersKept => RefundsKept
  BY DEF IInv, TypeOK, OrdersOwned, OrdersKept, RefundsKept, RefundRow
<1>4. UNCHANGED <<wallet, ledger, booked>> => WalletKept
  BY DEF IInv, TypeOK, WelcomeWithAccount, WalletKept
<1>5. UNCHANGED <<active, events>> => ServiceKept
  BY DEF IInv, TypeOK, ServiceKept
<1> QED
  BY <1>1, <1>2, <1>3, <1>4, <1>5

\* A commit that updates an order's row, and one that inserts it.
LEMMA WriteOrderKept ==
  ASSUME IInv, NEW t \in Tx, t.o \in Orders, orders[t.o].status # "absent",
         NEW status \in OrderStatus, NEW method \in Methods \cup {"none"},
         WriteOrder(t, status, method)
  PROVE  OrdersKept
<1> DEFINE st == Written(orders[t.o].status, t.row.status, status)
           pm == Written(orders[t.o].pay_method, t.row.pay_method, method)
           row == [orders[t.o] EXCEPT !.status = st, !.pay_method = pm]
<1>1. orders \in [Orders -> OrderRow] /\ orders[t.o] \in OrderRow
      /\ \A o \in Orders : orders[o].status # "absent" => orders[o].user \in Users
  BY DEF IInv, TypeOK, OrdersOwned
<1>2. orders[t.o].status \in OrderStatus /\ orders[t.o].pay_method \in Methods \cup {"none"}
  BY <1>1 DEF OrderRow
<1>3. st \in OrderStatus /\ pm \in Methods \cup {"none"} /\ "absent" \notin OrderStatus
  BY <1>2 DEF Written, OrderStatus
<1>4. orders' = [orders EXCEPT ![t.o] = row]
  BY <1>1 DEF WriteOrder, OrderRow
<1> HIDE DEF st, pm
<1>5. row \in OrderRow /\ row.status = st /\ row.user = orders[t.o].user
  BY <1>1, <1>3 DEF OrderRow
<1> HIDE DEF row
<1> QED
  BY <1>1, <1>3, <1>4, <1>5 DEF OrdersKept

LEMMA InsertOrderKept ==
  ASSUME IInv, NEW o \in Orders \cup {"none"}, NEW row \in OrderRow, row.user \in Users,
         row.status \in OrderStatus, orders' = [orders EXCEPT ![o] = row]
  PROVE  OrdersKept
<1>1. orders \in [Orders -> OrderRow]
      /\ \A p \in Orders : orders[p].status # "absent" => orders[p].user \in Users
  BY DEF IInv, TypeOK, OrdersOwned
<1>2. row.status # "absent"
  BY DEF OrderStatus
<1> QED
  BY <1>1, <1>2 DEF OrdersKept

\* A commit that serves a paid order or takes the service back.
LEMMA ServiceStep ==
  ASSUME IInv, NEW t \in Tx, OnPaid(t) \/ OnRefunded(t)
  PROVE  ServiceKept
<1>1. active \in [Orders -> Nat]
      /\ events \in [Orders -> SUBSET {"ORDER_PAID", "ORDER_CANCELLED", "ORDER_REFUNDED"}]
  BY DEF IInv, TypeOK
<1>2. CASE OnPaid(t)
  BY <1>1, <1>2 DEF OnPaid, ServiceKept
<1>3. CASE OnRefunded(t)
  BY <1>1, <1>3 DEF OnRefunded, ServiceKept
<1> QED
  BY <1>2, <1>3

\* Updating the status of a row keeps a table's sequence of rows typed.
LEMMA StatusUpdated ==
  ASSUME NEW R, NEW q \in Seq(R), NEW i, NEW st,
         \A r \in R : [r EXCEPT !.status = st] \in R
  PROVE  [q EXCEPT ![i].status = st] \in Seq(R)
<1> DEFINE f == [q EXCEPT ![i].status = st]
<1>0. q \in [1 .. Len(q) -> R]
  OBVIOUS
<1>1. \A j \in 1 .. Len(q) : f[j] \in R
  BY <1>0
<1>2. f \in [1 .. Len(q) -> R]
  BY <1>0, <1>1
<1> HIDE DEF f
<1>3. f \in Seq(R)
  BY <1>2
<1> QED
  BY <1>3 DEF f

LEMMA RefundKept ==
  ASSUME IInv, NEW o \in Orders, orders[o].status # "absent", OrdersKept,
         NEW q \in Seq(RefundRow), refunds' = [refunds EXCEPT ![o] = q]
  PROVE  RefundsKept
<1>1. refunds \in [Orders -> Seq(RefundRow)]
      /\ \A p \in Orders : refunds[p] # <<>> => orders[p].status # "absent"
  BY DEF IInv, TypeOK, OrdersOwned, RefundRow
<1> QED
  BY <1>1 DEF OrdersKept, RefundsKept

\* A payment row that is appended, by a transaction on an order or for a new one.
LEMMA PaymentAppended ==
  ASSUME IInv, NEW o \in Orders \cup {"none"}, NEW m \in Methods,
         payments' = [payments EXCEPT ![o] = Append(@, NewPayment(m))]
  PROVE  PaymentsKept
<1> DEFINE row == NewPayment(m)
<1>1. payments \in [Orders -> Seq(PaymentRow)]
  BY DEF IInv, TypeOK, PaymentRow
<1>2. row \in PaymentRow
  BY DEF NewPayment, PaymentRow
<1> HIDE DEF row
<1>3. \A p \in Orders : Append(payments[p], row) \in Seq(PaymentRow)
  BY <1>1, <1>2
<1>4. payments' = [payments EXCEPT ![o] = Append(@, row)]
  BY DEF row
<1> QED
  BY <1>1, <1>3, <1>4 DEF PaymentsKept

\* A payment or refund row whose status is updated, and a refund row that is added.
LEMMA PaymentUpdated ==
  ASSUME IInv, NEW o \in Orders, NEW i, NEW st \in {"succeeded", "failed"},
         payments' = [payments EXCEPT ![o][i].status = st]
  PROVE  PaymentsKept
<1>1. payments \in [Orders -> Seq(PaymentRow)]
  BY DEF IInv, TypeOK, PaymentRow
<1>2. \A r \in PaymentRow : [r EXCEPT !.status = st] \in PaymentRow
  BY DEF PaymentRow
<1> DEFINE q == [payments[o] EXCEPT ![i].status = st]
<1>3. q \in Seq(PaymentRow)
  BY <1>1, <1>2, StatusUpdated
<1>4. payments' = [payments EXCEPT ![o] = q]
  BY <1>1
<1> HIDE DEF q
<1> QED
  BY <1>1, <1>3, <1>4 DEF PaymentsKept

LEMMA RefundUpdated ==
  ASSUME IInv, NEW o \in Orders, orders[o].status # "absent", OrdersKept,
         NEW i, NEW st \in {"completed", "rejected"},
         refunds' = [refunds EXCEPT ![o][i].status = st]
  PROVE  RefundsKept
<1>1. refunds \in [Orders -> Seq(RefundRow)]
  BY DEF IInv, TypeOK, RefundRow
<1>2. \A r \in RefundRow : [r EXCEPT !.status = st] \in RefundRow
  BY DEF RefundRow
<1> DEFINE q == [refunds[o] EXCEPT ![i].status = st]
<1>3. q \in Seq(RefundRow)
  BY <1>1, <1>2, StatusUpdated
<1>4. refunds' = [refunds EXCEPT ![o] = q]
  BY <1>1
<1> HIDE DEF q
<1> QED
  BY <1>3, <1>4, RefundKept

LEMMA RefundAppended ==
  ASSUME IInv, NEW o \in Orders, orders[o].status # "absent", OrdersKept,
         NEW row \in RefundRow, refunds' = [refunds EXCEPT ![o] = Append(@, row)]
  PROVE  RefundsKept
<1>1. refunds[o] \in Seq(RefundRow)
  BY DEF IInv, TypeOK, RefundRow
<1> DEFINE q == Append(refunds[o], row)
<1>2. q \in Seq(RefundRow) /\ refunds' = [refunds EXCEPT ![o] = q]
  BY <1>1
<1> HIDE DEF q
<1> QED
  BY <1>2, RefundKept

\* What a transaction that is ready to commit knows.
LEMMA ReadyStep ==
  ASSUME IInv, NEW s \in Sessions, NEW op \in Ops, Ready(s, op)
  PROVE  /\ tx' = [tx EXCEPT ![s] = Idle] /\ UNCHANGED auto
         /\ \E t \in Tx :
              /\ t = tx[s] /\ t.op = op /\ GoodTx(t)
              /\ NeedsAccount(t) => t.holds /\ (wallet[t.row.user].exists => t.acct.exists)
BY DEF IInv, TypeOK, Ready

\* The same, of a transaction on an order that it has found.
LEMMA ReadyOnOrder ==
  ASSUME IInv, NEW s \in Sessions, NEW op \in OnOrder, Ready(s, op)
  PROVE  \E t \in Tx :
           /\ t = tx[s] /\ t.op = op /\ GoodTx(t)
           /\ t.o \in Orders /\ orders[t.o].status # "absent"
           /\ t.row.pay_method \in Methods \cup {"none"} /\ t.cents \in Nat
           /\ NeedsAccount(t) => t.holds /\ (wallet[t.row.user].exists => t.acct.exists)
<1>1. op \in Ops
  BY DEF OnOrder, Ops
<1>2. PICK t \in Tx :
        /\ t = tx[s] /\ t.op = op /\ GoodTx(t)
        /\ NeedsAccount(t) => t.holds /\ (wallet[t.row.user].exists => t.acct.exists)
  BY <1>1, ReadyStep
<1>3. t.row.pay_method \in Methods \cup {"none"} /\ t.cents \in Nat
  BY DEF Tx, OrderRow
<1>4. t.o \in Orders /\ orders[t.o].status # "absent"
  BY <1>2 DEF GoodTx
<1> QED
  BY <1>2, <1>3, <1>4

LEMMA ReadyEnds ==
  ASSUME IInv, NEW s \in Sessions, NEW op \in Ops, Ready(s, op)
  PROVE  tx' = [tx EXCEPT ![s] = Idle] /\ UNCHANGED auto
BY DEF Ready

\* One lemma for each commit.
LEMMA CommitCreateStep ==
  ASSUME IInv, NEW s \in Sessions, CommitCreate(s)
  PROVE  IInv'
<1>r. Ready(s, "create")
  BY DEF CommitCreate
<1>1. PICK t \in Tx : t = tx[s] /\ t.op = "create" /\ GoodTx(t)
  BY <1>r, ReadyStep DEF Ops
<1>2. /\ t.row \in OrderRow /\ t.row.user \in Users /\ t.row.status \in OrderStatus
      /\ t.o \in Orders \cup {"none"}
  BY <1>1 DEF Tx, GoodTx
<1>3. OrdersKept /\ ServiceKept
  <2>1. CASE t.row.payable > 0
    <3>1. orders' = [orders EXCEPT ![t.o] = t.row] /\ UNCHANGED <<active, events>>
      BY <1>1, <2>1 DEF CommitCreate
    <3> QED
      BY <1>2, <3>1, InsertOrderKept, UnchangedKept
  <2>2. CASE ~(t.row.payable > 0)
    <3> DEFINE row == [t.row EXCEPT !.status = "paid"]
    <3>1. orders' = [orders EXCEPT ![t.o] = row]
      BY <1>1, <2>2 DEF CommitCreate
    <3>2. OnPaid(t)
      BY <1>1, <2>2 DEF CommitCreate, OnPaid
    <3>3. row \in OrderRow /\ row.user \in Users /\ row.status \in OrderStatus
      BY <1>2 DEF OrderRow, OrderStatus
    <3> HIDE DEF row
    <3> QED
      BY <1>2, <3>1, <3>2, <3>3, InsertOrderKept, ServiceStep
  <2> QED
    BY <2>1, <2>2
<1>4. UNCHANGED <<due, payments, refunds, wallet, ledger, booked>>
  BY DEF CommitCreate
<1> QED
  BY <1>r, <1>3, <1>4, ReadyStep, UnchangedKept, CommitStep DEF Ops

LEMMA CommitTopupStep ==
  ASSUME IInv, NEW s \in Sessions, CommitTopup(s)
  PROVE  IInv'
<1>r. Ready(s, "topup")
  BY DEF CommitTopup
<1>1. PICK t \in Tx : /\ t = tx[s] /\ t.op = "topup" /\ GoodTx(t)
                      /\ NeedsAccount(t) =>
                           t.holds /\ (wallet[t.row.user].exists => t.acct.exists)
  BY <1>r, ReadyStep DEF Ops
<1>2. /\ t.row \in OrderRow /\ t.row.user \in Users /\ t.row.status \in OrderStatus
      /\ t.o \in Orders \cup {"none"} /\ t.method \in Methods \cup {"none"}
  BY <1>1 DEF Tx, GoodTx
<1>3. WalletKept
  <2>1. Post(t)
    BY <1>1 DEF CommitTopup, Post
  <2> QED
    BY <1>1, <2>1, PostStep DEF WalletKept
<1>4. OrdersKept
  <2> DEFINE row == [t.row EXCEPT !.status = IF Immediate(t.method) THEN "paid" ELSE @,
                                  !.pay_method = t.method]
  <2>1. row \in OrderRow /\ row.user \in Users /\ row.status \in OrderStatus
    BY <1>2 DEF OrderRow, OrderStatus
  <2>2. orders' = [orders EXCEPT ![t.o] = row]
    BY <1>1 DEF CommitTopup
  <2> HIDE DEF row
  <2> QED
    BY <1>2, <2>1, <2>2, InsertOrderKept
<1>5. PaymentsKept
  BY <1>1, <1>2, PaymentAppended DEF CommitTopup, GoodTx
<1>6. ServiceKept
  <2>1. OnPaid(t) \/ UNCHANGED <<active, events>>
    BY <1>1 DEF CommitTopup, OnPaid
  <2> QED
    BY <2>1, ServiceStep, UnchangedKept
<1>7. UNCHANGED <<due, refunds>>
  BY DEF CommitTopup
<1> QED
  BY <1>r, <1>3, <1>4, <1>5, <1>6, <1>7, ReadyStep, UnchangedKept, CommitStep DEF Ops

LEMMA CommitPayStep ==
  ASSUME IInv, NEW s \in Sessions, CommitPay(s)
  PROVE  IInv'
<1>r. Ready(s, "pay")
  BY DEF CommitPay
<1>1. PICK t \in Tx : /\ t = tx[s] /\ t.op = "pay" /\ GoodTx(t)
                      /\ NeedsAccount(t) =>
                           t.holds /\ (wallet[t.row.user].exists => t.acct.exists)
  BY <1>r, ReadyStep DEF Ops
<1>2. t.o \in Orders /\ orders[t.o].status # "absent" /\ t.method \in Methods
  BY <1>1 DEF GoodTx, OnOrder
<1>3. WalletKept
  <2>1. Post(t)
    BY <1>1 DEF CommitPay, Post
  <2> QED
    BY <1>1, <2>1, PostStep DEF WalletKept
<1>4. OrdersKept
  <2>1. WriteOrder(t, "paid", t.method) \/ WriteOrder(t, "pending_payment", t.method)
    BY <1>1 DEF CommitPay, WriteOrder
  <2> QED
    BY <1>2, <2>1, WriteOrderKept DEF OrderStatus
<1>5. PaymentsKept
  BY <1>1, <1>2, PaymentAppended DEF CommitPay
<1>6. ServiceKept
  <2>1. OnPaid(t) \/ UNCHANGED <<active, events>>
    BY <1>1 DEF CommitPay, OnPaid
  <2> QED
    BY <2>1, ServiceStep, UnchangedKept
<1>7. UNCHANGED <<due, refunds>>
  BY DEF CommitPay
<1> QED
  BY <1>r, <1>3, <1>4, <1>5, <1>6, <1>7, ReadyStep, UnchangedKept, CommitStep DEF Ops

LEMMA CommitCancelStep ==
  ASSUME IInv, NEW s \in Sessions, CommitCancel(s)
  PROVE  IInv'
<1>r. Ready(s, "cancel")
  BY DEF CommitCancel
<1>1. PICK t \in Tx : /\ t = tx[s] /\ t.op = "cancel" /\ GoodTx(t)
                      /\ t.o \in Orders /\ orders[t.o].status # "absent"
                      /\ t.row.pay_method \in Methods \cup {"none"} /\ t.cents \in Nat
                      /\ NeedsAccount(t) =>
                           t.holds /\ (wallet[t.row.user].exists => t.acct.exists)
  BY <1>r, ReadyOnOrder DEF OnOrder
<1>2. OrdersKept
  <2>1. WriteOrder(t, "cancelled", t.row.pay_method)
    BY <1>1 DEF CommitCancel, WriteOrder
  <2> QED
    BY <1>1, <2>1, WriteOrderKept DEF OrderStatus
<1>3. ServiceKept
  BY DEF CommitCancel, IInv, TypeOK, ServiceKept
<1>6. UNCHANGED <<due, payments, refunds, wallet, ledger, booked>>
  BY DEF CommitCancel
<1> QED
  BY <1>r, <1>2, <1>3, <1>6, ReadyEnds, UnchangedKept, CommitStep DEF Ops

LEMMA CommitCloseStep ==
  ASSUME IInv, NEW s \in Sessions, CommitClose(s)
  PROVE  IInv'
<1>r. Ready(s, "close")
  BY DEF CommitClose
<1>1. PICK t \in Tx : /\ t = tx[s] /\ t.op = "close" /\ GoodTx(t)
                      /\ t.o \in Orders /\ orders[t.o].status # "absent"
                      /\ t.row.pay_method \in Methods \cup {"none"} /\ t.cents \in Nat
                      /\ NeedsAccount(t) =>
                           t.holds /\ (wallet[t.row.user].exists => t.acct.exists)
  BY <1>r, ReadyOnOrder DEF OnOrder
<1>2. OrdersKept
  <2>1. WriteOrder(t, "closed", t.row.pay_method)
    BY <1>1 DEF CommitClose, WriteOrder
  <2> QED
    BY <1>1, <2>1, WriteOrderKept DEF OrderStatus
<1>6. UNCHANGED <<due, payments, refunds, wallet, ledger, booked, active, events>>
  BY DEF CommitClose
<1> QED
  BY <1>r, <1>2, <1>6, ReadyEnds, UnchangedKept, CommitStep DEF Ops

LEMMA CommitExpireStep ==
  ASSUME IInv, NEW s \in Sessions, CommitExpire(s)
  PROVE  IInv'
<1>r. Ready(s, "expire")
  BY DEF CommitExpire
<1>1. PICK t \in Tx : t = tx[s] /\ GoodTx(t)
  BY <1>r, ReadyStep DEF Ops
<1>2. OrdersKept
  <2>1. orders \in [Orders -> OrderRow]
        /\ \A o \in Orders : orders[o].status # "absent" => orders[o].user \in Users
    BY DEF IInv, TypeOK, OrdersOwned
  <2>2. \A o \in t.batch : orders[o].status # "absent"
    BY <1>1 DEF GoodTx
  <2>3. orders' = [o \in Orders |->
          IF o \in t.batch THEN [orders[o] EXCEPT !.status = "cancelled"] ELSE orders[o]]
    BY <1>1 DEF CommitExpire
  <2>4. \A o \in Orders :
          /\ [orders[o] EXCEPT !.status = "cancelled"] \in OrderRow
          /\ [orders[o] EXCEPT !.status = "cancelled"].user = orders[o].user
    BY <2>1 DEF OrderRow, OrderStatus
  <2> QED
    BY <2>1, <2>2, <2>3, <2>4 DEF OrdersKept
<1>6. UNCHANGED <<due, payments, refunds, wallet, ledger, booked, active, events>>
  BY DEF CommitExpire
<1> QED
  BY <1>r, <1>2, <1>6, ReadyEnds, UnchangedKept, CommitStep DEF Ops

LEMMA CommitNotifyFailedStep ==
  ASSUME IInv, NEW s \in Sessions, CommitNotifyFailed(s)
  PROVE  IInv'
<1>r. Ready(s, "notify_fail")
  BY DEF CommitNotifyFailed
<1>1. PICK t \in Tx : /\ t = tx[s] /\ t.op = "notify_fail" /\ GoodTx(t)
                      /\ t.o \in Orders /\ orders[t.o].status # "absent"
                      /\ t.row.pay_method \in Methods \cup {"none"} /\ t.cents \in Nat
                      /\ NeedsAccount(t) =>
                           t.holds /\ (wallet[t.row.user].exists => t.acct.exists)
  BY <1>r, ReadyOnOrder DEF OnOrder
<1>2. PaymentsKept
  BY <1>1, PaymentUpdated DEF CommitNotifyFailed
<1>6. UNCHANGED <<orders, due, refunds, wallet, ledger, booked, active, events>>
  BY DEF CommitNotifyFailed
<1> QED
  BY <1>r, <1>2, <1>6, ReadyEnds, UnchangedKept, CommitStep DEF Ops

LEMMA CommitNotifyStep ==
  ASSUME IInv, NEW s \in Sessions, CommitNotify(s)
  PROVE  IInv'
<1>r. Ready(s, "notify_ok")
  BY DEF CommitNotify
<1>1. PICK t \in Tx : /\ t = tx[s] /\ t.op = "notify_ok" /\ GoodTx(t)
                      /\ t.o \in Orders /\ orders[t.o].status # "absent"
                      /\ t.row.pay_method \in Methods \cup {"none"} /\ t.cents \in Nat
                      /\ NeedsAccount(t) =>
                           t.holds /\ (wallet[t.row.user].exists => t.acct.exists)
  BY <1>r, ReadyOnOrder DEF OnOrder
<1>2. OrdersKept
  <2>1. WriteOrder(t, "paid", t.row.pay_method)
    BY <1>1 DEF CommitNotify, WriteOrder
  <2> QED
    BY <1>1, <2>1, WriteOrderKept DEF OrderStatus
<1>3. WalletKept
  <2>1. Post(t)
    BY <1>1 DEF CommitNotify, Post
  <2> QED
    BY <1>1, <2>1, PostStep DEF WalletKept
<1>4. ServiceKept
  <2>1. OnPaid(t)
    BY <1>1 DEF CommitNotify, OnPaid
  <2> QED
    BY <2>1, ServiceStep
<1>5. PaymentsKept
  BY <1>1, PaymentUpdated DEF CommitNotify
<1>6. UNCHANGED <<due, refunds>>
  BY DEF CommitNotify
<1> QED
  BY <1>r, <1>2, <1>3, <1>4, <1>5, <1>6, ReadyEnds, UnchangedKept, CommitStep DEF Ops

LEMMA CommitRefundStep ==
  ASSUME IInv, NEW s \in Sessions, CommitRefund(s)
  PROVE  IInv'
<1>r. Ready(s, "refund")
  BY DEF CommitRefund
<1>1. PICK t \in Tx : /\ t = tx[s] /\ t.op = "refund" /\ GoodTx(t)
                      /\ t.o \in Orders /\ orders[t.o].status # "absent"
                      /\ t.row.pay_method \in Methods \cup {"none"} /\ t.cents \in Nat
                      /\ NeedsAccount(t) =>
                           t.holds /\ (wallet[t.row.user].exists => t.acct.exists)
  BY <1>r, ReadyOnOrder DEF OnOrder
<1>2. OrdersKept
  <2>1. \/ WriteOrder(t, "refunded", t.row.pay_method)
        \/ WriteOrder(t, "refunding", t.row.pay_method)
    BY <1>1 DEF CommitRefund, WriteOrder
  <2> QED
    BY <1>1, <2>1, WriteOrderKept DEF OrderStatus
<1>3. WalletKept
  <2>1. Post(t)
    BY <1>1 DEF CommitRefund, Post
  <2> QED
    BY <1>1, <2>1, PostStep DEF WalletKept
<1>4. ServiceKept
  <2>1. OnRefunded(t) \/ UNCHANGED <<active, events>>
    BY <1>1 DEF CommitRefund, OnRefunded
  <2> QED
    BY <2>1, ServiceStep, UnchangedKept
<1>5. RefundsKept
  <2> DEFINE row == [cents |-> t.cents,
                     status |-> IF AutoRefund(t) THEN "completed" ELSE "submitted"]
  <2>1. row \in RefundRow
    BY <1>1 DEF RefundRow
  <2>2. refunds' = [refunds EXCEPT ![t.o] = Append(@, row)]
    BY <1>1 DEF CommitRefund
  <2> HIDE DEF row
  <2> QED
    BY <1>1, <1>2, <2>1, <2>2, RefundAppended
<1>6. UNCHANGED <<due, payments>>
  BY DEF CommitRefund
<1> QED
  BY <1>r, <1>2, <1>3, <1>4, <1>5, <1>6, ReadyEnds, UnchangedKept, CommitStep DEF Ops

LEMMA CommitRejectStep ==
  ASSUME IInv, NEW s \in Sessions, CommitReject(s)
  PROVE  IInv'
<1>r. Ready(s, "reject")
  BY DEF CommitReject
<1>1. PICK t \in Tx : /\ t = tx[s] /\ t.op = "reject" /\ GoodTx(t)
                      /\ t.o \in Orders /\ orders[t.o].status # "absent"
                      /\ t.row.pay_method \in Methods \cup {"none"} /\ t.cents \in Nat
                      /\ NeedsAccount(t) =>
                           t.holds /\ (wallet[t.row.user].exists => t.acct.exists)
  BY <1>r, ReadyOnOrder DEF OnOrder
<1>2. OrdersKept
  <2>1. WriteOrder(t, "paid", t.row.pay_method)
    BY <1>1 DEF CommitReject, WriteOrder
  <2> QED
    BY <1>1, <2>1, WriteOrderKept DEF OrderStatus
<1>5. RefundsKept
  BY <1>1, <1>2, RefundUpdated DEF CommitReject
<1>6. UNCHANGED <<due, payments, wallet, ledger, booked, active, events>>
  BY DEF CommitReject
<1> QED
  BY <1>r, <1>2, <1>5, <1>6, ReadyEnds, UnchangedKept, CommitStep DEF Ops

LEMMA CommitCompleteStep ==
  ASSUME IInv, NEW s \in Sessions, CommitComplete(s)
  PROVE  IInv'
<1>r. Ready(s, "complete")
  BY DEF CommitComplete
<1>1. PICK t \in Tx : /\ t = tx[s] /\ t.op = "complete" /\ GoodTx(t)
                      /\ t.o \in Orders /\ orders[t.o].status # "absent"
                      /\ t.row.pay_method \in Methods \cup {"none"} /\ t.cents \in Nat
                      /\ NeedsAccount(t) =>
                           t.holds /\ (wallet[t.row.user].exists => t.acct.exists)
  BY <1>r, ReadyOnOrder DEF OnOrder
<1>2. OrdersKept
  <2>1. WriteOrder(t, "refunded", t.row.pay_method)
    BY <1>1 DEF CommitComplete, WriteOrder
  <2> QED
    BY <1>1, <2>1, WriteOrderKept DEF OrderStatus
<1>3. WalletKept
  <2>1. Post(t)
    BY <1>1 DEF CommitComplete, Post
  <2> QED
    BY <1>1, <2>1, PostStep DEF WalletKept
<1>4. ServiceKept
  <2>1. OnRefunded(t)
    BY <1>1 DEF CommitComplete, OnRefunded
  <2> QED
    BY <2>1, ServiceStep
<1>5. RefundsKept
  BY <1>1, <1>2, RefundUpdated DEF CommitComplete
<1>6. UNCHANGED <<due, payments>>
  BY DEF CommitComplete
<1> QED
  BY <1>r, <1>2, <1>3, <1>4, <1>5, <1>6, ReadyEnds, UnchangedKept, CommitStep DEF Ops

LEMMA CommitWalletStep ==
  ASSUME IInv, NEW s \in Sessions, CommitWallet(s)
  PROVE  IInv'
<1>1. PICK op \in {"grant", "my_wallet"} : Ready(s, op)
  BY DEF CommitWallet
<1>2. op \in Ops
  BY DEF Ops
<1>3. PICK t \in Tx : /\ t = tx[s] /\ t.op = op /\ GoodTx(t)
                      /\ NeedsAccount(t) =>
                           t.holds /\ (wallet[t.row.user].exists => t.acct.exists)
  BY <1>1, <1>2, ReadyStep
<1>4. WalletKept
  <2>1. Post(t)
    BY <1>3 DEF CommitWallet, Post
  <2> QED
    BY <1>3, <2>1, PostStep DEF WalletKept
<1>5. UNCHANGED <<orders, due, payments, refunds, active, events>>
  BY DEF CommitWallet
<1> QED
  BY <1>1, <1>2, <1>4, <1>5, ReadyEnds, UnchangedKept, CommitStep

\* The invariant is inductive.
LEMMA NextIInv == IInv /\ [Next]_vars => IInv'
<1> SUFFICES ASSUME IInv, [Next]_vars PROVE IInv'
  OBVIOUS
<1> USE DEF Sessions
<1>1. ASSUME NEW s \in Clients, NEW o \in Orders, BeginOnOrder(s, o) PROVE IInv'
  BY <1>1, BeginOnOrderStep
<1>2. ASSUME NEW s \in Clients, NEW u \in Users, BeginMyWallet(s, u) PROVE IInv'
  BY <1>2, BeginOtherStep
<1>3. ASSUME NEW s \in Clients, NEW u \in Users, NEW cents \in Prices \ {0},
             BeginGrant(s, u, cents)
      PROVE  IInv'
  BY <1>3, BeginOtherStep
<1>4. ASSUME NEW s \in Workers, BeginExpire(s) PROVE IInv'
  BY <1>4, BeginOtherStep
<1>5. ASSUME NEW s \in Sessions, ReadAccount(s) PROVE IInv'
  BY <1>5, ReadStep
<1>6. ASSUME NEW s \in Sessions, Refused(s) \/ Crash(s) PROVE IInv'
  BY <1>6, RollbackStep DEF Refused, Crash
<1>7. ASSUME NEW s \in Sessions, Commit(s) PROVE IInv'
  BY <1>7, CommitCreateStep, CommitTopupStep, CommitPayStep, CommitCancelStep,
     CommitCloseStep, CommitExpireStep, CommitNotifyFailedStep, CommitNotifyStep,
     CommitRefundStep, CommitRejectStep, CommitCompleteStep, CommitWalletStep DEF Commit
<1>8. ASSUME NEW o \in Orders, PassDeadline(o) PROVE IInv'
  BY <1>8, DeadlineStep
<1>9. CASE UNCHANGED vars
  <2>1. UNCHANGED <<db, tx>>
    BY <1>9 DEF vars
  <2>2. TypeOK'
    BY <2>1 DEF IInv, TypeOK, db
  <2>3. OrdersOwned' /\ WelcomeWithAccount'
    BY <2>1 DEF IInv, OrdersOwned, WelcomeWithAccount, db
  <2>4. \A r \in Sessions : GoodTx(tx[r])'
    BY <2>1 DEF IInv, GoodTx, Charges, Covers, ensure_account, WelcomeDue, db
  <2> QED
    BY <2>2, <2>3, <2>4 DEF IInv
<1> QED
  BY <1>1, <1>2, <1>3, <1>4, <1>5, <1>6, <1>7, <1>8, <1>9 DEF Next

THEOREM InvariantHolds == Spec => []IInv
BY InitIInv, NextIInv, PTL DEF Spec

\* Every table stays well typed, whatever the requests, the overlaps and the
\* crashes; that a balance is a natural number needs the guard of charge.
THEOREM TypeCorrect == Spec => []TypeOK
<1>1. IInv => TypeOK
  BY DEF IInv
<1> QED
  BY <1>1, InvariantHolds, PTL

\* No balance is ever negative and no user is given the welcome credit twice,
\* however the charges, credits, refunds and grants of that user overlap.
THEOREM WalletStaysSound == Spec => []WalletSound
<1>1. IInv => WalletSound
  BY DEF IInv, TypeOK, WelcomeWithAccount, WalletSound, Account
<1> QED
  BY <1>1, InvariantHolds, PTL
-----------------------------------------------------------------------------
(* Who paid is heard, and an order that is over stays so, however the      *)
(* requests overlap.                                                       *)

Told(o) == "ORDER_PAID" \in events[o]
SettledStatus == {"paid", "refunding", "refunded"}

\* The requests that insert an order.
Inserts(t) == t.op \in {"create", "topup"}

\* What t has read and no commit takes back: a new order is nobody else's, an
\* order it goes on to refund, or not to serve again, has its ORDER_PAID.
Knows(t) ==
  /\ Inserts(t) => /\ t.o \in Orders /\ orders[t.o].status = "absent"
                   /\ t.row.status \in PAYABLE_STATUSES
                   /\ t.row.payable > 0 => t.row.status = "pending_payment"
  /\ t.op = "topup" => t.row.payable > 0
  /\ t.op = "pay" => t.row.status = "pending_payment"
  /\ t.op = "notify_ok" /\ t.row.status = "paid" => Told(t.o)
  /\ t.op \in {"refund", "complete", "reject"} => Told(t.o)

RowsHeard ==
  \A o \in Orders : /\ orders[o].status \in SettledStatus => Told(o)
                    /\ orders[o].status # "created"
                    /\ refunds[o] # <<>> => Told(o)

\* No other open request is on an order that is being inserted.
InsertsApart ==
  \A s, r \in Sessions : s # r /\ Inserts(tx[s]) => tx[r].o # tx[s].o

HeardInv ==
  /\ IInv
  /\ RowsHeard
  /\ InsertsApart
  /\ \A s \in Sessions : Knows(tx[s])

LEMMA HeardIsMeant == HeardInv => PaidIsServed
BY DEF HeardInv, RowsHeard, Told, SettledStatus, PaidIsServed

\* A step that only opens or extends a transaction.
LEMMA HeardTx ==
  ASSUME HeardInv, IInv', NEW s \in Sessions, NEW t, tx' = [tx EXCEPT ![s] = t],
         UNCHANGED db, Knows(t),
         \A r \in Sessions \ {s} : /\ Inserts(tx[r]) => t.o # tx[r].o
                                   /\ Inserts(t) => tx[r].o # t.o
  PROVE  HeardInv'
<1>1. UNCHANGED <<orders, refunds, events>>
  BY DEF db
<1>2. \A r \in Sessions : tx'[r] = IF r = s THEN t ELSE tx[r]
  BY DEF HeardInv, IInv, TypeOK
<1>3. RowsHeard'
  BY <1>1 DEF HeardInv, RowsHeard, Told
<1>4. InsertsApart'
  BY <1>2 DEF HeardInv, InsertsApart, Inserts
<1>5. \A r \in Sessions : Knows(tx[r])'
  BY <1>1, <1>2 DEF HeardInv, Knows, Inserts, Told
<1> QED
  BY <1>3, <1>4, <1>5 DEF HeardInv

\* What the commit of s does to the order o.
Heard(s, o) ==
  /\ events[o] \subseteq events'[o]
  /\ orders'[o].status # "created"
  /\ orders'[o].status \in SettledStatus =>
       orders[o].status \in SettledStatus \/ Told(o)'
  /\ refunds'[o] # <<>> => refunds[o] # <<>> \/ Told(o)'
  /\ orders[o].status \in OrderStatus \ PAYABLE_STATUSES =>
       orders'[o].status \notin PAYABLE_STATUSES
  /\ orders[o].status = "absent" =>
       orders'[o].status = "absent" \/ (Inserts(tx[s]) /\ tx[s].o = o)

LEMMA HeardCommit ==
  ASSUME HeardInv, IInv', NEW s \in Sessions, tx' = [tx EXCEPT ![s] = Idle],
         \A o \in Orders : Heard(s, o)
  PROVE  HeardInv'
<1>1. \A r \in Sessions : tx'[r] = IF r = s THEN Idle ELSE tx[r]
  BY DEF HeardInv, IInv, TypeOK
<1>2. RowsHeard'
  BY DEF HeardInv, RowsHeard, Heard, Told
<1>3. InsertsApart'
  BY <1>1 DEF HeardInv, InsertsApart, Inserts, Idle, Knows
<1>4. ASSUME NEW r \in Sessions PROVE Knows(tx[r])'
  <2>1. CASE r = s
    BY <1>1, <2>1 DEF Knows, Inserts, Idle
  <2>2. CASE r # s
    <3> DEFINE t == tx[r]
    <3>1. tx'[r] = t
      BY <1>1, <2>2
    <3>2. Knows(t) /\ GoodTx(t)
      BY DEF HeardInv, IInv
    <3>3. Inserts(t) => t.o \in Orders /\ orders'[t.o].status = "absent"
      BY <2>2, <3>2 DEF HeardInv, InsertsApart, Heard, Knows
    <3>4. t.op \in {"notify_ok", "refund", "complete", "reject"} => t.o \in Orders
      BY <3>2 DEF GoodTx, OnOrder
    <3>5. \A o \in Orders : events[o] \subseteq events'[o]
      BY DEF Heard
    <3> HIDE DEF t
    <3> QED
      BY <3>1, <3>2, <3>3, <3>4, <3>5 DEF Knows, Inserts, Told
  <2> QED
    BY <2>1, <2>2
<1> QED
  BY <1>2, <1>3, <1>4 DEF HeardInv

\* Requests on an order.
LEMMA HeardBegin ==
  ASSUME HeardInv, IInv', NEW s \in Sessions, NEW o \in Orders, BeginOnOrder(s, o)
  PROVE  HeardInv'
<1> USE DEF Inserts
<1>1. \A r \in Sessions : Inserts(tx[r]) => orders[tx[r].o].status = "absent"
  BY DEF HeardInv, Knows
<1>2. /\ orders[o].status \in SettledStatus => Told(o)
      /\ orders[o].status # "created" /\ (refunds[o] # <<>> => Told(o))
      /\ refunds[o] # <<>> => orders[o].status # "absent"
  BY DEF HeardInv, RowsHeard, IInv, OrdersOwned
\* A request on a row that was read.
<1>3. ASSUME NEW t, Begin(s, t), t.o = o, orders[o].status # "absent", ~Inserts(t), Knows(t)
      PROVE  HeardInv'
  <2>1. \A r \in Sessions \ {s} : Inserts(tx[r]) => t.o # tx[r].o
    BY <1>1, <1>3
  <2>2. tx' = [tx EXCEPT ![s] = t] /\ UNCHANGED db
    BY <1>3 DEF Begin
  <2> HIDE DEF Inserts
  <2> QED
    BY <1>3, <2>1, <2>2, HeardTx
<1>4. ASSUME NEW t, Begin(s, t), t.o = o, Fresh(o), Inserts(t), Knows(t)
      PROVE  HeardInv'
  <2>1. \A r \in Sessions \ {s} : tx[r].o # o
    BY <1>4 DEF Fresh
  <2>2. \A r \in Sessions \ {s} : tx[r].o # t.o
    BY <1>4, <2>1
  <2> QED
    BY <1>4, <2>2, HeardTx DEF Begin
<1>5. ASSUME NEW u \in Users, NEW kind \in Kinds, NEW p \in Prices,
             NEW k \in Keys \cup {NoKey}, BeginCreate(s, o, u, kind, p, k)
      PROVE  HeardInv'
  <2> DEFINE t == [Idle EXCEPT !.op = "create", !.o = o, !.row = NewOrder(u, kind, p, k)]
  <2>1. Begin(s, t) /\ Fresh(o) /\ t.o = o /\ t.op = "create"
    BY <1>5 DEF BeginCreate, Idle
  <2>2. Knows(t)
    BY <2>1 DEF Knows, Fresh, Idle, NewOrder, PAYABLE_STATUSES
  <2> QED
    BY <1>4, <2>1, <2>2
<1>6. ASSUME NEW u \in Users, NEW p \in Prices, NEW k \in Keys \cup {NoKey},
             NEW m \in Channels, BeginTopup(s, o, u, p, k, m)
      PROVE  HeardInv'
  <2> DEFINE t == [Idle EXCEPT !.op = "topup", !.o = o, !.method = m,
                               !.row = NewOrder(u, "wallet_topup", p, k)]
  <2>1. Begin(s, t) /\ Fresh(o) /\ t.o = o /\ t.op = "topup" /\ p > 0
    BY <1>6 DEF BeginTopup, Idle
  <2>2. Knows(t)
    BY <2>1 DEF Knows, Fresh, Idle, NewOrder, PAYABLE_STATUSES
  <2> QED
    BY <1>4, <2>1, <2>2
<1>7. ASSUME NEW m \in Methods, BeginPay(s, o, m) PROVE HeardInv'
  <2> DEFINE t == [Idle EXCEPT !.op = "pay", !.o = o, !.method = m, !.row = orders[o]]
  <2>1. Begin(s, t) /\ t.o = o /\ t.op = "pay" /\ orders[o].status = "pending_payment"
    BY <1>2, <1>7 DEF BeginPay, Idle, PAYABLE_STATUSES
  <2>2. Knows(t)
    BY <2>1 DEF Knows, Idle
  <2> QED
    BY <1>3, <2>1, <2>2
<1>8. CASE BeginCancel(s, o)
  <2> DEFINE t == [Idle EXCEPT !.op = "cancel", !.o = o, !.row = orders[o]]
  <2>1. Begin(s, t) /\ t.o = o /\ t.op = "cancel" /\ orders[o].status # "absent"
    BY <1>8 DEF BeginCancel, Idle, PAYABLE_STATUSES
  <2>2. Knows(t)
    BY <2>1 DEF Knows
  <2> QED
    BY <1>3, <2>1, <2>2
<1>9. CASE BeginClose(s, o)
  <2> DEFINE t == [Idle EXCEPT !.op = "close", !.o = o, !.row = orders[o]]
  <2>1. Begin(s, t) /\ t.o = o /\ t.op = "close" /\ orders[o].status # "absent"
    BY <1>9 DEF BeginClose, Idle, OrderStatus
  <2>2. Knows(t)
    BY <2>1 DEF Knows
  <2> QED
    BY <1>3, <2>1, <2>2
<1>10. ASSUME NEW m \in Channels, NEW success \in BOOLEAN, BeginNotify(s, o, m, success)
       PROVE  HeardInv'
  <2> PICK i \in RowsOfTxn(o, m) :
        Begin(s, [Idle EXCEPT !.op = IF success THEN "notify_ok" ELSE "notify_fail",
                              !.o = o, !.idx = i, !.row = orders[o]])
    BY <1>10 DEF BeginNotify
  <2> DEFINE t == [Idle EXCEPT !.op = IF success THEN "notify_ok" ELSE "notify_fail",
                               !.o = o, !.idx = i, !.row = orders[o]]
  <2>1. /\ Begin(s, t) /\ t.o = o /\ t.row = orders[o] /\ t.op \in {"notify_ok", "notify_fail"}
        /\ orders[o].status # "absent"
    BY <1>10 DEF BeginNotify, Idle, OrderStatus
  <2>2. Knows(t)
    BY <1>2, <2>1 DEF Knows, SettledStatus
  <2> QED
    BY <1>3, <2>1, <2>2
<1>11. ASSUME NEW cents \in 1 .. orders[o].payable, BeginRefund(s, o, cents)
       PROVE  HeardInv'
  <2> DEFINE t == [Idle EXCEPT !.op = "refund", !.o = o, !.cents = cents, !.row = orders[o]]
  <2>1. Begin(s, t) /\ t.o = o /\ t.op = "refund" /\ orders[o].status = "paid"
    BY <1>11 DEF BeginRefund, Idle, REFUNDABLE
  <2>2. Knows(t)
    BY <1>2, <2>1 DEF Knows, SettledStatus
  <2> QED
    BY <1>3, <2>1, <2>2
<1>12. ASSUME NEW i \in DOMAIN refunds[o], NEW op \in {"complete", "reject"},
              BeginProcess(s, o, i, op)
       PROVE  HeardInv'
  <2> DEFINE t == [Idle EXCEPT !.op = op, !.o = o, !.idx = i,
                               !.cents = refunds[o][i].cents, !.row = orders[o]]
  <2>1. Begin(s, t) /\ t.o = o /\ t.op = op /\ refunds[o] # <<>>
    BY <1>12 DEF BeginProcess, Idle
  <2>2. Knows(t)
    BY <1>2, <2>1 DEF Knows
  <2> QED
    BY <1>2, <1>3, <2>1, <2>2
<1> QED
  BY <1>5, <1>6, <1>7, <1>8, <1>9, <1>10, <1>11, <1>12 DEF BeginOnOrder

\* Requests on a wallet, the run of the cron, and what reads on or rolls back.
LEMMA HeardOther ==
  ASSUME HeardInv, IInv', NEW s \in Sessions
  PROVE  /\ \A u \in Users : BeginMyWallet(s, u) => HeardInv'
         /\ \A u \in Users, cents \in Prices \ {0} : BeginGrant(s, u, cents) => HeardInv'
         /\ BeginExpire(s) => HeardInv'
         /\ ReadAccount(s) => HeardInv'
         /\ Refused(s) \/ Crash(s) => HeardInv'
<1>1. \A r \in Sessions : Inserts(tx[r]) => tx[r].o # "none"
  BY DEF HeardInv, Knows
<1>2. ASSUME NEW t, tx' = [tx EXCEPT ![s] = t], UNCHANGED db, t.o = "none",
             t.op \in {"idle", "grant", "my_wallet", "expire"}
      PROVE  HeardInv'
  <2>1. ~Inserts(t) /\ Knows(t)
    BY <1>2 DEF Knows, Inserts
  <2> QED
    BY <1>1, <1>2, <2>1, HeardTx
<1>3. ASSUME NEW u \in Users, BeginMyWallet(s, u) PROVE HeardInv'
  BY <1>2, <1>3 DEF BeginMyWallet, Begin, Idle
<1>4. ASSUME NEW u \in Users, NEW cents \in Prices \ {0}, BeginGrant(s, u, cents)
      PROVE  HeardInv'
  BY <1>2, <1>4 DEF BeginGrant, Begin, Idle
<1>5. ASSUME BeginExpire(s) PROVE HeardInv'
  BY <1>2, <1>5 DEF BeginExpire, Begin, Idle
<1>6. ASSUME ReadAccount(s) PROVE HeardInv'
  <2> DEFINE t == [tx[s] EXCEPT !.acct = wallet[tx[s].row.user], !.holds = TRUE]
  <2>1. tx' = [tx EXCEPT ![s] = t] /\ UNCHANGED db
    BY <1>6 DEF ReadAccount, HeardInv, IInv, TypeOK, Tx
  <2>2. t.op = tx[s].op /\ t.o = tx[s].o /\ t.row = tx[s].row
    BY DEF HeardInv, IInv, TypeOK, Tx
  <2> HIDE DEF t
  <2>3. Knows(t) /\ (Inserts(t) <=> Inserts(tx[s]))
    BY <2>2 DEF HeardInv, Knows, Inserts
  <2>4. \A r \in Sessions \ {s} : /\ Inserts(tx[r]) => t.o # tx[r].o
                                  /\ Inserts(t) => tx[r].o # t.o
    BY <2>2, <2>3 DEF HeardInv, InsertsApart
  <2> QED
    BY <2>1, <2>3, <2>4, HeardTx
<1>7. ASSUME Refused(s) \/ Crash(s) PROVE HeardInv'
  BY <1>2, <1>7 DEF Refused, Crash, Idle
<1> QED
  BY <1>3, <1>4, <1>5, <1>6, <1>7

\* A commit that updates an order's row.
LEMMA HeardWrite ==
  ASSUME HeardInv, NEW s \in Sessions, NEW t \in Tx,
         t.o \in Orders, orders[t.o].status # "absent",
         NEW st \in OrderStatus \ {"created"}, NEW pm, WriteOrder(t, st, pm),
         st \in PAYABLE_STATUSES => t.row.status = st,
         st \in SettledStatus => Told(t.o)',
         \A o \in Orders : events[o] \subseteq events'[o],
         \A o \in Orders : refunds'[o] # <<>> => refunds[o] # <<>> \/ Told(o)'
  PROVE  \A o \in Orders : Heard(s, o)
<1>1. orders \in [Orders -> OrderRow] /\ \A o \in Orders : orders[o].status # "created"
  BY DEF HeardInv, IInv, TypeOK, RowsHeard
<1>2. ASSUME NEW o \in Orders
      PROVE  \/ orders'[o].status = orders[o].status
             \/ o = t.o /\ orders'[o].status = st /\ t.row.status # st
  BY <1>1 DEF WriteOrder, Written, OrderRow
<1> QED
  BY <1>1, <1>2 DEF Heard, Told

\* What the outbox has after a payment and after a refund.
LEMMA HeardEvents ==
  ASSUME IInv, NEW t \in Tx
  PROVE  /\ OnPaid(t) => \A o \in Orders : events[o] \subseteq events'[o]
         /\ OnPaid(t) /\ t.o \in Orders /\ t.row.status # "paid" => Told(t.o)'
         /\ OnRefunded(t) => \A o \in Orders : events[o] \subseteq events'[o]
<1>1. events \in [Orders -> SUBSET {"ORDER_PAID", "ORDER_CANCELLED", "ORDER_REFUNDED"}]
  BY DEF IInv, TypeOK
<1> QED
  BY <1>1 DEF OnPaid, OnRefunded, Told

\* A commit that inserts an order.
LEMMA HeardInsert ==
  ASSUME HeardInv, NEW s \in Sessions, NEW t \in Tx, t = tx[s], Inserts(t),
         NEW row, orders' = [orders EXCEPT ![t.o] = row], UNCHANGED refunds,
         \/ row.status = "pending_payment" /\ UNCHANGED events
         \/ row.status = "paid" /\ OnPaid(t)
  PROVE  \A o \in Orders : Heard(s, o)
<1>1. /\ t.o \in Orders /\ orders[t.o].status = "absent" /\ t.row.status # "paid"
      /\ orders \in [Orders -> OrderRow] /\ \A o \in Orders : orders[o].status # "created"
  BY DEF HeardInv, IInv, TypeOK, RowsHeard, Knows, PAYABLE_STATUSES
<1>2. \A o \in Orders : orders'[o] = IF o = t.o THEN row ELSE orders[o]
  BY <1>1
<1>3. /\ \A o \in Orders : events[o] \subseteq events'[o]
      /\ row.status # "pending_payment" => row.status = "paid" /\ Told(t.o)'
  BY <1>1, HeardEvents DEF HeardInv
<1>4. tx[s].o = t.o /\ Inserts(tx[s])
  OBVIOUS
<1> QED
  BY <1>1, <1>2, <1>3, <1>4 DEF Heard, Told, SettledStatus, OrderStatus

\* Every commit.
LEMMA HeardCommits ==
  ASSUME HeardInv, NEW s \in Sessions, Commit(s)
  PROVE  tx' = [tx EXCEPT ![s] = Idle] /\ \A o \in Orders : Heard(s, o)
<1>1. IInv /\ Knows(tx[s])
  BY DEF HeardInv
<1>2. tx' = [tx EXCEPT ![s] = Idle]
  BY DEF Commit, CommitCreate, CommitTopup, CommitPay, CommitCancel, CommitClose,
         CommitExpire, CommitNotifyFailed, CommitNotify, CommitRefund, CommitReject,
         CommitComplete, CommitWallet, Ready
<1>3. ASSUME UNCHANGED <<orders, refunds, events>> PROVE \A o \in Orders : Heard(s, o)
  BY <1>3 DEF HeardInv, RowsHeard, Heard, Told
<1>4. CASE CommitCreate(s)
  <2>1. PICK t \in Tx : t = tx[s] /\ t.op = "create"
    BY <1>1, <1>4, ReadyStep DEF CommitCreate, Ops
  <2>2. Knows(t) /\ Inserts(t) /\ UNCHANGED refunds
    BY <1>1, <1>4, <2>1 DEF CommitCreate, Inserts
  <2>3. CASE t.row.payable > 0
    <3>1. orders' = [orders EXCEPT ![t.o] = t.row] /\ UNCHANGED events
      BY <1>4, <2>1, <2>3 DEF CommitCreate
    <3>2. t.row.status = "pending_payment"
      BY <2>2, <2>3 DEF Knows
    <3> QED
      BY <1>2, <2>1, <2>2, <3>1, <3>2, HeardInsert
  <2>4. CASE ~(t.row.payable > 0)
    <3> DEFINE row == [t.row EXCEPT !.status = "paid"]
    <3>1. orders' = [orders EXCEPT ![t.o] = row] /\ OnPaid(t)
      BY <1>4, <2>1, <2>4 DEF CommitCreate, OnPaid
    <3>2. row.status = "paid"
      BY DEF Tx, OrderRow
    <3> HIDE DEF row
    <3> QED
      BY <1>2, <2>1, <2>2, <3>1, <3>2, HeardInsert
  <2> QED
    BY <2>3, <2>4
<1>5. CASE CommitTopup(s)
  <2>1. PICK t \in Tx : t = tx[s] /\ t.op = "topup"
    BY <1>1, <1>5, ReadyStep DEF CommitTopup, Ops
  <2>2. Knows(t) /\ Inserts(t) /\ UNCHANGED refunds
    BY <1>1, <1>5, <2>1 DEF CommitTopup, Inserts
  <2> DEFINE row == [t.row EXCEPT !.status = IF Immediate(t.method) THEN "paid" ELSE @,
                                  !.pay_method = t.method]
  <2>3. orders' = [orders EXCEPT ![t.o] = row]
    BY <1>5, <2>1 DEF CommitTopup
  <2>4. \/ row.status = "pending_payment" /\ UNCHANGED events
        \/ row.status = "paid" /\ OnPaid(t)
    <3>1. t.row.status = "pending_payment"
      BY <2>1, <2>2 DEF Knows, Inserts
    <3>2. row.status = IF Immediate(t.method) THEN "paid" ELSE t.row.status
      BY DEF Tx, OrderRow
    <3>3. IF Immediate(t.method) THEN OnPaid(t) ELSE UNCHANGED events
      BY <1>5, <2>1 DEF CommitTopup, OnPaid
    <3> HIDE DEF row
    <3> QED
      BY <3>1, <3>2, <3>3
  <2> HIDE DEF row
  <2> QED
    BY <1>2, <2>1, <2>2, <2>3, <2>4, HeardInsert
<1>6. CASE CommitPay(s)
  <2>1. PICK t \in Tx : /\ t = tx[s] /\ t.op = "pay"
                        /\ t.o \in Orders /\ orders[t.o].status # "absent"
    BY <1>1, <1>6, ReadyOnOrder DEF CommitPay, OnOrder
  <2>2. t.row.status = "pending_payment" /\ UNCHANGED refunds
    BY <1>1, <1>6, <2>1 DEF Knows, CommitPay
  <2>3. \/ WriteOrder(t, "paid", t.method) /\ OnPaid(t)
        \/ WriteOrder(t, "pending_payment", t.method) /\ UNCHANGED events
    BY <1>6, <2>1 DEF CommitPay, WriteOrder, OnPaid
  <2>4. CASE WriteOrder(t, "paid", t.method) /\ OnPaid(t)
    <3>1. Told(t.o)' /\ \A o \in Orders : events[o] \subseteq events'[o]
      BY <1>1, <2>1, <2>2, <2>4, HeardEvents
    <3> QED
      BY <1>2, <2>1, <2>2, <2>4, <3>1, HeardWrite DEF OrderStatus, PAYABLE_STATUSES
  <2>5. CASE WriteOrder(t, "pending_payment", t.method) /\ UNCHANGED events
    BY <1>2, <2>1, <2>2, <2>5, HeardWrite DEF OrderStatus, SettledStatus
  <2> QED
    BY <2>3, <2>4, <2>5
<1>7. CASE CommitCancel(s) \/ CommitClose(s)
  <2>1. PICK t \in Tx : t = tx[s] /\ t.o \in Orders /\ orders[t.o].status # "absent"
    BY <1>1, <1>7, ReadyOnOrder DEF CommitCancel, CommitClose, OnOrder
  <2>2. UNCHANGED refunds /\ \A o \in Orders : events[o] \subseteq events'[o]
    <3>1. events \in [Orders -> SUBSET {"ORDER_PAID", "ORDER_CANCELLED", "ORDER_REFUNDED"}]
      BY <1>1 DEF IInv, TypeOK
    <3>2. CASE CommitCancel(s)
      BY <2>1, <3>1, <3>2 DEF CommitCancel
    <3>3. CASE CommitClose(s)
      BY <3>3 DEF CommitClose
    <3> QED
      BY <1>7, <3>2, <3>3
  <2>3. PICK st \in {"cancelled", "closed"} : WriteOrder(t, st, t.row.pay_method)
    BY <1>7, <2>1 DEF CommitCancel, CommitClose, WriteOrder
  <2> QED
    BY <1>2, <2>1, <2>2, <2>3, HeardWrite DEF OrderStatus, PAYABLE_STATUSES, SettledStatus
<1>8. CASE CommitExpire(s)
  <2>1. PICK t \in Tx : t = tx[s] /\ GoodTx(t)
    BY <1>1, <1>8, ReadyStep DEF CommitExpire, Ops
  <2>2. UNCHANGED <<refunds, events>>
    BY <1>8 DEF CommitExpire
  <2>3. ASSUME NEW o \in Orders
        PROVE  \/ orders'[o].status = orders[o].status
               \/ orders'[o].status = "cancelled" /\ orders[o].status # "absent"
    BY <1>1, <1>8, <2>1 DEF CommitExpire, GoodTx, IInv, TypeOK, OrderRow
  <2> QED
    BY <1>2, <2>2, <2>3
       DEF HeardInv, RowsHeard, Heard, Told, SettledStatus, PAYABLE_STATUSES
<1>9. CASE CommitNotifyFailed(s) \/ CommitWallet(s)
  BY <1>2, <1>3, <1>9 DEF CommitNotifyFailed, CommitWallet
<1>10. CASE CommitNotify(s)
  <2>1. PICK t \in Tx : /\ t = tx[s] /\ t.op = "notify_ok"
                        /\ t.o \in Orders /\ orders[t.o].status # "absent"
    BY <1>1, <1>10, ReadyOnOrder DEF CommitNotify, OnOrder
  <2>2. WriteOrder(t, "paid", t.row.pay_method) /\ OnPaid(t) /\ UNCHANGED refunds
    BY <1>10, <2>1 DEF CommitNotify, WriteOrder, OnPaid
  <2>3. Told(t.o)' /\ \A o \in Orders : events[o] \subseteq events'[o]
    BY <1>1, <2>1, <2>2, HeardEvents DEF Knows, Told
  <2> QED
    BY <1>2, <2>1, <2>2, <2>3, HeardWrite DEF OrderStatus, PAYABLE_STATUSES
<1>11. CASE CommitRefund(s) \/ CommitReject(s) \/ CommitComplete(s)
  <2>1. PICK t \in Tx : /\ t = tx[s] /\ t.op \in {"refund", "reject", "complete"}
                        /\ t.o \in Orders /\ orders[t.o].status # "absent"
    <3>1. PICK op \in {"refund", "reject", "complete"} : Ready(s, op)
      BY <1>11 DEF CommitRefund, CommitReject, CommitComplete
    <3> QED
      BY <1>1, <3>1, ReadyOnOrder DEF OnOrder
  <2>2. Told(t.o)
    BY <1>1, <2>1 DEF Knows
  <2>3. PICK st \in SettledStatus : WriteOrder(t, st, t.row.pay_method)
    BY <1>11, <2>1 DEF CommitRefund, CommitReject, CommitComplete, WriteOrder, SettledStatus
  <2>4. OnRefunded(t) \/ UNCHANGED events
    BY <1>11, <2>1 DEF CommitRefund, CommitReject, CommitComplete, OnRefunded
  <2>5. Told(t.o)' /\ \A o \in Orders : events[o] \subseteq events'[o]
    BY <1>1, <2>1, <2>2, <2>4, HeardEvents DEF Told
  <2>6. \A o \in Orders : o # t.o => refunds'[o] = refunds[o]
    BY <1>1, <1>11, <2>1 DEF CommitRefund, CommitReject, CommitComplete, IInv, TypeOK
  <2> QED
    BY <1>2, <2>1, <2>3, <2>5, <2>6, HeardWrite DEF OrderStatus, PAYABLE_STATUSES, SettledStatus
<1> QED
  BY <1>2, <1>4, <1>5, <1>6, <1>7, <1>8, <1>9, <1>10, <1>11 DEF Commit

LEMMA HeardStep == HeardInv /\ [Next]_vars => HeardInv'
<1> SUFFICES ASSUME HeardInv, [Next]_vars PROVE HeardInv'
  OBVIOUS
<1>1. IInv'
  BY NextIInv DEF HeardInv
<1> USE DEF Sessions
<1>2. ASSUME NEW s \in Clients, NEW o \in Orders, BeginOnOrder(s, o) PROVE HeardInv'
  BY <1>1, <1>2, HeardBegin
<1>3. ASSUME NEW s \in Sessions, Commit(s) PROVE HeardInv'
  BY <1>1, <1>3, HeardCommits, HeardCommit
<1>4. CASE \/ \E s \in Clients, u \in Users : BeginMyWallet(s, u)
           \/ \E s \in Clients, u \in Users, cents \in Prices \ {0} : BeginGrant(s, u, cents)
           \/ \E s \in Workers : BeginExpire(s)
           \/ \E s \in Sessions : ReadAccount(s) \/ Refused(s) \/ Crash(s)
  BY <1>1, <1>4, HeardOther
<1>5. CASE UNCHANGED vars \/ \E o \in Orders : PassDeadline(o)
  <2>1. UNCHANGED <<orders, refunds, events, tx>>
    BY <1>5 DEF vars, db, PassDeadline
  <2> QED
    BY <1>1, <2>1 DEF HeardInv, RowsHeard, InsertsApart, Knows, Inserts, Told
<1> QED
  BY <1>2, <1>3, <1>4, <1>5 DEF Next

LEMMA HeardInitially == Init => HeardInv
<1> SUFFICES ASSUME Init PROVE HeardInv
  OBVIOUS
<1>1. \A s \in Sessions : tx[s].op = "idle"
  BY DEF Init, Idle
<1>2. \A o \in Orders : orders[o].status = "absent" /\ refunds[o] = <<>>
  BY DEF Init, NoOrder
<1> QED
  BY InitIInv, <1>1, <1>2
     DEF HeardInv, RowsHeard, SettledStatus, InsertsApart, Inserts, Knows

LEMMA HeardInvariant == Spec => []HeardInv
BY HeardInitially, HeardStep, PTL DEF Spec

\* Whatever overlapping pay requests, notifications and admins leave in the status
\* of an order, one that is or was paid has its ORDER_PAID event (_on_paid).
THEOREM PaymentsAreHeard == Spec => []PaidIsServed
BY HeardIsMeant, HeardInvariant, PTL

\* No request that read an order before it was paid, cancelled or closed makes it
\* payable again: pay_order writes only a status that differs from the one it read.
THEOREM SettledOrdersStaySo == Spec => NeverPayableAgain
<1> DEFINE Stays == \A o \in Orders :
       orders[o].status \in OrderStatus \ PAYABLE_STATUSES =>
         orders'[o].status \notin PAYABLE_STATUSES
<1>1. HeardInv /\ [Next]_vars => [Stays]_vars
  <2> SUFFICES ASSUME HeardInv, Next PROVE Stays
    BY DEF vars
  <2>1. ASSUME NEW s \in Sessions, Commit(s) PROVE Stays
    BY <2>1, HeardCommits DEF Heard
  <2>2. CASE UNCHANGED orders
    BY <2>2
  <2>3. UNCHANGED orders \/ \E s \in Sessions : Commit(s)
    <3>1. ASSUME NEW s \in Clients, NEW o \in Orders, BeginOnOrder(s, o)
          PROVE  UNCHANGED orders
      BY <3>1 DEF BeginOnOrder, BeginCreate, BeginTopup, BeginPay, BeginCancel, BeginClose,
                  BeginNotify, BeginRefund, BeginProcess, Begin, db
    <3>2. ASSUME \/ \E s \in Clients, u \in Users : BeginMyWallet(s, u)
                 \/ \E s \in Clients, u \in Users, c \in Prices \ {0} : BeginGrant(s, u, c)
                 \/ \E s \in Workers : BeginExpire(s)
                 \/ \E s \in Sessions : ReadAccount(s) \/ Refused(s) \/ Crash(s)
                 \/ \E o \in Orders : PassDeadline(o)
          PROVE  UNCHANGED orders
      BY <3>2 DEF BeginMyWallet, BeginGrant, BeginExpire, Begin, ReadAccount, Refused,
                  Crash, PassDeadline, db
    <3> QED
      BY <3>1, <3>2 DEF Next
  <2> QED
    BY <2>1, <2>2, <2>3
<1> QED
  BY <1>1, HeardInvariant, PTL DEF Spec, NeverPayableAgain
-----------------------------------------------------------------------------
(* The ledger says of every order what its payments and refunds say,       *)
(* however the requests overlap.                                           *)

FromWallet(q) == {i \in DOMAIN q : q[i].method = "wallet" /\ q[i].status = "succeeded"}

ChargeAgrees(o) ==
  booked[o].charged = orders[o].payable * Cardinality(FromWallet(payments[o]))
RefundsCredited(o) ==
  \A i \in DOMAIN refunds[o] :
    refunds[o][i].status = "completed" => booked[o].refunded >= refunds[o][i].cents

\* What an open request will post is what the rows it is about to write say.
Posts(t) ==
  /\ t.op \in OnOrder => t.row.payable = orders[t.o].payable
  /\ t.op = "topup" => t.method # "wallet"
  /\ t.op \in {"grant", "my_wallet"} => t.o \notin Orders
  /\ t.op \in {"notify_ok", "notify_fail"} =>
       t.idx \in DOMAIN payments[t.o] /\ payments[t.o][t.idx].method # "wallet"
  /\ t.op \in {"complete", "reject"} =>
       t.idx \in DOMAIN refunds[t.o] /\ refunds[t.o][t.idx].cents = t.cents

BooksInv ==
  /\ HeardInv
  /\ \A o \in Orders : /\ payments[o] # <<>> => orders[o].status # "absent"
                       /\ ChargeAgrees(o) /\ RefundsCredited(o)
  /\ \A s \in Sessions : Posts(tx[s])

LEMMA BooksAreMeant == BooksInv => LedgerFollowsOrders
BY DEF BooksInv, ChargeAgrees, RefundsCredited, FromWallet, LedgerFollowsOrders,
       ChargedAsPaid, CompletedIsCredited

\* The wallet payments of an order, and what a payment that is added makes of them.
LEMMA FromWalletFinite ==
  ASSUME NEW q \in Seq(PaymentRow)
  PROVE  IsFiniteSet(FromWallet(q)) /\ Cardinality(FromWallet(q)) \in Nat
<1>1. FromWallet(q) \subseteq 1 .. Len(q)
  BY DEF FromWallet
<1>2. IsFiniteSet(1 .. Len(q))
  BY FS_Interval
<1> QED
  BY <1>1, <1>2, FS_Subset, FS_CardinalityType

LEMMA FromWalletAppend ==
  ASSUME NEW q \in Seq(PaymentRow), NEW r \in PaymentRow
  PROVE  Cardinality(FromWallet(Append(q, r))) = Cardinality(FromWallet(q)) +
           IF r.method = "wallet" /\ r.status = "succeeded" THEN 1 ELSE 0
<1> DEFINE n == Len(q) + 1
<1>1. /\ DOMAIN q = 1 .. Len(q) /\ DOMAIN Append(q, r) = 1 .. n /\ Len(q) \in Nat
      /\ \A i \in 1 .. Len(q) : Append(q, r)[i] = q[i]
      /\ Append(q, r)[n] = r
  OBVIOUS
<1>2. n \notin FromWallet(q)
  BY <1>1 DEF FromWallet
<1>3. CASE r.method = "wallet" /\ r.status = "succeeded"
  <2>1. FromWallet(Append(q, r)) = FromWallet(q) \cup {n}
    BY <1>1, <1>3 DEF FromWallet
  <2>2. IsFiniteSet(FromWallet(q)) /\ Cardinality(FromWallet(q)) \in Nat
    BY FromWalletFinite
  <2> HIDE DEF n
  <2>3. Cardinality(FromWallet(q) \cup {n}) = Cardinality(FromWallet(q)) + 1
    BY <1>2, <2>2, FS_AddElement
  <2> QED
    BY <1>3, <2>1, <2>3
<1>4. CASE ~(r.method = "wallet" /\ r.status = "succeeded")
  <2>1. FromWallet(Append(q, r)) = FromWallet(q)
    BY <1>1, <1>4 DEF FromWallet
  <2> QED
    BY <1>4, <2>1, FromWalletFinite
<1> QED
  BY <1>3, <1>4

\* A request that only opens or extends a transaction.
LEMMA BooksTx ==
  ASSUME BooksInv, HeardInv', NEW s \in Sessions, NEW t, tx' = [tx EXCEPT ![s] = t],
         UNCHANGED db, Posts(t)
  PROVE  BooksInv'
<1>1. UNCHANGED <<orders, payments, refunds, booked>>
  BY DEF db
<1>2. \A r \in Sessions : tx'[r] = IF r = s THEN t ELSE tx[r]
  BY DEF BooksInv, HeardInv, IInv, TypeOK
<1>3. \A o \in Orders : /\ (payments[o] # <<>> => orders[o].status # "absent")'
                        /\ ChargeAgrees(o)' /\ RefundsCredited(o)'
  BY <1>1 DEF BooksInv, ChargeAgrees, RefundsCredited
<1>4. \A r \in Sessions : Posts(tx[r])'
  BY <1>1, <1>2 DEF BooksInv, Posts
<1> QED
  BY <1>3, <1>4 DEF BooksInv

\* What a commit does to an order, its payments and its refunds.
OrderKeeps(o) ==
  /\ orders[o].status # "absent" => orders'[o].payable = orders[o].payable
  /\ payments'[o] # <<>> => orders'[o].status # "absent"
PaymentsKeep(o) ==
  \A i \in DOMAIN payments[o] :
    i \in DOMAIN payments'[o] /\ payments'[o][i].method = payments[o][i].method
RefundsKeep(o) ==
  \A i \in DOMAIN refunds[o] :
    i \in DOMAIN refunds'[o] /\ refunds'[o][i].cents = refunds[o][i].cents

LEMMA BooksCommit ==
  ASSUME BooksInv, HeardInv', NEW s \in Sessions, tx' = [tx EXCEPT ![s] = Idle],
         \A o \in Orders : /\ OrderKeeps(o) /\ PaymentsKeep(o) /\ RefundsKeep(o)
                           /\ ChargeAgrees(o)' /\ RefundsCredited(o)'
  PROVE  BooksInv'
<1>1. \A r \in Sessions : tx'[r] = IF r = s THEN Idle ELSE tx[r]
  BY DEF BooksInv, HeardInv, IInv, TypeOK
<1>2. ASSUME NEW r \in Sessions PROVE Posts(tx[r])'
  <2>1. CASE r = s
    BY <1>1, <2>1 DEF Posts, Idle, OnOrder
  <2>2. CASE r # s
    <3> DEFINE t == tx[r]
    <3>1. tx'[r] = t
      BY <1>1, <2>2
    <3>2. Posts(t) /\ GoodTx(t)
      BY DEF BooksInv, HeardInv, IInv
    <3> HIDE DEF t
    <3>3. t.op \in OnOrder => t.o \in Orders /\ orders[t.o].status # "absent"
      BY <3>2 DEF GoodTx
    <3> QED
      BY <3>1, <3>2, <3>3 DEF Posts, OrderKeeps, PaymentsKeep, RefundsKeep, OnOrder
  <2> QED
    BY <2>1, <2>2
<1> QED
  BY <1>2 DEF BooksInv, OrderKeeps

LEMMA BooksBegin ==
  ASSUME BooksInv, HeardInv', NEW s \in Sessions, NEW o \in Orders, BeginOnOrder(s, o)
  PROVE  BooksInv'
<1> USE DEF OnOrder, Begin
<1>1. ASSUME NEW u \in Users, NEW kind \in Kinds, NEW p \in Prices,
             NEW k \in Keys \cup {NoKey}, BeginCreate(s, o, u, kind, p, k)
      PROVE  BooksInv'
  <2> DEFINE t == [Idle EXCEPT !.op = "create", !.o = o, !.row = NewOrder(u, kind, p, k)]
  <2>1. Posts(t)
    BY DEF Posts, Idle
  <2> QED
    BY <1>1, <2>1, BooksTx DEF BeginCreate
<1>2. ASSUME NEW u \in Users, NEW p \in Prices, NEW k \in Keys \cup {NoKey},
             NEW m \in Channels, BeginTopup(s, o, u, p, k, m)
      PROVE  BooksInv'
  <2> DEFINE t == [Idle EXCEPT !.op = "topup", !.o = o, !.method = m,
                               !.row = NewOrder(u, "wallet_topup", p, k)]
  <2>1. Posts(t)
    BY DEF Posts, Idle
  <2> QED
    BY <1>2, <2>1, BooksTx DEF BeginTopup
<1>3. ASSUME NEW m \in Methods, BeginPay(s, o, m) PROVE BooksInv'
  <2> DEFINE t == [Idle EXCEPT !.op = "pay", !.o = o, !.method = m, !.row = orders[o]]
  <2>1. Posts(t)
    BY DEF Posts, Idle
  <2> QED
    BY <1>3, <2>1, BooksTx DEF BeginPay
<1>4. CASE BeginCancel(s, o)
  <2> DEFINE t == [Idle EXCEPT !.op = "cancel", !.o = o, !.row = orders[o]]
  <2>1. Posts(t)
    BY DEF Posts, Idle
  <2> QED
    BY <1>4, <2>1, BooksTx DEF BeginCancel
<1>5. CASE BeginClose(s, o)
  <2> DEFINE t == [Idle EXCEPT !.op = "close", !.o = o, !.row = orders[o]]
  <2>1. Posts(t)
    BY DEF Posts, Idle
  <2> QED
    BY <1>5, <2>1, BooksTx DEF BeginClose
<1>6. ASSUME NEW m \in Channels, NEW success \in BOOLEAN, BeginNotify(s, o, m, success)
      PROVE  BooksInv'
  <2> DEFINE op == IF success THEN "notify_ok" ELSE "notify_fail"
  <2> PICK i \in RowsOfTxn(o, m) :
        Begin(s, [Idle EXCEPT !.op = op, !.o = o, !.idx = i, !.row = orders[o]])
    BY <1>6 DEF BeginNotify
  <2> DEFINE t == [Idle EXCEPT !.op = op, !.o = o, !.idx = i, !.row = orders[o]]
  <2>1. Posts(t)
    BY DEF Posts, Idle, RowsOfTxn
  <2>2. tx' = [tx EXCEPT ![s] = t] /\ UNCHANGED db
    OBVIOUS
  <2> QED
    BY <2>1, <2>2, BooksTx
<1>7. ASSUME NEW cents \in 1 .. orders[o].payable, BeginRefund(s, o, cents)
      PROVE  BooksInv'
  <2> DEFINE t == [Idle EXCEPT !.op = "refund", !.o = o, !.cents = cents, !.row = orders[o]]
  <2>1. Posts(t)
    BY DEF Posts, Idle
  <2> QED
    BY <1>7, <2>1, BooksTx DEF BeginRefund
<1>8. ASSUME NEW i \in DOMAIN refunds[o], NEW op \in {"complete", "reject"},
             BeginProcess(s, o, i, op)
      PROVE  BooksInv'
  <2> DEFINE t == [Idle EXCEPT !.op = op, !.o = o, !.idx = i,
                               !.cents = refunds[o][i].cents, !.row = orders[o]]
  <2>1. Posts(t)
    BY DEF Posts, Idle
  <2> QED
    BY <1>8, <2>1, BooksTx DEF BeginProcess
<1> QED
  BY <1>1, <1>2, <1>3, <1>4, <1>5, <1>6, <1>7, <1>8 DEF BeginOnOrder

LEMMA BooksOther ==
  ASSUME BooksInv, HeardInv', NEW s \in Sessions
  PROVE  /\ \A u \in Users : BeginMyWallet(s, u) => BooksInv'
         /\ \A u \in Users, cents \in Prices \ {0} : BeginGrant(s, u, cents) => BooksInv'
         /\ BeginExpire(s) => BooksInv'
         /\ ReadAccount(s) => BooksInv'
         /\ Refused(s) \/ Crash(s) => BooksInv'
<1>1. ASSUME NEW t, tx' = [tx EXCEPT ![s] = t], UNCHANGED db, t.o = "none",
             t.op \in {"idle", "grant", "my_wallet", "expire"}
      PROVE  BooksInv'
  <2>1. Posts(t)
    BY <1>1 DEF Posts, OnOrder
  <2> QED
    BY <1>1, <2>1, BooksTx
<1>2. ASSUME NEW u \in Users, BeginMyWallet(s, u) PROVE BooksInv'
  BY <1>1, <1>2 DEF BeginMyWallet, Begin, Idle
<1>3. ASSUME NEW u \in Users, NEW cents \in Prices \ {0}, BeginGrant(s, u, cents)
      PROVE  BooksInv'
  BY <1>1, <1>3 DEF BeginGrant, Begin, Idle
<1>4. ASSUME BeginExpire(s) PROVE BooksInv'
  BY <1>1, <1>4 DEF BeginExpire, Begin, Idle
<1>5. ASSUME ReadAccount(s) PROVE BooksInv'
  <2> DEFINE t == [tx[s] EXCEPT !.acct = wallet[tx[s].row.user], !.holds = TRUE]
  <2>1. tx[s] \in Tx /\ tx' = [tx EXCEPT ![s] = t] /\ UNCHANGED db
    BY <1>5 DEF ReadAccount, BooksInv, HeardInv, IInv, TypeOK, Tx
  <2>2. /\ t.op = tx[s].op /\ t.o = tx[s].o /\ t.row = tx[s].row
        /\ t.method = tx[s].method /\ t.idx = tx[s].idx /\ t.cents = tx[s].cents
    BY <2>1 DEF Tx
  <2> HIDE DEF t
  <2>3. Posts(t)
    BY <2>2 DEF BooksInv, Posts
  <2> QED
    BY <2>1, <2>3, BooksTx
<1>6. ASSUME Refused(s) \/ Crash(s) PROVE BooksInv'
  BY <1>1, <1>6 DEF Refused, Crash, Idle
<1> QED
  BY <1>2, <1>3, <1>4, <1>5, <1>6

\* What Post books.
LEMMA BooksPosted ==
  ASSUME IInv, NEW t \in Tx, Post(t), NEW o \in Orders
  PROVE  /\ booked[o].charged \in Nat /\ booked[o].refunded \in Nat
         /\ booked'[o].charged = booked[o].charged +
              IF o = t.o /\ Charges(t) THEN t.row.payable ELSE 0
         /\ booked'[o].refunded = booked[o].refunded +
              IF o = t.o /\ NeedsAccount(t) /\ t.op \in {"refund", "complete"}
              THEN t.cents ELSE 0
<1>1. booked[o] \in [charged : Nat, refunded : Nat]
  BY DEF IInv, TypeOK
<1>2. Charges(t) => NeedsAccount(t)
  BY DEF Charges, NeedsAccount
<1> QED
  BY <1>1, <1>2 DEF Post

\* An order's row that is written keeps its price.
LEMMA BooksOrder ==
  ASSUME IInv, NEW t \in Tx, t.o \in Orders, NEW st \in OrderStatus, NEW pm,
         WriteOrder(t, st, pm), NEW o \in Orders
  PROVE  /\ orders'[o].payable = orders[o].payable
         /\ orders[o].status # "absent" => orders'[o].status # "absent"
<1>1. orders \in [Orders -> OrderRow]
  BY DEF IInv, TypeOK
<1> QED
  BY <1>1 DEF WriteOrder, Written, OrderRow, OrderStatus

\* The row of o stays or is inserted.
PriceKept(o) ==
  \/ /\ orders'[o].payable = orders[o].payable
     /\ orders[o].status # "absent" => orders'[o].status # "absent"
  \/ orders[o].status = "absent" /\ orders'[o].status # "absent" /\ orders'[o].payable \in Nat

\* The wallet payments and the charge of o grow together.
ChargeKept(o) ==
  /\ payments'[o] # <<>> => payments[o] # <<>> \/ orders'[o].status # "absent"
  /\ PaymentsKeep(o)
  /\ \/ /\ Cardinality(FromWallet(payments'[o])) = Cardinality(FromWallet(payments[o]))
        /\ booked'[o].charged = booked[o].charged
     \/ /\ Cardinality(FromWallet(payments'[o])) = Cardinality(FromWallet(payments[o])) + 1
        /\ booked'[o].charged = booked[o].charged + orders[o].payable
        /\ orders[o].status # "absent"

\* What becomes a completed refund of o is credited.
RefundKeptCredited(o) ==
  /\ RefundsKeep(o)
  /\ booked[o].refunded \in Nat /\ booked'[o].refunded \in Nat
  /\ booked'[o].refunded >= booked[o].refunded
  /\ \A i \in DOMAIN refunds'[o] :
       refunds'[o][i].status = "completed" =>
         \/ i \in DOMAIN refunds[o] /\ refunds[o][i].status = "completed"
         \/ booked'[o].refunded >= refunds'[o][i].cents

LEMMA OneMoreCharge == \A p, c \in Nat : p * (c + 1) = p * c + p
OBVIOUS

LEMMA BooksKept ==
  ASSUME BooksInv, NEW o \in Orders, PriceKept(o), ChargeKept(o), RefundKeptCredited(o)
  PROVE  /\ OrderKeeps(o) /\ PaymentsKeep(o) /\ RefundsKeep(o)
         /\ ChargeAgrees(o)' /\ RefundsCredited(o)'
<1>1. /\ orders[o].payable \in Nat /\ payments[o] \in Seq(PaymentRow)
      /\ refunds[o] \in Seq(RefundRow) /\ ChargeAgrees(o) /\ RefundsCredited(o)
      /\ payments[o] # <<>> => orders[o].status # "absent"
  BY DEF BooksInv, HeardInv, IInv, TypeOK, OrderRow, PaymentRow, RefundRow
<1>2. Cardinality(FromWallet(payments[o])) \in Nat
  BY <1>1, FromWalletFinite
<1>3. OrderKeeps(o)
  BY <1>1 DEF PriceKept, ChargeKept, OrderKeeps
<1>4. ChargeAgrees(o)'
  <2> DEFINE c == Cardinality(FromWallet(payments[o]))
             p == orders[o].payable
  <2>1. CASE orders'[o].payable = p
    <3>1. p * (c + 1) = p * c + p
      BY <1>1, <1>2, OneMoreCharge
    <3>2. booked[o].charged = p * c
      BY <1>1 DEF ChargeAgrees
    <3>3. \/ Cardinality(FromWallet(payments'[o])) = c /\ booked'[o].charged = booked[o].charged
          \/ /\ Cardinality(FromWallet(payments'[o])) = c + 1
             /\ booked'[o].charged = booked[o].charged + p
      BY DEF ChargeKept
    <3> HIDE DEF c, p
    <3> QED
      BY <2>1, <3>1, <3>2, <3>3 DEF ChargeAgrees
  <2>2. CASE orders'[o].payable # p
    <3>1. orders[o].status = "absent" /\ orders'[o].payable \in Nat
      BY <2>2 DEF PriceKept
    <3>2. FromWallet(payments[o]) = {}
      BY <1>1, <3>1 DEF FromWallet
    <3>3. c = 0
      BY <3>2, FS_EmptySet
    <3>4. booked[o].charged = 0
      BY <1>1, <3>3 DEF ChargeAgrees
    <3>5. Cardinality(FromWallet(payments'[o])) = 0 /\ booked'[o].charged = 0
      BY <3>1, <3>3, <3>4 DEF ChargeKept
    <3> QED
      BY <3>1, <3>5 DEF ChargeAgrees
  <2> QED
    BY <2>1, <2>2
<1>5. RefundsCredited(o)'
  <2>1. \A i \in DOMAIN refunds[o] : refunds[o][i].cents \in Nat
    <3> DEFINE R == RefundRow
    <3>1. \A i \in DOMAIN refunds[o] : refunds[o][i] \in R
      <4> HIDE DEF R
      <4> QED
        BY <1>1 DEF R
    <3> QED
      BY <3>1 DEF RefundRow
  <2> QED
    BY <1>1, <2>1 DEF RefundKeptCredited, RefundsKeep, RefundsCredited
<1> QED
  BY <1>3, <1>4, <1>5 DEF ChargeKept, RefundKeptCredited

\* What does not change is kept.
LEMMA BooksSame ==
  ASSUME BooksInv, NEW o \in Orders
  PROVE  /\ UNCHANGED orders => PriceKept(o)
         /\ UNCHANGED payments /\ booked'[o].charged = booked[o].charged => ChargeKept(o)
         /\ UNCHANGED refunds /\ (\E n \in Nat : booked'[o].refunded = booked[o].refunded + n)
              => RefundKeptCredited(o)
<1>1. booked[o] \in [charged : Nat, refunded : Nat]
  BY DEF BooksInv, HeardInv, IInv, TypeOK
<1>2. UNCHANGED orders => PriceKept(o)
  BY DEF PriceKept
<1>3. UNCHANGED payments /\ booked'[o].charged = booked[o].charged => ChargeKept(o)
  BY DEF ChargeKept, PaymentsKeep
<1>4. UNCHANGED refunds /\ (\E n \in Nat : booked'[o].refunded = booked[o].refunded + n)
        => RefundKeptCredited(o)
  BY <1>1 DEF RefundKeptCredited, RefundsKeep
<1> QED
  BY <1>2, <1>3, <1>4

LEMMA BooksAppend ==
  ASSUME BooksInv, NEW p \in Orders, NEW m \in Methods, NEW o \in Orders,
         payments'[o] = IF o = p THEN Append(payments[o], NewPayment(m)) ELSE payments[o]
  PROVE  /\ PaymentsKeep(o) /\ (o # p => payments'[o] = payments[o])
         /\ Cardinality(FromWallet(payments'[o])) = Cardinality(FromWallet(payments[o])) +
              IF o = p /\ m = "wallet" THEN 1 ELSE 0
<1> DEFINE r == NewPayment(m)
<1>1. payments \in [Orders -> Seq(PaymentRow)]
  BY DEF BooksInv, HeardInv, IInv, TypeOK, PaymentRow
<1>2. r \in PaymentRow /\ r.method = m /\ (m = "wallet" => r.status = "succeeded")
  BY DEF NewPayment, PaymentRow, Immediate
<1>3. payments'[o] = IF o = p THEN Append(payments[o], r) ELSE payments[o]
  OBVIOUS
<1> HIDE DEF r
<1>4. Cardinality(FromWallet(payments[o])) \in Nat
  BY <1>1, FromWalletFinite
<1>5. CASE o = p
  <2>1. Cardinality(FromWallet(Append(payments[o], r))) = Cardinality(FromWallet(payments[o])) +
          IF r.method = "wallet" /\ r.status = "succeeded" THEN 1 ELSE 0
    BY <1>1, <1>2, FromWalletAppend
  <2>2. PaymentsKeep(o)
    BY <1>1, <1>2, <1>3, <1>5 DEF PaymentsKeep
  <2> QED
    BY <1>2, <1>3, <1>4, <1>5, <2>1, <2>2
<1>6. CASE o # p
  BY <1>3, <1>4, <1>6 DEF PaymentsKeep
<1> QED
  BY <1>5, <1>6

LEMMA BooksUpdate ==
  ASSUME BooksInv, NEW p \in Orders, NEW i \in DOMAIN payments[p],
         payments[p][i].method # "wallet", NEW st, NEW o \in Orders,
         payments' = [payments EXCEPT ![p][i].status = st],
         booked'[o].charged = booked[o].charged
  PROVE  ChargeKept(o)
<1>1. payments \in [Orders -> Seq(PaymentRow)]
  BY DEF BooksInv, HeardInv, IInv, TypeOK, PaymentRow
<1>2. payments'[o] = IF o = p THEN [payments[p] EXCEPT ![i].status = st] ELSE payments[o]
  BY <1>1
<1>3. payments'[o] # <<>> => payments[o] # <<>>
  BY <1>2
<1>4. CASE o = p
  <2>1. \A j \in DOMAIN payments[o] : payments[o][j] \in PaymentRow
    BY <1>1
  <2>2. DOMAIN payments'[o] = DOMAIN payments[o]
    BY <1>2, <1>4
  <2>3. \A j \in DOMAIN payments[o] : /\ payments'[o][j].method = payments[o][j].method
                                      /\ j # i => payments'[o][j] = payments[o][j]
    BY <1>2, <1>4, <2>1 DEF PaymentRow
  <2>4. FromWallet(payments'[o]) = FromWallet(payments[o])
    BY <1>4, <2>2, <2>3 DEF FromWallet
  <2> QED
    BY <1>3, <2>2, <2>3, <2>4 DEF ChargeKept, PaymentsKeep
<1>5. CASE o # p
  BY <1>2, <1>3, <1>5 DEF ChargeKept, PaymentsKeep
<1> QED
  BY <1>4, <1>5

\* A refund that is added, and one that is completed or rejected.
LEMMA BooksRefund ==
  ASSUME BooksInv, NEW p \in Orders, NEW cents \in Nat, NEW st, NEW o \in Orders,
         refunds' = [refunds EXCEPT ![p] = Append(@, [cents |-> cents, status |-> st])],
         st \in {"submitted", "completed"},
         booked'[o].refunded = booked[o].refunded +
           IF o = p /\ st = "completed" THEN cents ELSE 0
  PROVE  RefundKeptCredited(o)
<1> DEFINE r == [cents |-> cents, status |-> st]
<1>1. refunds \in [Orders -> Seq(RefundRow)] /\ booked[o] \in [charged : Nat, refunded : Nat]
  BY DEF BooksInv, HeardInv, IInv, TypeOK, RefundRow
<1>2. r \in RefundRow /\ r.cents = cents /\ r.status = st
  BY DEF RefundRow
<1>3. refunds'[o] = IF o = p THEN Append(refunds[o], r) ELSE refunds[o]
  BY <1>1
<1> HIDE DEF r
<1>4. CASE o = p
  <2> DEFINE n == Len(refunds[o]) + 1
  <2>1. /\ DOMAIN refunds[o] = 1 .. Len(refunds[o]) /\ DOMAIN refunds'[o] = 1 .. n
        /\ \A i \in DOMAIN refunds[o] : refunds'[o][i] = refunds[o][i]
        /\ refunds'[o][n] = r
    BY <1>1, <1>2, <1>3, <1>4
  <2>2. \A i \in DOMAIN refunds'[o] : i \in DOMAIN refunds[o] \/ i = n
    BY <1>1, <2>1
  <2>3. \A i \in DOMAIN refunds[o] : i \in DOMAIN refunds'[o]
    BY <1>1, <2>1
  <2> HIDE DEF n
  <2> QED
    BY <1>1, <1>2, <1>4, <2>1, <2>2, <2>3 DEF RefundKeptCredited, RefundsKeep
<1>5. CASE o # p
  BY <1>1, <1>3, <1>5 DEF RefundKeptCredited, RefundsKeep
<1> QED
  BY <1>4, <1>5

LEMMA BooksProcess ==
  ASSUME BooksInv, NEW p \in Orders, NEW i \in DOMAIN refunds[p], NEW st, NEW o \in Orders,
         refunds' = [refunds EXCEPT ![p][i].status = st], st \in {"completed", "rejected"},
         booked'[o].refunded = booked[o].refunded +
           IF o = p /\ st = "completed" THEN refunds[p][i].cents ELSE 0
  PROVE  RefundKeptCredited(o)
<1>1. refunds \in [Orders -> Seq(RefundRow)] /\ booked[o] \in [charged : Nat, refunded : Nat]
  BY DEF BooksInv, HeardInv, IInv, TypeOK, RefundRow
<1>2. refunds'[o] = IF o = p THEN [refunds[p] EXCEPT ![i].status = st] ELSE refunds[o]
  BY <1>1
<1>3. \A j \in DOMAIN refunds[p] : refunds[p][j] \in RefundRow
  <2> DEFINE R == RefundRow
  <2> HIDE DEF R
  <2>1. refunds[p] \in Seq(R)
    BY <1>1 DEF R
  <2> QED
    BY <2>1 DEF R
<1>4. CASE o = p
  <2>1. DOMAIN refunds'[o] = DOMAIN refunds[o]
    BY <1>2, <1>4
  <2>2. \A j \in DOMAIN refunds[o] :
          /\ refunds'[o][j].cents = refunds[o][j].cents
          /\ refunds'[o][j].status = IF j = i THEN st ELSE refunds[o][j].status
    BY <1>2, <1>3, <1>4 DEF RefundRow
  <2>3. refunds[o][i].cents \in Nat
    BY <1>3, <1>4 DEF RefundRow
  <2> QED
    BY <1>1, <1>4, <2>1, <2>2, <2>3 DEF RefundKeptCredited, RefundsKeep
<1>5. CASE o # p
  BY <1>1, <1>2, <1>5 DEF RefundKeptCredited, RefundsKeep
<1> QED
  BY <1>4, <1>5

\* Every commit.
LEMMA BooksCommits ==
  ASSUME BooksInv, NEW s \in Sessions, Commit(s), NEW o \in Orders
  PROVE  PriceKept(o) /\ ChargeKept(o) /\ RefundKeptCredited(o)
<1>1. IInv /\ Posts(tx[s]) /\ Knows(tx[s])
  BY DEF BooksInv, HeardInv
<1>2. booked[o].charged \in Nat /\ booked[o].refunded \in Nat
  BY <1>1 DEF IInv, TypeOK
\* A commit that has no part in the money of an order.
<1>3. ASSUME UNCHANGED <<payments, refunds, booked>> PROVE ChargeKept(o) /\ RefundKeptCredited(o)
  <2>1. booked'[o].refunded = booked[o].refunded + 0
    BY <1>2, <1>3
  <2> QED
    BY <1>3, <2>1, BooksSame
<1>4. CASE CommitCreate(s)
  <2>1. PICK t \in Tx : t = tx[s] /\ t.op = "create"
    BY <1>1, <1>4, ReadyStep DEF CommitCreate, Ops
  <2>2. /\ t.o \in Orders /\ orders[t.o].status = "absent" /\ t.row.status # "absent"
        /\ t.row.payable \in Nat
    BY <1>1, <2>1 DEF Knows, Inserts, PAYABLE_STATUSES, Tx, OrderRow
  <2>3. PICK row : /\ orders' = [orders EXCEPT ![t.o] = row]
                   /\ row.status # "absent" /\ row.payable = t.row.payable
    <3>1. [t.row EXCEPT !.status = "paid"].status = "paid"
          /\ [t.row EXCEPT !.status = "paid"].payable = t.row.payable
      BY DEF Tx, OrderRow
    <3> QED
      BY <1>4, <2>1, <2>2, <3>1 DEF CommitCreate
  <2>4. PriceKept(o)
    BY <1>1, <2>2, <2>3 DEF PriceKept, IInv, TypeOK
  <2> QED
    BY <1>3, <1>4, <2>4 DEF CommitCreate
<1>5. CASE CommitTopup(s)
  <2>1. PICK t \in Tx : t = tx[s] /\ t.op = "topup" /\ GoodTx(t)
    BY <1>1, <1>5, ReadyStep DEF CommitTopup, Ops
  <2>2. /\ t.o \in Orders /\ orders[t.o].status = "absent" /\ t.row.status # "absent"
        /\ t.row.payable \in Nat /\ t.method \in Methods \ {"wallet"}
    BY <1>1, <2>1 DEF Knows, Inserts, Posts, PAYABLE_STATUSES, GoodTx, Tx, OrderRow
  <2> DEFINE row == [t.row EXCEPT !.status = IF Immediate(t.method) THEN "paid" ELSE @,
                                  !.pay_method = t.method]
  <2>3. orders' = [orders EXCEPT ![t.o] = row] /\ Post(t) /\ UNCHANGED refunds
        /\ payments' = [payments EXCEPT ![t.o] = Append(@, NewPayment(t.method))]
    BY <1>5, <2>1 DEF CommitTopup, Post
  <2>4. row.status # "absent" /\ row.payable = t.row.payable
    BY <2>2 DEF Tx, OrderRow
  <2> HIDE DEF row
  <2>5. PriceKept(o) /\ (o = t.o => orders'[o].status # "absent")
    BY <1>1, <2>2, <2>3, <2>4 DEF PriceKept, IInv, TypeOK
  <2>6. booked'[o].charged = booked[o].charged /\ booked'[o].refunded = booked[o].refunded + 0
    BY <1>1, <1>2, <2>1, <2>3, BooksPosted DEF Charges
  <2>7. /\ PaymentsKeep(o) /\ (o # t.o => payments'[o] = payments[o])
        /\ Cardinality(FromWallet(payments'[o])) = Cardinality(FromWallet(payments[o])) +
             IF o = t.o /\ t.method = "wallet" THEN 1 ELSE 0
    <3>1. payments'[o] =
            IF o = t.o THEN Append(payments[o], NewPayment(t.method)) ELSE payments[o]
      BY <1>1, <2>3 DEF IInv, TypeOK
    <3> QED
      BY <2>2, <3>1, BooksAppend
  <2>8. Cardinality(FromWallet(payments[o])) \in Nat
    BY <1>1, FromWalletFinite DEF IInv, TypeOK, PaymentRow
  <2>9. ChargeKept(o)
    BY <2>2, <2>5, <2>6, <2>7, <2>8 DEF ChargeKept
  <2> QED
    BY <2>3, <2>5, <2>6, <2>9, BooksSame
<1>6. CASE CommitPay(s)
  <2>1. PICK t \in Tx : /\ t = tx[s] /\ t.op = "pay" /\ GoodTx(t)
                        /\ t.o \in Orders /\ orders[t.o].status # "absent"
    BY <1>1, <1>6, ReadyOnOrder DEF CommitPay, OnOrder
  <2>2. t.method \in Methods /\ t.row.payable = orders[t.o].payable
    BY <1>1, <2>1 DEF GoodTx, Posts, OnOrder
  <2>3. PICK st \in {"paid", "pending_payment"} : WriteOrder(t, st, t.method)
    BY <1>6, <2>1 DEF CommitPay, WriteOrder
  <2>4. Post(t) /\ UNCHANGED refunds
        /\ payments' = [payments EXCEPT ![t.o] = Append(@, NewPayment(t.method))]
    BY <1>6, <2>1 DEF CommitPay, Post
  <2>5. PriceKept(o) /\ (o = t.o => orders'[o].status # "absent")
    BY <1>1, <2>1, <2>3, BooksOrder DEF PriceKept, OrderStatus
  <2>6. /\ booked'[o].charged = booked[o].charged +
             IF o = t.o /\ t.method = "wallet" THEN orders[o].payable ELSE 0
        /\ booked'[o].refunded = booked[o].refunded + 0
    BY <1>1, <1>2, <2>1, <2>2, <2>4, BooksPosted DEF Charges
  <2>7. /\ PaymentsKeep(o) /\ (o # t.o => payments'[o] = payments[o])
        /\ Cardinality(FromWallet(payments'[o])) = Cardinality(FromWallet(payments[o])) +
             IF o = t.o /\ t.method = "wallet" THEN 1 ELSE 0
    <3>1. payments'[o] =
            IF o = t.o THEN Append(payments[o], NewPayment(t.method)) ELSE payments[o]
      BY <1>1, <2>4 DEF IInv, TypeOK
    <3> QED
      BY <2>1, <2>2, <3>1, BooksAppend
  <2>8. Cardinality(FromWallet(payments[o])) \in Nat
    BY <1>1, FromWalletFinite DEF IInv, TypeOK, PaymentRow
  <2>9. ChargeKept(o)
    BY <1>2, <2>1, <2>5, <2>6, <2>7, <2>8 DEF ChargeKept
  <2> QED
    BY <2>4, <2>5, <2>6, <2>9, BooksSame
<1>7. CASE CommitCancel(s) \/ CommitClose(s)
  <2>1. PICK t \in Tx : t = tx[s] /\ t.o \in Orders
    BY <1>1, <1>7, ReadyOnOrder DEF CommitCancel, CommitClose, OnOrder
  <2>2. PICK st \in {"cancelled", "closed"} : WriteOrder(t, st, t.row.pay_method)
    BY <1>7, <2>1 DEF CommitCancel, CommitClose, WriteOrder
  <2>3. PriceKept(o)
    BY <1>1, <2>1, <2>2, BooksOrder DEF PriceKept, OrderStatus
  <2> QED
    BY <1>3, <1>7, <2>3 DEF CommitCancel, CommitClose
<1>8. CASE CommitExpire(s)
  <2>1. PriceKept(o)
    BY <1>1, <1>8 DEF CommitExpire, PriceKept, IInv, TypeOK, OrderRow
  <2> QED
    BY <1>3, <1>8, <2>1 DEF CommitExpire
<1>9. CASE CommitNotifyFailed(s)
  <2>1. PICK t \in Tx : t = tx[s] /\ t.op = "notify_fail" /\ t.o \in Orders
    BY <1>1, <1>9, ReadyOnOrder DEF CommitNotifyFailed, OnOrder
  <2>2. t.idx \in DOMAIN payments[t.o] /\ payments[t.o][t.idx].method # "wallet"
    BY <1>1, <2>1 DEF Posts
  <2>3. UNCHANGED <<orders, refunds, booked>>
        /\ payments' = [payments EXCEPT ![t.o][t.idx].status = "failed"]
    BY <1>9, <2>1 DEF CommitNotifyFailed
  <2>4. booked'[o].charged = booked[o].charged /\ booked'[o].refunded = booked[o].refunded + 0
    BY <1>2, <2>3
  <2> QED
    BY <2>1, <2>2, <2>3, <2>4, BooksUpdate, BooksSame
<1>10. CASE CommitNotify(s)
  <2>1. PICK t \in Tx : t = tx[s] /\ t.op = "notify_ok" /\ t.o \in Orders
    BY <1>1, <1>10, ReadyOnOrder DEF CommitNotify, OnOrder
  <2>2. t.idx \in DOMAIN payments[t.o] /\ payments[t.o][t.idx].method # "wallet"
    BY <1>1, <2>1 DEF Posts
  <2>3. /\ WriteOrder(t, "paid", t.row.pay_method) /\ Post(t) /\ UNCHANGED refunds
        /\ payments' = [payments EXCEPT ![t.o][t.idx].status = "succeeded"]
    BY <1>10, <2>1 DEF CommitNotify, WriteOrder, Post
  <2>4. booked'[o].charged = booked[o].charged /\ booked'[o].refunded = booked[o].refunded + 0
    BY <1>1, <1>2, <2>1, <2>3, BooksPosted DEF Charges
  <2>5. PriceKept(o)
    BY <1>1, <2>1, <2>3, BooksOrder DEF PriceKept, OrderStatus
  <2> QED
    BY <2>1, <2>2, <2>3, <2>4, <2>5, BooksUpdate, BooksSame
<1>11. CASE CommitRefund(s)
  <2>1. PICK t \in Tx : t = tx[s] /\ t.op = "refund" /\ t.o \in Orders /\ t.cents \in Nat
    BY <1>1, <1>11, ReadyOnOrder DEF CommitRefund, OnOrder
  <2>2. PICK st \in {"refunded", "refunding"} : WriteOrder(t, st, t.row.pay_method)
    BY <1>11, <2>1 DEF CommitRefund, WriteOrder
  <2> DEFINE to == IF AutoRefund(t) THEN "completed" ELSE "submitted"
  <2>3. /\ Post(t) /\ UNCHANGED payments
        /\ refunds' = [refunds EXCEPT ![t.o] = Append(@, [cents |-> t.cents, status |-> to])]
    BY <1>11, <2>1 DEF CommitRefund, Post
  <2>4. /\ booked'[o].charged = booked[o].charged
        /\ booked'[o].refunded = booked[o].refunded +
             IF o = t.o /\ to = "completed" THEN t.cents ELSE 0
    BY <1>1, <1>2, <2>1, <2>3, BooksPosted DEF Charges, NeedsAccount
  <2>5. PriceKept(o)
    BY <1>1, <2>1, <2>2, BooksOrder DEF PriceKept, OrderStatus
  <2>6. to \in {"submitted", "completed"}
    OBVIOUS
  <2> HIDE DEF to
  <2> QED
    BY <2>1, <2>3, <2>4, <2>5, <2>6, BooksRefund, BooksSame
<1>12. CASE CommitReject(s) \/ CommitComplete(s)
  <2>1. PICK t \in Tx : /\ t = tx[s] /\ t.o \in Orders
                        /\ \/ t.op = "reject" /\ CommitReject(s)
                           \/ t.op = "complete" /\ CommitComplete(s)
    <3>1. CASE CommitReject(s)
      BY <1>1, <3>1, ReadyOnOrder DEF CommitReject, OnOrder
    <3>2. CASE CommitComplete(s)
      BY <1>1, <3>2, ReadyOnOrder DEF CommitComplete, OnOrder
    <3> QED
      BY <1>12, <3>1, <3>2
  <2>2. t.idx \in DOMAIN refunds[t.o] /\ refunds[t.o][t.idx].cents = t.cents
    BY <1>1, <2>1 DEF Posts
  <2>3. PICK st \in {"paid", "refunded"} : WriteOrder(t, st, t.row.pay_method)
    BY <2>1 DEF CommitReject, CommitComplete, WriteOrder
  <2>4. PICK to \in {"completed", "rejected"} :
          /\ UNCHANGED payments /\ refunds' = [refunds EXCEPT ![t.o][t.idx].status = to]
          /\ \/ to = "rejected" /\ UNCHANGED booked
             \/ to = "completed" /\ t.op = "complete" /\ Post(t)
    BY <2>1 DEF CommitReject, CommitComplete, Post
  <2>5. /\ booked'[o].charged = booked[o].charged
        /\ booked'[o].refunded = booked[o].refunded +
             IF o = t.o /\ to = "completed" THEN t.cents ELSE 0
    BY <1>1, <1>2, <2>1, <2>4, BooksPosted DEF Charges, NeedsAccount
  <2>6. PriceKept(o)
    BY <1>1, <2>1, <2>3, BooksOrder DEF PriceKept, OrderStatus
  <2> QED
    BY <2>1, <2>2, <2>4, <2>5, <2>6, BooksProcess, BooksSame
<1>13. CASE CommitWallet(s)
  <2>1. PICK op \in {"grant", "my_wallet"} : Ready(s, op)
    BY <1>13 DEF CommitWallet
  <2>2. PICK t \in Tx : t = tx[s] /\ t.op \in {"grant", "my_wallet"}
    BY <1>1, <2>1, ReadyStep DEF Ops
  <2>3. t.o # o /\ Post(t) /\ UNCHANGED <<orders, payments, refunds>>
    BY <1>1, <1>13, <2>2 DEF Posts, CommitWallet, Post
  <2>4. booked'[o].charged = booked[o].charged /\ booked'[o].refunded = booked[o].refunded + 0
    BY <1>1, <1>2, <2>3, BooksPosted
  <2> QED
    BY <2>3, <2>4, BooksSame
<1> QED
  BY <1>4, <1>5, <1>6, <1>7, <1>8, <1>9, <1>10, <1>11, <1>12, <1>13 DEF Commit

LEMMA BooksStep == BooksInv /\ [Next]_vars => BooksInv'
<1> SUFFICES ASSUME BooksInv, [Next]_vars PROVE BooksInv'
  OBVIOUS
<1>1. HeardInv'
  BY HeardStep DEF BooksInv
<1> USE DEF Sessions
<1>2. ASSUME NEW s \in Clients, NEW o \in Orders, BeginOnOrder(s, o) PROVE BooksInv'
  BY <1>1, <1>2, BooksBegin
<1>3. ASSUME NEW s \in Sessions, Commit(s) PROVE BooksInv'
  <2>1. tx' = [tx EXCEPT ![s] = Idle]
    BY <1>3, HeardCommits DEF BooksInv
  <2>2. \A o \in Orders : /\ OrderKeeps(o) /\ PaymentsKeep(o) /\ RefundsKeep(o)
                          /\ ChargeAgrees(o)' /\ RefundsCredited(o)'
    BY <1>3, BooksCommits, BooksKept
  <2> QED
    BY <1>1, <2>1, <2>2, BooksCommit
<1>4. CASE \/ \E s \in Clients, u \in Users : BeginMyWallet(s, u)
           \/ \E s \in Clients, u \in Users, cents \in Prices \ {0} : BeginGrant(s, u, cents)
           \/ \E s \in Workers : BeginExpire(s)
           \/ \E s \in Sessions : ReadAccount(s) \/ Refused(s) \/ Crash(s)
  BY <1>1, <1>4, BooksOther
<1>5. CASE UNCHANGED vars \/ \E o \in Orders : PassDeadline(o)
  <2>1. UNCHANGED <<orders, payments, refunds, booked, tx>>
    BY <1>5 DEF vars, db, PassDeadline
  <2> QED
    BY <1>1, <2>1 DEF BooksInv, ChargeAgrees, RefundsCredited, Posts
<1> QED
  BY <1>2, <1>3, <1>4, <1>5 DEF Next

LEMMA BooksInitially == Init => BooksInv
<1> SUFFICES ASSUME Init PROVE BooksInv
  OBVIOUS
<1>1. HeardInv
  BY HeardInitially
<1>2. ASSUME NEW o \in Orders PROVE ChargeAgrees(o) /\ RefundsCredited(o)
  <2>1. FromWallet(payments[o]) = {} /\ orders[o].payable = 0 /\ booked[o].charged = 0
    BY DEF Init, FromWallet, NoOrder
  <2>2. Cardinality(FromWallet(payments[o])) = 0
    BY <2>1, FS_EmptySet
  <2> QED
    BY <2>1, <2>2 DEF Init, ChargeAgrees, RefundsCredited
<1>3. \A s \in Sessions : Posts(tx[s])
  BY DEF Init, Idle, Posts, OnOrder
<1>4. \A o \in Orders : payments[o] = <<>>
  BY DEF Init
<1> QED
  BY <1>1, <1>2, <1>3, <1>4 DEF BooksInv

\* What an order was charged is what its wallet payments say, and what was refunded
\* was credited, however the requests overlap (pay_order, complete_refund).
THEOREM BooksFollowOrders == Spec => []LedgerFollowsOrders
BY BooksInitially, BooksStep, BooksAreMeant, PTL DEF Spec
-----------------------------------------------------------------------------
(* Requests that do not overlap.                                           *)

\* One session serves them all.
OneSession == \A s, r \in Sessions : s = r

AccountAgrees(u) ==
  Reconciles(wallet[u], ledger[u]) /\ (~wallet[u].exists => wallet[u] = NoAccount)

Unpaid(o) == \A i \in DOMAIN payments[o] : payments[o][i].status # "succeeded"

\* Money and memberships of an order that is open or over.
HoldsNothing(o) ==
  /\ orders[o].status \in PAYABLE_STATUSES \cup {"cancelled"} => Unpaid(o)
  /\ orders[o].status = "refunded" /\ orders[o].kind = "membership" => active[o] = 0

\* What the one open request has read is what the tables say.
UpToDate(t) ==
  /\ t.op \in OnOrder => t.row = orders[t.o]
  /\ t.op \in {"pay", "cancel"} => t.row.status \in PAYABLE_STATUSES
  /\ \A o \in t.batch : orders[o].status \in PAYABLE_STATUSES
  /\ Inserts(t) => Hits(t.row.user, t.row.key) = {}
  /\ t.holds => t.acct = wallet[t.row.user]

AloneInv ==
  /\ BooksInv
  /\ \A u \in Users : AccountAgrees(u)
  /\ \A o \in Orders : HoldsNothing(o)
  /\ OneOrderPerKey
  /\ \A s \in Sessions : UpToDate(tx[s])

LEMMA AloneIsMeant == AloneInv => LedgerReconciles /\ OverIsOver /\ OneOrderPerKey
<1> SUFFICES ASSUME AloneInv PROVE LedgerReconciles /\ OverIsOver /\ OneOrderPerKey
  OBVIOUS
<1>1. LedgerReconciles /\ RefundedMembershipIsOver /\ OneOrderPerKey
  BY DEF AloneInv, AccountAgrees, HoldsNothing, LedgerReconciles, RefundedMembershipIsOver
<1>2. ASSUME NEW o \in Orders, orders[o].status \in PAYABLE_STATUSES \cup {"cancelled"}
      PROVE  Succeeded(o) = 0
  <2>1. {i \in DOMAIN payments[o] : payments[o][i].status = "succeeded"} = {}
    BY <1>2 DEF AloneInv, HoldsNothing, Unpaid
  <2> QED
    BY <2>1, FS_EmptySet DEF Succeeded
<1> QED
  BY <1>1, <1>2 DEF OverIsOver, NoMoneyBehindUnpaidOrder

\* A posting keeps the balance and the version in step with the ledger.
LEMMA PostingReconciles ==
  ASSUME NEW a \in Account, NEW l \in Ledger, NEW g \in BOOLEAN, NEW d \in Int,
         Reconciles(a, l), ~a.exists => a = NoAccount
  PROVE  /\ Reconciles(AccountAfter(a, g, d), LedgerAfter(l, a, g, d))
         /\ AccountAfter(a, g, d).exists
BY DEF Reconciles, AccountAfter, LedgerAfter, ensure_account, WelcomeDue, Credit,
       Account, Ledger, NoAccount

LEMMA DeltaTyped ==
  ASSUME NEW t \in Tx
  PROVE  Delta(t) \in Int /\ GrantsWelcome(t) \in BOOLEAN
<1>1. t.row.payable \in Nat /\ t.cents \in Nat
  BY DEF Tx, OrderRow
<1> QED
  BY <1>1 DEF Delta, GrantsWelcome, Charges

LEMMA AloneWallet ==
  ASSUME AloneInv, NEW s \in Sessions, NEW t \in Tx, t = tx[s],
         NeedsAccount(t) => t.holds, Post(t), NEW u \in Users
  PROVE  AccountAgrees(u)'
<1>1. wallet \in [Users -> Account] /\ ledger \in [Users -> Ledger] /\ AccountAgrees(u)
  BY DEF AloneInv, BooksInv, HeardInv, IInv, TypeOK
<1>2. CASE NeedsAccount(t) /\ u = t.row.user
  <2>1. t.acct = wallet[u]
    BY <1>2 DEF AloneInv, UpToDate
  <2>2. /\ wallet'[u] = AccountAfter(t.acct, GrantsWelcome(t), Delta(t))
        /\ ledger'[u] = LedgerAfter(ledger[u], t.acct, GrantsWelcome(t), Delta(t))
    BY <1>1, <1>2 DEF Post
  <2>3. /\ Reconciles(AccountAfter(t.acct, GrantsWelcome(t), Delta(t)),
                      LedgerAfter(ledger[u], t.acct, GrantsWelcome(t), Delta(t)))
        /\ AccountAfter(t.acct, GrantsWelcome(t), Delta(t)).exists
    BY <1>1, <2>1, DeltaTyped, PostingReconciles DEF AccountAgrees
  <2> QED
    BY <2>2, <2>3 DEF AccountAgrees
<1>3. CASE ~(NeedsAccount(t) /\ u = t.row.user)
  <2>1. wallet'[u] = wallet[u] /\ ledger'[u] = ledger[u]
    BY <1>1, <1>3 DEF Post
  <2> QED
    BY <1>1, <2>1 DEF AccountAgrees
<1> QED
  BY <1>2, <1>3

LEMMA AloneTx ==
  ASSUME OneSession, AloneInv, BooksInv', NEW s \in Sessions, NEW t,
         tx' = [tx EXCEPT ![s] = t], UNCHANGED db, UpToDate(t)
  PROVE  AloneInv'
<1>1. UNCHANGED <<orders, payments, wallet, ledger, active>>
  BY DEF db
<1>2. \A r \in Sessions : tx'[r] = t
  BY DEF AloneInv, BooksInv, HeardInv, IInv, TypeOK, OneSession
<1>3. UpToDate(t)'
  BY <1>1 DEF UpToDate, Hits
<1>4. \A r \in Sessions : UpToDate(tx[r])'
  BY <1>1, <1>2 DEF UpToDate, Hits
<1>5. \A u \in Users : AccountAgrees(u)'
  BY <1>1 DEF AloneInv, AccountAgrees
<1>6. \A o \in Orders : HoldsNothing(o)'
  BY <1>1 DEF AloneInv, HoldsNothing, Unpaid
<1>7. OneOrderPerKey'
  BY <1>1 DEF AloneInv, OneOrderPerKey
<1> QED
  BY <1>4, <1>5, <1>6, <1>7 DEF AloneInv

LEMMA AloneBegin ==
  ASSUME OneSession, AloneInv, BooksInv', NEW s \in Sessions, NEW o \in Orders,
         BeginOnOrder(s, o)
  PROVE  AloneInv'
<1> USE DEF OnOrder, Begin, UpToDate, Inserts, Idle
<1>1. ASSUME NEW u \in Users, NEW kind \in Kinds, NEW p \in Prices,
             NEW k \in Keys \cup {NoKey}, BeginCreate(s, o, u, kind, p, k)
      PROVE  AloneInv'
  <2> DEFINE t == [Idle EXCEPT !.op = "create", !.o = o, !.row = NewOrder(u, kind, p, k)]
  <2>1. UpToDate(t)
    BY <1>1 DEF BeginCreate, NewOrder
  <2> QED
    BY <1>1, <2>1, AloneTx DEF BeginCreate
<1>2. ASSUME NEW u \in Users, NEW p \in Prices, NEW k \in Keys \cup {NoKey},
             NEW m \in Channels, BeginTopup(s, o, u, p, k, m)
      PROVE  AloneInv'
  <2> DEFINE t == [Idle EXCEPT !.op = "topup", !.o = o, !.method = m,
                               !.row = NewOrder(u, "wallet_topup", p, k)]
  <2>1. UpToDate(t)
    BY <1>2 DEF BeginTopup, NewOrder
  <2> QED
    BY <1>2, <2>1, AloneTx DEF BeginTopup
<1>3. ASSUME NEW m \in Methods, BeginPay(s, o, m) PROVE AloneInv'
  <2> DEFINE t == [Idle EXCEPT !.op = "pay", !.o = o, !.method = m, !.row = orders[o]]
  <2>1. UpToDate(t)
    BY <1>3 DEF BeginPay
  <2> QED
    BY <1>3, <2>1, AloneTx DEF BeginPay
<1>4. CASE BeginCancel(s, o)
  <2> DEFINE t == [Idle EXCEPT !.op = "cancel", !.o = o, !.row = orders[o]]
  <2>1. UpToDate(t)
    BY <1>4 DEF BeginCancel
  <2> QED
    BY <1>4, <2>1, AloneTx DEF BeginCancel
<1>5. CASE BeginClose(s, o)
  <2> DEFINE t == [Idle EXCEPT !.op = "close", !.o = o, !.row = orders[o]]
  <2>1. UpToDate(t)
    OBVIOUS
  <2> QED
    BY <1>5, <2>1, AloneTx DEF BeginClose
<1>6. ASSUME NEW m \in Channels, NEW success \in BOOLEAN, BeginNotify(s, o, m, success)
      PROVE  AloneInv'
  <2> DEFINE op == IF success THEN "notify_ok" ELSE "notify_fail"
  <2> PICK i \in RowsOfTxn(o, m) :
        Begin(s, [Idle EXCEPT !.op = op, !.o = o, !.idx = i, !.row = orders[o]])
    BY <1>6 DEF BeginNotify
  <2> DEFINE t == [Idle EXCEPT !.op = op, !.o = o, !.idx = i, !.row = orders[o]]
  <2>1. UpToDate(t)
    OBVIOUS
  <2>2. tx' = [tx EXCEPT ![s] = t] /\ UNCHANGED db
    OBVIOUS
  <2> QED
    BY <2>1, <2>2, AloneTx
<1>7. ASSUME NEW cents \in 1 .. orders[o].payable, BeginRefund(s, o, cents)
      PROVE  AloneInv'
  <2> DEFINE t == [Idle EXCEPT !.op = "refund", !.o = o, !.cents = cents, !.row = orders[o]]
  <2>1. UpToDate(t)
    OBVIOUS
  <2> QED
    BY <1>7, <2>1, AloneTx DEF BeginRefund
<1>8. ASSUME NEW i \in DOMAIN refunds[o], NEW op \in {"complete", "reject"},
             BeginProcess(s, o, i, op)
      PROVE  AloneInv'
  <2> DEFINE t == [Idle EXCEPT !.op = op, !.o = o, !.idx = i,
                               !.cents = refunds[o][i].cents, !.row = orders[o]]
  <2>1. UpToDate(t)
    OBVIOUS
  <2> QED
    BY <1>8, <2>1, AloneTx DEF BeginProcess
<1> QED
  BY <1>1, <1>2, <1>3, <1>4, <1>5, <1>6, <1>7, <1>8 DEF BeginOnOrder

LEMMA AloneOther ==
  ASSUME OneSession, AloneInv, BooksInv', NEW s \in Sessions
  PROVE  /\ \A u \in Users : BeginMyWallet(s, u) => AloneInv'
         /\ \A u \in Users, cents \in Prices \ {0} : BeginGrant(s, u, cents) => AloneInv'
         /\ BeginExpire(s) => AloneInv'
         /\ ReadAccount(s) => AloneInv'
         /\ Refused(s) \/ Crash(s) => AloneInv'
<1> USE DEF UpToDate, OnOrder, Inserts, Idle, Begin
<1>2. ASSUME NEW u \in Users, BeginMyWallet(s, u) PROVE AloneInv'
  <2> DEFINE t == [Idle EXCEPT !.op = "my_wallet", !.row = [NoOrder EXCEPT !.user = u]]
  <2>1. UpToDate(t)
    OBVIOUS
  <2> QED
    BY <1>2, <2>1, AloneTx DEF BeginMyWallet
<1>3. ASSUME NEW u \in Users, NEW cents \in Prices \ {0}, BeginGrant(s, u, cents)
      PROVE  AloneInv'
  <2> DEFINE t == [Idle EXCEPT !.op = "grant", !.cents = cents,
                               !.row = [NoOrder EXCEPT !.user = u]]
  <2>1. UpToDate(t)
    OBVIOUS
  <2> QED
    BY <1>3, <2>1, AloneTx DEF BeginGrant
<1>4. ASSUME BeginExpire(s) PROVE AloneInv'
  <2> DEFINE t == [Idle EXCEPT !.op = "expire", !.batch = DueOrders]
  <2>1. UpToDate(t)
    BY DEF DueOrders
  <2> QED
    BY <1>4, <2>1, AloneTx DEF BeginExpire
<1>5. ASSUME ReadAccount(s) PROVE AloneInv'
  <2> DEFINE t == [tx[s] EXCEPT !.acct = wallet[tx[s].row.user], !.holds = TRUE]
  <2>1. tx[s] \in Tx /\ tx' = [tx EXCEPT ![s] = t] /\ UNCHANGED db
    BY <1>5 DEF ReadAccount, AloneInv, BooksInv, HeardInv, IInv, TypeOK, Tx
  <2>2. /\ t.op = tx[s].op /\ t.o = tx[s].o /\ t.row = tx[s].row
        /\ t.batch = tx[s].batch /\ t.acct = wallet[t.row.user]
    BY <2>1 DEF Tx
  <2> HIDE DEF t
  <2>3. UpToDate(t)
    BY <2>2 DEF AloneInv, UpToDate, Inserts
  <2> QED
    BY <2>1, <2>3, AloneTx
<1>6. ASSUME Refused(s) \/ Crash(s) PROVE AloneInv'
  <2>1. UpToDate(Idle)
    OBVIOUS
  <2> QED
    BY <1>6, <2>1, AloneTx DEF Refused, Crash
<1> QED
  BY <1>2, <1>3, <1>4, <1>5, <1>6

\* What a commit writes when the row it has read is the row of the table.
LEMMA AloneWrite ==
  ASSUME AloneInv, NEW t \in Tx, t.o \in Orders, t.row = orders[t.o],
         NEW st, NEW pm, WriteOrder(t, st, pm), NEW o \in Orders
  PROVE  /\ orders'[o].status = IF o = t.o THEN st ELSE orders[o].status
         /\ orders'[o].user = orders[o].user /\ orders'[o].key = orders[o].key
         /\ orders'[o].kind = orders[o].kind
<1>1. orders \in [Orders -> OrderRow]
  BY DEF AloneInv, BooksInv, HeardInv, IInv, TypeOK
<1> QED
  BY <1>1 DEF WriteOrder, Written, OrderRow

\* Keys stay apart when no order gets another key, or a new one gets a free key.
LEMMA KeysKept ==
  ASSUME AloneInv, NEW t \in Tx,
         \/ \A o \in Orders : orders'[o].user = orders[o].user /\ orders'[o].key = orders[o].key
         \/ /\ Hits(t.row.user, t.row.key) = {}
            /\ \A o \in Orders :
                 IF o = t.o THEN orders'[o].user = t.row.user /\ orders'[o].key = t.row.key
                 ELSE orders'[o].user = orders[o].user /\ orders'[o].key = orders[o].key
  PROVE  OneOrderPerKey'
BY DEF AloneInv, OneOrderPerKey, Hits

\* Payments of an order to which one that did not succeed is added.
LEMMA UnpaidAppend ==
  ASSUME NEW q \in Seq(PaymentRow), NEW r \in PaymentRow, r.status # "succeeded",
         \A i \in DOMAIN q : q[i].status # "succeeded"
  PROVE  \A i \in DOMAIN Append(q, r) : Append(q, r)[i].status # "succeeded"
<1>1. \A i \in DOMAIN Append(q, r) : \/ Append(q, r)[i] = r
                                    \/ (i \in DOMAIN q /\ Append(q, r)[i] = q[i])
  OBVIOUS
<1> QED
  BY <1>1

LEMMA AloneCommits ==
  ASSUME OneSession, AloneInv, NEW s \in Sessions, Commit(s)
  PROVE  /\ OneOrderPerKey' /\ \A o \in Orders : HoldsNothing(o)'
         /\ \A u \in Users : AccountAgrees(u)'
<1>1. IInv /\ Posts(tx[s]) /\ Knows(tx[s]) /\ UpToDate(tx[s])
  BY DEF AloneInv, BooksInv, HeardInv
<1>2. /\ orders \in [Orders -> OrderRow] /\ payments \in [Orders -> Seq(PaymentRow)]
      /\ active \in [Orders -> Nat]
  BY <1>1 DEF IInv, TypeOK, PaymentRow
<1>3. \A o \in Orders : HoldsNothing(o)
  BY DEF AloneInv
<1>4. ASSUME UNCHANGED <<wallet, ledger>> PROVE \A u \in Users : AccountAgrees(u)'
  BY <1>4 DEF AloneInv, AccountAgrees
<1>5. CASE CommitCreate(s)
  <2>1. PICK t \in Tx : t = tx[s] /\ t.op = "create"
    BY <1>1, <1>5, ReadyStep DEF CommitCreate, Ops
  <2>2. /\ t.o \in Orders /\ orders[t.o].status = "absent"
        /\ t.row.payable > 0 => t.row.status = "pending_payment"
        /\ Hits(t.row.user, t.row.key) = {}
    BY <1>1, <2>1 DEF Knows, Inserts, UpToDate
  <2>3. payments[t.o] = <<>>
    BY <2>2 DEF AloneInv, BooksInv
  <2>4. PICK row : /\ orders' = [orders EXCEPT ![t.o] = row]
                   /\ row.user = t.row.user /\ row.key = t.row.key
                   /\ row.status \in {"pending_payment", "paid"}
    <3>1. /\ [t.row EXCEPT !.status = "paid"].status = "paid"
          /\ [t.row EXCEPT !.status = "paid"].user = t.row.user
          /\ [t.row EXCEPT !.status = "paid"].key = t.row.key
      BY DEF Tx, OrderRow
    <3> QED
      BY <1>5, <2>1, <2>2, <3>1 DEF CommitCreate
  <2>5. \A o \in Orders : orders'[o] = IF o = t.o THEN row ELSE orders[o]
    BY <1>2, <2>4
  <2>6. UNCHANGED <<payments, wallet, ledger>>
        /\ \A o \in Orders : o # t.o => active'[o] = active[o]
    BY <1>2, <1>5, <2>1 DEF CommitCreate, OnPaid
  <2>7. \A o \in Orders : HoldsNothing(o)'
    BY <1>3, <2>3, <2>4, <2>5, <2>6 DEF HoldsNothing, Unpaid
  <2>8. OneOrderPerKey'
    BY <2>2, <2>4, <2>5, KeysKept
  <2> QED
    BY <1>4, <2>6, <2>7, <2>8
<1>6. CASE CommitTopup(s)
  <2>1. PICK t \in Tx : /\ t = tx[s] /\ t.op = "topup" /\ GoodTx(t)
                        /\ NeedsAccount(t) => t.holds
    BY <1>1, <1>6, ReadyStep DEF CommitTopup, Ops
  <2>2. /\ t.o \in Orders /\ orders[t.o].status = "absent" /\ t.row.status = "pending_payment"
        /\ Hits(t.row.user, t.row.key) = {} /\ t.method \in Methods
    BY <1>1, <2>1 DEF Knows, Inserts, UpToDate, GoodTx
  <2>3. payments[t.o] = <<>>
    BY <2>2 DEF AloneInv, BooksInv
  <2> DEFINE row == [t.row EXCEPT !.status = IF Immediate(t.method) THEN "paid" ELSE @,
                                  !.pay_method = t.method]
  <2>4. orders' = [orders EXCEPT ![t.o] = row] /\ Post(t)
        /\ payments' = [payments EXCEPT ![t.o] = Append(@, NewPayment(t.method))]
        /\ (OnPaid(t) \/ UNCHANGED active)
    BY <1>6, <2>1 DEF CommitTopup, Post, OnPaid
  <2>5. /\ row.user = t.row.user /\ row.key = t.row.key
        /\ row.status = IF Immediate(t.method) THEN "paid" ELSE "pending_payment"
    BY <2>2 DEF Tx, OrderRow
  <2> HIDE DEF row
  <2>6. \A o \in Orders : /\ orders'[o] = IF o = t.o THEN row ELSE orders[o]
                          /\ o # t.o => active'[o] = active[o] /\ payments'[o] = payments[o]
    BY <1>2, <2>4 DEF OnPaid
  <2>7. ~Immediate(t.method) => Unpaid(t.o)'
    <3>1. payments'[t.o] = Append(payments[t.o], NewPayment(t.method))
      BY <1>2, <2>2, <2>4
    <3>2. NewPayment(t.method) \in PaymentRow
          /\ (~Immediate(t.method) => NewPayment(t.method).status # "succeeded")
      BY <2>2 DEF NewPayment, PaymentRow
    <3> QED
      BY <1>2, <2>2, <2>3, <3>1, <3>2, UnpaidAppend DEF Unpaid
  <2>8. \A o \in Orders : HoldsNothing(o)'
    BY <1>3, <2>5, <2>6, <2>7 DEF HoldsNothing, Unpaid, PAYABLE_STATUSES
  <2>9. OneOrderPerKey'
    BY <2>2, <2>5, <2>6, KeysKept
  <2> QED
    BY <2>1, <2>4, <2>8, <2>9, AloneWallet
<1>7. CASE CommitPay(s)
  <2>1. PICK t \in Tx : /\ t = tx[s] /\ t.op = "pay" /\ GoodTx(t) /\ t.o \in Orders
                        /\ NeedsAccount(t) => t.holds
    BY <1>1, <1>7, ReadyOnOrder DEF CommitPay, OnOrder
  <2>2. /\ t.method \in Methods /\ t.row = orders[t.o]
        /\ t.row.status \in PAYABLE_STATUSES
    BY <1>1, <2>1 DEF GoodTx, OnOrder, UpToDate
  <2>3. /\ WriteOrder(t, IF Immediate(t.method) THEN "paid" ELSE "pending_payment", t.method)
        /\ payments' = [payments EXCEPT ![t.o] = Append(@, NewPayment(t.method))]
        /\ Post(t) /\ (OnPaid(t) \/ UNCHANGED active)
    BY <1>7, <2>1 DEF CommitPay, WriteOrder, Post, OnPaid
  <2>4. \A o \in Orders :
          /\ orders'[o].status = IF o = t.o
               THEN (IF Immediate(t.method) THEN "paid" ELSE "pending_payment")
               ELSE orders[o].status
          /\ orders'[o].user = orders[o].user /\ orders'[o].key = orders[o].key
          /\ orders'[o].kind = orders[o].kind
    BY <2>1, <2>2, <2>3, AloneWrite
  <2>5. \A o \in Orders : o # t.o => active'[o] = active[o] /\ payments'[o] = payments[o]
    BY <1>2, <2>3 DEF OnPaid
  <2>6. ~Immediate(t.method) => Unpaid(t.o)'
    <3>1. payments'[t.o] = Append(payments[t.o], NewPayment(t.method))
      BY <1>2, <2>1, <2>3
    <3>2. NewPayment(t.method) \in PaymentRow
          /\ (~Immediate(t.method) => NewPayment(t.method).status # "succeeded")
      BY <2>2 DEF NewPayment, PaymentRow
    <3>3. Unpaid(t.o)
      BY <1>3, <2>1, <2>2 DEF HoldsNothing
    <3> QED
      BY <1>2, <2>1, <3>1, <3>2, <3>3, UnpaidAppend DEF Unpaid
  <2>7. \A o \in Orders : HoldsNothing(o)'
    BY <1>3, <2>4, <2>5, <2>6 DEF HoldsNothing, Unpaid, PAYABLE_STATUSES
  <2>8. OneOrderPerKey'
    BY <2>4, KeysKept
  <2> QED
    BY <2>1, <2>3, <2>7, <2>8, AloneWallet
<1>8. CASE CommitCancel(s) \/ CommitClose(s)
  <2>1. PICK t \in Tx : /\ t = tx[s] /\ t.o \in Orders
                        /\ \/ (t.op = "cancel" /\ CommitCancel(s))
                           \/ (t.op = "close" /\ CommitClose(s))
    <3>1. CASE CommitCancel(s)
      BY <1>1, <3>1, ReadyOnOrder DEF CommitCancel, OnOrder
    <3>2. CASE CommitClose(s)
      BY <1>1, <3>2, ReadyOnOrder DEF CommitClose, OnOrder
    <3> QED
      BY <1>8, <3>1, <3>2
  <2>2. t.row = orders[t.o] /\ (t.op = "cancel" => t.row.status \in PAYABLE_STATUSES)
    BY <1>1, <2>1 DEF UpToDate, OnOrder
  <2>3. PICK st \in {"cancelled", "closed"} :
          WriteOrder(t, st, t.row.pay_method) /\ (st = "cancelled" => t.op = "cancel")
    BY <2>1 DEF CommitCancel, CommitClose, WriteOrder
  <2>4. \A o \in Orders :
          /\ orders'[o].status = IF o = t.o THEN st ELSE orders[o].status
          /\ orders'[o].user = orders[o].user /\ orders'[o].key = orders[o].key
          /\ orders'[o].kind = orders[o].kind
    BY <2>1, <2>2, <2>3, AloneWrite
  <2>5. UNCHANGED <<payments, active, wallet, ledger>>
    BY <2>1 DEF CommitCancel, CommitClose
  <2>6. \A o \in Orders : HoldsNothing(o)'
    BY <1>3, <2>2, <2>3, <2>4, <2>5 DEF HoldsNothing, Unpaid, PAYABLE_STATUSES
  <2>7. OneOrderPerKey'
    BY <2>4, KeysKept
  <2> QED
    BY <1>4, <2>5, <2>6, <2>7
<1>9. CASE CommitExpire(s)
  <2>1. PICK t \in Tx : t = tx[s]
    BY <1>1, <1>9, ReadyStep DEF CommitExpire, Ops
  <2>2. \A o \in t.batch : orders[o].status \in PAYABLE_STATUSES
    BY <1>1, <2>1 DEF UpToDate
  <2>3. \A o \in Orders :
          /\ orders'[o].status = IF o \in t.batch THEN "cancelled" ELSE orders[o].status
          /\ orders'[o].user = orders[o].user /\ orders'[o].key = orders[o].key
          /\ orders'[o].kind = orders[o].kind
    BY <1>2, <1>9, <2>1 DEF CommitExpire, OrderRow
  <2>4. UNCHANGED <<payments, active, wallet, ledger>>
    BY <1>9 DEF CommitExpire
  <2>5. \A o \in Orders : HoldsNothing(o)'
    BY <1>3, <2>2, <2>3, <2>4 DEF HoldsNothing, Unpaid
  <2>6. OneOrderPerKey'
    BY <2>1, <2>3, KeysKept
  <2> QED
    BY <1>4, <2>4, <2>5, <2>6
<1>10. CASE CommitNotifyFailed(s)
  <2>1. PICK t \in Tx : t = tx[s] /\ t.o \in Orders
    BY <1>1, <1>10, ReadyOnOrder DEF CommitNotifyFailed, OnOrder
  <2>2. /\ UNCHANGED <<orders, active, wallet, ledger>>
        /\ payments' = [payments EXCEPT ![t.o][t.idx].status = "failed"]
    BY <1>10, <2>1 DEF CommitNotifyFailed
  <2>3. \A o \in Orders : Unpaid(o) => Unpaid(o)'
    <3>1. ASSUME NEW o \in Orders, NEW i \in DOMAIN payments[o]
          PROVE  payments[o][i] \in PaymentRow
      BY <1>2
    <3> QED
      BY <1>2, <2>1, <2>2, <3>1 DEF Unpaid, PaymentRow
  <2>4. \A o \in Orders : HoldsNothing(o)'
    BY <1>3, <2>2, <2>3 DEF HoldsNothing
  <2>5. OneOrderPerKey'
    BY <2>1, <2>2, KeysKept
  <2> QED
    BY <1>4, <2>2, <2>4, <2>5
<1>11. CASE CommitNotify(s)
  <2>1. PICK t \in Tx : /\ t = tx[s] /\ t.op = "notify_ok" /\ t.o \in Orders
                        /\ NeedsAccount(t) => t.holds
    BY <1>1, <1>11, ReadyOnOrder DEF CommitNotify, OnOrder
  <2>2. t.row = orders[t.o]
    BY <1>1, <2>1 DEF UpToDate, OnOrder
  <2>3. /\ WriteOrder(t, "paid", t.row.pay_method) /\ Post(t) /\ OnPaid(t)
        /\ payments' = [payments EXCEPT ![t.o][t.idx].status = "succeeded"]
    BY <1>11, <2>1 DEF CommitNotify, WriteOrder, Post, OnPaid
  <2>4. \A o \in Orders :
          /\ orders'[o].status = IF o = t.o THEN "paid" ELSE orders[o].status
          /\ orders'[o].user = orders[o].user /\ orders'[o].key = orders[o].key
          /\ orders'[o].kind = orders[o].kind
    BY <2>1, <2>2, <2>3, AloneWrite
  <2>5. \A o \in Orders : o # t.o => active'[o] = active[o] /\ payments'[o] = payments[o]
    BY <1>2, <2>3 DEF OnPaid
  <2>6. \A o \in Orders : HoldsNothing(o)'
    BY <1>3, <2>4, <2>5 DEF HoldsNothing, Unpaid, PAYABLE_STATUSES
  <2>7. OneOrderPerKey'
    BY <2>4, KeysKept
  <2> QED
    BY <2>1, <2>3, <2>6, <2>7, AloneWallet
<1>12. CASE CommitRefund(s) \/ CommitComplete(s)
  <2>1. PICK t \in Tx : /\ t = tx[s] /\ t.op \in OnOrder /\ t.o \in Orders
                        /\ NeedsAccount(t) => t.holds
    <3>1. PICK op \in {"refund", "complete"} : Ready(s, op)
      BY <1>12 DEF CommitRefund, CommitComplete
    <3> QED
      BY <1>1, <3>1, ReadyOnOrder DEF OnOrder
  <2>2. t.row = orders[t.o]
    BY <1>1, <2>1 DEF UpToDate
  <2>3. PICK st \in {"refunded", "refunding"} :
          /\ WriteOrder(t, st, t.row.pay_method)
          /\ IF st = "refunded" THEN OnRefunded(t) ELSE UNCHANGED active
    BY <1>12, <2>1 DEF CommitRefund, CommitComplete, WriteOrder, OnRefunded
  <2>4. \A o \in Orders :
          /\ orders'[o].status = IF o = t.o THEN st ELSE orders[o].status
          /\ orders'[o].user = orders[o].user /\ orders'[o].key = orders[o].key
          /\ orders'[o].kind = orders[o].kind
    BY <2>1, <2>2, <2>3, AloneWrite
  <2>5. Post(t) /\ UNCHANGED payments
    BY <1>12, <2>1 DEF CommitRefund, CommitComplete, Post
  <2>6. \A o \in Orders : HoldsNothing(o)'
    <3>1. \A o \in Orders :
            /\ o # t.o => active'[o] = active[o]
            /\ (o = t.o /\ st = "refunded") =>
                 active'[o] = IF t.row.kind = "membership" THEN 0 ELSE active[o]
            /\ st # "refunded" => active'[o] = active[o]
      BY <1>2, <2>1, <2>3 DEF OnRefunded
    <3>2. t.row.kind = orders[t.o].kind
      BY <2>2
    <3>3. ASSUME NEW o \in Orders PROVE HoldsNothing(o)'
      <4>1. CASE o = t.o
        BY <1>3, <2>3, <2>4, <3>1, <3>2, <4>1 DEF HoldsNothing, PAYABLE_STATUSES
      <4>2. CASE o # t.o
        BY <1>3, <2>4, <2>5, <3>1, <4>2 DEF HoldsNothing, Unpaid
      <4> QED
        BY <4>1, <4>2
    <3> QED
      BY <3>3
  <2>7. OneOrderPerKey'
    BY <2>4, KeysKept
  <2> QED
    BY <2>1, <2>5, <2>6, <2>7, AloneWallet
<1>13. CASE CommitReject(s)
  <2>1. PICK t \in Tx : t = tx[s] /\ t.op = "reject" /\ t.o \in Orders
    BY <1>1, <1>13, ReadyOnOrder DEF CommitReject, OnOrder
  <2>2. t.row = orders[t.o]
    BY <1>1, <2>1 DEF UpToDate, OnOrder
  <2>3. WriteOrder(t, "paid", t.row.pay_method) /\ UNCHANGED <<payments, active, wallet, ledger>>
    BY <1>13, <2>1 DEF CommitReject, WriteOrder
  <2>4. \A o \in Orders :
          /\ orders'[o].status = IF o = t.o THEN "paid" ELSE orders[o].status
          /\ orders'[o].user = orders[o].user /\ orders'[o].key = orders[o].key
          /\ orders'[o].kind = orders[o].kind
    BY <2>1, <2>2, <2>3, AloneWrite
  <2>5. \A o \in Orders : HoldsNothing(o)'
    BY <1>3, <2>3, <2>4 DEF HoldsNothing, Unpaid, PAYABLE_STATUSES
  <2>6. OneOrderPerKey'
    BY <2>4, KeysKept
  <2> QED
    BY <1>4, <2>3, <2>5, <2>6
<1>14. CASE CommitWallet(s)
  <2>1. PICK op \in {"grant", "my_wallet"} : Ready(s, op)
    BY <1>14 DEF CommitWallet
  <2>2. PICK t \in Tx : t = tx[s] /\ (NeedsAccount(t) => t.holds)
    BY <1>1, <2>1, ReadyStep DEF Ops
  <2>3. Post(t) /\ UNCHANGED <<orders, payments, active>>
    BY <1>14, <2>2 DEF CommitWallet, Post
  <2>4. \A o \in Orders : HoldsNothing(o)'
    BY <1>3, <2>3 DEF HoldsNothing, Unpaid
  <2>5. OneOrderPerKey'
    BY <2>2, <2>3, KeysKept
  <2> QED
    BY <2>2, <2>3, <2>4, <2>5, AloneWallet
<1> QED
  BY <1>5, <1>6, <1>7, <1>8, <1>9, <1>10, <1>11, <1>12, <1>13, <1>14 DEF Commit

LEMMA AloneStep ==
  ASSUME OneSession, AloneInv, [Next]_vars
  PROVE  AloneInv'
<1>1. BooksInv'
  BY BooksStep DEF AloneInv
<1> USE DEF Sessions
<1>2. ASSUME NEW s \in Clients, NEW o \in Orders, BeginOnOrder(s, o) PROVE AloneInv'
  BY <1>1, <1>2, AloneBegin
<1>3. ASSUME NEW s \in Sessions, Commit(s) PROVE AloneInv'
  <2>1. tx' = [tx EXCEPT ![s] = Idle] /\ tx \in [Sessions -> Tx]
    BY <1>3, HeardCommits DEF AloneInv, BooksInv, HeardInv, IInv, TypeOK
  <2>2. \A r \in Sessions : tx'[r] = Idle
    BY <2>1 DEF OneSession
  <2>3. \A r \in Sessions : UpToDate(tx[r])'
    BY <2>2 DEF UpToDate, Idle, OnOrder, Inserts
  <2> QED
    BY <1>1, <1>3, <2>3, AloneCommits DEF AloneInv
<1>4. CASE \/ \E s \in Clients, u \in Users : BeginMyWallet(s, u)
           \/ \E s \in Clients, u \in Users, cents \in Prices \ {0} : BeginGrant(s, u, cents)
           \/ \E s \in Workers : BeginExpire(s)
           \/ \E s \in Sessions : ReadAccount(s) \/ Refused(s) \/ Crash(s)
  BY <1>1, <1>4, AloneOther
<1>5. CASE UNCHANGED vars \/ \E o \in Orders : PassDeadline(o)
  <2>1. UNCHANGED <<orders, payments, wallet, ledger, active, tx>>
    BY <1>5 DEF vars, db, PassDeadline
  <2> QED
    BY <1>1, <2>1
       DEF AloneInv, AccountAgrees, HoldsNothing, Unpaid, OneOrderPerKey, UpToDate, Hits
<1> QED
  BY <1>2, <1>3, <1>4, <1>5 DEF Next

LEMMA AloneInitially == Init => AloneInv
<1> SUFFICES ASSUME Init PROVE AloneInv
  OBVIOUS
<1>1. BooksInv
  BY BooksInitially
<1>2. \A u \in Users : AccountAgrees(u)
  BY DEF Init, AccountAgrees, Reconciles, NoAccount, NoRows
<1>3. \A o \in Orders : HoldsNothing(o)
  BY DEF Init, HoldsNothing, Unpaid, NoOrder
<1>4. OneOrderPerKey
  BY DEF Init, OneOrderPerKey, Hits, NoOrder
<1>5. \A s \in Sessions : UpToDate(tx[s])
  BY DEF Init, UpToDate, Idle, OnOrder, Inserts
<1> QED
  BY <1>1, <1>2, <1>3, <1>4, <1>5 DEF AloneInv

LEMMA AloneInvariant == ASSUME OneSession PROVE Spec => []AloneInv
<1>1. AloneInv /\ [Next]_vars => AloneInv'
  BY AloneStep
<1> QED
  BY <1>1, AloneInitially, PTL DEF Spec

\* Served one at a time, any number of requests and crashes leaves every account
\* the sum of its ledger, with a version that has counted each posting (_entry).
THEOREM LedgerStaysReconciled == ASSUME OneSession PROVE Spec => []LedgerReconciles
BY AloneInvariant, AloneIsMeant, PTL

\* Served one at a time, no request leaves money behind an order that is open or
\* cancelled, nor a membership behind one that is refunded.
THEOREM OverHoldsNothing == ASSUME OneSession PROVE Spec => []OverIsOver
BY AloneInvariant, AloneIsMeant, PTL

\* Served one at a time, a repeated Idempotency-Key finds the order it made: the
\* lookup of create_order suffices, without a unique index.
THEOREM KeysStayUnique == ASSUME OneSession PROVE Spec => []OneOrderPerKey
BY AloneInvariant, AloneIsMeant, PTL
-----------------------------------------------------------------------------
(* What is refunded has been paid.                                         *)

\* The rows of a sequence of payments or refunds with one of some statuses.
Rows(q, st) == {i \in DOMAIN q : q[i].status \in st}
Completed(o) == Cardinality(Rows(refunds[o], {"completed"}))

\* The refunds of an order that are open or completed, and the one that it may
\* still ask for while it is paid.
Claims(o) == Cardinality(Rows(refunds[o], {"submitted", "completed"}))
               + (IF orders[o].status = "paid" THEN 1 ELSE 0)

\* No claim without a payment of its own, and none above the price.
Covered(o) ==
  /\ \A i \in DOMAIN refunds[o] : refunds[o][i].cents <= orders[o].payable
  /\ refunds[o] # <<>> => orders[o].payable > 0
  /\ booked[o].refunded <= Completed(o) * orders[o].payable
  /\ orders[o].payable > 0 => Claims(o) <= Succeeded(o)

\* The rows a request is about to write are as its guard has found them.
Asks(t) ==
  /\ t.op = "refund" => t.row.status = "paid" /\ 0 < t.cents /\ t.cents <= t.row.payable
  /\ t.op \in {"complete", "reject"} => refunds[t.o][t.idx].status = "submitted"
  /\ t.op \in {"notify_ok", "notify_fail"} => payments[t.o][t.idx].status # "succeeded"

CoverInv ==
  /\ AloneInv
  /\ \A o \in Orders : Covered(o)
  /\ \A s \in Sessions : Asks(tx[s])

\* Counting rows: one that is appended, and one whose status changes.
LEMMA RowsFinite ==
  ASSUME NEW R, NEW q \in Seq(R), NEW st
  PROVE  IsFiniteSet(Rows(q, st)) /\ Cardinality(Rows(q, st)) \in Nat
<1>1. Rows(q, st) \subseteq 1 .. Len(q)
  BY DEF Rows
<1>2. IsFiniteSet(1 .. Len(q))
  BY FS_Interval
<1> QED
  BY <1>1, <1>2, FS_Subset, FS_CardinalityType

LEMMA RowsAppend ==
  ASSUME NEW R, NEW q \in Seq(R), NEW r \in R, NEW st
  PROVE  Cardinality(Rows(Append(q, r), st)) = Cardinality(Rows(q, st)) +
           IF r.status \in st THEN 1 ELSE 0
<1> DEFINE n == Len(q) + 1
<1>1. /\ DOMAIN q = 1 .. Len(q) /\ DOMAIN Append(q, r) = 1 .. n /\ Len(q) \in Nat
      /\ \A i \in 1 .. Len(q) : Append(q, r)[i] = q[i]
      /\ Append(q, r)[n] = r
  OBVIOUS
<1>2. n \notin Rows(q, st)
  BY <1>1 DEF Rows
<1>3. IsFiniteSet(Rows(q, st)) /\ Cardinality(Rows(q, st)) \in Nat
  BY RowsFinite
<1>4. CASE r.status \in st
  <2>1. Rows(Append(q, r), st) = Rows(q, st) \cup {n}
    BY <1>1, <1>4 DEF Rows
  <2> HIDE DEF n
  <2>2. Cardinality(Rows(q, st) \cup {n}) = Cardinality(Rows(q, st)) + 1
    BY <1>2, <1>3, FS_AddElement
  <2> QED
    BY <1>4, <2>1, <2>2
<1>5. CASE r.status \notin st
  <2>1. Rows(Append(q, r), st) = Rows(q, st)
    BY <1>1, <1>5 DEF Rows
  <2> QED
    BY <1>3, <1>5, <2>1
<1> QED
  BY <1>4, <1>5

LEMMA RowsUpdate ==
  ASSUME NEW R, NEW q \in Seq(R), NEW p, DOMAIN p = DOMAIN q, NEW i \in DOMAIN q, NEW st,
         \A j \in DOMAIN q : j # i => p[j].status = q[j].status
  PROVE  Cardinality(Rows(p, st)) =
           Cardinality(Rows(q, st)) - (IF q[i].status \in st THEN 1 ELSE 0)
                                    + (IF p[i].status \in st THEN 1 ELSE 0)
<1> DEFINE T == Rows(q, st) \ {i}
<1>1. IsFiniteSet(Rows(q, st)) /\ Cardinality(Rows(q, st)) \in Nat
  BY RowsFinite
<1>2. /\ IsFiniteSet(T) /\ Cardinality(T) \in Nat
      /\ Cardinality(T) = IF i \in Rows(q, st) THEN Cardinality(Rows(q, st)) - 1
                          ELSE Cardinality(Rows(q, st))
  BY <1>1, FS_RemoveElement, FS_CardinalityType
<1>3. i \in Rows(q, st) <=> q[i].status \in st
  BY DEF Rows
<1>4. i \notin T
  OBVIOUS
<1>5. CASE p[i].status \in st
  <2>1. Rows(p, st) = T \cup {i}
    BY <1>5 DEF Rows
  <2>2. Cardinality(T \cup {i}) = Cardinality(T) + 1
    BY <1>2, <1>4, FS_AddElement
  <2> HIDE DEF T
  <2> QED
    BY <1>1, <1>2, <1>3, <1>5, <2>1, <2>2
<1>6. CASE p[i].status \notin st
  <2>1. Rows(p, st) = T
    BY <1>6 DEF Rows
  <2> HIDE DEF T
  <2> QED
    BY <1>1, <1>2, <1>3, <1>6, <2>1
<1> QED
  BY <1>5, <1>6

LEMMA SucceededRows == \A o \in Orders : Succeeded(o) = Cardinality(Rows(payments[o], {"succeeded"}))
BY DEF Succeeded, Rows

LEMMA TimesGrows == \A a, b, p \in Nat : a <= b => a * p <= b * p
<1> SUFFICES ASSUME NEW a \in Nat, NEW b \in Nat, NEW p \in Nat, a <= b PROVE a * p <= b * p
  OBVIOUS
<1>1. PICK d \in Nat : b = a + d
  <2>1. b - a \in Nat /\ b = a + (b - a)
    OBVIOUS
  <2> QED
    BY <2>1
<1>2. (a + d) * p = a * p + d * p
  OBVIOUS
<1>3. a * p \in Nat /\ d * p \in Nat
  OBVIOUS
<1> QED
  BY <1>1, <1>2, <1>3

LEMMA OneMoreRefund == \A p, c \in Nat : (c + 1) * p = c * p + p
OBVIOUS

\* The counts of an order are natural numbers.
LEMMA CoverTyped ==
  ASSUME IInv, NEW o \in Orders
  PROVE  /\ orders[o].payable \in Nat /\ booked[o].refunded \in Nat
         /\ payments[o] \in Seq(PaymentRow) /\ refunds[o] \in Seq(RefundRow)
         /\ Completed(o) \in Nat /\ Claims(o) \in Nat /\ Succeeded(o) \in Nat
         /\ Cardinality(Rows(refunds[o], {"submitted", "completed"})) \in Nat
<1>1. /\ orders[o].payable \in Nat /\ booked[o].refunded \in Nat
      /\ payments[o] \in Seq(PaymentRow) /\ refunds[o] \in Seq(RefundRow)
  BY DEF IInv, TypeOK, OrderRow, PaymentRow, RefundRow
<1>2. /\ Completed(o) \in Nat
      /\ Cardinality(Rows(refunds[o], {"submitted", "completed"})) \in Nat
      /\ Cardinality(Rows(payments[o], {"succeeded"})) \in Nat
  <2> DEFINE P == PaymentRow
             F == RefundRow
  <2>1. payments[o] \in Seq(P) /\ refunds[o] \in Seq(F)
    BY <1>1
  <2> HIDE DEF P, F
  <2> QED
    BY <2>1, RowsFinite DEF Completed
<1> QED
  BY <1>1, <1>2, SucceededRows DEF Claims

LEMMA CoverIsMeant == CoverInv => RefundsCovered
<1> SUFFICES ASSUME CoverInv, NEW o \in Orders
             PROVE  booked[o].refunded <= Succeeded(o) * orders[o].payable
  BY DEF RefundsCovered
<1> DEFINE p == orders[o].payable
           c == Completed(o)
           n == Succeeded(o)
<1>1. IInv /\ Covered(o)
  BY DEF CoverInv, AloneInv, BooksInv, HeardInv
<1>2. p \in Nat /\ c \in Nat /\ n \in Nat /\ booked[o].refunded \in Nat
  BY <1>1, CoverTyped
<1>3. booked[o].refunded <= c * p
  BY <1>1 DEF Covered
<1>4. CASE p > 0
  <2>1. c <= Cardinality(Rows(refunds[o], {"submitted", "completed"}))
    <3>1. refunds[o] \in Seq(RefundRow)
      BY <1>1, CoverTyped
    <3>2. IsFiniteSet(Rows(refunds[o], {"submitted", "completed"}))
      <4> DEFINE F == RefundRow
      <4>1. refunds[o] \in Seq(F)
        BY <3>1
      <4> HIDE DEF F
      <4> QED
        BY <4>1, RowsFinite
    <3>3. Rows(refunds[o], {"completed"}) \subseteq Rows(refunds[o], {"submitted", "completed"})
      BY DEF Rows
    <3> QED
      BY <3>2, <3>3, FS_Subset DEF Completed
  <2>2. c <= n
    BY <1>1, <1>2, <1>4, <2>1, CoverTyped DEF Covered, Claims
  <2> HIDE DEF p, c, n
  <2>3. c * p <= n * p /\ c * p \in Nat /\ n * p \in Nat
    BY <1>2, <2>2, TimesGrows
  <2> QED
    BY <1>2, <1>3, <2>3 DEF p, n
<1>5. CASE p = 0
  <2> HIDE DEF c, n
  <2>1. c * p = 0 /\ n * p = 0
    BY <1>2, <1>5
  <2> QED
    BY <1>2, <1>3, <2>1 DEF n
<1> QED
  BY <1>2, <1>4, <1>5

\* What a step makes of an order whose claims grow no faster than its payments.
PaidFlag(o) == IF orders[o].status = "paid" THEN 1 ELSE 0

LEMMA CoverKept ==
  ASSUME CoverInv, NEW o \in Orders, NEW x \in Int, NEW y \in Int, NEW k \in {0, 1}, x <= y,
         orders'[o].payable = orders[o].payable,
         \A i \in DOMAIN refunds'[o] : refunds'[o][i].cents <= orders[o].payable,
         refunds'[o] # <<>> => orders[o].payable > 0,
         Completed(o)' = Completed(o) + k, booked'[o].refunded \in Nat,
         booked'[o].refunded <= booked[o].refunded + k * orders[o].payable,
         Claims(o)' = Claims(o) + x, Succeeded(o)' = Succeeded(o) + y
  PROVE  Covered(o)'
<1> DEFINE p == orders[o].payable
           c == Completed(o)
<1>1. IInv /\ Covered(o)
  BY DEF CoverInv, AloneInv, BooksInv, HeardInv
<1>2. p \in Nat /\ c \in Nat /\ booked[o].refunded \in Nat
      /\ Claims(o) \in Nat /\ Succeeded(o) \in Nat
  BY <1>1, CoverTyped
<1>3. booked[o].refunded <= c * p
  BY <1>1 DEF Covered
<1>4. booked'[o].refunded <= (c + k) * p
  <2> DEFINE b == booked[o].refunded
  <2>1. b \in Nat /\ b <= c * p /\ booked'[o].refunded \in Nat
        /\ booked'[o].refunded <= b + k * p
    BY <1>2, <1>3
  <2> HIDE DEF p, c, b
  <2>2. CASE k = 0
    <3>1. k * p = 0 /\ c + k = c /\ c * p \in Nat
      BY <1>2, <2>2
    <3> QED
      BY <2>1, <3>1
  <2>3. CASE k = 1
    <3>1. k * p = p /\ c + k = c + 1 /\ (c + 1) * p = c * p + p /\ c * p \in Nat
      BY <1>2, <2>3, OneMoreRefund
    <3> QED
      BY <1>2, <2>1, <3>1
  <2> QED
    BY <2>2, <2>3
<1>5. p > 0 => Claims(o) + x <= Succeeded(o) + y
  BY <1>1, <1>2 DEF Covered
<1> HIDE DEF c
<1> QED
  BY <1>4, <1>5 DEF Covered, c

\* A step that leaves the refunds of o alone.
LEMMA CoverSame ==
  ASSUME CoverInv, NEW o \in Orders, NEW y \in Int,
         orders'[o].payable = orders[o].payable, refunds'[o] = refunds[o],
         booked'[o].refunded = booked[o].refunded,
         Succeeded(o)' = Succeeded(o) + y, PaidFlag(o)' <= PaidFlag(o) + y
  PROVE  Covered(o)'
<1>1. IInv /\ Covered(o)
  BY DEF CoverInv, AloneInv, BooksInv, HeardInv
<1>2. /\ orders[o].payable \in Nat /\ booked[o].refunded \in Nat /\ Completed(o) \in Nat
      /\ Cardinality(Rows(refunds[o], {"submitted", "completed"})) \in Nat
  BY <1>1, CoverTyped
<1>3. Completed(o)' = Completed(o) + 0
  BY <1>2 DEF Completed
<1>4. booked'[o].refunded <= booked[o].refunded + 0 * orders[o].payable
  BY <1>2
<1>5. PICK x \in Int : x = PaidFlag(o)' - PaidFlag(o) /\ x <= y
  <2>1. PaidFlag(o) \in Int /\ PaidFlag(o)' \in Int
    BY DEF PaidFlag
  <2> QED
    BY <2>1
<1>6. Claims(o)' = Claims(o) + x
  BY <1>2, <1>5 DEF Claims, PaidFlag
<1>7. /\ \A i \in DOMAIN refunds'[o] : refunds'[o][i].cents <= orders[o].payable
      /\ refunds'[o] # <<>> => orders[o].payable > 0
  BY <1>1 DEF Covered
<1> QED
  BY <1>2, <1>3, <1>4, <1>5, <1>6, <1>7, CoverKept

\* A row that is inserted.
LEMMA CoverNew ==
  ASSUME CoverInv, NEW o \in Orders, orders[o].status = "absent",
         orders'[o].payable \in Nat, refunds'[o] = refunds[o],
         booked'[o].refunded = booked[o].refunded, Succeeded(o)' \in Nat,
         orders'[o].payable > 0 => PaidFlag(o)' <= Succeeded(o)'
  PROVE  Covered(o)'
<1>1. IInv /\ Covered(o)
  BY DEF CoverInv, AloneInv, BooksInv, HeardInv
<1>2. refunds[o] = <<>>
  BY <1>1 DEF IInv, OrdersOwned
<1>3. \A st : Rows(refunds[o], st) = {}
  BY <1>2 DEF Rows
<1>4. \A st : Cardinality(Rows(refunds[o], st)) = 0
  BY <1>3, FS_EmptySet
<1>5. booked[o].refunded = 0
  <2>1. booked[o].refunded <= 0 * orders[o].payable
    BY <1>1, <1>4 DEF Covered, Completed
  <2>2. orders[o].payable \in Nat /\ booked[o].refunded \in Nat
    BY <1>1, CoverTyped
  <2> QED
    BY <2>1, <2>2
<1>6. Completed(o)' = 0 /\ Claims(o)' = PaidFlag(o)'
  BY <1>4 DEF Completed, Claims, PaidFlag
<1>7. booked'[o].refunded <= Completed(o)' * orders'[o].payable
  BY <1>5, <1>6
<1> QED
  BY <1>2, <1>6, <1>7 DEF Covered

\* Payments that succeed.
LEMMA PaidAppend ==
  ASSUME IInv, NEW m \in Methods, NEW o \in Orders,
         payments'[o] = Append(payments[o], NewPayment(m))
  PROVE  Succeeded(o)' = Succeeded(o) + IF Immediate(m) THEN 1 ELSE 0
<1> DEFINE r == NewPayment(m)
           P == PaymentRow
<1>1. r \in P /\ (r.status \in {"succeeded"} <=> Immediate(m)) /\ payments[o] \in Seq(P)
  BY CoverTyped DEF NewPayment, PaymentRow
<1>2. payments'[o] = Append(payments[o], r)
  OBVIOUS
<1> HIDE DEF r, P
<1>3. Cardinality(Rows(Append(payments[o], r), {"succeeded"})) =
        Cardinality(Rows(payments[o], {"succeeded"})) +
          IF r.status \in {"succeeded"} THEN 1 ELSE 0
  BY <1>1, RowsAppend
<1>4. Succeeded(o)' = Cardinality(Rows(payments'[o], {"succeeded"}))
  BY DEF Succeeded, Rows
<1> QED
  BY <1>1, <1>2, <1>3, <1>4, SucceededRows

LEMMA PaidUpdate ==
  ASSUME IInv, NEW p \in Orders, NEW i \in DOMAIN payments[p], NEW st, NEW o \in Orders,
         payments[p][i].status # "succeeded",
         payments' = [payments EXCEPT ![p][i].status = st]
  PROVE  Succeeded(o)' = Succeeded(o) + IF o = p /\ st = "succeeded" THEN 1 ELSE 0
<1> DEFINE P == PaymentRow
<1>1. payments \in [Orders -> Seq(PaymentRow)]
  BY DEF IInv, TypeOK, PaymentRow
<1>2. payments'[o] = IF o = p THEN [payments[p] EXCEPT ![i].status = st] ELSE payments[o]
  BY <1>1
<1>3. Succeeded(o)' = Cardinality(Rows(payments'[o], {"succeeded"})) /\ Succeeded(o) \in Nat
  BY CoverTyped DEF Succeeded, Rows
<1>4. CASE o = p
  <2>1. \A j \in DOMAIN payments[o] : payments[o][j] \in PaymentRow
    BY <1>1
  <2>2. /\ DOMAIN payments'[o] = DOMAIN payments[o] /\ payments'[o][i].status = st
        /\ \A j \in DOMAIN payments[o] :
             j # i => payments'[o][j].status = payments[o][j].status
    BY <1>2, <1>4, <2>1 DEF PaymentRow
  <2>3. payments[o] \in Seq(P)
    BY <1>1
  <2> HIDE DEF P
  <2>4. Cardinality(Rows(payments'[o], {"succeeded"})) =
          Cardinality(Rows(payments[o], {"succeeded"}))
            - (IF payments[o][i].status \in {"succeeded"} THEN 1 ELSE 0)
            + (IF payments'[o][i].status \in {"succeeded"} THEN 1 ELSE 0)
    <3> DEFINE q == payments[o]
               r == payments'[o]
    <3>1. /\ q \in Seq(P) /\ i \in DOMAIN q /\ DOMAIN r = DOMAIN q
          /\ \A j \in DOMAIN q : j # i => r[j].status = q[j].status
      BY <1>4, <2>2, <2>3
    <3> HIDE DEF q, r
    <3>2. Cardinality(Rows(r, {"succeeded"})) =
            Cardinality(Rows(q, {"succeeded"}))
              - (IF q[i].status \in {"succeeded"} THEN 1 ELSE 0)
              + (IF r[i].status \in {"succeeded"} THEN 1 ELSE 0)
      BY <3>1, RowsUpdate
    <3> QED
      BY <3>2 DEF q, r
  <2> QED
    BY <1>3, <1>4, <2>2, <2>4, SucceededRows
<1>5. CASE o # p
  BY <1>2, <1>3, <1>5, SucceededRows
<1> QED
  BY <1>4, <1>5

\* A refund that is asked for, and one that is completed or rejected.
LEMMA CoverRefund ==
  ASSUME CoverInv, NEW p \in Orders, NEW cents \in Nat, 0 < cents,
         cents <= orders[p].payable, orders[p].status = "paid",
         NEW st \in {"submitted", "completed"}, NEW o \in Orders,
         refunds' = [refunds EXCEPT ![p] = Append(@, [cents |-> cents, status |-> st])],
         orders'[o].payable = orders[o].payable, UNCHANGED payments,
         IF o = p THEN orders'[o].status # "paid" ELSE orders'[o].status = orders[o].status,
         booked'[o].refunded = booked[o].refunded +
           IF o = p /\ st = "completed" THEN cents ELSE 0
  PROVE  Covered(o)'
<1> DEFINE r == [cents |-> cents, status |-> st]
           F == RefundRow
<1>1. IInv /\ Covered(o)
  BY DEF CoverInv, AloneInv, BooksInv, HeardInv
<1>2. refunds[o] \in Seq(F) /\ refunds \in [Orders -> Seq(F)] /\ r \in F
      /\ r.status = st /\ r.cents = cents
  BY <1>1, CoverTyped DEF IInv, TypeOK, RefundRow
<1>3. /\ orders[o].payable \in Nat /\ booked[o].refunded \in Nat /\ Completed(o) \in Nat
      /\ Succeeded(o) \in Nat
      /\ Cardinality(Rows(refunds[o], {"submitted", "completed"})) \in Nat
  BY <1>1, CoverTyped
<1>4. Succeeded(o)' = Succeeded(o) + 0
  BY <1>3 DEF Succeeded
<1>5. refunds'[o] = IF o = p THEN Append(refunds[o], r) ELSE refunds[o]
  BY <1>2
<1> HIDE DEF r, F
<1>6. CASE o = p
  <2> DEFINE k == IF st = "completed" THEN 1 ELSE 0
  <2>1. Completed(o)' = Completed(o) + k
    <3>1. Cardinality(Rows(Append(refunds[o], r), {"completed"})) =
            Cardinality(Rows(refunds[o], {"completed"})) +
              IF r.status \in {"completed"} THEN 1 ELSE 0
      BY <1>2, RowsAppend
    <3> QED
      BY <1>2, <1>5, <1>6, <3>1 DEF Completed
  <2>2. Claims(o)' = Claims(o) + 0
    <3>1. Cardinality(Rows(Append(refunds[o], r), {"submitted", "completed"})) =
            Cardinality(Rows(refunds[o], {"submitted", "completed"})) +
              IF r.status \in {"submitted", "completed"} THEN 1 ELSE 0
      BY <1>2, RowsAppend
    <3> QED
      BY <1>2, <1>3, <1>5, <1>6, <3>1 DEF Claims
  <2>3. \A i \in DOMAIN refunds'[o] : refunds'[o][i].cents <= orders[o].payable
    <3>1. \A i \in DOMAIN refunds'[o] :
            \/ refunds'[o][i] = r
            \/ (i \in DOMAIN refunds[o] /\ refunds'[o][i] = refunds[o][i])
      BY <1>2, <1>5, <1>6
    <3> QED
      BY <1>1, <1>2, <1>6, <3>1 DEF Covered
  <2>4. booked'[o].refunded \in Nat
        /\ booked'[o].refunded <= booked[o].refunded + k * orders[o].payable
    <3> DEFINE q == orders[o].payable
    <3>1. q \in Nat /\ cents <= q
      BY <1>3, <1>6
    <3>2. booked'[o].refunded = booked[o].refunded + IF st = "completed" THEN cents ELSE 0
      BY <1>6
    <3> HIDE DEF q
    <3>3. 1 * q = q /\ 0 * q = 0
      BY <3>1
    <3> QED
      BY <1>3, <3>1, <3>2, <3>3 DEF q
  <2>5. k \in {0, 1} /\ orders[o].payable > 0
    BY <1>3, <1>6
  <2> DEFINE x == 0
  <2>6. x \in Int /\ x <= 0 /\ Claims(o)' = Claims(o) + x
    BY <2>2
  <2> HIDE DEF k, x
  <2> QED
    BY SMTT(60), <1>4, <2>1, <2>3, <2>4, <2>5, <2>6, CoverKept
<1>7. CASE o # p
  <2>1. PaidFlag(o)' <= PaidFlag(o) + 0
    BY <1>7 DEF PaidFlag
  <2> QED
    BY <1>3, <1>4, <1>5, <1>7, <2>1, CoverSame
<1> QED
  BY <1>6, <1>7

LEMMA CoverProcess ==
  ASSUME CoverInv, NEW p \in Orders, NEW i \in DOMAIN refunds[p],
         refunds[p][i].status = "submitted",
         NEW st \in {"completed", "rejected"}, NEW o \in Orders,
         refunds' = [refunds EXCEPT ![p][i].status = st],
         orders'[o].payable = orders[o].payable, UNCHANGED payments,
         IF o = p THEN orders'[o].status = (IF st = "completed" THEN "refunded" ELSE "paid")
         ELSE orders'[o].status = orders[o].status,
         booked'[o].refunded = booked[o].refunded +
           IF o = p /\ st = "completed" THEN refunds[p][i].cents ELSE 0
  PROVE  Covered(o)'
<1> DEFINE F == RefundRow
           kept == {"submitted", "completed"}
<1>1. IInv /\ Covered(o)
  BY DEF CoverInv, AloneInv, BooksInv, HeardInv
<1>2. refunds[o] \in Seq(F) /\ refunds \in [Orders -> Seq(F)]
  BY <1>1, CoverTyped DEF IInv, TypeOK, RefundRow
<1>3. /\ orders[o].payable \in Nat /\ booked[o].refunded \in Nat /\ Completed(o) \in Nat
      /\ Succeeded(o) \in Nat /\ Cardinality(Rows(refunds[o], kept)) \in Nat
  BY <1>1, CoverTyped
<1>4. Succeeded(o)' = Succeeded(o) + 0
  BY <1>3 DEF Succeeded
<1>5. refunds'[o] = IF o = p THEN [refunds[p] EXCEPT ![i].status = st] ELSE refunds[o]
  BY <1>2
<1>6. CASE o = p
  <2>1. \A j \in DOMAIN refunds[o] : refunds[o][j] \in F
    <3> HIDE DEF F
    <3> QED
      BY <1>2
  <2>2. /\ DOMAIN refunds'[o] = DOMAIN refunds[o] /\ refunds'[o][i].status = st
        /\ \A j \in DOMAIN refunds[o] :
             /\ refunds'[o][j].cents = refunds[o][j].cents
             /\ j # i => refunds'[o][j].status = refunds[o][j].status
    BY <1>5, <1>6, <2>1 DEF RefundRow
  <2>3. refunds[o][i].cents \in Nat /\ refunds[o][i].cents <= orders[o].payable
    BY <1>1, <1>6, <2>1 DEF RefundRow, Covered
  <2>4. \A s : Cardinality(Rows(refunds'[o], s)) =
                 Cardinality(Rows(refunds[o], s))
                   - (IF "submitted" \in s THEN 1 ELSE 0) + (IF st \in s THEN 1 ELSE 0)
    <3> DEFINE q == refunds[o]
               r == refunds'[o]
    <3>1. /\ q \in Seq(F) /\ i \in DOMAIN q /\ DOMAIN r = DOMAIN q
          /\ \A j \in DOMAIN q : j # i => r[j].status = q[j].status
          /\ q[i].status = "submitted" /\ r[i].status = st
      BY <1>2, <1>6, <2>2
    <3> HIDE DEF q, r, F
    <3>2. ASSUME NEW s
          PROVE  Cardinality(Rows(r, s)) =
                   Cardinality(Rows(q, s)) - (IF q[i].status \in s THEN 1 ELSE 0)
                                           + (IF r[i].status \in s THEN 1 ELSE 0)
      BY <3>1, RowsUpdate
    <3>3. ASSUME NEW s
          PROVE  Cardinality(Rows(r, s)) =
                   Cardinality(Rows(q, s)) - (IF "submitted" \in s THEN 1 ELSE 0)
                                           + (IF st \in s THEN 1 ELSE 0)
      BY <3>1, <3>2
    <3> QED
      BY <3>3 DEF q, r
  <2> DEFINE k == IF st = "completed" THEN 1 ELSE 0
             x == IF st = "completed" /\ orders[o].status = "paid" THEN 0 - 1
                  ELSE IF st = "rejected" /\ orders[o].status = "paid" THEN 0 - 1 ELSE 0
  <2>5. Completed(o)' = Completed(o) + k
    BY <1>3, <2>4 DEF Completed
  <2>6. Claims(o)' = Claims(o) + x
    <3>1. Cardinality(Rows(refunds'[o], kept)) =
            Cardinality(Rows(refunds[o], kept)) - 1 + k
      BY <1>3, <2>4
    <3> QED
      BY <1>3, <1>6, <3>1 DEF Claims
  <2>7. \A j \in DOMAIN refunds'[o] : refunds'[o][j].cents <= orders[o].payable
    BY <1>1, <2>2 DEF Covered
  <2>8. booked'[o].refunded \in Nat
        /\ booked'[o].refunded <= booked[o].refunded + k * orders[o].payable
    <3> DEFINE q == orders[o].payable
               c == refunds[o][i].cents
    <3>1. q \in Nat /\ c \in Nat /\ c <= q
      BY <1>3, <2>3
    <3>2. booked'[o].refunded = booked[o].refunded + IF st = "completed" THEN c ELSE 0
      BY <1>6
    <3> HIDE DEF q, c
    <3>3. 1 * q = q /\ 0 * q = 0
      BY <3>1
    <3> QED
      BY <1>3, <3>1, <3>2, <3>3 DEF q
  <2>9. k \in {0, 1} /\ x \in Int /\ x <= 0 /\ orders[o].payable > 0
    BY <1>1, <1>6 DEF Covered
  <2> HIDE DEF k, x
  <2> QED
    BY <1>3, <1>4, <2>5, <2>6, <2>7, <2>8, <2>9, CoverKept
<1>7. CASE o # p
  <2>1. PaidFlag(o)' <= PaidFlag(o) + 0
    BY <1>7 DEF PaidFlag
  <2> QED
    BY <1>3, <1>4, <1>5, <1>7, <2>1, CoverSame
<1> QED
  BY <1>6, <1>7

\* A request that only opens or extends a transaction.
LEMMA CoverTx ==
  ASSUME OneSession, CoverInv, AloneInv', NEW s \in Sessions, NEW t,
         tx' = [tx EXCEPT ![s] = t], UNCHANGED db, Asks(t)
  PROVE  CoverInv'
<1>1. UNCHANGED <<orders, payments, refunds, booked>>
  BY DEF db
<1>2. \A r \in Sessions : tx'[r] = t
  BY DEF CoverInv, AloneInv, BooksInv, HeardInv, IInv, TypeOK, OneSession
<1>3. \A r \in Sessions : Asks(tx[r])'
  BY <1>1, <1>2 DEF Asks
<1>4. \A o \in Orders : Covered(o)'
  BY <1>1 DEF CoverInv, Covered, Claims, Completed, Succeeded
<1> QED
  BY <1>3, <1>4 DEF CoverInv

LEMMA CoverBegin ==
  ASSUME OneSession, CoverInv, AloneInv', NEW s \in Sessions, NEW o \in Orders,
         BeginOnOrder(s, o)
  PROVE  CoverInv'
<1> USE DEF Begin, Asks, Idle
<1>1. ASSUME NEW u \in Users, NEW kind \in Kinds, NEW p \in Prices,
             NEW k \in Keys \cup {NoKey}, BeginCreate(s, o, u, kind, p, k)
      PROVE  CoverInv'
  <2> DEFINE t == [Idle EXCEPT !.op = "create", !.o = o, !.row = NewOrder(u, kind, p, k)]
  <2>1. Asks(t)
    OBVIOUS
  <2> QED
    BY <1>1, <2>1, CoverTx DEF BeginCreate
<1>2. ASSUME NEW u \in Users, NEW p \in Prices, NEW k \in Keys \cup {NoKey},
             NEW m \in Channels, BeginTopup(s, o, u, p, k, m)
      PROVE  CoverInv'
  <2> DEFINE t == [Idle EXCEPT !.op = "topup", !.o = o, !.method = m,
                               !.row = NewOrder(u, "wallet_topup", p, k)]
  <2>1. Asks(t)
    OBVIOUS
  <2> QED
    BY <1>2, <2>1, CoverTx DEF BeginTopup
<1>3. ASSUME NEW m \in Methods, BeginPay(s, o, m) PROVE CoverInv'
  <2> DEFINE t == [Idle EXCEPT !.op = "pay", !.o = o, !.method = m, !.row = orders[o]]
  <2>1. Asks(t)
    OBVIOUS
  <2> QED
    BY <1>3, <2>1, CoverTx DEF BeginPay
<1>4. CASE BeginCancel(s, o)
  <2> DEFINE t == [Idle EXCEPT !.op = "cancel", !.o = o, !.row = orders[o]]
  <2>1. Asks(t)
    OBVIOUS
  <2> QED
    BY <1>4, <2>1, CoverTx DEF BeginCancel
<1>5. CASE BeginClose(s, o)
  <2> DEFINE t == [Idle EXCEPT !.op = "close", !.o = o, !.row = orders[o]]
  <2>1. Asks(t)
    OBVIOUS
  <2> QED
    BY <1>5, <2>1, CoverTx DEF BeginClose
<1>6. ASSUME NEW m \in Channels, NEW success \in BOOLEAN, BeginNotify(s, o, m, success)
      PROVE  CoverInv'
  <2> DEFINE op == IF success THEN "notify_ok" ELSE "notify_fail"
  <2> PICK i \in RowsOfTxn(o, m) :
        /\ payments[o][i].status # "succeeded"
        /\ Begin(s, [Idle EXCEPT !.op = op, !.o = o, !.idx = i, !.row = orders[o]])
    BY <1>6 DEF BeginNotify
  <2> DEFINE t == [Idle EXCEPT !.op = op, !.o = o, !.idx = i, !.row = orders[o]]
  <2>1. Asks(t)
    OBVIOUS
  <2>2. tx' = [tx EXCEPT ![s] = t] /\ UNCHANGED db
    OBVIOUS
  <2> HIDE DEF t
  <2> QED
    BY <2>1, <2>2, CoverTx
<1>7. ASSUME NEW cents \in 1 .. orders[o].payable, BeginRefund(s, o, cents)
      PROVE  CoverInv'
  <2> DEFINE t == [Idle EXCEPT !.op = "refund", !.o = o, !.cents = cents, !.row = orders[o]]
  <2>1. Asks(t)
    BY <1>7 DEF BeginRefund, REFUNDABLE
  <2> QED
    BY <1>7, <2>1, CoverTx DEF BeginRefund
<1>8. ASSUME NEW i \in DOMAIN refunds[o], NEW op \in {"complete", "reject"},
             BeginProcess(s, o, i, op)
      PROVE  CoverInv'
  <2> DEFINE t == [Idle EXCEPT !.op = op, !.o = o, !.idx = i,
                               !.cents = refunds[o][i].cents, !.row = orders[o]]
  <2>1. refunds[o][i].status \in {"submitted", "completed", "rejected"}
    <3> DEFINE F == RefundRow
    <3>1. refunds[o] \in Seq(F)
      BY CoverTyped DEF CoverInv, AloneInv, BooksInv, HeardInv
    <3> HIDE DEF F
    <3>2. refunds[o][i] \in F
      BY <3>1
    <3> QED
      BY <3>2 DEF F, RefundRow
  <2>2. Asks(t)
    BY <1>8, <2>1 DEF BeginProcess, Terminal
  <2>3. tx' = [tx EXCEPT ![s] = t] /\ UNCHANGED db
    BY <1>8 DEF BeginProcess
  <2> HIDE DEF t
  <2> QED
    BY <2>2, <2>3, CoverTx
<1> QED
  BY <1>1, <1>2, <1>3, <1>4, <1>5, <1>6, <1>7, <1>8 DEF BeginOnOrder

LEMMA CoverOther ==
  ASSUME OneSession, CoverInv, AloneInv', NEW s \in Sessions
  PROVE  /\ \A u \in Users : BeginMyWallet(s, u) => CoverInv'
         /\ \A u \in Users, cents \in Prices \ {0} : BeginGrant(s, u, cents) => CoverInv'
         /\ BeginExpire(s) => CoverInv'
         /\ ReadAccount(s) => CoverInv'
         /\ Refused(s) \/ Crash(s) => CoverInv'
<1>1. ASSUME NEW t, tx' = [tx EXCEPT ![s] = t], UNCHANGED db,
             t.op \in {"idle", "grant", "my_wallet", "expire"}
      PROVE  CoverInv'
  <2>1. Asks(t)
    BY <1>1 DEF Asks
  <2> QED
    BY <1>1, <2>1, CoverTx
<1>2. ASSUME NEW u \in Users, BeginMyWallet(s, u) PROVE CoverInv'
  BY <1>1, <1>2 DEF BeginMyWallet, Begin, Idle
<1>3. ASSUME NEW u \in Users, NEW cents \in Prices \ {0}, BeginGrant(s, u, cents)
      PROVE  CoverInv'
  BY <1>1, <1>3 DEF BeginGrant, Begin, Idle
<1>4. ASSUME BeginExpire(s) PROVE CoverInv'
  BY <1>1, <1>4 DEF BeginExpire, Begin, Idle
<1>5. ASSUME ReadAccount(s) PROVE CoverInv'
  <2> DEFINE t == [tx[s] EXCEPT !.acct = wallet[tx[s].row.user], !.holds = TRUE]
  <2>1. tx[s] \in Tx /\ tx' = [tx EXCEPT ![s] = t] /\ UNCHANGED db
    BY <1>5 DEF ReadAccount, CoverInv, AloneInv, BooksInv, HeardInv, IInv, TypeOK, Tx
  <2>2. /\ t.op = tx[s].op /\ t.o = tx[s].o /\ t.row = tx[s].row
        /\ t.idx = tx[s].idx /\ t.cents = tx[s].cents
    BY <2>1 DEF Tx
  <2> HIDE DEF t
  <2>3. Asks(t)
    BY <2>2 DEF CoverInv, Asks
  <2> QED
    BY <2>1, <2>3, CoverTx
<1>6. ASSUME Refused(s) \/ Crash(s) PROVE CoverInv'
  BY <1>1, <1>6 DEF Refused, Crash, Idle
<1> QED
  BY <1>2, <1>3, <1>4, <1>5, <1>6

\* Every commit.
LEMMA CoverCommits ==
  ASSUME OneSession, CoverInv, NEW s \in Sessions, Commit(s), NEW o \in Orders
  PROVE  Covered(o)'
<1>1. /\ IInv /\ Posts(tx[s]) /\ Knows(tx[s]) /\ UpToDate(tx[s]) /\ Asks(tx[s])
      /\ AloneInv /\ BooksInv
  BY DEF CoverInv, AloneInv, BooksInv, HeardInv
<1>2. /\ orders[o].payable \in Nat /\ booked[o].refunded \in Nat /\ Succeeded(o) \in Nat
      /\ payments[o] \in Seq(PaymentRow) /\ Covered(o)
  BY <1>1, CoverTyped DEF CoverInv
<1>3. orders \in [Orders -> OrderRow] /\ (orders[o].status = "absent" => payments[o] = <<>>)
  BY <1>1 DEF BooksInv, IInv, TypeOK
\* An order without payments has none that succeeded.
<1>4. payments[o] = <<>> => Succeeded(o) = 0
  <2>1. payments[o] = <<>> => Rows(payments[o], {"succeeded"}) = {}
    BY DEF Rows
  <2> QED
    BY <2>1, FS_EmptySet, SucceededRows
\* A commit that only writes a status that is not paid, if any.
<1>5. ASSUME orders'[o].payable = orders[o].payable,
             orders'[o].status # "paid" \/ orders'[o].status = orders[o].status,
             refunds'[o] = refunds[o], booked'[o].refunded = booked[o].refunded,
             payments'[o] = payments[o]
      PROVE  Covered(o)'
  <2>1. PaidFlag(o)' <= PaidFlag(o) + 0
    BY <1>5 DEF PaidFlag
  <2>2. Succeeded(o)' = Succeeded(o) + 0
    BY <1>2, <1>5 DEF Succeeded
  <2> QED
    BY <1>1, <1>5, <2>1, <2>2, CoverSame
<1>6. CASE CommitCreate(s)
  <2>1. PICK t \in Tx : t = tx[s] /\ t.op = "create"
    BY <1>1, <1>6, ReadyStep DEF CommitCreate, Ops
  <2>2. /\ t.o \in Orders /\ orders[t.o].status = "absent"
        /\ t.row.payable > 0 => t.row.status = "pending_payment"
        /\ t.row.payable \in Nat
    BY <1>1, <2>1 DEF Knows, Inserts, Tx, OrderRow
  <2>3. PICK row : /\ orders' = [orders EXCEPT ![t.o] = row]
                   /\ row.payable = t.row.payable
                   /\ row.payable > 0 => row.status = "pending_payment"
    <3>1. [t.row EXCEPT !.status = "paid"].payable = t.row.payable
      BY DEF Tx, OrderRow
    <3> QED
      BY <1>6, <2>1, <2>2, <3>1 DEF CommitCreate
  <2>4. UNCHANGED <<payments, refunds, booked>>
    BY <1>6 DEF CommitCreate
  <2>5. CASE o = t.o
    <3>1. orders'[o] = row
      BY <1>3, <2>3, <2>5
    <3>2. Succeeded(o)' = 0
      BY <1>3, <1>4, <2>2, <2>4, <2>5 DEF Succeeded
    <3>3. orders'[o].payable > 0 => PaidFlag(o)' <= Succeeded(o)'
      BY <2>3, <3>1, <3>2 DEF PaidFlag
    <3> QED
      BY <2>2, <2>3, <2>4, <2>5, <3>1, <3>2, <3>3, CoverNew
  <2>6. CASE o # t.o
    BY <1>3, <1>5, <2>3, <2>4, <2>6
  <2> QED
    BY <2>5, <2>6
<1>7. CASE CommitTopup(s)
  <2>1. PICK t \in Tx : t = tx[s] /\ t.op = "topup" /\ GoodTx(t)
    BY <1>1, <1>7, ReadyStep DEF CommitTopup, Ops
  <2>2. /\ t.o \in Orders /\ orders[t.o].status = "absent" /\ t.row.status # "paid"
        /\ t.row.payable \in Nat /\ t.method \in Methods
    BY <1>1, <2>1 DEF Knows, Inserts, PAYABLE_STATUSES, GoodTx, Tx, OrderRow
  <2> DEFINE row == [t.row EXCEPT !.status = IF Immediate(t.method) THEN "paid" ELSE @,
                                  !.pay_method = t.method]
  <2>3. orders' = [orders EXCEPT ![t.o] = row] /\ Post(t) /\ UNCHANGED refunds
        /\ payments' = [payments EXCEPT ![t.o] = Append(@, NewPayment(t.method))]
    BY <1>7, <2>1 DEF CommitTopup, Post
  <2>4. row.payable = t.row.payable /\ (row.status = "paid" => Immediate(t.method))
    BY <2>2 DEF Tx, OrderRow
  <2> HIDE DEF row
  <2>5. booked'[o].refunded = booked[o].refunded
    BY <1>1, <1>2, <2>1, <2>3, BooksPosted
  <2>6. CASE o = t.o
    <3>1. orders'[o] = row /\ payments'[o] = Append(payments[o], NewPayment(t.method))
      BY <1>1, <2>3, <2>6 DEF IInv, TypeOK
    <3>2. Succeeded(o)' = IF Immediate(t.method) THEN 1 ELSE 0
      <4>1. Succeeded(o)' = Succeeded(o) + IF Immediate(t.method) THEN 1 ELSE 0
        BY <1>1, <2>2, <3>1, PaidAppend
      <4> QED
        BY <1>3, <1>4, <2>2, <2>6, <4>1
    <3>3. PaidFlag(o)' <= Succeeded(o)'
      BY <2>4, <3>1, <3>2 DEF PaidFlag
    <3>4. orders'[o].payable \in Nat /\ Succeeded(o)' \in Nat
      BY <2>2, <2>4, <3>1, <3>2
    <3> QED
      BY <2>2, <2>3, <2>5, <2>6, <3>3, <3>4, CoverNew
  <2>7. CASE o # t.o
    BY <1>1, <1>3, <1>5, <2>3, <2>5, <2>7 DEF IInv, TypeOK
  <2> QED
    BY <2>6, <2>7
<1>8. CASE CommitPay(s)
  <2>1. PICK t \in Tx : t = tx[s] /\ t.op = "pay" /\ GoodTx(t) /\ t.o \in Orders
    BY <1>1, <1>8, ReadyOnOrder DEF CommitPay, OnOrder
  <2>2. /\ t.method \in Methods /\ t.row = orders[t.o]
        /\ orders[t.o].status = "pending_payment"
    BY <1>1, <2>1 DEF GoodTx, OnOrder, UpToDate, Knows
  <2>3. /\ WriteOrder(t, IF Immediate(t.method) THEN "paid" ELSE "pending_payment", t.method)
        /\ payments' = [payments EXCEPT ![t.o] = Append(@, NewPayment(t.method))]
        /\ Post(t) /\ UNCHANGED refunds
    BY <1>8, <2>1 DEF CommitPay, WriteOrder, Post
  <2>4. orders'[o].status = IF o = t.o
          THEN (IF Immediate(t.method) THEN "paid" ELSE "pending_payment")
          ELSE orders[o].status
    BY <1>1, <2>1, <2>2, <2>3, AloneWrite
  <2>5. /\ orders'[o].payable = orders[o].payable
        /\ booked'[o].refunded = booked[o].refunded
    BY <1>1, <1>2, <2>1, <2>3, BooksOrder, BooksPosted DEF OrderStatus
  <2>6. CASE o = t.o
    <3> DEFINE y == IF Immediate(t.method) THEN 1 ELSE 0
    <3>1. payments'[o] = Append(payments[o], NewPayment(t.method))
      BY <1>1, <2>3, <2>6 DEF IInv, TypeOK
    <3>2. Succeeded(o)' = Succeeded(o) + y
      BY <1>1, <2>2, <3>1, PaidAppend
    <3>3. PaidFlag(o)' <= PaidFlag(o) + y
      BY <2>2, <2>4, <2>6 DEF PaidFlag
    <3>4. y \in Int
      OBVIOUS
    <3> HIDE DEF y
    <3> QED
      BY <2>3, <2>5, <3>2, <3>3, <3>4, CoverSame
  <2>7. CASE o # t.o
    BY <1>1, <1>5, <2>3, <2>4, <2>5, <2>7 DEF IInv, TypeOK
  <2> QED
    BY <2>6, <2>7
<1>9. CASE CommitCancel(s) \/ CommitClose(s)
  <2>1. PICK t \in Tx : /\ t = tx[s] /\ t.o \in Orders /\ t.op \in OnOrder
    BY <1>1, <1>9, ReadyOnOrder DEF CommitCancel, CommitClose, OnOrder
  <2>2. PICK st \in {"cancelled", "closed"} : WriteOrder(t, st, t.row.pay_method)
    BY <1>9, <2>1 DEF CommitCancel, CommitClose, WriteOrder
  <2>3. t.row = orders[t.o]
    BY <1>1, <2>1 DEF UpToDate
  <2>4. orders'[o].status = IF o = t.o THEN st ELSE orders[o].status
    BY <1>1, <2>1, <2>2, <2>3, AloneWrite
  <2>5. orders'[o].payable = orders[o].payable
    BY <1>1, <2>1, <2>2, BooksOrder DEF OrderStatus
  <2>6. UNCHANGED <<payments, refunds, booked>>
    BY <1>9 DEF CommitCancel, CommitClose
  <2> QED
    BY <1>5, <2>2, <2>4, <2>5, <2>6
<1>10. CASE CommitExpire(s)
  <2>1. /\ orders'[o].payable = orders[o].payable
        /\ orders'[o].status \in {"cancelled", orders[o].status}
    BY <1>3, <1>10 DEF CommitExpire, OrderRow
  <2>2. UNCHANGED <<payments, refunds, booked>>
    BY <1>10 DEF CommitExpire
  <2> QED
    BY <1>5, <2>1, <2>2

<1>11. CASE CommitNotifyFailed(s)
  <2>1. PICK t \in Tx : t = tx[s] /\ t.op = "notify_fail" /\ t.o \in Orders
    BY <1>1, <1>11, ReadyOnOrder DEF CommitNotifyFailed, OnOrder
  <2>2. t.idx \in DOMAIN payments[t.o] /\ payments[t.o][t.idx].status # "succeeded"
    BY <1>1, <2>1 DEF Posts, Asks
  <2>3. UNCHANGED <<orders, refunds, booked>>
        /\ payments' = [payments EXCEPT ![t.o][t.idx].status = "failed"]
    BY <1>11, <2>1 DEF CommitNotifyFailed
  <2>4. Succeeded(o)' = Succeeded(o) + 0
    <3> DEFINE p == t.o
               i == t.idx
               st == "failed"
    <3>1. /\ p \in Orders /\ i \in DOMAIN payments[p] /\ payments[p][i].status # "succeeded"
          /\ payments' = [payments EXCEPT ![p][i].status = st] /\ st # "succeeded"
      BY <2>1, <2>2, <2>3
    <3> HIDE DEF p, i, st
    <3>2. Succeeded(o)' = Succeeded(o) + IF o = p /\ st = "succeeded" THEN 1 ELSE 0
      BY <1>1, <3>1, PaidUpdate
    <3> QED
      BY <3>1, <3>2
  <2>5. PaidFlag(o)' <= PaidFlag(o) + 0
    BY <2>3 DEF PaidFlag
  <2> QED
    BY <2>3, <2>4, <2>5, CoverSame
<1>12. CASE CommitNotify(s)
  <2>1. PICK t \in Tx : t = tx[s] /\ t.op = "notify_ok" /\ t.o \in Orders
    BY <1>1, <1>12, ReadyOnOrder DEF CommitNotify, OnOrder
  <2>2. /\ t.idx \in DOMAIN payments[t.o] /\ payments[t.o][t.idx].status # "succeeded"
        /\ t.row = orders[t.o]
    BY <1>1, <2>1 DEF Posts, Asks, UpToDate, OnOrder
  <2>3. /\ WriteOrder(t, "paid", t.row.pay_method) /\ Post(t) /\ UNCHANGED refunds
        /\ payments' = [payments EXCEPT ![t.o][t.idx].status = "succeeded"]
    BY <1>12, <2>1 DEF CommitNotify, WriteOrder, Post
  <2>4. orders'[o].status = IF o = t.o THEN "paid" ELSE orders[o].status
    BY <1>1, <2>1, <2>2, <2>3, AloneWrite
  <2>5. /\ orders'[o].payable = orders[o].payable
        /\ booked'[o].refunded = booked[o].refunded
    BY <1>1, <1>2, <2>1, <2>3, BooksOrder, BooksPosted DEF OrderStatus
  <2> DEFINE y == IF o = t.o THEN 1 ELSE 0
  <2>6. Succeeded(o)' = Succeeded(o) + y
    <3>1. Succeeded(o)' = Succeeded(o) +
            IF o = t.o /\ "succeeded" = "succeeded" THEN 1 ELSE 0
      BY <1>1, <2>1, <2>2, <2>3, PaidUpdate
    <3> QED
      BY <3>1
  <2>7. PaidFlag(o)' <= PaidFlag(o) + y /\ y \in Int
    BY <2>4 DEF PaidFlag
  <2> HIDE DEF y
  <2> QED
    BY <2>3, <2>5, <2>6, <2>7, CoverSame
<1>13. CASE CommitRefund(s)
  <2>1. PICK t \in Tx : t = tx[s] /\ t.op = "refund" /\ t.o \in Orders /\ t.cents \in Nat
    BY <1>1, <1>13, ReadyOnOrder DEF CommitRefund, OnOrder
  <2>2. /\ t.row = orders[t.o] /\ orders[t.o].status = "paid"
        /\ 0 < t.cents /\ t.cents <= orders[t.o].payable
    BY <1>1, <2>1 DEF Asks, UpToDate, OnOrder
  <2>3. PICK st \in {"refunded", "refunding"} : WriteOrder(t, st, t.row.pay_method)
    BY <1>13, <2>1 DEF CommitRefund, WriteOrder
  <2> DEFINE to == IF AutoRefund(t) THEN "completed" ELSE "submitted"
  <2>4. /\ Post(t) /\ UNCHANGED payments
        /\ refunds' = [refunds EXCEPT ![t.o] = Append(@, [cents |-> t.cents, status |-> to])]
    BY <1>13, <2>1 DEF CommitRefund, Post
  <2>5. booked'[o].refunded = booked[o].refunded +
          IF o = t.o /\ to = "completed" THEN t.cents ELSE 0
    BY <1>1, <1>2, <2>1, <2>4, BooksPosted DEF NeedsAccount
  <2>6. orders'[o].status = IF o = t.o THEN st ELSE orders[o].status
    BY <1>1, <2>1, <2>2, <2>3, AloneWrite
  <2>7. orders'[o].payable = orders[o].payable
    BY <1>1, <2>1, <2>3, BooksOrder DEF OrderStatus
  <2>8. to \in {"submitted", "completed"}
    OBVIOUS
  <2>9. IF o = t.o THEN orders'[o].status # "paid" ELSE orders'[o].status = orders[o].status
    BY <2>3, <2>6
  <2> HIDE DEF to
  <2> QED
    BY <2>1, <2>2, <2>4, <2>5, <2>7, <2>8, <2>9, CoverRefund
<1>14. CASE CommitReject(s) \/ CommitComplete(s)
  <2>1. PICK t \in Tx : /\ t = tx[s] /\ t.o \in Orders
                        /\ \/ t.op = "reject" /\ CommitReject(s)
                           \/ t.op = "complete" /\ CommitComplete(s)
    <3>1. CASE CommitReject(s)
      BY <1>1, <3>1, ReadyOnOrder DEF CommitReject, OnOrder
    <3>2. CASE CommitComplete(s)
      BY <1>1, <3>2, ReadyOnOrder DEF CommitComplete, OnOrder
    <3> QED
      BY <1>14, <3>1, <3>2
  <2>2. /\ t.idx \in DOMAIN refunds[t.o] /\ refunds[t.o][t.idx].cents = t.cents
        /\ refunds[t.o][t.idx].status = "submitted" /\ t.row = orders[t.o]
    BY <1>1, <2>1 DEF Posts, Asks, UpToDate, OnOrder
  <2>3. PICK to \in {"completed", "rejected"} :
          /\ UNCHANGED payments /\ refunds' = [refunds EXCEPT ![t.o][t.idx].status = to]
          /\ WriteOrder(t, IF to = "completed" THEN "refunded" ELSE "paid", t.row.pay_method)
          /\ \/ (to = "rejected" /\ UNCHANGED booked)
             \/ (to = "completed" /\ t.op = "complete" /\ Post(t))
    BY <2>1 DEF CommitReject, CommitComplete, Post, WriteOrder
  <2>4. booked'[o].refunded = booked[o].refunded +
          IF o = t.o /\ to = "completed" THEN refunds[t.o][t.idx].cents ELSE 0
    BY <1>1, <1>2, <2>1, <2>2, <2>3, BooksPosted DEF NeedsAccount
  <2>5. orders'[o].status = IF o = t.o
          THEN (IF to = "completed" THEN "refunded" ELSE "paid") ELSE orders[o].status
    BY <1>1, <2>1, <2>2, <2>3, AloneWrite
  <2>6. orders'[o].payable = orders[o].payable
    BY <1>1, <2>1, <2>3, BooksOrder DEF OrderStatus
  <2> QED
    BY <2>1, <2>2, <2>3, <2>4, <2>5, <2>6, CoverProcess
<1>15. CASE CommitWallet(s)
  <2>1. PICK op \in {"grant", "my_wallet"} : Ready(s, op)
    BY <1>15 DEF CommitWallet
  <2>2. PICK t \in Tx : t = tx[s] /\ t.op \in {"grant", "my_wallet"}
    BY <1>1, <2>1, ReadyStep DEF Ops
  <2>3. t.o # o /\ Post(t) /\ UNCHANGED <<orders, payments, refunds>>
    BY <1>1, <1>15, <2>2 DEF Posts, CommitWallet, Post
  <2>4. booked'[o].refunded = booked[o].refunded
    BY <1>1, <1>2, <2>3, BooksPosted
  <2> QED
    BY <1>5, <2>3, <2>4
<1> QED
  BY <1>6, <1>7, <1>8, <1>9, <1>10, <1>11, <1>12, <1>13, <1>14, <1>15 DEF Commit

LEMMA CoverStep ==
  ASSUME OneSession, CoverInv, [Next]_vars
  PROVE  CoverInv'
<1>1. AloneInv'
  BY AloneStep DEF CoverInv
<1> USE DEF Sessions
<1>2. ASSUME NEW s \in Clients, NEW o \in Orders, BeginOnOrder(s, o) PROVE CoverInv'
  BY <1>1, <1>2, CoverBegin
<1>3. ASSUME NEW s \in Sessions, Commit(s) PROVE CoverInv'
  <2>1. tx' = [tx EXCEPT ![s] = Idle] /\ tx \in [Sessions -> Tx]
    BY <1>3, HeardCommits DEF CoverInv, AloneInv, BooksInv, HeardInv, IInv, TypeOK
  <2>2. \A r \in Sessions : tx'[r] = Idle
    BY <2>1 DEF OneSession
  <2>3. \A r \in Sessions : Asks(tx[r])'
    BY <2>2 DEF Asks, Idle
  <2> QED
    BY <1>1, <1>3, <2>3, CoverCommits DEF CoverInv
<1>4. CASE \/ \E s \in Clients, u \in Users : BeginMyWallet(s, u)
           \/ \E s \in Clients, u \in Users, cents \in Prices \ {0} : BeginGrant(s, u, cents)
           \/ \E s \in Workers : BeginExpire(s)
           \/ \E s \in Sessions : ReadAccount(s) \/ Refused(s) \/ Crash(s)
  BY <1>1, <1>4, CoverOther
<1>5. CASE UNCHANGED vars \/ \E o \in Orders : PassDeadline(o)
  <2>1. UNCHANGED <<orders, payments, refunds, booked, tx>>
    BY <1>5 DEF vars, db, PassDeadline
  <2> QED
    BY <1>1, <2>1 DEF CoverInv, Covered, Claims, Completed, Succeeded, Asks
<1> QED
  BY <1>2, <1>3, <1>4, <1>5 DEF Next

LEMMA CoverInitially == Init => CoverInv
<1> SUFFICES ASSUME Init PROVE CoverInv
  OBVIOUS
<1>1. AloneInv
  BY AloneInitially
<1>2. ASSUME NEW o \in Orders PROVE Covered(o)
  <2>1. /\ refunds[o] = <<>> /\ payments[o] = <<>> /\ booked[o].refunded = 0
        /\ orders[o].payable = 0 /\ orders[o].status = "absent"
    BY DEF Init, NoOrder
  <2>2. Rows(refunds[o], {"completed"}) = {}
    BY <2>1 DEF Rows
  <2>3. Completed(o) = 0
    BY <2>2, FS_EmptySet DEF Completed
  <2> QED
    BY <2>1, <2>3 DEF Covered
<1>3. \A s \in Sessions : Asks(tx[s])
  BY DEF Init, Idle, Asks
<1> QED
  BY <1>1, <1>2, <1>3 DEF CoverInv

\* Served one at a time, refunds, rejections, notifications and closings in any
\* order give no buyer more back than the payments that arrived (complete_refund).
THEOREM RefundsNeedPayments == ASSUME OneSession PROVE Spec => []RefundsCovered
<1>1. CoverInv /\ [Next]_vars => CoverInv'
  BY CoverStep
<1> QED
  BY <1>1, CoverInitially, CoverIsMeant, PTL DEF Spec

=============================================================================
