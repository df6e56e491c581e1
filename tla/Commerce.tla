------------------------------ MODULE Commerce ------------------------------
(***************************************************************************)
(* Orders, payments, refunds, memberships and the wallet                   *)
(* (src/app/modules/commerce, src/app/modules/admin/commerce.py).          *)
(*                                                                         *)
(* Every request runs in one database transaction under READ COMMITTED: it *)
(* reads rows, decides, and writes column values computed from what it     *)
(* READ; its writes are seen by others when it commits.  No row is read    *)
(* FOR UPDATE here.  A request is therefore up to three steps of a session:*)
(*   Begin...     reads the order (and payment or refund) row and passes   *)
(*                the guards of the handler;                               *)
(*   ReadAccount  has flushed its order UPDATE, so that it holds the order *)
(*                row's lock, and reads the wallet row;                    *)
(*   Commit...    makes every write of the handler visible.                *)
(* A request that raises rolls back: it leaves no trace, so a guard that   *)
(* fails is an action that is not enabled.                                 *)
(***************************************************************************)
EXTENDS Wallet, Sequences, FiniteSets

CONSTANTS
  Users, Orders,
  Clients,      \* sessions that serve the HTTP requests
  Workers,      \* sessions of the worker's cron; may share one with Clients
  Keys, NoKey,  \* Idempotency-Key values; NoKey: the header is absent
  Kinds,        \* the order kinds in use
  Channels,     \* the stub channels in use (wechat, alipay, apple_pay)
  Prices,       \* payable_cents of the orders created
  MaxPayments,  \* bound: payment rows per order
  MaxRefunds,   \* bound: refund rows per order
  MaxRows       \* bound: ledger rows of a user before grants stop

ASSUME CommerceAssumption ==
  /\ Kinds \subseteq {"activity", "membership", "wallet_topup"}
  /\ Prices \subseteq Nat
  /\ MaxPayments \in Nat /\ MaxRefunds \in Nat /\ MaxRows \in Nat
  /\ "wallet" \notin Channels
  /\ "none" \notin Orders

VARIABLES
  auto,     \* settings.payment_stub_auto_complete, as the deployment sets it
  orders,   \* the orders table
  due,      \* due[o]: expire_at of o has passed
  payments, \* payments[o]: the payment rows of o, oldest first
  refunds,  \* refunds[o]: the refund rows of o, oldest first
  wallet,   \* wallet_accounts
  ledger,   \* wallet_ledger, by user
  booked,   \* wallet_ledger, by related_order_id: cents charged and refunded
  active,   \* active[o]: valid memberships or credentials that o has bought
  events,   \* events[o]: names of the outbox rows enqueued for o
  tx        \* tx[s]: the open transaction of session s

db == <<auto, orders, due, payments, refunds, wallet, ledger, booked, active, events>>
vars == <<db, tx>>

Sessions == Clients \cup Workers
Methods == Channels \cup {"wallet"}

\* The columns of an order that handlers read or write.  "absent": no such row.
NoOrder == [user |-> "none", kind |-> "none", payable |-> 0, key |-> NoKey,
            status |-> "absent", pay_method |-> "none"]
OrderStatus == {"created", "pending_payment", "paid", "closed", "refunding",
                "refunded", "cancelled"}
PAYABLE_STATUSES == {"created", "pending_payment"}
REFUNDABLE == {"paid"}

\* A session between requests, and the fields of an open transaction: the
\* operation, the order and the row of it that was read, the payment method,
\* the index of the payment or refund row read, the refund's cents, the orders
\* of a worker's batch, and the wallet row once holds is TRUE.
Idle == [op |-> "idle", o |-> "none", row |-> NoOrder, method |-> "none",
         idx |-> 0, cents |-> 0, batch |-> {}, acct |-> NoAccount,
         holds |-> FALSE]

Init ==
  /\ auto \in BOOLEAN
  /\ orders = [o \in Orders |-> NoOrder]
  /\ due = [o \in Orders |-> FALSE]
  /\ payments = [o \in Orders |-> <<>>]
  /\ refunds = [o \in Orders |-> <<>>]
  /\ wallet = [u \in Users |-> NoAccount]
  /\ ledger = [u \in Users |-> NoRows]
  /\ booked = [o \in Orders |-> [charged |-> 0, refunded |-> 0]]
  /\ active = [o \in Orders |-> 0]
  /\ events = [o \in Orders |-> {}]
  /\ tx = [s \in Sessions |-> Idle]

-----------------------------------------------------------------------------
(* The beginning of a request: what it reads and the guards it passes.     *)

Begin(s, t) == tx[s] = Idle /\ tx' = [tx EXCEPT ![s] = t] /\ UNCHANGED db

\* Orders that a new id may take: neither in the table nor in a transaction.
Fresh(o) == orders[o].status = "absent" /\ \A s \in Sessions : tx[s].o # o

\* A plausible slip: the lookup finds only orders that are still payable.
HitsPayable(u, k) ==
  {o \in Orders : k # NoKey /\ orders[o].user = u /\ orders[o].key = k
                  /\ orders[o].status \in PAYABLE_STATUSES}

\* The idempotency lookup of create_order.
Hits(u, k) == {o \in Orders : k # NoKey /\ orders[o].user = u /\ orders[o].key = k}

\* The row create_order inserts; an order that costs nothing is paid at once.
NewOrder(u, kind, payable, key) ==
  [user |-> u, kind |-> kind, payable |-> payable, key |-> key,
   status     |-> IF payable > 0 THEN "pending_payment" ELSE "created",
   pay_method |-> IF payable > 0 THEN "none" ELSE "wallet"]

\* POST /orders.  A hit on the key answers with the order found; a free top-up
\* raises in WalletService.credit.
BeginCreate(s, o, u, kind, payable, key) ==
  /\ Fresh(o) /\ Hits(u, key) = {}
  /\ kind = "wallet_topup" => payable > 0
  /\ Begin(s, [Idle EXCEPT !.op = "create", !.o = o,
                           !.row = NewOrder(u, kind, payable, key)])

\* POST /me/wallet/topup without a hit: create_order and pay_order in one
\* transaction.  With a hit it is BeginPay on the order found.
BeginTopup(s, o, u, payable, key, method) ==
  /\ Fresh(o) /\ Hits(u, key) = {}
  /\ payable > 0 /\ method # "wallet"
  /\ Begin(s, [Idle EXCEPT !.op = "topup", !.o = o, !.method = method,
                           !.row = NewOrder(u, "wallet_topup", payable, key)])

\* pay_order up to its guards.  _expire_if_needed cancels a due order and then
\* raises, so that the router never commits the cancellation.
BeginPay(s, o, method) ==
  /\ orders[o].status \in PAYABLE_STATUSES
  /\ ~due[o]
  /\ ~(orders[o].kind = "wallet_topup" /\ method = "wallet")
  /\ Len(payments[o]) < MaxPayments
  /\ Begin(s, [Idle EXCEPT !.op = "pay", !.o = o, !.method = method,
                           !.row = orders[o]])

\* A plausible slip: cancel_order without its status guard.
BeginCancelAny(s, o) ==
  /\ orders[o].status \in OrderStatus
  /\ Begin(s, [Idle EXCEPT !.op = "cancel", !.o = o, !.row = orders[o]])

\* cancel_order.
BeginCancel(s, o) ==
  /\ orders[o].status \in PAYABLE_STATUSES
  /\ Begin(s, [Idle EXCEPT !.op = "cancel", !.o = o, !.row = orders[o]])

\* admin_close_order: no status is refused.
BeginClose(s, o) ==
  /\ orders[o].status \in OrderStatus
  /\ Begin(s, [Idle EXCEPT !.op = "close", !.o = o, !.row = orders[o]])

\* The payment rows that carry the transaction number "stub_<method>_<order>".
RowsOfTxn(o, method) == {i \in DOMAIN payments[o] : payments[o][i].method = method}

\* handle_notify: one row must carry the number (scalar_one_or_none raises on
\* two); a row that succeeded makes the call a duplicate, which changes nothing.
BeginNotify(s, o, method, success) ==
  /\ orders[o].status \in OrderStatus
  /\ \E i \in RowsOfTxn(o, method) :
       /\ RowsOfTxn(o, method) = {i}
       /\ payments[o][i].status # "succeeded"
       /\ success \/ payments[o][i].status = "pending"
       /\ Begin(s, [Idle EXCEPT !.op = IF success THEN "notify_ok" ELSE "notify_fail",
                                !.o = o, !.idx = i, !.row = orders[o]])

\* submit_refund up to its guards.
BeginRefund(s, o, cents) ==
  /\ orders[o].status \in REFUNDABLE
  /\ 0 < cents /\ cents <= orders[o].payable
  /\ Len(refunds[o]) < MaxRefunds
  /\ Begin(s, [Idle EXCEPT !.op = "refund", !.o = o, !.cents = cents,
                           !.row = orders[o]])

\* A plausible slip: only a rejection is terminal.
TerminalRejected(r) == r.status = "rejected"

\* complete_refund returns a refund in a terminal status as it is.
Terminal(r) == r.status \in {"completed", "rejected"}

\* admin_process_refund: complete or reject.
BeginProcess(s, o, i, op) ==
  /\ i \in DOMAIN refunds[o] /\ ~Terminal(refunds[o][i])
  /\ Begin(s, [Idle EXCEPT !.op = op, !.o = o, !.idx = i,
                           !.cents = refunds[o][i].cents, !.row = orders[o]])

\* admin_wallet_grant and GET /me/wallet of a user without an account.
BeginGrant(s, u, cents) ==
  /\ ledger[u].rows < MaxRows
  /\ Begin(s, [Idle EXCEPT !.op = "grant", !.cents = cents,
                           !.row = [NoOrder EXCEPT !.user = u]])
BeginMyWallet(s, u) ==
  /\ ~wallet[u].exists
  /\ Begin(s, [Idle EXCEPT !.op = "my_wallet", !.row = [NoOrder EXCEPT !.user = u]])

\* A plausible slip: the cron looks for one of the two payable statuses only.
DueOrdersCreated == {o \in Orders : due[o] /\ orders[o].status = "created"}

\* The worker's expire_unpaid_orders: the due orders that are still payable.
DueOrders == {o \in Orders : due[o] /\ orders[o].status \in PAYABLE_STATUSES}
BeginExpire(s) ==
  /\ DueOrders # {}
  /\ Begin(s, [Idle EXCEPT !.op = "expire", !.batch = DueOrders])
-----------------------------------------------------------------------------
(* The wallet row is read after the order row has been flushed.            *)

\* The provider settles in process: the wallet, and the stubs when configured.
Immediate(method) == method = "wallet" \/ auto

\* complete_refund runs inside submit_refund.
AutoRefund(t) == auto \/ t.row.pay_method = "wallet"

\* A plausible slip: only orders paid from the wallet are refunded into it.
NeedsAccountOwnChannel(t) ==
  CASE t.op = "pay"       -> \/ t.method = "wallet"
                             \/ auto /\ t.row.kind = "wallet_topup"
    [] t.op = "topup"     -> auto
    [] t.op = "notify_ok" -> t.row.status # "paid" /\ t.row.kind = "wallet_topup"
    [] t.op \in {"refund", "complete"} -> t.row.pay_method = "wallet"
    [] t.op \in {"grant", "my_wallet"} -> TRUE
    [] OTHER              -> FALSE

\* The requests that touch the wallet: payment_refund_to_wallet is on, so that
\* every completed refund does.
NeedsAccount(t) ==
  CASE t.op = "pay"       -> \/ t.method = "wallet"
                             \/ auto /\ t.row.kind = "wallet_topup"
    [] t.op = "topup"     -> auto
    [] t.op = "notify_ok" -> t.row.status # "paid" /\ t.row.kind = "wallet_topup"
    [] t.op = "refund"    -> AutoRefund(t)
    [] t.op \in {"complete", "grant", "my_wallet"} -> TRUE
    [] OTHER              -> FALSE

Charges(t) == t.op = "pay" /\ t.method = "wallet"

\* ensure_account grants the welcome credit in charge and get_or_create only.
GrantsWelcome(t) == Charges(t) \/ t.op = "my_wallet"

\* What the request posts to the wallet.
Delta(t) ==
  IF Charges(t) THEN - t.row.payable
  ELSE CASE t.op \in {"pay", "topup", "notify_ok"}   -> t.row.payable
         [] t.op \in {"refund", "complete", "grant"} -> t.cents
         [] OTHER                                    -> 0

\* No other transaction holds the lock on the row of order o.
Unlocked(s, o) ==
  \A r \in Sessions \ {s} : ~(tx[r].holds /\ tx[r].o = o /\ o \in Orders)

ReadAccount(s) ==
  LET t == tx[s] IN
  /\ NeedsAccount(t) /\ ~t.holds /\ Unlocked(s, t.o)
  /\ Charges(t) => Covers(wallet[t.row.user], t.row.payable)
  /\ tx' = [tx EXCEPT ![s].acct = wallet[t.row.user], ![s].holds = TRUE]
  /\ UNCHANGED db

\* The request raises: the charge is not covered, or another request has
\* inserted the wallet row first and the insert breaks the primary key.
Refused(s) ==
  LET t == tx[s] IN
  /\ NeedsAccount(t)
  /\ \/ /\ ~t.holds /\ Unlocked(s, t.o)
        /\ Charges(t) /\ ~Covers(wallet[t.row.user], t.row.payable)
     \/ t.holds /\ wallet[t.row.user].exists /\ ~t.acct.exists
  /\ tx' = [tx EXCEPT ![s] = Idle]
  /\ UNCHANGED db

\* The process dies or loses its connection: the database rolls back.
Crash(s) ==
  /\ tx[s].op # "idle"
  /\ tx' = [tx EXCEPT ![s] = Idle]
  /\ UNCHANGED db
-----------------------------------------------------------------------------
(* Commits.                                                                *)

\* A plausible slip: every column of a loaded row is written back.
WrittenAlways(current, read, new) == new

\* SQLAlchemy writes a column only when its new value differs from the value
\* read; otherwise the column keeps what it holds in the table.
Written(current, read, new) == IF read = new THEN current ELSE new

\* The common part of a commit: the request has read what it needs, nobody
\* holds its order row, and its insert of a wallet row meets no other.
Ready(s, op) ==
  LET t == tx[s] IN
  /\ t.op = op
  /\ NeedsAccount(t) => t.holds /\ (wallet[t.row.user].exists => t.acct.exists)
  /\ Unlocked(s, t.o)
  /\ tx' = [tx EXCEPT ![s] = Idle]
  /\ UNCHANGED auto

\* The wallet row and the ledger rows of a commit.  A request that read the
\* account writes absolute values computed from what it read.
Post(t) ==
  IF NeedsAccount(t)
  THEN LET u == t.row.user IN
       /\ wallet' = [wallet EXCEPT
            ![u] = AccountAfter(t.acct, GrantsWelcome(t), Delta(t))]
       /\ ledger' = [ledger EXCEPT
            ![u] = LedgerAfter(@, t.acct, GrantsWelcome(t), Delta(t))]
       /\ booked' = [o \in Orders |->
            IF o # t.o THEN booked[o]
            ELSE [charged  |-> booked[o].charged + (IF Charges(t) THEN t.row.payable ELSE 0),
                  refunded |-> booked[o].refunded +
                               (IF t.op \in {"refund", "complete"} THEN t.cents ELSE 0)]]
  ELSE UNCHANGED <<wallet, ledger, booked>>

\* The columns of an existing order that a commit writes.
WriteOrder(t, status, method) ==
  orders' = [orders EXCEPT
    ![t.o].status = Written(@, t.row.status, status),
    ![t.o].pay_method = Written(@, t.row.pay_method, method)]

\* A plausible slip: only an order that was waiting for its payment is served.
OnPaidIfPayable(t) ==
  IF t.row.status \notin PAYABLE_STATUSES THEN UNCHANGED <<active, events>>
  ELSE /\ active' = [active EXCEPT
            ![t.o] = IF t.row.kind = "wallet_topup" THEN @ ELSE @ + 1]
       /\ events' = [events EXCEPT ![t.o] = @ \cup {"ORDER_PAID"}]

\* _on_paid apart from the order row and the wallet: the membership or the
\* credential, and ORDER_PAID.  An order read as paid is left alone.
OnPaid(t) ==
  IF t.row.status = "paid" THEN UNCHANGED <<active, events>>
  ELSE /\ active' = [active EXCEPT
            ![t.o] = IF t.row.kind = "wallet_topup" THEN @ ELSE @ + 1]
       /\ events' = [events EXCEPT ![t.o] = @ \cup {"ORDER_PAID"}]

\* A plausible slip: the refund forgets the memberships the order has bought.
OnRefundedKeepsMembership(t) ==
  /\ events' = [events EXCEPT ![t.o] = @ \cup {"ORDER_REFUNDED"}]
  /\ UNCHANGED active

\* complete_refund apart from the rows it updates: memberships of the order are
\* revoked (credentials are not), and ORDER_REFUNDED.
OnRefunded(t) ==
  /\ active' = [active EXCEPT ![t.o] = IF t.row.kind = "membership" THEN 0 ELSE @]
  /\ events' = [events EXCEPT ![t.o] = @ \cup {"ORDER_REFUNDED"}]

CommitCreate(s) ==
  LET t == tx[s] IN
  /\ Ready(s, "create")
  /\ IF t.row.payable > 0
     THEN /\ orders' = [orders EXCEPT ![t.o] = t.row]
          /\ UNCHANGED <<active, events>>
     ELSE /\ orders' = [orders EXCEPT ![t.o] = [t.row EXCEPT !.status = "paid"]]
          /\ OnPaid(t)
  /\ UNCHANGED <<due, payments, refunds, wallet, ledger, booked>>

\* A plausible slip: the order is paid and its payment row is left pending.
NewPaymentPending(method) == [method |-> method, status |-> "pending"]

\* The payment row a pay request inserts, settled when the provider is immediate.
NewPayment(method) ==
  [method |-> method,
   status |-> IF Immediate(method) THEN "succeeded" ELSE "pending"]

CommitTopup(s) ==
  LET t == tx[s] IN
  /\ Ready(s, "topup")
  /\ orders' = [orders EXCEPT ![t.o] = [t.row EXCEPT
         !.status = IF Immediate(t.method) THEN "paid" ELSE @,
         !.pay_method = t.method]]
  /\ payments' = [payments EXCEPT ![t.o] = Append(@, NewPayment(t.method))]
  /\ IF Immediate(t.method) THEN OnPaid(t) ELSE UNCHANGED <<active, events>>
  /\ Post(t)
  /\ UNCHANGED <<due, refunds>>

\* pay_order: the payment row and, when the provider is immediate, the charge
\* and _settle_payment.
CommitPay(s) ==
  LET t == tx[s] IN
  /\ Ready(s, "pay")
  /\ payments' = [payments EXCEPT ![t.o] = Append(@, NewPayment(t.method))]
  /\ IF Immediate(t.method)
     THEN WriteOrder(t, "paid", t.method) /\ OnPaid(t)
     ELSE WriteOrder(t, "pending_payment", t.method) /\ UNCHANGED <<active, events>>
  /\ Post(t)
  /\ UNCHANGED <<due, refunds>>

CommitCancel(s) ==
  LET t == tx[s] IN
  /\ Ready(s, "cancel")
  /\ WriteOrder(t, "cancelled", t.row.pay_method)
  /\ events' = [events EXCEPT ![t.o] = @ \cup {"ORDER_CANCELLED"}]
  /\ UNCHANGED <<due, payments, refunds, wallet, ledger, booked, active>>

CommitClose(s) ==
  LET t == tx[s] IN
  /\ Ready(s, "close")
  /\ WriteOrder(t, "closed", t.row.pay_method)
  /\ UNCHANGED <<due, payments, refunds, wallet, ledger, booked, active, events>>

\* The batch takes no ORDER_CANCELLED event, unlike cancel_order.
CommitExpire(s) ==
  LET t == tx[s] IN
  /\ Ready(s, "expire")
  /\ \A o \in t.batch : Unlocked(s, o)
  /\ orders' = [o \in Orders |->
       IF o \in t.batch THEN [orders[o] EXCEPT !.status = "cancelled"] ELSE orders[o]]
  /\ UNCHANGED <<due, payments, refunds, wallet, ledger, booked, active, events>>

CommitNotifyFailed(s) ==
  LET t == tx[s] IN
  /\ Ready(s, "notify_fail")
  /\ payments' = [payments EXCEPT ![t.o][t.idx].status = "failed"]
  /\ UNCHANGED <<orders, due, refunds, wallet, ledger, booked, active, events>>

\* A success settles the payment whatever the order's status is.
CommitNotify(s) ==
  LET t == tx[s] IN
  /\ Ready(s, "notify_ok")
  /\ payments' = [payments EXCEPT ![t.o][t.idx].status = "succeeded"]
  /\ WriteOrder(t, "paid", t.row.pay_method)
  /\ OnPaid(t)
  /\ Post(t)
  /\ UNCHANGED <<due, refunds>>

CommitRefund(s) ==
  LET t == tx[s] IN
  /\ Ready(s, "refund")
  /\ refunds' = [refunds EXCEPT ![t.o] = Append(@,
       [cents |-> t.cents, status |-> IF AutoRefund(t) THEN "completed" ELSE "submitted"])]
  /\ IF AutoRefund(t)
     THEN WriteOrder(t, "refunded", t.row.pay_method) /\ OnRefunded(t)
     ELSE WriteOrder(t, "refunding", t.row.pay_method) /\ UNCHANGED <<active, events>>
  /\ Post(t)
  /\ UNCHANGED <<due, payments>>

CommitReject(s) ==
  LET t == tx[s] IN
  /\ Ready(s, "reject")
  /\ refunds' = [refunds EXCEPT ![t.o][t.idx].status = "rejected"]
  /\ WriteOrder(t, "paid", t.row.pay_method)
  /\ UNCHANGED <<due, payments, wallet, ledger, booked, active, events>>

CommitComplete(s) ==
  LET t == tx[s] IN
  /\ Ready(s, "complete")
  /\ refunds' = [refunds EXCEPT ![t.o][t.idx].status = "completed"]
  /\ WriteOrder(t, "refunded", t.row.pay_method)
  /\ OnRefunded(t)
  /\ Post(t)
  /\ UNCHANGED <<due, payments>>

CommitWallet(s) ==
  /\ Ready(s, "grant") \/ Ready(s, "my_wallet")
  /\ Post(tx[s])
  /\ UNCHANGED <<orders, due, payments, refunds, active, events>>
-----------------------------------------------------------------------------
\* expire_at passes; only the payable orders notice.
PassDeadline(o) ==
  /\ ~due[o] /\ orders[o].status \in PAYABLE_STATUSES
  /\ due' = [due EXCEPT ![o] = TRUE]
  /\ UNCHANGED <<auto, orders, payments, refunds, wallet, ledger, booked, active, events, tx>>

BeginOnOrder(s, o) ==
  \/ \E u \in Users, kind \in Kinds, p \in Prices, k \in Keys \cup {NoKey} :
       BeginCreate(s, o, u, kind, p, k)
  \/ \E u \in Users, p \in Prices, k \in Keys \cup {NoKey}, m \in Channels :
       "wallet_topup" \in Kinds /\ BeginTopup(s, o, u, p, k, m)
  \/ \E m \in Methods : BeginPay(s, o, m)
  \/ BeginCancel(s, o)
  \/ BeginClose(s, o)
  \/ \E m \in Channels, success \in BOOLEAN : BeginNotify(s, o, m, success)
  \/ \E cents \in 1 .. orders[o].payable : BeginRefund(s, o, cents)
  \/ \E i \in DOMAIN refunds[o], op \in {"complete", "reject"} : BeginProcess(s, o, i, op)

Commit(s) ==
  \/ CommitCreate(s) \/ CommitTopup(s) \/ CommitPay(s) \/ CommitCancel(s)
  \/ CommitClose(s) \/ CommitExpire(s) \/ CommitNotifyFailed(s) \/ CommitNotify(s)
  \/ CommitRefund(s) \/ CommitReject(s) \/ CommitComplete(s) \/ CommitWallet(s)

Next ==
  \/ \E s \in Clients, o \in Orders : BeginOnOrder(s, o)
  \/ \E s \in Clients, u \in Users : BeginMyWallet(s, u)
  \/ \E s \in Clients, u \in Users, cents \in Prices \ {0} : BeginGrant(s, u, cents)
  \/ \E s \in Workers : BeginExpire(s)
  \/ \E s \in Sessions : ReadAccount(s) \/ Refused(s) \/ Commit(s) \/ Crash(s)
  \/ \E o \in Orders : PassDeadline(o)

Spec == Init /\ [][Next]_vars
-----------------------------------------------------------------------------
(* Type correctness.                                                       *)

OrderRow == [user : Users \cup {"none"}, kind : Kinds \cup {"wallet_topup", "none"},
             payable : Nat, key : Keys \cup {NoKey},
             status : OrderStatus \cup {"absent"}, pay_method : Methods \cup {"none"}]
Ops == {"idle", "create", "topup", "pay", "cancel", "close", "expire", "notify_ok",
        "notify_fail", "refund", "complete", "reject", "grant", "my_wallet"}
Tx == [op : Ops, o : Orders \cup {"none"}, row : OrderRow, method : Methods \cup {"none"},
       idx : Nat, cents : Nat, batch : SUBSET Orders, acct : Account, holds : BOOLEAN]

\* The type invariant of the component.
TypeOK ==
  /\ auto \in BOOLEAN
  /\ orders \in [Orders -> OrderRow]
  /\ due \in [Orders -> BOOLEAN]
  /\ payments \in [Orders ->
       Seq([method : Methods, status : {"pending", "succeeded", "failed"}])]
  /\ refunds \in [Orders ->
       Seq([cents : Nat, status : {"submitted", "completed", "rejected"}])]
  /\ wallet \in [Users -> Account]
  /\ ledger \in [Users -> Ledger]
  /\ booked \in [Orders -> [charged : Nat, refunded : Nat]]
  /\ active \in [Orders -> Nat]
  /\ events \in [Orders -> SUBSET {"ORDER_PAID", "ORDER_CANCELLED", "ORDER_REFUNDED"}]
  /\ tx \in [Sessions -> Tx]

-----------------------------------------------------------------------------
(* What holds when requests do not overlap (one session serves them all):  *)
(* every order of customers, channel callbacks, admins and the worker.     *)

Succeeded(o) == Cardinality({i \in DOMAIN payments[o] : payments[o][i].status = "succeeded"})

\* reconcile_user answers ok for every user: the balance is the sum of the
\* ledger, and the version has counted every posting.
LedgerReconciles == \A u \in Users : Reconciles(wallet[u], ledger[u])

\* A buyer never gets back more than the payments of the order have brought
\* in, however notifications, refunds, rejections and closings follow each other.
RefundsCovered ==
  \A o \in Orders : booked[o].refunded <= Succeeded(o) * orders[o].payable

\* While an order may still be paid, and after it was cancelled unpaid, no
\* payment of it has succeeded: nobody's money hangs on a dead order.
NoMoneyBehindUnpaidOrder ==
  \A o \in Orders :
    orders[o].status \in PAYABLE_STATUSES \cup {"cancelled"} => Succeeded(o) = 0

\* A refunded membership order leaves no active membership behind.
RefundedMembershipIsOver ==
  \A o \in Orders :
    orders[o].status = "refunded" /\ orders[o].kind = "membership" => active[o] = 0

\* An order that is over holds nothing any more, neither money nor a membership
\* (cancel_order, complete_refund, expire_unpaid_orders).
OverIsOver == NoMoneyBehindUnpaidOrder /\ RefundedMembershipIsOver

\* A retried create_order with the same Idempotency-Key makes no second order.
OneOrderPerKey ==
  \A o, p \in Orders :
    orders[o].key # NoKey /\ orders[o].key = orders[p].key
      /\ orders[o].user = orders[p].user => o = p

-----------------------------------------------------------------------------
(* What holds however the requests overlap.                                *)

\* No interleaving of charges and credits drives a balance below zero or gives
\* the welcome credit twice: the guard of charge looks at the same row that
\* the charge is computed from, and the primary key lets one insert win.
WalletSound ==
  \A u \in Users : wallet[u].balance >= 0 /\ ledger[u].welcomes <= 1

\* The payment row, the ledger row and the wallet update of pay_order commit
\* together: what an order was charged is what its wallet payments say.
ChargedAsPaid ==
  \A o \in Orders :
    booked[o].charged =
      orders[o].payable * Cardinality({i \in DOMAIN payments[o] :
        payments[o][i].method = "wallet" /\ payments[o][i].status = "succeeded"})

\* A completed refund has been credited: no interleaving of admins completing
\* and rejecting it leaves a completed refund without its money.
CompletedIsCredited ==
  \A o \in Orders :
    \A i \in DOMAIN refunds[o] :
      refunds[o][i].status = "completed" => booked[o].refunded >= refunds[o][i].cents

\* The ledger says of every order what its payments and refunds say (pay_order,
\* complete_refund), whatever overlaps.
LedgerFollowsOrders == ChargedAsPaid /\ CompletedIsCredited

\* Whoever paid is heard: whatever overlapping writers leave in the status of an
\* order, one that is or was paid has its ORDER_PAID row in the outbox.
PaidIsServed ==
  \A o \in Orders :
    orders[o].status \in {"paid", "refunding", "refunded"} => "ORDER_PAID" \in events[o]

\* An order that has left the payable statuses never becomes payable again,
\* not even through a pay_order that read it before it was cancelled.
NeverPayableAgain ==
  [][\A o \in Orders :
       orders[o].status \in OrderStatus \ PAYABLE_STATUSES =>
         orders'[o].status \notin PAYABLE_STATUSES]_vars

\* The worker's cron runs again and again, and a run that crashes is run again.
Fairness ==
  /\ \A s \in Workers : WF_vars(BeginExpire(s)) /\ SF_vars(CommitExpire(s))
  /\ \A s \in Sessions : WF_vars(ReadAccount(s) \/ Refused(s) \/ Commit(s))

LiveSpec == Spec /\ Fairness

\* An unpaid order whose deadline has passed is settled one way or the other.
DueOrdersAreClosed ==
  \A o \in Orders :
    (due[o] /\ orders[o].status \in PAYABLE_STATUSES)
      ~> (orders[o].status \notin PAYABLE_STATUSES)
=============================================================================
