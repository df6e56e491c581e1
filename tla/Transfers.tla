------------------------------ MODULE Transfers ------------------------------
(***************************************************************************)
(* Transfers and calls between two users in a conversation                 *)
(* (src/app/modules/messaging/service.py), on the wallets of Wallet.       *)
(*                                                                         *)
(* accept_transfer and cancel_transfer read the transfer without a lock    *)
(* and write it with the wallet they read; the router commits.  A request  *)
(* that raises after a change is rolled back: such is the acceptance of an *)
(* expired transfer, which marks it expired and returns the money only to  *)
(* throw both away.                                                        *)
(***************************************************************************)
EXTENDS Requests, Wallet

CONSTANTS
  TransferIds,
  Sums          \* amounts that are sent

ASSUME TransfersAssumption == Sums \subseteq Nat \ {0} /\ "none" \notin Users

VARIABLES
  purses,     \* purses[u]: the wallet_accounts row of u
  transfers,  \* chat_transfers
  overdue,    \* transfers whose expires_at has passed
  call,       \* one call session: its status, and whether it was connected
  hungUp,     \* the call was rejected, cancelled or ended (history)
  moneyTx     \* moneyTx[u]: the open request of u

transferVars == <<purses, transfers, overdue, call, hungUp, moneyTx>>

NoTransfer == [status |-> "none", from |-> "none", to |-> "none", amount |-> 0]
NoMoneyTx == [op |-> "idle", on |-> "none", with |-> "none", amount |-> 0, purse |-> NoAccount]

TransfersInit ==
  /\ purses = [u \in Users |-> NoAccount]
  /\ transfers = [i \in TransferIds |-> NoTransfer]
  /\ overdue = {} /\ call = "none" /\ hungUp = FALSE
  /\ moneyTx = [u \in Users |-> NoMoneyTx]

BeginMoney(u, op, on, with, amount) ==
  /\ MayBegin(moneyTx, u, NoMoneyTx)
  /\ moneyTx' = [moneyTx EXCEPT ![u] =
       [op |-> op, on |-> on, with |-> with, amount |-> amount, purse |-> purses[u]]]
  /\ UNCHANGED <<serial, blocks, purses, transfers, overdue, call, hungUp>>

EndMoney(u) == moneyTx' = [moneyTx EXCEPT ![u] = NoMoneyTx]

\* brief: the wallet is created when its owner first looks at it.
OpenWallet(u) ==
  /\ MayBegin(moneyTx, u, NoMoneyTx) /\ ~purses[u].exists
  /\ purses' = [purses EXCEPT ![u] = ensure_account(@, TRUE)]
  /\ UNCHANGED <<serial, blocks, transfers, overdue, call, hungUp, moneyTx>>

\* create_transfer: debited at once.
BeginTransfer(u, v, i, n) ==
  /\ u # v /\ transfers[i] = NoTransfer /\ (\A w \in Users : moneyTx[w].on # i)
  /\ Covers(purses[u], n)
  /\ BeginMoney(u, "create", i, v, n)

CommitTransfer(u) ==
  LET t == moneyTx[u] IN
  /\ t.op = "create"
  /\ ~t.purse.exists => ~purses[u].exists  \* the primary key of wallet_accounts
  /\ purses' = [purses EXCEPT ![u] = AccountAfter(t.purse, TRUE, 0 - t.amount)]
  /\ transfers' = [transfers EXCEPT ![t.on] =
       [status |-> "pending", from |-> u, to |-> t.with, amount |-> t.amount]]
  /\ EndMoney(u)
  /\ UNCHANGED <<serial, blocks, overdue, call, hungUp>>

Expire(i) ==
  /\ transfers[i].status = "pending" /\ i \notin overdue
  /\ overdue' = overdue \cup {i}
  /\ UNCHANGED <<serial, blocks, purses, transfers, call, hungUp, moneyTx>>

\* accept_transfer, by the receiver: pending, and not expired.
BeginAcceptance(u, i) ==
  /\ transfers[i].status = "pending" /\ transfers[i].to = u /\ i \notin overdue
  /\ BeginMoney(u, "accept", i, u, transfers[i].amount)

\* A plausible slip: anything but a cancelled transfer can be cancelled.
RevocableUntilCancelled(status) == status \notin {"none", "cancelled"}

\* The status that lets a sender take the money back.
Revocable(status) == status = "pending"

\* cancel_transfer, by the sender, also of an expired one.
BeginCancellation(u, i) ==
  /\ Revocable(transfers[i].status) /\ transfers[i].from = u
  /\ BeginMoney(u, "cancel", i, u, transfers[i].amount)

\* Both credit the one who calls.
CommitSettlement(u) ==
  LET t == moneyTx[u] IN
  /\ t.op \in {"accept", "cancel"}
  /\ ~t.purse.exists => ~purses[u].exists
  /\ purses' = [purses EXCEPT ![u] = AccountAfter(t.purse, FALSE, t.amount)]
  /\ transfers' = [transfers EXCEPT ![t.on].status =
                     IF t.op = "accept" THEN "accepted" ELSE "cancelled"]
  /\ EndMoney(u)
  /\ UNCHANGED <<serial, blocks, overdue, call, hungUp>>

AbortMoney(u) ==
  /\ moneyTx[u] # NoMoneyTx
  /\ EndMoney(u)
  /\ UNCHANGED <<serial, blocks, purses, transfers, overdue, call, hungUp>>

\* start_call; the one call of the model.
StartCall(u) ==
  /\ MayBegin(moneyTx, u, NoMoneyTx) /\ call = "none" /\ call' = "ringing"
  /\ UNCHANGED <<serial, blocks, purses, transfers, overdue, hungUp, moneyTx>>

\* A plausible slip: whatever was not answered before.
AnswerableAgain == call \notin {"none", "active"}

\* answer_call
Answerable == call = "ringing"

BeginAnswer(u) == Answerable /\ BeginMoney(u, "answer", "none", "none", 0)

CommitAnswer(u) ==
  /\ moneyTx[u].op = "answer" /\ call' = "active"
  /\ EndMoney(u)
  /\ UNCHANGED <<serial, blocks, purses, transfers, overdue, hungUp>>

\* reject_or_end_call: whatever the status; a call that ended may be rejected.
HangUp(u) ==
  /\ MayBegin(moneyTx, u, NoMoneyTx) /\ call # "none"
  /\ \E to \in {"rejected", "cancelled", "ended"} : call' = to
  /\ hungUp' = TRUE
  /\ UNCHANGED <<serial, blocks, purses, transfers, overdue, moneyTx>>

TransfersNext ==
  \/ \E u \in Users, i \in TransferIds :
       \/ \E v \in Users, n \in Sums : BeginTransfer(u, v, i, n)
       \/ BeginAcceptance(u, i) \/ BeginCancellation(u, i)
  \/ \E u \in Users :
       \/ OpenWallet(u) \/ CommitTransfer(u) \/ CommitSettlement(u) \/ AbortMoney(u)
       \/ StartCall(u) \/ BeginAnswer(u) \/ CommitAnswer(u) \/ HangUp(u)
  \/ \E i \in TransferIds : Expire(i)

TransfersSpec ==
  RequestsInit /\ TransfersInit /\ [][TransfersNext]_<<serial, blocks, transferVars>>
-----------------------------------------------------------------------------
TransfersTypeOK ==
  /\ purses \in [Users -> Account]
  /\ \A i \in TransferIds :
       /\ transfers[i].status \in {"none", "pending", "accepted", "cancelled"}
       /\ transfers[i].amount \in Sums \cup {0}
  /\ overdue \subseteq TransferIds
  /\ call \in {"none", "ringing", "active", "rejected", "cancelled", "ended"}

Stage(status) ==
  CASE status = "none" -> "none" [] status = "pending" -> "held"
    [] status = "accepted" -> "paid" [] OTHER -> "returned"

\* The escrow that the wallets and the transfers amount to.
E == INSTANCE Escrow WITH
       Parties <- Users, Ids <- TransferIds, Amounts <- Sums, Gift <- Welcome,
       purse <- [u \in Users |-> purses[u].balance],
       known <- {u \in Users : purses[u].exists},
       held <- [i \in TransferIds |->
                  [stage |-> Stage(transfers[i].status), from |-> transfers[i].from,
                   to |-> transfers[i].to, amount |-> transfers[i].amount]]

\* create_transfer ("Hold funds in wallet (debit immediately; credit on accept)"),
\* accept_transfer, cancel_transfer: where requests do not overlap, wallets and
\* transfers are an escrow; an amount that was sent reaches the receiver or
\* comes back to the sender, never both, never twice, whatever expires or is
\* rolled back in between.  (An acceptance and a cancellation that overlap pay
\* it to both.)
TransfersAreEscrow == E!Init /\ [][serial => E!Next]_(E!escrowVars)

\* answer_call and reject_or_end_call: a call that is over is never active again
\* where requests do not overlap.
CallStaysOver == serial /\ hungUp => call # "active"
=============================================================================
