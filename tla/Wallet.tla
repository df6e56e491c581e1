------------------------------- MODULE Wallet -------------------------------
(***************************************************************************)
(* WalletService of src/app/modules/commerce/wallet.py as operators on one *)
(* wallet_accounts row and on what its wallet_ledger rows add up to.  A    *)
(* request applies them to the row it has READ; when the result reaches    *)
(* the table is the business of the modules that extend this one.          *)
(***************************************************************************)
EXTENDS Integers

\* settings.wallet_welcome_cents, in the unit of the model's prices.
CONSTANT Welcome

ASSUME WelcomeAssumption == Welcome \in Nat

\* A wallet_accounts row; a user without one has exists = FALSE.
Account == [exists : BOOLEAN, balance : Nat, version : Nat]
NoAccount == [exists |-> FALSE, balance |-> 0, version |-> 0]

\* What a user's ledger rows add up to: how many there are, the sum of
\* balance_delta_cents that reconcile_user computes, and how many of them are
\* welcome credits.
Ledger == [rows : Nat, total : Int, welcomes : Nat]
NoRows == [rows |-> 0, total |-> 0, welcomes |-> 0]

\* A plausible slip: the credit is given whenever the caller asks for it.
WelcomeDueAlways(acct, grant) == grant /\ Welcome > 0

\* ensure_account posts the welcome credit only when it creates the row itself
\* and its caller asks for it.
WelcomeDue(acct, grant) == ~acct.exists /\ grant /\ Welcome > 0

\* ensure_account: the row as it is, or a new one at zero with the welcome
\* credit posted through _credit.
ensure_account(acct, grant) ==
  IF acct.exists THEN acct
  ELSE [exists  |-> TRUE,
        balance |-> IF WelcomeDue(acct, grant) THEN Welcome ELSE 0,
        version |-> IF WelcomeDue(acct, grant) THEN 1 ELSE 0]

\* A plausible slip: the balance is looked at before the amount is taken off.
CoversAny(acct, amount) == ensure_account(acct, TRUE).balance >= 0

\* The guard of charge: the balance read covers the amount.
Covers(acct, amount) == ensure_account(acct, TRUE).balance >= amount

\* A plausible slip: a posting that does not move the version.
CreditKeepsVersion(acct, delta) == [acct EXCEPT !.balance = @ + delta]

\* _credit on the row: the balance moves by delta and the version by one.
Credit(acct, delta) ==
  [acct EXCEPT !.balance = @ + delta, !.version = @ + 1]

\* The account after a request that ensures it and posts delta (0: no posting).
AccountAfter(acct, grant, delta) ==
  LET base == ensure_account(acct, grant)
  IN  IF delta = 0 THEN base ELSE Credit(base, delta)

\* The ledger rows the same request inserts beside it.
LedgerAfter(led, acct, grant, delta) ==
  LET w == IF WelcomeDue(acct, grant) THEN 1 ELSE 0
      d == IF delta = 0 THEN 0 ELSE 1
  IN  [rows     |-> led.rows + w + d,
       total    |-> led.total + delta + w * Welcome,
       welcomes |-> led.welcomes + w]

\* reconcile_user, with the version beside it: the balance is the sum of the
\* ledger and every posting has moved the version by one.
Reconciles(acct, led) == acct.balance = led.total /\ acct.version = led.rows
=============================================================================
