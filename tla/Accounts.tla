------------------------------- MODULE Accounts ------------------------------
(***************************************************************************)
(* The status of one account: who may change it, in what order (profile    *)
(* and deletion of src/app/modules/user/service.py, reports of safety and  *)
(* their resolution in admin/moderation.py, sanctions of trust/service.py, *)
(* the guard of src/app/shared/deps.py).                                   *)
(*                                                                         *)
(* A sanction that runs out changes nothing by itself: its row is looked   *)
(* at when another sanction is revoked.  The command line tool that makes  *)
(* a test account active again is left out.                                *)
(***************************************************************************)
EXTENDS Requests

CONSTANTS
  Admins,
  Sanctions,  \* sanctions ever imposed on the account
  Reports     \* its reporters, each with one report at a time

ASSUME AccountsAssumption == "user" \notin Admins

VARIABLES
  acct,       \* the users row: status, discoverable, profile_completed
  sanctions,  \* sanctions[s]: kind, and whether it stands, has lapsed or is revoked
  reports,    \* reports[r]: the status of the reporter's last report, or "none"
  charge,     \* the penalty of a report that the status stands for (history)
  gone,       \* deleted by its user and not punished since (history)
  acctTx      \* the open request of the user and of each admin

accountVars == <<acct, sanctions, reports, charge, gone, acctTx>>

\* mute, limit_publish and limit_trade are one kind: limit.
Kinds == {"warn", "limit", "ban"}
NoSanction == [kind |-> "warn", state |-> "absent"]
NoAcctTx == [op |-> "idle", on |-> "none", to |-> "none", status |-> "none",
             others |-> {}, seen |-> {}]

AccountsInit ==
  /\ acct = [status |-> "active", discoverable |-> FALSE, completed |-> FALSE]
  /\ sanctions = [s \in Sanctions |-> NoSanction]
  /\ reports = [r \in Reports |-> "none"]
  /\ charge = "none" /\ gone = FALSE
  /\ acctTx = [a \in Admins \cup {"user"} |-> NoAcctTx]

\* get_current_user: a banned or deleted account makes no request.
Admitted == acct.status \notin {"banned", "deleted"}

Standing(s) == sanctions[s].state = "standing"

\* A plausible slip: a ban is taken to have ended with the sanction revoked.
OthersButBans(s) ==
  {sanctions[o].kind : o \in {o \in Sanctions \ {s} : Standing(o)}} \ {"ban"}

\* admin_revoke_sanction looks at the sanctions that are not revoked and have
\* not run out, but the one it revokes.
Others(s) == {sanctions[o].kind : o \in {o \in Sanctions \ {s} : Standing(o)}}

BeginAcct(a, op, on, to, others) ==
  /\ MayBegin(acctTx, a, NoAcctTx)
  /\ acctTx' = [acctTx EXCEPT ![a] =
       [op |-> op, on |-> on, to |-> to, status |-> acct.status, others |-> others,
        seen |-> {f \in {"discoverable", "completed"} : acct[f]}]]
  /\ UNCHANGED <<serial, blocks, acct, sanctions, reports, charge, gone>>

EndAcct(a) == acctTx' = [acctTx EXCEPT ![a] = NoAcctTx]

\* A request of a writes the three columns it has computed.
WriteAcct(a, status, discoverable, completed) ==
  LET t == acctTx[a] IN
  acct' = [status |-> WrittenBack(acct.status, t.status, status),
           discoverable |-> WrittenBack(acct.discoverable, "discoverable" \in t.seen, discoverable),
           completed |-> WrittenBack(acct.completed, "completed" \in t.seen, completed)]

\* update_profile: complete or not, of age or not.
BeginProfile == Admitted /\ BeginAcct("user", "profile", "none", "none", {})

CommitProfile ==
  /\ acctTx["user"].op = "profile"
  /\ \E ok \in BOOLEAN : WriteAcct("user", acctTx["user"].status, ok, ok)
  /\ EndAcct("user")
  /\ UNCHANGED <<serial, blocks, sanctions, reports, charge, gone>>

\* delete_account
BeginDeleteAccount == Admitted /\ BeginAcct("user", "delete", "none", "none", {})

CommitDeleteAccount ==
  /\ acctTx["user"].op = "delete"
  /\ WriteAcct("user", "deleted", FALSE, FALSE)
  /\ gone' = TRUE
  /\ EndAcct("user")
  /\ UNCHANGED <<serial, blocks, sanctions, reports, charge>>

\* create_report about a user: none pending of the same reporter, and not about
\* a deleted account (a report of something the user made may still name it).
FileReport(r) ==
  /\ reports[r] # "pending"
  /\ reports' = [reports EXCEPT ![r] = "pending"]
  /\ UNCHANGED <<serial, blocks, acct, sanctions, charge, gone, acctTx>>

\* resolve_report: warn and takedown leave the account alone.
Resolutions == {"dismiss", "warn", "limit", "ban"}

BeginResolve(a, r) ==
  /\ reports[r] = "pending"
  /\ \E to \in Resolutions : BeginAcct(a, "resolve", r, to, {})

\* What a penalty makes of the status and of why it is what it is.
Punished(to, read) == CASE to = "ban" -> "banned" [] to = "limit" -> "limited" [] OTHER -> read

CommitResolve(a) ==
  LET t == acctTx[a]  penal == t.to \in {"limit", "ban"}  seen == t.seen IN
  /\ t.op = "resolve"
  /\ reports' = [reports EXCEPT ![t.on] = IF t.to = "dismiss" THEN "dismissed" ELSE "resolved"]
  /\ WriteAcct(a, Punished(t.to, t.status), "discoverable" \in seen /\ ~penal,
               "completed" \in seen)
  /\ charge' = IF penal THEN t.to ELSE charge
  /\ gone' = (gone /\ ~penal)
  /\ EndAcct(a)
  /\ UNCHANGED <<serial, blocks, sanctions>>

\* admin_apply_sanction: a ban always, a limit of an active account only.
BeginSanction(a, s) ==
  /\ sanctions[s] = NoSanction
  /\ \A b \in Admins : acctTx[b].on # s
  /\ \E kind \in Kinds : BeginAcct(a, "sanction", s, kind, {})

CommitSanction(a) ==
  LET t == acctTx[a]
      to == IF t.to = "limit" /\ t.status # "active" THEN "warn" ELSE t.to
  IN
  /\ t.op = "sanction"
  /\ sanctions' = [sanctions EXCEPT ![t.on] = [kind |-> t.to, state |-> "standing"]]
  /\ acct' = [acct EXCEPT !.status = WrittenBack(@, t.status, Punished(to, t.status))]
  /\ charge' = IF to = "ban" THEN "none" ELSE charge
  /\ gone' = (gone /\ to # "ban")
  /\ EndAcct(a)
  /\ UNCHANGED <<serial, blocks, reports>>

\* expires_at passes.
Lapse(s) ==
  /\ Standing(s) /\ sanctions' = [sanctions EXCEPT ![s].state = "lapsed"]
  /\ UNCHANGED <<serial, blocks, acct, reports, charge, gone, acctTx>>

\* admin_revoke_sanction: a lapsed one too.
BeginRevoke(a, s) ==
  /\ sanctions[s].state \in {"standing", "lapsed"}
  /\ BeginAcct(a, "revoke", s, "none", Others(s))

CommitRevoke(a) ==
  LET t == acctTx[a]
      recomputed == t.status \in {"banned", "limited"}
      to == CASE ~recomputed -> t.status
              [] recomputed /\ t.others = {} -> "active"
              [] recomputed /\ "ban" \in t.others -> "banned"
              [] OTHER -> "limited"
  IN
  /\ t.op = "revoke"
  /\ sanctions' = [sanctions EXCEPT ![t.on].state = "revoked"]
  /\ acct' = [acct EXCEPT !.status = WrittenBack(@, t.status, to)]
  /\ charge' = IF recomputed THEN "none" ELSE charge
  /\ EndAcct(a)
  /\ UNCHANGED <<serial, blocks, reports, gone>>

AccountsNext ==
  \/ BeginProfile \/ CommitProfile \/ BeginDeleteAccount \/ CommitDeleteAccount
  \/ \E r \in Reports : FileReport(r) \/ \E a \in Admins : BeginResolve(a, r)
  \/ \E s \in Sanctions :
       Lapse(s) \/ \E a \in Admins : BeginSanction(a, s) \/ BeginRevoke(a, s)
  \/ \E a \in Admins : CommitResolve(a) \/ CommitSanction(a) \/ CommitRevoke(a)
-----------------------------------------------------------------------------
AccountsTypeOK ==
  /\ acct.status \in {"active", "limited", "banned", "deleted"}
  /\ acct.discoverable \in BOOLEAN /\ acct.completed \in BOOLEAN
  /\ \A s \in Sanctions :
       /\ sanctions[s].kind \in Kinds
       /\ sanctions[s].state \in {"absent", "standing", "lapsed", "revoked"}
  /\ reports \in [Reports -> {"none", "pending", "resolved", "dismissed"}]
  /\ charge \in {"none", "limit", "ban"} /\ gone \in BOOLEAN

Unrevoked == {sanctions[s].kind : s \in {s \in Sanctions :
                                           sanctions[s].state \in {"standing", "lapsed"}}}

\* admin_apply_sanction, admin_revoke_sanction, resolve_report, delete_account,
\* where requests do not overlap: an account is banned or limited only while
\* a report's penalty or a sanction nobody revoked accounts for it (a warning is
\* enough to keep it limited), is active only while no limit or ban stands, and a
\* ban that stands yields only to a later report's lighter penalty; a deleted
\* account is not discoverable, and only a further penalty can bring it back.
AccountHasItsReason ==
  serial =>
    /\ acct.status = "banned" => charge = "ban" \/ "ban" \in Unrevoked
    /\ acct.status = "limited" => charge = "limit" \/ Unrevoked # {}
    /\ acct.status = "active" =>
         charge = "none" /\ \A s \in Sanctions : Standing(s) => sanctions[s].kind = "warn"
    /\ (\E s \in Sanctions : Standing(s) /\ sanctions[s].kind = "ban") =>
         acct.status = "banned" \/ charge = "limit"
    /\ gone => acct.status = "deleted"
    /\ acct.status = "deleted" => ~acct.discoverable /\ ~acct.completed
=============================================================================
