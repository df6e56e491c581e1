------------------------------ MODULE Companions -----------------------------
(***************************************************************************)
(* How one user becomes a companion and stays one: the application, its    *)
(* review, pausing, and the guild the profile is assigned to               *)
(* (src/app/modules/companion/service.py, admin/companion.py,              *)
(* GuildService.admin_assign_companion of clubs/service.py).               *)
(*                                                                         *)
(* Specialty, introduction and prices are left out; counters and slots are *)
(* in Booking.  No code sets the status "banned".                          *)
(***************************************************************************)
EXTENDS Requests

CONSTANTS
  Reviewers,    \* admins
  GuildIds

ASSUME CompanionsAssumption == "self" \notin Reviewers /\ "none" \notin GuildIds

VARIABLES
  pro,    \* the companion_profiles row: status, reject_reason, guild_id
  ruling,   \* the last of application, approval and rejection (history)
  approved,  \* was ever approved (history)
  helperTx   \* the open request of the user ("self") and of each admin

companionVars == <<pro, ruling, approved, helperTx>>

NoProfile == [status |-> "absent", refused |-> FALSE, guild |-> "none"]
NoHelperTx == [op |-> "idle", to |-> "none", row |-> NoProfile]

CompanionsInit ==
  /\ pro = NoProfile /\ ruling = "none" /\ approved = FALSE
  /\ helperTx = [a \in Reviewers \cup {"self"} |-> NoHelperTx]

BeginHelper(a, op, to) ==
  /\ MayBegin(helperTx, a, NoHelperTx)
  /\ helperTx' = [helperTx EXCEPT ![a] = [op |-> op, to |-> to, row |-> pro]]
  /\ UNCHANGED <<serial, blocks, pro, ruling, approved>>

EndHelper(a) == helperTx' = [helperTx EXCEPT ![a] = NoHelperTx]

\* The columns that a's request has changed.
WriteHelper(a, row) ==
  LET read == helperTx[a].row IN
  pro' = [status |-> WrittenBack(pro.status, read.status, row.status),
             refused |-> WrittenBack(pro.refused, read.refused, row.refused),
             guild |-> WrittenBack(pro.guild, read.guild, row.guild)]

\* apply: not by an active companion; a paused one applies again.
BeginApply == pro.status # "active" /\ BeginHelper("self", "apply", "pending")

\* update_my_profile: the status is the user's own once the profile was approved.
BeginPause ==
  /\ pro.status # "absent"
  /\ \E to \in {"active", "paused"} : BeginHelper("self", "pause", to)

\* A plausible slip: a profile that still waits is let through.
ChoosableWaiting(status) == status \in {"active", "paused", "pending"}

Choosable(status) == status \in {"active", "paused"}

\* admin_review_companion: any profile, reviewed before or not.
BeginReviewOf(a) ==
  /\ pro.status # "absent"
  /\ \E to \in {"active", "rejected"} : BeginHelper(a, "review", to)

CommitStatusOf(a) ==
  LET t == helperTx[a] IN
  /\ t.op \in {"apply", "pause", "review"}
  /\ t.op = "pause" => Choosable(t.row.status)
  /\ WriteHelper(a, [t.row EXCEPT !.status = t.to,
       !.refused = IF t.op = "pause" THEN @ ELSE t.to = "rejected"])
  /\ ruling' = CASE t.op = "apply" -> "applied" [] t.op = "pause" -> ruling
                  [] t.to = "active" -> "approved" [] OTHER -> "rejected"
  /\ approved' = (approved \/ (t.op = "review" /\ t.to = "active"))
  /\ EndHelper(a)
  /\ UNCHANGED <<serial, blocks>>

\* admin_assign_companion: taking away is of this guild only.
BeginAssign(a, g) ==
  /\ pro.status # "absent"
  /\ \E op \in {"assign", "unassign"} : BeginHelper(a, op, g)

CommitAssign(a) ==
  LET t == helperTx[a] IN
  /\ t.op \in {"assign", "unassign"}
  /\ WriteHelper(a, [t.row EXCEPT !.guild =
       CASE t.op = "assign" -> t.to [] @ = t.to -> "none" [] OTHER -> @])
  /\ EndHelper(a)
  /\ UNCHANGED <<serial, blocks, ruling, approved>>

\* Two first applications cannot overlap: the user is the primary key.
AbortHelper(a) ==
  /\ helperTx[a] # NoHelperTx /\ EndHelper(a)
  /\ UNCHANGED <<serial, blocks, pro, ruling, approved>>

CompanionsNext ==
  \/ BeginApply \/ BeginPause
  \/ \E a \in Reviewers :
       \/ BeginReviewOf(a) \/ CommitAssign(a)
       \/ \E g \in GuildIds : BeginAssign(a, g)
  \/ \E a \in Reviewers \cup {"self"} : CommitStatusOf(a) \/ AbortHelper(a)
-----------------------------------------------------------------------------
CompanionsTypeOK ==
  /\ pro.status \in {"absent", "pending", "active", "paused", "rejected"}
  /\ pro.refused \in BOOLEAN /\ pro.guild \in GuildIds \cup {"none"}
  /\ ruling \in {"none", "applied", "approved", "rejected"} /\ approved \in BOOLEAN

\* apply, update_my_profile and admin_review_companion: nobody works as a
\* companion whom no admin has ever approved, overlapping or not; and where
\* requests do not overlap, what the profile says is what was decided last, with
\* the reason of a rejection exactly beside a rejection.  (A resumption that
\* overlaps a rejection undoes it and keeps the reason.)
CompanionIsApproved ==
  /\ Choosable(pro.status) => approved
  /\ serial => /\ Choosable(pro.status) => ruling = "approved"
               /\ (pro.status = "rejected") <=> (ruling = "rejected")
               /\ pro.refused <=> (pro.status = "rejected")
=============================================================================
