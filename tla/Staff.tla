-------------------------------- MODULE Staff ---------------------------------
(***************************************************************************)
(* The accounts of the back office: who may create and change them         *)
(* (src/app/modules/admin/accounts.py, deps.py, service.py) and what a     *)
(* first start leaves behind (seed.py).  Only a superadmin holds           *)
(* admin:manage; the other roles are one.  Passwords are left out, they    *)
(* open the door of an active account and change nothing here; a token is  *)
(* good for as long as the account is active.                              *)
(***************************************************************************)
EXTENDS Requests

CONSTANTS
  Staff,       \* the usernames
  FirstAdmin   \* admin_default_username

ASSUME StaffAssumption == FirstAdmin \in Staff

VARIABLES
  staff,    \* staff[n]: the admin_users row of n, or NoStaff
  staffTx   \* staffTx[a]: the open request of a

staffVars == <<staff, staffTx>>

StaffRow == [role : {"superadmin", "other"}, active : BOOLEAN]
NoStaff == [role |-> "none", active |-> FALSE]
NoStaffTx == [op |-> "idle", on |-> FirstAdmin, read |-> NoStaff, to |-> NoStaff]

\* ensure_demo_admin_accounts: the default admin; the auditor and the finance
\* account are two of "other" and might as well be created by hand.
StaffInit ==
  /\ staff = [n \in Staff |-> IF n = FirstAdmin THEN [role |-> "superadmin", active |-> TRUE]
                              ELSE NoStaff]
  /\ staffTx = [a \in Staff |-> NoStaffTx]

\* get_current_admin and require_perm("admin:manage")
Manages(a) == staff[a] = [role |-> "superadmin", active |-> TRUE]

BeginStaff(a, op, n, to) ==
  /\ Manages(a) /\ MayBegin(staffTx, a, NoStaffTx)
  /\ staffTx' = [staffTx EXCEPT ![a] = [op |-> op, on |-> n, read |-> staff[n], to |-> to]]
  /\ UNCHANGED <<serial, blocks, staff>>

EndStaff(a) == staffTx' = [staffTx EXCEPT ![a] = NoStaffTx]

\* create_admin
BeginCreateAdmin(a, n) ==
  /\ staff[n] = NoStaff
  /\ \E role \in {"superadmin", "other"} :
       BeginStaff(a, "create", n, [role |-> role, active |-> TRUE])

\* The username is unique: of two overlapping creations one fails.
CommitCreateAdmin(a) ==
  LET t == staffTx[a] IN
  /\ t.op = "create" /\ staff[t.on] = NoStaff
  /\ staff' = [staff EXCEPT ![t.on] = t.to]
  /\ EndStaff(a)
  /\ UNCHANGED <<serial, blocks>>

\* A plausible slip: switching an account off is not seen as a demotion.
DemotesByRole(to) == to.role # "superadmin"

Demotes(to) == to.role # "superadmin" \/ ~to.active

\* update_admin: never the last superadmin that is active, and never oneself (who
\* updates manages, so that any change of one's own role or activity demotes).
MayUpdate(a, n, to) ==
  /\ staff[n].role = "superadmin" /\ Demotes(to) => \E m \in Staff \ {n} : Manages(m)
  /\ n = a => ~Demotes(to)

BeginUpdateAdmin(a, n) ==
  /\ staff[n] # NoStaff
  /\ \E to \in StaffRow : MayUpdate(a, n, to) /\ BeginStaff(a, "update", n, to)

CommitUpdateAdmin(a) ==
  LET t == staffTx[a] IN
  /\ t.op = "update"
  /\ staff' = [staff EXCEPT ![t.on] =
       [role |-> WrittenBack(@.role, t.read.role, t.to.role),
        active |-> WrittenBack(@.active, t.read.active, t.to.active)]]
  /\ EndStaff(a)
  /\ UNCHANGED <<serial, blocks>>

AbortStaff(a) ==
  /\ staffTx[a] # NoStaffTx
  /\ EndStaff(a)
  /\ UNCHANGED <<serial, blocks, staff>>

StaffNext ==
  \E a \in Staff :
    \/ \E n \in Staff : BeginCreateAdmin(a, n) \/ BeginUpdateAdmin(a, n)
    \/ CommitCreateAdmin(a) \/ CommitUpdateAdmin(a) \/ AbortStaff(a)

StaffSpec == RequestsInit /\ StaffInit /\ [][StaffNext]_<<serial, blocks, staffVars>>
-----------------------------------------------------------------------------
StaffTypeOK ==
  /\ staff \in [Staff -> StaffRow \cup {NoStaff}]
  /\ staffTx \in [Staff -> [op : {"idle", "create", "update"}, on : Staff,
                            read : StaffRow \cup {NoStaff}, to : StaffRow \cup {NoStaff}]]

\* update_admin: "the last superadmin can be neither switched off nor demoted" and
\* nobody demotes themselves, so that somebody can always manage the accounts as
\* long as requests do not overlap (two superadmins who demote each other at the
\* same time leave nobody: neither request locks the rows it counts).
SomebodyManages == serial => \E a \in Staff : Manages(a)
=============================================================================
