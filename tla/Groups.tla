-------------------------------- MODULE Groups -------------------------------
(***************************************************************************)
(* A chat group, its members and its owner: create_group, add_members,     *)
(* leave_or_kick and dissolve of src/app/modules/messaging/service.py for  *)
(* a conversation of kind "group".                                         *)
(*                                                                         *)
(* A member's role is "owner" or "member": no code makes anybody an admin. *)
(* Leaving keeps the role of the row, and whoever is added again gets      *)
(* their old row back, role included.                                      *)
(***************************************************************************)
EXTENDS Requests

VARIABLES
  group,    \* the conversation: its status and owner_id
  roster,   \* roster[u]: the conversation_members row of u
  since,    \* since[u]: the order of joined_at; members of one request share it
  groupTx   \* groupTx[u]: the open request of u

groupVars == <<group, roster, since, groupTx>>

NoRow == [status |-> "absent", role |-> "member"]
NoGroup == [status |-> "absent", owner |-> "none"]
NoGroupTx == [op |-> "idle", on |-> "none", was |-> NoRow, owner |-> "none",
              heir |-> "none", batch |-> {}]

GroupsInit ==
  /\ group = NoGroup
  /\ roster = [u \in Members |-> NoRow]
  /\ since = [u \in Members |-> 0]
  /\ groupTx = [u \in Members |-> NoGroupTx]

In(u) == roster[u].status = "active"
Runs(u) == In(u) /\ roster[u].role = "owner"

\* create_group
Create(u, others) ==
  /\ MayBegin(groupTx, u, NoGroupTx) /\ group = NoGroup
  /\ group' = [status |-> "active", owner |-> u]
  /\ roster' = [v \in Members |->
       IF v = u THEN [status |-> "active", role |-> "owner"]
       ELSE IF v \in others THEN [status |-> "active", role |-> "member"] ELSE NoRow]
  /\ UNCHANGED <<serial, blocks, since, groupTx>>

BeginGroup(u, t) ==
  /\ group.status = "active" /\ In(u)
  /\ MayBegin(groupTx, u, NoGroupTx)
  /\ groupTx' = [groupTx EXCEPT ![u] = t]
  /\ UNCHANGED <<serial, blocks, group, roster, since>>

EndGroup(u) == groupTx' = [groupTx EXCEPT ![u] = NoGroupTx]

\* A plausible slip: whoever ever joined first, gone or not.
HeirsEver(u) ==
  LET others == {v \in Members \ {u} : roster[v] # NoRow} IN
  {v \in others : \A w \in others : since[v] <= since[w]}

\* _reassign_owner_or_dissolve: the other active members who joined first.
Heirs(u) ==
  LET others == {v \in Members \ {u} : In(v)} IN
  {v \in others : \A w \in others : since[v] <= since[w]}

\* leave_or_kick of oneself; an owner's goes on with the heir it reads.
BeginLeave(u) ==
  \E v \in IF Runs(u) /\ Heirs(u) # {} THEN Heirs(u) ELSE {"none"} :
    BeginGroup(u, [NoGroupTx EXCEPT !.op = "leave", !.was = roster[u],
                                    !.owner = group.owner, !.heir = v])

CommitLeave(u) ==
  LET t == groupTx[u] IN
  /\ t.op = "leave"
  /\ IF t.was.role # "owner" THEN
       /\ roster' = [roster EXCEPT ![u].status = "left"]
       /\ UNCHANGED group
     ELSE IF t.heir = "none" THEN
       /\ roster' = [roster EXCEPT ![u].status = "left"]
       /\ group' = [group EXCEPT !.status = "dissolved"]
     ELSE
       /\ roster' = [roster EXCEPT ![u].status = "left", ![t.heir].role = "owner"]
       /\ group' = [group EXCEPT !.owner = WrittenBack(@, t.owner, t.heir)]
  /\ EndGroup(u)
  /\ UNCHANGED <<serial, blocks, since>>

\* A plausible slip: the role is not looked at.
RemovableAny(v) == In(v)

\* Whom leave_or_kick removes: anybody but an owner.
Removable(v) == In(v) /\ roster[v].role # "owner"

BeginKick(u, v) ==
  /\ u # v /\ Runs(u) /\ Removable(v)
  /\ BeginGroup(u, [NoGroupTx EXCEPT !.op = "kick", !.on = v])

CommitKick(u) ==
  /\ groupTx[u].op = "kick"
  /\ roster' = [roster EXCEPT ![groupTx[u].on].status = "kicked"]
  /\ EndGroup(u)
  /\ UNCHANGED <<serial, blocks, group, since>>

\* add_members, of one user: their old row, or a new one.
BeginAdd(u, v) ==
  /\ Runs(u) /\ ~In(v)
  /\ BeginGroup(u, [NoGroupTx EXCEPT !.op = "add", !.on = v, !.was = roster[v]])

LastMember == {n \in 0..Cardinality(Members) :
           /\ \A v \in Members : since[v] <= n
           /\ \E v \in Members : since[v] = n}

\* Two requests that insert the same row violate uq_conversation_member.
CommitAdd(u) ==
  LET t == groupTx[u] IN
  /\ t.op = "add"
  /\ IF t.was # NoRow
     THEN roster' = [roster EXCEPT ![t.on].status = "active"] /\ UNCHANGED since
     ELSE /\ roster[t.on] = NoRow
          /\ roster' = [roster EXCEPT ![t.on] = [status |-> "active", role |-> "member"]]
          /\ \E n \in LastMember : since' = [since EXCEPT ![t.on] = n + 1]
  /\ EndGroup(u)
  /\ UNCHANGED <<serial, blocks, group>>

\* dissolve, by an owner: everybody it reads as active leaves.
BeginDissolve(u) ==
  /\ Runs(u)
  /\ BeginGroup(u, [NoGroupTx EXCEPT !.op = "dissolve", !.batch = {v \in Members : In(v)}])

CommitDissolve(u) ==
  /\ groupTx[u].op = "dissolve"
  /\ group' = [group EXCEPT !.status = "dissolved"]
  /\ roster' = [v \in Members |->
       IF v \in groupTx[u].batch THEN [roster[v] EXCEPT !.status = "left"] ELSE roster[v]]
  /\ EndGroup(u)
  /\ UNCHANGED <<serial, blocks, since>>

AbortGroup(u) ==
  /\ groupTx[u] # NoGroupTx
  /\ EndGroup(u)
  /\ UNCHANGED <<serial, blocks, group, roster, since>>

GroupsNext ==
  \E u \in Members :
    \/ \E others \in SUBSET (Members \ {u}) : Create(u, others)
    \/ BeginLeave(u) \/ CommitLeave(u) \/ CommitKick(u) \/ CommitAdd(u)
    \/ BeginDissolve(u) \/ CommitDissolve(u) \/ AbortGroup(u)
    \/ \E v \in Members : BeginKick(u, v) \/ BeginAdd(u, v)

GroupsSpec == RequestsInit /\ GroupsInit /\ [][GroupsNext]_<<serial, blocks, groupVars>>
-----------------------------------------------------------------------------
GroupsTypeOK ==
  /\ group.status \in {"absent", "active", "dissolved"}
  /\ group.owner \in Members \cup {"none"}
  /\ \A u \in Members : roster[u].status \in {"absent", "active", "left", "kicked"}
                        /\ roster[u].role \in {"owner", "member"}
  /\ \A u \in Members : groupTx[u].on \in Members \cup {"none"}

\* leave_or_kick and _reassign_owner_or_dissolve: through every sequence of
\* leaving, kicking and coming back, an active group has an owner: owner_id names
\* a row of role owner, and where requests do not overlap that member is there
\* (an owner and the heir who leave together leave the group to nobody).
GroupHasItsOwner ==
  group.status = "active" =>
    /\ roster[group.owner].role = "owner"
    /\ serial => In(group.owner)
=============================================================================
