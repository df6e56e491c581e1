----------------------------- MODULE PeopleProofs -----------------------------
(***************************************************************************)
(* What users do to each other: matches, contacts, groups, clubs, guilds,  *)
(* content and media, each with its inductive invariant, and what follows  *)
(* for the composition of all (Transfers has a module of its own).         *)
(***************************************************************************)
EXTENDS People, TransfersProofs, FiniteSetTheorems
-----------------------------------------------------------------------------
(***************************************************************************)
(* Groups.  That owner_id names a row of role owner needs nothing but the  *)
(* types: no step takes a role away.  That the owner is also there needs,  *)
(* where requests do not overlap, that the one open request still sees     *)
(* what it read: that an heir who takes over has not left, and that        *)
(* whoever is kicked is not the owner.                                     *)
(***************************************************************************)
Row == [status : {"absent", "active", "left", "kicked"}, role : {"owner", "member"}]
GroupRequest ==
  [op : {"idle", "leave", "kick", "add", "dissolve"}, on : Members \cup {"none"},
   was : Row, owner : Members \cup {"none"}, heir : Members \cup {"none"},
   batch : SUBSET Members]

GroupTyped ==
  /\ group \in [status : {"absent", "active", "dissolved"}, owner : Members \cup {"none"}]
  /\ roster \in [Members -> Row]
  /\ groupTx \in [Members -> GroupRequest]
  /\ \A u \in Members : groupTx[u].op \in {"kick", "add"} => groupTx[u].on \in Members

\* What an open request that nothing has overtaken rests on.
StillAsRead(u) ==
  LET t == groupTx[u] IN
  /\ \A v \in Members \ {u} : groupTx[v] = NoGroupTx
  /\ t.op = "leave" =>
       /\ t.was = roster[u] /\ t.owner = group.owner
       /\ t.heir # "none" => t.heir # u /\ In(t.heir)
  /\ t.op = "kick" => roster[t.on].role # "owner"

\* The inductive invariant.
GroupInv ==
  /\ GroupTyped
  /\ group.status = "active" => group.owner \in Members
  /\ serial => \A u \in Members : groupTx[u] # NoGroupTx => StillAsRead(u)
  /\ GroupHasItsOwner

LEMMA NoGroupRequest == NoGroupTx \in GroupRequest /\ NoRow \in Row
BY DEF NoGroupTx, NoRow, GroupRequest, Row

\* create_group, when nobody has a request open where requests do not overlap.
LEMMA GroupCreateKeeps ==
  ASSUME GroupInv, NEW u \in Members, NEW others \in SUBSET (Members \ {u}),
         Create(u, others)
  PROVE  GroupInv'
<1>1. /\ group' = [status |-> "active", owner |-> u] /\ groupTx' = groupTx
      /\ roster' = [v \in Members |->
           IF v = u THEN [status |-> "active", role |-> "owner"]
           ELSE IF v \in others THEN [status |-> "active", role |-> "member"] ELSE NoRow]
      /\ serial' = serial /\ groupTx[u] = NoGroupTx
      /\ serial => \A v \in Members : groupTx[v] = NoGroupTx
  <2>1. DOMAIN groupTx = Members BY DEF GroupInv, GroupTyped
  <2> QED BY <2>1 DEF Create, MayBegin
<1>2. GroupTyped' BY <1>1, NoGroupRequest DEF GroupInv, GroupTyped, Row
<1>3. GroupHasItsOwner' BY <1>1 DEF GroupHasItsOwner, In
<1> QED BY <1>1, <1>2, <1>3 DEF GroupInv

\* A request that begins is grounded.
LEMMA GroupBeginKeeps ==
  ASSUME GroupInv, NEW u \in Members, NEW t \in GroupRequest, BeginGroup(u, t),
         t.op \in {"kick", "add"} => t.on \in Members,
         t.op = "leave" => /\ t.was = roster[u] /\ t.owner = group.owner
                           /\ t.heir # "none" => t.heir # u /\ In(t.heir),
         t.op = "kick" => roster[t.on].role # "owner"
  PROVE  GroupInv'
<1>1. /\ groupTx' = [groupTx EXCEPT ![u] = t] /\ UNCHANGED <<serial, group, roster>>
      /\ serial => \A v \in Members : groupTx[v] = NoGroupTx
  <2>1. DOMAIN groupTx = Members BY DEF GroupInv, GroupTyped
  <2> QED BY <2>1 DEF BeginGroup, MayBegin
<1>2. \A v \in Members : groupTx'[v] = IF v = u THEN t ELSE groupTx[v]
  BY <1>1 DEF GroupInv, GroupTyped
<1>3. GroupTyped' BY <1>1, <1>2 DEF GroupInv, GroupTyped
<1>4. ASSUME serial', NEW v \in Members, groupTx'[v] # NoGroupTx PROVE StillAsRead(v)'
  BY <1>1, <1>2, <1>4 DEF StillAsRead, In
<1>5. GroupHasItsOwner' /\ (group'.status = "active" => group'.owner \in Members)
  BY <1>1 DEF GroupInv, GroupHasItsOwner, In
<1> QED BY <1>3, <1>4, <1>5 DEF GroupInv

\* A request that ends leaves nothing open where requests do not overlap.
LEMMA GroupEndKeeps ==
  ASSUME GroupInv, NEW u \in Members, groupTx[u] # NoGroupTx, EndGroup(u),
         serial' = serial, roster' \in [Members -> Row],
         group' \in [status : {"absent", "active", "dissolved"}, owner : Members \cup {"none"}],
         group'.status = "active" => group'.owner \in Members,
         GroupHasItsOwner'
  PROVE  GroupInv'
<1>1. \A v \in Members : groupTx'[v] = IF v = u THEN NoGroupTx ELSE groupTx[v]
  BY DEF EndGroup, GroupInv, GroupTyped
<1>2. NoGroupTx.op = "idle" BY DEF NoGroupTx
<1>3. GroupTyped'
  <2>1. groupTx' \in [Members -> GroupRequest]
    BY NoGroupRequest DEF EndGroup, GroupInv, GroupTyped
  <2> QED BY <1>1, <1>2, <2>1 DEF GroupInv, GroupTyped
<1>4. ASSUME serial', NEW v \in Members PROVE groupTx'[v] = NoGroupTx
  BY <1>1, <1>4 DEF GroupInv, StillAsRead
<1> QED BY <1>3, <1>4 DEF GroupInv

\* Leaving: the owner hands the group to the heir, or dissolves it.
LEMMA LeaveKeeps ==
  ASSUME GroupInv, NEW u \in Members, CommitLeave(u)
  PROVE  GroupInv'
<1> DEFINE t == groupTx[u]
<1>1. t.op = "leave" /\ EndGroup(u) /\ serial' = serial /\ t # NoGroupTx
  BY DEF CommitLeave, NoGroupTx
<1>2. /\ roster \in [Members -> Row] /\ t.heir \in Members \cup {"none"}
      /\ group \in [status : {"absent", "active", "dissolved"}, owner : Members \cup {"none"}]
  BY DEF GroupInv, GroupTyped, GroupRequest
<1>3. CASE t.was.role # "owner"
  <2>1. roster' = [roster EXCEPT ![u].status = "left"] /\ group' = group
    BY <1>1, <1>3 DEF CommitLeave
  <2>2. roster' \in [Members -> Row] BY <1>2, <2>1 DEF Row
  <2>3. GroupHasItsOwner'
    <3>1. ASSUME group.status = "active" PROVE roster'[group.owner].role = "owner"
      BY <1>2, <2>1, <3>1 DEF GroupInv, GroupHasItsOwner, Row
    <3>2. ASSUME group.status = "active", serial PROVE In(group.owner)'
      <4>1. t.was = roster[u] BY <1>1, <3>2 DEF GroupInv, StillAsRead
      <4>2. group.owner # u BY <1>3, <3>2, <4>1 DEF GroupInv, GroupHasItsOwner
      <4> QED BY <1>2, <2>1, <3>2, <4>2 DEF GroupInv, GroupHasItsOwner, In
    <3> QED BY <1>1, <2>1, <3>1, <3>2 DEF GroupHasItsOwner
  <2> QED BY <1>1, <1>2, <2>1, <2>2, <2>3, GroupEndKeeps DEF GroupInv
<1>4. CASE t.was.role = "owner" /\ t.heir = "none"
  <2>1. /\ roster' = [roster EXCEPT ![u].status = "left"]
        /\ group' = [group EXCEPT !.status = "dissolved"]
    BY <1>1, <1>4 DEF CommitLeave
  <2>2. roster' \in [Members -> Row] BY <1>2, <2>1 DEF Row
  <2>3. /\ group' \in [status : {"absent", "active", "dissolved"}, owner : Members \cup {"none"}]
        /\ group'.status = "dissolved"
    BY <1>2, <2>1
  <2> QED BY <1>1, <2>2, <2>3, GroupEndKeeps DEF GroupHasItsOwner
<1>5. CASE t.was.role = "owner" /\ t.heir # "none"
  <2>1. /\ roster' = [roster EXCEPT ![u].status = "left", ![t.heir].role = "owner"]
        /\ group' = [group EXCEPT !.owner = WrittenBack(group.owner, t.owner, t.heir)]
    BY <1>1, <1>5 DEF CommitLeave
  <2>2. t.heir \in Members BY <1>2, <1>5
  <2>3. /\ roster' \in [Members -> Row] /\ roster'[t.heir].role = "owner"
        /\ \A v \in Members : roster[v].role = "owner" => roster'[v].role = "owner"
        /\ \A v \in Members : v # u /\ In(v) => roster'[v].status = "active"
    BY <1>2, <2>1, <2>2 DEF Row, In
  <2>4. /\ group' \in [status : {"absent", "active", "dissolved"}, owner : Members \cup {"none"}]
        /\ group'.status = group.status /\ group'.owner \in {group.owner, t.heir}
    BY <1>2, <2>1, <2>2 DEF WrittenBack
  <2>5. ASSUME group.status = "active", serial PROVE In(group.owner)'
    <3>1. t.owner = group.owner /\ t.heir # u /\ In(t.heir)
      BY <1>1, <1>5, <2>5 DEF GroupInv, StillAsRead
    <3>2. group'.owner = t.heir BY <1>2, <2>1, <3>1 DEF WrittenBack
    <3> QED BY <2>2, <2>3, <3>1, <3>2 DEF In
  <2>6. GroupHasItsOwner'
    BY <1>1, <2>2, <2>3, <2>4, <2>5 DEF GroupInv, GroupHasItsOwner, In
  <2> QED BY <1>1, <2>2, <2>3, <2>4, <2>6, GroupEndKeeps DEF GroupInv
<1> QED BY <1>3, <1>4, <1>5

\* A kick takes the status from a member who is not the owner.
LEMMA KickKeeps ==
  ASSUME GroupInv, NEW u \in Members, CommitKick(u)
  PROVE  GroupInv'
<1> DEFINE t == groupTx[u]
<1>1. /\ t.op = "kick" /\ EndGroup(u) /\ serial' = serial /\ group' = group
      /\ roster' = [roster EXCEPT ![t.on].status = "kicked"] /\ t # NoGroupTx
  BY DEF CommitKick, NoGroupTx
<1>2. roster \in [Members -> Row] /\ t.on \in Members
  BY <1>1 DEF GroupInv, GroupTyped
<1>3. roster' \in [Members -> Row] BY <1>1, <1>2 DEF Row
<1>4. GroupHasItsOwner'
  <2>1. ASSUME group.status = "active" PROVE roster'[group.owner].role = "owner"
    BY <1>1, <1>2, <2>1 DEF GroupInv, GroupHasItsOwner, Row
  <2>2. ASSUME group.status = "active", serial PROVE In(group.owner)'
    <3>1. group.owner # t.on BY <1>1, <2>2 DEF GroupInv, GroupHasItsOwner, StillAsRead
    <3> QED BY <1>1, <1>2, <2>2, <3>1 DEF GroupInv, GroupHasItsOwner, In
  <2> QED BY <1>1, <2>1, <2>2 DEF GroupHasItsOwner
<1> QED BY <1>1, <1>3, <1>4, GroupEndKeeps DEF GroupInv, GroupTyped

\* Adding gives a row back, or a new one to somebody who has none.
LEMMA AddKeeps ==
  ASSUME GroupInv, NEW u \in Members, CommitAdd(u)
  PROVE  GroupInv'
<1> DEFINE t == groupTx[u]
<1>1. /\ t.op = "add" /\ EndGroup(u) /\ serial' = serial /\ group' = group /\ t # NoGroupTx
      /\ \/ roster' = [roster EXCEPT ![t.on].status = "active"]
         \/ /\ roster[t.on] = NoRow
            /\ roster' = [roster EXCEPT ![t.on] = [status |-> "active", role |-> "member"]]
  BY DEF CommitAdd, NoGroupTx
<1>2. roster \in [Members -> Row] /\ t.on \in Members
  BY <1>1 DEF GroupInv, GroupTyped
<1>3. /\ roster' \in [Members -> Row]
      /\ \A v \in Members : roster[v].role = "owner" => roster'[v].role = "owner"
      /\ \A v \in Members : In(v) => In(v)'
  BY <1>1, <1>2 DEF Row, NoRow, In
<1>4. GroupHasItsOwner' BY <1>1, <1>3 DEF GroupInv, GroupHasItsOwner, In
<1> QED BY <1>1, <1>3, <1>4, GroupEndKeeps DEF GroupInv, GroupTyped

\* Dissolving.
LEMMA DissolveKeeps ==
  ASSUME GroupInv, NEW u \in Members, CommitDissolve(u)
  PROVE  GroupInv'
<1>1. /\ groupTx[u].op = "dissolve" /\ EndGroup(u) /\ serial' = serial
      /\ groupTx[u] # NoGroupTx /\ group' = [group EXCEPT !.status = "dissolved"]
      /\ roster' = [v \in Members |->
           IF v \in groupTx[u].batch THEN [roster[v] EXCEPT !.status = "left"] ELSE roster[v]]
  BY DEF CommitDissolve, NoGroupTx
<1>2. /\ group' \in [status : {"absent", "active", "dissolved"}, owner : Members \cup {"none"}]
      /\ group'.status = "dissolved"
  BY <1>1 DEF GroupInv, GroupTyped
<1>3. roster' \in [Members -> Row] BY <1>1 DEF GroupInv, GroupTyped, Row
<1> QED BY <1>1, <1>2, <1>3, GroupEndKeeps DEF GroupHasItsOwner

LEMMA GroupInductive ==
  ASSUME GroupInv, [GroupsNext]_<<serial, blocks, groupVars>>
  PROVE  GroupInv'
<1>1. CASE UNCHANGED <<serial, blocks, groupVars>>
  BY <1>1 DEF groupVars, GroupInv, GroupTyped, StillAsRead, GroupHasItsOwner, In
<1>2. ASSUME NEW u \in Members, BeginLeave(u) PROVE GroupInv'
  <2>1. PICK v \in IF Runs(u) /\ Heirs(u) # {} THEN Heirs(u) ELSE {"none"} :
          BeginGroup(u, [NoGroupTx EXCEPT !.op = "leave", !.was = roster[u],
                                          !.owner = group.owner, !.heir = v])
    BY <1>2 DEF BeginLeave
  <2> DEFINE t == [NoGroupTx EXCEPT !.op = "leave", !.was = roster[u],
                                    !.owner = group.owner, !.heir = v]
  <2>2. /\ v \in Members \cup {"none"}
        /\ v # "none" => v # u /\ In(v)
    BY DEF Heirs
  <2>3. t \in GroupRequest
    BY <2>2 DEF GroupInv, GroupTyped, GroupRequest, NoGroupTx, NoRow, Row
  <2>4. t.op = "leave" /\ t.was = roster[u] /\ t.owner = group.owner /\ t.heir = v
    BY DEF NoGroupTx
  <2> QED BY <2>1, <2>2, <2>3, <2>4, GroupBeginKeeps
<1>3. ASSUME NEW u \in Members, NEW v \in Members, BeginKick(u, v) PROVE GroupInv'
  <2> DEFINE t == [NoGroupTx EXCEPT !.op = "kick", !.on = v]
  <2>1. t \in GroupRequest /\ t.op = "kick" /\ t.on = v
    BY DEF NoGroupTx, NoRow, GroupRequest, Row
  <2> QED BY <1>3, <2>1, GroupBeginKeeps DEF BeginKick, Removable
<1>4. ASSUME NEW u \in Members, NEW v \in Members, BeginAdd(u, v) PROVE GroupInv'
  <2> DEFINE t == [NoGroupTx EXCEPT !.op = "add", !.on = v, !.was = roster[v]]
  <2>1. t \in GroupRequest /\ t.op = "add" /\ t.on = v
    BY DEF GroupInv, GroupTyped, NoGroupTx, GroupRequest
  <2> QED BY <1>4, <2>1, GroupBeginKeeps DEF BeginAdd
<1>5. ASSUME NEW u \in Members, BeginDissolve(u) PROVE GroupInv'
  <2> DEFINE t == [NoGroupTx EXCEPT !.op = "dissolve", !.batch = {v \in Members : In(v)}]
  <2>1. t \in GroupRequest /\ t.op = "dissolve"
    BY DEF NoGroupTx, NoRow, GroupRequest, Row
  <2> QED BY <1>5, <2>1, GroupBeginKeeps DEF BeginDissolve
<1>6. ASSUME NEW u \in Members, AbortGroup(u) PROVE GroupInv'
  <2>1. /\ groupTx[u] # NoGroupTx /\ EndGroup(u)
        /\ UNCHANGED <<serial, group, roster>>
    BY <1>6 DEF AbortGroup
  <2>2. GroupHasItsOwner' BY <2>1 DEF GroupInv, GroupHasItsOwner, In
  <2> QED BY <2>1, <2>2, GroupEndKeeps DEF GroupInv, GroupTyped
<1> QED
  BY <1>1, <1>2, <1>3, <1>4, <1>5, <1>6, GroupCreateKeeps, LeaveKeeps, KickKeeps, AddKeeps,
     DissolveKeeps DEF GroupsNext

LEMMA GroupInitially ==
  ASSUME RequestsInit, GroupsInit
  PROVE  GroupInv
<1>1. GroupTyped
  BY NoGroupRequest DEF GroupsInit, GroupTyped, NoGroup, NoGroupTx
<1> QED BY <1>1 DEF GroupsInit, GroupInv, GroupHasItsOwner, NoGroup

\* leave_or_kick and _reassign_owner_or_dissolve never leave an active group to
\* an owner_id without an owner's row, and where requests do not overlap its owner
\* is a member: for any members.
THEOREM GroupIsOwned == GroupsSpec => []GroupHasItsOwner
<1>1. GroupInv => GroupHasItsOwner BY DEF GroupInv
<1> QED BY <1>1, GroupInitially, GroupInductive, PTL DEF GroupsSpec
-----------------------------------------------------------------------------
(***************************************************************************)
(* Matching.  A like that found the other half stays right, since a like   *)
(* is never taken back; where requests do not overlap, one that did not    *)
(* find it stays right as well.  A block that read no active match may be  *)
(* overtaken by a like, which then knows of the block (UnderBlock).        *)
(***************************************************************************)
MatchStatus == {"none", "active", "unmatched", "blocked"}
MatchRequest == [op : {"idle", "like", "unmatch", "block"}, with : Pairs \cup {{}},
                 mutual : BOOLEAN, row : MatchStatus]

MatchTyped ==
  /\ swipes \in [Couples -> {"none", "like", "pass"}]
  /\ matches \in [Pairs -> MatchStatus]
  /\ likes \in [Users -> 0..LikeLimit]
  /\ late \subseteq Pairs
  /\ matchTx \in [Users -> MatchRequest]

\* What the open request of u knows, whatever happened since it read.
MatchKnown(u) ==
  LET t == matchTx[u] IN
  /\ t # NoSwipeTx => \E v \in Users \ {u} : t.with = {u, v}
  /\ t.op = "like" => likes[u] < LikeLimit
  /\ t.op = "like" /\ t.mutual =>
       \A v \in Users \ {u} : t.with = {u, v} => swipes[<<v, u>>] = "like"
  /\ t.row # "none" => matches[t.with] # "none"
  /\ t.op = "unmatch" => t.row # "none"
  /\ t.op = "block" /\ t.row # "active" /\ matches[t.with] = "active" => t.with \in late

\* What it knows if nothing has overtaken it.
MatchAlone(u) ==
  /\ \A v \in Users \ {u} : matchTx[v] = NoSwipeTx
  /\ matchTx[u].op = "like" =>
       \A v \in Users \ {u} :
         matchTx[u].with = {u, v} /\ swipes[<<v, u>>] = "like" => matchTx[u].mutual

MatchInv ==
  /\ MatchTyped
  /\ \A u \in Users : MatchKnown(u)
  /\ serial => \A u \in Users : matchTx[u] # NoSwipeTx => MatchAlone(u)
  /\ MatchedIffMutual
  /\ BlockEndsMatch

LEMMA PairIs ==
  ASSUME NEW a, NEW b, NEW u, NEW v, {a, b} = {u, v}
  PROVE  (a = u /\ b = v) \/ (a = v /\ b = u)
OBVIOUS

LEMMA CoupleIs ==
  ASSUME NEW c \in Couples
  PROVE  /\ c[1] \in Users /\ c[2] \in Users /\ c[1] # c[2] /\ c = <<c[1], c[2]>>
         /\ {c[1], c[2]} \in Pairs /\ <<c[2], c[1]>> \in Couples
<1>1. c \in Users \X Users /\ c[1] # c[2] BY DEF Couples
<1>2. <<c[2], c[1]>> \in Couples BY <1>1 DEF Couples
<1> QED BY <1>1, <1>2 DEF Pairs

LEMMA MakeCouple ==
  ASSUME NEW u \in Users, NEW v \in Users, u # v
  PROVE  <<u, v>> \in Couples /\ {u, v} \in Pairs
<1>1. <<u, v>> \in Couples BY DEF Couples
<1> QED BY <1>1 DEF Pairs

\* Both halves of a pair.
LEMMA BothLikeIs ==
  ASSUME NEW u \in Users, NEW v \in Users, u # v
  PROVE  BothLike({u, v}) <=> swipes[<<u, v>>] = "like" /\ swipes[<<v, u>>] = "like"
<1>1. <<u, v>> \in Couples /\ <<v, u>> \in Couples BY MakeCouple
<1>2. ASSUME BothLike({u, v}) PROVE swipes[<<u, v>>] = "like" /\ swipes[<<v, u>>] = "like"
  <2>1. {v, u} = {u, v} OBVIOUS
  <2> QED BY <1>1, <1>2, <2>1 DEF BothLike
<1>3. ASSUME swipes[<<u, v>>] = "like", swipes[<<v, u>>] = "like",
             NEW c \in Couples, {c[1], c[2]} = {u, v}
      PROVE  swipes[c] = "like"
  <2>1. (c[1] = u /\ c[2] = v) \/ (c[1] = v /\ c[2] = u) BY <1>3, PairIs
  <2>2. c = <<c[1], c[2]>> BY CoupleIs
  <2> QED BY <1>3, <2>1, <2>2
<1> QED BY <1>2, <1>3 DEF BothLike

LEMMA NoSwipeRequest ==
  /\ NoSwipeTx \in MatchRequest
  /\ NoSwipeTx.op = "idle" /\ NoSwipeTx.row = "none"
BY DEF NoSwipeTx, MatchRequest, MatchStatus

\* A request that begins.
LEMMA MatchBegins ==
  ASSUME MatchInv, NEW u \in Users, NEW v \in Users, u # v, NEW mutual \in BOOLEAN,
         NEW op \in {"like", "unmatch", "block"}, BeginMatchTx(u, v, op, mutual),
         op = "like" => likes[u] < LikeLimit /\ (mutual <=> Mutual(u, v)),
         op = "unmatch" => matches[{u, v}] # "none"
  PROVE  MatchInv'
<1> DEFINE t == [op |-> op, with |-> {u, v}, mutual |-> mutual, row |-> matches[{u, v}]]
<1>1. {u, v} \in Pairs BY MakeCouple
<1>2. t \in MatchRequest BY <1>1 DEF MatchInv, MatchTyped, MatchRequest
<1>3. /\ matchTx' = [matchTx EXCEPT ![u] = t] /\ matchTx[u] = NoSwipeTx
      /\ UNCHANGED <<serial, blocks, swipes, matches, likes, late>>
      /\ serial => \A w \in Users : matchTx[w] = NoSwipeTx
  <2>1. DOMAIN matchTx = Users BY DEF MatchInv, MatchTyped
  <2> QED BY <2>1 DEF BeginMatchTx, MayBegin
<1>4. /\ t.op = op /\ t.with = {u, v} /\ t.mutual = mutual /\ t.row = matches[{u, v}]
  OBVIOUS
<1> HIDE DEF t
<1>5. \A w \in Users : matchTx'[w] = IF w = u THEN t ELSE matchTx[w]
  BY <1>3 DEF MatchInv, MatchTyped
<1>6. MatchTyped' BY <1>2, <1>3 DEF MatchInv, MatchTyped
<1>7. ASSUME NEW w \in Users \ {u}, t.with = {u, w} PROVE w = v
  BY <1>4, <1>7, PairIs
<1>8. ASSUME NEW w \in Users PROVE MatchKnown(w)'
  <2>1. CASE w # u BY <1>3, <1>5, <2>1 DEF MatchInv, MatchKnown
  <2>2. CASE w = u
    <3>1. t.op = "like" /\ t.mutual =>
            \A x \in Users \ {u} : t.with = {u, x} => swipes[<<x, u>>] = "like"
      BY <1>4, <1>7 DEF Mutual
    <3> QED BY <1>3, <1>4, <1>5, <2>2, <3>1 DEF MatchKnown
  <2> QED BY <2>1, <2>2
<1>9. ASSUME serial', NEW w \in Users, matchTx'[w] # NoSwipeTx PROVE MatchAlone(w)'
  <2>1. w = u /\ \A x \in Users \ {u} : matchTx'[x] = NoSwipeTx BY <1>3, <1>5, <1>9
  <2>2. t.op = "like" =>
          \A x \in Users \ {u} : t.with = {u, x} /\ swipes[<<x, u>>] = "like" => t.mutual
    BY <1>4, <1>7 DEF Mutual
  <2> QED BY <1>3, <1>5, <2>1, <2>2 DEF MatchAlone
<1>10. MatchedIffMutual' /\ BlockEndsMatch'
  BY <1>3 DEF MatchInv, MatchedIffMutual, BlockEndsMatch, BothLike
<1> QED BY <1>6, <1>8, <1>9, <1>10 DEF MatchInv

\* A request that ends: what the others know may rest on what it wrote.
LEMMA MatchEnds ==
  ASSUME MatchInv, NEW u \in Users, matchTx[u] # NoSwipeTx, EndMatchTx(u), serial' = serial,
         swipes' \in [Couples -> {"none", "like", "pass"}],
         matches' \in [Pairs -> MatchStatus], likes' \in [Users -> 0..LikeLimit],
         late' \subseteq Pairs,
         \A c \in Couples : swipes[c] = "like" => swipes'[c] = "like",
         \A w \in Users \ {u} : likes'[w] = likes[w],
         \A p \in Pairs : matches[p] # "none" => matches'[p] # "none",
         \A w \in Users \ {u} :
           matchTx[w].op = "block" /\ matchTx[w].row # "active"
             /\ matches'[matchTx[w].with] = "active" => matchTx[w].with \in late',
         MatchedIffMutual', BlockEndsMatch'
  PROVE  MatchInv'
<1>1. matchTx' \in [Users -> MatchRequest]
      /\ \A w \in Users : matchTx'[w] = IF w = u THEN NoSwipeTx ELSE matchTx[w]
  BY NoSwipeRequest DEF EndMatchTx, MatchInv, MatchTyped
<1>2. ASSUME NEW w \in Users PROVE MatchKnown(w)'
  <2>1. CASE w = u BY <1>1, <2>1, NoSwipeRequest DEF MatchKnown
  <2>2. CASE w # u
    <3> DEFINE t == matchTx[w]
    <3>1. matchTx'[w] = t /\ MatchKnown(w) /\ likes'[w] = likes[w]
      BY <1>1, <2>2 DEF MatchInv
    <3>2. ASSUME t.op = "like", t.mutual, NEW v \in Users \ {w}, t.with = {w, v}
          PROVE  swipes'[<<v, w>>] = "like"
      BY <3>1, <3>2, MakeCouple DEF MatchKnown
    <3>3. t # NoSwipeTx => t.with \in Pairs BY <3>1, MakeCouple DEF MatchKnown
    <3>4. t.row # "none" => matches'[t.with] # "none"
      BY <3>1, <3>3, NoSwipeRequest DEF MatchKnown
    <3>5. t.op = "block" /\ t.row # "active" /\ matches'[t.with] = "active"
            => t.with \in late'
      BY <2>2
    <3> QED BY <3>1, <3>2, <3>4, <3>5 DEF MatchKnown
  <2> QED BY <2>1, <2>2
<1>3. ASSUME serial', NEW w \in Users PROVE matchTx'[w] = NoSwipeTx
  BY <1>1, <1>3 DEF MatchInv, MatchAlone
<1> QED BY <1>1, <1>2, <1>3 DEF MatchInv, MatchTyped

LEMMA LikeKeeps ==
  ASSUME MatchInv, NEW u \in Users, CommitLike(u)
  PROVE  MatchInv'
<1> DEFINE t == matchTx[u]
           p == t.with
<1>1. /\ t.op = "like" /\ EndMatchTx(u) /\ serial' = serial /\ blocks' = blocks
      /\ likes' = [likes EXCEPT ![u] = @ + 1]
      /\ matches' = IF t.mutual /\ t.row # "active" THEN [matches EXCEPT ![p] = "active"]
                    ELSE matches
      /\ late' = IF t.mutual /\ UnderBlock(p) THEN late \cup {p} ELSE late
  BY DEF CommitLike
<1>2. t # NoSwipeTx BY <1>1, NoSwipeRequest
<1>3. PICK v \in Users \ {u} : p = {u, v} BY <1>2 DEF MatchInv, MatchKnown
<1>4. <<u, v>> \in Couples /\ <<v, u>> \in Couples /\ p \in Pairs BY <1>3, MakeCouple
<1>5. swipes' = [swipes EXCEPT ![<<u, v>>] = "like"]
  <2>1. ASSUME NEW c \in Couples PROVE (c[1] = u /\ {c[1], c[2]} = p) <=> c = <<u, v>>
    <3>1. ASSUME c[1] = u, {c[1], c[2]} = {u, v} PROVE c[2] = v BY <3>1, PairIs, CoupleIs
    <3>2. c = <<c[1], c[2]>> BY CoupleIs
    <3> QED BY <1>3, <3>1, <3>2
  <2> QED BY <1>4, <2>1 DEF CommitLike, MatchInv, MatchTyped
<1>6. /\ swipes' \in [Couples -> {"none", "like", "pass"}]
      /\ \A c \in Couples : swipes'[c] = IF c = <<u, v>> THEN "like" ELSE swipes[c]
  BY <1>4, <1>5 DEF MatchInv, MatchTyped
<1>7. /\ likes' \in [Users -> 0..LikeLimit]
      /\ \A w \in Users \ {u} : likes'[w] = likes[w]
  BY <1>1, MatchingAssumption DEF MatchInv, MatchTyped, MatchKnown
<1>8. /\ matches' \in [Pairs -> MatchStatus]
      /\ \A q \in Pairs : matches'[q] = matches[q] \/ (q = p /\ t.mutual /\ matches'[q] = "active")
      /\ t.mutual => matches'[p] # "none"
  BY <1>1, <1>4 DEF MatchInv, MatchTyped, MatchStatus, MatchKnown
<1>9. late' \subseteq Pairs /\ late \subseteq late' /\ (t.mutual /\ UnderBlock(p) => p \in late')
  BY <1>1, <1>4 DEF MatchInv, MatchTyped
<1> HIDE DEF t, p
<1>10. ASSUME NEW w \in Users \ {u}, matchTx[w].op = "block", matchTx[w].row # "active",
              matches'[matchTx[w].with] = "active"
       PROVE  matchTx[w].with \in late'
  <2>1. matchTx[w] # NoSwipeTx BY <1>10, NoSwipeRequest
  <2>2. matchTx[w].with \in Pairs
    <3>1. PICK x \in Users \ {w} : matchTx[w].with = {w, x}
      BY <2>1 DEF MatchInv, MatchKnown
    <3> QED BY <3>1, MakeCouple
  <2>3. CASE matches'[matchTx[w].with] = matches[matchTx[w].with]
    BY <1>9, <1>10, <2>3 DEF MatchInv, MatchKnown
  <2>4. CASE matchTx[w].with = p /\ t.mutual
    BY <1>9, <1>10, <2>4 DEF UnderBlock
  <2> QED BY <1>8, <2>2, <2>3, <2>4
<1>11. MatchedIffMutual'
  <2>1. ASSUME NEW q \in Pairs, matches'[q] # "none" PROVE BothLike(q)'
    <3>1. CASE q = p /\ t.mutual
      <4>1. swipes[<<v, u>>] = "like" BY <1>1, <1>3, <3>1 DEF MatchInv, MatchKnown, t, p
      <4>2. ASSUME NEW c \in Couples, {c[1], c[2]} = p PROVE swipes'[c] = "like"
        <5>1. (c[1] = u /\ c[2] = v) \/ (c[1] = v /\ c[2] = u) BY <1>3, <4>2, PairIs
        <5>2. c = <<c[1], c[2]>> BY CoupleIs
        <5> QED BY <1>4, <1>6, <4>1, <5>1, <5>2
      <4> QED BY <3>1, <4>2 DEF BothLike
    <3>2. CASE matches'[q] = matches[q]
      BY <1>6, <2>1, <3>2 DEF MatchInv, MatchedIffMutual, BothLike
    <3> QED BY <1>8, <3>1, <3>2
  <2>2. ASSUME serial, NEW q \in Pairs, BothLike(q)' PROVE matches'[q] # "none"
    <3>1. CASE q = p
      <4>1. swipes'[<<v, u>>] = "like"
        <5>1. {v, u} = p BY <1>3
        <5> QED BY <1>4, <2>2, <3>1, <5>1 DEF BothLike
      <4>2. swipes[<<v, u>>] = "like" BY <1>3, <1>4, <1>6, <4>1
      <4>3. t.mutual BY <1>1, <1>2, <1>3, <2>2, <4>2 DEF MatchInv, MatchAlone, t, p
      <4> QED BY <1>8, <3>1, <4>3
    <3>2. CASE q # p
      <4>1. ASSUME NEW c \in Couples, {c[1], c[2]} = q PROVE swipes[c] = "like"
        <5>1. c # <<u, v>> BY <1>3, <3>2, <4>1
        <5> QED BY <1>6, <2>2, <4>1, <5>1 DEF BothLike
      <4>2. matches[q] # "none" BY <2>2, <4>1 DEF MatchInv, MatchedIffMutual, BothLike
      <4> QED BY <1>8, <3>2, <4>2
    <3> QED BY <3>1, <3>2
  <2> QED BY <1>1, <2>1, <2>2 DEF MatchedIffMutual
<1>12. BlockEndsMatch'
  <2>1. ASSUME NEW q \in Pairs, matches'[q] = "active",
               NEW c \in blocks, {c[1], c[2]} = q
        PROVE  q \in late'
    <3>1. CASE q = p /\ t.mutual BY <1>9, <2>1, <3>1 DEF UnderBlock
    <3>2. CASE matches'[q] = matches[q]
      BY <1>9, <2>1, <3>2 DEF MatchInv, BlockEndsMatch
    <3> QED BY <1>8, <2>1, <3>1, <3>2
  <2> QED BY <1>1, <2>1 DEF BlockEndsMatch
<1>13. \A q \in Pairs : matches[q] # "none" => matches'[q] # "none"
  BY <1>8
<1>14. \A c \in Couples : swipes[c] = "like" => swipes'[c] = "like" BY <1>6
<1>15. /\ matchTx[u] # NoSwipeTx /\ EndMatchTx(u) /\ serial' = serial /\ late' \subseteq Pairs
  BY <1>1, <1>2, <1>9 DEF t
<1> QED BY <1>6, <1>7, <1>8, <1>10, <1>11, <1>12, <1>13, <1>14, <1>15, MatchEnds

\* The commit of a like that fails counts in Redis alone.
LEMMA LoseLikeKeeps ==
  ASSUME MatchInv, NEW u \in Users, LoseLike(u)
  PROVE  MatchInv'
<1>1. /\ matchTx[u].op = "like" /\ EndMatchTx(u) /\ likes' = [likes EXCEPT ![u] = @ + 1]
      /\ UNCHANGED <<serial, blocks, swipes, matches, late>>
  BY DEF LoseLike
<1>2. matchTx[u] # NoSwipeTx BY <1>1, NoSwipeRequest
<1>3. likes' \in [Users -> 0..LikeLimit] /\ \A w \in Users \ {u} : likes'[w] = likes[w]
  BY <1>1, MatchingAssumption DEF MatchInv, MatchTyped, MatchKnown
<1>4. MatchedIffMutual' /\ BlockEndsMatch'
  BY <1>1 DEF MatchInv, MatchedIffMutual, BlockEndsMatch, BothLike
<1>5. MatchTyped /\ \A w \in Users : MatchKnown(w) BY DEF MatchInv
<1>6. \A w \in Users \ {u} :
        matchTx[w].op = "block" /\ matchTx[w].row # "active"
          /\ matches'[matchTx[w].with] = "active" => matchTx[w].with \in late'
  BY <1>1, <1>5 DEF MatchKnown
<1> QED BY <1>1, <1>2, <1>3, <1>4, <1>5, <1>6, MatchEnds DEF MatchTyped

LEMMA UnmatchKeeps ==
  ASSUME MatchInv, NEW u \in Users, CommitUnmatch(u)
  PROVE  MatchInv'
<1> DEFINE t == matchTx[u]
           p == t.with
<1>1. /\ t.op = "unmatch" /\ EndMatchTx(u)
      /\ matches' = [matches EXCEPT ![p] = WrittenBack(@, t.row, "unmatched")]
      /\ UNCHANGED <<serial, blocks, swipes, likes, late>>
  BY DEF CommitUnmatch
<1>2. t # NoSwipeTx BY <1>1, NoSwipeRequest
<1>3. PICK v \in Users \ {u} : p = {u, v} BY <1>2 DEF MatchInv, MatchKnown
<1>4. p \in Pairs /\ matches[p] # "none"
  <2>1. p \in Pairs BY <1>3, MakeCouple
  <2>2. matches[p] # "none" BY <1>1 DEF MatchInv, MatchKnown
  <2> QED BY <2>1, <2>2
<1>5. /\ matches' \in [Pairs -> MatchStatus]
      /\ \A q \in Pairs : matches'[q] = matches[q]
                            \/ (matches[q] # "none" /\ matches'[q] = "unmatched")
  BY <1>1, <1>4 DEF MatchInv, MatchTyped, MatchStatus, WrittenBack
<1> HIDE DEF t, p
<1>6. \A w \in Users : matchTx[w] # NoSwipeTx => matchTx[w].with \in Pairs
  <2>1. ASSUME NEW w \in Users, matchTx[w] # NoSwipeTx PROVE matchTx[w].with \in Pairs
    <3>1. PICK x \in Users \ {w} : matchTx[w].with = {w, x}
      BY <2>1 DEF MatchInv, MatchKnown
    <3> QED BY <3>1, MakeCouple
  <2> QED BY <2>1
<1>7. ASSUME NEW w \in Users \ {u}, matchTx[w].op = "block", matchTx[w].row # "active",
             matches'[matchTx[w].with] = "active"
      PROVE  matchTx[w].with \in late'
  <2>1. matchTx[w].with \in Pairs BY <1>6, <1>7, NoSwipeRequest
  <2>2. matches[matchTx[w].with] = "active" BY <1>5, <1>7, <2>1
  <2> QED BY <1>1, <1>7, <2>2 DEF MatchInv, MatchKnown
<1>8. MatchedIffMutual'
  <2>1. \A q \in Pairs : BothLike(q)' <=> BothLike(q) BY <1>1 DEF BothLike
  <2>2. \A q \in Pairs : matches'[q] = "none" <=> matches[q] = "none" BY <1>5
  <2> QED BY <1>1, <2>1, <2>2 DEF MatchInv, MatchedIffMutual
<1>9. BlockEndsMatch' BY <1>1, <1>5 DEF MatchInv, BlockEndsMatch
<1>10. t # NoSwipeTx /\ MatchTyped BY <1>2 DEF MatchInv
<1>11. \A q \in Pairs : matches[q] # "none" => matches'[q] # "none" BY <1>5
<1> QED BY <1>1, <1>5, <1>7, <1>8, <1>9, <1>10, <1>11, MatchEnds DEF MatchTyped, t

LEMMA BlockKeeps ==
  ASSUME MatchInv, NEW u \in Users, CommitBlock(u)
  PROVE  MatchInv'
<1> DEFINE t == matchTx[u]
           p == t.with
<1>1. /\ t.op = "block" /\ EndMatchTx(u) /\ \E v \in p \ {u} : AddBlock(u, v)
      /\ matches' = IF t.row = "active" THEN [matches EXCEPT ![p] = "blocked"] ELSE matches
      /\ late' = IF t.row = "active" THEN late \ {p} ELSE late
      /\ UNCHANGED <<serial, swipes, likes>>
  BY DEF CommitBlock
<1>2. t # NoSwipeTx BY <1>1, NoSwipeRequest
<1>3. PICK v \in Users \ {u} : p = {u, v} BY <1>2 DEF MatchInv, MatchKnown
<1>4. p \in Pairs /\ (t.row = "active" => matches[p] # "none")
      /\ (t.row # "active" /\ matches[p] = "active" => p \in late)
  <2>1. p \in Pairs BY <1>3, MakeCouple
  <2>2. MatchKnown(u) BY DEF MatchInv
  <2> QED BY <1>1, <2>1, <2>2 DEF MatchKnown
<1>5. /\ matches' \in [Pairs -> MatchStatus] /\ late' \subseteq Pairs
      /\ \A q \in Pairs : matches'[q] = matches[q]
                            \/ (q = p /\ matches[q] # "none" /\ matches'[q] = "blocked")
      /\ \A q \in Pairs : q # p => (q \in late' <=> q \in late)
      /\ matches'[p] = "active" => p \in late'
  BY <1>1, <1>4 DEF MatchInv, MatchTyped, MatchStatus
<1>6. blocks' = blocks \cup {<<u, v>>}
  <2>1. PICK x \in p \ {u} : AddBlock(u, x) BY <1>1
  <2>2. x = v BY <1>3
  <2> QED BY <2>1, <2>2 DEF AddBlock
<1> HIDE DEF t, p
<1>7. ASSUME NEW w \in Users \ {u}, matchTx[w].op = "block", matchTx[w].row # "active",
             matches'[matchTx[w].with] = "active"
      PROVE  matchTx[w].with \in late'
  <2>1. matchTx[w] # NoSwipeTx BY <1>7, NoSwipeRequest
  <2>2. PICK x \in Users \ {w} : matchTx[w].with = {w, x}
    BY <2>1 DEF MatchInv, MatchKnown
  <2>3. matchTx[w].with \in Pairs BY <2>2, MakeCouple
  <2>4. matches[matchTx[w].with] = "active" BY <1>5, <1>7, <2>3
  <2>5. matchTx[w].with \in late BY <1>7, <2>4 DEF MatchInv, MatchKnown
  <2> QED BY <1>5, <1>7, <2>3, <2>5
<1>8. MatchedIffMutual'
  <2>1. \A q \in Pairs : BothLike(q)' <=> BothLike(q) BY <1>1 DEF BothLike
  <2>2. \A q \in Pairs : matches'[q] = "none" <=> matches[q] = "none" BY <1>5
  <2> QED BY <1>1, <2>1, <2>2 DEF MatchInv, MatchedIffMutual
<1>9. BlockEndsMatch'
  <2>1. ASSUME NEW q \in Pairs, matches'[q] = "active",
               NEW c \in blocks', {c[1], c[2]} = q
        PROVE  q \in late'
    <3>1. CASE q = p BY <1>5, <2>1, <3>1
    <3>2. CASE q # p
      <4>1. c \in blocks BY <1>3, <1>6, <2>1, <3>2
      <4> QED BY <1>5, <2>1, <3>2, <4>1 DEF MatchInv, BlockEndsMatch
    <3> QED BY <3>1, <3>2
  <2> QED BY <2>1 DEF BlockEndsMatch
<1>10. t # NoSwipeTx /\ MatchTyped BY <1>2 DEF MatchInv
<1>11. \A q \in Pairs : matches[q] # "none" => matches'[q] # "none" BY <1>5
<1> QED BY <1>1, <1>5, <1>7, <1>8, <1>9, <1>10, <1>11, MatchEnds DEF MatchTyped, t

\* Passing, a new day and the end of a block: no request of theirs is open.
LEMMA PassKeeps ==
  ASSUME MatchInv, NEW c \in Couples, Pass(c[1], c[2])
  PROVE  MatchInv'
<1>1. /\ swipes[c] = "none" /\ swipes' = [swipes EXCEPT ![c] = "pass"]
      /\ UNCHANGED <<serial, blocks, matches, likes, late, matchTx>>
  BY CoupleIs DEF Pass
<1>2. /\ swipes' \in [Couples -> {"none", "like", "pass"}]
      /\ \A d \in Couples : swipes'[d] = "like" <=> swipes[d] = "like"
  BY <1>1 DEF MatchInv, MatchTyped
<1>3. MatchTyped' BY <1>1, <1>2 DEF MatchInv, MatchTyped
<1>4. ASSUME NEW u \in Users PROVE MatchKnown(u)'
  <2>1. \A v \in Users \ {u} : swipes'[<<v, u>>] = "like" <=> swipes[<<v, u>>] = "like"
    BY <1>2, MakeCouple
  <2> QED BY <1>1, <2>1 DEF MatchInv, MatchKnown
<1>5. ASSUME serial', NEW u \in Users, matchTx'[u] # NoSwipeTx PROVE MatchAlone(u)'
  <2>1. \A v \in Users \ {u} : swipes'[<<v, u>>] = "like" <=> swipes[<<v, u>>] = "like"
    BY <1>2, MakeCouple
  <2>2. MatchAlone(u) BY <1>1, <1>5 DEF MatchInv
  <2> QED BY <1>1, <2>1, <2>2 DEF MatchAlone
<1>6. MatchedIffMutual'
  <2>1. \A q \in Pairs : BothLike(q)' <=> BothLike(q) BY <1>2 DEF BothLike
  <2> QED BY <1>1, <2>1 DEF MatchInv, MatchedIffMutual
<1> QED BY <1>1, <1>3, <1>4, <1>5, <1>6 DEF MatchInv, BlockEndsMatch

LEMMA NewDayKeeps ==
  ASSUME MatchInv, NewDay
  PROVE  MatchInv'
<1>1. likes' = [u \in Users |-> 0] /\ UNCHANGED <<serial, blocks, swipes, matches, late, matchTx>>
  BY DEF NewDay
<1>2. \A u \in Users : matchTx[u].op = "like" => likes'[u] < LikeLimit
  BY <1>1, MatchingAssumption DEF MatchInv, MatchKnown, MatchTyped
<1>3. likes' \in [Users -> 0..LikeLimit] BY <1>1, MatchingAssumption
<1> QED BY <1>1, <1>2, <1>3 DEF MatchInv, MatchTyped, MatchKnown, MatchAlone,
           MatchedIffMutual, BlockEndsMatch, BothLike

LEMMA UnblockKeeps ==
  ASSUME MatchInv, NEW c \in Couples, Unblock(c[1], c[2])
  PROVE  MatchInv'
<1>1. blocks' \subseteq blocks /\ UNCHANGED <<serial, matchVars>>
  BY DEF Unblock, DropBlock
<1> QED BY <1>1 DEF matchVars, MatchInv, MatchTyped, MatchKnown, MatchAlone,
           MatchedIffMutual, BlockEndsMatch, BothLike

LEMMA MatchInductive ==
  ASSUME MatchInv, [MatchNext]_<<serial, blocks, matchVars>>
  PROVE  MatchInv'
<1>1. CASE UNCHANGED <<serial, blocks, matchVars>>
  BY <1>1 DEF matchVars, MatchInv, MatchTyped, MatchKnown, MatchAlone,
     MatchedIffMutual, BlockEndsMatch, BothLike
<1>2. ASSUME NEW c \in Couples, MatchStep(c[1], c[2]) PROVE MatchInv'
  <2>1. c[1] \in Users /\ c[2] \in Users /\ c[1] # c[2] BY CoupleIs
  <2>2. CASE BeginLike(c[1], c[2])
    <3>1. Mutual(c[1], c[2]) \in BOOLEAN BY DEF Mutual
    <3> QED BY <2>1, <2>2, <3>1, MatchBegins DEF BeginLike
  <2>3. CASE BeginUnmatch(c[1], c[2]) BY <2>1, <2>3, MatchBegins DEF BeginUnmatch
  <2>4. CASE BeginBlock(c[1], c[2]) BY <2>1, <2>4, MatchBegins DEF BeginBlock
  <2> QED BY <1>2, <2>2, <2>3, <2>4, PassKeeps, UnblockKeeps DEF MatchStep
<1>3. ASSUME NEW u \in Users, MatchCommit(u) PROVE MatchInv'
  BY <1>3, LikeKeeps, LoseLikeKeeps, UnmatchKeeps, BlockKeeps DEF MatchCommit
<1> QED BY <1>1, <1>2, <1>3, NewDayKeeps DEF MatchNext

LEMMA MatchInitially ==
  ASSUME RequestsInit, MatchInit
  PROVE  MatchInv
<1>1. MatchTyped
  BY NoSwipeRequest, MatchingAssumption DEF MatchInit, MatchTyped, MatchStatus
<1>2. \A u \in Users : matchTx[u] = NoSwipeTx BY DEF MatchInit
<1>3. MatchedIffMutual
  <2>1. ASSUME NEW p \in Pairs PROVE ~BothLike(p)
    <3>1. PICK c \in Couples : p = {c[1], c[2]} BY DEF Pairs
    <3> QED BY <3>1 DEF BothLike, MatchInit
  <2> QED BY <2>1 DEF MatchInit, MatchedIffMutual
<1> QED BY <1>1, <1>2, <1>3, NoSwipeRequest DEF MatchInit, MatchInv, MatchKnown, BlockEndsMatch

LEMMA MatchTypes == ASSUME MatchInv PROVE MatchTypeOK
<1>1. ASSUME NEW u \in Users, matchTx[u] # NoSwipeTx PROVE matchTx[u].with \in Pairs
  <2>1. PICK v \in Users \ {u} : matchTx[u].with = {u, v}
    BY <1>1 DEF MatchInv, MatchKnown
  <2> QED BY <2>1, MakeCouple
<1> QED BY <1>1 DEF MatchInv, MatchTyped, MatchTypeOK, MatchStatus

-----------------------------------------------------------------------------
(***************************************************************************)
(* Contacts.  A direct conversation is added by a request that found none  *)
(* when it began; that a pair never gets a third rests on a pair being two *)
(* users with a request each.  Where requests do not overlap, whoever goes *)
(* on to make contact still is not blocked.                                *)
(***************************************************************************)
FriendStatus == {"none", "active", "deleted"}
ContactRequest ==
  [op : {"idle", "open", "ask", "accept", "unfriend", "greet"}, c : Couples \cup {<<>>},
   row : FriendStatus, found : BOOLEAN, friend : BOOLEAN]

ContactTyped ==
  /\ friends \in [Couples -> FriendStatus]
  /\ asked \subseteq Couples /\ greeted \subseteq Couples
  /\ directs \in [Pairs -> Seq(Direct)]
  /\ contactTx \in [Users -> ContactRequest]

Chats(c) == Len(directs[PairOf(c)])

\* What the open request of u knows, whatever happened since it read.
ContactKnown(u) ==
  LET t == contactTx[u] IN
  t # NoContactTx => /\ t.c \in Couples /\ t.c[1] = u
                     /\ t.found => Chats(t.c) > 0

\* A conversation that a request of c[1] is about to add.
ChatDue(c) ==
  IF contactTx[c[1]] # NoContactTx /\ contactTx[c[1]].c = c /\ ~contactTx[c[1]].found
  THEN 1 ELSE 0

\* What it knows if nothing has overtaken it.
ContactAlone(u) ==
  LET t == contactTx[u] IN
  /\ \A v \in Users \ {u} : contactTx[v] = NoContactTx
  /\ t.found <=> Chats(t.c) > 0
  /\ t.friend <=> friends[t.c] = "active"
  /\ t.op = "accept" => t.row = friends[Peer(t.c)]
  /\ t.op = "unfriend" => t.row = friends[t.c]
  /\ t.op \in {"open", "ask", "accept", "greet"} => ~IsBlockedEither(t.c[1], t.c[2])

ChatsBounded ==
  \A c \in Couples : /\ Chats(c) + ChatDue(c) + ChatDue(Peer(c)) <= 2
                     /\ serial => Chats(c) <= 1

FriendsChat ==
  \A c \in Couples :
    friends[c] = "active" => Chats(c) > 0 /\ (serial => friends[Peer(c)] = "active")

ContactInv ==
  /\ ContactTyped
  /\ \A u \in Users : ContactKnown(u)
  /\ ChatsBounded
  /\ FriendsChat
  /\ serial => \A u \in Users : contactTx[u] # NoContactTx => ContactAlone(u)

LEMMA PeerIs ==
  ASSUME NEW c \in Couples
  PROVE  /\ Peer(c) \in Couples /\ Peer(c) # c /\ Peer(Peer(c)) = c
         /\ PairOf(Peer(c)) = PairOf(c) /\ PairOf(c) \in Pairs
         /\ Peer(c)[1] = c[2] /\ Peer(c)[2] = c[1] /\ c[1] # c[2]
<1>1. PairOf(Peer(c)) = PairOf(c) BY DEF Peer, PairOf
<1> QED BY <1>1, CoupleIs DEF Peer, PairOf

LEMMA SamePair ==
  ASSUME NEW c \in Couples, NEW d \in Couples, PairOf(c) = PairOf(d)
  PROVE  d = c \/ d = Peer(c)
<1>1. (c[1] = d[1] /\ c[2] = d[2]) \/ (c[1] = d[2] /\ c[2] = d[1])
  BY PairIs DEF PairOf
<1>2. c = <<c[1], c[2]>> /\ d = <<d[1], d[2]>> BY CoupleIs
<1> QED BY <1>1, <1>2 DEF Peer

LEMMA NoContactRequest ==
  NoContactTx \in ContactRequest /\ NoContactTx.op = "idle"
BY DEF NoContactTx, ContactRequest, FriendStatus

LEMMA OpenedIs ==
  ASSUME NEW seq \in Seq(Direct), NEW t \in ContactRequest, t.c[1] \in Users,
         NEW areFriends \in BOOLEAN
  PROVE  /\ Opened(seq, t, areFriends) \in Seq(Direct)
         /\ Len(Opened(seq, t, areFriends)) = Len(seq) + (IF t.found THEN 0 ELSE 1)
<1> DEFINE d == IF areFriends THEN [from |-> t.c[1], request |-> "none", marked |-> FALSE]
                ELSE [from |-> t.c[1], request |-> "pending", marked |-> TRUE]
<1>1. d \in Direct BY DEF Direct
<1>2. Opened(seq, t, areFriends) = IF t.found THEN seq ELSE Append(seq, d) BY DEF Opened
<1> HIDE DEF d
<1>3. Append(seq, d) \in Seq(Direct) /\ Len(Append(seq, d)) = Len(seq) + 1 BY <1>1
<1> QED BY <1>2, <1>3

\* A request that begins.
LEMMA ContactBegins ==
  ASSUME ContactInv, NEW c \in Couples, NEW row \in FriendStatus,
         NEW op \in {"open", "ask", "accept", "unfriend", "greet"}, BeginContact(c, op, row),
         op = "accept" => row = friends[Peer(c)], op = "unfriend" => row = friends[c],
         op # "unfriend" => ~IsBlockedEither(c[1], c[2])
  PROVE  ContactInv'
<1> DEFINE u == c[1]
           t == [op |-> op, c |-> c, row |-> row, found |-> directs[PairOf(c)] # <<>>,
                 friend |-> friends[c] = "active"]
<1>1. u \in Users /\ c[2] \in Users /\ Peer(c)[1] = c[2] /\ PairOf(c) \in Pairs
  BY CoupleIs, PeerIs
<1>2. /\ contactTx' = [contactTx EXCEPT ![u] = t] /\ contactTx[u] = NoContactTx
      /\ UNCHANGED <<serial, blocks, friends, asked, greeted, directs>>
      /\ serial => \A w \in Users : contactTx[w] = NoContactTx
  <2>1. DOMAIN contactTx = Users BY DEF ContactInv, ContactTyped
  <2> QED BY <2>1 DEF BeginContact, MayBegin
<1>3. t \in ContactRequest BY DEF ContactRequest
<1>4. Chats(c) \in Nat /\ (t.found <=> Chats(c) > 0)
  <2>1. directs[PairOf(c)] \in Seq(Direct) BY <1>1 DEF ContactInv, ContactTyped
  <2>2. \A seq \in Seq(Direct) : Len(seq) \in Nat /\ (seq # <<>> <=> Len(seq) > 0)
    OBVIOUS
  <2>3. t.found <=> directs[PairOf(c)] # <<>> OBVIOUS
  <2> QED BY <2>1, <2>2, <2>3 DEF Chats
<1>5. t.op = op /\ t.c = c /\ t.row = row /\ (t.friend <=> friends[c] = "active")
  OBVIOUS
<1>6. t # NoContactTx BY <1>5, NoContactRequest
<1> HIDE DEF t
<1>7. \A w \in Users : contactTx'[w] = IF w = u THEN t ELSE contactTx[w]
  BY <1>2 DEF ContactInv, ContactTyped
<1>8. ContactTyped' BY <1>2, <1>3 DEF ContactInv, ContactTyped
<1>9. \A d \in Couples : Chats(d)' = Chats(d) BY <1>2 DEF Chats
<1>10. ASSUME NEW w \in Users PROVE ContactKnown(w)'
  BY <1>2, <1>4, <1>5, <1>7, <1>10 DEF ContactInv, ContactKnown, Chats
<1>11. ChatsBounded'
  <2>1. \A d \in Couples : Chats(d) + ChatDue(d) + ChatDue(Peer(d)) <= 2
                           /\ (serial => Chats(d) <= 1)
    BY DEF ContactInv, ChatsBounded
  <2>2. ASSUME NEW d \in Couples, d[1] # u PROVE ChatDue(d)' = ChatDue(d)
    BY <1>7, <2>2, CoupleIs DEF ChatDue
  <2>3. ASSUME NEW d \in Couples, d # c, d[1] = u PROVE ChatDue(d)' = 0
    BY <1>5, <1>7, <2>3, CoupleIs DEF ChatDue
  <2>4. ChatDue(c)' = IF Chats(c) > 0 THEN 0 ELSE 1
    BY <1>1, <1>4, <1>5, <1>6, <1>7 DEF ChatDue
  <2>5. \A d \in Couples : ChatDue(d) \in {0, 1} BY DEF ChatDue
  <2>6. \A d \in Couples : Chats(d) \in Nat
    <3>1. \A p \in Pairs : Len(directs[p]) \in Nat BY DEF ContactInv, ContactTyped
    <3> QED BY <3>1, PeerIs DEF Chats
  <2>7. ASSUME NEW d \in Couples PROVE (Chats(d) + ChatDue(d) + ChatDue(Peer(d)) <= 2)'
    <3>1. /\ Peer(d) \in Couples /\ Peer(d) # d /\ Peer(Peer(d)) = d
          /\ Chats(Peer(d)) = Chats(d)
      BY PeerIs DEF Chats
    <3>2. ChatDue(d) \in {0, 1} /\ ChatDue(Peer(d)) \in {0, 1} /\ Chats(d) \in Nat
          /\ Chats(d) + ChatDue(d) + ChatDue(Peer(d)) <= 2
      BY <2>1, <2>5, <2>6, <3>1
    <3>3. ChatDue(d)' = ChatDue(d) \/ ChatDue(d)' = 0 \/ (d = c /\ ChatDue(d)' = IF Chats(d) > 0 THEN 0 ELSE 1)
      BY <2>2, <2>3, <2>4
    <3>4. ChatDue(Peer(d))' = ChatDue(Peer(d)) \/ ChatDue(Peer(d))' = 0
            \/ (Peer(d) = c /\ ChatDue(Peer(d))' = IF Chats(d) > 0 THEN 0 ELSE 1)
      BY <2>2, <2>3, <2>4, <3>1
    <3>5. Chats(d) + ChatDue(d)' + ChatDue(Peer(d))' <= 2 BY <3>1, <3>2, <3>3, <3>4
    <3>6. Chats(d)' = Chats(d) BY <1>9
    <3> HIDE DEF u
    <3> QED BY <3>5, <3>6
  <2> QED BY <1>2, <1>9, <2>1, <2>7 DEF ChatsBounded
<1>12. FriendsChat'
  BY <1>2, <1>9 DEF ContactInv, FriendsChat
<1>13. ASSUME serial', NEW w \in Users, contactTx'[w] # NoContactTx PROVE ContactAlone(w)'
  <2>1. w = u /\ \A x \in Users \ {u} : contactTx'[x] = NoContactTx BY <1>2, <1>7, <1>13
  <2> QED BY <1>2, <1>4, <1>5, <1>7, <1>9, <2>1 DEF ContactAlone, IsBlockedEither
<1> QED BY <1>8, <1>10, <1>11, <1>12, <1>13 DEF ContactInv

\* A request that ends, having opened a conversation or not.
LEMMA ContactEnds ==
  ASSUME ContactInv, NEW u \in Users, contactTx[u] # NoContactTx, EndContact(u),
         serial' = serial, friends' \in [Couples -> FriendStatus],
         asked' \subseteq Couples, greeted' \subseteq Couples,
         \/ directs' = directs
         \/ \E areFriends \in BOOLEAN :
              directs' = [directs EXCEPT ![PairOf(contactTx[u].c)] =
                            Opened(@, contactTx[u], areFriends)]
  PROVE  /\ ContactTyped' /\ ChatsBounded' /\ \A w \in Users : ContactKnown(w)'
         /\ serial => \A w \in Users : contactTx'[w] = NoContactTx
         /\ \A d \in Couples : Chats(d)' >= Chats(d)
<1> DEFINE t == contactTx[u]
<1>0. PICK c \in Couples : c = t.c BY DEF ContactInv, ContactKnown
<1>1. /\ t \in ContactRequest /\ c[1] = u /\ (t.found => Chats(c) > 0)
      /\ PairOf(c) \in Pairs
  <2>1. t \in ContactRequest BY DEF ContactInv, ContactTyped
  <2>2. c[1] = u /\ (t.found => Chats(c) > 0)
    BY <1>0 DEF ContactInv, ContactKnown
  <2> QED BY <2>1, <2>2, PeerIs
<1>2. /\ contactTx' \in [Users -> ContactRequest]
      /\ \A w \in Users : contactTx'[w] = IF w = u THEN NoContactTx ELSE contactTx[w]
  BY NoContactRequest DEF EndContact, ContactInv, ContactTyped
<1>3. t # NoContactTx OBVIOUS
<1> HIDE DEF t
<1>4. \A d \in Couples : Chats(d) \in Nat
  <2>1. \A p \in Pairs : Len(directs[p]) \in Nat BY DEF ContactInv, ContactTyped
  <2> QED BY <2>1, PeerIs DEF Chats
<1>5. /\ directs' \in [Pairs -> Seq(Direct)]
      /\ \A d \in Couples : PairOf(d) # PairOf(c) => Chats(d)' = Chats(d)
      /\ Chats(c)' = Chats(c) \/ Chats(c)' = Chats(c) + (IF t.found THEN 0 ELSE 1)
  <2>1. CASE directs' = directs BY <2>1 DEF ContactInv, ContactTyped, Chats
  <2>2. ASSUME NEW areFriends \in BOOLEAN,
               directs' = [directs EXCEPT ![PairOf(c)] = Opened(@, t, areFriends)]
        PROVE  /\ directs' \in [Pairs -> Seq(Direct)]
               /\ \A d \in Couples : PairOf(d) # PairOf(c) => Chats(d)' = Chats(d)
               /\ Chats(c)' = Chats(c) + (IF t.found THEN 0 ELSE 1)
    <3> DEFINE seq == directs[PairOf(c)]
               more == Opened(seq, t, areFriends)
    <3>1. directs \in [Pairs -> Seq(Direct)] BY DEF ContactInv, ContactTyped
    <3>2. seq \in Seq(Direct) BY <1>1, <3>1
    <3>3. t.c[1] \in Users BY <1>0, <1>1
    <3> HIDE DEF seq
    <3>4. more \in Seq(Direct) /\ Len(more) = Len(seq) + (IF t.found THEN 0 ELSE 1)
      BY <1>1, <3>2, <3>3, OpenedIs
    <3>5. directs' = [directs EXCEPT ![PairOf(c)] = more] BY <2>2 DEF seq
    <3> HIDE DEF more
    <3>6. directs' \in [Pairs -> Seq(Direct)] /\ directs'[PairOf(c)] = more
          /\ \A p \in Pairs : p # PairOf(c) => directs'[p] = directs[p]
      BY <1>1, <3>1, <3>4, <3>5
    <3>7. Chats(c)' = Chats(c) + (IF t.found THEN 0 ELSE 1)
      BY <3>4, <3>6 DEF Chats, seq
    <3>8. \A d \in Couples : PairOf(d) # PairOf(c) => Chats(d)' = Chats(d)
      BY <3>6, PeerIs DEF Chats
    <3> QED BY <3>6, <3>7, <3>8
  <2> QED BY <1>0, <2>1, <2>2 DEF t
<1>6. ASSUME NEW d \in Couples
      PROVE  \/ Chats(d)' = Chats(d)
             \/ (d = c \/ d = Peer(c)) /\ Chats(d)' = Chats(d) + (IF t.found THEN 0 ELSE 1)
  <2>1. CASE PairOf(d) # PairOf(c) BY <1>5, <2>1
  <2>2. CASE PairOf(d) = PairOf(c)
    <3>1. d = c \/ d = Peer(c) BY <1>1, <2>2, SamePair
    <3>2. Chats(d) = Chats(c) /\ Chats(d)' = Chats(c)' BY <2>2 DEF Chats
    <3> QED BY <1>5, <3>1, <3>2
  <2> QED BY <2>1, <2>2
<1>7. \A d \in Couples : Chats(d)' \in Nat /\ Chats(d)' >= Chats(d) BY <1>4, <1>6
<1>8. ContactTyped' BY <1>2, <1>5 DEF ContactTyped
<1>9. ASSUME NEW w \in Users PROVE ContactKnown(w)'
  <2>1. ContactKnown(w) BY DEF ContactInv
  <2>2. CASE w = u BY <1>2, <2>2 DEF ContactKnown
  <2>3. CASE w # u
    <3>1. contactTx'[w] = contactTx[w] BY <1>2, <2>3
    <3>2. ASSUME contactTx[w] # NoContactTx
          PROVE  contactTx[w].c \in Couples /\ contactTx[w].c[1] = w
                   /\ (contactTx[w].found => Len(directs'[PairOf(contactTx[w].c)]) > 0)
      <4>1. PICK d \in Couples : d = contactTx[w].c BY <2>1, <3>2 DEF ContactKnown
      <4>2. d[1] = w /\ (contactTx[w].found => Chats(d) > 0)
        BY <2>1, <3>2, <4>1 DEF ContactKnown
      <4>3. contactTx[w].found => Chats(d)' > 0 BY <1>4, <1>7, <4>2
      <4> QED BY <4>1, <4>2, <4>3 DEF Chats
    <3> QED BY <3>1, <3>2 DEF ContactKnown, Chats
  <2> QED BY <2>2, <2>3
<1>10. ASSUME serial, NEW w \in Users PROVE contactTx'[w] = NoContactTx
  BY <1>2, <1>3, <1>10 DEF ContactInv, ContactAlone, t
<1>11. ChatsBounded'
  <2>1. ASSUME NEW d \in Couples
        PROVE  /\ ChatDue(d) \in {0, 1} /\ ChatDue(d)' \in {0, 1} /\ ChatDue(d)' <= ChatDue(d)
               /\ d = c => ChatDue(d)' = 0 /\ ChatDue(d) = IF t.found THEN 0 ELSE 1
    <3>1. d[1] \in Users BY CoupleIs
    <3>2. ChatDue(d) \in {0, 1} /\ ChatDue(d)' \in {0, 1} BY DEF ChatDue
    <3>3. ChatDue(d)' <= ChatDue(d) BY <1>2, <3>1, <3>2 DEF ChatDue
    <3>4. ASSUME d = c PROVE ChatDue(d)' = 0 /\ ChatDue(d) = IF t.found THEN 0 ELSE 1
      <4>1. d[1] = u BY <1>1, <3>4
      <4>2. contactTx'[u] = NoContactTx /\ contactTx[u].c = d BY <1>0, <1>2, <3>4 DEF t
      <4> QED BY <1>3, <4>1, <4>2 DEF ChatDue, t
    <3> QED BY <3>2, <3>3, <3>4
  <2>2. ASSUME NEW d \in Couples PROVE Chats(d)' + ChatDue(d)' + ChatDue(Peer(d))' <= 2
    <3>1. Peer(d) \in Couples /\ Peer(Peer(d)) = d BY PeerIs
    <3>2. Chats(d) + ChatDue(d) + ChatDue(Peer(d)) <= 2 BY DEF ContactInv, ChatsBounded
    <3> DEFINE x == ChatDue(d)
               y == ChatDue(Peer(d))
               x1 == ChatDue(d)'
               y1 == ChatDue(Peer(d))'
               n == Chats(d)
               n1 == Chats(d)'
    <3>3. /\ x \in {0, 1} /\ y \in {0, 1} /\ x1 \in {0, 1} /\ y1 \in {0, 1}
          /\ x1 <= x /\ y1 <= y /\ n \in Nat /\ n + x + y <= 2
      BY <1>4, <2>1, <3>1, <3>2
    <3>4. CASE n1 = n BY <3>3, <3>4
    <3>5. CASE (d = c \/ d = Peer(c)) /\ n1 = n + (IF t.found THEN 0 ELSE 1)
      <4>1. CASE d = c
        <5>1. x1 = 0 /\ x = IF t.found THEN 0 ELSE 1 BY <2>1, <4>1
        <5> HIDE DEF x, y, x1, y1, n, n1
        <5>2. n1 + x1 + y1 <= 2 BY <3>3, <3>5, <5>1
        <5> QED BY <5>2 DEF x1, y1, n1
      <4>2. CASE d = Peer(c)
        <5>1. Peer(d) = c BY <1>1, <4>2, PeerIs
        <5>2. y1 = 0 /\ y = IF t.found THEN 0 ELSE 1 BY <2>1, <5>1, <3>1
        <5> HIDE DEF x, y, x1, y1, n, n1
        <5>3. n1 + x1 + y1 <= 2 BY <3>3, <3>5, <5>2
        <5> QED BY <5>3 DEF x1, y1, n1
      <4> QED BY <3>5, <4>1, <4>2
    <3> QED BY <1>6, <3>4, <3>5
  <2>3. ASSUME serial, NEW d \in Couples PROVE Chats(d)' <= 1
    <3>1. Chats(d) <= 1 /\ Chats(d) \in Nat BY <1>4, <2>3 DEF ContactInv, ChatsBounded
    <3>2. CASE Chats(d)' = Chats(d) BY <3>1, <3>2
    <3>3. CASE (d = c \/ d = Peer(c)) /\ Chats(d)' = Chats(d) + (IF t.found THEN 0 ELSE 1)
      <4>1. Chats(d) = Chats(c)
        <5>1. PairOf(Peer(c)) = PairOf(c) BY <1>1, PeerIs
        <5> QED BY <3>3, <5>1 DEF Chats
      <4>2. t.found <=> Chats(c) > 0
        BY <1>0, <1>3, <2>3 DEF ContactInv, ContactAlone, t
      <4> QED BY <3>1, <3>3, <4>1, <4>2
    <3> QED BY <1>6, <3>2, <3>3
  <2> QED BY <2>2, <2>3 DEF ChatsBounded
<1> QED BY <1>7, <1>8, <1>9, <1>10, <1>11

\* Most of them leave the friendships alone.
LEMMA ContactEndsPlainly ==
  ASSUME ContactInv, NEW u \in Users, contactTx[u] # NoContactTx, EndContact(u),
         serial' = serial, friends' = friends,
         asked' \subseteq Couples, greeted' \subseteq Couples,
         \/ directs' = directs
         \/ \E areFriends \in BOOLEAN :
              directs' = [directs EXCEPT ![PairOf(contactTx[u].c)] =
                            Opened(@, contactTx[u], areFriends)]
  PROVE  ContactInv'
<1>1. friends' \in [Couples -> FriendStatus] BY DEF ContactInv, ContactTyped
<1>2. /\ ContactTyped' /\ ChatsBounded' /\ \A w \in Users : ContactKnown(w)'
      /\ serial => \A w \in Users : contactTx'[w] = NoContactTx
      /\ \A d \in Couples : Chats(d)' >= Chats(d)
  BY <1>1, ContactEnds
<1>3. \A d \in Couples : Chats(d) \in Nat /\ Chats(d)' \in Nat
  <2>1. \A p \in Pairs : Len(directs[p]) \in Nat /\ Len(directs'[p]) \in Nat
    BY <1>2 DEF ContactInv, ContactTyped
  <2> QED BY <2>1, PeerIs DEF Chats
<1>4. FriendsChat'
  <2>1. ASSUME NEW d \in Couples, friends[d] = "active"
        PROVE  Chats(d)' > 0 /\ (serial => friends[Peer(d)] = "active")
    BY <1>2, <1>3, <2>1 DEF ContactInv, FriendsChat
  <2> QED BY <2>1 DEF FriendsChat
<1> QED BY <1>2, <1>4 DEF ContactInv

\* An acceptance makes friends of two and leaves them a conversation.
LEMMA AcceptKeeps ==
  ASSUME ContactInv, NEW u \in Users, CommitAccept(u)
  PROVE  ContactInv'
<1> DEFINE t == contactTx[u]
<1>1. /\ t.op = "accept" /\ EndContact(u) /\ serial' = serial
      /\ t.row = "none" => friends[Peer(t.c)] = "none"
      /\ asked' = asked \ {Peer(t.c)} /\ greeted' = greeted
      /\ friends' = [friends EXCEPT ![Peer(t.c)] = WrittenBack(@, t.row, "active"),
                                    ![t.c] = "active"]
      /\ directs' = [directs EXCEPT ![PairOf(t.c)] = Opened(@, t, TRUE)]
  BY DEF CommitAccept
<1>2. t # NoContactTx BY <1>1, NoContactRequest
<1>3. PICK c \in Couples : c = t.c BY <1>2 DEF ContactInv, ContactKnown
<1>4. /\ c[1] = u /\ Peer(c) \in Couples /\ Peer(c) # c /\ Peer(Peer(c)) = c
      /\ PairOf(c) \in Pairs
  BY <1>2, <1>3, PeerIs DEF ContactInv, ContactKnown
<1>5. /\ friends' \in [Couples -> FriendStatus] /\ friends'[c] = "active"
      /\ friends'[Peer(c)] \in {friends[Peer(c)], "active"}
      /\ t.row = friends[Peer(c)] => friends'[Peer(c)] = "active"
      /\ \A d \in Couples \ {c, Peer(c)} : friends'[d] = friends[d]
  BY <1>1, <1>3, <1>4 DEF ContactInv, ContactTyped, FriendStatus, WrittenBack
<1>6. asked' \subseteq Couples /\ greeted' \subseteq Couples
  BY <1>1 DEF ContactInv, ContactTyped
<1>7. /\ ContactTyped' /\ ChatsBounded' /\ \A w \in Users : ContactKnown(w)'
      /\ serial => \A w \in Users : contactTx'[w] = NoContactTx
      /\ \A d \in Couples : Chats(d)' >= Chats(d)
  BY <1>1, <1>2, <1>5, <1>6, ContactEnds
<1>8. \A d \in Couples : Chats(d) \in Nat /\ Chats(d)' \in Nat
  <2>1. \A p \in Pairs : Len(directs[p]) \in Nat /\ Len(directs'[p]) \in Nat
    BY <1>7 DEF ContactInv, ContactTyped
  <2> QED BY <2>1, PeerIs DEF Chats
<1>9. Chats(c)' > 0
  <2>1. CASE t.found
    <3>1. Chats(c) > 0 BY <1>2, <1>3, <2>1 DEF ContactInv, ContactKnown
    <3> QED BY <1>7, <1>8, <3>1
  <2>2. CASE ~t.found
    <3>1. t \in ContactRequest /\ directs \in [Pairs -> Seq(Direct)] /\ t.c[1] \in Users
      BY <1>3, <1>4 DEF ContactInv, ContactTyped
    <3> HIDE DEF t
    <3> DEFINE seq == directs[PairOf(c)]
    <3>2. seq \in Seq(Direct) BY <1>4, <3>1
    <3> DEFINE more == Opened(seq, t, TRUE)
    <3>3. directs'[PairOf(c)] = more BY <1>1, <1>3, <1>4, <3>1 DEF t
    <3> HIDE DEF seq
    <3>4. \A areFriends \in BOOLEAN : Len(Opened(seq, t, areFriends)) = Len(seq) + 1
      BY <2>2, <3>1, <3>2, OpenedIs
    <3>5. Len(more) = Len(seq) + 1 BY <3>4, Zenon
    <3>6. Len(seq) \in Nat BY <3>2
    <3> HIDE DEF more
    <3> QED BY <3>3, <3>5, <3>6 DEF Chats
  <2> QED BY <2>1, <2>2
<1>10. FriendsChat'
  <2>1. Chats(Peer(c))' = Chats(c)' BY PeerIs DEF Chats
  <2>2. ASSUME NEW d \in Couples, friends'[d] = "active" PROVE Chats(d)' > 0
    BY <1>5, <1>7, <1>8, <1>9, <2>1, <2>2 DEF ContactInv, FriendsChat
  <2>3. ASSUME serial, NEW d \in Couples, friends'[d] = "active"
        PROVE  friends'[Peer(d)] = "active"
    <3>1. friends'[Peer(c)] = "active"
      <4>1. t.row = friends[Peer(c)]
        BY <1>1, <1>2, <1>3, <2>3 DEF ContactInv, ContactAlone
      <4> QED BY <1>5, <4>1
    <3>2. CASE d \in {c, Peer(c)} BY <1>4, <1>5, <3>1, <3>2
    <3>3. CASE d \notin {c, Peer(c)}
      <4>1. Peer(d) \in Couples /\ Peer(Peer(d)) = d BY PeerIs
      <4>2. Peer(d) \notin {c, Peer(c)} BY <1>4, <3>3, <4>1
      <4> QED BY <1>5, <2>3, <3>3, <4>1, <4>2 DEF ContactInv, FriendsChat
    <3> QED BY <3>2, <3>3
  <2> QED BY <1>1, <2>2, <2>3 DEF FriendsChat
<1> QED BY <1>1, <1>7, <1>10 DEF ContactInv

\* The end of a friendship, row by row.
LEMMA UnfriendKeeps ==
  ASSUME ContactInv, NEW u \in Users, CommitUnfriend(u)
  PROVE  ContactInv'
<1> DEFINE t == contactTx[u]
           Off(now, read) == IF read = "none" THEN now ELSE WrittenBack(now, read, "deleted")
<1>1. /\ t.op = "unfriend" /\ EndContact(u) /\ UNCHANGED <<serial, asked, greeted, directs>>
      /\ friends' = [friends EXCEPT ![t.c] = Off(@, t.row),
                                    ![Peer(t.c)] = Off(@, friends[Peer(t.c)])]
  BY DEF CommitUnfriend
<1>2. t # NoContactTx BY <1>1, NoContactRequest
<1>3. PICK c \in Couples : c = t.c BY <1>2 DEF ContactInv, ContactKnown
<1>4. Peer(c) \in Couples /\ Peer(c) # c /\ Peer(Peer(c)) = c BY PeerIs
<1>5. friends \in [Couples -> FriendStatus] BY DEF ContactInv, ContactTyped
<1>6. /\ friends' \in [Couples -> FriendStatus]
      /\ friends'[c] \in {friends[c], "deleted"} /\ friends'[Peer(c)] # "active"
      /\ t.row = friends[c] => friends'[c] # "active"
      /\ \A d \in Couples \ {c, Peer(c)} : friends'[d] = friends[d]
  <2>1. friends' = [friends EXCEPT ![c] = Off(@, t.row), ![Peer(c)] = Off(@, friends[Peer(c)])]
    BY <1>1, <1>3
  <2>2. Off(friends[c], t.row) \in {friends[c], "deleted"}
        /\ (t.row = friends[c] => Off(friends[c], t.row) # "active")
    BY <1>5 DEF WrittenBack, FriendStatus
  <2>3. /\ Off(friends[Peer(c)], friends[Peer(c)]) # "active"
        /\ Off(friends[Peer(c)], friends[Peer(c)]) \in {friends[Peer(c)], "deleted"}
    BY <1>5 DEF WrittenBack, FriendStatus
  <2> HIDE DEF Off, t
  <2> QED BY <1>4, <1>5, <2>1, <2>2, <2>3 DEF FriendStatus
<1>7. asked' \subseteq Couples /\ greeted' \subseteq Couples /\ directs' = directs
  BY <1>1 DEF ContactInv, ContactTyped
<1>8. /\ ContactTyped' /\ ChatsBounded' /\ \A w \in Users : ContactKnown(w)'
      /\ serial => \A w \in Users : contactTx'[w] = NoContactTx
  BY <1>1, <1>2, <1>6, <1>7, ContactEnds
<1>9. FriendsChat'
  <2>1. ASSUME NEW d \in Couples, friends'[d] = "active" PROVE friends[d] = "active"
    BY <1>6, <2>1
  <2>2. ASSUME serial, NEW d \in Couples, friends'[d] = "active"
        PROVE  friends'[Peer(d)] = "active"
    <3>1. friends'[c] # "active"
      <4>1. t.row = friends[c] BY <1>1, <1>2, <1>3, <2>2 DEF ContactInv, ContactAlone
      <4> QED BY <1>6, <4>1
    <3>2. d \notin {c, Peer(c)} BY <1>6, <2>2, <3>1
    <3>3. Peer(d) \in Couples /\ Peer(Peer(d)) = d BY PeerIs
    <3>4. Peer(d) \notin {c, Peer(c)} BY <1>4, <3>2, <3>3
    <3> QED BY <1>6, <2>2, <3>2, <3>3, <3>4 DEF ContactInv, FriendsChat
  <2>3. \A d \in Couples : Chats(d)' = Chats(d) BY <1>7 DEF Chats
  <2>4. \A d \in Couples : friends[d] = "active" => Chats(d) > 0
    BY DEF ContactInv, FriendsChat
  <2> HIDE DEF t
  <2> QED BY <1>1, <2>1, <2>2, <2>3, <2>4 DEF FriendsChat
<1> QED BY <1>1, <1>8, <1>9 DEF ContactInv

\* A change that no open request overlaps where requests do not overlap.
LEMMA ContactAtOnce ==
  ASSUME ContactInv, NEW u \in Users, MayBegin(contactTx, u, NoContactTx),
         UNCHANGED <<serial, friends, contactTx>>,
         asked' \subseteq Couples, greeted' \subseteq Couples,
         directs' \in [Pairs -> Seq(Direct)],
         \A p \in Pairs : Len(directs'[p]) = Len(directs[p])
  PROVE  ContactInv'
<1>1. \A c \in Couples : Chats(c)' = Chats(c) /\ ChatDue(c)' = ChatDue(c)
  BY PeerIs DEF Chats, ChatDue
<1>2. serial => \A v \in Users : contactTx[v] = NoContactTx
  <2>1. DOMAIN contactTx = Users BY DEF ContactInv, ContactTyped
  <2> QED BY <2>1 DEF MayBegin
<1>3. ContactTyped' BY DEF ContactInv, ContactTyped
<1>4. ASSUME NEW v \in Users PROVE ContactKnown(v)'
  <2>1. ASSUME contactTx[v] # NoContactTx
        PROVE  /\ contactTx[v].c \in Couples /\ contactTx[v].c[1] = v
               /\ contactTx[v].found => Len(directs'[PairOf(contactTx[v].c)]) > 0
    <3>1. contactTx[v].c \in Couples /\ PairOf(contactTx[v].c) \in Pairs
      BY <2>1, PeerIs DEF ContactInv, ContactKnown
    <3> QED BY <2>1, <3>1 DEF ContactInv, ContactKnown, Chats
  <2> QED BY <2>1 DEF ContactKnown, Chats
<1>5. ChatsBounded' BY <1>1, PeerIs DEF ContactInv, ChatsBounded
<1>6. FriendsChat' BY <1>1 DEF ContactInv, FriendsChat
<1> QED BY <1>2, <1>3, <1>4, <1>5, <1>6 DEF ContactInv

LEMMA AnswerKeeps ==
  ASSUME ContactInv, NEW c \in Couples, AnswerRequest(c)
  PROVE  ContactInv' /\ \A p \in Pairs : Len(directs'[p]) = Len(directs[p])
<1>1. /\ MayBegin(contactTx, c[1], NoContactTx)
      /\ UNCHANGED <<serial, blocks, friends, asked, greeted, contactTx>>
  BY DEF AnswerRequest
<1>2. PICK i \in DOMAIN directs[PairOf(c)], answer \in {"accepted", "rejected"} :
        directs' = [directs EXCEPT ![PairOf(c)][i] =
            [@ EXCEPT !.request = answer, !.marked = (answer = "rejected")]]
  BY DEF AnswerRequest
<1> DEFINE seq == directs[PairOf(c)]
           d == [seq[i] EXCEPT !.request = answer, !.marked = (answer = "rejected")]
<1>3. directs \in [Pairs -> Seq(Direct)] /\ PairOf(c) \in Pairs /\ c[1] \in Users
  BY PeerIs, CoupleIs DEF ContactInv, ContactTyped
<1>4. seq \in Seq(Direct) /\ i \in DOMAIN seq BY <1>2, <1>3
<1>5. directs' = [directs EXCEPT ![PairOf(c)] = [seq EXCEPT ![i] = d]] BY <1>2, <1>3
<1>6. d \in Direct
  <2>1. seq[i] \in Direct BY <1>4
  <2> QED BY <2>1 DEF Direct
<1> HIDE DEF seq, d
<1>7. [seq EXCEPT ![i] = d] \in Seq(Direct) /\ Len([seq EXCEPT ![i] = d]) = Len(seq)
  BY <1>4, <1>6
<1>8. directs' \in [Pairs -> Seq(Direct)] /\ \A p \in Pairs : Len(directs'[p]) = Len(directs[p])
  BY <1>3, <1>5, <1>7 DEF seq
<1>9. asked' \subseteq Couples /\ greeted' \subseteq Couples
  BY <1>1 DEF ContactInv, ContactTyped
<1> QED BY <1>1, <1>3, <1>8, <1>9, ContactAtOnce

LEMMA ContactInductive ==
  ASSUME ContactInv, [ContactsNext]_<<serial, blocks, contactVars>>
  PROVE  ContactInv'
<1>0. asked \subseteq Couples /\ greeted \subseteq Couples /\ directs \in [Pairs -> Seq(Direct)]
  BY DEF ContactInv, ContactTyped
<1>1. CASE UNCHANGED <<serial, blocks, contactVars>>
  BY <1>1 DEF contactVars, ContactInv, ContactTyped, ContactKnown, ContactAlone, ChatsBounded,
     FriendsChat, Chats, ChatDue, IsBlockedEither
<1>2. ASSUME NEW c \in Couples, ContactStep(c) PROVE ContactInv'
  <2>1. /\ c[1] \in Users /\ Peer(c) \in Couples /\ "none" \in FriendStatus
        /\ friends[c] \in FriendStatus /\ friends[Peer(c)] \in FriendStatus
    BY CoupleIs, PeerIs DEF ContactInv, ContactTyped, FriendStatus
  <2>2. CASE BeginOpen(c) BY <2>1, <2>2, ContactBegins DEF BeginOpen
  <2>3. CASE BeginAsk(c) BY <2>1, <2>3, ContactBegins DEF BeginAsk
  <2>4. CASE BeginAccept(c) BY <2>1, <2>4, ContactBegins DEF BeginAccept
  <2>5. CASE BeginUnfriend(c) BY <2>1, <2>5, ContactBegins DEF BeginUnfriend
  <2>6. CASE BeginGreet(c) BY <2>1, <2>6, ContactBegins DEF BeginGreet
  <2>7. CASE Decline(c) BY <1>0, <2>1, <2>7, ContactAtOnce DEF Decline
  <2>8. CASE AnswerRequest(c) BY <2>8, AnswerKeeps
  <2>9. CASE SetBlock(c) BY <1>0, <2>1, <2>9, ContactAtOnce DEF SetBlock, contactVars
  <2> QED BY <1>2, <2>2, <2>3, <2>4, <2>5, <2>6, <2>7, <2>8, <2>9 DEF ContactStep
<1>3. ASSUME NEW u \in Users, ContactCommit(u) PROVE ContactInv'
  <2>1. contactTx[u].op # "idle" => contactTx[u] # NoContactTx BY NoContactRequest
  <2>2. contactTx[u] # NoContactTx => contactTx[u].c \in Couples
    BY DEF ContactInv, ContactKnown
  <2>3. contactTx[u].friend \in BOOLEAN BY DEF ContactInv, ContactTyped, ContactRequest
  <2>4. CASE CommitOpen(u)
    <3>1. /\ contactTx[u].op = "open" /\ EndContact(u)
          /\ UNCHANGED <<serial, blocks, friends, asked, greeted>>
          /\ directs' = [directs EXCEPT ![PairOf(contactTx[u].c)] =
                           Opened(@, contactTx[u], contactTx[u].friend)]
      BY <2>4 DEF CommitOpen
    <3> QED BY <1>0, <2>1, <2>3, <3>1, ContactEndsPlainly
  <2>5. CASE CommitAsk(u)
    <3>1. /\ contactTx[u].op = "ask" /\ EndContact(u)
          /\ UNCHANGED <<serial, blocks, friends, greeted, directs>>
          /\ asked' = asked \cup {contactTx[u].c}
      BY <2>5 DEF CommitAsk
    <3> QED BY <1>0, <2>1, <2>2, <3>1, ContactEndsPlainly
  <2>6. CASE CommitGreet(u)
    <3>1. /\ contactTx[u].op = "greet" /\ EndContact(u)
          /\ UNCHANGED <<serial, blocks, friends, asked, directs>>
          /\ greeted' = greeted \cup {contactTx[u].c}
      BY <2>6 DEF CommitGreet
    <3> QED BY <1>0, <2>1, <2>2, <3>1, ContactEndsPlainly
  <2>7. CASE AbortContact(u)
    <3>1. /\ contactTx[u] # NoContactTx /\ EndContact(u)
          /\ UNCHANGED <<serial, blocks, friends, asked, greeted, directs>>
      BY <2>7 DEF AbortContact
    <3> QED BY <1>0, <3>1, ContactEndsPlainly
  <2> QED BY <1>3, <2>4, <2>5, <2>6, <2>7, AcceptKeeps, UnfriendKeeps DEF ContactCommit
<1> QED BY <1>1, <1>2, <1>3 DEF ContactsNext

LEMMA ContactInitially ==
  ASSUME RequestsInit, ContactsInit
  PROVE  ContactInv
<1>1. ContactTyped BY NoContactRequest DEF ContactsInit, ContactTyped, FriendStatus
<1>2. \A c \in Couples : Chats(c) = 0 /\ ChatDue(c) = 0
  BY PeerIs, CoupleIs DEF ContactsInit, Chats, ChatDue
<1>3. ChatsBounded BY <1>2, PeerIs DEF ChatsBounded
<1> QED BY <1>1, <1>3 DEF ContactsInit, ContactInv, ContactKnown, FriendsChat

LEMMA ContactTypes == ASSUME ContactInv PROVE ContactsTypeOK
BY DEF ContactInv, ContactTyped, ContactKnown, ContactsTypeOK, FriendStatus

LEMMA FriendsDoShare == ASSUME ContactInv PROVE FriendsShareAChat
<1>1. ASSUME NEW c \in Couples
      PROVE  Chats(c) <= IF serial THEN 1 ELSE 2
  <2>1. Chats(c) + ChatDue(c) + ChatDue(Peer(c)) <= 2 /\ (serial => Chats(c) <= 1)
    BY DEF ContactInv, ChatsBounded
  <2>2. ChatDue(c) \in {0, 1} /\ ChatDue(Peer(c)) \in {0, 1} BY DEF ChatDue
  <2>3. Chats(c) \in Nat
    <3>1. \A p \in Pairs : Len(directs[p]) \in Nat BY DEF ContactInv, ContactTyped
    <3> QED BY <3>1, PeerIs DEF Chats
  <2> QED BY <2>1, <2>2, <2>3
<1> QED BY <1>1 DEF ContactInv, FriendsChat, FriendsShareAChat, Chats

\* What NoContactAcrossABlock asks of a step.
NothingNew(c) ==
  /\ friends'[c] = "active" => friends[c] = "active"
  /\ c \in asked' => c \in asked
  /\ c \in greeted' => c \in greeted
  /\ Len(directs'[PairOf(c)]) = Len(directs[PairOf(c)])

\* Where requests do not overlap a request that makes contact is of two others.
LEMMA BlockedAreApart ==
  ASSUME ContactInv, serial, NEW c \in Couples, IsBlockedEither(c[1], c[2]),
         NEW u \in Users, contactTx[u].op \in {"open", "ask", "accept", "greet"}
  PROVE  /\ contactTx[u].c \in Couples /\ PairOf(contactTx[u].c) # PairOf(c)
         /\ contactTx[u].c # c /\ Peer(contactTx[u].c) # c
<1>1. contactTx[u] # NoContactTx BY NoContactRequest
<1>2. PICK d \in Couples : d = contactTx[u].c BY <1>1 DEF ContactInv, ContactKnown
<1>3. ~IsBlockedEither(d[1], d[2]) BY <1>1, <1>2 DEF ContactInv, ContactAlone
<1>4. d # c /\ Peer(d) # c BY <1>3, PeerIs DEF IsBlockedEither
<1>5. PairOf(d) # PairOf(c) BY <1>4, SamePair
<1> QED BY <1>2, <1>4, <1>5

LEMMA BlockHolds ==
  ASSUME ContactInv, [ContactsNext]_<<serial, blocks, contactVars>>, serial,
         NEW c \in Couples, IsBlockedEither(c[1], c[2])
  PROVE  NothingNew(c)
<1>1. CASE UNCHANGED <<friends, asked, greeted, directs>> BY <1>1 DEF NothingNew
<1>2. ASSUME NEW d \in Couples, ContactStep(d) PROVE NothingNew(c)
  <2>1. CASE AnswerRequest(d)
    <3>1. \A p \in Pairs : Len(directs'[p]) = Len(directs[p]) BY <2>1, AnswerKeeps
    <3> QED BY <2>1, <3>1, PeerIs DEF AnswerRequest, NothingNew
  <2>2. CASE Decline(d) BY <2>2 DEF Decline, NothingNew
  <2>3. CASE UNCHANGED <<friends, asked, greeted, directs>> BY <2>3, <1>1
  <2> QED BY <1>2, <2>1, <2>2, <2>3 DEF ContactStep, BeginOpen, BeginAsk, BeginAccept,
             BeginUnfriend, BeginGreet, BeginContact, SetBlock, contactVars
<1>3. ASSUME NEW u \in Users, ContactCommit(u) PROVE NothingNew(c)
  <2> DEFINE t == contactTx[u]
  <2>1. directs \in [Pairs -> Seq(Direct)] /\ friends \in [Couples -> FriendStatus]
        /\ PairOf(c) \in Pairs
    BY PeerIs DEF ContactInv, ContactTyped
  <2>2. CASE CommitOpen(u)
    <3>1. /\ t.op = "open" /\ UNCHANGED <<friends, asked, greeted>>
          /\ directs' = [directs EXCEPT ![PairOf(t.c)] = Opened(@, t, t.friend)]
      BY <2>2 DEF CommitOpen
    <3>2. PairOf(t.c) # PairOf(c) BY <3>1, BlockedAreApart
    <3>3. directs'[PairOf(c)] = directs[PairOf(c)] BY <2>1, <3>1, <3>2
    <3> QED BY <3>1, <3>3 DEF NothingNew
  <2>3. CASE CommitAsk(u) BY <2>3, BlockedAreApart DEF CommitAsk, NothingNew
  <2>4. CASE CommitGreet(u) BY <2>4, BlockedAreApart DEF CommitGreet, NothingNew
  <2>5. CASE CommitAccept(u)
    <3>1. /\ t.op = "accept" /\ asked' = asked \ {Peer(t.c)} /\ greeted' = greeted
          /\ friends' = [friends EXCEPT ![Peer(t.c)] = WrittenBack(@, t.row, "active"),
                                        ![t.c] = "active"]
          /\ directs' = [directs EXCEPT ![PairOf(t.c)] = Opened(@, t, TRUE)]
      BY <2>5 DEF CommitAccept
    <3>2. PairOf(t.c) # PairOf(c) /\ t.c # c /\ Peer(t.c) # c BY <3>1, BlockedAreApart
    <3>3. directs'[PairOf(c)] = directs[PairOf(c)] /\ friends'[c] = friends[c]
      BY <2>1, <3>1, <3>2
    <3> QED BY <3>1, <3>3 DEF NothingNew
  <2>6. CASE CommitUnfriend(u)
    <3> DEFINE Off(now, read) == IF read = "none" THEN now ELSE WrittenBack(now, read, "deleted")
    <3>1. /\ UNCHANGED <<asked, greeted, directs>>
          /\ friends' = [friends EXCEPT ![t.c] = Off(@, t.row),
                                        ![Peer(t.c)] = Off(@, friends[Peer(t.c)])]
      BY <2>6 DEF CommitUnfriend
    <3>2. \A now, read : Off(now, read) \in {now, "deleted"} BY DEF WrittenBack
    <3> HIDE DEF Off, t
    <3>3. friends'[c] = "active" => friends[c] = "active" BY <2>1, <3>1, <3>2
    <3> QED BY <3>1, <3>3 DEF NothingNew
  <2>7. CASE AbortContact(u) BY <1>1, <2>7 DEF AbortContact
  <2> QED BY <1>3, <2>2, <2>3, <2>4, <2>5, <2>6, <2>7 DEF ContactCommit
<1> QED BY <1>1, <1>2, <1>3 DEF ContactsNext, contactVars

-----------------------------------------------------------------------------
(***************************************************************************)
(* Clubs.  What an open request has read of the rows it is about is still  *)
(* there, but for the rows that others wrote since (lost), so that its     *)
(* commit puts the chat beside the membership, or leaves the row adrift.   *)
(* The count is right where requests do not overlap, since the count and   *)
(* the row that the one open request has read are then still there.        *)
(***************************************************************************)
USE ClubsAssumption

RowStatus == {"absent", "active", "left", "kicked"}
ConvStatus == {"none", "active", "dissolved"}
Seats == [status : RowStatus, role : {"owner", "member"}]
ClubRow == [status : {"absent", "active", "hidden", "dissolved"}, count : Nat,
            creator : Members \cup {"none"}, room : Nat, conv : ConvStatus]
ClubRequest ==
  [op : {"idle", "join", "leave", "kick", "enter", "dissolve"}, on : Members \cup {"none"},
   count : Nat, room : Nat, next : {"me", "seat", "conv", "chat", "done"}, conv : ConvStatus,
   row : RowStatus, batch : SUBSET Members, rows : SUBSET Members, lost : SUBSET Members]
Clerks == Members \cup {"ops"}

ClubTyped ==
  /\ club \in ClubRow
  /\ seats \in [Members -> Seats]
  /\ chat \in [Members -> RowStatus]
  /\ base \in {0, SeededCount} /\ adrift \subseteq Members
  /\ clubTx \in [Clerks -> ClubRequest]

\* Without a conversation nobody is in it, and nobody is a member either.
NoRoomNobody ==
  club.room = 0 => club.conv = "none" /\ \A v \in Members : chat[v] = "absent" /\ ~Joined(v)

\* What request t has read of the row of v is what is there.
RowTrue(t, v) ==
  /\ t.room \in {0, club.room}
  /\ t.room = 0 => chat[v] = "absent" /\ ~Joined(v)
  /\ t.next \in {"conv", "chat", "done"} =>
       /\ t.op = "join" => ~Joined(v)
       /\ t.op \in {"leave", "kick", "enter"} => Joined(v)
       /\ t.op = "dissolve" /\ Joined(v) => v \in t.batch
  /\ t.next = "done" =>
       /\ t.op # "dissolve" => t.row = chat[v]
       /\ t.op = "dissolve" /\ chat[v] \in {"active", "kicked"} => v \in t.rows

\* An open request of u, who joins, leaves and enters for himself.
Sound(u, t) ==
  /\ t.op \in {"join", "leave", "enter"} => t.on = u
  /\ t.op \in {"join", "leave", "enter", "kick"} => t.on \in Members
  /\ IF t.room = 0 THEN t.row = "absent" ELSE club.room # 0
  /\ \A v \in (Members \cap About(t)) \ t.lost : RowTrue(t, v)

JoinedNow == {u \in Members : Joined(u)}

\* What the one open request rests on where requests do not overlap.
ClubAlone(u) ==
  /\ \A v \in Clerks \ {u} : clubTx[v] = NoClubTx
  /\ clubTx[u].op # "enter" => clubTx[u].count = club.count
  /\ clubTx[u].lost = {}

CountHolds ==
  serial => IsFiniteSet(JoinedNow) /\ club.count = base + Cardinality(JoinedNow)

ClubInv ==
  /\ ClubTyped
  /\ NoRoomNobody
  /\ ChatIsTheClub
  /\ CountHolds
  /\ \A u \in Clerks : Sound(u, clubTx[u])
  /\ club.status = "absent" => \A u \in Clerks : clubTx[u] = NoClubTx
  /\ serial => \A u \in Clerks : clubTx[u] # NoClubTx => ClubAlone(u)

LEMMA NoClubRequest ==
  /\ NoClubTx \in ClubRequest /\ NoClubTx.op = "idle" /\ NoClubTx.next = "done"
  /\ NoClubTx.room = 0 /\ NoClubTx.row = "absent" /\ NoClubTx.lost = {}
  /\ Members \cap About(NoClubTx) = {}
BY DEF NoClubTx, ClubRequest, RowStatus, ConvStatus, About

LEMMA ClubMayBegin ==
  ASSUME ClubInv, NEW u \in Clerks, MayBegin(clubTx, u, NoClubTx)
  PROVE  clubTx[u] = NoClubTx /\ (serial => \A v \in Clerks : clubTx[v] = NoClubTx)
<1>1. DOMAIN clubTx = Clerks BY DEF ClubInv, ClubTyped
<1> QED BY <1>1 DEF MayBegin

\* A request goes on to t, having read a row or begun, and nothing else changes.
LEMMA ClubReads ==
  ASSUME ClubInv, NEW u \in Clerks, NEW t \in ClubRequest, Sound(u, t),
         clubTx' = [clubTx EXCEPT ![u] = t],
         UNCHANGED <<serial, club, seats, chat, base, adrift>>,
         club.status # "absent",
         serial => /\ \A v \in Clerks \ {u} : clubTx[v] = NoClubTx
                   /\ t.op # "enter" => t.count = club.count
                   /\ t.lost = {}
  PROVE  ClubInv'
<1>1. /\ clubTx' \in [Clerks -> ClubRequest]
      /\ \A w \in Clerks : clubTx'[w] = IF w = u THEN t ELSE clubTx[w]
  BY DEF ClubInv, ClubTyped
<1>2. ClubTyped' /\ NoRoomNobody' /\ ChatIsTheClub' /\ CountHolds'
  BY <1>1 DEF ClubInv, ClubTyped, NoRoomNobody, ChatIsTheClub, CountHolds, JoinedNow, Joined
<1>3. ASSUME NEW w \in Clerks PROVE Sound(w, clubTx[w])'
  <2>1. Sound(w, clubTx'[w]) BY <1>1 DEF ClubInv
  <2> QED BY <2>1 DEF Sound, RowTrue, Joined, About
<1>4. ASSUME serial', NEW w \in Clerks, clubTx'[w] # NoClubTx PROVE ClubAlone(w)'
  <2>1. w = u /\ \A x \in Clerks \ {u} : clubTx'[x] = NoClubTx BY <1>1, <1>4
  <2> QED BY <1>1, <1>4, <2>1 DEF ClubAlone
<1> QED BY <1>2, <1>3, <1>4 DEF ClubInv

\* Rows of S are written; the requests about them are overtaken, or have ended.
LEMMA ClubWrites ==
  ASSUME ClubInv, NEW S \in SUBSET Members, serial' = serial,
         club' \in ClubRow, seats' \in [Members -> Seats], chat' \in [Members -> RowStatus],
         base' \in {0, SeededCount}, adrift' \subseteq Members,
         NoRoomNobody', ChatIsTheClub', CountHolds', club'.status # "absent",
         \A v \in Members \ S : (Joined(v)' <=> Joined(v)) /\ chat'[v] = chat[v],
         club'.room = club.room \/ club.room = 0 \/ S = Members,
         club.room # 0 => club'.room # 0,
         clubTx' \in [Clerks -> ClubRequest],
         \A w \in Clerks :
           \/ clubTx'[w] = NoClubTx
           \/ clubTx'[w] = [clubTx[w] EXCEPT !.lost = @ \cup (S \cap About(clubTx[w]) \cap Members)],
         serial => \A w \in Clerks : clubTx'[w] = NoClubTx
  PROVE  ClubInv'
<1>1. ClubTyped' BY DEF ClubTyped
<1>2. ASSUME NEW w \in Clerks PROVE Sound(w, clubTx[w])'
  <2>1. CASE clubTx'[w] = NoClubTx
    BY <2>1, NoClubRequest DEF Sound, About
  <2>2. CASE clubTx'[w] = [clubTx[w] EXCEPT !.lost = @ \cup (S \cap About(clubTx[w]) \cap Members)]
    <3> DEFINE t == clubTx[w]
    <3>0. PICK s : s = clubTx'[w] OBVIOUS
    <3>1. t \in ClubRequest /\ Sound(w, t) BY DEF ClubInv, ClubTyped
    <3>2. /\ s.op = t.op /\ s.on = t.on /\ s.room = t.room /\ s.next = t.next
          /\ s.row = t.row /\ s.batch = t.batch /\ s.rows = t.rows
          /\ s.lost = t.lost \cup (S \cap About(t) \cap Members)
      BY <2>2, <3>0, <3>1 DEF ClubRequest
    <3>3. About(s) = About(t) BY <3>2 DEF About
    <3> HIDE DEF t
    <3>4. ASSUME NEW v \in (Members \cap About(s)) \ s.lost PROVE RowTrue(s, v)'
      <4>1. v \notin S /\ v \in (Members \cap About(t)) \ t.lost BY <3>2, <3>3, <3>4
      <4>2. RowTrue(t, v) BY <3>1, <4>1 DEF Sound
      <4>3. (Joined(v)' <=> Joined(v)) /\ chat'[v] = chat[v] BY <4>1
      <4>4. club'.room = club.room \/ club.room = 0 BY <4>1
      <4>5. t.room \in {0, club'.room} BY <4>2, <4>4 DEF RowTrue
      <4> QED BY <3>2, <4>2, <4>3, <4>5 DEF RowTrue
    <3>5. /\ s.op \in {"join", "leave", "enter"} => s.on = w
          /\ s.op \in {"join", "leave", "enter", "kick"} => s.on \in Members
          /\ IF s.room = 0 THEN s.row = "absent" ELSE club'.room # 0
      BY <3>1, <3>2 DEF Sound
    <3> QED BY <3>0, <3>4, <3>5 DEF Sound, About
  <2> QED BY <2>1, <2>2
<1> QED BY <1>1, <1>2 DEF ClubInv

\* A request ends, having written rows of S.
LEMMA ClubEnds ==
  ASSUME ClubInv, NEW u \in Clerks, clubTx[u] # NoClubTx,
         NEW S \in SUBSET Members, EndClub(u, S), serial' = serial,
         club' \in ClubRow, seats' \in [Members -> Seats], chat' \in [Members -> RowStatus],
         base' \in {0, SeededCount}, adrift' \subseteq Members,
         NoRoomNobody', ChatIsTheClub', CountHolds', club'.status \in {club.status, "dissolved"},
         \A v \in Members \ S : (Joined(v)' <=> Joined(v)) /\ chat'[v] = chat[v],
         club'.room = club.room \/ club.room = 0 \/ S = Members,
         club.room # 0 => club'.room # 0
  PROVE  ClubInv'
<1> DEFINE Later(t) == [t EXCEPT !.lost = @ \cup (S \cap About(t) \cap Members)]
<1>1. clubTx \in [Clerks -> ClubRequest] BY DEF ClubInv, ClubTyped
<1>2. \A t \in ClubRequest : Later(t) \in ClubRequest BY DEF ClubRequest
<1>3. clubTx' = [[w \in Clerks |-> Later(clubTx[w])] EXCEPT ![u] = NoClubTx]
  BY <1>1 DEF EndClub, Overtaken
<1> HIDE DEF Later
<1>4. /\ clubTx' \in [Clerks -> ClubRequest]
      /\ \A w \in Clerks : clubTx'[w] = IF w = u THEN NoClubTx ELSE Later(clubTx[w])
  BY <1>1, <1>2, <1>3, NoClubRequest
<1>5. Later(NoClubTx) = NoClubTx
  <2>1. S \cap About(NoClubTx) \cap Members = {} BY NoClubRequest
  <2>2. Later(NoClubTx) = [NoClubTx EXCEPT !.lost = @ \cup {}] BY <2>1 DEF Later
  <2> QED BY <2>2 DEF NoClubTx
<1>6. ASSUME serial, NEW w \in Clerks PROVE clubTx'[w] = NoClubTx
  <2>1. w # u => clubTx[w] = NoClubTx BY <1>6 DEF ClubInv, ClubAlone
  <2> QED BY <1>4, <1>5, <2>1
<1>7. club'.status # "absent" BY DEF ClubInv
<1>8. \A w \in Clerks :
        \/ clubTx'[w] = NoClubTx
        \/ clubTx'[w] = [clubTx[w] EXCEPT !.lost = @ \cup (S \cap About(clubTx[w]) \cap Members)]
  BY <1>4 DEF Later
<1> QED BY <1>4, <1>6, <1>7, <1>8, ClubWrites

\* The count after one more, one less and none.
LEMMA JoinedChanges ==
  ASSUME NEW S, IsFiniteSet(S), NEW v
  PROVE  /\ IsFiniteSet(S \cup {v}) /\ IsFiniteSet(S \ {v}) /\ Cardinality(S) \in Nat
         /\ v \notin S => Cardinality(S \cup {v}) = Cardinality(S) + 1
         /\ v \in S => /\ Cardinality(S \ {v}) = Cardinality(S) - 1
                       /\ Cardinality(S) > 0
<1>1. Cardinality(S) \in Nat BY FS_CardinalityType
<1>2. IsFiniteSet(S \cup {v}) /\ (v \notin S => Cardinality(S \cup {v}) = Cardinality(S) + 1)
  BY FS_AddElement
<1>3. IsFiniteSet(S \ {v}) /\ (v \in S => Cardinality(S \ {v}) = Cardinality(S) - 1)
  BY FS_RemoveElement
<1>4. Cardinality(S \ {v}) \in Nat BY <1>3, FS_CardinalityType
<1> QED BY <1>1, <1>2, <1>3, <1>4

LEMMA CreateClubKeeps ==
  ASSUME ClubInv, NEW u \in Members, CreateClub(u)
  PROVE  ClubInv'
<1>1. /\ MayBegin(clubTx, u, NoClubTx) /\ club = NoClub
      /\ club' = [status |-> "active", count |-> 1, creator |-> u, room |-> 1, conv |-> "active"]
      /\ seats' = [seats EXCEPT ![u] = [status |-> "active", role |-> "owner"]]
      /\ chat' = [chat EXCEPT ![u] = "active"]
      /\ UNCHANGED <<serial, blocks, base, adrift, clubTx>>
  BY DEF CreateClub
<1>2. /\ club' \in ClubRow /\ club'.room = 1 /\ club'.count = 1 /\ club'.status = "active"
      /\ seats' \in [Members -> Seats] /\ chat' \in [Members -> RowStatus]
  BY <1>1 DEF ClubInv, ClubTyped, ClubRow, RowStatus, ConvStatus, Seats
<1>3. \A v \in Members : /\ Joined(v)' <=> v = u \/ Joined(v)
                         /\ chat'[v] = IF v = u THEN "active" ELSE chat[v]
  BY <1>1 DEF ClubInv, ClubTyped, Joined
<1>4. ChatIsTheClub' BY <1>1, <1>3 DEF ClubInv, ChatIsTheClub
<1>5. CountHolds'
  <2>1. ASSUME serial PROVE IsFiniteSet(JoinedNow)' /\ (club.count = base + Cardinality(JoinedNow))'
    <3>1. IsFiniteSet(JoinedNow) /\ 0 = base + Cardinality(JoinedNow)
      BY <1>1, <2>1 DEF ClubInv, CountHolds, NoClub
    <3>2. base \in Nat /\ Cardinality(JoinedNow) \in Nat
      BY <3>1, FS_CardinalityType DEF ClubInv, ClubTyped
    <3>3. base = 0 /\ Cardinality(JoinedNow) = 0 BY <3>1, <3>2
    <3>4. JoinedNow = {} BY <3>1, <3>3, FS_EmptySet
    <3>5. JoinedNow' = {u} BY <1>3, <3>4 DEF JoinedNow
    <3>6. IsFiniteSet({u}) /\ Cardinality({u}) = 1 BY FS_Singleton
    <3> QED BY <1>1, <1>2, <3>3, <3>5, <3>6
  <2> QED BY <1>1, <2>1 DEF CountHolds
<1>6. NoRoomNobody' BY <1>2 DEF NoRoomNobody
<1>7. \A w \in Clerks : clubTx'[w] = NoClubTx BY <1>1 DEF ClubInv, NoClub
<1>8. adrift' \subseteq Members /\ base' \in {0, SeededCount} /\ clubTx' \in [Clerks -> ClubRequest]
  BY <1>1 DEF ClubInv, ClubTyped
<1>9. club.room = 0 /\ {u} \in SUBSET Members BY <1>1 DEF NoClub
<1> QED BY <1>1, <1>2, <1>3, <1>4, <1>5, <1>6, <1>7, <1>8, <1>9, ClubWrites

\* A request that begins.
LEMMA ClubBegins ==
  ASSUME ClubInv, NEW u \in Clerks, NEW op \in {"join", "leave", "kick", "enter", "dissolve"},
         NEW v \in Members \cup {"none"}, BeginClub(u, op, v), club.status # "absent",
         op \in {"join", "leave", "enter"} => v = u,
         op \in {"join", "leave", "enter", "kick"} => v \in Members
  PROVE  ClubInv'
<1> DEFINE t == [NoClubTx EXCEPT
             !.op = op, !.on = v, !.count = IF op = "enter" THEN 0 ELSE club.count,
             !.room = club.room, !.next = IF op = "kick" THEN "me" ELSE "seat"]
<1>1. /\ clubTx' = [clubTx EXCEPT ![u] = t]
      /\ UNCHANGED <<serial, blocks, club, seats, chat, base, adrift>>
      /\ clubTx[u] = NoClubTx /\ (serial => \A w \in Clerks : clubTx[w] = NoClubTx)
  BY ClubMayBegin DEF BeginClub
<1>2. /\ t \in ClubRequest /\ t.op = op /\ t.on = v /\ (op # "enter" => t.count = club.count)
      /\ t.room = club.room /\ t.next \in {"me", "seat"} /\ t.row = "absent" /\ t.lost = {}
  <2>1. club.count \in Nat /\ club.room \in Nat BY DEF ClubInv, ClubTyped, ClubRow
  <2> QED BY <2>1 DEF NoClubTx, ClubRequest, RowStatus, ConvStatus
<1> HIDE DEF t
<1>3. Sound(u, t)
  BY <1>2 DEF Sound, RowTrue, ClubInv, NoRoomNobody
<1> QED BY <1>1, <1>2, <1>3, ClubReads

\* What the one open request rests on, while it reads.
LEMMA ClubReader ==
  ASSUME ClubInv, NEW u \in Clerks, clubTx[u] # NoClubTx
  PROVE  /\ club.status # "absent" /\ clubTx[u] \in ClubRequest /\ Sound(u, clubTx[u])
         /\ serial => /\ \A v \in Clerks \ {u} : clubTx[v] = NoClubTx
                      /\ clubTx[u].op # "enter" => clubTx[u].count = club.count
                      /\ clubTx[u].lost = {}
BY DEF ClubInv, ClubTyped, ClubAlone

LEMMA ClubReadKeeps ==
  ASSUME ClubInv, NEW u \in Clerks,
         ReadMe(u) \/ ReadSeats(u) \/ ReadConv(u) \/ ReadChat(u)
  PROVE  ClubInv'
<1> DEFINE t == clubTx[u]
           found == IF t.op = "dissolve" THEN {v \in Members : Joined(v)} ELSE {}
           after == IF t.op \in {"leave", "kick"} THEN "chat" ELSE "conv"
           conv == IF Current(t) THEN club.conv ELSE "none"
           row == IF Current(t) /\ t.on \in Members THEN chat[t.on] ELSE "absent"
           rows == IF Current(t) /\ t.op = "dissolve"
                   THEN {v \in Members : chat[v] \in {"active", "kicked"}} ELSE {}
<1>1. clubTx[u] # NoClubTx
  BY NoClubRequest DEF ReadMe, ReadSeats, ReadConv, ReadChat
<1>2. t \in ClubRequest /\ Sound(u, t) BY <1>1, ClubReader
<1>3. ASSUME NEW s \in ClubRequest, clubTx' = [clubTx EXCEPT ![u] = s], Sound(u, s),
             UNCHANGED <<serial, club, seats, chat, base, adrift>>,
             s.op = t.op, s.count = t.count, s.lost = t.lost
      PROVE  ClubInv'
  BY <1>1, <1>3, ClubReader, ClubReads
<1>4. CASE ReadMe(u)
  <2> DEFINE s == [t EXCEPT !.next = "seat"]
  <2>1. /\ s \in ClubRequest /\ s.op = t.op /\ s.on = t.on /\ s.count = t.count /\ s.room = t.room
        /\ s.lost = t.lost /\ s.row = t.row /\ s.next = "seat"
    BY <1>2 DEF ClubRequest
  <2>2. clubTx' = [clubTx EXCEPT ![u] = s] BY <1>4 DEF ReadMe
  <2> HIDE DEF s, t
  <2>3. Sound(u, s) BY <1>2, <2>1 DEF Sound, RowTrue, About
  <2> QED BY <1>3, <1>4, <2>1, <2>2, <2>3 DEF ReadMe
<1>5. CASE ReadSeats(u)
  <2> DEFINE s == [t EXCEPT !.next = after, !.batch = found]
  <2>1. /\ Admits(u, t) /\ clubTx' = [clubTx EXCEPT ![u] = s]
        /\ UNCHANGED <<serial, club, seats, chat, base, adrift>>
    BY <1>5 DEF ReadSeats
  <2>2. found \in SUBSET Members /\ after \in {"chat", "conv"} OBVIOUS
  <2>3. t.op = "dissolve" => \A v \in Members : Joined(v) => v \in found OBVIOUS
  <2> HIDE DEF found, after
  <2>4. /\ s \in ClubRequest /\ s.op = t.op /\ s.on = t.on /\ s.count = t.count /\ s.room = t.room
        /\ s.lost = t.lost /\ s.row = t.row /\ s.next \in {"chat", "conv"} /\ s.batch = found
    BY <1>2, <2>2 DEF ClubRequest
  <2> HIDE DEF s, t
  <2>5. Sound(u, s)
    <3>1. t.op = "join" => t.on = u /\ ~Joined(u) BY <1>2, <2>1 DEF Admits, Joined, Sound
    <3>2. t.op \in {"leave", "enter"} => Joined(u) BY <2>1 DEF Admits
    <3>3. t.op = "kick" => Joined(t.on) BY <2>1 DEF Admits
    <3>4. t.op = "enter" => t.on = u BY <1>2 DEF Sound
    <3>5. t.op = "leave" => t.on = u BY <1>2 DEF Sound
    <3>6. ASSUME NEW v \in (Members \cap About(s)) \ s.lost PROVE RowTrue(s, v)
      <4>1. RowTrue(t, v) /\ (t.op # "dissolve" => v = t.on)
        BY <1>2, <2>4, <3>6 DEF Sound, About
      <4> QED BY <2>3, <2>4, <3>1, <3>3, <3>4, <3>2, <3>5, <4>1 DEF RowTrue
    <3> QED BY <1>2, <2>4, <3>6 DEF Sound
  <2> QED BY <1>3, <2>1, <2>4, <2>5
<1>6. CASE ReadConv(u)
  <2> DEFINE s == [t EXCEPT !.next = "chat", !.conv = conv]
  <2>1. /\ t.next = "conv" /\ clubTx' = [clubTx EXCEPT ![u] = s]
        /\ UNCHANGED <<serial, club, seats, chat, base, adrift>>
    BY <1>6 DEF ReadConv
  <2>2. conv \in ConvStatus BY DEF ClubInv, ClubTyped, ClubRow, ConvStatus
  <2> HIDE DEF conv
  <2>3. /\ s \in ClubRequest /\ s.op = t.op /\ s.on = t.on /\ s.count = t.count /\ s.room = t.room
        /\ s.lost = t.lost /\ s.row = t.row /\ s.next = "chat" /\ s.batch = t.batch
    BY <1>2, <2>2 DEF ClubRequest
  <2> HIDE DEF s, t
  <2>4. Sound(u, s) BY <1>2, <2>1, <2>3 DEF Sound, RowTrue, About
  <2> QED BY <1>3, <2>1, <2>3, <2>4
<1>7. CASE ReadChat(u)
  <2> DEFINE s == [t EXCEPT !.next = "done", !.row = row, !.rows = rows]
  <2>1. /\ t.next = "chat" /\ clubTx' = [clubTx EXCEPT ![u] = s]
        /\ UNCHANGED <<serial, club, seats, chat, base, adrift>>
    BY <1>7 DEF ReadChat
  <2>2. row \in RowStatus /\ rows \in SUBSET Members BY DEF ClubInv, ClubTyped, RowStatus
  <2>3. /\ Current(t) /\ t.on \in Members => row = chat[t.on]
        /\ ~Current(t) => row = "absent"
        /\ Current(t) /\ t.op = "dissolve" =>
             \A v \in Members : chat[v] \in {"active", "kicked"} => v \in rows
    OBVIOUS
  <2> HIDE DEF row, rows
  <2>4. /\ s \in ClubRequest /\ s.op = t.op /\ s.on = t.on /\ s.count = t.count /\ s.room = t.room
        /\ s.lost = t.lost /\ s.row = row /\ s.next = "done" /\ s.batch = t.batch /\ s.rows = rows
    BY <1>2, <2>2 DEF ClubRequest
  <2> HIDE DEF s, t
  <2>5. ASSUME NEW v \in (Members \cap About(s)) \ s.lost PROVE RowTrue(s, v)
    <3>1. RowTrue(t, v) /\ (t.op # "dissolve" => v = t.on)
      BY <1>2, <2>4, <2>5 DEF Sound, About
    <3>2. ~Current(t) => chat[v] = "absent" BY <3>1 DEF RowTrue, Current
    <3> QED BY <2>1, <2>3, <2>4, <3>1, <3>2 DEF RowTrue
  <2>6. IF s.room = 0 THEN s.row = "absent" ELSE club.room # 0
    BY <1>2, <2>3, <2>4 DEF Current, Sound
  <2> QED BY <1>2, <1>3, <2>1, <2>4, <2>5, <2>6 DEF Sound
<1> QED BY <1>4, <1>5, <1>6, <1>7

\* _ensure_conversation: nobody's row changes but t.on's, unless it makes one.
LEMMA Enters ==
  ASSUME ClubInv, NEW u \in Clerks, clubTx[u].op \in {"join", "enter"}
  PROVE  LET t == clubTx[u] IN
         /\ ConvWith(t) \in ClubRow /\ ConvWith(t).count = club.count
         /\ ConvWith(t).status = club.status /\ ConvWith(t).room # 0
         /\ ConvWith(t).room = club.room \/ club.room = 0 \/ Wrote(t) = Members
         /\ ChatWith(t) \in [Members -> RowStatus]
         /\ \A v \in Members \ {t.on} :
              ChatWith(t)[v] = IF Makes(t) THEN "absent" ELSE chat[v]
         /\ \A v \in Members \ Wrote(t) : ChatWith(t)[v] = chat[v]
         /\ t.on = u /\ u \in Wrote(t) /\ Wrote(t) \in SUBSET Members
         /\ Stranded(t) \subseteq Members
<1> DEFINE t == clubTx[u]
<1>1. /\ t \in ClubRequest /\ Sound(u, t) /\ t.on = u /\ u \in Members
      /\ club \in ClubRow /\ chat \in [Members -> RowStatus]
  BY DEF ClubInv, ClubTyped, Sound
<1> HIDE DEF t
<1>2. Makes(t) \/ (t.room # 0 /\ club.room # 0) BY <1>1 DEF Sound, Makes
<1>3. /\ ConvWith(t) \in ClubRow /\ ConvWith(t).count = club.count
      /\ ConvWith(t).status = club.status /\ ConvWith(t).room # 0
      /\ ~Makes(t) => ConvWith(t).room = club.room
  <2>1. WrittenBack(club.conv, t.conv, "active") \in ConvStatus
    BY <1>1 DEF WrittenBack, ClubRow, ConvStatus
  <2>2. CASE Makes(t)
    <3>1. club.room + 1 \in Nat /\ club.room + 1 # 0 /\ "active" \in ConvStatus
      BY <1>1 DEF ClubRow, ConvStatus
    <3>2. ConvWith(t) = [club EXCEPT !.room = @ + 1, !.conv = "active"] BY <2>2 DEF ConvWith
    <3> QED BY <1>1, <2>2, <3>1, <3>2 DEF ClubRow
  <2>3. CASE ~Makes(t)
    <3>1. ConvWith(t) \in {club, [club EXCEPT !.conv = WrittenBack(@, t.conv, "active")]}
      BY <2>3 DEF ConvWith
    <3> DEFINE conv == WrittenBack(club.conv, t.conv, "active")
    <3>2. ConvWith(t) \in {club, [club EXCEPT !.conv = conv]} BY <3>1
    <3>3. conv \in ConvStatus BY <2>1
    <3> HIDE DEF conv
    <3> QED BY <1>1, <1>2, <2>3, <3>2, <3>3 DEF ClubRow
  <2> QED BY <2>2, <2>3
<1>4. /\ Wrote(t) \in SUBSET Members /\ u \in Wrote(t)
      /\ Makes(t) => club.room = 0 \/ Wrote(t) = Members
  BY <1>1 DEF Wrote, Replaces
<1>5. WrittenBack(chat[u], t.row, "active") \in RowStatus
  BY <1>1 DEF WrittenBack, RowStatus
<1>6. /\ ChatWith(t) \in [Members -> RowStatus]
      /\ \A v \in Members \ {u} : ChatWith(t)[v] = IF Makes(t) THEN "absent" ELSE chat[v]
  BY <1>1, <1>5 DEF ChatWith, RowStatus
<1>7. ASSUME NEW v \in Members \ Wrote(t) PROVE ChatWith(t)[v] = chat[v]
  <2>1. v # u /\ (Makes(t) => club.room = 0) BY <1>4, <1>7
  <2>2. Makes(t) => chat[v] = "absent" BY <2>1 DEF ClubInv, NoRoomNobody
  <2> QED BY <1>6, <2>1, <2>2
<1>8. Stranded(t) \subseteq Members BY DEF Stranded
<1> QED BY <1>1, <1>3, <1>4, <1>6, <1>7, <1>8 DEF t

\* The row of whoever enters, unless the request has been overtaken on it.
LEMMA EntersActive ==
  ASSUME ClubInv, NEW u \in Clerks, clubTx[u].op \in {"join", "enter"},
         clubTx[u].next = "done", u \notin clubTx[u].lost
  PROVE  /\ ChatWith(clubTx[u])[u] = "active"
         /\ clubTx[u].op = "enter" => Joined(u)
<1> DEFINE t == clubTx[u]
<1>1. /\ t.on = u /\ u \in Members /\ u \in (Members \cap About(t)) \ t.lost
      /\ chat \in [Members -> RowStatus] /\ Sound(u, t)
  BY DEF ClubInv, ClubTyped, Sound, About
<1>2. RowTrue(t, u) BY <1>1 DEF Sound
<1> HIDE DEF t
<1>3. clubTx[u] = t BY DEF t
<1> QED BY <1>1, <1>2, <1>3 DEF RowTrue, ChatWith, Makes, WrittenBack

LEMMA JoinClubKeeps ==
  ASSUME ClubInv, NEW u \in Members, CommitJoin(u)
  PROVE  ClubInv'
<1> DEFINE t == clubTx[u]
           with == ConvWith(t)
<1>1. /\ t.op = "join" /\ t.next = "done"
      /\ seats' = [seats EXCEPT ![u] = [status |-> "active", role |-> "member"]]
      /\ chat' = ChatWith(t)
      /\ adrift' = ((adrift \cup Stranded(t)) \ {u}) \cup t.lost
      /\ club' = [with EXCEPT !.count = t.count + 1]
      /\ EndClub(u, Wrote(t))
      /\ UNCHANGED <<serial, blocks, base>>
  BY DEF CommitJoin
<1>2. t # NoClubTx /\ u \in Clerks /\ t \in ClubRequest
  BY <1>1, NoClubRequest DEF Clerks, ClubInv, ClubTyped
<1>3. /\ with \in ClubRow /\ with.status = club.status /\ with.room # 0
      /\ with.room = club.room \/ club.room = 0 \/ Wrote(t) = Members
      /\ chat' \in [Members -> RowStatus]
      /\ \A v \in Members \ {u} : chat'[v] = IF Makes(t) THEN "absent" ELSE chat[v]
      /\ \A v \in Members \ Wrote(t) : chat'[v] = chat[v]
      /\ u \in Wrote(t) /\ Wrote(t) \in SUBSET Members /\ Stranded(t) \subseteq Members
  BY <1>1, <1>2, Enters
<1>4. u \notin t.lost => chat'[u] = "active" BY <1>1, <1>2, EntersActive
<1> HIDE DEF with
<1>5. /\ club' \in ClubRow /\ club'.count = t.count + 1 /\ club'.status = club.status
      /\ club'.room = with.room
  <2>1. t.count + 1 \in Nat BY <1>2 DEF ClubRequest
  <2> HIDE DEF t
  <2> QED BY <1>1, <1>3, <2>1 DEF ClubRow
<1>6. /\ seats' \in [Members -> Seats]
      /\ \A v \in Members : Joined(v)' <=> v = u \/ Joined(v)
  BY <1>1 DEF ClubInv, ClubTyped, Joined, RowStatus, Seats
<1>7. adrift' \subseteq Members /\ base' \in {0, SeededCount}
  BY <1>1, <1>2, <1>3 DEF ClubInv, ClubTyped, ClubRequest
<1>8. ChatIsTheClub'
  <2>1. ASSUME NEW v \in Members \ adrift', v # u PROVE chat'[v] = "active" <=> Joined(v)'
    <3>1. v \notin adrift /\ v \notin Stranded(t) BY <1>1, <2>1
    <3>2. chat[v] = "active" <=> Joined(v) BY <3>1 DEF ClubInv, ChatIsTheClub
    <3>3. Makes(t) => chat[v] # "active" BY <1>1, <2>1, <3>1, <1>2, Enters DEF Stranded
    <3> QED BY <1>3, <1>6, <2>1, <3>2, <3>3
  <2>2. ASSUME u \notin adrift' PROVE chat'[u] = "active" /\ Joined(u)'
    BY <1>1, <1>4, <1>6, <2>2
  <2> QED BY <2>1, <2>2 DEF ChatIsTheClub
<1>9. CountHolds'
  <2>1. ASSUME serial PROVE IsFiniteSet(JoinedNow)' /\ (club.count = base + Cardinality(JoinedNow))'
    <3>1. t.count = club.count /\ t.lost = {} /\ t.on = u
      BY <1>1, <1>2, <2>1, ClubReader DEF Sound
    <3>2. RowTrue(t, u) BY <1>2, <3>1, ClubReader DEF Sound, About
    <3>3. IsFiniteSet(JoinedNow) /\ t.count = base + Cardinality(JoinedNow) /\ u \notin JoinedNow
      BY <1>1, <2>1, <3>1, <3>2 DEF ClubInv, CountHolds, JoinedNow, RowTrue
    <3>4. JoinedNow' = JoinedNow \cup {u} BY <1>6 DEF JoinedNow
    <3> DEFINE S == JoinedNow
    <3> HIDE DEF S
    <3>5. /\ IsFiniteSet(S \cup {u}) /\ Cardinality(S) \in Nat
          /\ Cardinality(S \cup {u}) = Cardinality(S) + 1
      BY <3>3, JoinedChanges DEF S
    <3>6. base \in Nat BY DEF ClubInv, ClubTyped
    <3>7. JoinedNow' = S \cup {u} /\ t.count = base + Cardinality(S) BY <3>3, <3>4 DEF S
    <3> HIDE DEF t
    <3> QED BY <1>1, <1>5, <3>5, <3>6, <3>7
  <2> QED BY <1>1, <2>1 DEF CountHolds
<1>10. NoRoomNobody' BY <1>3, <1>5 DEF NoRoomNobody
<1>11. \A v \in Members \ Wrote(t) : (Joined(v)' <=> Joined(v)) /\ chat'[v] = chat[v]
  BY <1>3, <1>6
<1> HIDE DEF t
<1>12. /\ clubTx[u] # NoClubTx /\ EndClub(u, Wrote(t)) /\ serial' = serial
       /\ club'.room = club.room \/ club.room = 0 \/ Wrote(t) = Members
       /\ club.room # 0 => club'.room # 0
  BY <1>1, <1>2, <1>3, <1>5 DEF t
<1> QED BY <1>2, <1>3, <1>5, <1>6, <1>7, <1>8, <1>9, <1>10, <1>11, <1>12, ClubEnds

LEMMA EnterKeeps ==
  ASSUME ClubInv, NEW u \in Members, CommitEnter(u)
  PROVE  ClubInv'
<1> DEFINE t == clubTx[u]
<1>1. /\ t.op = "enter" /\ t.next = "done"
      /\ chat' = ChatWith(t) /\ club' = ConvWith(t)
      /\ IF t.row = "active" THEN adrift' = adrift /\ EndClub(u, {})
         ELSE /\ adrift' = ((adrift \cup Stranded(t)) \ {u}) \cup t.lost
              /\ EndClub(u, Wrote(t))
      /\ UNCHANGED <<serial, blocks, seats, base>>
  BY DEF CommitEnter
<1>2. t # NoClubTx /\ u \in Clerks /\ t \in ClubRequest /\ Sound(u, t)
  BY <1>1, NoClubRequest DEF Clerks, ClubInv, ClubTyped
<1>3. /\ club' \in ClubRow /\ club'.count = club.count /\ club'.status = club.status
      /\ club'.room # 0 /\ (club'.room = club.room \/ club.room = 0 \/ Wrote(t) = Members)
      /\ chat' \in [Members -> RowStatus] /\ t.on = u
      /\ \A v \in Members \ {u} : chat'[v] = IF Makes(t) THEN "absent" ELSE chat[v]
      /\ \A v \in Members \ Wrote(t) : chat'[v] = chat[v]
      /\ u \in Wrote(t) /\ Wrote(t) \in SUBSET Members /\ Stranded(t) \subseteq Members
  BY <1>1, <1>2, Enters
<1>4. u \notin t.lost => chat'[u] = "active" /\ Joined(u) BY <1>1, <1>2, EntersActive
<1>5. /\ seats' \in [Members -> Seats] /\ base' \in {0, SeededCount}
      /\ \A v \in Members : Joined(v)' <=> Joined(v)
  BY <1>1 DEF ClubInv, ClubTyped, Joined
<1>6. CountHolds' BY <1>1, <1>3, <1>5 DEF ClubInv, CountHolds, JoinedNow, Joined
<1>7. NoRoomNobody' BY <1>3 DEF NoRoomNobody
<1>8. CASE t.row = "active"
  <2>1. ~Makes(t) BY <1>2, <1>8 DEF Sound, Makes
  <2>2. chat' = chat
    <3>1. chat \in [Members -> RowStatus] BY DEF ClubInv, ClubTyped
    <3>2. chat'[u] = chat[u]
      BY <1>1, <1>3, <1>8, <2>1, <3>1 DEF ChatWith, WrittenBack, Makes
    <3> QED BY <1>3, <2>1, <3>1, <3>2
  <2>3. club'.room = club.room BY <1>1, <2>1 DEF ConvWith, Makes, ClubInv, ClubTyped, ClubRow
  <2>4. adrift' = adrift /\ EndClub(u, {}) BY <1>1, <1>8
  <2>5. ChatIsTheClub' BY <1>5, <2>2, <2>4 DEF ClubInv, ChatIsTheClub
  <2>6. adrift' \subseteq Members /\ {} \in SUBSET Members BY <2>4 DEF ClubInv, ClubTyped
  <2> QED BY <1>1, <1>2, <1>3, <1>5, <1>6, <1>7, <2>2, <2>3, <2>4, <2>5, <2>6, ClubEnds
<1>9. CASE t.row # "active"
  <2>1. adrift' = ((adrift \cup Stranded(t)) \ {u}) \cup t.lost /\ EndClub(u, Wrote(t))
    BY <1>1, <1>9
  <2>2. adrift' \subseteq Members
    BY <1>2, <1>3, <2>1 DEF ClubInv, ClubTyped, ClubRequest
  <2>3. ASSUME NEW v \in Members \ adrift', v # u PROVE chat'[v] = "active" <=> Joined(v)'
    <3>1. v \notin adrift /\ v \notin Stranded(t) BY <2>1, <2>3
    <3>2. chat[v] = "active" <=> Joined(v) BY <3>1 DEF ClubInv, ChatIsTheClub
    <3>3. Makes(t) => chat[v] # "active" BY <1>3, <2>3, <3>1 DEF Stranded
    <3> QED BY <1>3, <1>5, <2>3, <3>2, <3>3
  <2>4. ASSUME u \notin adrift' PROVE chat'[u] = "active" /\ Joined(u)'
    BY <1>4, <1>5, <2>1, <2>4
  <2>5. ChatIsTheClub' BY <2>3, <2>4 DEF ChatIsTheClub
  <2>6. \A v \in Members \ Wrote(t) : (Joined(v)' <=> Joined(v)) /\ chat'[v] = chat[v]
    BY <1>3, <1>5
  <2> HIDE DEF t
  <2>7. clubTx[u] # NoClubTx /\ serial' = serial BY <1>1, <1>2 DEF t
  <2> QED BY <1>2, <1>3, <1>5, <1>6, <1>7, <2>1, <2>2, <2>5, <2>6, <2>7, ClubEnds
<1> QED BY <1>8, <1>9

LEMMA DropKeeps ==
  ASSUME ClubInv, NEW u \in Clerks, CommitDrop(u)
  PROVE  ClubInv'
<1> DEFINE t == clubTx[u]
           to == IF t.op = "kick" THEN "kicked" ELSE "left"
           n == WrittenBack(club.count, t.count, Less(t.count))
<1>1. /\ t.op \in {"leave", "kick"} /\ t.next = "done"
      /\ seats' = [seats EXCEPT ![t.on].status = to]
      /\ chat' = IF Current(t) /\ t.row # "absent"
                 THEN [chat EXCEPT ![t.on] = WrittenBack(@, t.row, to)] ELSE chat
      /\ adrift' = (adrift \ {t.on}) \cup t.lost
      /\ club' = [club EXCEPT !.count = n]
      /\ EndClub(u, {t.on})
      /\ UNCHANGED <<serial, blocks, base>>
  BY DEF CommitDrop, Dropped
<1>2. /\ t # NoClubTx /\ t \in ClubRequest /\ Sound(u, t) /\ to \in {"kicked", "left"}
  BY <1>1, NoClubRequest DEF ClubInv, ClubTyped
<1>3. /\ club' \in ClubRow /\ club'.count = n /\ club'.room = club.room
      /\ club'.status = club.status
  <2>1. n \in Nat BY <1>2 DEF ClubRequest, Less, WrittenBack, ClubInv, ClubTyped, ClubRow
  <2> HIDE DEF n
  <2> QED BY <1>1, <2>1 DEF ClubInv, ClubTyped, ClubRow
<1>4. PICK v \in Members : v = t.on BY <1>1, <1>2 DEF Sound
<1> HIDE DEF to
<1>5. /\ seats' \in [Members -> Seats]
      /\ \A w \in Members : Joined(w)' <=> w # v /\ Joined(w)
  BY <1>1, <1>2, <1>4 DEF ClubInv, ClubTyped, Joined, RowStatus, Seats
<1>6. /\ chat' \in [Members -> RowStatus]
      /\ \A w \in Members : w # v => chat'[w] = chat[w]
      /\ \A w \in Members : chat[w] = "absent" /\ ~Current(t) => chat'[w] = "absent"
  BY <1>1, <1>2, <1>4 DEF ClubInv, ClubTyped, RowStatus, WrittenBack
<1>7. v \notin t.lost => chat'[v] # "active" /\ Joined(v)
  <2>1. ASSUME v \notin t.lost PROVE RowTrue(t, v)
    BY <1>1, <1>2, <1>4, <2>1 DEF Sound, About
  <2>2. ASSUME v \notin t.lost PROVE t.row = chat[v] /\ Joined(v) /\ Current(t)
    BY <1>1, <2>1, <2>2 DEF RowTrue, Current
  <2> QED BY <1>1, <1>2, <1>4, <2>2 DEF WrittenBack, ClubInv, ClubTyped
<1>8. adrift' \subseteq Members /\ base' \in {0, SeededCount}
  BY <1>1, <1>2 DEF ClubInv, ClubTyped, ClubRequest
<1>9. ChatIsTheClub'
  BY <1>1, <1>4, <1>5, <1>6, <1>7 DEF ClubInv, ChatIsTheClub
<1>10. CountHolds'
  <2>1. ASSUME serial PROVE IsFiniteSet(JoinedNow)' /\ (club.count = base + Cardinality(JoinedNow))'
    <3> DEFINE S == JoinedNow
    <3>1. t.count = club.count /\ t.lost = {} BY <1>1, <1>2, <2>1, ClubReader
    <3>2. IsFiniteSet(S) /\ t.count = base + Cardinality(S) /\ v \in S
      BY <1>7, <2>1, <3>1 DEF ClubInv, CountHolds, JoinedNow
    <3>3. JoinedNow' = S \ {v} BY <1>5 DEF JoinedNow
    <3> HIDE DEF S
    <3>4. /\ IsFiniteSet(S \ {v}) /\ Cardinality(S) \in Nat /\ Cardinality(S) > 0
          /\ Cardinality(S \ {v}) = Cardinality(S) - 1
      BY <3>2, JoinedChanges
    <3>5. base \in Nat BY DEF ClubInv, ClubTyped
    <3>6. n = Less(t.count) BY <3>1 DEF WrittenBack
    <3> HIDE DEF n, t
    <3>7. Less(t.count) = base + Cardinality(S \ {v}) BY <3>2, <3>4, <3>5 DEF Less
    <3> QED BY <1>1, <1>3, <3>3, <3>4, <3>6, <3>7
  <2> QED BY <1>1, <2>1 DEF CountHolds
<1>11. NoRoomNobody'
  <2>1. ASSUME club'.room = 0 PROVE club.room = 0 /\ ~Current(t)
    BY <1>3, <2>1 DEF Current
  <2>2. club'.conv = club.conv BY <1>1 DEF ClubInv, ClubTyped, ClubRow
  <2> QED BY <1>5, <1>6, <2>1, <2>2 DEF ClubInv, NoRoomNobody
<1>12. /\ clubTx[u] # NoClubTx /\ EndClub(u, {v}) /\ serial' = serial
       /\ {v} \in SUBSET Members
       /\ \A w \in Members \ {v} : (Joined(w)' <=> Joined(w)) /\ chat'[w] = chat[w]
  BY <1>1, <1>2, <1>4, <1>5, <1>6
<1> HIDE DEF n, t
<1> QED BY <1>3, <1>5, <1>6, <1>8, <1>9, <1>10, <1>11, <1>12, ClubEnds

LEMMA DisbandKeeps ==
  ASSUME ClubInv, NEW u \in Clerks, CommitDisband(u)
  PROVE  ClubInv'
<1> DEFINE t == clubTx[u]
           n == WrittenBack(club.count, t.count, 0)
           conv == IF Current(t) THEN WrittenBack(club.conv, t.conv, "dissolved") ELSE club.conv
<1>1. /\ t.op = "dissolve" /\ t.next = "done" /\ serial' = serial /\ base' = 0
      /\ seats' = Disbanded(t.batch)
      /\ chat' = [v \in Members |-> IF Current(t) /\ v \in t.rows THEN "left" ELSE chat[v]]
      /\ club' = [club EXCEPT !.status = "dissolved", !.count = n, !.conv = conv]
      /\ adrift' = t.lost
      /\ EndClub(u, t.batch \cup t.rows)
  BY DEF CommitDisband
<1>2. t # NoClubTx /\ t \in ClubRequest /\ Sound(u, t)
  BY <1>1, NoClubRequest DEF ClubInv, ClubTyped
<1>3. /\ club' \in ClubRow /\ club'.count = n /\ club'.room = club.room
      /\ club'.status = "dissolved" /\ club'.conv = conv
  <2>1. n \in Nat /\ conv \in ConvStatus /\ club \in ClubRow
    BY DEF ClubInv, ClubTyped, ClubRow, ConvStatus, WrittenBack
  <2> HIDE DEF n, conv
  <2> QED BY <1>1, <2>1 DEF ClubRow
<1>4. /\ seats' \in [Members -> Seats]
      /\ \A v \in Members : Joined(v)' <=> v \notin t.batch /\ Joined(v)
  BY <1>1 DEF ClubInv, ClubTyped, Joined, RowStatus, Seats, Disbanded
<1>5. /\ chat' \in [Members -> RowStatus]
      /\ \A v \in Members : chat'[v] = IF Current(t) /\ v \in t.rows THEN "left" ELSE chat[v]
  BY <1>1 DEF ClubInv, ClubTyped, RowStatus
<1>6. ASSUME NEW v \in Members \ t.lost PROVE chat'[v] # "active" /\ ~(Joined(v)')
  <2>1. RowTrue(t, v) BY <1>1, <1>2, <1>6 DEF Sound, About
  <2>2. chat[v] = "active" => Current(t) /\ v \in t.rows
    BY <1>1, <2>1 DEF RowTrue, Current
  <2>3. Joined(v) => v \in t.batch BY <1>1, <2>1 DEF RowTrue
  <2> QED BY <1>4, <1>5, <2>2, <2>3
<1>7. adrift' \subseteq Members /\ base' \in {0, SeededCount}
  BY <1>1, <1>2 DEF ClubInv, ClubTyped, ClubRequest
<1>8. ChatIsTheClub' BY <1>1, <1>6 DEF ChatIsTheClub
<1>9. CountHolds'
  <2>1. ASSUME serial PROVE IsFiniteSet(JoinedNow)' /\ (club.count = base + Cardinality(JoinedNow))'
    <3>1. t.count = club.count /\ t.lost = {}
      BY <1>1, <1>2, <2>1, ClubReader
    <3>2. JoinedNow' = {} BY <1>6, <3>1 DEF JoinedNow
    <3>3. club'.count = 0 BY <1>3, <3>1 DEF WrittenBack
    <3>4. IsFiniteSet({}) /\ Cardinality({}) = 0 BY FS_EmptySet
    <3> QED BY <1>1, <3>2, <3>3, <3>4
  <2> QED BY <1>1, <2>1 DEF CountHolds
<1>10. NoRoomNobody'
  <2>1. ASSUME club'.room = 0 PROVE club.room = 0 /\ ~Current(t)
    BY <1>3, <2>1 DEF Current
  <2> QED BY <1>3, <1>4, <1>5, <2>1 DEF ClubInv, NoRoomNobody
<1>11. /\ t.batch \cup t.rows \in SUBSET Members
       /\ \A v \in Members \ (t.batch \cup t.rows) : (Joined(v)' <=> Joined(v)) /\ chat'[v] = chat[v]
  BY <1>2, <1>4, <1>5 DEF ClubRequest
<1> DEFINE S == t.batch \cup t.rows
<1>12. EndClub(u, S) /\ clubTx[u] # NoClubTx BY <1>1, <1>2
<1>13. S \in SUBSET Members /\ \A v \in Members \ S : (Joined(v)' <=> Joined(v)) /\ chat'[v] = chat[v]
  BY <1>11
<1> HIDE DEF n, conv, t, S
<1> QED BY <1>1, <1>3, <1>4, <1>5, <1>7, <1>8, <1>9, <1>10, <1>12, <1>13, ClubEnds

LEMMA AbortClubKeeps ==
  ASSUME ClubInv, NEW u \in Clerks, AbortClub(u)
  PROVE  ClubInv'
<1>1. /\ clubTx[u] # NoClubTx /\ EndClub(u, {})
      /\ UNCHANGED <<serial, blocks, club, seats, chat, base, adrift>>
  BY DEF AbortClub
<1>2. ChatIsTheClub' /\ CountHolds' /\ NoRoomNobody'
  BY <1>1 DEF ClubInv, ChatIsTheClub, CountHolds, JoinedNow, Joined, NoRoomNobody
<1>3. {} \in SUBSET Members /\ \A v \in Members : Joined(v)' <=> Joined(v)
  BY <1>1 DEF Joined
<1> QED BY <1>1, <1>2, <1>3, ClubEnds DEF ClubInv, ClubTyped

LEMMA SetStatusKeeps ==
  ASSUME ClubInv, NEW from, NEW to \in {"active", "hidden"}, SetClubStatus(from, to)
  PROVE  ClubInv'
<1>1. /\ MayBegin(clubTx, "ops", NoClubTx) /\ "ops" \in Clerks
      /\ club' = [club EXCEPT !.status = to]
      /\ UNCHANGED <<serial, blocks, seats, chat, base, adrift, clubTx>>
  BY DEF SetClubStatus, Clerks
<1>2. /\ club' \in ClubRow /\ club'.count = club.count /\ club'.conv = club.conv
      /\ club'.room = club.room /\ club'.status # "absent"
  BY <1>1 DEF ClubInv, ClubTyped, ClubRow
<1>3. \A v : Joined(v)' <=> Joined(v) BY <1>1 DEF Joined
<1>4. ChatIsTheClub' /\ CountHolds' /\ NoRoomNobody'
  BY <1>1, <1>2, <1>3 DEF ClubInv, ChatIsTheClub, CountHolds, JoinedNow, Joined, NoRoomNobody
<1>5. \A w \in Clerks : Sound(w, clubTx[w])'
  BY <1>1, <1>2, <1>3 DEF ClubInv, Sound, RowTrue, About, Joined
<1>6. serial' => \A w \in Clerks : clubTx'[w] = NoClubTx BY <1>1, ClubMayBegin
<1> QED BY <1>1, <1>2, <1>4, <1>5, <1>6 DEF ClubInv, ClubTyped

LEMMA MeddleKeeps ==
  ASSUME ClubInv, NEW u \in Members, NEW v \in Members, MeddleInChat(u, v)
  PROVE  ClubInv'
<1>1. /\ MayBegin(clubTx, u, NoClubTx) /\ u \in Clerks /\ club.conv = "active"
      /\ chat' = [chat EXCEPT ![v] = IF @ = "active" THEN "kicked" ELSE "active"]
      /\ adrift' = adrift \cup {v}
      /\ clubTx' = Overtaken({v})
      /\ UNCHANGED <<serial, blocks, club, seats, base>>
  BY DEF MeddleInChat, Clerks
<1> DEFINE Later(t) == [t EXCEPT !.lost = @ \cup ({v} \cap About(t) \cap Members)]
<1>2. /\ clubTx \in [Clerks -> ClubRequest] /\ clubTx' = [w \in Clerks |-> Later(clubTx[w])]
      /\ \A t \in ClubRequest : Later(t) \in ClubRequest
  BY <1>1 DEF ClubInv, ClubTyped, Overtaken, ClubRequest
<1>3. Later(NoClubTx) = NoClubTx
  <2>1. {v} \cap About(NoClubTx) \cap Members = {} BY NoClubRequest
  <2>2. Later(NoClubTx) = [NoClubTx EXCEPT !.lost = @ \cup {}] BY <2>1
  <2> QED BY <2>2 DEF NoClubTx
<1> HIDE DEF Later
<1>4. /\ clubTx' \in [Clerks -> ClubRequest] /\ \A w \in Clerks : clubTx'[w] = Later(clubTx[w])
      /\ serial => \A w \in Clerks : clubTx'[w] = NoClubTx
  BY <1>1, <1>2, <1>3, ClubMayBegin
<1>5. \A w \in Clerks :
        clubTx'[w] = [clubTx[w] EXCEPT !.lost = @ \cup ({v} \cap About(clubTx[w]) \cap Members)]
  BY <1>4 DEF Later
<1>6. /\ chat' \in [Members -> RowStatus]
      /\ \A w \in Members : w # v => chat'[w] = chat[w]
  BY <1>1 DEF ClubInv, ClubTyped, RowStatus
<1>7. \A w : Joined(w)' <=> Joined(w) BY <1>1 DEF Joined
<1>8. ChatIsTheClub' BY <1>1, <1>6, <1>7 DEF ClubInv, ChatIsTheClub
<1>9. CountHolds' BY <1>1, <1>7 DEF ClubInv, CountHolds, JoinedNow, Joined
<1>10. adrift' \subseteq Members /\ base' \in {0, SeededCount} /\ {v} \in SUBSET Members
  BY <1>1 DEF ClubInv, ClubTyped
<1>11. club.room # 0 BY <1>1 DEF ClubInv, NoRoomNobody
<1>12. NoRoomNobody' BY <1>1, <1>11 DEF NoRoomNobody
<1> DEFINE S == {v}
<1>13. /\ S \in SUBSET Members
       /\ \A w \in Members \ S : (Joined(w)' <=> Joined(w)) /\ chat'[w] = chat[w]
       /\ \A w \in Clerks :
            clubTx'[w] = [clubTx[w] EXCEPT !.lost = @ \cup (S \cap About(clubTx[w]) \cap Members)]
  BY <1>5, <1>6, <1>7, <1>10
<1>14. CASE club.status # "absent"
  <2> HIDE DEF S
  <2>1. /\ club' \in ClubRow /\ seats' \in [Members -> Seats] /\ serial' = serial
        /\ club'.room = club.room /\ club'.status # "absent"
    BY <1>1, <1>14 DEF ClubInv, ClubTyped
  <2>2. /\ clubTx' \in [Clerks -> ClubRequest]
        /\ serial => \A w \in Clerks : clubTx'[w] = NoClubTx
        /\ club.room # 0 => club'.room # 0
    BY <1>4, <2>1
  <2>3. \A w \in Clerks :
          \/ clubTx'[w] = NoClubTx
          \/ clubTx'[w] = [clubTx[w] EXCEPT !.lost = @ \cup (S \cap About(clubTx[w]) \cap Members)]
    BY <1>13
  <2> QED BY <1>6, <1>8, <1>9, <1>10, <1>12, <1>13, <2>1, <2>2, <2>3, ClubWrites
<1>15. CASE club.status = "absent"
  <2>1. \A w \in Clerks : clubTx[w] = NoClubTx BY <1>15 DEF ClubInv
  <2>2. \A w \in Clerks : clubTx'[w] = NoClubTx BY <1>3, <1>4, <2>1
  <2>3. \A w \in Clerks : Sound(w, clubTx[w])' BY <2>2, NoClubRequest DEF Sound, About
  <2>4. ClubTyped' BY <1>1, <1>4, <1>6, <1>10 DEF ClubInv, ClubTyped
  <2> QED BY <1>8, <1>9, <1>12, <2>2, <2>3, <2>4 DEF ClubInv
<1> QED BY <1>14, <1>15

LEMMA ClubInductive ==
  ASSUME ClubInv, [ClubsNext]_<<serial, blocks, clubVars>>
  PROVE  ClubInv'
<1>0. Members \subseteq Clerks /\ DOMAIN clubTx = Clerks
  BY DEF Clerks, ClubInv, ClubTyped
<1>1. CASE UNCHANGED <<serial, blocks, clubVars>>
  BY <1>1 DEF clubVars, ClubInv, ClubTyped, NoRoomNobody, ChatIsTheClub, CountHolds,
     ClubAlone, Sound, RowTrue, About, JoinedNow, Joined
<1>2. ASSUME NEW u \in Members,
             BeginJoin(u) \/ BeginExit(u) \/ BeginEnter(u) \/ \E v \in Members : BeginExpel(u, v)
      PROVE  ClubInv'
  BY <1>0, <1>2, ClubBegins DEF BeginJoin, BeginExit, BeginEnter, BeginExpel, Visible
<1>3. ASSUME NEW u \in Clerks, BeginDisband(u) PROVE ClubInv'
  BY <1>3, ClubBegins DEF BeginDisband, Visible, NoClub, ClubInv
<1>4. ASSUME Hide \/ Unhide PROVE ClubInv'
  BY <1>4, SetStatusKeeps DEF Hide, Unhide
<1> QED
  BY <1>0, <1>1, <1>2, <1>3, <1>4, CreateClubKeeps, JoinClubKeeps, EnterKeeps, DropKeeps,
     DisbandKeeps, AbortClubKeeps, ClubReadKeeps, MeddleKeeps DEF ClubsNext

LEMMA ClubInitially ==
  ASSUME RequestsInit, ClubsInit
  PROVE  ClubInv
<1>1. club \in ClubRow /\ club.count = base /\ club.conv = "none"
  BY DEF ClubsInit, NoClub, ClubRow, ConvStatus
<1>2. ClubTyped
  BY <1>1, NoClubRequest DEF ClubsInit, ClubTyped, NoSeat, RowStatus, Seats, Clerks
<1>3. JoinedNow = {} BY DEF ClubsInit, JoinedNow, Joined, NoSeat
<1>4. CountHolds
  <2>1. IsFiniteSet({}) /\ Cardinality({}) = 0 BY FS_EmptySet
  <2>2. base \in Nat BY DEF ClubsInit
  <2> QED BY <1>1, <1>3, <2>1, <2>2 DEF CountHolds
<1>5. NoRoomNobody /\ ChatIsTheClub
  BY <1>1 DEF ClubsInit, NoRoomNobody, ChatIsTheClub, Joined, NoSeat
<1>6. \A u \in Clerks : clubTx[u] = NoClubTx BY DEF ClubsInit, Clerks
<1>7. \A u \in Clerks : Sound(u, clubTx[u]) BY <1>6, NoClubRequest DEF Sound
<1> QED BY <1>2, <1>4, <1>5, <1>6, <1>7 DEF ClubInv

LEMMA ClubTypes == ASSUME ClubInv PROVE ClubsTypeOK
BY DEF ClubInv, ClubTyped, ClubRow, ConvStatus, RowStatus, Seats, ClubsTypeOK

-----------------------------------------------------------------------------
(***************************************************************************)
(* Guilds.  Whoever is in a consultation asked for it, or was the guild's  *)
(* owner, or was added to one (inside).  Nobody else is in two: a request  *)
(* to consult begins where there is none, and only it can add one.         *)
(***************************************************************************)
Consult == [asker : Members, owner : Members, in : SUBSET Members, hosts : SUBSET Members,
            open : BOOLEAN]
GuildRow == [status : {"active", "hidden"}, owner : Members \cup {"none"}]
GuildRequest == [op : {"idle", "follow", "unfollow", "chat"}, owner : Members \cup {"none"},
                 followed : BOOLEAN]

GuildTyped ==
  /\ guild \in GuildRow
  /\ follows \subseteq Members /\ inside \subseteq Members
  /\ consults \in Seq(Consult)
  /\ handed \in [Members -> Members \cup {"none"}]
  /\ guildTx \in [Members -> GuildRequest]

OwnersAreInside ==
  /\ guild.owner \in inside \cup {"none"}
  /\ \A u \in Members : guildTx[u].owner \in inside \cup {"none"}

OthersAsked ==
  \A i \in DOMAIN consults : consults[i].in \ inside \subseteq {consults[i].asker}

OneConsultation ==
  \A u \in Members \ inside :
    /\ handed[u] \in {u, "none"}
    /\ \A i, j \in Found(u) : i = j
    /\ guildTx[u].op = "chat" => Found(u) = {}

GuildInv == GuildTyped /\ OwnersAreInside /\ OthersAsked /\ OneConsultation

LEMMA NoGuildRequest ==
  NoGuildTx \in GuildRequest /\ NoGuildTx.op = "idle" /\ NoGuildTx.owner = "none"
BY DEF NoGuildTx, GuildRequest

\* A change of consultations that brings in nobody but insiders.
LEMMA ConsultsChange ==
  ASSUME GuildInv, guild' \in GuildRow, inside' \subseteq Members, inside \subseteq inside',
         guild'.owner \in inside' \cup {"none"},
         follows' \subseteq Members, UNCHANGED <<handed, guildTx>>,
         consults' \in Seq(Consult), Len(consults') = Len(consults),
         \A i \in DOMAIN consults :
           /\ consults'[i].asker = consults[i].asker
           /\ consults'[i].in \ inside' \subseteq consults[i].in
           /\ consults'[i].open => consults[i].open
  PROVE  GuildInv'
<1>1. DOMAIN consults = 1..Len(consults) /\ DOMAIN consults' = DOMAIN consults
  BY DEF GuildInv, GuildTyped
<1>2. GuildTyped' BY DEF GuildInv, GuildTyped
<1>3. OwnersAreInside' BY DEF GuildInv, OwnersAreInside
<1>4. OthersAsked' BY <1>1 DEF GuildInv, OthersAsked
<1>5. ASSUME NEW u \in Members \ inside' PROVE Found(u)' \subseteq Found(u)
  BY <1>1 DEF Found
<1>6. OneConsultation' BY <1>5 DEF GuildInv, OneConsultation
<1> QED BY <1>2, <1>3, <1>4, <1>6 DEF GuildInv

LEMMA GuildBegins ==
  ASSUME GuildInv, NEW u \in Members, NEW op \in {"follow", "unfollow", "chat"},
         BeginGuild(u, op), op = "chat" => Found(u) = {}
  PROVE  GuildInv'
<1> DEFINE t == [op |-> op, owner |-> guild.owner, followed |-> u \in follows]
<1>1. /\ guildTx' = [guildTx EXCEPT ![u] = t]
      /\ UNCHANGED <<serial, blocks, guild, follows, consults, handed, inside>>
  BY DEF BeginGuild
<1>2. t \in GuildRequest /\ t.op = op /\ t.owner = guild.owner
  BY DEF GuildInv, GuildTyped, GuildRow, GuildRequest
<1> HIDE DEF t
<1>3. \A w \in Members : guildTx'[w] = IF w = u THEN t ELSE guildTx[w]
  BY <1>1 DEF GuildInv, GuildTyped
<1>4. GuildTyped' BY <1>1, <1>2 DEF GuildInv, GuildTyped
<1>5. OwnersAreInside' /\ OthersAsked'
  BY <1>1, <1>2, <1>3 DEF GuildInv, OwnersAreInside, OthersAsked
<1>6. \A w : Found(w)' = Found(w) BY <1>1 DEF Found
<1>7. OneConsultation' BY <1>1, <1>2, <1>3, <1>6 DEF GuildInv, OneConsultation
<1> QED BY <1>4, <1>5, <1>7 DEF GuildInv

\* A request that ends without a new consultation.
LEMMA GuildEnds ==
  ASSUME GuildInv, NEW u \in Members, EndGuild(u), follows' \subseteq Members,
         UNCHANGED <<guild, consults, handed, inside>>
  PROVE  GuildInv'
<1>1. /\ guildTx' \in [Members -> GuildRequest]
      /\ \A w \in Members : guildTx'[w] = IF w = u THEN NoGuildTx ELSE guildTx[w]
  BY NoGuildRequest DEF EndGuild, GuildInv, GuildTyped
<1>2. GuildTyped' BY <1>1 DEF GuildInv, GuildTyped
<1>3. OwnersAreInside' /\ OthersAsked'
  BY <1>1, NoGuildRequest DEF GuildInv, OwnersAreInside, OthersAsked
<1>4. \A w : Found(w)' = Found(w) BY DEF Found
<1>5. OneConsultation' BY <1>1, <1>4, NoGuildRequest DEF GuildInv, OneConsultation
<1> QED BY <1>2, <1>3, <1>5 DEF GuildInv

LEMMA ConsultKeeps ==
  ASSUME GuildInv, NEW u \in Members, CommitConsult(u)
  PROVE  GuildInv'
<1> DEFINE t == guildTx[u]
           others == {t.owner} \ {"none", u}
           k == [asker |-> u, owner |-> IF t.owner = "none" THEN u ELSE t.owner,
                 in |-> {u} \cup others, hosts |-> others, open |-> TRUE]
<1>1. /\ t.op = "chat" /\ consults' = Append(consults, k)
      /\ handed' = [handed EXCEPT ![u] = u] /\ EndGuild(u)
      /\ UNCHANGED <<serial, blocks, guild, follows, inside>>
  BY DEF CommitConsult
<1>2. t.owner \in inside \cup {"none"} /\ inside \subseteq Members
  BY DEF GuildInv, GuildTyped, OwnersAreInside
<1>3. /\ k \in Consult /\ k.asker = u /\ k.in \subseteq inside \cup {u}
      /\ k.in \ inside \subseteq {u}
  BY <1>2 DEF Consult
<1> HIDE DEF k, t
<1>4. consults \in Seq(Consult) BY DEF GuildInv, GuildTyped
<1> DEFINE n == Len(consults)
<1>5. /\ consults' \in Seq(Consult) /\ n \in Nat /\ DOMAIN consults = 1..n
      /\ DOMAIN consults' = 1..(n + 1) /\ consults'[n + 1] = k
      /\ \A i \in 1..n : consults'[i] = consults[i]
  BY <1>1, <1>3, <1>4
<1> HIDE DEF n
<1>6. /\ guildTx' \in [Members -> GuildRequest]
      /\ \A w \in Members : guildTx'[w] = IF w = u THEN NoGuildTx ELSE guildTx[w]
  BY <1>1, NoGuildRequest DEF EndGuild, GuildInv, GuildTyped
<1>7. GuildTyped' BY <1>1, <1>5, <1>6 DEF GuildInv, GuildTyped
<1>8. OwnersAreInside' BY <1>1, <1>6, NoGuildRequest DEF GuildInv, OwnersAreInside
<1>9. \A i \in 1..(n + 1) : i \in 1..n \/ i = n + 1 BY <1>5
<1>10. OthersAsked' BY <1>1, <1>3, <1>5, <1>9 DEF GuildInv, OthersAsked
<1>11. ASSUME NEW w \in Members \ inside, w # u PROVE Found(w)' = Found(w)
  BY <1>1, <1>3, <1>5, <1>9, <1>11 DEF Found
<1>12. ASSUME u \notin inside, NEW i \in Found(u)' PROVE i = n + 1
  <2>1. Found(u) = {} BY <1>1, <1>12 DEF GuildInv, OneConsultation, t
  <2> QED BY <1>5, <1>9, <1>12, <2>1 DEF Found
<1>13. OneConsultation'
  <2>1. ASSUME NEW w \in Members \ inside, w # u
        PROVE  /\ handed'[w] \in {w, "none"} /\ \A i, j \in Found(w)' : i = j
               /\ guildTx'[w].op = "chat" => Found(w)' = {}
    BY <1>1, <1>6, <1>11, <2>1 DEF GuildInv, GuildTyped, OneConsultation
  <2>2. ASSUME u \notin inside
        PROVE  /\ handed'[u] \in {u, "none"} /\ \A i, j \in Found(u)' : i = j
               /\ guildTx'[u].op # "chat"
    BY <1>1, <1>6, <1>12, <2>2, NoGuildRequest DEF GuildInv, GuildTyped
  <2> QED BY <1>1, <2>1, <2>2 DEF OneConsultation
<1> QED BY <1>7, <1>8, <1>10, <1>13 DEF GuildInv

\* leave_or_kick of oneself: whoever hosts after, nobody comes in.
LEMMA LeaveConsultKeeps ==
  ASSUME GuildInv, NEW u \in Members, NEW i \in DOMAIN consults, LeaveConsult(u, i)
  PROVE  GuildInv'
<1> DEFINE k == consults[i]
           rest == k.in \ {u}
<1>1. consults \in Seq(Consult) /\ k \in Consult BY DEF GuildInv, GuildTyped
<1>2. rest \subseteq Members /\ rest \subseteq k.in /\ k.open BY <1>1 DEF Consult, LeaveConsult
<1>3. UNCHANGED <<serial, blocks, guild, follows, handed, inside, guildTx>>
  BY DEF LeaveConsult
<1> HIDE DEF rest
<1>4. ASSUME NEW next \in Consult, consults' = [consults EXCEPT ![i] = next],
             next.asker = k.asker, next.in = rest
      PROVE  GuildInv'
  <2>1. /\ consults' \in Seq(Consult) /\ Len(consults') = Len(consults)
        /\ \A j \in DOMAIN consults : consults'[j] = IF j = i THEN next ELSE consults[j]
    BY <1>1, <1>4
  <2>2. \A j \in DOMAIN consults :
          /\ consults'[j].asker = consults[j].asker
          /\ consults'[j].in \ inside' \subseteq consults[j].in
          /\ consults'[j].open => consults[j].open
    BY <1>2, <1>4, <2>1
  <2> QED BY <1>3, <2>1, <2>2, ConsultsChange DEF GuildInv, GuildTyped, OwnersAreInside
<1>5. CASE u \notin k.hosts
  <2> DEFINE next == [k EXCEPT !.in = rest]
  <2>1. consults' = [consults EXCEPT ![i] = next] BY <1>5 DEF LeaveConsult, rest
  <2>2. next \in Consult /\ next.asker = k.asker /\ next.in = rest
    BY <1>1, <1>2 DEF Consult
  <2> QED BY <1>4, <2>1, <2>2
<1>6. CASE u \in k.hosts /\ rest = {}
  <2> DEFINE next == [k EXCEPT !.in = rest, !.open = FALSE]
  <2>1. consults' = [consults EXCEPT ![i] = next] BY <1>6 DEF LeaveConsult, rest
  <2>2. next \in Consult /\ next.asker = k.asker /\ next.in = rest
    BY <1>1, <1>2 DEF Consult
  <2> QED BY <1>4, <2>1, <2>2
<1>7. CASE u \in k.hosts /\ rest # {}
  <2>1. PICK heir \in rest :
          consults' = [consults EXCEPT ![i].in = rest, ![i].owner = heir,
                                       ![i].hosts = @ \cup {heir}]
    BY <1>7 DEF LeaveConsult, rest
  <2> DEFINE next == [k EXCEPT !.in = rest, !.owner = heir, !.hosts = @ \cup {heir}]
  <2>2. consults' = [consults EXCEPT ![i] = next] BY <1>1, <2>1
  <2>3. next \in Consult /\ next.asker = k.asker /\ next.in = rest
    BY <1>1, <1>2 DEF Consult
  <2> QED BY <1>4, <2>2, <2>3
<1> QED BY <1>5, <1>6, <1>7

\* A host brings somebody in, sends somebody away or ends it.
LEMMA MeddleConsultKeeps ==
  ASSUME GuildInv, NEW u \in Members, NEW v \in Members, NEW i \in DOMAIN consults,
         MeddleInConsult(u, v, i)
  PROVE  GuildInv'
<1> DEFINE k == consults[i]
<1>1. consults \in Seq(Consult) /\ k \in Consult BY DEF GuildInv, GuildTyped
<1>2. k.open /\ UNCHANGED <<serial, blocks, guild, follows, handed, guildTx>>
  BY DEF MeddleInConsult
<1>3. ASSUME NEW next \in Consult, consults' = [consults EXCEPT ![i] = next],
             next.asker = k.asker, next.in \ inside' \subseteq k.in,
             inside' \subseteq Members, inside \subseteq inside'
      PROVE  GuildInv'
  <2>1. /\ consults' \in Seq(Consult) /\ Len(consults') = Len(consults)
        /\ \A j \in DOMAIN consults : consults'[j] = IF j = i THEN next ELSE consults[j]
    BY <1>1, <1>3
  <2>2. \A j \in DOMAIN consults :
          /\ consults'[j].asker = consults[j].asker
          /\ consults'[j].in \ inside' \subseteq consults[j].in
          /\ consults'[j].open => consults[j].open
    BY <1>2, <1>3, <2>1
  <2>3. guild'.owner \in inside' \cup {"none"} /\ guild' \in GuildRow /\ follows' \subseteq Members
    BY <1>2, <1>3 DEF GuildInv, GuildTyped, OwnersAreInside
  <2> QED BY <1>2, <1>3, <2>1, <2>2, <2>3, ConsultsChange
<1>4. inside \subseteq Members BY DEF GuildInv, GuildTyped
<1>5. CASE consults' = [consults EXCEPT ![i].in = @ \cup {v}] /\ inside' = inside \cup {v}
  <2> DEFINE next == [k EXCEPT !.in = @ \cup {v}]
  <2>1. next \in Consult /\ next.asker = k.asker /\ next.in = k.in \cup {v}
    BY <1>1 DEF Consult
  <2>2. consults' = [consults EXCEPT ![i] = next] BY <1>5
  <2> HIDE DEF next
  <2> QED BY <1>3, <1>4, <1>5, <2>1, <2>2
<1>6. CASE consults' = [consults EXCEPT ![i].in = @ \ {v}] /\ inside' = inside
  <2> DEFINE next == [k EXCEPT !.in = @ \ {v}]
  <2>1. next \in Consult /\ next.asker = k.asker /\ next.in = k.in \ {v}
    BY <1>1 DEF Consult
  <2>2. consults' = [consults EXCEPT ![i] = next] BY <1>6
  <2> HIDE DEF next
  <2> QED BY <1>3, <1>4, <1>6, <2>1, <2>2
<1>7. CASE consults' = [consults EXCEPT ![i].in = {}, ![i].open = FALSE] /\ inside' = inside
  <2> DEFINE next == [k EXCEPT !.in = {}, !.open = FALSE]
  <2>1. next \in Consult /\ next.asker = k.asker /\ next.in = {} BY <1>1 DEF Consult
  <2>2. consults' = [consults EXCEPT ![i] = next] BY <1>1, <1>7
  <2> HIDE DEF next
  <2> QED BY <1>3, <1>4, <1>7, <2>1, <2>2
<1> QED BY <1>5, <1>6, <1>7 DEF MeddleInConsult

\* Whoever is no insider and finds a consultation asked for it.
LEMMA ReopenKeeps ==
  ASSUME GuildInv, NEW u \in Members, Reopen(u)
  PROVE  GuildInv'
<1>1. UNCHANGED <<serial, blocks, guild, follows, consults, inside, guildTx>>
  BY DEF Reopen
<1>2. PICK i \in Found(u) : handed' = [handed EXCEPT ![u] = consults[i].asker] BY DEF Reopen
<1>3. i \in DOMAIN consults /\ u \in consults[i].in /\ consults[i] \in Consult
  BY DEF Found, GuildInv, GuildTyped
<1>4. consults[i].asker \in Members BY <1>3 DEF Consult
<1>5. u \notin inside => consults[i].asker = u BY <1>3 DEF GuildInv, OthersAsked
<1>6. handed' \in [Members -> Members \cup {"none"}]
      /\ \A w \in Members : handed'[w] = IF w = u THEN consults[i].asker ELSE handed[w]
  BY <1>2, <1>4 DEF GuildInv, GuildTyped
<1>7. \A w : Found(w)' = Found(w) BY <1>1 DEF Found
<1>8. OneConsultation' BY <1>1, <1>5, <1>6, <1>7 DEF GuildInv, OneConsultation
<1> QED BY <1>1, <1>6, <1>8 DEF GuildInv, GuildTyped, OwnersAreInside, OthersAsked

LEMMA GuildInductive ==
  ASSUME GuildInv, [GuildsNext]_<<serial, blocks, guildVars>>
  PROVE  GuildInv'
<1>1. CASE UNCHANGED <<serial, blocks, guildVars>>
  BY <1>1 DEF guildVars, GuildInv, GuildTyped, OwnersAreInside, OthersAsked, OneConsultation, Found
<1>2. ASSUME NEW u \in Members, BeginFollow(u) PROVE GuildInv'
  BY <1>2, GuildBegins DEF BeginFollow
<1>3. ASSUME NEW u \in Members, BeginConsult(u) PROVE GuildInv'
  BY <1>3, GuildBegins DEF BeginConsult
<1>4. ASSUME NEW u \in Members, CommitFollow(u) PROVE GuildInv'
  <2>1. follows' \subseteq Members BY <1>4 DEF CommitFollow, GuildInv, GuildTyped
  <2> QED BY <1>4, <2>1, GuildEnds DEF CommitFollow
<1>5. ASSUME NEW u \in Members, AbortGuild(u) PROVE GuildInv'
  BY <1>5, GuildEnds DEF AbortGuild, GuildInv, GuildTyped
<1>6. ASSUME ChangeGuild PROVE GuildInv'
  <2>1. PICK to \in GuildRow : guild' = to /\ inside' = inside \cup ({to.owner} \ {"none"})
    BY <1>6 DEF ChangeGuild, GuildRow
  <2>2. UNCHANGED <<serial, blocks, follows, consults, handed, guildTx>>
    BY <1>6 DEF ChangeGuild
  <2>3. /\ inside' \subseteq Members /\ inside \subseteq inside'
        /\ guild' \in GuildRow /\ guild'.owner \in inside' \cup {"none"}
    BY <2>1 DEF GuildRow, GuildInv, GuildTyped
  <2> QED BY <2>2, <2>3, ConsultsChange DEF GuildInv, GuildTyped
<1> QED BY <1>1, <1>2, <1>3, <1>4, <1>5, <1>6, ConsultKeeps, ReopenKeeps, LeaveConsultKeeps,
           MeddleConsultKeeps DEF GuildsNext

LEMMA GuildInitially ==
  ASSUME GuildsInit
  PROVE  GuildInv
<1>1. GuildTyped /\ OwnersAreInside /\ OthersAsked
  BY NoGuildRequest DEF GuildsInit, GuildTyped, GuildRow, OwnersAreInside, OthersAsked
<1>2. \A u : Found(u) = {} BY DEF GuildsInit, Found
<1> QED BY <1>1, <1>2 DEF GuildsInit, GuildInv, OneConsultation

LEMMA GuildTypes == ASSUME GuildInv PROVE GuildsTypeOK
<1>1. \A i \in DOMAIN consults : consults[i] \in Consult BY DEF GuildInv, GuildTyped
<1> QED BY <1>1 DEF GuildInv, GuildTyped, GuildRow, Consult, GuildsTypeOK

LEMMA AtMostOne ==
  ASSUME NEW S, \A i, j \in S : i = j
  PROVE  Cardinality(S) <= 1
<1>1. CASE S = {}
  <2>1. Cardinality(S) = 0 BY <1>1, FS_EmptySet
  <2> QED BY <2>1
<1>2. CASE S # {}
  <2>1. PICK i : i \in S BY <1>2
  <2>2. S = {i} BY <2>1
  <2>3. Cardinality(S) = 1 BY <2>2, FS_Singleton
  <2> QED BY <2>3
<1> QED BY <1>1, <1>2

LEMMA OwnConsultationHolds == ASSUME GuildInv PROVE OwnConsultation
<1>1. ASSUME NEW u \in Members \ inside
      PROVE  Cardinality({i \in Found(u) : consults[i].asker = u}) <= 1
  <2> DEFINE S == {i \in Found(u) : consults[i].asker = u}
  <2>1. \A i, j \in S : i = j BY DEF GuildInv, OneConsultation
  <2> HIDE DEF S
  <2>2. Cardinality(S) <= 1 BY <2>1, AtMostOne
  <2> QED BY <2>2 DEF S
<1> QED BY <1>1 DEF GuildInv, OneConsultation, OwnConsultation

-----------------------------------------------------------------------------
(***************************************************************************)
(* Content.  A mark begins on a published item only, and what was approved *)
(* stays approved; the counter and the withdrawal are right where requests *)
(* do not overlap, since the one open request still sees what it read.     *)
(***************************************************************************)
USE ContentAssumption

ItemRow == [is : {"post", "activity"}, counts : {"like", "repost", "comment"},
            status : {"absent", "pending", "published", "rejected", "deleted"},
            count : Nat, author : Users \cup {"none"}]
ItemRequest == [op : {"idle", "review", "withdraw", "mark", "unmark"}, count : Nat]
Hands == Users \cup {"ops"}

ContentTyped ==
  /\ item \in ItemRow
  /\ marks \in [Users -> 0..Comments]
  /\ approved \in BOOLEAN /\ withdrawn \in BOOLEAN
  /\ itemTx \in [Hands -> ItemRequest]

\* Whoever is about to mark the item has room for it and saw it published.
MarksAreDue ==
  \A u \in Users : itemTx[u].op = "mark" => marks[u] < Comments /\ approved

\* What an open request that nothing has overtaken rests on.
ItemAlone(u) ==
  LET t == itemTx[u] IN
  /\ \A v \in Hands \ {u} : itemTx[v] = NoItemTx
  /\ t.count = item.count
  /\ t.op = "unmark" => u \in Users /\ marks[u] > 0
  /\ t.op = "review" => ~withdrawn

MarksCounted == serial => IsFiniteSet(Marked) /\ item.count = Cardinality(Marked)

ContentInv ==
  /\ ContentTyped
  /\ MarksAreDue
  /\ ShownIsApproved
  /\ MarksCounted
  /\ serial => \A u \in Hands : itemTx[u] # NoItemTx => ItemAlone(u)

LEMMA NoItemRequest == NoItemTx \in ItemRequest /\ NoItemTx.op = "idle"
BY DEF NoItemTx, ItemRequest

LEMMA ItemMayBegin ==
  ASSUME ContentInv, NEW u \in Hands, MayBegin(itemTx, u, NoItemTx), serial
  PROVE  \A v \in Hands : itemTx[v] = NoItemTx
<1>1. DOMAIN itemTx = Hands BY DEF ContentInv, ContentTyped
<1> QED BY <1>1 DEF MayBegin

\* A request that begins.
LEMMA ItemBegins ==
  ASSUME ContentInv, NEW u \in Hands, NEW op \in {"review", "withdraw", "mark", "unmark"},
         BeginItem(u, op),
         op = "mark" => u \in Users /\ marks[u] < Comments /\ approved,
         op = "unmark" => u \in Users /\ marks[u] > 0,
         op = "review" => item.status = "pending"
  PROVE  ContentInv'
<1> DEFINE t == [op |-> op, count |-> item.count]
<1>1. /\ itemTx' = [itemTx EXCEPT ![u] = t]
      /\ UNCHANGED <<serial, blocks, item, marks, approved, withdrawn>>
      /\ serial => \A w \in Hands : itemTx[w] = NoItemTx
  BY ItemMayBegin DEF BeginItem
<1>2. t \in ItemRequest /\ t.op = op /\ t.count = item.count
  BY DEF ContentInv, ContentTyped, ItemRow, ItemRequest
<1> HIDE DEF t
<1>3. \A w \in Hands : itemTx'[w] = IF w = u THEN t ELSE itemTx[w]
  BY <1>1 DEF ContentInv, ContentTyped
<1>4. ContentTyped' BY <1>1, <1>2 DEF ContentInv, ContentTyped
<1>5. MarksAreDue'
  <2>1. Users \subseteq Hands BY DEF Hands
  <2> QED BY <1>1, <1>2, <1>3, <2>1 DEF ContentInv, MarksAreDue
<1>6. ShownIsApproved' /\ MarksCounted'
  BY <1>1 DEF ContentInv, ShownIsApproved, Published, MarksCounted, Marked
<1>7. ASSUME serial', NEW w \in Hands, itemTx'[w] # NoItemTx PROVE ItemAlone(w)'
  <2>1. w = u /\ \A x \in Hands \ {u} : itemTx'[x] = NoItemTx BY <1>1, <1>3, <1>7
  <2>2. op = "review" => ~withdrawn BY <1>1, <1>7 DEF ContentInv, ShownIsApproved
  <2> QED BY <1>1, <1>2, <1>3, <2>1, <2>2 DEF ItemAlone
<1> QED BY <1>4, <1>5, <1>6, <1>7 DEF ContentInv

\* A request that ends.
LEMMA ItemEnds ==
  ASSUME ContentInv, NEW u \in Hands, itemTx[u] # NoItemTx, EndItem(u), serial' = serial,
         item' \in ItemRow, marks' \in [Users -> 0..Comments],
         approved' \in BOOLEAN, withdrawn' \in BOOLEAN, approved => approved',
         \A w \in Users \ {u} : marks'[w] = marks[w],
         ShownIsApproved', MarksCounted'
  PROVE  ContentInv'
<1>1. /\ itemTx' \in [Hands -> ItemRequest]
      /\ \A w \in Hands : itemTx'[w] = IF w = u THEN NoItemTx ELSE itemTx[w]
  BY NoItemRequest DEF EndItem, ContentInv, ContentTyped
<1>2. MarksAreDue'
  <2>1. Users \subseteq Hands BY DEF Hands
  <2> QED BY <1>1, <2>1, NoItemRequest DEF ContentInv, MarksAreDue
<1>3. ASSUME serial, NEW w \in Hands PROVE itemTx'[w] = NoItemTx
  BY <1>1, <1>3 DEF ContentInv, ItemAlone
<1> QED BY <1>1, <1>2, <1>3 DEF ContentInv, ContentTyped

LEMMA ReviewKeeps ==
  ASSUME ContentInv, NEW u \in Hands, CommitPostReview(u)
  PROVE  ContentInv'
<1>1. /\ itemTx[u].op = "review" /\ EndItem(u) /\ UNCHANGED <<serial, blocks, marks, withdrawn>>
  BY DEF CommitPostReview
<1>2. PICK to \in {"published", "rejected"} :
        /\ item' = [item EXCEPT !.status = to]
        /\ approved' = (approved \/ to = "published")
  BY DEF CommitPostReview
<1>3. itemTx[u] # NoItemTx BY <1>1, NoItemRequest
<1>4. /\ item' \in ItemRow /\ item'.count = item.count /\ item'.status = to
      /\ approved' \in BOOLEAN /\ (approved => approved') /\ (to = "published" => approved')
  BY <1>2 DEF ContentInv, ContentTyped, ItemRow
<1>5. ShownIsApproved'
  <2>1. serial => ~withdrawn BY <1>1, <1>3 DEF ContentInv, ItemAlone
  <2> QED BY <1>1, <1>4, <2>1 DEF ContentInv, ShownIsApproved, Published
<1>6. MarksCounted' BY <1>1, <1>4 DEF ContentInv, MarksCounted, Marked
<1> QED BY <1>1, <1>3, <1>4, <1>5, <1>6, ItemEnds DEF ContentInv, ContentTyped

LEMMA WithdrawKeeps ==
  ASSUME ContentInv, NEW u \in Hands, CommitWithdraw(u)
  PROVE  ContentInv'
<1>1. /\ itemTx[u].op = "withdraw" /\ EndItem(u) /\ UNCHANGED <<serial, blocks, marks, approved>>
      /\ item' = [item EXCEPT !.status = "deleted"] /\ withdrawn' = TRUE
  BY DEF CommitWithdraw
<1>2. itemTx[u] # NoItemTx BY <1>1, NoItemRequest
<1>3. item' \in ItemRow /\ item'.count = item.count /\ item'.status = "deleted"
  BY <1>1 DEF ContentInv, ContentTyped, ItemRow
<1>4. ShownIsApproved' BY <1>1, <1>3 DEF ContentInv, ShownIsApproved, Published
<1>5. MarksCounted' BY <1>1, <1>3 DEF ContentInv, MarksCounted, Marked
<1> QED BY <1>1, <1>2, <1>3, <1>4, <1>5, ItemEnds DEF ContentInv, ContentTyped

\* One mark more and one less.
LEMMA MarkedIs ==
  ASSUME NEW r
  PROVE  r \in Marked <=> \E u \in Users : \E n \in 1..marks[u] : r = <<u, n>>
BY DEF Marked

LEMMA MarkKeeps ==
  ASSUME ContentInv, NEW u \in Users, CommitMark(u)
  PROVE  ContentInv'
<1> DEFINE t == itemTx[u]
           n == t.count + 1
<1>1. /\ t.op = "mark" /\ EndItem(u) /\ UNCHANGED <<serial, blocks, approved, withdrawn>>
      /\ marks' = [marks EXCEPT ![u] = @ + 1]
      /\ item' = [item EXCEPT !.count = n]
  BY DEF CommitMark
<1>2. /\ t # NoItemTx /\ u \in Hands /\ approved /\ marks[u] < Comments
      /\ n \in Nat /\ marks[u] \in Nat
  BY <1>1, NoItemRequest DEF ContentInv, ContentTyped, MarksAreDue, ItemRequest, Hands
<1>3. n = t.count + 1 OBVIOUS
<1> HIDE DEF t, n
<1>4. item' \in ItemRow /\ item'.count = n /\ item'.status = item.status
  BY <1>1, <1>2 DEF ContentInv, ContentTyped, ItemRow
<1>5. /\ marks' \in [Users -> 0..Comments]
      /\ \A w \in Users : marks'[w] = IF w = u THEN marks[u] + 1 ELSE marks[w]
  BY <1>1, <1>2 DEF ContentInv, ContentTyped
<1>6. ShownIsApproved' BY <1>1, <1>2, <1>4 DEF ContentInv, ShownIsApproved, Published
<1>7. MarksCounted'
  <2>1. ASSUME serial PROVE IsFiniteSet(Marked)' /\ (item.count = Cardinality(Marked))'
    <3> DEFINE S == Marked
               r == <<u, marks[u] + 1>>
    <3>1. IsFiniteSet(S) /\ t.count = Cardinality(S)
      BY <1>2, <2>1 DEF ContentInv, MarksCounted, ItemAlone, t
    <3>2. r \notin S BY <1>2, MarkedIs
    <3>3. Marked' = S \cup {r}
      <4>1. ASSUME NEW x PROVE x \in Marked' <=> x \in S \/ x = r
        <5>1. x \in Marked' <=> \E w \in Users : \E k \in 1..marks'[w] : x = <<w, k>>
          BY DEF Marked
        <5>2. x \in S <=> \E w \in Users : \E k \in 1..marks[w] : x = <<w, k>> BY MarkedIs
        <5>3. \A w \in Users : w # u => marks'[w] = marks[w] BY <1>5
        <5>4. \A k : k \in 1..marks'[u] <=> k \in 1..marks[u] \/ k = marks[u] + 1
          BY <1>2, <1>5
        <5> HIDE DEF S
        <5> QED BY <5>1, <5>2, <5>3, <5>4
      <4> QED BY <4>1
    <3> HIDE DEF S, r
    <3>4. IsFiniteSet(S \cup {r}) /\ Cardinality(S \cup {r}) = Cardinality(S) + 1
      BY <3>1, <3>2, JoinedChanges
    <3> QED BY <1>3, <1>4, <3>1, <3>3, <3>4
  <2> QED BY <1>1, <2>1 DEF MarksCounted
<1>8. approved' \in BOOLEAN /\ withdrawn' \in BOOLEAN BY <1>1 DEF ContentInv, ContentTyped
<1> QED BY <1>1, <1>2, <1>4, <1>5, <1>6, <1>7, <1>8, ItemEnds DEF t

LEMMA UnmarkKeeps ==
  ASSUME ContentInv, NEW u \in Users, CommitUnmark(u)
  PROVE  ContentInv'
<1> DEFINE t == itemTx[u]
           n == WrittenBack(item.count, t.count, Fewer(t.count))
<1>1. /\ t.op = "unmark" /\ EndItem(u) /\ UNCHANGED <<serial, blocks, approved, withdrawn>>
      /\ marks' = [marks EXCEPT ![u] = Fewer(@)]
      /\ item' = [item EXCEPT !.count = n]
  BY DEF CommitUnmark
<1>2. /\ t # NoItemTx /\ u \in Hands /\ n \in Nat /\ t.count \in Nat
  BY <1>1, NoItemRequest DEF ContentInv, ContentTyped, ItemRequest, ItemRow, Hands, WrittenBack, Fewer
<1>3. t.count = item.count => n = Fewer(t.count) BY DEF WrittenBack
<1> HIDE DEF t, n
<1>4. item' \in ItemRow /\ item'.count = n /\ item'.status = item.status
  BY <1>1, <1>2 DEF ContentInv, ContentTyped, ItemRow
<1>5. /\ marks' \in [Users -> 0..Comments]
      /\ \A w \in Users : marks'[w] = IF w = u THEN Fewer(marks[u]) ELSE marks[w]
      /\ marks[u] \in 0..Comments
  BY <1>1 DEF ContentInv, ContentTyped, Fewer
<1>6. ShownIsApproved'
  <2>1. \A w \in Users : marks'[w] > 0 => marks[w] > 0 BY <1>5 DEF Fewer
  <2> QED BY <1>1, <1>4, <2>1 DEF ContentInv, ShownIsApproved, Published
<1>7. MarksCounted'
  <2>1. ASSUME serial PROVE IsFiniteSet(Marked)' /\ (item.count = Cardinality(Marked))'
    <3> DEFINE S == Marked
               r == <<u, marks[u]>>
    <3>1. IsFiniteSet(S) /\ t.count = Cardinality(S) /\ t.count = item.count /\ marks[u] > 0
      BY <1>1, <1>2, <2>1 DEF ContentInv, MarksCounted, ItemAlone, t
    <3>2. r \in S BY <1>5, <3>1, MarkedIs
    <3>3. Marked' = S \ {r}
      <4>1. ASSUME NEW x PROVE x \in Marked' <=> x \in S /\ x # r
        <5>1. x \in Marked' <=> \E w \in Users : \E k \in 1..marks'[w] : x = <<w, k>>
          BY DEF Marked
        <5>2. x \in S <=> \E w \in Users : \E k \in 1..marks[w] : x = <<w, k>> BY MarkedIs
        <5>3. \A w \in Users : w # u => marks'[w] = marks[w] BY <1>5
        <5>4. \A k : k \in 1..marks'[u] <=> k \in 1..marks[u] /\ k # marks[u]
          BY <1>5, <3>1 DEF Fewer
        <5> HIDE DEF S
        <5> QED BY <5>1, <5>2, <5>3, <5>4
      <4> QED BY <4>1
    <3> HIDE DEF S, r
    <3>4. /\ IsFiniteSet(S \ {r}) /\ Cardinality(S \ {r}) = Cardinality(S) - 1
          /\ Cardinality(S) \in Nat /\ Cardinality(S) > 0
      BY <3>1, <3>2, JoinedChanges
    <3>5. Fewer(t.count) = Cardinality(S) - 1 BY <3>1, <3>4 DEF Fewer
    <3> QED BY <1>3, <1>4, <3>1, <3>3, <3>4, <3>5
  <2> QED BY <1>1, <2>1 DEF MarksCounted
<1>8. approved' \in BOOLEAN /\ withdrawn' \in BOOLEAN BY <1>1 DEF ContentInv, ContentTyped
<1> QED BY <1>1, <1>2, <1>4, <1>5, <1>6, <1>7, <1>8, ItemEnds DEF t

LEMMA CreatePostKeeps ==
  ASSUME ContentInv, NEW u \in Users, CreatePost(u)
  PROVE  ContentInv'
<1>1. /\ item.status = "absent" /\ item' = [item EXCEPT !.status = "pending", !.author = u]
      /\ UNCHANGED <<serial, blocks, marks, approved, withdrawn, itemTx>>
      /\ serial => \A w \in Hands : itemTx[w] = NoItemTx
  BY ItemMayBegin DEF CreatePost, Hands
<1>2. item' \in ItemRow /\ item'.status = "pending" /\ item'.count = item.count
  BY <1>1 DEF ContentInv, ContentTyped, ItemRow
<1>3. ContentTyped' /\ MarksAreDue' BY <1>1, <1>2 DEF ContentInv, ContentTyped, MarksAreDue
<1>4. ShownIsApproved' BY <1>1, <1>2 DEF ContentInv, ShownIsApproved, Published
<1>5. MarksCounted' BY <1>1, <1>2 DEF ContentInv, MarksCounted, Marked
<1>6. serial' => \A w \in Hands : itemTx'[w] = NoItemTx BY <1>1
<1> QED BY <1>3, <1>4, <1>5, <1>6 DEF ContentInv

LEMMA ContentInductive ==
  ASSUME ContentInv, [ContentNext]_<<serial, blocks, contentVars>>
  PROVE  ContentInv'
<1>1. Users \subseteq Hands /\ "ops" \in Hands /\ DOMAIN itemTx = Hands
  BY DEF Hands, ContentInv, ContentTyped
<1>2. /\ \A u \in Users : marks[u] \in Nat
      /\ Comments \in Nat \ {0}
      /\ Published => approved
      /\ item.author \in Users \cup {"none"}
  BY DEF ContentInv, ContentTyped, ShownIsApproved, ItemRow
<1>3. CASE \E u \in Users : ContentStep(u)
  <2>1. PICK u \in Users : ContentStep(u) BY <1>3
  <2>2. CASE BeginLikeItem(u) \/ BeginRepost(u) \/ BeginComment(u)
    <3>1. Published /\ marks[u] < Comments /\ BeginItem(u, "mark")
      BY <1>2, <2>2 DEF BeginLikeItem, BeginRepost, BeginComment
    <3> QED BY <1>1, <1>2, <3>1, ItemBegins
  <2>3. CASE BeginUnlikeItem(u) \/ BeginUncomment(u)
    <3>1. marks[u] > 0 /\ BeginItem(u, "unmark") BY <2>3 DEF BeginUnlikeItem, BeginUncomment
    <3> QED BY <1>1, <3>1, ItemBegins
  <2>4. CASE CreatePost(u) BY <2>4, CreatePostKeeps
  <2>5. CASE CommitMark(u) BY <2>5, MarkKeeps
  <2>6. CASE CommitUnmark(u) BY <2>6, UnmarkKeeps
  <2> QED BY <2>1, <2>2, <2>3, <2>4, <2>5, <2>6 DEF ContentStep
<1>4. CASE BeginPostReview
  <2>1. item.status = "pending" /\ BeginItem("ops", "review") BY <1>4 DEF BeginPostReview, Reviewable
  <2> QED BY <1>1, <2>1, ItemBegins
<1>5. CASE \E u \in DOMAIN itemTx : CommitPostReview(u) \/ BeginWithdraw(u) \/ CommitWithdraw(u)
  <2>1. PICK u \in Hands : CommitPostReview(u) \/ BeginWithdraw(u) \/ CommitWithdraw(u)
    BY <1>1, <1>5
  <2>2. CASE BeginWithdraw(u)
    <3>1. BeginItem(u, "withdraw") BY <2>2 DEF BeginWithdraw
    <3> QED BY <3>1, ItemBegins
  <2> QED BY <2>1, <2>2, ReviewKeeps, WithdrawKeeps
<1>6. CASE UNCHANGED <<serial, blocks, contentVars>>
  BY <1>6 DEF contentVars, ContentInv, ContentTyped, MarksAreDue, ShownIsApproved, Published,
              MarksCounted, Marked, ItemAlone
<1> QED BY <1>3, <1>4, <1>5, <1>6 DEF ContentNext

LEMMA ContentInitially ==
  ASSUME RequestsInit, ContentInit
  PROVE  ContentInv
<1>1. /\ marks = [u \in Users |-> 0] /\ withdrawn = FALSE
      /\ itemTx = [u \in Users \cup {"ops"} |-> NoItemTx]
  BY DEF ContentInit
<1>8. approved \in BOOLEAN /\ (item.is = "activity" => approved)
  <2>1. approved = (item.is = "activity") BY DEF ContentInit
  <2>2. (item.is = "activity") \in BOOLEAN OBVIOUS
  <2> QED BY <2>1, <2>2, Zenon
<1>2. /\ item \in ItemRow /\ item.count = 0
      /\ item.status = "absent" \/ (item.status = "published" /\ item.is = "activity")
  BY DEF ContentInit, ItemRow
<1>3. ContentTyped
  <2>1. marks \in [Users -> 0..Comments] BY <1>1
  <2>2. itemTx \in [Hands -> ItemRequest] BY <1>1, NoItemRequest DEF Hands
  <2> QED BY <1>1, <1>8, <1>2, <2>1, <2>2 DEF ContentTyped
<1>4. Marked = {} BY <1>1 DEF Marked
<1>5. MarksCounted BY <1>2, <1>4, FS_EmptySet DEF MarksCounted
<1>6. MarksAreDue BY <1>1, NoItemRequest DEF MarksAreDue
<1>7. ShownIsApproved BY <1>1, <1>8, <1>2 DEF ShownIsApproved, Published
<1> QED BY <1>1, <1>3, <1>5, <1>6, <1>7 DEF ContentInv, Hands

LEMMA ContentTypes ==
  ASSUME ContentInv
  PROVE  ContentTypeOK /\ CountsItsMarks /\ ShownIsApproved
BY DEF ContentInv, ContentTyped, ContentTypeOK, ItemRow, MarksCounted, CountsItsMarks

-----------------------------------------------------------------------------
(***************************************************************************)
(* Media.  A card does not look at deleted_at, but what it points to is    *)
(* not deleted unless it was chosen when it was.                           *)
(***************************************************************************)
USE MediaAssumption

MediaInv == MediaTypeOK /\ (avatar \in deleted => rechosen)

LEMMA PointsTo ==
  ASSUME NEW a, PointTo(a)
  PROVE  avatar' = a /\ rechosen' \in BOOLEAN /\ (rechosen' <=> a \in deleted)
<1>1. avatar' = a /\ rechosen' = (a \in deleted) BY DEF PointTo
<1>2. (a \in deleted) \in BOOLEAN OBVIOUS
<1> QED BY <1>1, <1>2, Zenon

LEMMA MediaInductive ==
  ASSUME MediaInv, [MediaNext]_<<serial, blocks, mediaVars>>
  PROVE  MediaInv'
<1>1. CASE \E a \in Assets :
             Upload(a) \/ Complete(a) \/ ReviewMedia(a) \/ WorkOnTask(a) \/ SoftDelete(a)
               \/ ChooseAvatar(a)
  <2>1. PICK a \in Assets :
          Upload(a) \/ Complete(a) \/ ReviewMedia(a) \/ WorkOnTask(a) \/ SoftDelete(a)
            \/ ChooseAvatar(a)
    BY <1>1
  <2>2. CASE Upload(a) BY <2>2 DEF Upload, MediaInv, MediaTypeOK
  <2>3. CASE Complete(a)
    BY <2>3, PointsTo DEF Complete, Enqueued, MediaInv, MediaTypeOK
  <2>4. CASE ReviewMedia(a) BY <2>4 DEF ReviewMedia, MediaInv, MediaTypeOK
  <2>5. CASE WorkOnTask(a) BY <2>5 DEF WorkOnTask, MediaInv, MediaTypeOK
  <2>6. CASE SoftDelete(a)
    <3>1. /\ a \notin deleted /\ deleted' = deleted \cup {a}
          /\ avatar' = (IF avatar = a THEN "none" ELSE avatar)
          /\ rechosen' = (rechosen /\ avatar # a)
          /\ UNCHANGED <<serial, blocks, autoApprove, stored, audit, task>>
      BY <2>6 DEF SoftDelete, Unpointed
    <3>2. rechosen' \in BOOLEAN /\ (rechosen' <=> rechosen /\ avatar # a)
      BY <3>1, Zenon DEF MediaInv, MediaTypeOK
    <3> QED BY <3>1, <3>2 DEF MediaInv, MediaTypeOK
  <2>7. CASE ChooseAvatar(a) BY <2>7, PointsTo DEF ChooseAvatar, MediaInv, MediaTypeOK
  <2> QED BY <2>1, <2>2, <2>3, <2>4, <2>5, <2>6, <2>7
<1>2. CASE ResetAvatar BY <1>2 DEF ResetAvatar, MediaInv, MediaTypeOK
<1>3. CASE UNCHANGED <<serial, blocks, mediaVars>>
  BY <1>3 DEF mediaVars, MediaInv, MediaTypeOK
<1> QED BY <1>1, <1>2, <1>3 DEF MediaNext

LEMMA MediaInitially ==
  ASSUME MediaInit
  PROVE  MediaInv
BY DEF MediaInit, MediaInv, MediaTypeOK

LEMMA MediaShows ==
  ASSUME MediaInv
  PROVE  MediaTypeOK /\ DeletedIsNotShown
BY DEF MediaInv, MediaTypeOK, DeletedIsNotShown, CardAvatar, PublicAvatar, OwnAvatar

-----------------------------------------------------------------------------
(***************************************************************************)
(* Calls.  While an answer is under way that nothing overlaps, the call    *)
(* still rings.                                                            *)
(***************************************************************************)
CallInv ==
  /\ hungUp \in BOOLEAN
  /\ call \in {"none", "ringing", "active", "rejected", "cancelled", "ended"}
  /\ serial /\ hungUp => call \in {"rejected", "cancelled", "ended"}
  /\ serial => \A u \in Users : moneyTx[u].op = "answer" =>
                 call = "ringing" /\ \A v \in Users \ {u} : moneyTx[v] = NoMoneyTx

\* What is sent is one of the sums, and only transfers expire.
SumsAreDue ==
  /\ \A i \in TransferIds : transfers[i].amount \in Sums \cup {0}
  /\ overdue \subseteq TransferIds

LEMMA MoneyMayBegin ==
  ASSUME TransfersInv, NEW u \in Users, MayBegin(moneyTx, u, NoMoneyTx), serial
  PROVE  \A v \in Users : moneyTx[v] = NoMoneyTx
<1>1. DOMAIN moneyTx = Users BY DEF TransfersInv
<1> QED BY <1>1 DEF MayBegin

LEMMA CallWhileBeginning ==
  ASSUME TransfersInv, CallInv, NEW u \in Users, NEW op, NEW on, NEW with, NEW amount,
         BeginMoney(u, op, on, with, amount), op = "answer" => call = "ringing"
  PROVE  CallInv' /\ UNCHANGED <<transfers, overdue>>
<1> DEFINE t == [op |-> op, on |-> on, with |-> with, amount |-> amount, purse |-> purses[u]]
<1>1. /\ moneyTx' = [moneyTx EXCEPT ![u] = t] /\ t.op = op
      /\ UNCHANGED <<serial, transfers, overdue, call, hungUp>>
      /\ serial => \A v \in Users : moneyTx[v] = NoMoneyTx
  BY MoneyMayBegin DEF BeginMoney
<1> HIDE DEF t
<1>2. \A v \in Users : moneyTx'[v] = IF v = u THEN t ELSE moneyTx[v]
  BY <1>1 DEF TransfersInv
<1>3. NoMoneyTx.op # "answer" BY DEF NoMoneyTx
<1> QED BY <1>1, <1>2, <1>3 DEF CallInv

LEMMA CallWhileEnding ==
  ASSUME TransfersInv, CallInv, NEW u \in Users, EndMoney(u), UNCHANGED <<serial, hungUp>>,
         call' = call \/ (call' = "active" /\ moneyTx[u].op = "answer")
  PROVE  CallInv'
<1>1. \A v \in Users : moneyTx'[v] = IF v = u THEN NoMoneyTx ELSE moneyTx[v]
  BY DEF EndMoney, TransfersInv
<1>2. NoMoneyTx.op # "answer" BY DEF NoMoneyTx
<1>3. CASE call' = call BY <1>1, <1>2, <1>3 DEF CallInv
<1>4. CASE call' = "active" /\ moneyTx[u].op = "answer"
  <2>1. serial => ~hungUp BY <1>4 DEF CallInv
  <2>2. serial => \A v \in Users : moneyTx'[v].op # "answer" BY <1>1, <1>2, <1>4 DEF CallInv
  <2> QED BY <1>4, <2>1, <2>2 DEF CallInv
<1> QED BY <1>3, <1>4

LEMMA CallsInductive ==
  ASSUME TransfersInv, CallInv, SumsAreDue, [TransfersNext]_<<serial, blocks, transferVars>>
  PROVE  CallInv' /\ SumsAreDue'
<1>1. ASSUME CallInv', UNCHANGED <<transfers, overdue>> PROVE CallInv' /\ SumsAreDue'
  BY <1>1 DEF SumsAreDue
<1>2. CASE \E u \in Users, i \in TransferIds :
             \/ \E v \in Users, n \in Sums : BeginTransfer(u, v, i, n)
             \/ BeginAcceptance(u, i) \/ BeginCancellation(u, i)
  <2>1. PICK u \in Users, i \in TransferIds :
             \/ \E v \in Users, n \in Sums : BeginTransfer(u, v, i, n)
             \/ BeginAcceptance(u, i) \/ BeginCancellation(u, i)
    BY <1>2
  <2>2. CASE \E v \in Users, n \in Sums : BeginTransfer(u, v, i, n)
    <3>1. PICK v \in Users, n \in Sums : BeginMoney(u, "create", i, v, n)
      BY <2>2 DEF BeginTransfer
    <3> QED BY <1>1, <3>1, CallWhileBeginning
  <2>3. CASE BeginAcceptance(u, i)
    BY <1>1, <2>3, CallWhileBeginning DEF BeginAcceptance
  <2>4. CASE BeginCancellation(u, i)
    BY <1>1, <2>4, CallWhileBeginning DEF BeginCancellation
  <2> QED BY <2>1, <2>2, <2>3, <2>4
<1>3. CASE \E u \in Users :
             \/ OpenWallet(u) \/ CommitTransfer(u) \/ CommitSettlement(u) \/ AbortMoney(u)
             \/ StartCall(u) \/ BeginAnswer(u) \/ CommitAnswer(u) \/ HangUp(u)
  <2>1. PICK u \in Users :
             \/ OpenWallet(u) \/ CommitTransfer(u) \/ CommitSettlement(u) \/ AbortMoney(u)
             \/ StartCall(u) \/ BeginAnswer(u) \/ CommitAnswer(u) \/ HangUp(u)
    BY <1>3
  <2>2. CASE OpenWallet(u)
    BY <1>1, <2>2 DEF OpenWallet, CallInv
  <2>3. CASE CommitTransfer(u)
    <3>1. /\ moneyTx[u].op = "create" /\ EndMoney(u) /\ UNCHANGED <<serial, overdue, call, hungUp>>
          /\ \E d : d.amount = moneyTx[u].amount
                    /\ transfers' = [transfers EXCEPT ![moneyTx[u].on] = d]
      BY <2>3 DEF CommitTransfer
    <3>2. CallInv' BY <3>1, CallWhileEnding
    <3>3. moneyTx[u].amount \in Sums BY <3>1 DEF TransfersInv, Checked
    <3>4. SumsAreDue' BY <3>1, <3>3 DEF SumsAreDue, TransfersInv
    <3> QED BY <3>2, <3>4
  <2>4. CASE CommitSettlement(u)
    <3>1. /\ EndMoney(u) /\ UNCHANGED <<serial, overdue, call, hungUp>>
          /\ \E s : transfers' = [transfers EXCEPT ![moneyTx[u].on].status = s]
      BY <2>4 DEF CommitSettlement
    <3>2. CallInv' BY <3>1, CallWhileEnding
    <3>3. \A i \in TransferIds : transfers'[i].amount = transfers[i].amount
      BY <3>1 DEF TransfersInv, Deal
    <3> QED BY <3>1, <3>2, <3>3 DEF SumsAreDue
  <2>5. CASE AbortMoney(u)
    <3>1. EndMoney(u) /\ UNCHANGED <<serial, transfers, overdue, call, hungUp>>
      BY <2>5 DEF AbortMoney
    <3> QED BY <1>1, <3>1, CallWhileEnding
  <2>6. CASE StartCall(u)
    <3>1. serial => \A v \in Users : moneyTx[v] = NoMoneyTx BY <2>6, MoneyMayBegin DEF StartCall
    <3>2. NoMoneyTx.op # "answer" BY DEF NoMoneyTx
    <3> QED BY <1>1, <2>6, <3>1, <3>2 DEF StartCall, CallInv
  <2>7. CASE BeginAnswer(u)
    BY <1>1, <2>7, CallWhileBeginning DEF BeginAnswer, Answerable
  <2>8. CASE CommitAnswer(u)
    <3>1. /\ moneyTx[u].op = "answer" /\ call' = "active" /\ EndMoney(u)
          /\ UNCHANGED <<serial, transfers, overdue, hungUp>>
      BY <2>8 DEF CommitAnswer
    <3> QED BY <1>1, <3>1, CallWhileEnding
  <2>9. CASE HangUp(u)
    <3>1. serial => \A v \in Users : moneyTx[v] = NoMoneyTx BY <2>9, MoneyMayBegin DEF HangUp
    <3>2. NoMoneyTx.op # "answer" BY DEF NoMoneyTx
    <3> QED BY <1>1, <2>9, <3>1, <3>2 DEF HangUp, CallInv
  <2> QED BY <2>1, <2>2, <2>3, <2>4, <2>5, <2>6, <2>7, <2>8, <2>9
<1>4. CASE \E i \in TransferIds : Expire(i)
  <2>1. PICK i \in TransferIds : Expire(i) BY <1>4
  <2>2. overdue' = overdue \cup {i} /\ UNCHANGED <<serial, transfers, call, hungUp, moneyTx>>
    BY <2>1 DEF Expire
  <2> QED BY <2>2 DEF SumsAreDue, CallInv
<1>5. CASE UNCHANGED <<serial, blocks, transferVars>>
  BY <1>5 DEF transferVars, CallInv, SumsAreDue
<1> QED BY <1>2, <1>3, <1>4, <1>5 DEF TransfersNext

LEMMA CallsInitially ==
  ASSUME TransfersInit
  PROVE  CallInv /\ SumsAreDue
BY DEF TransfersInit, CallInv, SumsAreDue, NoTransfer, NoMoneyTx

LEMMA TransferTypes ==
  ASSUME TransfersInv, CallInv, SumsAreDue
  PROVE  TransfersTypeOK /\ CallStaysOver
BY DEF TransfersInv, CallInv, SumsAreDue, Deal, TransfersTypeOK, CallStaysOver

-----------------------------------------------------------------------------
(***************************************************************************)
(* All parts together.  The part that moves keeps its invariant; the other *)
(* parts are at rest.                                                      *)
(***************************************************************************)
LEMMA GroupTypes == ASSUME GroupInv PROVE GroupsTypeOK
BY DEF GroupInv, GroupTyped, GroupsTypeOK, Row, GroupRequest

PeopleInv ==
  /\ part = "matching" => MatchInv
  /\ part = "contacts" => ContactInv
  /\ part = "groups" => GroupInv
  /\ part = "clubs" => ClubInv
  /\ part = "guilds" => GuildInv
  /\ part = "content" => ContentInv
  /\ part = "media" => MediaInv
  /\ part = "transfers" => TransfersInv /\ CallInv /\ SumsAreDue

LEMMA PeopleInitially == PeopleInit => PeopleInv
BY MatchInitially, ContactInitially, GroupInitially, ClubInitially, GuildInitially,
   ContentInitially, MediaInitially, TransfersInitially, CallsInitially
   DEF PeopleInit, PeopleInv

LEMMA PeopleInductive ==
  ASSUME PeopleInv, [PeopleNext]_peopleVars
  PROVE  PeopleInv'
<1>1. CASE UNCHANGED peopleVars
  <2>1. /\ UNCHANGED <<serial, blocks, part>>
        /\ UNCHANGED matchVars /\ UNCHANGED contactVars /\ UNCHANGED groupVars
        /\ UNCHANGED clubVars /\ UNCHANGED guildVars /\ UNCHANGED contentVars
        /\ UNCHANGED mediaVars /\ UNCHANGED transferVars
    BY <1>1 DEF peopleVars
  <2> QED BY <2>1, MatchInductive, ContactInductive, GroupInductive, ClubInductive,
             GuildInductive, ContentInductive, MediaInductive, TransfersStep, CallsInductive
          DEF PeopleInv
<1>2. CASE PeopleNext
  <2>1. part' = part BY <1>2 DEF PeopleNext, AtRestBut
  <2>2. /\ part = "matching" => MatchNext
        /\ part = "contacts" => ContactsNext
        /\ part = "groups" => GroupsNext
        /\ part = "clubs" => ClubsNext
        /\ part = "guilds" => GuildsNext
        /\ part = "content" => ContentNext
        /\ part = "media" => MediaNext
        /\ part = "transfers" => TransfersNext
    BY <1>2 DEF PeopleNext
  <2> QED BY <2>1, <2>2, MatchInductive, ContactInductive, GroupInductive, ClubInductive,
             GuildInductive, ContentInductive, MediaInductive, TransfersStep, CallsInductive
          DEF PeopleInv
<1> QED BY <1>1, <1>2

LEMMA PeopleAlways == PeopleSpec => []PeopleInv
<1>1. PeopleInv /\ [PeopleNext]_peopleVars => PeopleInv' BY PeopleInductive
<1> QED BY <1>1, PeopleInitially, PTL DEF PeopleSpec

\* Types, in every part.
THEOREM PeopleAreTyped == PeopleSpec => []PeopleTypeOK
<1>1. PeopleInv => PeopleTypeOK
  BY MatchTypes, ContactTypes, GroupTypes, ClubTypes, GuildTypes, ContentTypes, MediaShows,
     TransferTypes DEF PeopleInv, PeopleTypeOK
<1> QED BY <1>1, PeopleAlways, PTL

\* swipe, block and the cascade of a block: a match stands exactly while the two
\* like each other and neither blocks the other.
THEOREM MatchesAreMutual == PeopleSpec => []MatchesHold
<1>1. PeopleInv => MatchesHold BY DEF PeopleInv, MatchesHold, MatchInv
<1> QED BY <1>1, PeopleAlways, PTL

\* Clubs and their chats, guilds and their consultations, friends and their
\* conversation, a call that is over.
THEOREM ConversationsAreRight == PeopleSpec => []ConversationsHold
<1>1. PeopleInv => ConversationsHold
  BY OwnConsultationHolds, FriendsDoShare, TransferTypes
     DEF PeopleInv, ConversationsHold, ClubInv
<1> QED BY <1>1, PeopleAlways, PTL

\* The members of a club and the marks on an item are as many as their counters say.
THEOREM CountersAreRight == PeopleSpec => []CountersCount
<1>1. PeopleInv => CountersCount
  BY ContentTypes DEF PeopleInv, CountersCount, ClubInv, CountHolds, CountsItsMembers, JoinedNow
<1> QED BY <1>1, PeopleAlways, PTL

\* Nobody is shown a post that no admin approved or a picture its owner deleted.
THEOREM ShownIsRight == PeopleSpec => []ShownAsMeant
<1>1. PeopleInv => ShownAsMeant BY ContentTypes, MediaShows DEF PeopleInv, ShownAsMeant
<1> QED BY <1>1, PeopleAlways, PTL

\* Across a block no request, friendship, greeting or conversation comes to be
\* where requests do not overlap.
THEOREM NoContactThroughABlock == PeopleSpec => NoContactAcrossABlock
<1>1. ASSUME PeopleInv, [PeopleNext]_peopleVars, serial,
             NEW c \in Couples, IsBlockedEither(c[1], c[2])
      PROVE  NothingNew(c)
  <2>1. CASE UNCHANGED contactVars BY <2>1 DEF contactVars, NothingNew
  <2>2. CASE part = "contacts" /\ ContactsNext
    BY <1>1, <2>2, BlockHolds DEF PeopleInv
  <2> QED BY <1>1, <2>1, <2>2 DEF PeopleNext, AtRestBut, peopleVars
<1>2. PeopleInv /\ [PeopleNext]_peopleVars =>
        [serial => \A c \in Couples : IsBlockedEither(c[1], c[2]) =>
           /\ friends'[c] = "active" => friends[c] = "active"
           /\ c \in asked' => c \in asked
           /\ c \in greeted' => c \in greeted
           /\ Len(directs'[PairOf(c)]) = Len(directs[PairOf(c)])]_<<serial, blocks, contactVars>>
  BY <1>1 DEF NothingNew
<1> QED BY <1>2, PeopleAlways, PTL DEF PeopleSpec, NoContactAcrossABlock

\* A group has an owner whatever part of the application moves.
THEOREM GroupsAreOwned == PeopleSpec => []GroupHasItsOwner
<1> DEFINE NotYet == part # "groups" => group = NoGroup
<1>1. PeopleInit => NotYet BY DEF PeopleInit, GroupsInit
<1>2. NotYet /\ [PeopleNext]_peopleVars => NotYet'
  BY DEF PeopleNext, AtRestBut, peopleVars, groupVars
<1>3. PeopleInv /\ NotYet => GroupHasItsOwner
  BY DEF PeopleInv, GroupInv, GroupHasItsOwner, NoGroup
<1> QED BY <1>1, <1>2, <1>3, PeopleAlways, PTL DEF PeopleSpec

\* create_transfer, accept_transfer and cancel_transfer implement the escrow inside
\* the whole application too.
THEOREM PeopleImplementEscrow == PeopleSpec => TransfersAreEscrow
<1>1. PeopleInit => E!Init BY TransfersInitially DEF PeopleInit
<1>2. PeopleInv /\ [PeopleNext]_peopleVars => [serial => E!Next]_(E!escrowVars)
  <2> SUFFICES ASSUME PeopleInv, [PeopleNext]_peopleVars
               PROVE  [serial => E!Next]_(E!escrowVars)
    OBVIOUS
  <2>1. CASE UNCHANGED transferVars BY <2>1 DEF transferVars, E!escrowVars
  <2>2. CASE part = "transfers" /\ TransfersNext BY <2>2, TransfersStep DEF PeopleInv
  <2> QED BY <2>1, <2>2 DEF PeopleNext, AtRestBut, peopleVars
<1> QED BY <1>1, <1>2, PeopleAlways, PTL DEF PeopleSpec, TransfersAreEscrow
===============================================================================
