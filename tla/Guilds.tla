-------------------------------- MODULE Guilds -------------------------------
(***************************************************************************)
(* One guild of companions: its followers and the conversations in which   *)
(* users consult it (GuildService of src/app/modules/clubs/service.py).    *)
(* Guilds are made and changed by the operators only.                      *)
(*                                                                         *)
(* A consultation is a chat group of a user and the guild's owner, if the  *)
(* guild has one; what the messaging endpoints do to a group is in Groups, *)
(* and here as far as it changes who is in one: leaving, with the heir, is *)
(* one step, and any other change of members is MeddleInConsult.           *)
(***************************************************************************)
EXTENDS Requests, Sequences

CONSTANT MaxConsults  \* named bound

VARIABLES
  guild,     \* the guilds row: status and owner_user_id, or "none"
  follows,   \* guild_follows
  consults,  \* the conversations whose meta names the guild, in order
  handed,    \* handed[u]: whose consultation chat gave u last, or "none" (history)
  inside,    \* who was ever the guild's owner, or was added to a chat (history)
  guildTx    \* guildTx[u]: u's open request

guildVars == <<guild, follows, consults, handed, inside, guildTx>>

NoGuildTx == [op |-> "idle", owner |-> "none", followed |-> FALSE]

\* admin_upsert: with an owner or without.
GuildsInit ==
  /\ guild \in [status : {"active"}, owner : Members \cup {"none"}]
  /\ follows = {} /\ consults = <<>>
  /\ handed = [u \in Members |-> "none"]
  /\ inside = {guild.owner} \ {"none"}
  /\ guildTx = [u \in Members |-> NoGuildTx]

\* _get: a hidden guild is not found.
BeginGuild(u, op) ==
  /\ guild.status = "active" /\ MayBegin(guildTx, u, NoGuildTx)
  /\ guildTx' = [guildTx EXCEPT ![u] =
       [op |-> op, owner |-> guild.owner, followed |-> u \in follows]]
  /\ UNCHANGED <<serial, blocks, guild, follows, consults, handed, inside>>

EndGuild(u) == guildTx' = [guildTx EXCEPT ![u] = NoGuildTx]

BeginFollow(u) == \E op \in {"follow", "unfollow"} : BeginGuild(u, op)

\* follow: the row is inserted or deleted as it was read (uq_guild_follow).
CommitFollow(u) ==
  LET t == guildTx[u] IN
  /\ t.op \in {"follow", "unfollow"}
  /\ follows' = CASE t.op = "follow" /\ ~t.followed -> follows \cup {u}
                  [] t.op = "unfollow" /\ t.followed -> follows \ {u}
                  [] OTHER -> follows
  /\ EndGuild(u)
  /\ UNCHANGED <<serial, blocks, guild, consults, handed, inside>>

\* A plausible slip: only conversations that the user owns are looked at.
FoundOwned(u) ==
  {i \in DOMAIN consults : consults[i].open /\ u \in consults[i].in /\ consults[i].owner = u}

\* chat: the active conversations of the guild in which the user is active.
Found(u) == {i \in DOMAIN consults : consults[i].open /\ u \in consults[i].in}

\* chat that finds a conversation: any of them, their order is left open.
Reopen(u) ==
  /\ guild.status = "active" /\ MayBegin(guildTx, u, NoGuildTx)
  /\ \E i \in Found(u) : handed' = [handed EXCEPT ![u] = consults[i].asker]
  /\ UNCHANGED <<serial, blocks, guild, follows, consults, inside, guildTx>>

BeginConsult(u) == Found(u) = {} /\ BeginGuild(u, "chat")

\* chat that opens one, with the owner it has read.
CommitConsult(u) ==
  LET others == {guildTx[u].owner} \ {"none", u} IN
  /\ guildTx[u].op = "chat" /\ Len(consults) < MaxConsults
  /\ consults' = Append(consults,
       [asker |-> u, owner |-> IF guildTx[u].owner = "none" THEN u ELSE guildTx[u].owner,
        in |-> {u} \cup others, hosts |-> others, open |-> TRUE])
  /\ handed' = [handed EXCEPT ![u] = u]
  /\ EndGuild(u)
  /\ UNCHANGED <<serial, blocks, guild, follows, inside>>

\* leave_or_kick of oneself: a host hands over to another member, if any.
LeaveConsult(u, i) ==
  LET k == consults[i]  rest == k.in \ {u} IN
  /\ k.open /\ u \in k.in /\ MayBegin(guildTx, u, NoGuildTx)
  /\ IF u \notin k.hosts THEN consults' = [consults EXCEPT ![i].in = rest]
     ELSE IF rest = {} THEN consults' = [consults EXCEPT ![i].in = rest, ![i].open = FALSE]
     ELSE \E heir \in rest :
            consults' = [consults EXCEPT ![i].in = rest, ![i].owner = heir,
                                         ![i].hosts = @ \cup {heir}]
  /\ UNCHANGED <<serial, blocks, guild, follows, handed, inside, guildTx>>

\* add_members, kicking or dissolving by a host.
MeddleInConsult(u, v, i) ==
  LET k == consults[i] IN
  /\ k.open /\ u \in k.in \cap k.hosts /\ v # u /\ MayBegin(guildTx, u, NoGuildTx)
  /\ \/ /\ v \notin k.in /\ consults' = [consults EXCEPT ![i].in = @ \cup {v}]
        /\ inside' = inside \cup {v}
     \/ /\ v \in k.in \ k.hosts /\ consults' = [consults EXCEPT ![i].in = @ \ {v}]
        /\ UNCHANGED inside
     \/ /\ consults' = [consults EXCEPT ![i].in = {}, ![i].open = FALSE]
        /\ UNCHANGED inside
  /\ UNCHANGED <<serial, blocks, guild, follows, handed, guildTx>>

\* admin_upsert: another owner or none, hidden or shown.
ChangeGuild ==
  /\ \E to \in [status : {"active", "hidden"}, owner : Members \cup {"none"}] :
       /\ to # guild /\ guild' = to
       /\ inside' = inside \cup ({to.owner} \ {"none"})
  /\ UNCHANGED <<serial, blocks, follows, consults, handed, guildTx>>

AbortGuild(u) ==
  /\ guildTx[u] # NoGuildTx /\ EndGuild(u)
  /\ UNCHANGED <<serial, blocks, guild, follows, consults, handed, inside>>

GuildsNext ==
  \/ \E u \in Members :
       \/ BeginFollow(u) \/ CommitFollow(u) \/ AbortGuild(u)
       \/ Reopen(u) \/ BeginConsult(u) \/ CommitConsult(u)
       \/ \E i \in DOMAIN consults :
            LeaveConsult(u, i) \/ \E v \in Members : MeddleInConsult(u, v, i)
  \/ ChangeGuild
-----------------------------------------------------------------------------
GuildsTypeOK ==
  /\ guild.status \in {"active", "hidden"} /\ guild.owner \in Members \cup {"none"}
  /\ follows \subseteq Members
  /\ \A i \in DOMAIN consults :
       /\ consults[i].in \subseteq Members
       /\ consults[i].owner \in Members /\ consults[i].asker \in Members

\* chat: a user who asks again is handed their own consultation, and has one at
\* most, whatever becomes of the guild, its owner and the chat meanwhile.  (Who
\* was the guild's owner is in the consultations of others, as are those who were
\* added to one, and chat may hand them one of those.)
OwnConsultation ==
  \A u \in Members \ inside :
    /\ handed[u] \in {u, "none"}
    /\ Cardinality({i \in Found(u) : consults[i].asker = u}) <= 1
=============================================================================
