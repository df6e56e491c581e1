-------------------------------- MODULE Clubs --------------------------------
(***************************************************************************)
(* One club, its members and its chat: ClubService of                      *)
(* src/app/modules/clubs/service.py, the admin's hide, unhide and dissolve, *)
(* and what the messaging endpoints do to a conversation of kind "circle". *)
(*                                                                         *)
(* The club is created by a user, or official (seeded, with no creator and *)
(* a made-up count).  Official or not, chat[u] is u's row in the           *)
(* conversation that club.conversation_id names.  Whether a block with the *)
(* creator refuses a join is left open.                                    *)
(***************************************************************************)
EXTENDS Requests

CONSTANT SeededCount  \* the member_count an official club starts with

ASSUME ClubsAssumption == SeededCount \in Nat /\ "none" \notin Members

VARIABLES
  club,     \* status, member_count, creator_id; the number and status of the
            \* conversation that conversation_id names
  seats,    \* seats[u]: the club_members row of u
  chat,     \* chat[u]: the status of u's conversation_members row
  base,     \* how much of member_count nobody joined for (history)
  adrift,   \* whose rows were last written by the messaging endpoints, or by a
            \* request that another one had overtaken (history)
  clubTx    \* clubTx[u]: the open request of u, or of an admin ("ops")

clubVars == <<club, seats, chat, base, adrift, clubTx>>

NoClub == [status |-> "absent", count |-> 0, creator |-> "none", room |-> 0, conv |-> "none"]
NoSeat == [status |-> "absent", role |-> "member"]

\* An open request: its operation and whom it is about; the club row as read; what
\* it reads next; the conversation's status and the chat row as read; for _dissolve,
\* the members and the chat rows as read; whose rows others wrote since it began.
NoClubTx == [op |-> "idle", on |-> "none", count |-> 0, room |-> 0, next |-> "done",
             conv |-> "none", row |-> "absent", batch |-> {}, rows |-> {}, lost |-> {}]

ClubsInit ==
  /\ base \in {0, SeededCount}
  /\ club = IF base = 0 THEN NoClub
            ELSE [NoClub EXCEPT !.status = "active", !.count = base]
  /\ seats = [u \in Members |-> NoSeat]
  /\ chat = [u \in Members |-> "absent"]
  /\ adrift = {}
  /\ clubTx = [u \in Members \cup {"ops"} |-> NoClubTx]

Joined(u) == seats[u].status = "active"

\* _get: a hidden club is there for its creator only.
Visible(u) == club.status = "active" \/ (club.status = "hidden" /\ club.creator = u)

\* create; with the id of a club that exists it changes nothing.
CreateClub(u) ==
  /\ MayBegin(clubTx, u, NoClubTx) /\ club = NoClub
  /\ club' = [status |-> "active", count |-> 1, creator |-> u, room |-> 1, conv |-> "active"]
  /\ seats' = [seats EXCEPT ![u] = [status |-> "active", role |-> "owner"]]
  /\ chat' = [chat EXCEPT ![u] = "active"]
  /\ UNCHANGED <<serial, blocks, base, adrift, clubTx>>

\* A request has read the club row; who enters the chat has no use for the count.
BeginClub(u, op, v) ==
  /\ MayBegin(clubTx, u, NoClubTx)
  /\ clubTx' = [clubTx EXCEPT ![u] = [NoClubTx EXCEPT
       !.op = op, !.on = v, !.count = IF op = "enter" THEN 0 ELSE club.count,
       !.room = club.room, !.next = IF op = "kick" THEN "me" ELSE "seat"]]
  /\ UNCHANGED <<serial, blocks, club, seats, chat, base, adrift>>

BeginJoin(u) == club.status = "active" /\ BeginClub(u, "join", u)
\* leave, also from the chat (leave_or_kick of a circle).
BeginExit(u) == Visible(u) /\ BeginClub(u, "leave", u)
BeginExpel(u, v) == Visible(u) /\ BeginClub(u, "kick", v)
BeginEnter(u) == Visible(u) /\ BeginClub(u, "enter", u)

\* dissolve by the creator, or by an admin whatever the status of the club.
BeginDisband(u) ==
  /\ IF u = "ops" THEN club.status # "absent" ELSE Visible(u) /\ club.creator = u
  /\ BeginClub(u, "dissolve", "none")

\* The SELECT of the membership of whoever kicks: the owner may.
ReadMe(u) ==
  /\ clubTx[u].next = "me" /\ Joined(u) /\ seats[u].role = "owner"
  /\ clubTx' = [clubTx EXCEPT ![u].next = "seat"]
  /\ UNCHANGED <<serial, blocks, club, seats, chat, base, adrift>>

\* Who passes the guards on club_members: no member joins, nor whom the club has
\* kicked; a member leaves who is not the creator; a member is kicked who is not an
\* owner; a member enters the chat.
Admits(u, t) ==
  CASE t.op = "join"  -> seats[u].status \notin {"active", "kicked"}
    [] t.op = "leave" -> Joined(u) /\ ~(seats[u].role = "owner" /\ club.creator = u)
    [] t.op = "kick"  -> Joined(t.on) /\ seats[t.on].role # "owner"
    [] t.op = "enter" -> Joined(u)
    [] OTHER          -> TRUE

\* The SELECT of the membership, or of all active members (_dissolve).
ReadSeats(u) ==
  LET t == clubTx[u] IN
  /\ t.next = "seat" /\ Admits(u, t)
  /\ clubTx' = [clubTx EXCEPT
       ![u].next = IF t.op \in {"leave", "kick"} THEN "chat" ELSE "conv",
       ![u].batch = IF t.op = "dissolve" THEN {v \in Members : Joined(v)} ELSE {}]
  /\ UNCHANGED <<serial, blocks, club, seats, chat, base, adrift>>

\* The request works on the conversation that the club still names: one that has
\* been replaced is what nobody looks at any more.
Current(t) == t.room # 0 /\ t.room = club.room

\* The SELECT of the conversation, which leave and kick do without.
ReadConv(u) ==
  LET t == clubTx[u] IN
  /\ t.next = "conv"
  /\ clubTx' = [clubTx EXCEPT ![u].next = "chat",
                             ![u].conv = IF Current(t) THEN club.conv ELSE "none"]
  /\ UNCHANGED <<serial, blocks, club, seats, chat, base, adrift>>

\* The SELECT of the row in the conversation, or of all of its rows (_dissolve).
ReadChat(u) ==
  LET t == clubTx[u] IN
  /\ t.next = "chat"
  /\ clubTx' = [clubTx EXCEPT ![u].next = "done",
       ![u].row = IF Current(t) /\ t.on \in Members THEN chat[t.on] ELSE "absent",
       ![u].rows = IF Current(t) /\ t.op = "dissolve"
                   THEN {v \in Members : chat[v] \in {"active", "kicked"}} ELSE {}]
  /\ UNCHANGED <<serial, blocks, club, seats, chat, base, adrift>>

\* Whose rows a request is about.
About(t) == IF t.op = "dissolve" THEN Members ELSE {t.on}

\* The open requests have been overtaken on the rows of S.
Overtaken(S) ==
  [v \in DOMAIN clubTx |->
     [clubTx[v] EXCEPT !.lost = @ \cup (S \cap About(clubTx[v]) \cap Members)]]

\* u's request ends, having written rows of S.
EndClub(u, S) == clubTx' = [Overtaken(S) EXCEPT ![u] = NoClubTx]

Less(n) == IF n = 0 THEN 0 ELSE n - 1

\* A request that found no conversation makes one: another one that was made in
\* the meantime is replaced, and the rows in it stay behind.
Makes(t) == t.room = 0
Replaces(t) == Makes(t) /\ club.room # 0
Stranded(t) == IF Makes(t) THEN {v \in Members \ {t.on} : chat[v] = "active"} ELSE {}

\* _ensure_conversation for t.on: the conversation, ...
ConvWith(t) ==
  IF Makes(t) THEN [club EXCEPT !.room = @ + 1, !.conv = "active"]
  ELSE IF t.room = club.room THEN [club EXCEPT !.conv = WrittenBack(@, t.conv, "active")]
  ELSE club

\* ... and the rows in it; one row per conversation and user.
ChatWith(t) ==
  IF Makes(t) THEN [v \in Members |-> IF v = t.on THEN "active" ELSE "absent"]
  ELSE IF t.room = club.room
       THEN [chat EXCEPT ![t.on] = WrittenBack(@, t.row, "active")]
  ELSE chat

InsertsOnce(t) == t.room = club.room /\ t.row = "absent" => chat[t.on] = "absent"

\* Whose rows a request that enters its user wrote.
Wrote(t) == IF Replaces(t) THEN Members ELSE {t.on}

CommitJoin(u) ==
  LET t == clubTx[u]  with == ConvWith(t) IN
  /\ t.op = "join" /\ t.next = "done" /\ InsertsOnce(t)
  /\ seats' = [seats EXCEPT ![u] = [status |-> "active", role |-> "member"]]
  /\ chat' = ChatWith(t)
  /\ adrift' = ((adrift \cup Stranded(t)) \ {u}) \cup t.lost
  /\ club' = [with EXCEPT !.count = t.count + 1]
  /\ EndClub(u, Wrote(t))
  /\ UNCHANGED <<serial, blocks, base>>

\* ClubService.chat: brings a member's row back, and the conversation.  It does not
\* look at the membership again before it writes.
CommitEnter(u) ==
  LET t == clubTx[u] IN
  /\ t.op = "enter" /\ t.next = "done" /\ InsertsOnce(t)
  /\ chat' = ChatWith(t)
  /\ club' = ConvWith(t)
  /\ IF t.row = "active"
     THEN adrift' = adrift /\ EndClub(u, {})
     ELSE /\ adrift' = ((adrift \cup Stranded(t)) \ {u}) \cup t.lost
          /\ EndClub(u, Wrote(t))
  /\ UNCHANGED <<serial, blocks, seats, base>>

\* A plausible slip: the chat is forgotten when a member is kicked.
DroppedFromClub(t) ==
  LET to == IF t.op = "kick" THEN "kicked" ELSE "left" IN
  /\ seats' = [seats EXCEPT ![t.on].status = to]
  /\ chat' = IF t.op = "kick" \/ t.row = "absent" THEN chat
             ELSE [chat EXCEPT ![t.on] = WrittenBack(@, t.row, to)]

\* leave and kick with _drop_conversation_member.
Dropped(t) ==
  LET to == IF t.op = "kick" THEN "kicked" ELSE "left" IN
  /\ seats' = [seats EXCEPT ![t.on].status = to]
  /\ chat' = IF Current(t) /\ t.row # "absent"
             THEN [chat EXCEPT ![t.on] = WrittenBack(@, t.row, to)] ELSE chat

CommitDrop(u) ==
  LET t == clubTx[u] IN
  /\ t.op \in {"leave", "kick"} /\ t.next = "done"
  /\ Dropped(t)
  /\ adrift' = (adrift \ {t.on}) \cup t.lost
  /\ club' = [club EXCEPT !.count = WrittenBack(@, t.count, Less(t.count))]
  /\ EndClub(u, {t.on})
  /\ UNCHANGED <<serial, blocks, base>>

\* A plausible slip: the rows of the members are kept for a later look.
DisbandedLater(batch) == seats

\* What _dissolve makes of the members it read.
Disbanded(batch) ==
  [v \in Members |-> IF v \in batch THEN [seats[v] EXCEPT !.status = "left"] ELSE seats[v]]

CommitDisband(u) ==
  LET t == clubTx[u] IN
  /\ t.op = "dissolve" /\ t.next = "done"
  /\ seats' = Disbanded(t.batch)
  /\ chat' = [v \in Members |-> IF Current(t) /\ v \in t.rows THEN "left" ELSE chat[v]]
  /\ club' = [club EXCEPT !.status = "dissolved", !.count = WrittenBack(@, t.count, 0),
                          !.conv = IF Current(t) THEN WrittenBack(@, t.conv, "dissolved") ELSE @]
  /\ base' = 0
  /\ adrift' = t.lost
  /\ EndClub(u, t.batch \cup t.rows)
  /\ UNCHANGED <<serial, blocks>>

\* The request is refused or raises, or its process dies.
AbortClub(u) ==
  /\ clubTx[u] # NoClubTx
  /\ EndClub(u, {})
  /\ UNCHANGED <<serial, blocks, club, seats, chat, base, adrift>>

\* admin_set_status "hide" and the takedown of a reported club, which ask for no
\* status: a dissolved club becomes a hidden one, and "unhide" then revives it.
SetClubStatus(from, to) ==
  /\ MayBegin(clubTx, "ops", NoClubTx)
  /\ club.status \in from
  /\ club' = [club EXCEPT !.status = to]
  /\ UNCHANGED <<serial, blocks, seats, chat, base, adrift, clubTx>>

Hide == SetClubStatus({"active", "dissolved"}, "hidden")
Unhide == SetClubStatus({"hidden"}, "active")

\* add_members and the kick of leave_or_kick, by the owner of the conversation:
\* they know nothing of the club.
MeddleInChat(u, v) ==
  /\ MayBegin(clubTx, u, NoClubTx)
  /\ u # v /\ u = club.creator /\ club.conv = "active" /\ chat[u] = "active"
  /\ chat' = [chat EXCEPT ![v] = IF @ = "active" THEN "kicked" ELSE "active"]
  /\ adrift' = adrift \cup {v}
  /\ clubTx' = Overtaken({v})
  /\ UNCHANGED <<serial, blocks, club, seats, base>>

ClubsNext ==
  \/ \E u \in Members :
       \/ CreateClub(u) \/ BeginJoin(u) \/ BeginExit(u) \/ BeginEnter(u)
       \/ CommitJoin(u) \/ CommitEnter(u)
       \/ \E v \in Members : BeginExpel(u, v) \/ MeddleInChat(u, v)
  \/ \E u \in DOMAIN clubTx :
       \/ BeginDisband(u) \/ ReadMe(u) \/ ReadSeats(u) \/ ReadConv(u) \/ ReadChat(u)
       \/ CommitDrop(u) \/ CommitDisband(u) \/ AbortClub(u)
  \/ Hide \/ Unhide
-----------------------------------------------------------------------------
ClubsTypeOK ==
  /\ club.status \in {"absent", "active", "hidden", "dissolved"}
  /\ club.count \in Nat /\ club.creator \in Members \cup {"none"}
  /\ club.conv \in {"none", "active", "dissolved"} /\ club.room \in Nat
  /\ \A u \in Members :
       /\ seats[u].status \in {"absent", "active", "left", "kicked"}
       /\ chat[u] \in {"absent", "active", "left", "kicked"}
  /\ base \in {0, SeededCount} /\ adrift \subseteq Members

\* join, leave, kick and _dissolve: where requests do not overlap, member_count
\* is the number of active members (plus the seeded count of an official club
\* that was never dissolved), through hiding, dissolving and reviving.
CountsItsMembers ==
  serial => club.count = base + Cardinality({u \in Members : Joined(u)})

\* _ensure_conversation and _drop_conversation_member: whoever is in the chat of
\* the club is a member of it and the other way round.  The exceptions: a row that
\* the messaging endpoints changed, a row left in a conversation that a second first
\* join replaced, and a row last written by a request that another one about the
\* same member had overtaken, as when a kick comes between the look of chat() at the
\* membership and the row it writes.  Each lasts until a request about the member
\* that nothing overtakes writes the row again.
ChatIsTheClub ==
  \A u \in Members \ adrift : chat[u] = "active" <=> Joined(u)
=============================================================================
