------------------------------- MODULE Contacts ------------------------------
(***************************************************************************)
(* Who may reach whom: direct conversations and their message requests,    *)
(* friend requests and friendships (src/app/modules/messaging/service.py), *)
(* greetings (src/app/modules/companion/service.py) and the blocks that    *)
(* forbid them.                                                            *)
(*                                                                         *)
(* Friend requests that were answered leave no trace that matters: asked   *)
(* and greeted hold the pending rows.  A direct conversation is never left *)
(* nor dissolved.                                                          *)
(***************************************************************************)
EXTENDS Requests, Sequences

VARIABLES
  friends,   \* friends[c]: the status of the row <<user, friend>>, or "none"
  asked,     \* pending friend_requests, as <<from, to>>
  greeted,   \* buddy_greetings, as <<from, to>>; they stay "sent"
  directs,   \* directs[p]: the direct conversations of the pair p
  contactTx  \* contactTx[u]: the open request of u

contactVars == <<friends, asked, greeted, directs, contactTx>>

\* A direct conversation: who opened it, its message request, its
\* is_message_request mark.
Direct == [from : Users, request : {"none", "pending", "accepted", "rejected"},
           marked : BOOLEAN]

NoContactTx == [op |-> "idle", c |-> <<>>, row |-> "none",
                found |-> FALSE, friend |-> FALSE]

ContactsInit ==
  /\ friends = [c \in Couples |-> "none"]
  /\ asked = {} /\ greeted = {}
  /\ directs = [p \in Pairs |-> <<>>]
  /\ contactTx = [u \in Users |-> NoContactTx]

Peer(c) == <<c[2], c[1]>>
PairOf(c) == {c[1], c[2]}

\* A request of c[1] towards c[2] reads a friendship row and looks for the
\* direct conversation.  Of the two rows of a friendship the second is read
\* after the first and not before it: in the Commit action.
BeginContact(c, op, row) ==
  /\ MayBegin(contactTx, c[1], NoContactTx)
  /\ contactTx' = [contactTx EXCEPT ![c[1]] =
       [op |-> op, c |-> c, row |-> row,
        found |-> directs[PairOf(c)] # <<>>, friend |-> friends[c] = "active"]]
  /\ UNCHANGED <<serial, blocks, friends, asked, greeted, directs>>

EndContact(u) == contactTx' = [contactTx EXCEPT ![u] = NoContactTx]

\* The request fails: nothing of it is kept.
AbortContact(u) ==
  /\ contactTx[u] # NoContactTx
  /\ EndContact(u)
  /\ UNCHANGED <<serial, blocks, friends, asked, greeted, directs>>

\* A plausible slip: the conversation that exists is not looked for.
OpenedAlways(seq, t, areFriends) ==
  Append(seq, [from |-> t.c[1], request |-> "none", marked |-> FALSE])

\* What open_direct adds: nothing where it found a conversation, else one that
\* strangers must ask for.
Opened(seq, t, areFriends) ==
  IF t.found THEN seq
  ELSE Append(seq, IF areFriends
                   THEN [from |-> t.c[1], request |-> "none", marked |-> FALSE]
                   ELSE [from |-> t.c[1], request |-> "pending", marked |-> TRUE])

\* open_direct
BeginOpen(c) == ~IsBlockedEither(c[1], c[2]) /\ BeginContact(c, "open", "none")

CommitOpen(u) ==
  LET t == contactTx[u] IN
  /\ t.op = "open"
  /\ directs' = [directs EXCEPT ![PairOf(t.c)] = Opened(@, t, t.friend)]
  /\ EndContact(u)
  /\ UNCHANGED <<serial, blocks, friends, asked, greeted>>

\* send_friend_request; a pending one is answered as it is.  Joining an activity
\* with a message to its host sends one the same way.
BeginAsk(c) ==
  /\ friends[c] # "active" /\ ~IsBlockedEither(c[1], c[2]) /\ c \notin asked
  /\ BeginContact(c, "ask", "none")

CommitAsk(u) ==
  /\ contactTx[u].op = "ask"
  /\ asked' = asked \cup {contactTx[u].c}
  /\ EndContact(u)
  /\ UNCHANGED <<serial, blocks, friends, greeted, directs>>

\* A plausible slip: the friendship is made first and open_direct is not asked
\* where a conversation exists.
BeginAcceptAny(c) ==
  /\ Peer(c) \in asked
  /\ ~IsBlockedEither(c[1], c[2]) \/ directs[PairOf(c)] # <<>>
  /\ BeginContact(c, "accept", friends[Peer(c)])

\* respond_friend_request "accept": it ends in open_direct, so that a block
\* refuses the whole of it.
BeginAccept(c) ==
  /\ Peer(c) \in asked /\ ~IsBlockedEither(c[1], c[2])
  /\ BeginContact(c, "accept", friends[Peer(c)])

\* _create_friendship inserts a row it did not find; if the row has appeared since
\* that violates uq_friendship_pair.
CommitAccept(u) ==
  LET t == contactTx[u] IN
  /\ t.op = "accept"
  /\ t.row = "none" => friends[Peer(t.c)] = "none"
  /\ asked' = asked \ {Peer(t.c)}
  /\ friends' = [friends EXCEPT ![Peer(t.c)] = WrittenBack(@, t.row, "active"),
                                ![t.c] = "active"]
  /\ directs' = [directs EXCEPT ![PairOf(t.c)] = Opened(@, t, TRUE)]
  /\ EndContact(u)
  /\ UNCHANGED <<serial, blocks, greeted>>

\* respond_friend_request "decline": nothing it read has changed meanwhile, only
\* its own user answers a request.
Decline(c) ==
  /\ MayBegin(contactTx, c[1], NoContactTx) /\ Peer(c) \in asked
  /\ asked' = asked \ {Peer(c)}
  /\ UNCHANGED <<serial, blocks, friends, greeted, directs, contactTx>>

\* delete_friend: both rows, where there are any.
BeginUnfriend(c) == BeginContact(c, "unfriend", friends[c])

CommitUnfriend(u) ==
  LET t == contactTx[u]
      Off(now, read) == IF read = "none" THEN now ELSE WrittenBack(now, read, "deleted")
      peers == friends[Peer(t.c)]
  IN
  /\ t.op = "unfriend"
  /\ friends' = [friends EXCEPT ![t.c] = Off(@, t.row),
                                ![Peer(t.c)] = Off(@, peers)]
  /\ EndContact(u)
  /\ UNCHANGED <<serial, blocks, asked, greeted, directs>>

\* respond_message_request, by the one who was written to.
AnswerRequest(c) ==
  /\ MayBegin(contactTx, c[1], NoContactTx)
  /\ \E i \in DOMAIN directs[PairOf(c)], answer \in {"accepted", "rejected"} :
       /\ directs[PairOf(c)][i].request = "pending"
       /\ directs[PairOf(c)][i].from = c[2]
       /\ directs' = [directs EXCEPT ![PairOf(c)][i] =
            [@ EXCEPT !.request = answer, !.marked = (answer = "rejected")]]
  /\ UNCHANGED <<serial, blocks, friends, asked, greeted, contactTx>>

\* greet: once.
BeginGreet(c) ==
  /\ ~IsBlockedEither(c[1], c[2]) /\ c \notin greeted
  /\ BeginContact(c, "greet", "none")

CommitGreet(u) ==
  /\ contactTx[u].op = "greet"
  /\ greeted' = greeted \cup {contactTx[u].c}
  /\ EndContact(u)
  /\ UNCHANGED <<serial, blocks, friends, asked, directs>>

\* create_block and delete_block: no contact that exists is ended by a block.
SetBlock(c) ==
  /\ MayBegin(contactTx, c[1], NoContactTx)
  /\ (c \notin blocks /\ AddBlock(c[1], c[2])) \/ DropBlock(c[1], c[2])
  /\ UNCHANGED <<serial, contactVars>>

ContactStep(c) ==
  \/ BeginOpen(c) \/ BeginAsk(c) \/ BeginAccept(c) \/ BeginUnfriend(c) \/ BeginGreet(c)
  \/ Decline(c) \/ AnswerRequest(c) \/ SetBlock(c)

ContactCommit(u) ==
  \/ CommitOpen(u) \/ CommitAsk(u) \/ CommitAccept(u) \/ CommitUnfriend(u)
  \/ CommitGreet(u) \/ AbortContact(u)

ContactsNext ==
  \/ \E c \in Couples : ContactStep(c)
  \/ \E u \in Users : ContactCommit(u)
-----------------------------------------------------------------------------
ContactsTypeOK ==
  /\ friends \in [Couples -> {"none", "active", "deleted"}]
  /\ asked \subseteq Couples /\ greeted \subseteq Couples
  /\ DOMAIN directs = Pairs /\ \A p \in Pairs : directs[p] \in Seq(Direct)
  /\ \A u \in Users : contactTx[u] = NoContactTx \/ contactTx[u].c \in Couples

\* is_blocked_either in open_direct, send_friend_request, respond_friend_request
\* and greet: as long as a block stands, no friendship, friend request,
\* greeting or direct conversation of the two comes to be, whoever blocked whom
\* and whatever was pending when the block was made (requests that overlap the
\* block may still slip in).
NoContactAcrossABlock ==
  [][serial => \A c \in Couples : IsBlockedEither(c[1], c[2]) =>
       /\ friends'[c] = "active" => friends[c] = "active"
       /\ c \in asked' => c \in asked
       /\ c \in greeted' => c \in greeted
       /\ Len(directs'[PairOf(c)]) = Len(directs[PairOf(c)])]_<<serial, blocks, contactVars>>

\* respond_friend_request and delete_friend: friends have a direct conversation
\* with each other, at most one where requests do not overlap and never a third;
\* and friendship is mutual where requests do not overlap (an acceptance between
\* the two reads of delete_friend leaves one row of two).
FriendsShareAChat ==
  \A c \in Couples :
    LET n == Len(directs[PairOf(c)]) IN
    /\ friends[c] = "active" => n > 0 /\ (serial => friends[Peer(c)] = "active")
    /\ n <= IF serial THEN 1 ELSE 2
=============================================================================
