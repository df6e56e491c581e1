------------------------------- MODULE Outreach -------------------------------
(***************************************************************************)
(* What the operators send (src/app/modules/ops/service.py, admin/ops.py): *)
(* push campaigns, notifications and the answers to feedback.              *)
(*                                                                         *)
(* A notification is a row of the inbox; the push that follows it never    *)
(* raises and, with the providers wired so far, reaches nobody.  Titles    *)
(* and texts are left out.                                                 *)
(***************************************************************************)
EXTENDS Requests, Functions, Sequences

CONSTANTS
  Senders,    \* admins who send, and who reply to feedback
  Campaigns,
  Reached,    \* the 100 users a campaign without a list goes to
  MaxNotes    \* named bound: notifications of one user

ASSUME OutreachAssumption ==
  Reached \subseteq Users /\ IsFiniteSet(Users) /\ IsFiniteSet(Campaigns)

VARIABLES
  campaign,   \* push_campaigns: status and sent_count of each
  inbox,      \* inbox[u][c]: notifications u has of campaign c
  unread,     \* unread[u]: notifications of u with no read_at
  announced,  \* PUSH_CAMPAIGN_SENT events of each campaign, by their sent_count
  feedback,   \* the status of the feedback of each user, or "none"
  replies,    \* replies to the feedback of each user that notified (history)
  outTx       \* outTx[s]: the open request of sender s

outreachVars == <<campaign, inbox, unread, announced, feedback, replies, outTx>>

NoOutTx == [op |-> "idle", on |-> "none", count |-> 0, to |-> <<>>]

OutreachInit ==
  /\ campaign = [c \in Campaigns |-> [status |-> "draft", count |-> 0]]
  /\ inbox = [u \in Users |-> [c \in Campaigns |-> 0]]
  /\ unread = [u \in Users |-> 0]
  /\ announced = [c \in Campaigns |-> <<>>]
  /\ feedback = [u \in Users |-> "none"] /\ replies = [u \in Users |-> 0]
  /\ outTx = [s \in Senders |-> NoOutTx]

\* create_notification: one row of the inbox, unread (times many of them).
Notified(times) == [u \in Users |-> unread[u] + times[u]]

\* _resolve_campaign_audience: a list is taken as it is, twice the same user
\* included, but for ids that are none, so that nobody may be left; without a list the
\* newest users are taken.
Audiences ==
  {[u \in Users |-> 0]} \cup {[u \in Users |-> IF u \in Reached THEN 1 ELSE 0]}
    \cup {[u \in Users |-> IF u = v THEN n ELSE 0] : v \in Users, n \in 1..2}

\* A plausible slip: the status is not looked at.
SendableAgain(c) == campaign[c].status \in {"draft", "sent"}

\* send_campaign: one that is not sent yet.
Sendable(c) == campaign[c].status # "sent"

BeginSend(s, c, audience) ==
  /\ MayBegin(outTx, s, NoOutTx) /\ Sendable(c)
  /\ outTx' = [outTx EXCEPT ![s] =
       [op |-> "send", on |-> c, count |-> campaign[c].count, to |-> audience]]
  /\ UNCHANGED <<serial, blocks, campaign, inbox, unread, announced, feedback, replies>>

\* One notification after the other, the status, the count and the event are one
\* transaction; the row is read without a lock, and a count of 0 is what was read, so
\* that a send to nobody does not write it.
CommitSend(s) ==
  LET t == outTx[s] IN
  /\ t.op = "send" /\ \A u \in Users : t.to[u] > 0 => inbox[u][t.on] < MaxNotes
  /\ campaign' = [campaign EXCEPT ![t.on] =
       [status |-> "sent", count |-> WrittenBack(@.count, t.count, SumFunction(t.to))]]
  /\ inbox' = [u \in Users |-> [inbox[u] EXCEPT ![t.on] = @ + t.to[u]]]
  /\ unread' = Notified(t.to)
  /\ announced' = [announced EXCEPT ![t.on] = Append(@, SumFunction(t.to))]
  /\ outTx' = [outTx EXCEPT ![s] = NoOutTx]
  /\ UNCHANGED <<serial, blocks, feedback, replies>>

\* The request fails on any of its notifications, an unknown user for instance.
AbortSend(s) ==
  /\ outTx[s].op = "send"
  /\ outTx' = [outTx EXCEPT ![s] = NoOutTx]
  /\ UNCHANGED <<serial, blocks, campaign, inbox, unread, announced, feedback, replies>>

\* mark_notifications_read: one UPDATE, of all or of some.
MarkRead(u, n) ==
  /\ n \in 1..unread[u] /\ unread' = [unread EXCEPT ![u] = @ - n]
  /\ UNCHANGED <<serial, blocks, campaign, inbox, announced, feedback, replies, outTx>>

\* create_feedback (named bound: one per user).
GiveFeedback(u) ==
  /\ feedback[u] = "none" /\ feedback' = [feedback EXCEPT ![u] = "open"]
  /\ UNCHANGED <<serial, blocks, campaign, inbox, unread, announced, replies, outTx>>

\* reply_feedback: also one that was replied to; each reply notifies.
Reply(u) ==
  /\ feedback[u] # "none" /\ replies[u] < MaxNotes
  /\ feedback' = [feedback EXCEPT ![u] = "replied"]
  /\ replies' = [replies EXCEPT ![u] = @ + 1]
  /\ unread' = Notified([v \in Users |-> IF v = u THEN 1 ELSE 0])
  /\ UNCHANGED <<serial, blocks, campaign, inbox, announced, outTx>>

OutreachNext ==
  \/ \E s \in Senders :
       \/ \E c \in Campaigns, audience \in Audiences : BeginSend(s, c, audience)
       \/ CommitSend(s) \/ AbortSend(s)
  \/ \E u \in Users : \/ GiveFeedback(u) \/ Reply(u)
                      \/ \E n \in 1..unread[u] : MarkRead(u, n)
-----------------------------------------------------------------------------
OutreachTypeOK ==
  /\ campaign \in [Campaigns -> [status : {"draft", "sent"}, count : Nat]]
  /\ \A u \in Users : unread[u] <= replies[u] + SumFunction(inbox[u])
  /\ feedback \in [Users -> {"none", "open", "replied"}]

Delivered(c) == SumFunction([u \in Users |-> inbox[u][c]])

\* send_campaign: the notifications of a campaign are those its events announce,
\* none of a send that failed half way, and the campaign says what the last one
\* sent that reached anybody.  Where requests do not overlap a campaign goes out once:
\* nobody is notified by a second send, and what it says is what the one send did.
CampaignGoesOutOnce ==
  \A c \in Campaigns :
    LET sends == announced[c]
        full == {i \in DOMAIN sends : sends[i] > 0} IN
    /\ Delivered(c) = SumFunction([i \in DOMAIN sends |-> sends[i]])
    /\ campaign[c].status = IF sends = <<>> THEN "draft" ELSE "sent"
    /\ IF full = {} THEN campaign[c].count = 0
       ELSE \E i \in full : campaign[c].count = sends[i] /\ \A j \in full : j <= i
    /\ serial => Len(sends) <= 1
=============================================================================
