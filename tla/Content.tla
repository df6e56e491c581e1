------------------------------- MODULE Content -------------------------------
(***************************************************************************)
(* One post (src/app/modules/community/service.py, reviewed by             *)
(* admin/community.py) or one published activity (activity/service.py),    *)
(* and one counter kept beside the rows it counts: likes, bookmarks or     *)
(* favorites, reposts, comments.                                           *)
(*                                                                         *)
(* No row is locked: a request reads the counter with the item and writes  *)
(* what it computed from that.                                             *)
(***************************************************************************)
EXTENDS Requests

CONSTANT Comments  \* named bound: visible comments of one user on the item

ASSUME ContentAssumption == Comments \in Nat \ {0} /\ "none" \notin Users

VARIABLES
  item,      \* the row: what it is, what its counter counts, status, author or host
  marks,     \* marks[u]: how many rows of u the counter stands for
  approved,  \* an admin has approved the item (history)
  withdrawn, \* its author or an admin has deleted or cancelled it (history)
  itemTx     \* itemTx[u]: the open request of u, or of an admin ("ops")

contentVars == <<item, marks, approved, withdrawn, itemTx>>

NoItemTx == [op |-> "idle", count |-> 0]

\* A post is yet to be written; an activity is there, published.
ContentInit ==
  /\ \E counts \in {"like", "repost", "comment"} :
       \/ item = [is |-> "post", counts |-> counts, status |-> "absent", count |-> 0,
                  author |-> "none"]
       \/ counts # "repost" /\ \E u \in Users :
            item = [is |-> "activity", counts |-> counts, status |-> "published",
                    count |-> 0, author |-> u]
  /\ marks = [u \in Users |-> 0]
  /\ approved = (item.is = "activity") /\ withdrawn = FALSE
  /\ itemTx = [u \in Users \cup {"ops"} |-> NoItemTx]

\* create_post: always pending.
CreatePost(u) ==
  /\ MayBegin(itemTx, u, NoItemTx) /\ item.status = "absent"
  /\ item' = [item EXCEPT !.status = "pending", !.author = u]
  /\ UNCHANGED <<serial, blocks, marks, approved, withdrawn, itemTx>>

BeginItem(u, op) ==
  /\ MayBegin(itemTx, u, NoItemTx) /\ item.status # "absent"
  /\ itemTx' = [itemTx EXCEPT ![u] = [op |-> op, count |-> item.count]]
  /\ UNCHANGED <<serial, blocks, item, marks, approved, withdrawn>>

EndItem(u) == itemTx' = [itemTx EXCEPT ![u] = NoItemTx]

\* A plausible slip: any post that is not published.
ReviewableAgain == item.status # "published"

\* review_post, of a pending post only.
Reviewable == item.status = "pending"

BeginPostReview == item.is = "post" /\ Reviewable /\ BeginItem("ops", "review")

CommitPostReview(u) ==
  /\ itemTx[u].op = "review"
  /\ \E to \in {"published", "rejected"} :
       /\ item' = [item EXCEPT !.status = to]
       /\ approved' = (approved \/ to = "published")
  /\ EndItem(u)
  /\ UNCHANGED <<serial, blocks, marks, withdrawn>>

\* delete_post by the author, _takedown of a reported post by an admin, and for
\* an activity cancel by its host (ActivityRoster has the whole of it).
BeginWithdraw(u) ==
  /\ u = item.author \/ (u = "ops" /\ item.is = "post")
  /\ item.status # "deleted"
  /\ BeginItem(u, "withdraw")

CommitWithdraw(u) ==
  /\ itemTx[u].op = "withdraw"
  /\ item' = [item EXCEPT !.status = "deleted"]
  /\ withdrawn' = TRUE
  /\ EndItem(u)
  /\ UNCHANGED <<serial, blocks, marks, approved>>

\* _get_published_post, _get_published
Published == item.status = "published"

\* like, favorite: once; as it is when the row exists.
BeginLikeItem(u) == Published /\ item.counts = "like" /\ marks[u] = 0 /\ BeginItem(u, "mark")

\* bookmark counts as like does; repost cannot be taken back.
BeginRepost(u) == Published /\ item.counts = "repost" /\ marks[u] = 0 /\ BeginItem(u, "mark")

\* add_comment
BeginComment(u) ==
  /\ Published /\ item.counts = "comment" /\ marks[u] < Comments
  /\ BeginItem(u, "mark")

\* A plausible slip: the row is not looked for.
BeginUnlikeAny(u) == Published /\ item.counts = "like" /\ BeginItem(u, "unmark")

\* unlike, unbookmark, unfavorite: not any more once the item is withdrawn.
BeginUnlikeItem(u) == Published /\ item.counts = "like" /\ marks[u] > 0 /\ BeginItem(u, "unmark")

\* delete_comment of an activity, by its author (the host removes those of
\* others in the same way) and whatever the status of the activity.
BeginUncomment(u) ==
  /\ item.is = "activity" /\ item.counts = "comment" /\ marks[u] > 0
  /\ BeginItem(u, "unmark")

CommitMark(u) ==
  /\ itemTx[u].op = "mark"
  /\ marks' = [marks EXCEPT ![u] = @ + 1]
  /\ item' = [item EXCEPT !.count = itemTx[u].count + 1]
  /\ EndItem(u)
  /\ UNCHANGED <<serial, blocks, approved, withdrawn>>

Fewer(n) == IF n = 0 THEN 0 ELSE n - 1

CommitUnmark(u) ==
  /\ itemTx[u].op = "unmark"
  /\ marks' = [marks EXCEPT ![u] = Fewer(@)]
  /\ item' = [item EXCEPT !.count = WrittenBack(@, itemTx[u].count, Fewer(itemTx[u].count))]
  /\ EndItem(u)
  /\ UNCHANGED <<serial, blocks, approved, withdrawn>>

ContentStep(u) ==
  \/ CreatePost(u) \/ BeginLikeItem(u) \/ BeginRepost(u) \/ BeginComment(u)
  \/ BeginUnlikeItem(u) \/ BeginUncomment(u) \/ CommitMark(u) \/ CommitUnmark(u)

ContentNext ==
  \/ \E u \in Users : ContentStep(u)
  \/ BeginPostReview
  \/ \E u \in DOMAIN itemTx : CommitPostReview(u) \/ BeginWithdraw(u) \/ CommitWithdraw(u)
-----------------------------------------------------------------------------
ContentTypeOK ==
  /\ item.status \in {"absent", "pending", "published", "rejected", "deleted"}
  /\ item.count \in Nat /\ item.author \in Users \cup {"none"}
  /\ marks \in [Users -> 0..Comments]
  /\ approved \in BOOLEAN /\ withdrawn \in BOOLEAN

\* The rows that the counter stands for, numbered for each user.
Marked == UNION {{u} \X (1..marks[u]) : u \in Users}

\* like, bookmark, repost, add_comment and their opposites: where requests do
\* not overlap, the counter of an item is the number of rows it stands for.
CountsItsMarks ==
  serial => item.count = Cardinality(Marked)

\* create_post ("Always pending until admin review"), review_post and
\* delete_post: nobody is shown a post that no admin approved, or marks one; and
\* what its author or an admin withdrew stays withdrawn (an approval that
\* overlaps the withdrawal undoes it).
ShownIsApproved ==
  /\ Published \/ (\E u \in Users : marks[u] > 0) => approved
  /\ serial /\ withdrawn => item.status = "deleted"
=============================================================================
