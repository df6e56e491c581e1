------------------------------- MODULE Matching ------------------------------
(***************************************************************************)
(* Swipes and matches (src/app/modules/match/service.py) and the blocks    *)
(* that end a match (src/app/modules/safety/service.py).                   *)
(*                                                                         *)
(* A swipe may be refused for reasons that change nothing here: a limited  *)
(* or incomplete account, a target who is gone or not discoverable, an     *)
(* Idempotency-Key that was used.  A swipe never looks at the blocks.      *)
(***************************************************************************)
EXTENDS Requests

CONSTANT LikeLimit  \* daily_like_limit or new_user_like_limit

ASSUME MatchingAssumption == LikeLimit \in Nat

VARIABLES
  swipes,   \* swipes[c]: the action of row c = <<actor, target>> (unique), or "none"
  matches,  \* matches[p]: the status of the row of the pair p (unique), or "none"
  likes,    \* likes[u]: the Redis counter swipe:like:u:<today>
  late,     \* pairs matched while a block of them stood or was being made (history)
  matchTx   \* matchTx[u]: the open request of u

matchVars == <<swipes, matches, likes, late, matchTx>>

NoSwipeTx == [op |-> "idle", with |-> {}, mutual |-> FALSE, row |-> "none"]

MatchInit ==
  /\ swipes = [c \in Couples |-> "none"]
  /\ matches = [p \in Pairs |-> "none"]
  /\ likes = [u \in Users |-> 0]
  /\ late = {}
  /\ matchTx = [u \in Users |-> NoSwipeTx]

\* A plausible slip: the caller's own swipe is looked up.
MutualOwn(u, v) == swipes[<<u, v>>] = "like"

\* The other half of the pair has liked.
Mutual(u, v) == swipes[<<v, u>>] = "like"

BeginMatchTx(u, v, op, mutual) ==
  /\ MayBegin(matchTx, u, NoSwipeTx)
  /\ matchTx' = [matchTx EXCEPT ![u] =
       [op |-> op, with |-> {u, v}, mutual |-> mutual, row |-> matches[{u, v}]]]
  /\ UNCHANGED <<serial, blocks, swipes, matches, likes, late>>

EndMatchTx(u) == matchTx' = [matchTx EXCEPT ![u] = NoSwipeTx]

\* A plausible slip: one like too many.
BeginLikeOneMore(u, v) ==
  /\ swipes[<<u, v>>] = "none" /\ likes[u] <= LikeLimit
  /\ BeginMatchTx(u, v, "like", Mutual(u, v))

\* swipe "like": not swiped yet and within the day's limit.
BeginLike(u, v) ==
  /\ swipes[<<u, v>>] = "none" /\ likes[u] < LikeLimit
  /\ BeginMatchTx(u, v, "like", Mutual(u, v))

\* A block of the pair stands, or a request is making one.
UnderBlock(p) ==
  \/ \E c \in blocks : {c[1], c[2]} = p
  \/ \E w \in Users : matchTx[w].op = "block" /\ matchTx[w].with = p

\* swipe "like" with _create_match and _bump_like_count.
CommitLike(u) ==
  LET t == matchTx[u]  p == t.with IN
  /\ t.op = "like"
  /\ swipes' = [c \in Couples |->
                  IF c[1] = u /\ {c[1], c[2]} = p THEN "like" ELSE swipes[c]]
  /\ matches' = IF t.mutual /\ t.row # "active" THEN [matches EXCEPT ![p] = "active"]
                ELSE matches
  /\ late' = IF t.mutual /\ UnderBlock(p) THEN late \cup {p} ELSE late
  /\ likes' = [likes EXCEPT ![u] = @ + 1]
  /\ EndMatchTx(u)
  /\ UNCHANGED <<serial, blocks>>

\* The commit fails after Redis counted the like.
LoseLike(u) ==
  /\ matchTx[u].op = "like"
  /\ likes' = [likes EXCEPT ![u] = @ + 1]
  /\ EndMatchTx(u)
  /\ UNCHANGED <<serial, blocks, swipes, matches, late>>

\* swipe "pass"
Pass(u, v) ==
  /\ MayBegin(matchTx, u, NoSwipeTx) /\ swipes[<<u, v>>] = "none"
  /\ swipes' = [swipes EXCEPT ![<<u, v>>] = "pass"]
  /\ UNCHANGED <<serial, blocks, matches, likes, late, matchTx>>

\* Midnight: the counters of the new day.
NewDay ==
  /\ \E u \in Users : likes[u] > 0
  /\ likes' = [u \in Users |-> 0]
  /\ UNCHANGED <<serial, blocks, swipes, matches, late, matchTx>>

\* unmatch: whatever the status of the match.
BeginUnmatch(u, v) == matches[{u, v}] # "none" /\ BeginMatchTx(u, v, "unmatch", FALSE)

CommitUnmatch(u) ==
  LET t == matchTx[u] IN
  /\ t.op = "unmatch"
  /\ matches' = [matches EXCEPT ![t.with] = WrittenBack(@, t.row, "unmatched")]
  /\ EndMatchTx(u)
  /\ UNCHANGED <<serial, blocks, swipes, likes, late>>

\* create_block, also from a report: _ensure_block with _cascade_match_blocked.
BeginBlock(u, v) == BeginMatchTx(u, v, "block", FALSE)

\* A plausible slip: only a block that is new ends the match.
CommitBlockNew(u) ==
  LET t == matchTx[u]  p == t.with  new == {u} \X (p \ {u}) \cap blocks = {} IN
  /\ t.op = "block"
  /\ \E v \in p \ {u} : AddBlock(u, v)
  /\ matches' = IF t.row = "active" /\ new THEN [matches EXCEPT ![p] = "blocked"] ELSE matches
  /\ late' = IF t.row = "active" THEN late \ {p} ELSE late
  /\ EndMatchTx(u)
  /\ UNCHANGED <<serial, swipes, likes>>

CommitBlock(u) ==
  LET t == matchTx[u]  p == t.with  IN
  /\ t.op = "block"
  /\ \E v \in p \ {u} : AddBlock(u, v)
  /\ matches' = IF t.row = "active" THEN [matches EXCEPT ![p] = "blocked"] ELSE matches
  /\ late' = IF t.row = "active" THEN late \ {p} ELSE late
  /\ EndMatchTx(u)
  /\ UNCHANGED <<serial, swipes, likes>>

\* delete_block: a match that was blocked stays blocked.
Unblock(u, v) ==
  /\ MayBegin(matchTx, u, NoSwipeTx) /\ DropBlock(u, v)
  /\ UNCHANGED <<serial, matchVars>>

MatchStep(u, v) ==
  \/ BeginLike(u, v) \/ Pass(u, v) \/ BeginUnmatch(u, v)
  \/ BeginBlock(u, v) \/ Unblock(u, v)

MatchCommit(u) ==
  CommitLike(u) \/ LoseLike(u) \/ CommitUnmatch(u) \/ CommitBlock(u)

MatchNext ==
  \/ \E c \in Couples : MatchStep(c[1], c[2])
  \/ \E u \in Users : MatchCommit(u)
  \/ NewDay
-----------------------------------------------------------------------------
MatchTypeOK ==
  /\ swipes \in [Couples -> {"none", "like", "pass"}]
  /\ matches \in [Pairs -> {"none", "active", "unmatched", "blocked"}]
  /\ likes \in [Users -> 0..LikeLimit]
  /\ late \subseteq Pairs
  /\ \A u \in Users : matchTx[u] = NoSwipeTx \/ matchTx[u].with \in Pairs

BothLike(p) == \A c \in Couples : {c[1], c[2]} = p => swipes[c] = "like"

\* match/service.py swipe: only two users who like each other are ever matched,
\* and where requests do not overlap, every two who do are.  (Two likes that
\* cross each miss the other's row, and neither swipe can be repeated.)
MatchedIffMutual ==
  \A p \in Pairs :
    /\ matches[p] # "none" => BothLike(p)
    /\ serial /\ BothLike(p) => matches[p] # "none"

\* README "拉黑（级联 match→blocked）": a block ends the match of the pair, also
\* while likes and unmatches of it are under way; an active match across a block
\* was made by a like that came after the block (swipe does not look at blocks).
BlockEndsMatch ==
  \A p \in Pairs :
    matches[p] = "active" /\ (\E c \in blocks : {c[1], c[2]} = p) => p \in late
=============================================================================
