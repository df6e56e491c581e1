------------------------------ MODULE Requests -------------------------------
(***************************************************************************)
(* What the social and back-office modules share: users, whether requests  *)
(* overlap, how a transaction writes a row it read earlier                 *)
(* (src/app/shared/db.py: a session per request, READ COMMITTED, no        *)
(* optimistic locking), and the block list of src/app/modules/safety.      *)
(*                                                                         *)
(* A request that reads and later writes is a pair of actions: Begin...    *)
(* records in tx[u] what user u's request read, Commit... writes what it   *)
(* computed from that.  Named bound: one user has one request open at a    *)
(* time; requests of different users overlap unless "serial" holds.        *)
(***************************************************************************)
EXTENDS Naturals, FiniteSets

CONSTANTS
  Users,
  Members  \* the users around one group or one club

VARIABLES
  serial,  \* requests do not overlap (chosen for a whole behaviour)
  blocks   \* rows of blocks, as <<blocker, blocked>>

Couples == {c \in Users \X Users : c[1] # c[2]}
Pairs == {{c[1], c[2]} : c \in Couples}

RequestsInit == serial \in BOOLEAN /\ blocks = {}

\* A user's request may begin: none of theirs is open, and none at all is
\* where requests do not overlap.
MayBegin(tx, u, idle) ==
  /\ tx[u] = idle
  /\ serial => \A v \in DOMAIN tx : tx[v] = idle

\* SQLAlchemy writes a column only when its new value differs from the one read.
WrittenBack(current, read, new) == IF read = new THEN current ELSE new

\* A plausible slip: only the blocker's side of the row is looked at.
IsBlockedBy(a, b) == <<a, b>> \in blocks

\* is_blocked_either
IsBlockedEither(a, b) == <<a, b>> \in blocks \/ <<b, a>> \in blocks

\* _ensure_block (idempotent) and delete_block, but for the cascade of the match.
AddBlock(a, b) == blocks' = blocks \cup {<<a, b>>}
DropBlock(a, b) == <<a, b>> \in blocks /\ blocks' = blocks \ {<<a, b>>}
=============================================================================
