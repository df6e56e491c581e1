------------------------------ MODULE TrustScore -----------------------------
(***************************************************************************)
(* The trust score of one user (src/app/modules/trust/service.py): events  *)
(* with their dedup_key, the moving average, the level it gives, photo     *)
(* verifications and the badge they earn.                                  *)
(*                                                                         *)
(* Scores and values of events are in hundredths, as the columns hold them *)
(* and as _dec makes them of a float; what _apply_ema computes of the two  *)
(* is in ten-thousandths, which the level is chosen from before the column *)
(* Numeric(5, 2) rounds.  The four axes move like the score and are left   *)
(* out.  Reports of clients are capped to -5..5, an admin's adjustment is  *)
(* not.                                                                    *)
(***************************************************************************)
EXTENDS Requests, Integers

CONSTANTS
  Sources,    \* who reports events: clients, admins, the system itself
  Keys,       \* dedup keys in use
  Worths,     \* values of events, capped and not, in hundredths
  MaxSamples  \* named bound: events of the user

ASSUME TrustAssumption ==
  "none" \notin Keys /\ Worths \subseteq Int /\ MaxSamples \in Nat

VARIABLES
  score,      \* trust_scores: score, level, sample_size, confidence_low
  recorded,   \* trust_events: [key, worth] of each, in no order but their number
  verified,   \* the status of the user's last photo verification, or "none"
  badge,      \* photo_verified is active
  passed,     \* a verification was approved (history)
  trustTx     \* trustTx[s]: the open request of source s

trustVars == <<score, recorded, verified, badge, passed, trustTx>>

NoTrustTx == [op |-> "idle", key |-> "none", worth |-> 0, row |-> <<>>]

\* ensure_score
Ensured == [points |-> 5000, level |-> "guest", samples |-> 0, unsure |-> TRUE]

TrustInit ==
  /\ score = Ensured /\ recorded = {}
  /\ verified = "none" /\ badge = FALSE /\ passed = FALSE
  /\ trustTx = [s \in Sources |-> NoTrustTx]

\* _clamp
Clamp(v) == IF v < 0 THEN 0 ELSE IF v > 10000 THEN 10000 ELSE v

\* A plausible slip: the weights are swapped and the observation is not clamped.
EmaSwapped(points, worth) == 15 * points + 85 * (points + worth)

\* EMA_ALPHA is 0.85; the Decimal stays exact (and between 0 and 100, so that the
\* outer _clamp never bites).
Ema(points, worth) == 85 * points + 15 * Clamp(points + worth)

\* Numeric(5, 2): the database rounds to the nearest hundredth, a half up.
Stored(exact) == (exact + 50) \div 100

\* _level_for, of ten-thousandths.
LevelFor(exact, samples) ==
  CASE samples <= 0 -> "guest"
    [] samples > 0 /\ exact < 300000 -> "restricted"
    [] samples > 0 /\ 300000 <= exact /\ exact < 500000 -> "newcomer"
    [] samples > 0 /\ 500000 <= exact /\ exact < 700000 -> "trusted"
    [] OTHER -> "reliable_host"

\* _apply_ema on the row that was read: the level is that of the score not yet rounded.
Applied(row, worth) ==
  LET exact == Ema(row.points, worth)  n == row.samples + 1 IN
  [points |-> Stored(exact), level |-> LevelFor(exact, n), samples |-> n, unsure |-> n < 5]

\* record_event: an event with a key that is there already is not recorded again.
Unseen(key) == key = "none" \/ \A e \in recorded : e.key # key

\* report_client_event, admin_adjust, create_safety_checkin, admin_apply_sanction.
BeginEvent(s, key, worth) ==
  /\ MayBegin(trustTx, s, NoTrustTx) /\ Unseen(key) /\ Cardinality(recorded) < MaxSamples
  /\ trustTx' = [trustTx EXCEPT ![s] =
       [op |-> "event", key |-> key, worth |-> worth, row |-> score]]
  /\ UNCHANGED <<serial, blocks, score, recorded, verified, badge, passed>>

\* Each column of the score is written if the request has changed it; the points
\* have changed even where the column rounds them to what was read.
WriteScore(row, worth) ==
  LET new == Applied(row, worth) IN
  score' = [c \in DOMAIN score |->
    IF c = "points" /\ Ema(row.points, worth) # 100 * row.points THEN new.points
    ELSE WrittenBack(score[c], row[c], new[c])]

Append1(key, worth) ==
  recorded' = recorded \cup {[n |-> Cardinality(recorded) + 1, key |-> key, worth |-> worth]}

\* trust_events.dedup_key is unique: the second of two overlapping requests fails.
CommitEvent(s) ==
  LET t == trustTx[s] IN
  /\ t.op = "event" /\ Cardinality(recorded) < MaxSamples
  /\ t.key = "none" \/ \A e \in recorded : e.key # t.key
  /\ WriteScore(t.row, t.worth)
  /\ Append1(t.key, t.worth)
  /\ trustTx' = [trustTx EXCEPT ![s] = NoTrustTx]
  /\ UNCHANGED <<serial, blocks, verified, badge, passed>>

\* submit_photo_verification: the pending one is used again.
Submit ==
  /\ verified # "pending" /\ verified' = "pending"
  /\ UNCHANGED <<serial, blocks, score, recorded, badge, passed, trustTx>>

\* admin_review_verification: a pending one; approval grants the badge and
\* records an event worth 8 in the same transaction.
BeginVerification(s) ==
  /\ MayBegin(trustTx, s, NoTrustTx) /\ verified = "pending"
  /\ Cardinality(recorded) < MaxSamples
  /\ trustTx' = [trustTx EXCEPT ![s] =
       [op |-> "verify", key |-> "none", worth |-> 800, row |-> score]]
  /\ UNCHANGED <<serial, blocks, score, recorded, verified, badge, passed>>

CommitVerification(s, approve) ==
  LET t == trustTx[s] IN
  /\ t.op = "verify" /\ Cardinality(recorded) < MaxSamples
  /\ verified' = IF approve THEN "approved" ELSE "rejected"
  /\ IF approve
     THEN /\ WriteScore(t.row, t.worth) /\ Append1("none", t.worth)
          /\ badge' = TRUE /\ passed' = TRUE
     ELSE UNCHANGED <<score, recorded, badge, passed>>
  /\ trustTx' = [trustTx EXCEPT ![s] = NoTrustTx]
  /\ UNCHANGED <<serial, blocks>>

\* The request fails; a key that was taken meanwhile makes it fail.
AbortTrust(s) ==
  /\ trustTx[s] # NoTrustTx
  /\ trustTx' = [trustTx EXCEPT ![s] = NoTrustTx]
  /\ UNCHANGED <<serial, blocks, score, recorded, verified, badge, passed>>

TrustNext ==
  \/ \E s \in Sources :
       \/ \E key \in Keys \cup {"none"}, worth \in Worths : BeginEvent(s, key, worth)
       \/ CommitEvent(s) \/ BeginVerification(s) \/ AbortTrust(s)
       \/ \E approve \in BOOLEAN : CommitVerification(s, approve)
  \/ Submit
-----------------------------------------------------------------------------
Points == 0..10000
Levels == {"guest", "restricted", "newcomer", "trusted", "reliable_host"}

TrustTypeOK ==
  /\ score.points \in Points /\ score.level \in Levels /\ score.samples \in 0..MaxSamples
  /\ verified \in {"none", "pending", "approved", "rejected"}
  /\ badge \in BOOLEAN /\ passed \in BOOLEAN

\* record_event and _apply_ema: an event counts once however often it is
\* reported; no event counts for nothing where requests do not overlap, and then
\* the level is the one the score deserves, or had deserved before the column rounded
\* it up onto the level's bound: 69.995 is stored as 70.00 beside "trusted" (an overlap
\* can keep the score of one request and the level of another: only changed columns
\* are written).  One event never moves the score by more than 15% of its value, to the
\* nearest hundredth, up only if it is good and down only if it is bad.
ScoreIsEarned ==
  /\ \A e, f \in recorded : e.key = f.key /\ e.key # "none" => e = f
  /\ score.samples <= Cardinality(recorded)
  /\ serial => /\ score.samples = Cardinality(recorded)
               /\ \E lost \in {0, 50} :
                    score.level = LevelFor(100 * score.points - lost, score.samples)
               /\ score.unsure = (score.samples < 5)
  /\ badge <=> passed
  /\ \A s \in Sources : trustTx[s] # NoTrustTx =>
       LET t == trustTx[s]  d == Applied(t.row, t.worth).points - t.row.points IN
       /\ t.worth >= 0 => d \in 0..Stored(15 * t.worth)
       /\ t.worth < 0 => d \in Stored(15 * t.worth)..0
=============================================================================
