------------------------------- MODULE Analytics ------------------------------
(***************************************************************************)
(* Usage events of clients, in days (src/app/modules/analytics,            *)
(* metrics/service.py, the two nightly jobs of src/workers): ingestion     *)
(* with the ledger of seen event_ids, erasure on request, retention, the   *)
(* daily tables.  Funnels are in Rankings.                                 *)
(*                                                                         *)
(* A client sends an event as often as it likes, until it gets an answer.  *)
(* The age of an event is measured on the client's own clock, which a      *)
(* wrong date does not disturb (correct_time, with the batch's sent_at).   *)
(* A rebuild of a day excludes another by the primary keys it writes.      *)
(***************************************************************************)
EXTENDS Integers, FiniteSets, Sequences, Functions

CONSTANTS
  Events,       \* event_ids
  MaxAge,       \* settings.analytics_max_event_age_days
  Retention,    \* settings.analytics_retention_days
  Rebuildable,  \* days an admin may rebuild, at most 14 (90 in metrics)
  LastDay       \* named bound: days that pass

\* What the settings' defaults (7, 180) and the limit of the rebuild leave room for.
ASSUME AnalyticsAssumption ==
  /\ MaxAge \in Nat /\ Retention \in Nat /\ Rebuildable \in Nat /\ LastDay \in Nat
  /\ MaxAge < Retention /\ Rebuildable < Retention /\ IsFiniteSet(Events)

VARIABLES
  today,
  born,    \* born[e]: the day e happened on its device, or -1
  raw,     \* analytics_events: [id, day] of each, day of receipt
  seen,    \* analytics_event_dedupe: [id, day]
  daily,   \* daily[d]: the events the daily tables count for day d, or -1
  got,     \* got[e]: the days e was accepted on, in order (history)
  closed,  \* days rebuilt after they were over (history)
  erased   \* events that were stored when their actor had them erased (history)

analyticsVars == <<today, born, raw, seen, daily, got, closed, erased>>

AnalyticsInit ==
  /\ today = 0 /\ raw = {} /\ seen = {} /\ erased = {}
  /\ born = [e \in Events |-> -1] /\ got = [e \in Events |-> <<>>] /\ closed = {}
  /\ daily = [d \in 0..LastDay |-> -1]

Happens(e) ==
  /\ born[e] = -1 /\ born' = [born EXCEPT ![e] = today]
  /\ UNCHANGED <<today, raw, seen, daily, got, closed, erased>>

\* A plausible slip: late events are taken whenever they arrive.
FreshAlways(e) == today >= born[e]

\* correct_time: an event that is too old is rejected.
Fresh(e) == today - born[e] <= MaxAge

\* ingest: the id enters the ledger and the event its table in one transaction.
Ingest(e) ==
  /\ born[e] >= 0 /\ Fresh(e)
  /\ ~ \E s \in seen : s.id = e
  /\ seen' = seen \cup {[id |-> e, day |-> today]}
  /\ raw' = raw \cup {[id |-> e, day |-> today]}
  /\ got' = [got EXCEPT ![e] = Append(@, today)]
  /\ UNCHANGED <<today, born, daily, closed, erased>>

\* A plausible slip: the ledger forgets what was erased.
SeenForgotten(mine) == {s \in seen : s.id \notin mine}

\* delete_my_data: the rows of one user or device go, the ledger stays.
SeenAfterErasure(mine) == seen

EraseMyData(mine) ==
  /\ mine # {}
  /\ raw' = {r \in raw : r.id \notin mine} /\ seen' = SeenAfterErasure(mine)
  /\ erased' = erased \cup mine
  /\ UNCHANGED <<today, born, daily, got, closed>>

\* maintain_analytics_partitions: enforce_retention and drop_expired_partitions
\* (whole months first, then row by row); the daily tables are kept.
Maintain ==
  LET Expired(row) == row.day < today - Retention IN
  /\ \E row \in raw \cup seen : Expired(row)
  /\ raw' = {r \in raw : ~Expired(r)} /\ seen' = {s \in seen : ~Expired(s)}
  /\ UNCHANGED <<today, born, daily, got, closed, erased>>

\* rebuild_day: the rows of the day are deleted and written anew.
Counted(d) == Cardinality({r \in raw : r.day = d})

\* A plausible slip: a rebuild goes back to the first day.
AllDays(days) == {d \in 0..LastDay : d <= today}

\* rebuild_recent, of an admin.
RecentDays(days) == {d \in 0..LastDay : d > today - days /\ d <= today}

RebuildDays(D) ==
  /\ daily' = [d \in DOMAIN daily |-> IF d \in D THEN Counted(d) ELSE daily[d]]
  /\ closed' = closed \cup {d \in D : d < today}
  /\ UNCHANGED <<today, born, raw, seen, got, erased>>

RebuildRecent(days) == RebuildDays(RecentDays(days))

\* materialize_dashboard_stub: yesterday, every night.
RebuildYesterday == today > 0 /\ RebuildDays({today - 1})

Tomorrow ==
  /\ today < LastDay /\ today' = today + 1
  /\ UNCHANGED <<born, raw, seen, daily, got, closed, erased>>

AnalyticsNext ==
  \/ \E e \in Events : Happens(e) \/ Ingest(e)
  \/ \E mine \in SUBSET {r.id : r \in raw} : EraseMyData(mine)
  \/ \E days \in 1..Rebuildable : RebuildRecent(days)
  \/ RebuildYesterday \/ Maintain \/ Tomorrow
-----------------------------------------------------------------------------
AnalyticsTypeOK ==
  /\ today \in 0..LastDay /\ born \in [Events -> -1..LastDay]
  /\ \A r \in raw : r.id \in Events /\ r.day \in 0..today
  /\ \A s \in seen : s.id \in Events /\ s.day \in 0..today
  /\ daily \in [0..LastDay -> -1..Cardinality(Events)]
  /\ got \in [Events -> Seq(0..LastDay)] /\ closed \subseteq 0..LastDay

\* docs/ANALYTICS_EVENTS.md 7.2 and aggregate.py's "idempotent" rebuilds: an
\* event counts once however often it is sent, although the ledger of seen ids is
\* pruned; what was erased does not come back when it is sent again; and a day
\* that was rebuilt when it was over keeps counting what it received, but for
\* what was erased, whatever expires and is rebuilt later.
EventsCountOnce ==
  LET Of(d) == {e \in Events : d \in Range(got[e])} IN
  /\ \A e \in Events : Len(got[e]) <= 1
  /\ \A r \in raw : r.id \notin erased
  /\ \A d \in closed : daily[d] \in Cardinality(Of(d) \ erased)..Cardinality(Of(d))
=============================================================================
