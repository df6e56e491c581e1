------------------------------- MODULE Outbox -------------------------------
(***************************************************************************)
(* The transactional outbox: DomainEventService of                         *)
(* src/app/modules/events/service.py, the handlers of                      *)
(* src/app/modules/events/dispatch.py and the worker's drain_domain_events *)
(* job of src/workers/tasks.py.                                            *)
(*                                                                         *)
(* A drain claims a batch FOR UPDATE SKIP LOCKED, dispatches the events    *)
(* one by one and commits the batch ONCE at the end.  Until then the other *)
(* sessions see the claimed rows pending, with their old attempts; a crash *)
(* gives them back unchanged.  Each handler works in a session of its own  *)
(* and commits on its own, so its effect outlives a crash of the drain.    *)
(***************************************************************************)
EXTENDS Naturals, FiniteSets

CONSTANTS
  Events,
  Notifying,    \* the events whose handler notifies a user; the others log
  Drains,       \* concurrent runs of the drain job
  BatchSize,    \* settings.domain_event_batch_size
  MaxAttempts,  \* 8 in mark_failed
  MaxCrashes    \* bound: crashes and job timeouts

ASSUME OutboxAssumption ==
  /\ Notifying \subseteq Events
  /\ BatchSize \in Nat \ {0} /\ MaxAttempts \in Nat \ {0} /\ MaxCrashes \in Nat
  /\ "none" \notin Events

VARIABLES
  status,    \* domain_events.status as committed
  attempts,  \* domain_events.attempts as committed
  available, \* available[e]: available_at of e has passed
  notified,  \* notified[e]: notification rows that carry e's id
  batch,     \* batch[w]: events drain w has locked and not yet committed
  done,      \* done[w]: those of them marked done in its session
  failed,    \* failed[w]: those of them marked failed in its session
  current,   \* current[w]: the event whose handler is running, or "none"
  seen,      \* seen[w]: that handler has found a notification of its event
  crashes    \* crashes and timeouts so far

rows == <<status, attempts, available>>
drain == <<batch, done, failed, current, seen>>
vars == <<rows, notified, drain, crashes>>

Init ==
  /\ status = [e \in Events |-> "absent"]
  /\ attempts = [e \in Events |-> 0]
  /\ available = [e \in Events |-> FALSE]
  /\ notified = [e \in Events |-> 0]
  /\ batch = [w \in Drains |-> {}]
  /\ done = [w \in Drains |-> {}]
  /\ failed = [w \in Drains |-> {}]
  /\ current = [w \in Drains |-> "none"]
  /\ seen = [w \in Drains |-> FALSE]
  /\ crashes = 0

-----------------------------------------------------------------------------
\* enqueue, committed with the request that calls it, and POST /domain-events.
Enqueue(e) ==
  /\ status[e] = "absent"
  /\ status' = [status EXCEPT ![e] = "pending"]
  /\ available' = [available EXCEPT ![e] = TRUE]
  /\ UNCHANGED <<attempts, notified, drain, crashes>>

\* The backoff of a failed event runs out.
BackoffEnds(e) ==
  /\ status[e] = "pending" /\ ~available[e]
  /\ available' = [available EXCEPT ![e] = TRUE]
  /\ UNCHANGED <<status, attempts, notified, drain, crashes>>

\* A plausible slip: the rows are read without FOR UPDATE SKIP LOCKED.
ClaimableShared == {e \in Events : status[e] = "pending" /\ available[e]}

\* A plausible slip: an event on its last attempt is not claimed any more.
ClaimableWithRetry ==
  {e \in Events : /\ status[e] = "pending" /\ available[e]
                  /\ attempts[e] + 1 < MaxAttempts
                  /\ \A w \in Drains : e \notin batch[w]}

\* The rows claim_batch may take: pending, available, not locked by a drain.
Claimable ==
  {e \in Events : /\ status[e] = "pending" /\ available[e]
                  /\ \A w \in Drains : e \notin batch[w]}

\* claim_batch.  The batch is the first BatchSize rows by available_at; which
\* ones those are is left open.
Claim(w) ==
  /\ batch[w] = {}
  /\ \E B \in SUBSET Claimable :
       /\ B # {}
       /\ Cardinality(B) <= BatchSize
       /\ Cardinality(B) < BatchSize => B = Claimable
       /\ batch' = [batch EXCEPT ![w] = B]
  /\ UNCHANGED <<rows, notified, done, failed, current, seen, crashes>>

\* The events of the batch that have not been dispatched.
Undispatched(w) == batch[w] \ (done[w] \cup failed[w])

\* The query of _notify for a notification that carries the event's id.
Found(e) == notified[e] > 0

\* dispatch_event starts the handler; _notify looks for an earlier delivery.
Dispatch(w) ==
  /\ current[w] = "none"
  /\ \E e \in Undispatched(w) :
       /\ current' = [current EXCEPT ![w] = e]
       /\ seen' = [seen EXCEPT ![w] = Found(e)]
  /\ UNCHANGED <<rows, notified, batch, done, failed, crashes>>

\* A plausible slip: the event is marked done before its handler has committed.
HandlerForgets(w) ==
  /\ current[w] # "none"
  /\ done' = [done EXCEPT ![w] = @ \cup {current[w]}]
  /\ current' = [current EXCEPT ![w] = "none"]
  /\ UNCHANGED <<rows, notified, batch, failed, seen, crashes>>

\* The handler inserts the notification unless it found one, commits its own
\* session and returns; mark_done follows in the drain's session.
Handle(w) ==
  /\ current[w] # "none"
  /\ notified' = [notified EXCEPT ![current[w]] =
       IF current[w] \in Notifying /\ ~seen[w] THEN @ + 1 ELSE @]
  /\ done' = [done EXCEPT ![w] = @ \cup {current[w]}]
  /\ current' = [current EXCEPT ![w] = "none"]
  /\ UNCHANGED <<rows, batch, failed, seen, crashes>>

\* The handler raises, before or after its commit; mark_failed follows.
HandlerRaises(w, committed) ==
  /\ current[w] # "none"
  /\ notified' = [notified EXCEPT ![current[w]] =
       IF committed /\ current[w] \in Notifying /\ ~seen[w] THEN @ + 1 ELSE @]
  /\ failed' = [failed EXCEPT ![w] = @ \cup {current[w]}]
  /\ current' = [current EXCEPT ![w] = "none"]
  /\ UNCHANGED <<rows, batch, done, seen, crashes>>

\* A plausible slip: mark_failed counts the attempt one too late.
RetriesOneMore(e) == attempts[e] < MaxAttempts

\* mark_failed looks at the attempts after claim_batch has added one.
Retries(e) == attempts[e] + 1 < MaxAttempts

\* The status the drain's session leaves a claimed event in.
Outcome(w, e) ==
  IF e \in done[w] THEN "done" ELSE IF Retries(e) THEN "pending" ELSE "failed"

\* The one commit of the drain: claims and marks become visible, locks go.
CommitDrain(w) ==
  /\ batch[w] # {} /\ Undispatched(w) = {}
  /\ status' = [e \in Events |-> IF e \in batch[w] THEN Outcome(w, e) ELSE status[e]]
  /\ attempts' = [e \in Events |-> IF e \in batch[w] THEN attempts[e] + 1 ELSE attempts[e]]
  /\ available' = [e \in Events |-> available[e] /\ e \notin batch[w]]
  /\ batch' = [batch EXCEPT ![w] = {}]
  /\ done' = [done EXCEPT ![w] = {}]
  /\ failed' = [failed EXCEPT ![w] = {}]
  /\ UNCHANGED <<notified, current, seen, crashes>>

\* The worker dies or ARQ's job_timeout cancels the job: the drain's session
\* and the session of a running handler roll back.
Crash(w) ==
  /\ batch[w] # {} /\ crashes < MaxCrashes
  /\ batch' = [batch EXCEPT ![w] = {}]
  /\ done' = [done EXCEPT ![w] = {}]
  /\ failed' = [failed EXCEPT ![w] = {}]
  /\ current' = [current EXCEPT ![w] = "none"]
  /\ crashes' = crashes + 1
  /\ UNCHANGED <<rows, notified, seen>>

Next ==
  \/ \E e \in Events : Enqueue(e) \/ BackoffEnds(e)
  \/ \E w \in Drains :
       \/ Claim(w) \/ Dispatch(w) \/ Handle(w) \/ CommitDrain(w) \/ Crash(w)
       \/ \E committed \in BOOLEAN : HandlerRaises(w, committed)

Spec == Init /\ [][Next]_vars

\* Time passes, the cron starts drains again and again, a handler returns or
\* raises, and a drain that is not cut off comes to its end.
Fairness ==
  /\ \A e \in Events : WF_vars(BackoffEnds(e))
  /\ \A w \in Drains :
       /\ WF_vars(Claim(w)) /\ WF_vars(Dispatch(w)) /\ WF_vars(CommitDrain(w))
       /\ WF_vars(Handle(w) \/ \E committed \in BOOLEAN : HandlerRaises(w, committed))

LiveSpec == Spec /\ Fairness
-----------------------------------------------------------------------------
\* The type invariant of the component.
TypeOK ==
  /\ status \in [Events -> {"absent", "pending", "done", "failed"}]
  /\ attempts \in [Events -> Nat]
  /\ available \in [Events -> BOOLEAN]
  /\ notified \in [Events -> Nat]
  /\ batch \in [Drains -> SUBSET Events]
  /\ done \in [Drains -> SUBSET Events]
  /\ failed \in [Drains -> SUBSET Events]
  /\ current \in [Drains -> Events \cup {"none"}]
  /\ seen \in [Drains -> BOOLEAN]
  /\ crashes \in Nat

\* A user is notified of an event at most once, however many drains run at the
\* same time and however often a crash has the event dispatched again.
NotifiedOnce == \A e \in Events : notified[e] <= 1

\* No event is settled as done without its notification: a drain that crashes
\* between a handler and its own commit loses nothing.
DoneIsNotified ==
  \A e \in Notifying : status[e] = "done" => notified[e] >= 1

\* An event is given up only after MaxAttempts committed attempts, and no event
\* is dispatched again after that.
GivenUpAfterMaxAttempts ==
  \A e \in Events : /\ attempts[e] <= MaxAttempts
                    /\ status[e] = "failed" => attempts[e] = MaxAttempts

\* A settled event is never reopened, nor settled the other way, by a drain
\* that claimed it earlier.
SettledForGood ==
  [][\A e \in Events : status[e] \in {"done", "failed"} => status'[e] = status[e]]_vars

\* Every event that was enqueued is settled in the end.
EveryEventSettles ==
  \A e \in Events : status[e] = "pending" ~> status[e] \in {"done", "failed"}

\* The outbox implements Delivery: an event is owed while it is pending.
Promise == INSTANCE Delivery WITH
  state  <- [e \in Events |-> IF status[e] = "pending" THEN "owed" ELSE status[e]],
  effect <- {e \in Events : notified[e] > 0}

DeliversAsPromised == Promise!Spec
=============================================================================
