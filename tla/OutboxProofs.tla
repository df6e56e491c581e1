---------------------------- MODULE OutboxProofs ----------------------------
(***************************************************************************)
(* Proofs about Outbox, for any events, drains, batch size and number of   *)
(* attempts and of crashes.  The inductive invariant says what the locks   *)
(* of claim_batch give: an event in a batch is pending and in no other     *)
(* batch, so what a handler has found about it stays true until it acts.   *)
(***************************************************************************)
EXTENDS Outbox, TLAPS

\* claim_batch locks what it takes: the batches of two drains are disjoint, and
\* nobody settles an event that is in a batch but the drain that holds it.
BatchesAreLocked ==
  /\ \A w \in Drains : \A e \in batch[w] : status[e] = "pending"
  /\ \A v, w \in Drains : v # w => batch[v] \cap batch[w] = {}

\* What a drain has marked is in its batch, and what it is handling is one of
\* the events that it has not marked.
MarksAreClaimed ==
  \A w \in Drains : /\ done[w] \subseteq batch[w] /\ failed[w] \subseteq batch[w]
                    /\ current[w] # "none" => current[w] \in Undispatched(w)

\* What a running handler has found about its event is still so.
SeenIsCurrent ==
  \A w \in Drains :
    current[w] # "none" => (seen[w] <=> notified[current[w]] > 0)

\* An event that a drain has marked done has had its notification.
MarkedDoneIsNotified ==
  \A w \in Drains : \A e \in done[w] \cap Notifying : notified[e] >= 1

\* The inductive invariant.
IInv ==
  /\ TypeOK
  /\ BatchesAreLocked
  /\ MarksAreClaimed
  /\ SeenIsCurrent
  /\ MarkedDoneIsNotified
  /\ NotifiedOnce
  /\ DoneIsNotified

\* Type correctness as a fact about one step.
LEMMA TypeStep == TypeOK /\ [Next]_vars => TypeOK'
<1> SUFFICES ASSUME TypeOK, [Next]_vars PROVE TypeOK'
  OBVIOUS
<1> USE OutboxAssumption DEF TypeOK
<1>1. ASSUME NEW e \in Events, Enqueue(e) PROVE TypeOK'
  BY <1>1 DEF Enqueue, drain
<1>2. ASSUME NEW e \in Events, BackoffEnds(e) PROVE TypeOK'
  BY <1>2 DEF BackoffEnds, drain
<1>3. ASSUME NEW w \in Drains, Claim(w) PROVE TypeOK'
  BY <1>3 DEF Claim, Claimable, rows
<1>4. ASSUME NEW w \in Drains, Dispatch(w) PROVE TypeOK'
  BY <1>4 DEF Dispatch, Undispatched, Found, rows
<1>5. ASSUME NEW w \in Drains, Handle(w) PROVE TypeOK'
  BY <1>5 DEF Handle, rows
<1>6. ASSUME NEW w \in Drains, NEW committed \in BOOLEAN, HandlerRaises(w, committed)
      PROVE TypeOK'
  BY <1>6 DEF HandlerRaises, rows
<1>7. ASSUME NEW w \in Drains, CommitDrain(w) PROVE TypeOK'
  BY <1>7 DEF CommitDrain, Outcome
<1>8. ASSUME NEW w \in Drains, Crash(w) PROVE TypeOK'
  BY <1>8 DEF Crash, rows
<1>9. CASE UNCHANGED vars
  BY <1>9 DEF vars, rows, drain
<1> QED
  BY <1>1, <1>2, <1>3, <1>4, <1>5, <1>6, <1>7, <1>8, <1>9 DEF Next

\* Every row is well typed in every behaviour.
THEOREM TypeCorrect == Spec => []TypeOK
<1>1. Init => TypeOK
  BY DEF Init, TypeOK
<1> QED
  BY <1>1, TypeStep, PTL DEF Spec

\* The invariant holds before any event exists.
LEMMA InitIInv == Init => IInv
BY OutboxAssumption DEF Init, IInv, TypeOK, BatchesAreLocked, MarksAreClaimed,
  SeenIsCurrent, MarkedDoneIsNotified, NotifiedOnce, DoneIsNotified

\* Every step keeps the locks, the marks and what they say of notifications.
LEMMA StepIInv == IInv /\ [Next]_vars => IInv'
<1> SUFFICES ASSUME IInv, [Next]_vars PROVE IInv'
  OBVIOUS
<1> USE OutboxAssumption
<1>t. TypeOK /\ TypeOK'
  BY TypeStep DEF IInv
<1> DEFINE Parts == /\ BatchesAreLocked /\ MarksAreClaimed /\ SeenIsCurrent
                    /\ MarkedDoneIsNotified /\ NotifiedOnce /\ DoneIsNotified
<1> USE <1>t DEF TypeOK, BatchesAreLocked, MarksAreClaimed, SeenIsCurrent,
     MarkedDoneIsNotified, NotifiedOnce, DoneIsNotified, IInv, Undispatched
<1>1. ASSUME NEW e \in Events, Enqueue(e) PROVE Parts'
  BY <1>1 DEF Enqueue, drain
<1>2. ASSUME NEW e \in Events, BackoffEnds(e) PROVE Parts'
  BY <1>2 DEF BackoffEnds, drain
<1>3. ASSUME NEW w \in Drains, Claim(w) PROVE Parts'
  BY <1>3 DEF Claim, Claimable, rows
<1>4. ASSUME NEW w \in Drains, Dispatch(w) PROVE Parts'
  <2> PICK e \in Undispatched(w) : /\ current' = [current EXCEPT ![w] = e]
                                  /\ seen' = [seen EXCEPT ![w] = Found(e)]
    BY <1>4 DEF Dispatch
  <2>1. UNCHANGED <<status, notified, batch, done, failed>>
    BY <1>4 DEF Dispatch, rows
  <2>2. BatchesAreLocked' /\ MarksAreClaimed'
    BY <2>1
  <2>3. SeenIsCurrent'
    <3> SUFFICES ASSUME NEW v \in Drains, current'[v] # "none"
                 PROVE  (seen'[v] <=> notified'[current'[v]] > 0)
      OBVIOUS
    <3>1. CASE v = w
      <4>1. current'[v] = e /\ seen'[v] = (notified[e] > 0) /\ notified' = notified
        BY <3>1, <2>1 DEF Found
      <4> QED
        BY <4>1, Zenon
    <3>2. CASE v # w
      BY <3>2, <2>1
    <3> QED
      BY <3>1, <3>2
  <2>4. MarkedDoneIsNotified' /\ NotifiedOnce' /\ DoneIsNotified'
    BY <2>1
  <2> QED
    BY <2>2, <2>3, <2>4
<1>5. ASSUME NEW w \in Drains, Handle(w) PROVE Parts'
  BY <1>5 DEF Handle, rows
<1>6. ASSUME NEW w \in Drains, NEW committed \in BOOLEAN, HandlerRaises(w, committed)
      PROVE Parts'
  BY <1>6 DEF HandlerRaises, rows
<1>7. ASSUME NEW w \in Drains, CommitDrain(w) PROVE Parts'
  BY <1>7 DEF CommitDrain, Outcome
<1>8. ASSUME NEW w \in Drains, Crash(w) PROVE Parts'
  BY <1>8 DEF Crash, rows
<1>9. CASE UNCHANGED vars
  BY <1>9 DEF vars, rows, drain
<1> QED
  BY <1>1, <1>2, <1>3, <1>4, <1>5, <1>6, <1>7, <1>8, <1>9 DEF Next

\* The inductive invariant holds in every behaviour.
LEMMA AlwaysIInv == Spec => []IInv
BY InitIInv, StepIInv, PTL DEF Spec

\* No user is notified twice of one event, with any number of drains and crashes.
THEOREM NotifiedAtMostOnce == Spec => []NotifiedOnce
<1>1. IInv => NotifiedOnce
  BY DEF IInv
<1> QED
  BY <1>1, AlwaysIInv, PTL

\* No crash settles an event as done without its notification.
THEOREM NothingIsLost == Spec => []DoneIsNotified
<1>1. IInv => DoneIsNotified
  BY DEF IInv
<1> QED
  BY <1>1, AlwaysIInv, PTL

\* The attempts of an event, by its status.
AttemptsFit ==
  \A e \in Events :
    /\ status[e] \in {"absent", "pending"} => attempts[e] < MaxAttempts
    /\ status[e] = "done" => attempts[e] <= MaxAttempts
    /\ status[e] = "failed" => attempts[e] = MaxAttempts

\* Only a drain that holds an event counts an attempt of it, and it gives the
\* event up exactly when the count reaches MaxAttempts.
THEOREM GivenUpInTime == Spec => []GivenUpAfterMaxAttempts
<1>1. Init => AttemptsFit
  BY OutboxAssumption DEF Init, AttemptsFit
<1>2. IInv /\ AttemptsFit /\ [Next]_vars => AttemptsFit'
  <2> SUFFICES ASSUME IInv, AttemptsFit, [Next]_vars PROVE AttemptsFit'
    OBVIOUS
  <2> USE OutboxAssumption DEF IInv, TypeOK, AttemptsFit
  <2>1. ASSUME NEW e \in Events, Enqueue(e) PROVE AttemptsFit'
    BY <2>1 DEF Enqueue
  <2>2. ASSUME NEW w \in Drains, CommitDrain(w) PROVE AttemptsFit'
    <3> SUFFICES ASSUME NEW e \in Events PROVE AttemptsFit!(e)'
      OBVIOUS
    <3>1. CASE e \in batch[w]
      <4>1. status[e] = "pending" /\ attempts[e] < MaxAttempts
        BY <3>1 DEF BatchesAreLocked
      <4>2. status'[e] = Outcome(w, e) /\ attempts'[e] = attempts[e] + 1
        BY <2>2, <3>1 DEF CommitDrain
      <4> QED
        BY <4>1, <4>2 DEF Outcome, Retries
    <3>2. CASE e \notin batch[w]
      BY <2>2, <3>2 DEF CommitDrain
    <3> QED
      BY <3>1, <3>2
  <2>3. CASE UNCHANGED <<status, attempts>>
    BY <2>3
  <2> QED
    BY <2>1, <2>2, <2>3 DEF Next, vars, rows, BackoffEnds, Claim, Dispatch, Handle,
      HandlerRaises, Crash
<1>3. AttemptsFit /\ TypeOK => GivenUpAfterMaxAttempts
  BY OutboxAssumption DEF AttemptsFit, TypeOK, GivenUpAfterMaxAttempts
<1> QED
  BY <1>1, <1>2, <1>3, AlwaysIInv, TypeCorrect, PTL DEF Spec

\* A drain settles only what it holds, and what it holds is still pending: no
\* step of any drain reopens a settled event.
THEOREM SettledStaysSettled == Spec => SettledForGood
<1>1. IInv /\ [Next]_vars =>
        \A e \in Events : status[e] \in {"done", "failed"} => status'[e] = status[e]
  <2> SUFFICES ASSUME IInv, [Next]_vars, NEW e \in Events, status[e] \in {"done", "failed"}
               PROVE  status'[e] = status[e]
    OBVIOUS
  <2> USE DEF IInv, TypeOK
  <2>1. ASSUME NEW f \in Events, Enqueue(f) PROVE status'[e] = status[e]
    BY <2>1 DEF Enqueue
  <2>2. ASSUME NEW w \in Drains, CommitDrain(w) PROVE status'[e] = status[e]
    BY <2>2 DEF CommitDrain, BatchesAreLocked
  <2>3. CASE UNCHANGED status
    BY <2>3
  <2> QED
    BY <2>1, <2>2, <2>3 DEF Next, vars, rows, BackoffEnds, Claim, Dispatch, Handle,
      HandlerRaises, Crash
<1> QED
  BY <1>1, AlwaysIInv, PTL DEF Spec, SettledForGood

\* The events a drain gives up when it commits.
GivenUp(w) == {e \in batch[w] : e \notin done[w] /\ ~Retries(e)}

\* Every step of the outbox is a step of Delivery or leaves it alone: a handler
\* that commits delivers its event, a drain that commits settles its batch.
LEMMA StepPromise ==
  IInv /\ [Next]_vars =>
    [Promise!Next]_<<[e \in Events |-> IF status[e] = "pending" THEN "owed" ELSE status[e]],
                     {e \in Events : notified[e] > 0}>>
<1> DEFINE state == [e \in Events |-> IF status[e] = "pending" THEN "owed" ELSE status[e]]
           effect == {e \in Events : notified[e] > 0}
<1> SUFFICES ASSUME IInv, [Next]_vars
             PROVE  Promise!Next \/ (state' = state /\ effect' = effect)
  OBVIOUS
<1> USE OutboxAssumption DEF IInv, TypeOK
<1>1. ASSUME NEW e \in Events, Enqueue(e) PROVE Promise!Post(e)
  BY <1>1 DEF Enqueue, Promise!Post
<1>2. ASSUME NEW w \in Drains, NEW e \in Events, current[w] = e, UNCHANGED status,
             notified' = [notified EXCEPT ![e] =
               IF e \in Notifying /\ ~seen[w] THEN @ + 1 ELSE @]
      PROVE  Promise!Deliver(e) \/ (state' = state /\ effect' = effect)
  <2>1. status[e] = "pending"
    BY <1>2 DEF MarksAreClaimed, Undispatched, BatchesAreLocked
  <2>2. CASE e \in Notifying /\ ~seen[w]
    <3>1. notified[e] = 0
      BY <1>2, <2>2 DEF SeenIsCurrent
    <3>2. effect' = effect \cup {e}
      BY <1>2, <2>2, <3>1
    <3>3. state' = state /\ state[e] = "owed" /\ e \in Notifying \ effect
      BY <1>2, <2>1, <2>2, <3>1
    <3> QED
      BY <3>2, <3>3 DEF Promise!Deliver
  <2>3. CASE ~(e \in Notifying /\ ~seen[w])
    <3>1. notified' = notified
      BY <1>2, <2>3
    <3> QED
      BY <3>1, <1>2
  <2> QED
    BY <2>2, <2>3
<1>3. ASSUME NEW w \in Drains, CommitDrain(w), NEW D, NEW F, D = done[w], F = GivenUp(w)
      PROVE  Promise!Settle(D, F)
  <2>1. \A e \in D \cup F : e \in Events /\ status[e] = "pending"
    BY <1>3 DEF GivenUp, MarksAreClaimed, BatchesAreLocked
  <2>2. D \cap Notifying \subseteq effect
    BY <1>3 DEF MarkedDoneIsNotified
  <2>3. effect' = effect
    BY <1>3 DEF CommitDrain
  <2>4. ASSUME NEW e \in Events
        PROVE  state'[e] = IF e \in D THEN "done" ELSE IF e \in F THEN "failed" ELSE state[e]
    <3>1. CASE e \in batch[w]
      <4>1. status'[e] = Outcome(w, e) /\ status[e] = "pending"
        BY <1>3, <3>1 DEF CommitDrain, BatchesAreLocked
      <4> QED
        BY <1>3, <3>1, <4>1 DEF Outcome, GivenUp
    <3>2. CASE e \notin batch[w]
      <4>1. status'[e] = status[e] /\ e \notin done[w]
        BY <1>3, <3>2 DEF CommitDrain, MarksAreClaimed
      <4> QED
        BY <1>3, <3>2, <4>1 DEF GivenUp
    <3> QED
      BY <3>1, <3>2
  <2>5. state' = [e \in Events |->
          IF e \in D THEN "done" ELSE IF e \in F THEN "failed" ELSE state[e]]
    BY <2>4
  <2> HIDE DEF IInv, TypeOK
  <2> QED
    BY <2>1, <2>2, <2>3, <2>5 DEF Promise!Settle
<1>4. CASE UNCHANGED <<status, notified>>
  BY <1>4
<1>5. ASSUME NEW w \in Drains, Handle(w)
      PROVE  Promise!Next \/ (state' = state /\ effect' = effect)
  <2> PICK e \in Events : current[w] = e
    BY <1>5 DEF Handle
  <2>1. /\ UNCHANGED status
        /\ notified' = [notified EXCEPT ![e] =
             IF e \in Notifying /\ ~seen[w] THEN @ + 1 ELSE @]
    BY <1>5 DEF Handle, rows
  <2>2. Promise!Deliver(e) \/ (state' = state /\ effect' = effect)
    BY <2>1, <1>2
  <2> QED
    BY <2>2, Zenon DEF Promise!Next
<1>6. ASSUME NEW w \in Drains, NEW committed \in BOOLEAN, HandlerRaises(w, committed)
      PROVE  Promise!Next \/ (state' = state /\ effect' = effect)
  <2> PICK e \in Events : current[w] = e
    BY <1>6 DEF HandlerRaises
  <2>1. UNCHANGED status
    BY <1>6 DEF HandlerRaises, rows
  <2>2. CASE committed
    <3>1. notified' = [notified EXCEPT ![e] =
            IF e \in Notifying /\ ~seen[w] THEN @ + 1 ELSE @]
      BY <1>6, <2>2 DEF HandlerRaises
    <3>2. Promise!Deliver(e) \/ (state' = state /\ effect' = effect)
      BY <2>1, <3>1, <1>2
    <3> QED
      BY <3>2, Zenon DEF Promise!Next
  <2>3. CASE ~committed
    <3>1. notified' = notified
      BY <1>6, <2>3 DEF HandlerRaises
    <3> QED
      BY <2>1, <3>1
  <2> QED
    BY <2>2, <2>3
<1>7. ASSUME NEW w \in Drains, CommitDrain(w) PROVE Promise!Next
  <2> PICK D \in SUBSET Events, F \in SUBSET Events : D = done[w] /\ F = GivenUp(w)
    BY DEF GivenUp
  <2>1. Promise!Settle(D, F)
    BY <1>3, <1>7
  <2> QED
    BY <2>1, Zenon DEF Promise!Next
<1>8. CASE \E e \in Events : Enqueue(e)
  BY <1>1, <1>8 DEF Promise!Next
<1> QED
  BY <1>4, <1>5, <1>6, <1>7, <1>8 DEF Next, vars, rows, BackoffEnds, Claim, Dispatch, Crash

\* The outbox implements what Delivery promises to whoever enqueues an event.
THEOREM OutboxDelivers == Spec => DeliversAsPromised
<1>1. Init => Promise!Init
  BY DEF Init, Promise!Init
<1> QED
  BY <1>1, StepPromise, AlwaysIInv, PTL DEF Spec, DeliversAsPromised, Promise!Spec
=============================================================================
