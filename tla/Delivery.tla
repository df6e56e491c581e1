------------------------------ MODULE Delivery ------------------------------
(***************************************************************************)
(* What the outbox promises to whoever enqueues an event: the event stays  *)
(* owed until it is settled, its side effect happens at most once and only *)
(* while it is owed, and it is settled as done only after its effect.      *)
(***************************************************************************)
CONSTANTS Events, Notifying  \* the events, and those that notify somebody

VARIABLES state,   \* state[e]: absent, owed, done or failed
          effect   \* the events whose notification exists

Init == state = [e \in Events |-> "absent"] /\ effect = {}

Post(e) ==
  /\ state[e] = "absent"
  /\ state' = [state EXCEPT ![e] = "owed"]
  /\ UNCHANGED effect

Deliver(e) ==
  /\ state[e] = "owed" /\ e \in Notifying \ effect
  /\ effect' = effect \cup {e}
  /\ UNCHANGED state

\* A worker settles a batch of events in one commit.
Settle(D, F) ==
  /\ \A e \in D \cup F : state[e] = "owed"
  /\ D \cap Notifying \subseteq effect
  /\ state' = [e \in Events |-> IF e \in D THEN "done"
                                ELSE IF e \in F THEN "failed" ELSE state[e]]
  /\ UNCHANGED effect

Next ==
  \/ \E e \in Events : Post(e) \/ Deliver(e)
  \/ \E D, F \in SUBSET Events : Settle(D, F)

Spec == Init /\ [][Next]_<<state, effect>>
=============================================================================
