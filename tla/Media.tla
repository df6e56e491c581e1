-------------------------------- MODULE Media --------------------------------
(***************************************************************************)
(* The media of one user: upload, completion, review, deletion and the     *)
(* avatar that points to one of them (src/app/modules/media/service.py,    *)
(* storage.py; update_profile and the profile views of user/service.py;    *)
(* admin/moderation.py; the moderation tasks of trust/service.py).         *)
(*                                                                         *)
(* Object keys are unguessable and carry the user's id, so that every      *)
(* asset here is the user's own; the refusals of a foreign key, a wrong    *)
(* content type or a too long body change nothing and are left out.  The   *)
(* requests of the one user and of the admins are taken one at a time.     *)
(***************************************************************************)
EXTENDS Requests

CONSTANT Assets

ASSUME MediaAssumption == "none" \notin Assets

VARIABLES
  autoApprove, \* settings.media_auto_approve
  stored,      \* the objects in the store
  audit,       \* audit[a]: audit_status of the media_assets row, or "absent"
  deleted,     \* assets with a deleted_at
  task,        \* task[a]: the status of the moderation task of a, or "none"
  avatar,      \* profile.avatar_media_id, or "none"
  rechosen     \* avatar chosen when it was deleted already (history)

mediaVars == <<autoApprove, stored, audit, deleted, task, avatar, rechosen>>

MediaInit ==
  /\ autoApprove \in BOOLEAN
  /\ stored = {} /\ deleted = {} /\ rechosen = FALSE
  /\ audit = [a \in Assets |-> "absent"]
  /\ task = [a \in Assets |-> "none"]
  /\ avatar = "none"

\* create_sts and save_upload, or the client's own PUT to the object store.
Upload(a) ==
  /\ a \notin stored
  /\ stored' = stored \cup {a}
  /\ UNCHANGED <<serial, blocks, autoApprove, audit, deleted, task, avatar, rechosen>>

PointTo(a) == avatar' = a /\ rechosen' = (a \in deleted)

\* enqueue_moderation_task
Enqueued(a) == [task EXCEPT ![a] = "pending"]

\* complete: as the avatar or not.  Completing the same object again makes
\* another asset of it, which is like completing another object.
Complete(a) ==
  /\ a \in stored /\ audit[a] = "absent"
  /\ audit' = [audit EXCEPT ![a] = IF autoApprove THEN "approved" ELSE "pending"]
  /\ task' = IF autoApprove THEN task ELSE Enqueued(a)
  /\ PointTo(a) \/ UNCHANGED <<avatar, rechosen>>
  /\ UNCHANGED <<serial, blocks, autoApprove, stored, deleted>>

\* review_media: at any time, also again and of a deleted asset.
ReviewMedia(a) ==
  /\ audit[a] # "absent"
  /\ \E to \in {"approved", "rejected"} : audit' = [audit EXCEPT ![a] = to]
  /\ UNCHANGED <<serial, blocks, autoApprove, stored, deleted, task, avatar, rechosen>>

\* claim_moderation_task and review_moderation_task: once; the asset is left as it is.
WorkOnTask(a) ==
  /\ task[a] \in {"pending", "reviewing"}
  /\ \E to \in {"reviewing", "approved", "rejected"} : task' = [task EXCEPT ![a] = to]
  /\ UNCHANGED <<serial, blocks, autoApprove, stored, audit, deleted, avatar, rechosen>>

\* A plausible slip: a rejected avatar keeps its pointer.
UnpointedUnlessRejected(a) == avatar = a /\ audit[a] # "rejected"

\* "Clear avatar pointer if this was the avatar"
Unpointed(a) == avatar = a

\* soft_delete
SoftDelete(a) ==
  /\ audit[a] # "absent" /\ a \notin deleted
  /\ deleted' = deleted \cup {a}
  /\ avatar' = IF Unpointed(a) THEN "none" ELSE avatar
  /\ rechosen' = (rechosen /\ ~Unpointed(a))
  /\ UNCHANGED <<serial, blocks, autoApprove, stored, audit, task>>

\* update_profile asks only that the asset is the user's.
ChooseAvatar(a) ==
  /\ audit[a] # "absent" /\ PointTo(a)
  /\ UNCHANGED <<serial, blocks, autoApprove, stored, audit, deleted, task>>

\* admin_reset_avatar
ResetAvatar ==
  /\ avatar # "none" /\ avatar' = "none" /\ rechosen' = FALSE
  /\ UNCHANGED <<serial, blocks, autoApprove, stored, audit, deleted, task>>

MediaNext ==
  \/ \E a \in Assets :
       Upload(a) \/ Complete(a) \/ ReviewMedia(a) \/ WorkOnTask(a) \/ SoftDelete(a)
         \/ ChooseAvatar(a)
  \/ ResetAvatar

\* Whose picture is shown: to the user (get_me), on the public profile and in the
\* lists of followers (get_public_user, _approved_avatar), on the cards of
\* discover and of the buddy shelf (_to_card).
OwnAvatar ==
  IF avatar # "none" /\ audit[avatar] # "rejected" /\ avatar \notin deleted THEN avatar ELSE "none"

PublicAvatar ==
  IF avatar # "none" /\ audit[avatar] = "approved" /\ avatar \notin deleted THEN avatar ELSE "none"

CardAvatar ==
  IF avatar # "none" /\ audit[avatar] # "rejected" THEN avatar ELSE "none"
-----------------------------------------------------------------------------
MediaTypeOK ==
  /\ autoApprove \in BOOLEAN /\ rechosen \in BOOLEAN
  /\ stored \subseteq Assets /\ deleted \subseteq Assets
  /\ audit \in [Assets -> {"absent", "pending", "approved", "rejected"}]
  /\ task \in [Assets -> {"none", "pending", "reviewing", "approved", "rejected"}]
  /\ avatar \in Assets \cup {"none"}

\* soft_delete "Clear avatar pointer if this was the avatar": although the cards
\* do not look at deleted_at, nobody is shown a picture its owner deleted, unless
\* they chose it again after deleting it; and what the public profile shows, the
\* cards and the user's own page show too.
DeletedIsNotShown ==
  /\ CardAvatar \in deleted => rechosen
  /\ PublicAvatar \in {"none", OwnAvatar} /\ OwnAvatar \in {"none", CardAvatar}
=============================================================================
