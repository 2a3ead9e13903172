-------------------------- MODULE UploadLifecycle --------------------------
(***************************************************************************)
(* What every committed transaction may do to the state of an upload: the  *)
(* state machine of UploadState in the domain crate.  A transaction moves  *)
(* one upload along one transition, or along two of them when it confirms  *)
(* the bytes (created, uploaded, quarantined); old tombstones disappear in *)
(* batches.  MediaNode is shown to implement this module.                  *)
(***************************************************************************)
CONSTANT Uploads

VARIABLE state   \* uploads.state; "purged" once the row is gone

UploadState == {"created", "uploaded", "quarantined", "processing", "ready",
                "rejected", "failed", "deleted"}

can_transition_to(from, to) ==
    \/ from = "created" /\ to = "uploaded"
    \/ from = "uploaded" /\ to = "quarantined"
    \/ from = "quarantined" /\ to \in {"processing", "rejected", "failed"}
    \/ from = "processing" /\ to \in {"ready", "rejected", "failed"}
    \/ from \in UploadState \ {"deleted"} /\ to = "deleted"

LifecycleInit == state = [u \in Uploads |-> "created"]

Transition(u, to) ==
    /\ can_transition_to(state[u], to)
    /\ state' = [state EXCEPT ![u] = to]

(* The two updates of mark_quarantined_and_enqueue commit together *)
ConfirmBytes(u) ==
    /\ can_transition_to(state[u], "uploaded")
    /\ can_transition_to("uploaded", "quarantined")
    /\ state' = [state EXCEPT ![u] = "quarantined"]

PurgeRows(S) ==
    /\ \A u \in S : state[u] = "deleted"
    /\ state' = [u \in Uploads |-> IF u \in S THEN "purged" ELSE state[u]]

LifecycleNext ==
    \/ \E u \in Uploads : ConfirmBytes(u) \/ \E to \in UploadState : Transition(u, to)
    \/ \E S \in SUBSET Uploads : PurgeRows(S)

LifecycleSpec == LifecycleInit /\ [][LifecycleNext]_state
=============================================================================
