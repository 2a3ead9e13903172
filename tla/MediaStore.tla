----------------------------- MODULE MediaStore -----------------------------
(***************************************************************************)
(* The durable state the processes of a node share: the uploads and        *)
(* derivatives tables (with the jobs table of JobLease) and the object     *)
(* store.  The operators are the repository transactions, one each; the    *)
(* handlers that call them are in UploadApi, Worker and Lifecycle.         *)
(*                                                                         *)
(* One job is inserted per upload, so an upload and its job share an id.   *)
(* A SHA-256 digest stands for the content it is computed from.  A clock   *)
(* column is the set of uploads for which it answers yes to the question   *)
(* the queries ask of it.                                                  *)
(***************************************************************************)
EXTENDS JobLease, FiniteSets

CONSTANTS
    Contents,        \* what a client may store under an upload's raw key
    NoContent,       \* no object, or no digest recorded
    Multipart,       \* the uploads reserved as multipart
    Cleaners,        \* cleanup lease owners
    NoCleaner,       \* cleanup_lease_owner IS NULL
    MaxCleanups      \* LifecyclePolicy.max_attempts

ASSUME StoreAssumption ==
    /\ NoContent \notin Contents
    /\ Multipart \subseteq Jobs
    /\ NoCleaner \notin Cleaners
    /\ MaxCleanups \in Nat \ {0}

VARIABLES
    state,     \* uploads.state; "purged" once the row is gone
    sha,       \* uploads.source_sha256
    derivs,    \* the derivatives table: the digest and variant of each row
    delreq,    \* the uploads with a delete_requested_at
    cleaner,   \* uploads.cleanup_lease_owner
    cleanups,  \* uploads.cleanup_attempts
    waiting,   \* the uploads whose cleanup lease is live or retry time not come
    aged,      \* the uploads kept for as long as the retention of their state
               \* asks: created_at for a reservation, updated_at for a
               \* rejection, deleted_at for a tombstone
    raw,       \* the raw object of each upload
    media,     \* the keys of the derivative objects
    session    \* the uploads whose multipart session is open at the provider

tableVars == <<state, sha, derivs, delreq, cleaner, cleanups, waiting, aged>>

objectVars == <<raw, media, session>>

Uploads == Jobs

Variants == {"master", "thumbnail"}

Digests == Contents \cup {NoContent}

(* media/{tenant}/{upload}/{digest}/{preset}/{variant}: the preset comes from
   the policy revision pinned with the job, or else from the configuration, so
   it does not vary within an upload *)
Keys == Uploads \X Contents \X Variants

RowState == {"created", "quarantined", "processing", "ready", "rejected", "deleted", "purged"}

UndecidedState == {"quarantined", "processing"}

GoneState == {"deleted", "purged"}

(* The reservations as save_batch inserts them *)
StoreInit ==
    /\ state = [u \in Uploads |-> "created"]
    /\ sha = [u \in Uploads |-> NoContent]
    /\ derivs = [u \in Uploads |-> {}]
    /\ delreq = {}
    /\ cleaner = [u \in Uploads |-> NoCleaner]
    /\ cleanups = [u \in Uploads |-> 0]
    /\ waiting = {}
    /\ aged = {}
    /\ raw = [u \in Uploads |-> NoContent]
    /\ media = {}
    /\ session = Multipart

-----------------------------------------------------------------------------
(* UPDATE uploads SET state = to, updated_at = now *)
SetState(u, to) ==
    /\ state' = [state EXCEPT ![u] = to]
    /\ aged' = aged \ {u}

(* Writing updated_at restarts a retention that is counted from it, which the
   one of a reservation is not *)
Touch(u) == aged' = IF state[u] = "created" THEN aged ELSE aged \ {u}

(* Faulty: bytes are confirmed whatever became of the row since it was read *)
MarkQuarantined_NoGuard(u) ==
    /\ SetState(u, "quarantined")
    /\ Enqueue(u)
    /\ UNCHANGED <<sha, derivs, delreq, cleaner, cleanups, waiting>>

(* mark_quarantined_and_enqueue: both updates and the insert, from created *)
MarkQuarantined(u) ==
    /\ state[u] = "created"
    /\ SetState(u, "quarantined")
    /\ Enqueue(u)
    /\ UNCHANGED <<sha, derivs, delreq, cleaner, cleanups, waiting>>

(* mark_deleted, from created *)
MarkDeleted(u) ==
    /\ state[u] = "created"
    /\ SetState(u, "deleted")
    /\ UNCHANGED <<sha, derivs, delreq, cleaner, cleanups, waiting>>

(* request_deletion: the retry time becomes now, a lease stays as it is *)
RequestDeletion(u) ==
    /\ state[u] \in {"created", "ready", "rejected"}
    /\ u \notin delreq
    /\ delreq' = delreq \cup {u}
    /\ waiting' = IF cleaner[u] = NoCleaner THEN waiting \ {u} ELSE waiting
    /\ Touch(u)
    /\ UNCHANGED <<state, sha, derivs, cleaner, cleanups>>

(* start_processing: a compare-and-set, or already done with these facts *)
StartProcessing(u, digest) ==
    \/ /\ state[u] = "quarantined"
       /\ SetState(u, "processing")
       /\ sha' = [sha EXCEPT ![u] = digest]
       /\ UNCHANGED <<derivs, delreq, cleaner, cleanups, waiting>>
    \/ /\ state[u] = "processing" /\ sha[u] = digest
       /\ UNCHANGED tableVars

CanStart(u, digest) ==
    state[u] = "quarantined" \/ (state[u] = "processing" /\ sha[u] = digest)

(* publish_derivatives: a row that exists already must be the same row *)
CanPublish(u, digest) ==
    /\ state[u] \in {"processing", "ready"}
    /\ \A row \in derivs[u] : row[1] = digest

PublishDerivatives(u, digest) ==
    /\ CanPublish(u, digest)
    /\ derivs' = [derivs EXCEPT ![u] = {digest} \X Variants]
    /\ IF state[u] = "processing" THEN SetState(u, "ready") ELSE UNCHANGED <<state, aged>>
    /\ UNCHANGED <<sha, delreq, cleaner, cleanups, waiting>>

(* mark_rejected.  The error code is not kept, so whether a second rejection
   carries the recorded code, and is accepted, is left open. *)
MarkRejected(u) ==
    \/ /\ state[u] \in UndecidedState
       /\ SetState(u, "rejected")
       /\ UNCHANGED <<sha, derivs, delreq, cleaner, cleanups, waiting>>
    \/ /\ state[u] = "rejected"
       /\ UNCHANGED tableVars

(* Faulty: no attempt ceiling *)
Claimable_NoCeiling(u) ==
    /\ state[u] \notin GoneState
    /\ u \notin waiting
    /\ u \in delreq \/ (state[u] \in {"created", "rejected"} /\ u \in aged)

(* Faulty: neither a request nor an elapsed retention is asked for *)
Claimable_NoReason(u) ==
    /\ state[u] \notin GoneState
    /\ cleanups[u] < MaxCleanups
    /\ u \notin waiting

(* Faulty: requested deletions wait for a retention like everything else *)
Claimable_RetentionOnly(u) ==
    /\ state[u] \notin GoneState
    /\ cleanups[u] < MaxCleanups
    /\ u \notin waiting
    /\ state[u] \in {"created", "rejected"} /\ u \in aged

(* claim_cleanup_batch's WHERE clause *)
Claimable(u) ==
    /\ state[u] \notin GoneState
    /\ cleanups[u] < MaxCleanups
    /\ u \notin waiting
    /\ u \in delreq \/ (state[u] \in {"created", "rejected"} /\ u \in aged)

LeaseCleanup(c, S) ==
    /\ cleaner' = [u \in Uploads |-> IF u \in S THEN c ELSE cleaner[u]]
    /\ cleanups' = [u \in Uploads |-> IF u \in S THEN cleanups[u] + 1 ELSE cleanups[u]]
    /\ waiting' = waiting \cup S
    /\ UNCHANGED <<state, sha, derivs, delreq, aged>>

(* complete_cleanup and fail_cleanup name the owner, not its deadline *)
OwnsCleanup(c, u) == state[u] \notin GoneState /\ cleaner[u] = c

CompleteCleanup(c, u) ==
    /\ OwnsCleanup(c, u)
    /\ SetState(u, "deleted")
    /\ cleaner' = [cleaner EXCEPT ![u] = NoCleaner]
    /\ waiting' = waiting \ {u}
    /\ UNCHANGED <<sha, derivs, delreq, cleanups>>

FailCleanup(c, u) ==
    /\ OwnsCleanup(c, u)
    /\ cleaner' = [cleaner EXCEPT ![u] = NoCleaner]
    /\ waiting' = waiting \cup {u}
    /\ Touch(u)
    /\ UNCHANGED <<state, sha, derivs, delreq, cleanups>>

(* purge_tombstones: the jobs and derivatives rows go with the upload row *)
Purgeable(u) == state[u] = "deleted" /\ u \in aged

PurgeTombstones ==
    /\ state' = [u \in Uploads |-> IF Purgeable(u) THEN "purged" ELSE state[u]]
    /\ derivs' = [u \in Uploads |-> IF Purgeable(u) THEN {} ELSE derivs[u]]
    /\ job' = [u \in Uploads |-> IF Purgeable(u) THEN NewJob ELSE job[u]]
    /\ UNCHANGED <<sha, delreq, cleaner, cleanups, waiting, aged, lease>>

TablesOK ==
    /\ state \in [Uploads -> RowState]
    /\ sha \in [Uploads -> Digests]
    /\ derivs \in [Uploads -> SUBSET (Contents \X Variants)]
    /\ delreq \subseteq Uploads /\ waiting \subseteq Uploads /\ aged \subseteq Uploads
    /\ cleaner \in [Uploads -> Cleaners \cup {NoCleaner}]
    /\ cleanups \in [Uploads -> 0..MaxCleanups]

ObjectsOK ==
    /\ raw \in [Uploads -> Digests]
    /\ media \subseteq Keys
    /\ session \subseteq Multipart

StoreTypeOK == TablesOK /\ ObjectsOK

-----------------------------------------------------------------------------
(* Time passes: a retention ends; a cleanup lease or retry delay ends *)
Age(u) ==
    /\ state[u] \in {"created", "rejected", "deleted"} /\ u \notin aged
    /\ aged' = aged \cup {u}
    /\ UNCHANGED <<state, sha, derivs, delreq, cleaner, cleanups, waiting, objectVars, leaseVars>>

CleanupDue(u) ==
    /\ u \in waiting
    /\ waiting' = waiting \ {u}
    /\ UNCHANGED <<state, sha, derivs, delreq, cleaner, cleanups, aged, objectVars, leaseVars>>
=============================================================================
