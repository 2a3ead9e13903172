------------------------------ MODULE SitePolicy ------------------------------
(***************************************************************************)
(* Revisions of a site's watermark policy.  A publication validates its    *)
(* envelope, reads the upload it names as watermark, and appends the next  *)
(* revision in one statement; a deletion request is refused while some     *)
(* revision names the upload.  A confirmed upload pins the newest revision *)
(* into its job, and the worker renders with the watermark of exactly that *)
(* revision, however late.                                                 *)
(***************************************************************************)
EXTENDS Naturals, Sequences

CONSTANTS
    Assets,         \* uploads of images that may be named as watermark
    None,           \* a policy without watermark
    Callers, Jobs,
    MaxRevision

VARIABLES
    snapshots,      \* site_policy_snapshots: revision -> the upload it names, or None
    row,            \* uploads: [state, pending] or [state |-> "purged"]
    call,           \* a publication in progress
    job,            \* per job: the pinned revision and what was rendered
    named           \* history: what the revision pinned by a job named then

vars == <<snapshots, row, call, job, named>>

Settings == Assets \cup {None}

Idle == [step |-> "idle", revision |-> 0, watermark |-> None]

Init ==
    /\ snapshots = << >>
    /\ row = [a \in Assets |-> [state |-> "created", pending |-> FALSE]]
    /\ call = [c \in Callers |-> Idle]
    /\ job = [j \in Jobs |-> [step |-> "none", revision |-> 0, drawn |-> None]]
    /\ named = [j \in Jobs |-> None]

GoTo(c, step) == call' = [call EXCEPT ![c].step = step]

-----------------------------------------------------------------------------
(* publish: the envelope and the settings.  A revision of 0, an old issued_at
   or settings out of bounds are refused before anything is read. *)
Publish(c) ==
    /\ call[c].step # "asset" /\ call[c].step # "save" /\ call[c].step # "compare"
    /\ \E revision \in 0..MaxRevision, w \in Settings, sound \in BOOLEAN :
         call' = [call EXCEPT ![c] =
                    [step |-> IF ~sound \/ revision = 0 THEN "invalid"
                              ELSE IF w = None THEN "save" ELSE "asset",
                     revision |-> revision, watermark |-> w]]
    /\ UNCHANGED <<snapshots, row, job, named>>

(* find_policy_asset and validate_asset: the state alone, not a pending deletion *)
ReadAsset(c) ==
    LET asset == row[call[c].watermark] IN
    /\ call[c].step = "asset"
    /\ GoTo(c, CASE asset.state = "purged" -> "not_found"
                 [] asset.state = "ready"  -> "save"
                 [] OTHER                  -> "rejected")
    /\ UNCHANGED <<snapshots, row, job, named>>

Insert_Replaces(revision, w) ==
    IF revision <= Len(snapshots) THEN [snapshots EXCEPT ![revision] = w] ELSE Append(snapshots, w)

(* INSERT ... WHERE revision = MAX(revision) + 1 ON CONFLICT DO NOTHING *)
Insert(revision, w) ==
    IF revision = Len(snapshots) + 1 THEN Append(snapshots, w) ELSE snapshots

Save(c) ==
    /\ call[c].step = "save"
    /\ snapshots' = Insert(call[c].revision, call[c].watermark)
    /\ GoTo(c, IF call[c].revision = Len(snapshots) + 1 THEN "published" ELSE "compare")
    /\ UNCHANGED <<row, job, named>>

(* A second statement, outside a transaction *)
Compare_Exists(c) ==
    /\ call[c].step = "compare"
    /\ GoTo(c, IF call[c].revision <= Len(snapshots) THEN "unchanged" ELSE "conflict")
    /\ UNCHANGED <<snapshots, row, job, named>>

Compare(c) ==
    LET revision == call[c].revision IN
    /\ call[c].step = "compare"
    /\ GoTo(c, IF revision <= Len(snapshots) /\ snapshots[revision] = call[c].watermark
                 THEN "unchanged" ELSE "conflict")
    /\ UNCHANGED <<snapshots, row, job, named>>

-----------------------------------------------------------------------------
Referenced(a) == \E r \in DOMAIN snapshots : snapshots[r] = a

(* The worker decides the upload *)
Decide(a) ==
    /\ row[a].state = "created" /\ ~row[a].pending
    /\ \E state \in {"ready", "rejected"} : row' = [row EXCEPT ![a].state = state]
    /\ UNCHANGED <<snapshots, call, job, named>>

RequestDeletion_Unchecked(a) ==
    /\ row[a].state \in {"created", "ready", "rejected"} /\ ~row[a].pending
    /\ row' = [row EXCEPT ![a].pending = TRUE]
    /\ UNCHANGED <<snapshots, call, job, named>>

(* request_deletion, one immediate transaction *)
RequestDeletion(a) ==
    /\ row[a].state \in {"created", "ready", "rejected"} /\ ~row[a].pending
    /\ ~Referenced(a)
    /\ row' = [row EXCEPT ![a].pending = TRUE]
    /\ UNCHANGED <<snapshots, call, job, named>>

(* The cleanup of requested, expired and rejected uploads: the raw object goes *)
Cleanup(a) ==
    /\ row[a].state # "purged" /\ row[a].state # "deleted"
    /\ row[a].pending \/ row[a].state \in {"created", "rejected"}
    /\ row' = [row EXCEPT ![a].state = "deleted"]
    /\ UNCHANGED <<snapshots, call, job, named>>

(* purge_tombstones: not while some revision names the row *)
Purge(a) ==
    /\ row[a].state = "deleted" /\ ~Referenced(a)
    /\ row' = [row EXCEPT ![a] = [state |-> "purged", pending |-> FALSE]]
    /\ UNCHANGED <<snapshots, call, job, named>>

-----------------------------------------------------------------------------
(* What revision 0, that is none, and the others name *)
Names(revision) == IF revision = 0 THEN None ELSE snapshots[revision]

(* mark_quarantined_and_enqueue: MAX(revision) goes into the job *)
Confirm(j) ==
    /\ job[j].step = "none"
    /\ job' = [job EXCEPT ![j] = [step |-> "queued", revision |-> Len(snapshots), drawn |-> None]]
    /\ named' = [named EXCEPT ![j] = Names(Len(snapshots))]
    /\ UNCHANGED <<snapshots, row, call>>

(* prepare_watermark: a watermark that cannot be fetched ends the worker and
   the job is tried again *)
Render(j) ==
    LET w == Names(job[j].revision) IN
    /\ job[j].step = "queued"
    /\ w # None => row[w].state \notin {"deleted", "purged"}
    /\ job' = [job EXCEPT ![j].step = "ready", ![j].drawn = w]
    /\ UNCHANGED <<snapshots, row, call, named>>

Next ==
    \/ \E c \in Callers : Publish(c) \/ ReadAsset(c) \/ Save(c) \/ Compare(c)
    \/ \E a \in Assets : Decide(a) \/ RequestDeletion(a) \/ Cleanup(a) \/ Purge(a)
    \/ \E j \in Jobs : Confirm(j) \/ Render(j)

Spec == Init /\ [][Next]_vars

-----------------------------------------------------------------------------
(* Two callers that were told their revision is in force hold the policy that
   every job pinned to that revision is rendered with: an answer of published
   or unchanged is never taken back by another publication of the number. *)
AnswersHold ==
    \A c \in Callers :
      call[c].step \in {"published", "unchanged"} =>
        /\ call[c].revision <= Len(snapshots)
        /\ snapshots[call[c].revision] = call[c].watermark

(* A job is rendered with the watermark its revision had when the upload was
   confirmed, whatever was published, requested or cleaned since. *)
PinnedPolicyDrawn ==
    \A j \in Jobs : job[j].step = "ready" => job[j].drawn = named[j]

KeepsWatermark ==
    \A a \in Assets :
      Referenced(a) /\ row[a].state = "ready" /\ ~row[a].pending
        => row'[a].state = "ready" /\ ~row'[a].pending

(* An upload in good standing that a revision names stays: neither a request
   nor the cleanup takes the object that pinned jobs still need. *)
WatermarkKept == [][KeepsWatermark]_vars

(* docs/LIFECYCLE.md: "an upload referenced as the watermark asset of a past
   or the present site policy is not deleted". *)
ReferencedNeverDeleted ==
    \A a \in Assets : Referenced(a) => row[a].state \notin {"deleted", "purged"}
=============================================================================
