-------------------------------- MODULE Backup --------------------------------
(***************************************************************************)
(* `database backup`: the live database is checked, copied into a partial  *)
(* file, checked again and hashed; partial snapshot and partial manifest   *)
(* are linked to their final names, snapshot first; the oldest snapshots   *)
(* beyond the retention count are removed, each before its manifest.  Runs *)
(* are numbered in the order of the time in their file names and follow    *)
(* one another, as the oneshot unit's do.  A run may be killed anywhere,   *)
(* or fail, which removes its own four files.                              *)
(*                                                                         *)
(* `database restore-rehearsal` checks a snapshot against the digest of    *)
(* its manifest and opens a copy of it.                                    *)
(***************************************************************************)
EXTENDS Naturals, FiniteSets, FiniteSetsExt

CONSTANTS
    Runs,           \* 1..n, by the time in the file names
    Retain,         \* backup_retention_count
    MaxWrites       \* changes of the live database

BackupAssumption == Runs \subseteq Nat /\ MaxWrites \in Nat /\ Retain \in Nat /\ Retain >= 2

VARIABLES
    live,           \* contents of the live database, counters and rows alike
    step, seen,     \* per run: progress, and the counters it read or the contents it hashed
    doomed,         \* per run: snapshots it still has to rotate out
    part, partman,  \* the partial files, by run
    snap, man       \* the published files, by run

vars == <<live, step, seen, doomed, part, partman, snap, man>>

NoFile == MaxWrites + 1   \* no such file

Init ==
    /\ live = 0
    /\ step = [r \in Runs |-> "new"] /\ seen = [r \in Runs |-> 0] /\ doomed = [r \in Runs |-> {}]
    /\ part = [r \in Runs |-> NoFile] /\ partman = [r \in Runs |-> NoFile]
    /\ snap = [r \in Runs |-> NoFile] /\ man = [r \in Runs |-> NoFile]

Ended == {"new", "ok", "failed", "killed"}

AtWork == {r \in Runs : step[r] \notin Ended}

GoTo(r, s) == step' = [step EXCEPT ![r] = s]

(* Some service writes; its transaction keeps counters and rows together *)
Write ==
    /\ live < MaxWrites /\ live' = live + 1
    /\ UNCHANGED <<step, seen, doomed, part, partman, snap, man>>

(* verify_pool reads the counters and then the rows in statements of their own *)
Begin(r) ==
    /\ step[r] = "new" /\ \A q \in Runs : q < r => step[q] # "new"
    /\ AtWork = {}
    /\ GoTo(r, "verify") /\ seen' = [seen EXCEPT ![r] = live]
    /\ UNCHANGED <<live, doomed, part, partman, snap, man>>

RemoveOwn(r) ==
    /\ part' = [part EXCEPT ![r] = NoFile] /\ partman' = [partman EXCEPT ![r] = NoFile]
    /\ snap' = [snap EXCEPT ![r] = NoFile] /\ man' = [man EXCEPT ![r] = NoFile]

Fail(r) == GoTo(r, "failed") /\ RemoveOwn(r)

VerifyLive(r) ==
    /\ step[r] = "verify"
    /\ IF seen[r] = live THEN GoTo(r, "copy") /\ UNCHANGED <<part, partman, snap, man>>
                         ELSE Fail(r)
    /\ UNCHANGED <<live, seen, doomed>>

(* VACUUM INTO and the check of its result *)
BackupTo(r) ==
    /\ step[r] = "copy"
    /\ part' = [part EXCEPT ![r] = live] /\ GoTo(r, "manifest")
    /\ UNCHANGED <<live, seen, doomed, partman, snap, man>>

(* Its digest goes into the manifest *)
WriteManifest(r) ==
    /\ step[r] = "manifest"
    /\ partman' = [partman EXCEPT ![r] = part[r]] /\ GoTo(r, "linksnap")
    /\ UNCHANGED <<live, seen, doomed, part, snap, man>>

LinkSnapshot(r) ==
    /\ step[r] = "linksnap"
    /\ snap' = [snap EXCEPT ![r] = part[r]] /\ GoTo(r, "linkman")
    /\ UNCHANGED <<live, seen, doomed, part, partman, man>>

LinkManifest(r) ==
    /\ step[r] = "linkman"
    /\ man' = [man EXCEPT ![r] = partman[r]] /\ GoTo(r, "drop")
    /\ UNCHANGED <<live, seen, doomed, part, partman, snap>>

DropPartials(r) ==
    /\ step[r] = "drop"
    /\ part' = [part EXCEPT ![r] = NoFile] /\ partman' = [partman EXCEPT ![r] = NoFile]
    /\ GoTo(r, "list")
    /\ UNCHANGED <<live, seen, doomed, snap, man>>

(* One of the calls above fails *)
StepFails(r) ==
    /\ step[r] \in {"copy", "manifest", "linksnap", "linkman", "drop"}
    /\ Fail(r)
    /\ UNCHANGED <<live, seen, doomed>>

Snapshots == {r \in Runs : snap[r] # NoFile}

Expired_Newest(found) == {q \in found : Cardinality({p \in found : p < q}) >= Retain}

(* Sorted by name, all but the last Retain *)
Expired(found) == {q \in found : Cardinality({p \in found : p > q}) >= Retain}

List(r) ==
    /\ step[r] = "list"
    /\ doomed' = [doomed EXCEPT ![r] = Expired(Snapshots)]
    /\ GoTo(r, "rotate")
    /\ UNCHANGED <<live, seen, part, partman, snap, man>>

(* The snapshot goes first.  A removal that fails ends the run; its own files
   stay. *)
RotateSnapshot(r) ==
    /\ step[r] = "rotate" /\ doomed[r] # {}
    /\ \/ GoTo(r, "rotateman") /\ snap' = [snap EXCEPT ![Min(doomed[r])] = NoFile]
       \/ GoTo(r, "failed") /\ UNCHANGED snap
    /\ UNCHANGED <<live, seen, doomed, part, partman, man>>

RotateManifest(r) ==
    /\ step[r] = "rotateman"
    /\ man' = [man EXCEPT ![Min(doomed[r])] = NoFile]
    /\ doomed' = [doomed EXCEPT ![r] = @ \ {Min(@)}]
    /\ GoTo(r, "rotate")
    /\ UNCHANGED <<live, seen, part, partman, snap>>

Done(r) ==
    /\ step[r] = "rotate" /\ doomed[r] = {}
    /\ GoTo(r, "ok")
    /\ UNCHANGED <<live, seen, doomed, part, partman, snap, man>>

Killed(r) ==
    /\ step[r] \notin Ended /\ GoTo(r, "killed")
    /\ UNCHANGED <<live, seen, doomed, part, partman, snap, man>>

RunStep(r) ==
    \/ Begin(r) \/ VerifyLive(r) \/ BackupTo(r) \/ WriteManifest(r) \/ LinkSnapshot(r)
    \/ LinkManifest(r) \/ DropPartials(r) \/ StepFails(r) \/ List(r) \/ RotateSnapshot(r)
    \/ RotateManifest(r) \/ Done(r) \/ Killed(r)

Next == Write \/ \E r \in Runs : RunStep(r)

Spec == Init /\ [][Next]_vars

-----------------------------------------------------------------------------
(* validate_snapshot_input and restore_rehearsal accept this pair *)
Restorable(r) == snap[r] # NoFile /\ man[r] = snap[r]

(* Once a backup run has reported success, a snapshot at least as recent can
   be restored, whatever later runs fail, are killed or rotate: what rotation
   counts as newer includes snapshots that never got their manifest. *)
RestorableKept ==
    \A r \in Runs : step[r] = "ok" => \E q \in Runs : q >= r /\ Restorable(q)
=============================================================================
