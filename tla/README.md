# A TLA+ model of G7MediaBooster

G7MediaBooster takes uploads of images and videos for bulletin boards, lets the
browser send the bytes straight to an S3 compatible store, validates and renders
them in a worker, and publishes a master and a thumbnail. One node has an API
process, one or more worker processes with several slots each, and maintenance
programs started by timers; they meet in one SQLite database and one object
store. No transaction spans two steps of a handler, no transaction of the worker
spans the upload row and its job, and the object store takes part in no
transaction at all. This project models that core and the parts around it,
checks them with TLC on small instances, and proves all of their safety
properties with TLAPS for every instance.

## 1. Inventory

Paths are relative to `src/`. `P` stands for
`crates/g7mb-persistence-sqlite/src/lib.rs`, `app/` for
`crates/g7mb-application/src/`.

| Component | Code | State it keeps | Operations | What makes it correct |
|---|---|---|---|---|
| Durable job queue | `P` (impl JobQueue), `app/lib.rs` | tables `jobs`, `queue_sequence`, `tenant_queue_state`; the lease a slot remembers | enqueue, `claim_next`, `renew`, `complete`, `fail` | one settler per lease, live leases untouched, no tenant starves |
| Upload state machine | `crates/g7mb-domain/src/lib.rs` | `UploadState` | `can_transition_to` | every committed change is a transition |
| Uploads and derivatives tables | `P` (UploadRepository, LifecycleRepository, ProcessingRepository) | one row per upload, one per derivative | the transactions of the three traits | immutable derivatives, ready uploads are servable |
| Upload control calls | `app/uploads.rs`, `apps/g7mb-api` | the row a handler read | confirm, complete, abort, delete, presign | only one of confirm, abort and cleanup wins; completion can be repeated |
| Upload reservation | `app/uploads.rs` `create_batch`, `P` `has_capacity`, `save_batch`, migration 0009 | rows, byte counters, provider sessions | reserve a batch | caps hold under concurrency, counters match rows, no session is leaked |
| Multipart transfer | `app/uploads.rs`, `crates/g7mb-object-store-s3` | parts, the assembled object, the worker's copy | layout, presign, complete, download | lengths agree from reservation to copy |
| Processing worker | `apps/g7mb-worker/src/lib.rs`, `main.rs` | the row, digest and step of each slot | `run_one`, its heartbeat, the failure classes | agrees with the queue, one source per upload, every upload decided |
| Resource gates | worker `lib.rs` | three semaphores | acquire, release | within the disk, nobody waits for ever |
| Probing and sandbox | worker `lib.rs`, `apps/g7mb-sandbox`, `crates/g7mb-media` | processes, files of a job | probe, render, seek, fall back, overlay | only whole files are accepted, no process is left |
| Lifecycle cleanup | `app/lifecycle.rs` | the batch a run claimed | `run_once` | deletes what was asked for and nothing else, and finishes |
| Orphan inventory | `app/inventory.rs`, `P` | cursor, suspected orphans | list, reconcile, recheck, delete | finds every orphan, takes nothing that is referenced |
| Site policy | `app/policies.rs`, `P` | revisions | publish, active, pin, render | answers hold, pinned jobs keep their watermark |
| Delivery | `app/delivery.rs`, `apps/g7mb-api/src/public_delivery.rs` | manifest cache | load, recheck, sign, invalidate | a deletion ends delivery |
| HTTP API and authentication | `apps/g7mb-api/src/lib.rs`, `crates/g7mb-auth` | token bucket, permits, nonces | admit, verify, consume, cut off | limits hold, duplicates are recognised |
| Object store adapter | `crates/g7mb-object-store-s3` | objects, sessions, buckets, CORS | the ObjectStore trait, bootstrap, canary | as its callers use it; one managed CORS rule; canaries clean up |
| Setup and installer | `apps/g7mbctl` | configuration and secret files, installed files, units | setup, install | PASS is true, a repeated command gets there |
| Configuration | `crates/g7mb-config` | none | load, validate | what is accepted starts |
| Database backup | `crates/g7mb-persistence-sqlite/src/backup.rs`, worker `main.rs` | snapshots and manifests | backup, verify, rehearse, rotate | the last success stays restorable |
| Adapters | `adapters/` (PHP, JS) | upload sessions in the browser | schedule, retry, abort | not modelled |
| Telemetry, contracts, tools | the other crates, `xtask` | none | | not modelled |

How they interact. The API inserts upload rows when a batch is reserved and a job
row when the bytes are confirmed; the worker finds the job by polling, reads the
upload row, and writes the row, the objects and finally the job; cleanup claims
upload rows by their request or their age and removes objects, then the row;
inventory scans compare the buckets with the rows. Nothing notifies anything,
with one exception (the deletion handler invalidates the delivery cache of its own
process): every process works from what it read some steps ago and relies on the
guards in the SQL of the next write.

What is hard in it, in the order the properties were chosen:

1. a slot whose lease expired goes on writing while another slot has its job;
2. the row is read before the download and used after it;
3. deciding the upload and settling the job are two transactions;
4. one slot's error ends the process and drops the other slots at any await;
5. the client can replace the raw object for as long as its URL lives;
6. two cleanup runs may hold one upload, with storage calls failing in between;
7. a deletion request, a confirmation and a cleanup run race on one row, and a
   publication of a policy or a delivery race with them;
8. capacity, a policy's asset, an orphan and a CORS configuration are looked at
   in one call and acted on in a later one;
9. provider calls take effect and their answers are lost;
10. commands are killed between two of the files they replace;
11. limits are compared in some operations and not in others, or written twice;
12. integer division at sizes of one or two units.

`PROJECT.json` lists these and the rest, each at its line, with the property
that would catch it.

## 2. The modules

```
JobLease            what the queue promises: leases with a one-bit clock
  ^ implemented by JobQueue (SQLite rows, deadlines, tenant order, clock)
  |                 MCJobQueue, JobQueueProofs
MediaStore          uploads and derivatives tables, object store (EXTENDS JobLease)
  ^      ^      ^        ^
UploadApi Worker Lifecycle Inventory     handlers, slots, cleanup runs, scans
  ^      ^      ^        ^
MediaNode       |        |     the first three interleaved, fairness, properties
  |  implements UploadLifecycle (the domain's state machine)
  |                 MCMediaNode, MediaNodeProofs
InventoryNode       MediaNode with scans; MCInventory, MediaNodeProofs

Services            one part at a time of
  |                     Reservation MultipartTransfer         UploadProofs
  |                     Delivery SitePolicy Admission         ServicesProofs
  |                     Sandbox H264Fallback MediaRules       MediaProofs
  |                 MCServices
Operations          one part at a time of
  |                     StorageBootstrap StorageCanary Setup  OperationsProofs
  |                     Installer Backup Config ResourceGates HostProofs
  |                 MCOperations
Sums                sums over finite sets, for UploadProofs, MediaProofs, HostProofs
```

The modules of the last two groups share no variable with one another or with
the node: each abstracts what it needs of the rest to a few free actions (an
upload becomes ready, is deleted, is purged). `Services` and `Operations`
instantiate each; the initial state chooses the `part` that is explored, and a
property says `part = "..." =>` the part's own property. Nothing is lost by that,
since no two parts interact, and nothing is gained by checking their product.
The constants of the parts stay constants of these modules, so that the proofs
are about all of their values; `MCServices` and `MCOperations` only give values
for TLC.

**JobQueue** keeps the columns `claim_next`, `renew`, `complete` and `fail` read:
state, attempts, `available_at`, `created_at`, lease owner and deadline, and the
claim sequence that orders tenants. Each operation is one transaction and one
action. `Candidate` is the query's `ORDER BY ... LIMIT 1`. A refused call is a
`WorkerError`; it ends the process, so it has the same effect as a crash: the slot
forgets its lease and the row keeps it. `passed` is a history variable: how
often another tenant was served since this tenant last had no work.

**JobLease** replaces the deadlines by a bit `due` and the claim order by a free
choice. `JobQueue` implements it (`ImplementsLease`), so the composed model can
use the small one.

**MediaStore** has one operator per repository transaction. A clock column becomes
the set of uploads for which its comparison holds: `aged` for the retentions,
`waiting` for cleanup leases and retry times. A digest stands for the content it
is computed from, and an object is there or not.

**UploadApi** splits a handler where it calls the provider or the database: read
the row, complete or abort the session, head the object, mark the row. `GiveUp`
is every early return and every failure between two of these. The client may
store any content while its URL lives.

**Worker** is `run_one`: claim, read, download and inspect, `start_processing`, the
two `put_file` calls, `publish_derivatives`, then `mark_rejected`, `complete` or
`fail` by the class of the result. `Exit` drops all slots of the process.
`RenewRefused` is the heartbeat losing the lease during the work; a renewal that
succeeds changes nothing in this model.

**Lifecycle** is `run_once`, one storage call per step, from the rows as they were
claimed.

**UploadLifecycle** is `can_transition_to`. `MediaNode` implements it: each step moves
one upload along one transition, or along created-uploaded-quarantined at once
(`uploaded` is seen only inside one transaction), or removes tombstones.
`failed` is in the domain and never written by the code.

**Inventory** is `run_once` of the inventory service, one step per provider call and
per transaction, with the cursor in the database. `InventoryNode` lets scans run
over the node. `GraceOutlastsJobs` says whether an object can be suspected for a
whole grace period while its upload is undecided.

**Reservation** is `create_batch`: preflight, one session or URL per file, the saving
transaction with its second check, aborts on failure, calls that are cut off; the
usage counters are variables of their own because triggers keep them. Lengths
from the threshold on stand for videos as well, which are always multipart.

**MultipartTransfer** follows one source through layout, signed parts, repeated
transfers, the completion list, assembly and the streamed copy.

**Delivery** is `presign_inner` for one upload: cache, shared load, second check,
signature, against publication, deletion, cleanup, purge and eviction.

**Sandbox** is one call of `ProcessSandboxProbe` with two levels of processes and
their clocks. **H264Fallback** is the reader of the fallback up to the decoder,
which may answer anything. **MediaRules** states the pure decisions: placement of
a watermark, size of a derivative, brands, durations, seeks. Each initial state is
one question; decimal digits and brands are cut to a small base.

**Admission** is the way of a signed request to its handler. A message stands for
what was signed once; calls carry it, twice if it is delivered twice.

**SitePolicy** has one action per statement of a publication, since they share no
transaction, and the life of the upload it names.

**ResourceGates** has the FIFO queues of the semaphores; **Backup** one action per file
operation of sequential runs; **Config** the limits of `validate()` beside the limits
the services check for themselves, with byte quantities scaled down and u64::MAX as
a small `Word`.

**StorageBootstrap** reads, merges and writes CORS rules as separate calls of
concurrent commands. **StorageCanary** is one live check with failing calls.
**Setup** and **Installer** are the commands of `g7mbctl`, killed anywhere and repeated.

### What is abstracted

* The error code of a rejection is not kept; a second rejection is accepted only
  with the recorded code, so the model allows both answers.
* Rendering is taken to be deterministic: a derivative is named by its source
  digest and variant, its bytes are not modelled.
* A database error while a job is settled ends the process, and is a `Crash`.
* A job with a preset the worker does not know is modelled in `JobQueue`
  (`FailUnsupportedPreset`); the node has jobs with known presets only.
* In the node no policy exists, so that `request_deletion` and `purge_tombstones`
  refuse nothing on its account (that is `SitePolicy`), and reservations are there at
  the start (that is `Reservation`).
* The clock never runs backwards, and two worker slots or two cleanup runs that
  are alive at the same time have different ids (`--worker-id`). A process that is
  started again has its old ids, and the model gives them back to it.
* A write is applied or it fails; a SQLite commit that is reported as failed and
  took effect all the same is not modelled. Provider calls and the steps after
  them are separate, so a provider call that took effect and whose caller then
  failed is.
* Calls that change nothing (a confirmation of a confirmed upload, an idle poll)
  have no action.
* `MultipartTransfer` assumes layouts of at most 10 000 parts (`LayoutAssumption`).
  `validate()` does not relate `max_video_bytes` to the part size, so a configuration
  with very long videos would accept uploads that cannot be completed.
* `Setup` has one command at a time: the temporary file of `atomic_write` is named by
  its process. `Installer` leaves out that somebody starts the target by hand in the
  middle of an installation.
* `Backup` has runs that follow one another, as the oneshot unit's do.
* In `Delivery` the variant and the token of a public request are not kept: they
  choose what is signed, not whether.

## 3. The runs

All pass runs use `CHECK_DEADLOCK FALSE`: a node with nothing left to do stops, and a
command that passed is over.

| Run | Question | Instance |
|---|---|---|
| `queue` | can two slots settle one job, or a live lease be touched; do attempts agree; is a tenant passed over twice; is it a `JobLease`? | 3 jobs of 2 tenants, 2 slots, 2 attempts, clock to 2, lease 1 |
| `node_slots` | do tables agree, is one source published, when slots take jobs over and one slot's error drops the other? | 2 uploads, one multipart, 2 slots of one process, 2 contents, 1 fault |
| `node_cleanup` | two overlapping cleanup runs, a slot, confirmations and deletions: is a ready upload servable, is every change a transition? | 2 worker faults, 1 storage fault, 2 cleanup attempts |
| `node_decides` | is every confirmed upload decided and every accepted deletion carried out? | 1 multipart upload, 1 slot, 1 cleaner, 2 faults, 1 storage fault |
| `prune` | are orphans reached across pages and stopped scans, and is nothing else taken? | 1 upload, pages of one object, 2 pages a scan, 1 scan fault |
| `services` | the parts listed in section 2, see the table below | |
| `operations` | the parts listed in section 2, see the table below | |
| `active_deleted`, `exhausted_job`, `lost_completion`, `policy_asset`, `orphan_process` | documented statements the code does not keep, see section 5 | smallest instance that shows it |

| Part | Property | Instance |
|---|---|---|
| reservation | `CapacityKept`, `SessionsOwned` | 2 calls of any 2 tenants, batches of up to 2 files, caps that two of them exceed together, 1 provider or database failure, 1 cut-off call |
| transfer | `TransferExact` | every length to 8, part sizes 2 to 5, 5 transfers |
| delivery | `DeletionEndsDelivery` | 2 requests, links of 2, request timeout of 1, clock to 3 |
| sandbox | `RenderingSound` | every operation, limit 5, so that halves and quarters round |
| fallback | `DecoderInputSound` | samples of up to 5 bytes to the base 3, prefixes of 1 and 2 bytes, tracks of 1 and 3 samples |
| rules | `SizesSound`, `ReadingsSound` | edges to 5 and 10, margins 0 and 1, up to 4 brands, fractions one digit longer than kept |
| admission | `LimitsHold`, `DuplicatesFarApart` | 3 calls, 2 of one message, half a token per tick, skew 2 |
| policy | `AnswersHold`, `PinnedPolicyDrawn`, `WatermarkKept` | 2 publishers, 2 revisions, 1 asset, 1 job |
| bootstrap | `OneManagedRule`, `ForeignRulesKept`, `RepeatConverges` | 2 administrators, 2 buckets, 2 origin lists, 1 foreign rule, limit 2, 1 fault |
| canary | `CanaryAccounts` | 2 buckets, 3 faults |
| setup | `PassIsWhole`, `UnforcedKeepsFiles`, `RepeatConverges` | 36 sets of answers, 1 change of mind, 1 fault |
| install | `PassRunsInstalled`, `RepeatConverges` | 2 releases, 2 files, 1 kill, 1 crash, 1 release unpacked meanwhile |
| backup | `RestorableKept` | 4 runs, 2 kept, 1 write |
| gates | `DiskWithinLimit`, `NobodyWaitsForever` | 3 slots, 8 policies around the minimum disk, lanes of 1 |
| config | `AcceptedStarts` | any 2 settings at the ends of their ranges and where they bound one another |

The bounds. In `queue` a lease of 1 in a clock of 2 lets it expire, the job be taken
over, and the first owner come back late; a third job gives one tenant a
backlog. `MaxFaults` counts failures of the environment only: one lets a slot stall
past its lease or a process die while the other slot works, two use up a budget
of two attempts. Two slots are enough for each race the code has, because each guard
compares one row with one owner; two contents are enough to tell replaced bytes
from recorded ones; two cleaners are enough for an expired cleanup lease.
`MaxCleanups = 2` lets the ceiling be reached. In `services` and `operations` two actors
race where two statements of one call can be separated, every limit is small enough
to be met and passed, and the arithmetic parts take all inputs up to their
bound. Slots, contents, cleaners, tenants, calls, ids and requests are
interchangeable, and the safety runs use that as symmetry; the runs with a
liveness property use none.

`prune` uses one scanner in prune mode: audits and prune scans share the cursor, so
that audits that always end before the last page and prune scans that always begin
behind an orphan could take turns for ever; the timer in
`deploy/` schedules audits only, and an operator prunes.

### Fairness

`FairSpec` of the node assumes weak fairness of

* each slot's own step: `run` polls for ever and
  `deploy/systemd/g7mediabooster-worker.service` has `Restart=on-failure`;
* the clock, for retry delays and for leases of slots that are gone;
* each cleanup run's step, and the clock for cleanup leases and retry times:
  `deploy/systemd/g7mediabooster-cleanup.timer` starts a run every 15 minutes and
  is persistent.

`prune` adds an operator who goes on starting prune scans, and the grace period
passing. `operations` assumes that a command makes its next step and that the
operator repeats one that failed; that a release being unpacked is unpacked to its
end; and that a slot takes the permit it is first in line for and finishes its job,
which every slot does under its wall-clock limits.

Nothing is assumed of clients, of API handlers, of heartbeats, or of retention
times. Environment failures happen at most `MaxFaults` (`MaxStorageFaults`) times:
with a storage that fails for ever nothing can be decided. A permanent failure
of the media is not a fault and may happen at any time.

## 4. The proofs

All theorems hold for every value of the constants: any number of jobs, slots,
tenants, calls, buckets, rules, files, any limit, size and clock. The assumptions are
those on the constants, named in the modules (`QueueAssumption`,
`CapacityAssumption`, `RulesAssumption`, ...): positive budgets and durations,
types, and null values that are not members of the sets they stand beside. Each
safety theorem has an inductive invariant of its own, one lemma that the initial states
satisfy it and one that each action keeps it.

| Theorem | States | Argument |
|---|---|---|
| *JobQueueProofs* | | |
| `TypeCorrect` | `[]TypeOK` of the queue | inductive as it stands |
| `AttemptsAgreeHolds` | `[]AttemptsAgree` | inductive with the type: a claim writes both counts, and takes ownership from anyone else |
| `OnlyLatestClaimSettles` | `SingleSettler` | a transition: with `AttemptsAgree`, whoever may settle owns the row with its last attempt |
| `LiveLeasesHold` | `LiveLeaseUntouched` | a transition: every statement that touches a leased row compares owner or deadline |
| `FairTurns` | `[]BoundedOvertaking` | `TurnInv`: a tenant that passed another while that one had work is behind it in the order; `CandidateTurn` says the chosen job's tenant is minimal among tenants with work |
| `LeaseRefinement` | `ImplementsLease` | per action, with `LeasedOnce` (a leased row was claimed), so that the attempt count capped at the budget decides as the real one |
| *MediaNodeProofs* | | |
| `NodeTypeCorrect` | `[]TypeOK` of the node | `BusyInv`: a slot that is not idle has a lease, a run that works has a candidate |
| `LifecycleRefinement` | `ImplementsLifecycle` | each transaction guards the state it moves from |
| `JobsMatch` | `[]JobsMatchUploads` | `JobInv`, below |
| `OneSource` | `[]OneSourcePublished` | `SourceInv`, below |
| `ReadyServable` | `[]ReadyIsServable` | `ServeInv`, below |
| `SourcesSurvivePruning` | `PruneLeavesSources` of `InventoryNode` | `ScanInv`, below |
| `PruningKeepsServable` | `[]ReadyIsServable` of `InventoryNode`, from `GraceOutlastsJobs` | `ScanInv`, below |
| `ScansKeepLifecycle`, `ScansKeepJobsAndSources` | `ImplementsLifecycle`, `[](TypeOK /\ JobsMatchUploads /\ OneSourcePublished)` of `InventoryNode` | `NodeInv`: a scan changes no row of an upload or a job, and takes from `media` only |
| *ServicesProofs* | | |
| `PublishedStays`, `PinnedRevisionRendered`, `NamedWatermarkStays` | `[]AnswersHold`, `[]PinnedPolicyDrawn`, `WatermarkKept` | `PolicyInv`: revisions are only appended, so that a pinned revision goes on naming what it named (`PinsHold`) |
| `DeletionIsFinal` | `[]DeletionEndsDelivery` | `DeliveryInv`: a request that came after the commit does not pass the second check (`LateStopped`), and the others are no older than the timeout (`EarlyInTime`) |
| `ReplaysFarApart` | `[]DuplicatesFarApart` | `GateInv`: the nonce of an executed message is remembered until the skew has passed (`Remembered`) |
| `LimiterKeepsItsWord` | `[]LimitsHold` | `Paid`, below, and a count of permits by their holders (`PermitsHeld`) |
| *UploadProofs* | | |
| `CapsAreNeverExceeded` | `[]CapacityKept` | `Accounts`: the counters of the triggers are the sums over the rows, and both transactions that change one change the other |
| `EverySessionHasAnOwner` | `[]SessionsOwned` | `SessionInv`: the ids of two calls are disjoint and fresh, and a call has opened the sessions of the files it has come to |
| `LengthsAreExact` | `[]TransferExact` | `TransferInv`: what is held of a part has the length that was signed; the lengths of the parts add up to the source |
| *MediaProofs* | | |
| `AcceptedRenderingIsWhole` | `[]RenderingSound` | `ProcessInv`: only a sandbox that died or was killed leaves a program, and success is not reported over a partial file; each attempt has a quarter of the limit |
| `SizesStayInside` | `[]SizesSound` | `Share`, `ScaledWithin`: a quotient of a share is no larger than the whole |
| `ReadingsAreSound` | `[]ReadingsSound` | the loop over the brands has a closed form (`LoopEnds`, `LoopDecides`); the digits of a duration are a sum, below |
| `DecoderIsFedTheSamples` | `[]DecoderInputSound` | `DecoderInv`: fewer samples fed than the position, none before the first sync sample; `FedWhole`, below: every sample fed is its units, whole |
| *OperationsProofs* | | |
| `SetupPassIsWhole`, `SetupKeepsFiles` | `[]PassIsWhole`, `UnforcedKeepsFiles` | `SetupInv`: the files before a step hold what this command writes |
| `CanaryLeavesNothing` | `[]CanaryAccounts` | `CanaryInv`: which object or session each call may have left so far |
| `BootstrapKeepsOneRule`, `ReadRulesSurvive` | `[]OneManagedRule`, `ForeignRulesKept` | `BootInv`: the rules a command read leave room for its own, and merging leaves one managed rule, whatever was read |
| *HostProofs* | | |
| `InstallPassRunsOneRelease` | `[]PassRunsInstalled` | `InstallInv`: after the second comparison every file was copied from the old release, or the bundle is the new one throughout |
| `BackupStaysRestorable` | `[]RestorableKept` | `CopyInv`: some snapshot as recent as the last success can be removed by a later run only (`Standing`), and that run rotates after its own is in place |
| `AcceptedSettingsStart` | `[]AcceptedStarts` | `LoadInv`: what `validate()` says implies what each service checks, saturating arithmetic included |
| `DiskStaysWithinLimit` | `[]DiskWithinLimit` | `GatesInv`: free permits and the needs of the holders are together all permits; a reservation is at most its permits times the unit |

`JobsMatchUploads` is not inductive: whether `complete` leaves a decided upload
depends on what the slot saw before. `JobInv` adds what a slot knows at each
step: a slot with a lease works on a confirmed upload; a slot that owns its row
has the row's attempts; a slot about to complete leaves a decided upload, and one
about to fail after its last attempt a rejected one; a reservation has no job.
These facts survive other actors because a state never goes back
(`StateMonotone`, a consequence of the state machine).

`OneSourcePublished` needs to know that the recorded digest never changes:
`DigestInv` says which states have a digest, and that a slot from the `master` step
on holds exactly the digest of the row (`SlotDigest`), although it read the row
before the download and its lease may be gone. It holds because
`start_processing` is a compare-and-set and a resumed source is compared.

`ReadyIsServable` needs the objects to be stored before the rows name them
(`SlotStored`), and cleanup runs to hold keys only of uploads that are not kept
(`RunKeys`). The second is the delicate one: a run claims an aged reservation,
the client confirms it, the worker publishes it, and the run is still working.
It is safe because the run's keys were read when the reservation had none.

The theorems about `InventoryNode` have these invariants over the larger next-state
relation (`NodeInv`), with one more, `ScanInv`, about what a scan holds when it is about
to delete. The last look at the tables finds the row of every source whose upload is
not gone, because an upload has its row before its source; gone is for good, so what is
deleted afterwards is missed by nobody. A derivative may be stored before its row: with
`GraceOutlastsJobs` as hypothesis, an object suspected for a whole grace period is of an
upload that is decided, and the last look then finds its row or shows that none will
come. Without the hypothesis the statement is false, see section 5.
`InventoryAssumption` says that the provider lists distinct keys at distinct ranks.

The limit of the token bucket counts admissions between any two moments and says
nothing about tokens. `Paid` relates the two for every suffix of the admissions:
those since the i-th and the tokens left are paid for by one burst and the time
credited since. Refilling rounds down and keeps the remainder in `refilled_at`,
which is why the invariant counts to `refilled_at` and not to the present.

`CapacityKept`, `TransferExact`, `ReadingsSound` and `DiskWithinLimit` are about sums
that the models compute with a fold. `Sums` defines the sum of a function as the
number of its pieces (`Cardinality`), from which what the proofs need of sums follows
(`SumWithout`, `SumRenamed`, `SumScaled`, `SumTimes`), and `FoldIsSum` says that a fold
is the sum, in whichever order it takes the members. The inductions of these
lemmas, and that over the brands of a file, pick a smallest counterexample
(`FewestMembers`, `LeastNumber`), because the induction theorems of the library
take operators as parameters.

`ReadingsSound` is proved for every base and number of digits. The provers know no
exponents, so `RulesAssumption` states the two laws of powers that are used, as far as
`Kept`; TLC evaluates them with the others.

`DecoderInputSound` says of every sample that was fed that its NAL units, each behind
the length that the file gives it, are the sample again: no byte is lost, added or
moved by the conversion to Annex B, for a sample of any length. `ToAnnexB` splits by recursion
on the cursor. The proof first shows that a recursive function which refers only to
later cursors exists (`RecursionEnds`, `SplitsExist`), then that each unit with its
length is the input between two cursors (`NumberReads`, `UnitsFrom`, `NextUnit`), and that
joining all of them leaves no rest (`Joined`, `RestOf`, `EncodeUndoes`). Both are
inductions, written as a set of numbers that contains its start and every successor (`Climb`).
`FedWhole` carries the result through the steps of `extract_first_frame_ppm`.
`FallbackAssumption` asks that a length has 1, 2 or 4 bytes, which
`openh264_fallback.rs` checks, and that bytes are below `Base`.

`InstallPassRunsOneRelease` has the hypothesis `MaxUnpacks <= 1`: one other release is
unpacked at most over the bundle during one installation, as in the run. It is needed:
a bundle that is replaced twice can match again, at the comparison, files that were
copied from two releases.

Only model-checked, and why:

* `EveryUploadDecided`, `DeletionHonoured`, `OrphansDeleted`, `NobodyWaitsForever`,
  `RepeatConverges`: liveness. Every invariant and every action property that a passing
  run checks is a theorem.

## 5. Where the documents and the code disagree

1. Active processing is not to be deleted; a deletion accepted while the upload
   was `created` survives its confirmation and cleanup tombstones the upload while
   it is quarantined or processing (`active_deleted`).
2. As a consequence, that upload's job can never be settled: its rejection is
   refused, the worker exits before `fail`, and the job is claimed again for ever
   (`exhausted_job`).
3. Completions are to be idempotent; when the provider completed a session and the
   update of the row was lost, a repeated completion fails at the provider for good
   (`lost_completion`).
4. An upload named by a site policy is not to be deleted; a publication looks at
   the state of the asset only, some statements before it inserts the revision, and
   a deletion requested meanwhile is carried out (`policy_asset`).
5. A child that timed out is to be killed and waited for; the worker's limit kills
   the sandbox and not the program the sandbox had started (`orphan_process`).

Further observations made while modelling, which no run of the project states:

* only `fail` compares attempts with `max_attempts` ("Maximum claims before
  dead-letter."): a job whose worker dies each time is claimed without limit;
* `fail_cleanup` also writes `updated_at`, so that the retry of a rejected upload waits
  for another retention and not for `cleanup_retry_seconds`;
* `is_inventory_key_known` and the DELETE are two calls (`inventory.rs:300`): an object
  suspected for a whole grace period whose row is published in between is deleted.
  `GraceOutlastsJobs` excludes it: it takes an upload that was retried for longer
  than the grace period;
* a `create_batch` call that is cut off between opening a session and saving the
  batch leaves a session that no row names, and that neither cleanup (which works
  from rows) nor the inventory (which lists objects) closes, against SPEC.md:191;
* a CORS rule another party adds between a bootstrap's read and its write is lost
  (`ForeignRulesKept` excuses exactly that); concurrent bootstraps with different
  origins may undo one another;
* when the answer of the canary's first PUT is lost, its object is left
  (`CanaryAccounts` excuses exactly that), against the comment at line 160 of the
  adapter;
* `setup --force` replaces the two halves of a credential with one rename each: a
  command killed in between leaves one half of each (docs/SETUP_CUI.md:154 says
  together and atomically); an upgrade that is killed leaves binaries of two
  releases (docs/SERVER_INSTALL.md:60). Repeating either command repairs it;
* overlapping backups, which the unit does not produce, could rotate out one
  another's files; retention counts snapshots without a manifest; the
  live check of `verify_pool` reads counters and rows in separate statements and may
  fail while a service writes;
* `allowed_skew_seconds = 0` loads and then refuses every nonce; a tenant id that is
  no identifier loads and is refused by every batch (`AcceptedStarts` names that one);
  `video_timeout_seconds` below 4 is refused only with a static watermark;
* the worker and the sandbox are given the same limit; a sandbox killed for its
  memory while it renders an image counts as a rejected image;
* requests that wait for a manifest load share its error, also when the upload
  became ready meanwhile;
* a nonce is purged exactly when the skew has passed, at which a message signed
  ahead of the clock is still accepted (`DuplicatesFarApart` states what is left);
* the reserved temporary disk counts the source, two renderings and the watermark,
  not intermediate files.

## 6. Not modelled, and the plan

The adapters (PHP endpoints, browser uploader) are seen from the API's side only.
Decoders, the seccomp filter and the capability probes of the sandbox, signatures,
status codes, telemetry, wire types and release tooling are not modelled: they
keep no state that a step of the system depends on, or are computations of
libraries. The comparisons of `ImageLimits` and `VideoLimits` and the syntax of object
keys are plain predicates. The `schema` of the database other than the columns the
modules name is not modelled.

What is left, in this order: the
composition of `SitePolicy` with the node, so that a pinned watermark that cannot be
fetched meets the worker's retries; the browser uploader's schedule.
