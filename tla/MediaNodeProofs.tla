-------------------------- MODULE MediaNodeProofs --------------------------
(***************************************************************************)
(* Proofs about MediaNode, for any uploads, slots, processes, handlers,    *)
(* cleaners and bounds, and about InventoryNode, for any scanners, pages   *)
(* and order of the keys.                                                  *)
(***************************************************************************)
EXTENDS InventoryNode, TLAPS

-----------------------------------------------------------------------------
(* The inductive invariants.  A slot is idle exactly when it holds no lease, it
   knows the digest from the download on, and a cleanup run that is past its
   claim works on a candidate: the types depend on it. *)
BusyInv ==
    /\ \A s \in Slots :
         /\ slot[s].step = "idle" <=> lease[s] = NoLease
         /\ slot[s].step = "idle" => slot[s] = Idle
         /\ slot[s].step \in {"start", "master", "thumbnail", "publish"} =>
              slot[s].digest \in Contents
    /\ \A c \in Cleaners :
         run[c].step \in {"storage", "complete", "fail"} => run[c].current \in Candidate

TypeInv == TypeOK /\ BusyInv

(* A slot holds leases only on uploads that were confirmed. *)
SlotInv == \A s \in Slots : lease[s] # NoLease => state[lease[s].job] # "created"

(* A slot that may settle its job knows how many attempts the row counts. *)
AttemptsInv ==
    \A s \in Slots :
      lease[s] # NoLease /\ Owns(s, lease[s].job)
        => lease[s].attempts = job[lease[s].job].attempts

(* What a slot about to settle its job has achieved. *)
SettleInv ==
    \A s \in Slots :
      /\ slot[s].step = "complete" =>
           state[lease[s].job] \in {"ready", "rejected"} \cup GoneState
      /\ slot[s].step = "fail" /\ lease[s].attempts >= MaxAttempts =>
           state[lease[s].job] \in {"rejected"} \cup GoneState

(* No job exists before the upload is confirmed. *)
NoEarlyJob == \A u \in Uploads : state[u] = "created" => job[u].state = "absent"

JobInv == SlotInv /\ AttemptsInv /\ SettleInv /\ NoEarlyJob /\ JobsMatchUploads

(* What the digest column says of the other columns of an upload ... *)
UploadDigest(u) ==
    /\ state[u] \in {"created", "quarantined"} => sha[u] = NoContent
    /\ state[u] \in {"processing", "ready"} => sha[u] \in Contents
    /\ derivs[u] # {} => state[u] \in {"ready", "deleted"}

(* ... and of the source a slot works from: once recorded it is what every
   later write uses. *)
SlotDigest(s) ==
    /\ slot[s].step \in {"inspect", "start"} /\ slot[s].source # NoContent =>
         slot[s].source = sha[lease[s].job]
    /\ slot[s].step \in {"master", "thumbnail", "publish"} =>
         /\ slot[s].digest = sha[lease[s].job]
         /\ state[lease[s].job] # "quarantined"

DigestInv ==
    /\ \A u \in Uploads : UploadDigest(u)
    /\ \A s \in Slots : SlotDigest(s)

SourceInv == DigestInv /\ OneSourcePublished

(* What no step takes back: a decision, and one against the upload *)
DecidedState == {"ready", "rejected"} \cup GoneState

LostState == {"rejected"} \cup GoneState

(* An upload whose objects nobody may delete: not asked for, not lost *)
Kept(u) == u \notin delreq /\ state[u] \notin LostState

(* A slot's objects are there until deletion is requested ... *)
SlotStored(s) ==
    /\ slot[s].step \in {"thumbnail", "publish"} /\ Kept(lease[s].job) =>
         <<lease[s].job, slot[s].digest, "master">> \in media
    /\ slot[s].step = "publish" /\ Kept(lease[s].job) =>
         <<lease[s].job, slot[s].digest, "thumbnail">> \in media

(* ... and a cleanup run only holds keys of uploads with such a request. *)
RunKeys(c) ==
    \A candidate \in run[c].todo \cup {run[c].current} :
      \A key \in candidate.keys : key[1] \in delreq

ObjectInv == (\A s \in Slots : SlotStored(s)) /\ (\A c \in Cleaners : RunKeys(c))

ServeInv == ObjectInv /\ ReadyIsServable

-----------------------------------------------------------------------------
(* Type correctness *)

(* The queue's operations keep the jobs table and the leases typed. *)
LEMMA QueueType ==
  ASSUME LeaseTypeOK,
         \/ \E j \in Jobs : Enqueue(j)
         \/ \E s \in Slots, j \in Jobs : Claim(s, j)
         \/ \E s \in Slots : Complete(s) \/ Fail(s, MaxAttempts)
         \/ \E S \in SUBSET Slots : Lose(S)
         \/ \E J \in SUBSET Jobs : BecomeDue(J)
         \/ PurgeTombstones
         \/ UNCHANGED leaseVars
  PROVE  LeaseTypeOK'
  <1> USE LeaseAssumption
  <1>1. ASSUME NEW j \in Jobs, Enqueue(j) PROVE LeaseTypeOK'
    BY <1>1 DEF Enqueue, LeaseTypeOK, JobRow, JobState
  <1>2. ASSUME NEW s \in Slots, NEW j \in Jobs, Claim(s, j) PROVE LeaseTypeOK'
    <2>1. Capped(job[j].attempts + 1) \in Nat
      BY DEF LeaseTypeOK, JobRow, Capped
    <2> QED
      BY <1>2, <2>1 DEF Claim, LeaseTypeOK, JobRow, JobState
  <1>3. ASSUME NEW s \in Slots, Complete(s) \/ Fail(s, MaxAttempts) PROVE LeaseTypeOK'
    <2>1. lease[s].job \in Jobs /\ job[lease[s].job].attempts \in Nat
      BY <1>3 DEF Complete, Fail, LeaseTypeOK, JobRow
    <2>2. \A st \in JobState : Settled(job[lease[s].job], st) \in JobRow
      BY <2>1 DEF Settled, JobRow
    <2>3. PICK st \in JobState : job' = [job EXCEPT ![lease[s].job] = Settled(job[lease[s].job], st)]
      BY <1>3 DEF Complete, Fail, JobState
    <2>4. job' \in [Jobs -> JobRow]
      BY <2>1, <2>2, <2>3 DEF LeaseTypeOK
    <2> QED
      BY <1>3, <2>4 DEF Complete, Fail, Release, LeaseTypeOK
  <1>4. ASSUME NEW S \in SUBSET Slots, Lose(S) PROVE LeaseTypeOK'
    BY <1>4 DEF Lose, LeaseTypeOK
  <1>5. ASSUME NEW J \in SUBSET Jobs, BecomeDue(J) PROVE LeaseTypeOK'
    BY <1>5 DEF BecomeDue, LeaseTypeOK, JobRow, JobState
  <1>6. CASE PurgeTombstones
    BY <1>6 DEF PurgeTombstones, LeaseTypeOK, NewJob, JobRow, JobState, Uploads
  <1>7. CASE UNCHANGED leaseVars
    BY <1>7 DEF leaseVars, LeaseTypeOK
  <1> QED
    BY <1>1, <1>2, <1>3, <1>4, <1>5, <1>6, <1>7

(* So do the repository transactions for the uploads and derivatives tables. *)
LEMMA TablesType ==
  ASSUME TablesOK,
         \/ \E u \in Uploads : MarkQuarantined(u) \/ MarkDeleted(u) \/ RequestDeletion(u)
                                 \/ MarkRejected(u)
         \/ \E u \in Uploads, d \in Contents : StartProcessing(u, d) \/ PublishDerivatives(u, d)
         \/ \E c \in Cleaners, S \in SUBSET Uploads :
               LeaseCleanup(c, S) /\ \A u \in S : Claimable(u)
         \/ \E c \in Cleaners, u \in Uploads : CompleteCleanup(c, u) \/ FailCleanup(c, u)
         \/ PurgeTombstones
         \/ \E u \in Uploads : Age(u) \/ CleanupDue(u)
         \/ UNCHANGED tableVars
  PROVE  TablesOK'
  <1> USE StoreAssumption
  <1>1. ASSUME NEW u \in Uploads,
               MarkQuarantined(u) \/ MarkDeleted(u) \/ MarkRejected(u)
        PROVE  TablesOK'
    BY <1>1 DEF MarkQuarantined, MarkDeleted, MarkRejected, SetState, TablesOK, RowState,
                tableVars
  <1>2. ASSUME NEW u \in Uploads, RequestDeletion(u) PROVE TablesOK'
    BY <1>2 DEF RequestDeletion, Touch, TablesOK
  <1>3. ASSUME NEW u \in Uploads, NEW d \in Contents, StartProcessing(u, d) PROVE TablesOK'
    BY <1>3 DEF StartProcessing, SetState, TablesOK, RowState, Digests, tableVars
  <1>4. ASSUME NEW u \in Uploads, NEW d \in Contents, PublishDerivatives(u, d) PROVE TablesOK'
    <2>1. {d} \X Variants \in SUBSET (Contents \X Variants)
      OBVIOUS
    <2>2. derivs' \in [Uploads -> SUBSET (Contents \X Variants)]
      BY <1>4, <2>1 DEF PublishDerivatives, TablesOK
    <2> QED
      BY <1>4, <2>2 DEF PublishDerivatives, SetState, TablesOK, RowState
  <1>5. ASSUME NEW c \in Cleaners, NEW S \in SUBSET Uploads, LeaseCleanup(c, S),
               \A u \in S : Claimable(u)
        PROVE  TablesOK'
    <2>1. \A u \in S : cleanups[u] + 1 \in 0..MaxCleanups
      BY <1>5 DEF Claimable, TablesOK
    <2> QED
      BY <1>5, <2>1 DEF LeaseCleanup, TablesOK
  <1>6. ASSUME NEW c \in Cleaners, NEW u \in Uploads, CompleteCleanup(c, u) \/ FailCleanup(c, u)
        PROVE  TablesOK'
    BY <1>6 DEF CompleteCleanup, FailCleanup, SetState, Touch, TablesOK, RowState
  <1>7. CASE PurgeTombstones
    BY <1>7 DEF PurgeTombstones, TablesOK, RowState
  <1>8. ASSUME NEW u \in Uploads, Age(u) \/ CleanupDue(u) PROVE TablesOK'
    BY <1>8 DEF Age, CleanupDue, TablesOK
  <1>9. CASE UNCHANGED tableVars
    BY <1>9 DEF tableVars, TablesOK
  <1> QED
    BY <1>1, <1>2, <1>3, <1>4, <1>5, <1>6, <1>7, <1>8, <1>9

(* A slot that works has a lease on an upload. *)
LEMMA SlotFacts ==
  ASSUME TypeInv, NEW s \in Slots, slot[s].step # "idle"
  PROVE  /\ Upload(s) \in Uploads
         /\ lease[s] # NoLease /\ lease[s].attempts \in Nat
         /\ slot[s] \in Slot
  BY DEF TypeInv, TypeOK, BusyInv, LeaseTypeOK, WorkerTypeOK, Upload, Uploads

(* A slot that goes on keeps its source and digest, and its lease. *)
LEMMA StepType ==
  ASSUME TypeInv, NEW s \in Slots, NEW st \in (Working \cup Settling) \ {"start"},
         slot[s].step # "idle", Step(s, st), UNCHANGED <<leaseVars, lifecycleVars>>,
         st \in {"master", "thumbnail", "publish"} => slot[s].digest \in Contents
  PROVE  slot' \in [Slots -> Slot] /\ BusyInv'
  <1>1. slot[s] \in Slot /\ lease[s] # NoLease
    BY SlotFacts
  <1>2. [step |-> st, source |-> slot[s].source, digest |-> slot[s].digest] \in Slot
    BY <1>1 DEF Slot
  <1>3. slot' \in [Slots -> Slot]
    BY <1>2 DEF TypeInv, TypeOK, WorkerTypeOK, Step
  <1> QED
    BY <1>1, <1>3 DEF TypeInv, TypeOK, WorkerTypeOK, Step, BusyInv, leaseVars, lifecycleVars,
                      Working, Settling

LEMMA TransientType ==
  ASSUME TypeInv, NEW s \in Slots, slot[s].step # "idle", Transient(s),
         UNCHANGED <<leaseVars, lifecycleVars>>
  PROVE  slot' \in [Slots -> Slot] /\ BusyInv'
  <1>1. PICK st \in {"reject_exhausted", "fail"} : Step(s, st)
    BY DEF Transient
  <1>2. st \in (Working \cup Settling) \ {"start"} /\ st \notin {"master", "thumbnail", "publish"}
    BY <1>1 DEF Working, Settling
  <1> QED
    BY <1>1, <1>2, StepType

(* A process that exits leaves its slots idle and without leases. *)
LEMMA ExitType ==
  ASSUME TypeInv, NEW s \in Slots, Exit(s), UNCHANGED lifecycleVars
  PROVE  slot' \in [Slots -> Slot] /\ LeaseTypeOK' /\ BusyInv'
  <1>1. LeaseTypeOK'
    BY QueueType DEF Exit, Peers, TypeInv, TypeOK
  <1>2. Idle \in Slot
    BY DEF Idle, Slot, Digests
  <1>3. slot' \in [Slots -> Slot]
    BY <1>2 DEF Exit, TypeInv, TypeOK, WorkerTypeOK
  <1>4. \A t \in Slots : /\ t \in Peers(s) => slot'[t] = Idle /\ lease'[t] = NoLease
                         /\ t \notin Peers(s) => slot'[t] = slot[t] /\ lease'[t] = lease[t]
    BY DEF Exit, Lose
  <1>5. Idle.step = "idle"
    BY DEF Idle
  <1> QED
    BY <1>1, <1>3, <1>4, <1>5 DEF BusyInv, TypeInv, lifecycleVars

LEMMA WorkerType ==
  ASSUME TypeInv, WorkerNext, UNCHANGED <<apiVars, lifecycleVars>>
  PROVE  TypeInv'
  <1>0. ApiTypeOK' /\ LifecycleTypeOK'
    BY DEF TypeInv, TypeOK, apiVars, lifecycleVars, ApiTypeOK, LifecycleTypeOK
  <1>a. faults' \in Nat
    <2>1. NoFault \/ Fault
      <3>1. ASSUME NEW s \in Slots, SlotStep(s) PROVE NoFault
        BY <3>1 DEF SlotStep, ClaimJob, ReadSource, Inspect, Start, PutMaster, PutThumbnail,
                    PutDerivative, Publish, Reject, CompleteJob, FailJob, Settle
      <3> QED
        BY <3>1 DEF WorkerNext, FailPermanently, FailTransiently, FailOperationally,
                    RenewRefused, Crash, Stall, JobDue
    <2> QED
      BY <2>1 DEF NoFault, Fault, TypeInv, TypeOK, WorkerTypeOK
  <1>b. ASSUME UNCHANGED tableVars PROVE TablesOK'
    BY <1>b, TablesType DEF TypeInv, TypeOK, StoreTypeOK
  <1>c. ASSUME UNCHANGED objectVars PROVE ObjectsOK'
    BY <1>c DEF TypeInv, TypeOK, StoreTypeOK, ObjectsOK, objectVars
  <1>d. ASSUME UNCHANGED leaseVars PROVE LeaseTypeOK'
    BY <1>d, QueueType DEF TypeInv, TypeOK
  <1>e. ASSUME TablesOK', ObjectsOK', LeaseTypeOK', slot' \in [Slots -> Slot], BusyInv'
        PROVE  TypeInv'
    BY <1>e, <1>0, <1>a DEF TypeInv, TypeOK, StoreTypeOK, WorkerTypeOK
  <1>1. ASSUME NEW s \in Slots, NEW u \in Uploads, ClaimJob(s, u) PROVE TypeInv'
    <2>1. LeaseTypeOK'
      BY <1>1, QueueType DEF ClaimJob, Uploads, TypeInv, TypeOK
    <2>2. lease[s] = NoLease /\ slot[s] = Idle
      BY <1>1 DEF ClaimJob, Claim
    <2>3. [step |-> "read", source |-> slot[s].source, digest |-> slot[s].digest] \in Slot
      BY <2>2 DEF Idle, Slot, Digests, Working
    <2>4. slot' \in [Slots -> Slot]
      BY <1>1, <2>3 DEF ClaimJob, Step, TypeInv, TypeOK, WorkerTypeOK
    <2>5. lease'[s] # NoLease
      BY <1>1, LeaseAssumption DEF ClaimJob, Claim, NoLease, Uploads, TypeInv, TypeOK, LeaseTypeOK
    <2>6. BusyInv'
      BY <1>1, <2>4, <2>5 DEF ClaimJob, Claim, Step, BusyInv, TypeInv, TypeOK, WorkerTypeOK,
                              LeaseTypeOK, lifecycleVars
    <2> QED
      BY <1>1, <1>b, <1>c, <1>e, <2>1, <2>4, <2>6 DEF ClaimJob
  <1>2. ASSUME NEW s \in Slots, ReadSource(s) PROVE TypeInv'
    <2>0. slot[s].step # "idle" /\ UNCHANGED <<tableVars, objectVars, leaseVars>>
      BY <1>2 DEF ReadSource
    <2>1. CASE state[Upload(s)] \in UndecidedState
      <3> DEFINE row == [step |-> "inspect", source |-> sha[Upload(s)], digest |-> NoContent]
      <3>1. slot' = [slot EXCEPT ![s] = row]
        BY <1>2, <2>1 DEF ReadSource, UndecidedState
      <3>2. row \in Slot /\ row.step = "inspect"
        BY <2>0, SlotFacts DEF Slot, Working, Digests, TypeInv, TypeOK, StoreTypeOK, TablesOK
      <3> HIDE DEF row
      <3>3. slot' \in [Slots -> Slot] /\ BusyInv'
        BY <2>0, <3>1, <3>2, SlotFacts DEF BusyInv, TypeInv, TypeOK, WorkerTypeOK, leaseVars, lifecycleVars
      <3> QED
        BY <1>b, <1>c, <1>d, <1>e, <2>0, <3>3
    <2>2. CASE Step(s, "complete")
      BY <1>b, <1>c, <1>d, <1>e, <2>0, <2>2, StepType DEF Settling
    <2>3. CASE Transient(s)
      BY <1>b, <1>c, <1>d, <1>e, <2>0, <2>3, TransientType
    <2> QED
      BY <1>2, <2>1, <2>2, <2>3 DEF ReadSource
  <1>3. ASSUME NEW s \in Slots, Inspect(s) PROVE TypeInv'
    <2>0. slot[s].step # "idle" /\ UNCHANGED <<tableVars, objectVars, leaseVars>>
      BY <1>3 DEF Inspect
    <2>1. CASE raw[Upload(s)] # NoContent
      <3> DEFINE row == [step |-> "start", source |-> slot[s].source, digest |-> raw[Upload(s)]]
      <3>1. slot' = [slot EXCEPT ![s] = row]
        BY <1>3, <2>1 DEF Inspect
      <3>2. row \in Slot /\ row.step = "start" /\ row.digest \in Contents
        BY <2>0, <2>1, SlotFacts DEF Slot, Working, Digests, TypeInv, TypeOK, StoreTypeOK, ObjectsOK
      <3> HIDE DEF row
      <3>3. slot' \in [Slots -> Slot] /\ BusyInv'
        BY <2>0, <3>1, <3>2, SlotFacts DEF BusyInv, TypeInv, TypeOK, WorkerTypeOK, leaseVars, lifecycleVars
      <3> QED
        BY <1>b, <1>c, <1>d, <1>e, <2>0, <3>3
    <2>2. CASE Transient(s)
      BY <1>b, <1>c, <1>d, <1>e, <2>0, <2>2, TransientType
    <2> QED
      BY <1>3, <2>1, <2>2 DEF Inspect
  <1>4. ASSUME NEW s \in Slots, Start(s) PROVE TypeInv'
    <2>0. slot[s].step = "start" /\ UNCHANGED <<objectVars, leaseVars>>
      BY <1>4 DEF Start
    <2>1. slot[s].digest \in Contents /\ Upload(s) \in Uploads
      BY <2>0, SlotFacts DEF TypeInv, BusyInv
    <2>2. TablesOK'
      BY <1>4, <1>b, <2>1, TablesType DEF Start, TypeInv, TypeOK, StoreTypeOK
    <2>3. slot' \in [Slots -> Slot] /\ BusyInv'
      <3>1. CASE Step(s, "master")
        BY <2>0, <2>1, <3>1, StepType DEF Working, lifecycleVars
      <3>2. CASE Step(s, "reject")
        BY <2>0, <3>2, StepType DEF Settling, lifecycleVars
      <3>3. CASE Transient(s)
        BY <2>0, <3>3, TransientType
      <3> QED
        BY <1>4, <3>1, <3>2, <3>3 DEF Start
    <2> QED
      BY <1>c, <1>d, <1>e, <2>0, <2>2, <2>3
  <1>5. ASSUME NEW s \in Slots, PutMaster(s) \/ PutThumbnail(s) PROVE TypeInv'
    <2>0. PICK v \in Variants, st \in {"thumbnail", "publish"} : PutDerivative(s, v, st)
      BY <1>5 DEF PutMaster, PutThumbnail, Variants
    <2>1. slot[s].step = v /\ UNCHANGED <<tableVars, leaseVars>> /\ Step(s, st)
      BY <2>0 DEF PutDerivative
    <2>2. slot[s].digest \in Contents /\ Upload(s) \in Uploads
      BY <2>1, SlotFacts DEF TypeInv, BusyInv, Variants
    <2>3. ObjectsOK'
      BY <2>0, <2>2 DEF PutDerivative, ObjectsOK, Keys, TypeInv, TypeOK, StoreTypeOK
    <2>4. slot' \in [Slots -> Slot] /\ BusyInv'
      BY <2>0, <2>1, <2>2, StepType DEF Working, Variants
    <2> QED
      BY <1>b, <1>d, <1>e, <2>1, <2>3, <2>4
  <1>6. ASSUME NEW s \in Slots, Publish(s) PROVE TypeInv'
    <2>0. slot[s].step = "publish" /\ UNCHANGED <<objectVars, leaseVars>>
      BY <1>6 DEF Publish
    <2>1. slot[s].digest \in Contents /\ Upload(s) \in Uploads
      BY <2>0, SlotFacts DEF TypeInv, BusyInv
    <2>2. TablesOK'
      BY <1>6, <1>b, <2>1, TablesType DEF Publish, TypeInv, TypeOK, StoreTypeOK
    <2>3. slot' \in [Slots -> Slot] /\ BusyInv'
      BY <1>6, <2>0, StepType, TransientType DEF Publish, Settling
    <2> QED
      BY <1>c, <1>d, <1>e, <2>0, <2>2, <2>3
  <1>7. ASSUME NEW s \in Slots, Reject(s) PROVE TypeInv'
    <2>0. slot[s].step # "idle" /\ UNCHANGED objectVars
      BY <1>7 DEF Reject
    <2>1. CASE Exit(s) /\ UNCHANGED tableVars
      BY <1>b, <1>c, <1>e, <2>0, <2>1, ExitType
    <2>2. CASE MarkRejected(Upload(s)) /\ UNCHANGED leaseVars
                 /\ \E st \in {"complete", "fail"} : Step(s, st)
      <3>1. TablesOK'
        BY <2>0, <2>2, SlotFacts, TablesType DEF TypeInv, TypeOK, StoreTypeOK
      <3>2. slot' \in [Slots -> Slot] /\ BusyInv'
        BY <2>0, <2>2, StepType DEF Settling
      <3> QED
        BY <1>c, <1>d, <1>e, <2>0, <2>2, <3>1, <3>2
    <2> QED
      BY <1>7, <2>1, <2>2 DEF Reject
  <1>8. ASSUME NEW s \in Slots, CompleteJob(s) \/ FailJob(s) PROVE TypeInv'
    <2>0. slot[s].step # "idle" /\ UNCHANGED <<tableVars, objectVars>>
      BY <1>8 DEF CompleteJob, FailJob, Settle
    <2>1. CASE Exit(s)
      BY <1>b, <1>c, <1>e, <2>0, <2>1, ExitType
    <2>2. CASE (Complete(s) \/ Fail(s, MaxAttempts)) /\ slot' = [slot EXCEPT ![s] = Idle]
      <3>1. LeaseTypeOK'
        BY <2>2, QueueType DEF TypeInv, TypeOK
      <3>2. Idle \in Slot /\ Idle.step = "idle"
        BY DEF Idle, Slot, Digests
      <3>3. slot' \in [Slots -> Slot]
        BY <2>2, <3>2 DEF TypeInv, TypeOK, WorkerTypeOK
      <3>4. lease' = [lease EXCEPT ![s] = NoLease]
        BY <2>2 DEF Complete, Fail, Release
      <3>5. BusyInv'
        BY <2>2, <3>2, <3>3, <3>4 DEF BusyInv, TypeInv, TypeOK, WorkerTypeOK, LeaseTypeOK,
                                      lifecycleVars
      <3> QED
        BY <1>b, <1>c, <1>e, <2>0, <3>1, <3>3, <3>5
    <2> QED
      BY <1>8, <2>1, <2>2 DEF CompleteJob, FailJob, Settle
  <1>9. ASSUME NEW s \in Slots, FailPermanently(s) \/ FailTransiently(s) PROVE TypeInv'
    <2>0. slot[s].step # "idle" /\ UNCHANGED <<tableVars, objectVars, leaseVars>>
      BY <1>9 DEF FailPermanently, FailTransiently, Working
    <2>1. slot' \in [Slots -> Slot] /\ BusyInv'
      BY <1>9, <2>0, StepType, TransientType DEF FailPermanently, FailTransiently, Settling
    <2> QED
      BY <1>b, <1>c, <1>d, <1>e, <2>0, <2>1
  <1>10. ASSUME NEW s \in Slots, FailOperationally(s) \/ RenewRefused(s) \/ Crash(s) PROVE TypeInv'
    <2>0. Exit(s) /\ UNCHANGED <<tableVars, objectVars>>
      BY <1>10 DEF FailOperationally, RenewRefused, Crash
    <2> QED
      BY <1>b, <1>c, <1>e, <2>0, ExitType
  <1>11. ASSUME NEW u \in Uploads, BecomeDue({u}), UNCHANGED <<tableVars, objectVars, slot>>
         PROVE TypeInv'
    <2>1. LeaseTypeOK'
      BY <1>11, QueueType DEF Uploads, TypeInv, TypeOK
    <2>2. slot' \in [Slots -> Slot] /\ BusyInv'
      BY <1>11 DEF BecomeDue, BusyInv, TypeInv, TypeOK, WorkerTypeOK, lifecycleVars
    <2> QED
      BY <1>b, <1>c, <1>e, <1>11, <2>1, <2>2
  <1>12. ASSUME NEW s \in Slots, Stall(s) PROVE TypeInv'
    <2>1. slot[s].step # "idle"
      BY <1>12 DEF Stall, TypeInv, BusyInv
    <2> QED
      BY <1>11, <1>12, <2>1, SlotFacts DEF Stall
  <1>13. ASSUME NEW u \in Uploads, JobDue(u) PROVE TypeInv'
    BY <1>11, <1>13 DEF JobDue
  <1> QED
    BY <1>1, <1>2, <1>3, <1>4, <1>5, <1>6, <1>7, <1>8, <1>9, <1>10, <1>12, <1>13
    DEF WorkerNext, SlotStep

LEMMA ApiType ==
  ASSUME TypeInv, ApiNext, UNCHANGED <<workerVars, lifecycleVars>>
  PROVE  TypeInv'
  <1> USE DEF TypeInv, TypeOK, StoreTypeOK
  <1>0. WorkerTypeOK' /\ LifecycleTypeOK'
    BY DEF workerVars, lifecycleVars, WorkerTypeOK, LifecycleTypeOK
  <1>a. ASSUME UNCHANGED tableVars PROVE TablesOK'
    BY <1>a, TablesType
  <1>b. ASSUME UNCHANGED objectVars PROVE ObjectsOK'
    BY <1>b DEF ObjectsOK, objectVars
  <1>c. ASSUME UNCHANGED leaseVars PROVE LeaseTypeOK' /\ BusyInv'
    BY <1>c, QueueType DEF BusyInv, leaseVars, workerVars, lifecycleVars
  <1>d. ASSUME UNCHANGED apiVars PROVE ApiTypeOK'
    BY <1>d DEF ApiTypeOK, apiVars
  <1>e. ASSUME NEW r \in Requests, request[r].step # "none"
        PROVE  request[r] \in Request /\ request[r].upload \in Uploads
    BY <1>e DEF ApiTypeOK, Request, NoRequest
  <1>f. ASSUME NEW r \in Requests, Return(r), UNCHANGED url PROVE ApiTypeOK'
    BY <1>f DEF ApiTypeOK, Return
  <1>g. ASSUME NEW r \in Requests, NEW st \in {"verify", "mark", "tombstone"},
               request[r].step # "none", GoTo(r, st), UNCHANGED url
        PROVE  ApiTypeOK'
    BY <1>e, <1>g DEF ApiTypeOK, GoTo, Request
  <1>1. ASSUME NEW u \in Uploads, NEW content \in Contents, ClientPut(u, content) PROVE TypeInv'
    <2>1. ObjectsOK'
      BY <1>1 DEF ClientPut, ObjectsOK, Digests
    <2> QED
      BY <1>0, <1>1, <1>a, <1>c, <1>d, <2>1 DEF ClientPut
  <1>2. ASSUME NEW u \in Uploads, UrlExpires(u) PROVE TypeInv'
    <2>1. ApiTypeOK'
      BY <1>2 DEF UrlExpires, ApiTypeOK
    <2> QED
      BY <1>0, <1>2, <1>a, <1>b, <1>c, <2>1 DEF UrlExpires
  <1>3. ASSUME NEW u \in Uploads, Delete(u) PROVE TypeInv'
    <2>1. TablesOK'
      BY <1>3, TablesType DEF Delete
    <2> QED
      BY <1>0, <1>3, <1>b, <1>c, <1>d, <2>1 DEF Delete
  <1>4. ASSUME NEW r \in Requests, NEW u \in Uploads,
               ConfirmSingleUpload(r, u) \/ CompleteMultipart(r, u) \/ AbortMultipart(r, u)
        PROVE  TypeInv'
    <2>1. PICK st \in {"verify", "complete", "abort"} : Begin(r, u, st)
      BY <1>4 DEF ConfirmSingleUpload, CompleteMultipart, AbortMultipart
    <2>2. ApiTypeOK'
      BY <2>1 DEF Begin, ApiTypeOK, Request
    <2> QED
      BY <1>0, <1>a, <1>b, <1>c, <2>1, <2>2 DEF Begin
  <1>5. ASSUME NEW r \in Requests, NEW content \in Contents, ProviderComplete(r, content)
        PROVE  TypeInv'
    <2>1. ObjectsOK'
      BY <1>5, <1>e DEF ProviderComplete, ObjectsOK, Digests
    <2>2. ApiTypeOK'
      BY <1>5, <1>g DEF ProviderComplete
    <2> QED
      BY <1>0, <1>5, <1>a, <1>c, <2>1, <2>2 DEF ProviderComplete
  <1>6. ASSUME NEW r \in Requests, VerifyStoredSize(r) PROVE TypeInv'
    <2>1. ApiTypeOK'
      BY <1>6, <1>g DEF VerifyStoredSize
    <2> QED
      BY <1>0, <1>6, <1>a, <1>b, <1>c, <2>1 DEF VerifyStoredSize
  <1>7. ASSUME NEW r \in Requests, Confirm(r) PROVE TypeInv'
    <2>1. request[r].upload \in Uploads
      BY <1>7, <1>e DEF Confirm
    <2>2. TablesOK'
      BY <1>7, <2>1, TablesType DEF Confirm
    <2>3. Enqueue(request[r].upload)
      BY <1>7 DEF Confirm, MarkQuarantined
    <2>4. LeaseTypeOK'
      BY <2>1, <2>3, QueueType DEF Uploads
    <2>5. BusyInv'
      BY <2>3 DEF Enqueue, BusyInv, workerVars, lifecycleVars
    <2> QED
      BY <1>0, <1>7, <1>b, <1>f, <2>2, <2>4, <2>5 DEF Confirm
  <1>8. ASSUME NEW r \in Requests, ProviderAbort(r) PROVE TypeInv'
    <2>1. ObjectsOK'
      BY <1>8 DEF ProviderAbort, ObjectsOK
    <2>2. ApiTypeOK'
      BY <1>8, <1>g DEF ProviderAbort
    <2> QED
      BY <1>0, <1>8, <1>a, <1>c, <2>1, <2>2 DEF ProviderAbort
  <1>9. ASSUME NEW r \in Requests, Tombstone(r) PROVE TypeInv'
    <2>1. request[r].upload \in Uploads
      BY <1>9, <1>e DEF Tombstone
    <2>2. TablesOK'
      BY <1>9, <2>1, TablesType DEF Tombstone
    <2> QED
      BY <1>0, <1>9, <1>b, <1>c, <1>f, <2>2 DEF Tombstone
  <1>10. ASSUME NEW r \in Requests, GiveUp(r) PROVE TypeInv'
    BY <1>0, <1>10, <1>a, <1>b, <1>c, <1>f DEF GiveUp
  <1> QED
    BY <1>1, <1>2, <1>3, <1>4, <1>5, <1>6, <1>7, <1>8, <1>9, <1>10 DEF ApiNext

(* What a cleanup run holds at each step. *)
LEMMA RunFacts ==
  ASSUME TypeInv, NEW c \in Cleaners
  PROVE  /\ run[c].todo \in SUBSET Candidate
         /\ run[c].step \in {"storage", "complete", "fail"} =>
              run[c].current \in Candidate /\ Current(c) \in Uploads
  <1>1. run[c] \in Run
    BY DEF TypeInv, TypeOK, LifecycleTypeOK
  <1>2. run[c].todo \in SUBSET Candidate
    BY <1>1 DEF Run
  <1> QED
    BY <1>2 DEF TypeInv, BusyInv, Candidate, Current

(* A run that goes on holds a candidate whenever it must. *)
LEMMA RunType ==
  ASSUME TypeInv, NEW c \in Cleaners, NEW st \in {"none", "next", "storage", "complete", "fail"},
         NEW cur \in Candidate \cup {NoCandidate}, NEW rest \in SUBSET Candidate,
         st \in {"storage", "complete", "fail"} => cur \in Candidate,
         run' = [run EXCEPT ![c] = [step |-> st, current |-> cur, todo |-> rest]],
         UNCHANGED <<lease, slot>>
  PROVE  run' \in [Cleaners -> Run] /\ BusyInv'
  <1> DEFINE r == [step |-> st, current |-> cur, todo |-> rest]
  <1>1. r \in Run /\ r.step = st /\ r.current = cur
    BY DEF Run
  <1> HIDE DEF r
  <1>2. run' = [run EXCEPT ![c] = r]
    BY DEF r
  <1>3. run' \in [Cleaners -> Run]
    BY <1>1, <1>2 DEF TypeInv, TypeOK, LifecycleTypeOK
  <1> QED
    BY <1>1, <1>2, <1>3 DEF BusyInv, TypeInv, TypeOK, LifecycleTypeOK

LEMMA LifecycleType ==
  ASSUME TypeInv, LifecycleNext, UNCHANGED <<apiVars, workerVars>>
  PROVE  TypeInv'
  <1>0. ApiTypeOK' /\ WorkerTypeOK'
    BY DEF TypeInv, TypeOK, apiVars, workerVars, ApiTypeOK, WorkerTypeOK
  <1>a. ASSUME UNCHANGED tableVars PROVE TablesOK'
    BY <1>a, TablesType DEF TypeInv, TypeOK, StoreTypeOK
  <1>b. ASSUME UNCHANGED objectVars PROVE ObjectsOK'
    BY <1>b DEF ObjectsOK, objectVars, TypeInv, TypeOK, StoreTypeOK
  <1>c. ASSUME UNCHANGED leaseVars PROVE LeaseTypeOK'
    BY <1>c, QueueType DEF TypeInv, TypeOK
  <1>d. storageFaults' \in Nat
    <2>1. UNCHANGED storageFaults \/ StorageFault
      BY DEF LifecycleNext, CleanerStep, ClaimCleanupBatch, NextCandidate, AbortSession,
             DeleteDerivative, DeleteRaw, FinishCandidate, ReleaseCandidate, CleanupSettled,
             PurgeAndFinish, StorageFails, Killed
    <2> QED
      BY <2>1 DEF StorageFault, TypeInv, TypeOK, LifecycleTypeOK
  <1>e. ASSUME TablesOK', ObjectsOK', LeaseTypeOK', run' \in [Cleaners -> Run], BusyInv'
        PROVE  TypeInv'
    BY <1>0, <1>d, <1>e DEF TypeInv, TypeOK, StoreTypeOK, LifecycleTypeOK
  <1>f. UNCHANGED slot
    BY DEF workerVars
  <1>g. ASSUME NEW c \in Cleaners, run' = [run EXCEPT ![c] = NoRun], UNCHANGED lease
        PROVE  run' \in [Cleaners -> Run] /\ BusyInv'
    <2>1. run' = [run EXCEPT ![c] = [step |-> "none", current |-> NoCandidate, todo |-> {}]]
      BY <1>g DEF NoRun
    <2>2. {} \in SUBSET Candidate /\ NoCandidate \in Candidate \cup {NoCandidate}
      OBVIOUS
    <2> QED
      BY <1>f, <1>g, <2>1, <2>2, RunType
  <1>h. ASSUME NEW c \in Cleaners, NEW cur \in Candidate \cup {NoCandidate},
               NEW st \in {"next", "storage", "complete", "fail"},
               st = "next" \/ cur \in Candidate, Work(c, st, cur), UNCHANGED lease
        PROVE  run' \in [Cleaners -> Run] /\ BusyInv'
    BY <1>f, <1>h, RunFacts, RunType DEF Work
  <1>1. ASSUME NEW c \in Cleaners, NEW S \in SUBSET Uploads, ClaimCleanupBatch(c, S) PROVE TypeInv'
    <2>1. TablesOK'
      BY <1>1, TablesType DEF ClaimCleanupBatch, Batch, TypeInv, TypeOK, StoreTypeOK
    <2>2. ASSUME NEW u \in S PROVE CandidateOf(u) \in Candidate
      <3>1. {<<u, row[1], row[2]>> : row \in derivs[u]} \in SUBSET Keys
        BY <2>2 DEF Keys, TypeInv, TypeOK, StoreTypeOK, TablesOK
      <3>2. (state[u] = "created" /\ u \in Multipart) \in BOOLEAN
        OBVIOUS
      <3> QED
        BY <2>2, <3>1, <3>2, Zenon DEF CandidateOf, Candidate
    <2>3. {CandidateOf(u) : u \in S} \in SUBSET Candidate
      BY <2>2
    <2>4. run' \in [Cleaners -> Run] /\ BusyInv'
      BY <1>1, <1>f, <2>3, RunType DEF ClaimCleanupBatch, leaseVars
    <2> QED
      BY <1>1, <1>b, <1>c, <1>e, <2>1, <2>4 DEF ClaimCleanupBatch
  <1>2. ASSUME NEW c \in Cleaners, NEW candidate \in run[c].todo, NextCandidate(c, candidate)
        PROVE  TypeInv'
    <2>1. candidate \in Candidate /\ run[c].todo \ {candidate} \in SUBSET Candidate
      BY RunFacts
    <2>2. run' \in [Cleaners -> Run] /\ BusyInv'
      BY <1>2, <1>f, <2>1, RunType DEF NextCandidate, leaseVars
    <2> QED
      BY <1>2, <1>a, <1>b, <1>c, <1>e, <2>2 DEF NextCandidate
  <1>3. ASSUME NEW c \in Cleaners, AbortSession(c) PROVE TypeInv'
    <2> DEFINE cur == [upload |-> run[c].current.upload, abort |-> FALSE,
                       keys |-> run[c].current.keys]
    <2>1. cur \in Candidate
      BY <1>3, RunFacts DEF AbortSession, Candidate
    <2>2. run' \in [Cleaners -> Run] /\ BusyInv'
      BY <1>3, <1>h, <2>1 DEF AbortSession, leaseVars
    <2>3. ObjectsOK'
      BY <1>3 DEF AbortSession, ObjectsOK, TypeInv, TypeOK, StoreTypeOK
    <2> QED
      BY <1>3, <1>a, <1>c, <1>e, <2>2, <2>3 DEF AbortSession
  <1>4. ASSUME NEW c \in Cleaners, NEW key \in run[c].current.keys, DeleteDerivative(c, key)
        PROVE  TypeInv'
    <2> DEFINE cur == [upload |-> run[c].current.upload, abort |-> FALSE,
                       keys |-> run[c].current.keys \ {key}]
    <2>1. cur \in Candidate
      BY <1>4, RunFacts DEF DeleteDerivative, Candidate
    <2>2. run' \in [Cleaners -> Run] /\ BusyInv'
      BY <1>4, <1>h, <2>1 DEF DeleteDerivative, leaseVars
    <2>3. ObjectsOK'
      BY <1>4 DEF DeleteDerivative, ObjectsOK, TypeInv, TypeOK, StoreTypeOK
    <2> QED
      BY <1>4, <1>a, <1>c, <1>e, <2>2, <2>3 DEF DeleteDerivative
  <1>5. ASSUME NEW c \in Cleaners, DeleteRaw(c) PROVE TypeInv'
    <2>1. run[c].current \in Candidate /\ run[c].current.upload \in Uploads
      BY <1>5, RunFacts DEF DeleteRaw, Current
    <2>2. run' \in [Cleaners -> Run] /\ BusyInv'
      BY <1>5, <1>h, <2>1 DEF DeleteRaw, leaseVars
    <2>3. ObjectsOK'
      BY <1>5, <2>1 DEF DeleteRaw, ObjectsOK, Digests, TypeInv, TypeOK, StoreTypeOK
    <2> QED
      BY <1>5, <1>a, <1>c, <1>e, <2>2, <2>3 DEF DeleteRaw
  <1>6. ASSUME NEW c \in Cleaners, FinishCandidate(c) \/ ReleaseCandidate(c) PROVE TypeInv'
    <2>1. Current(c) \in Uploads /\ UNCHANGED <<leaseVars, objectVars>>
      BY <1>6, RunFacts DEF FinishCandidate, ReleaseCandidate, CleanupSettled
    <2>2. TablesOK'
      BY <1>6, <1>a, <2>1, TablesType
      DEF FinishCandidate, ReleaseCandidate, CleanupSettled, TypeInv, TypeOK, StoreTypeOK
    <2>3. run' \in [Cleaners -> Run] /\ BusyInv'
      BY <1>6, <1>g, <1>h, <2>1
      DEF FinishCandidate, ReleaseCandidate, CleanupSettled, leaseVars
    <2> QED
      BY <1>b, <1>c, <1>e, <2>1, <2>2, <2>3
  <1>7. ASSUME NEW c \in Cleaners, PurgeAndFinish(c) PROVE TypeInv'
    <2>1. TablesOK' /\ LeaseTypeOK'
      BY <1>7, TablesType, QueueType DEF PurgeAndFinish, TypeInv, TypeOK, StoreTypeOK
    <2>2. run' \in [Cleaners -> Run] /\ BusyInv'
      BY <1>7, <1>g DEF PurgeAndFinish, PurgeTombstones
    <2> QED
      BY <1>7, <1>b, <1>e, <2>1, <2>2 DEF PurgeAndFinish
  <1>8. ASSUME NEW c \in Cleaners, StorageFails(c) PROVE TypeInv'
    <2>1. run' \in [Cleaners -> Run] /\ BusyInv'
      BY <1>8, <1>h, RunFacts DEF StorageFails, leaseVars
    <2> QED
      BY <1>8, <1>a, <1>b, <1>c, <1>e, <2>1 DEF StorageFails
  <1>9. ASSUME NEW c \in Cleaners, Killed(c) PROVE TypeInv'
    <2>1. run' \in [Cleaners -> Run] /\ BusyInv'
      BY <1>9, <1>g DEF Killed, leaseVars
    <2> QED
      BY <1>9, <1>a, <1>b, <1>c, <1>e, <2>1 DEF Killed
  <1> QED
    BY <1>1, <1>2, <1>3, <1>4, <1>5, <1>6, <1>7, <1>8, <1>9 DEF LifecycleNext, CleanerStep

LEMMA TimeType ==
  ASSUME TypeInv, TimePasses, UNCHANGED <<apiVars, workerVars, lifecycleVars>>
  PROVE  TypeInv'
  <1>1. TablesOK'
    BY TablesType DEF TimePasses, TypeInv, TypeOK, StoreTypeOK
  <1>2. UNCHANGED <<objectVars, leaseVars>>
    BY DEF TimePasses, Age, CleanupDue
  <1> QED
    BY <1>1, <1>2 DEF TypeInv, TypeOK, StoreTypeOK, ObjectsOK, LeaseTypeOK, ApiTypeOK,
       WorkerTypeOK, LifecycleTypeOK, BusyInv, objectVars, leaseVars, apiVars, workerVars,
       lifecycleVars

LEMMA TypeStep ==
  ASSUME TypeInv, [Next]_vars
  PROVE  TypeInv'
  <1>1. CASE UNCHANGED vars
    BY <1>1 DEF vars, tableVars, objectVars, leaseVars, apiVars, workerVars, lifecycleVars,
       TypeInv, TypeOK, StoreTypeOK, TablesOK, ObjectsOK, LeaseTypeOK, ApiTypeOK,
       WorkerTypeOK, LifecycleTypeOK, BusyInv
  <1> QED
    BY <1>1, ApiType, WorkerType, LifecycleType, TimeType DEF Next

LEMMA TypeInit ==
  ASSUME Init
  PROVE  TypeInv
  <1> USE DEF Init
  <1>1. StoreTypeOK
    BY StoreAssumption DEF StoreInit, StoreTypeOK, TablesOK, ObjectsOK, RowState, Digests
  <1>2. LeaseTypeOK
    BY DEF LeaseInit, LeaseTypeOK, NewJob, JobRow, JobState
  <1>3. ApiTypeOK
    BY DEF ApiInit, ApiTypeOK
  <1>4. WorkerTypeOK
    BY DEF WorkerInit, WorkerTypeOK, Idle, Slot, Digests
  <1>5. LifecycleTypeOK
    BY DEF LifecycleInit, LifecycleTypeOK, NoRun, Run
  <1>6. BusyInv
    BY DEF WorkerInit, LeaseInit, LifecycleInit, BusyInv, Idle, NoRun
  <1> QED
    BY <1>1, <1>2, <1>3, <1>4, <1>5, <1>6 DEF TypeInv, TypeOK

LEMMA TypeInvariant == Spec => []TypeInv
  <1>1. Init => TypeInv
    BY TypeInit
  <1>2. TypeInv /\ [Next]_vars => TypeInv'
    BY TypeStep
  <1> QED
    BY <1>1, <1>2, PTL DEF Spec

(* Every behaviour of the node keeps the tables, the object store and the
   memory of every handler, slot and cleanup run well typed. *)
THEOREM NodeTypeCorrect == Spec => []TypeOK
  <1>1. TypeInv => TypeOK
    BY DEF TypeInv
  <1> QED
    BY <1>1, TypeInvariant, PTL

-----------------------------------------------------------------------------
(* The node implements the domain's upload state machine *)

LEMMA StateStep ==
  ASSUME TypeInv, [Next]_vars
  PROVE  [Abstract!LifecycleNext]_state
  <1> USE DEF Abstract!LifecycleNext, Abstract!Transition, Abstract!can_transition_to,
              Abstract!UploadState
  <1>0. state \in [Uploads -> RowState]
    BY DEF TypeInv, TypeOK, StoreTypeOK, TablesOK
  <1>1. ASSUME NEW u \in Uploads, MarkQuarantined(u) PROVE Abstract!LifecycleNext
    BY <1>1 DEF MarkQuarantined, SetState, Abstract!ConfirmBytes
  <1>2. ASSUME NEW u \in Uploads, MarkDeleted(u) PROVE Abstract!LifecycleNext
    BY <1>2 DEF MarkDeleted, SetState
  <1>3. ASSUME NEW u \in Uploads, NEW d \in Contents, StartProcessing(u, d)
        PROVE  [Abstract!LifecycleNext]_state
    BY <1>3 DEF StartProcessing, SetState, tableVars
  <1>4. ASSUME NEW u \in Uploads, NEW d \in Contents, PublishDerivatives(u, d)
        PROVE  [Abstract!LifecycleNext]_state
    BY <1>4 DEF PublishDerivatives, CanPublish, SetState
  <1>5. ASSUME NEW u \in Uploads, MarkRejected(u) PROVE [Abstract!LifecycleNext]_state
    BY <1>5 DEF MarkRejected, SetState, UndecidedState, tableVars
  <1>6. ASSUME NEW u \in Uploads, NEW c \in Cleaners, CompleteCleanup(c, u)
        PROVE  Abstract!LifecycleNext
    BY <1>0, <1>6 DEF CompleteCleanup, OwnsCleanup, GoneState, RowState, SetState
  <1>7. ASSUME PurgeTombstones PROVE Abstract!LifecycleNext
    <2>1. PICK S \in SUBSET Uploads : \A u \in Uploads : u \in S <=> Purgeable(u)
      <3> WITNESS {u \in Uploads : Purgeable(u)} \in SUBSET Uploads
      <3> QED
        OBVIOUS
    <2>2. Abstract!PurgeRows(S)
      BY <1>7, <2>1 DEF PurgeTombstones, Purgeable, Abstract!PurgeRows
    <2> QED
      BY <2>2
  <1>8. ASSUME ApiNext PROVE [Abstract!LifecycleNext]_state
    <2>1. ASSUME NEW r \in Requests, request[r].step # "none" PROVE request[r].upload \in Uploads
      BY <2>1 DEF TypeInv, TypeOK, ApiTypeOK, Request, NoRequest
    <2>2. ASSUME NEW r \in Requests, Confirm(r) PROVE Abstract!LifecycleNext
      BY <1>1, <2>1, <2>2 DEF Confirm
    <2>3. ASSUME NEW r \in Requests, Tombstone(r) PROVE Abstract!LifecycleNext
      BY <1>2, <2>1, <2>3 DEF Tombstone
    <2>4. CASE UNCHANGED state
      BY <2>4
    <2> HIDE DEF Abstract!LifecycleNext
    <2> QED
      BY <1>8, <2>2, <2>3, <2>4
      DEF ApiNext, ClientPut, UrlExpires, Delete, RequestDeletion, ConfirmSingleUpload,
          CompleteMultipart, AbortMultipart, Begin, ProviderComplete, VerifyStoredSize,
          ProviderAbort, GiveUp, tableVars
  <1>9. ASSUME WorkerNext PROVE [Abstract!LifecycleNext]_state
    <2> HIDE DEF Abstract!LifecycleNext
    <2>1. ASSUME NEW s \in Slots, Start(s) PROVE [Abstract!LifecycleNext]_state
      <3>1. Upload(s) \in Uploads /\ slot[s].digest \in Contents
        BY <2>1, SlotFacts DEF Start, TypeInv, BusyInv
      <3> QED
        BY <1>3, <2>1, <3>1 DEF Start, tableVars
    <2>2. ASSUME NEW s \in Slots, Publish(s) PROVE [Abstract!LifecycleNext]_state
      <3>1. Upload(s) \in Uploads /\ slot[s].digest \in Contents
        BY <2>2, SlotFacts DEF Publish, TypeInv, BusyInv
      <3> QED
        BY <1>4, <2>2, <3>1 DEF Publish, tableVars
    <2>3. ASSUME NEW s \in Slots, Reject(s) PROVE [Abstract!LifecycleNext]_state
      <3>1. Upload(s) \in Uploads
        BY <2>3, SlotFacts DEF Reject
      <3> QED
        BY <1>5, <2>3, <3>1 DEF Reject, tableVars
    <2>4. CASE UNCHANGED state
      BY <2>4
    <2>5. ASSUME NEW s \in Slots, SlotStep(s) PROVE [Abstract!LifecycleNext]_state
      BY <2>1, <2>2, <2>3, <2>4, <2>5
      DEF SlotStep, ClaimJob, ReadSource, Inspect, PutMaster, PutThumbnail, PutDerivative,
          CompleteJob, FailJob, Settle, tableVars
    <2> QED
      BY <1>9, <2>4, <2>5
      DEF WorkerNext, FailPermanently, FailTransiently, FailOperationally, RenewRefused, Crash,
          Stall, JobDue, tableVars
  <1>10. ASSUME LifecycleNext PROVE [Abstract!LifecycleNext]_state
    <2> HIDE DEF Abstract!LifecycleNext
    <2>1. ASSUME NEW c \in Cleaners, FinishCandidate(c) PROVE [Abstract!LifecycleNext]_state
      <3>1. Current(c) \in Uploads
        BY <2>1, RunFacts DEF FinishCandidate
      <3> QED
        BY <1>6, <2>1, <3>1 DEF FinishCandidate, CleanupSettled, tableVars
    <2>2. ASSUME NEW c \in Cleaners, PurgeAndFinish(c) PROVE [Abstract!LifecycleNext]_state
      BY <1>7, <2>2 DEF PurgeAndFinish
    <2>3. CASE UNCHANGED state
      BY <2>3
    <2> QED
      BY <1>10, <2>1, <2>2, <2>3
      DEF LifecycleNext, CleanerStep, ClaimCleanupBatch, LeaseCleanup, NextCandidate,
          AbortSession, DeleteDerivative, DeleteRaw, ReleaseCandidate, CleanupSettled,
          FailCleanup, StorageFails, Killed, tableVars
  <1>11. ASSUME TimePasses PROVE UNCHANGED state
    BY <1>11 DEF TimePasses, Age, CleanupDue
  <1>12. CASE UNCHANGED vars
    BY <1>12 DEF vars, tableVars
  <1> HIDE DEF Abstract!LifecycleNext
  <1> QED
    BY <1>8, <1>9, <1>10, <1>11, <1>12 DEF Next

(* Whatever handlers, slots and cleanup runs do to each other, every change of
   an upload's state is one that can_transition_to permits, the confirmation of
   the bytes, or the removal of old tombstones. *)
THEOREM LifecycleRefinement == Spec => ImplementsLifecycle
  <1>1. Init => Abstract!LifecycleInit
    BY DEF Init, StoreInit, Abstract!LifecycleInit
  <1>2. TypeInv /\ [Next]_vars => [Abstract!LifecycleNext]_state
    BY StateStep
  <1> QED
    BY <1>1, <1>2, TypeInvariant, PTL DEF Spec, ImplementsLifecycle, Abstract!LifecycleSpec

-----------------------------------------------------------------------------
(* The queue and the uploads table agree *)

(* No step undoes a decision, and only a confirmation starts an undecided
   upload. *)
Monotone ==
    \A u \in Uploads :
      /\ state[u] # "created" => state'[u] # "created"
      /\ state[u] \in DecidedState => state'[u] \in DecidedState
      /\ state[u] \in LostState => state'[u] \in LostState
      /\ state[u] \in GoneState => state'[u] \in GoneState
      /\ state'[u] \in UndecidedState => state[u] \in UndecidedState \cup {"created"}

LEMMA StateMonotone ==
  ASSUME TypeInv, [Next]_vars
  PROVE  Monotone
  <1> USE DEF Monotone, DecidedState, LostState, GoneState, UndecidedState
  <1>0. state \in [Uploads -> RowState]
    BY DEF TypeInv, TypeOK, StoreTypeOK, TablesOK
  <1>1. [Abstract!LifecycleNext]_state
    BY StateStep
  <1>2. ASSUME NEW v \in Uploads, NEW to \in Abstract!UploadState, Abstract!Transition(v, to)
        PROVE  Monotone
    <2>1. \A u \in Uploads : state'[u] = IF u = v THEN to ELSE state[u]
      BY <1>0, <1>2 DEF Abstract!Transition
    <2>2. Abstract!can_transition_to(state[v], to)
      BY <1>2 DEF Abstract!Transition
    <2>3. state[v] \in RowState
      BY <1>0
    <2>4. \A u \in Uploads \ {v} : state'[u] = state[u]
      BY <2>1
    <2>5. state'[v] = to
      BY <2>1
    <2>6. /\ to # "created"
          /\ state[v] \in DecidedState => to \in DecidedState
          /\ state[v] \in LostState => to \in LostState
          /\ state[v] \in GoneState => to \in GoneState
          /\ to \in UndecidedState => state[v] \in UndecidedState \cup {"created"}
      BY <2>2, <2>3 DEF Abstract!can_transition_to, Abstract!UploadState, RowState
    <2> QED
      BY <2>4, <2>5, <2>6
  <1>3. ASSUME NEW v \in Uploads, Abstract!ConfirmBytes(v) PROVE Monotone
    BY <1>0, <1>3 DEF Abstract!ConfirmBytes, Abstract!can_transition_to, Abstract!UploadState
  <1>4. ASSUME NEW S \in SUBSET Uploads, Abstract!PurgeRows(S) PROVE Monotone
    BY <1>0, <1>4 DEF Abstract!PurgeRows
  <1>5. CASE UNCHANGED state
    BY <1>5
  <1> QED
    BY <1>1, <1>2, <1>3, <1>4, <1>5 DEF Abstract!LifecycleNext

(* A step that leaves the queue alone and moves at most one slot, to a step
   its upload has earned, keeps the agreement. *)
LEMMA SlotKeepsJobs ==
  ASSUME TypeInv, JobInv, Monotone, NEW s \in Slots, NEW x, UNCHANGED leaseVars,
         slot' = [slot EXCEPT ![s] = x],
         x.step = "complete" => state'[lease[s].job] \in DecidedState,
         x.step = "fail" /\ lease[s].attempts >= MaxAttempts => state'[lease[s].job] \in LostState,
         \A u \in Uploads : state[u] = "created" => state'[u] \notin UndecidedState
  PROVE  JobInv'
  <1>0. UNCHANGED <<job, lease>>
    BY DEF leaseVars
  <1>1. \A t \in Slots : lease[t] # NoLease => lease[t].job \in Uploads
    BY DEF TypeInv, TypeOK, LeaseTypeOK, Uploads
  <1>2. \A t \in Slots : slot[t].step # "idle" => lease[t] # NoLease
    BY DEF TypeInv, BusyInv
  <1>3. SlotInv'
    BY <1>0, <1>1 DEF JobInv, SlotInv, Monotone
  <1>4. AttemptsInv'
    BY <1>0 DEF JobInv, AttemptsInv, Owns
  <1>5. SettleInv'
    <2> SUFFICES ASSUME NEW t \in Slots
                 PROVE  /\ slot'[t].step = "complete" => state'[lease[t].job] \in DecidedState
                        /\ slot'[t].step = "fail" /\ lease[t].attempts >= MaxAttempts =>
                             state'[lease[t].job] \in LostState
      BY <1>0 DEF SettleInv, DecidedState, LostState
    <2>1. CASE t = s
      BY <2>1 DEF TypeInv, TypeOK, WorkerTypeOK
    <2>2. CASE t # s
      <3>1. slot'[t] = slot[t]
        BY <2>2 DEF TypeInv, TypeOK, WorkerTypeOK
      <3> QED
        BY <1>1, <1>2, <3>1 DEF JobInv, SettleInv, Monotone, DecidedState, LostState
    <2> QED
      BY <2>1, <2>2
  <1>6. NoEarlyJob'
    BY <1>0 DEF JobInv, NoEarlyJob, Monotone
  <1>7. JobsMatchUploads'
    BY <1>0 DEF JobInv, JobsMatchUploads, Monotone, DecidedState, LostState, UndecidedState
  <1> QED
    BY <1>3, <1>4, <1>5, <1>6, <1>7 DEF JobInv

(* So does a step that moves no slot at all. *)
LEMMA OthersKeepJobs ==
  ASSUME TypeInv, JobInv, Monotone, UNCHANGED <<leaseVars, slot>>,
         \A u \in Uploads : state[u] = "created" => state'[u] \notin UndecidedState
  PROVE  JobInv'
  <1>0. UNCHANGED <<job, lease>>
    BY DEF leaseVars
  <1>1. \A t \in Slots : lease[t] # NoLease => lease[t].job \in Uploads
    BY DEF TypeInv, TypeOK, LeaseTypeOK, Uploads
  <1>2. \A t \in Slots : slot[t].step # "idle" => lease[t] # NoLease
    BY DEF TypeInv, BusyInv
  <1>3. SlotInv' /\ AttemptsInv'
    BY <1>0, <1>1 DEF JobInv, SlotInv, AttemptsInv, Owns, Monotone
  <1>4. SettleInv'
    BY <1>0, <1>1, <1>2 DEF JobInv, SettleInv, Monotone, DecidedState, LostState
  <1>5. NoEarlyJob' /\ JobsMatchUploads'
    BY <1>0 DEF JobInv, NoEarlyJob, JobsMatchUploads, Monotone, DecidedState, LostState,
                UndecidedState
  <1> QED
    BY <1>3, <1>4, <1>5 DEF JobInv

(* A process that exits takes its slots' claims on progress with it. *)
LEMMA ExitKeepsJobs ==
  ASSUME TypeInv, JobInv, NEW s \in Slots, Exit(s), UNCHANGED tableVars
  PROVE  JobInv'
  <1>0. UNCHANGED <<job, state>>
    BY DEF Exit, Lose, tableVars
  <1>1. \A t \in Slots : /\ t \in Peers(s) => slot'[t] = Idle /\ lease'[t] = NoLease
                         /\ t \notin Peers(s) => slot'[t] = slot[t] /\ lease'[t] = lease[t]
    BY DEF Exit, Lose
  <1>2. Idle.step = "idle"
    BY DEF Idle
  <1>3. SlotInv' /\ AttemptsInv'
    BY <1>0, <1>1 DEF JobInv, SlotInv, AttemptsInv, Owns
  <1>4. SettleInv'
    BY <1>0, <1>1, <1>2 DEF JobInv, SettleInv
  <1>5. NoEarlyJob' /\ JobsMatchUploads'
    BY <1>0 DEF JobInv, NoEarlyJob, JobsMatchUploads
  <1> QED
    BY <1>3, <1>4, <1>5 DEF JobInv

LEMMA ClaimKeepsJobs ==
  ASSUME TypeInv, JobInv, NEW s \in Slots, NEW u \in Uploads, ClaimJob(s, u)
  PROVE  JobInv'
  <1>0. UNCHANGED state /\ job \in [Uploads -> JobRow] /\ lease[s] = NoLease
    BY DEF ClaimJob, Claim, tableVars, TypeInv, TypeOK, LeaseTypeOK, Uploads
  <1> DEFINE n == Capped(job[u].attempts + 1)
  <1>1. /\ job' = [job EXCEPT ![u] = [state |-> "leased", attempts |-> n, owner |-> s,
                                      due |-> FALSE]]
        /\ lease' = [lease EXCEPT ![s] = [job |-> u, attempts |-> n]]
    BY DEF ClaimJob, Claim
  <1> HIDE DEF n
  <1>2. job'[u].state = "leased" /\ job'[u].attempts = n /\ job'[u].owner = s
    BY <1>0, <1>1
  <1>3. \A v \in Uploads \ {u} : job'[v] = job[v]
    BY <1>0, <1>1
  <1>4. lease'[s].job = u /\ lease'[s].attempts = n
    BY <1>1 DEF TypeInv, TypeOK, LeaseTypeOK
  <1>5. \A t \in Slots \ {s} : lease'[t] = lease[t] /\ slot'[t] = slot[t]
    BY <1>1 DEF ClaimJob, Step, TypeInv, TypeOK, LeaseTypeOK, WorkerTypeOK
  <1>6. slot'[s].step = "read"
    BY DEF ClaimJob, Step, TypeInv, TypeOK, WorkerTypeOK
  <1>7. job[u].state \in {"queued", "leased"} /\ state[u] # "created"
    BY DEF ClaimJob, Claim, JobInv, NoEarlyJob
  <1>8. \A t \in Slots : lease[t] # NoLease => lease[t].job \in Uploads
    BY DEF TypeInv, TypeOK, LeaseTypeOK, Uploads
  <1>9. SlotInv'
    BY <1>0, <1>4, <1>5, <1>7 DEF JobInv, SlotInv
  <1>10. AttemptsInv'
    BY <1>2, <1>3, <1>4, <1>5, <1>8 DEF JobInv, AttemptsInv, Owns
  <1>11. SettleInv'
    BY <1>0, <1>5, <1>6 DEF JobInv, SettleInv
  <1>12. NoEarlyJob' /\ JobsMatchUploads'
    BY <1>0, <1>2, <1>3, <1>7 DEF JobInv, NoEarlyJob, JobsMatchUploads
  <1> QED
    BY <1>9, <1>10, <1>11, <1>12 DEF JobInv

(* The settlement of a job by the slot that owns it: the upload was decided
   before, and rejected before the job is dead-lettered, because the slot and
   the row agree on the number of attempts. *)
LEMMA SettleKeepsJobs ==
  ASSUME TypeInv, JobInv, NEW s \in Slots, UNCHANGED tableVars,
         slot' = [slot EXCEPT ![s] = Idle],
         \/ slot[s].step = "complete" /\ Complete(s)
         \/ slot[s].step = "fail" /\ Fail(s, MaxAttempts)
  PROVE  JobInv'
  <1> DEFINE u == lease[s].job
  <1>0. UNCHANGED state /\ job \in [Uploads -> JobRow] /\ u \in Uploads /\ lease[s] # NoLease
    BY SlotFacts DEF tableVars, TypeInv, TypeOK, LeaseTypeOK, Uploads, Upload
  <1>1. lease' = [lease EXCEPT ![s] = NoLease] /\ Owns(s, u)
    BY DEF Complete, Fail, Release
  <1>2. lease[s].attempts = job[u].attempts /\ state[u] # "created"
    BY <1>0, <1>1 DEF JobInv, AttemptsInv, SlotInv
  <1>3. PICK st \in {"completed", "dead_letter", "queued"} :
          /\ job' = [job EXCEPT ![u] = Settled(job[u], st)]
          /\ st = "completed" => slot[s].step = "complete"
          /\ st = "dead_letter" => slot[s].step = "fail" /\ job[u].attempts >= MaxAttempts
          /\ st = "queued" => job[u].state = "leased"
    <2>1. CASE Complete(s) /\ slot[s].step = "complete"
      BY <2>1 DEF Complete
    <2>2. CASE Fail(s, MaxAttempts) /\ slot[s].step = "fail"
      <3>1. CASE job[u].attempts >= MaxAttempts
        BY <2>2, <3>1 DEF Fail
      <3>2. CASE ~(job[u].attempts >= MaxAttempts)
        BY <1>1, <2>2, <3>2 DEF Fail, Owns
      <3> QED
        BY <3>1, <3>2
    <2> QED
      BY <2>1, <2>2
  <1>4. job'[u].state = st /\ \A v \in Uploads \ {u} : job'[v] = job[v]
    BY <1>0, <1>3 DEF Settled
  <1>5. /\ st = "completed" => state[u] \in DecidedState
        /\ st = "dead_letter" => state[u] \in LostState
    BY <1>2, <1>3 DEF JobInv, SettleInv, DecidedState, LostState
  <1>6. \A t \in Slots \ {s} : lease'[t] = lease[t] /\ slot'[t] = slot[t]
    BY <1>1 DEF TypeInv, TypeOK, LeaseTypeOK, WorkerTypeOK
  <1>7. lease'[s] = NoLease /\ slot'[s].step = "idle"
    BY <1>1 DEF TypeInv, TypeOK, LeaseTypeOK, WorkerTypeOK, Idle
  <1>8. \A t \in Slots : lease[t] # NoLease => lease[t].job \in Uploads
    BY DEF TypeInv, TypeOK, LeaseTypeOK, Uploads
  <1> HIDE DEF u
  <1>9. SlotInv'
    BY <1>0, <1>6, <1>7 DEF JobInv, SlotInv
  <1>10. AttemptsInv'
    BY <1>4, <1>6, <1>7, <1>8 DEF JobInv, AttemptsInv, Owns
  <1>11. SettleInv'
    BY <1>0, <1>6, <1>7 DEF JobInv, SettleInv
  <1>12. NoEarlyJob'
    BY <1>0, <1>2, <1>4 DEF JobInv, NoEarlyJob
  <1>13. JobsMatchUploads'
    BY <1>0, <1>4, <1>5
    DEF JobInv, JobsMatchUploads, DecidedState, LostState, UndecidedState, GoneState
  <1> QED
    BY <1>9, <1>10, <1>11, <1>12, <1>13 DEF JobInv

(* Time makes jobs due and changes nothing else. *)
LEMMA DueKeepsJobs ==
  ASSUME TypeInv, JobInv, NEW J \in SUBSET Jobs, BecomeDue(J), UNCHANGED <<tableVars, slot>>
  PROVE  JobInv'
  <1>1. UNCHANGED <<state, lease, slot>>
    BY DEF BecomeDue, tableVars
  <1>2. \A u \in Uploads : /\ job'[u].state = job[u].state
                           /\ job'[u].attempts = job[u].attempts
                           /\ job'[u].owner = job[u].owner
    BY DEF BecomeDue, Uploads
  <1>3. \A t \in Slots : lease[t] # NoLease => lease[t].job \in Uploads
    BY DEF TypeInv, TypeOK, LeaseTypeOK, Uploads
  <1> QED
    BY <1>1, <1>2, <1>3
    DEF JobInv, SlotInv, AttemptsInv, SettleInv, NoEarlyJob, JobsMatchUploads, Owns

LEMMA WorkerKeepsJobs ==
  ASSUME TypeInv, JobInv, Monotone, WorkerNext
  PROVE  JobInv'
  <1>a. ASSUME UNCHANGED tableVars
        PROVE  \A u \in Uploads : state[u] = "created" => state'[u] \notin UndecidedState
    BY <1>a DEF tableVars, UndecidedState
  <1>b. ASSUME NEW s \in Slots, slot[s].step # "idle", NEW st, Step(s, st), UNCHANGED leaseVars,
               st = "complete" => state'[Upload(s)] \in DecidedState,
               st = "fail" /\ lease[s].attempts >= MaxAttempts => state'[Upload(s)] \in LostState,
               \A u \in Uploads : state[u] = "created" => state'[u] \notin UndecidedState
        PROVE  JobInv'
    BY <1>b, SlotKeepsJobs DEF Step, Upload
  <1>c. ASSUME NEW s \in Slots, slot[s].step # "idle", Transient(s),
               UNCHANGED <<tableVars, leaseVars>>
        PROVE  JobInv'
    <2>1. lease[s].attempts \in Nat
      BY <1>c, SlotFacts
    <2>2. PICK st \in {"reject_exhausted", "fail"} :
            Step(s, st) /\ (st = "fail" => ~(lease[s].attempts >= MaxAttempts))
      BY <1>c DEF Transient
    <2> QED
      BY <1>a, <1>b, <1>c, <2>2
  <1>1. ASSUME NEW s \in Slots, ReadSource(s) PROVE JobInv'
    <2>0. slot[s].step # "idle" /\ UNCHANGED <<tableVars, leaseVars>> /\ UNCHANGED state
      BY <1>1 DEF ReadSource, tableVars
    <2>1. CASE slot' = [slot EXCEPT ![s] = [step |-> "inspect", source |-> sha[Upload(s)],
                                            digest |-> NoContent]]
      BY <1>a, <2>0, <2>1, SlotKeepsJobs
    <2>2. CASE state[Upload(s)] \in {"ready", "rejected"} /\ Step(s, "complete")
      BY <1>a, <1>b, <2>0, <2>2 DEF DecidedState
    <2>3. CASE Transient(s)
      BY <1>c, <2>0, <2>3
    <2> QED
      BY <1>1, <2>1, <2>2, <2>3 DEF ReadSource
  <1>2. ASSUME NEW s \in Slots, Inspect(s) PROVE JobInv'
    <2>0. slot[s].step # "idle" /\ UNCHANGED <<tableVars, leaseVars>>
      BY <1>2 DEF Inspect
    <2>1. CASE slot' = [slot EXCEPT ![s] = [step |-> "start", source |-> slot[s].source,
                                            digest |-> raw[Upload(s)]]]
      BY <1>a, <2>0, <2>1, SlotKeepsJobs
    <2>2. CASE Transient(s)
      BY <1>c, <2>0, <2>2
    <2> QED
      BY <1>2, <2>1, <2>2 DEF Inspect
  <1>3. ASSUME NEW s \in Slots, Start(s) PROVE JobInv'
    <2>0. slot[s].step = "start" /\ UNCHANGED leaseVars
      BY <1>3 DEF Start
    <2>1. CASE Transient(s) /\ UNCHANGED tableVars
      BY <1>c, <2>0, <2>1
    <2>2. CASE UNCHANGED tableVars /\ (Step(s, "master") \/ Step(s, "reject"))
      BY <1>a, <1>b, <2>0, <2>2
    <2>3. CASE StartProcessing(Upload(s), slot[s].digest) /\ Step(s, "master")
      <3>1. \A u \in Uploads : state[u] = "created" => state'[u] \notin UndecidedState
        BY <2>3 DEF StartProcessing, SetState, tableVars, UndecidedState, TypeInv, TypeOK,
                    StoreTypeOK, TablesOK
      <3> QED
        BY <1>b, <2>0, <2>3, <3>1
    <2> QED
      BY <1>3, <2>1, <2>2, <2>3 DEF Start
  <1>4. ASSUME NEW s \in Slots, PutMaster(s) \/ PutThumbnail(s) PROVE JobInv'
    BY <1>4, <1>a, <1>b DEF PutMaster, PutThumbnail, PutDerivative
  <1>5. ASSUME NEW s \in Slots, Publish(s) PROVE JobInv'
    <2>0. slot[s].step = "publish" /\ UNCHANGED leaseVars
      BY <1>5 DEF Publish
    <2>1. CASE PublishDerivatives(Upload(s), slot[s].digest) /\ Step(s, "complete")
      <3>1. Upload(s) \in Uploads
        BY <2>0, SlotFacts
      <3>2. state'[Upload(s)] = "ready"
        BY <2>1, <3>1 DEF PublishDerivatives, CanPublish, SetState, TypeInv, TypeOK, StoreTypeOK,
                          TablesOK
      <3>3. \A u \in Uploads : state[u] = "created" => state'[u] \notin UndecidedState
        BY <2>1 DEF PublishDerivatives, SetState, UndecidedState, TypeInv, TypeOK, StoreTypeOK,
                    TablesOK
      <3> QED
        BY <1>b, <2>0, <2>1, <3>2, <3>3 DEF DecidedState
    <2>2. CASE Transient(s) /\ UNCHANGED tableVars
      BY <1>c, <2>0, <2>2
    <2> QED
      BY <1>5, <2>1, <2>2 DEF Publish
  <1>6. ASSUME NEW s \in Slots, Reject(s) PROVE JobInv'
    <2>0. slot[s].step # "idle"
      BY <1>6 DEF Reject
    <2>1. CASE Exit(s) /\ UNCHANGED tableVars
      BY <2>1, ExitKeepsJobs
    <2>2. CASE MarkRejected(Upload(s)) /\ UNCHANGED leaseVars
                 /\ \E st \in {"complete", "fail"} : Step(s, st)
      <3>1. Upload(s) \in Uploads
        BY <2>0, SlotFacts
      <3>2. state'[Upload(s)] = "rejected"
        BY <2>2, <3>1 DEF MarkRejected, SetState, tableVars, TypeInv, TypeOK, StoreTypeOK, TablesOK
      <3>3. \A u \in Uploads : state[u] = "created" => state'[u] \notin UndecidedState
        BY <2>2 DEF MarkRejected, SetState, tableVars, UndecidedState, TypeInv, TypeOK,
                    StoreTypeOK, TablesOK
      <3> QED
        BY <1>b, <2>0, <2>2, <3>2, <3>3 DEF DecidedState, LostState
    <2> QED
      BY <1>6, <2>1, <2>2 DEF Reject
  <1>7. ASSUME NEW s \in Slots, CompleteJob(s) \/ FailJob(s) PROVE JobInv'
    BY <1>7, ExitKeepsJobs, SettleKeepsJobs DEF CompleteJob, FailJob, Settle
  <1>8. ASSUME NEW s \in Slots, FailPermanently(s) PROVE JobInv'
    BY <1>8, <1>a, <1>b DEF FailPermanently
  <1>9. ASSUME NEW s \in Slots, FailTransiently(s) PROVE JobInv'
    BY <1>9, <1>c DEF FailTransiently, Working
  <1>10. ASSUME NEW s \in Slots, FailOperationally(s) \/ RenewRefused(s) \/ Crash(s) PROVE JobInv'
    BY <1>10, ExitKeepsJobs DEF FailOperationally, RenewRefused, Crash
  <1>11. ASSUME NEW s \in Slots, Stall(s) PROVE JobInv'
    <2>1. slot[s].step # "idle"
      BY <1>11 DEF Stall, TypeInv, BusyInv
    <2>2. {Upload(s)} \in SUBSET Jobs
      BY <2>1, SlotFacts DEF Uploads
    <2> QED
      BY <1>11, <2>2, DueKeepsJobs DEF Stall
  <1>12. ASSUME NEW u \in Uploads, JobDue(u) PROVE JobInv'
    <2>1. {u} \in SUBSET Jobs
      BY DEF Uploads
    <2> QED
      BY <1>12, <2>1, DueKeepsJobs DEF JobDue
  <1> QED
    BY ClaimKeepsJobs, <1>1, <1>2, <1>3, <1>4, <1>5, <1>6, <1>7, <1>8, <1>9, <1>10, <1>11, <1>12
    DEF WorkerNext, SlotStep

(* The confirmation of the bytes creates the job with the undecided state. *)
LEMMA ConfirmKeepsJobs ==
  ASSUME TypeInv, JobInv, NEW u \in Uploads, MarkQuarantined(u), UNCHANGED slot
  PROVE  JobInv'
  <1>0. /\ state \in [Uploads -> RowState] /\ job \in [Uploads -> JobRow]
        /\ state[u] = "created" /\ UNCHANGED <<lease, slot>>
    BY DEF MarkQuarantined, Enqueue, TypeInv, TypeOK, StoreTypeOK, TablesOK, LeaseTypeOK, Uploads
  <1>1. state'[u] = "quarantined" /\ job'[u].state = "queued"
    BY <1>0 DEF MarkQuarantined, SetState, Enqueue
  <1>2. \A v \in Uploads \ {u} : state'[v] = state[v] /\ job'[v] = job[v]
    BY <1>0 DEF MarkQuarantined, SetState, Enqueue
  <1>3. \A t \in Slots : lease[t] # NoLease => lease[t].job \in Uploads \ {u}
    BY <1>0 DEF TypeInv, TypeOK, LeaseTypeOK, Uploads, JobInv, SlotInv
  <1>4. \A t \in Slots : slot[t].step # "idle" => lease[t] # NoLease
    BY DEF TypeInv, BusyInv
  <1>5. SlotInv'
    BY <1>0, <1>2, <1>3 DEF JobInv, SlotInv
  <1>6. AttemptsInv'
    BY <1>0, <1>2, <1>3 DEF JobInv, AttemptsInv, Owns
  <1>7. SettleInv'
    BY <1>0, <1>2, <1>3, <1>4 DEF JobInv, SettleInv
  <1>8. NoEarlyJob'
    BY <1>1, <1>2 DEF JobInv, NoEarlyJob
  <1>9. JobsMatchUploads'
    BY <1>1, <1>2 DEF JobInv, JobsMatchUploads
  <1> QED
    BY <1>5, <1>6, <1>7, <1>8, <1>9 DEF JobInv

(* The purge removes the job with its upload. *)
LEMMA PurgeKeepsJobs ==
  ASSUME TypeInv, JobInv, PurgeTombstones, UNCHANGED slot
  PROVE  JobInv'
  <1>0. UNCHANGED <<lease, slot>>
    BY DEF PurgeTombstones
  <1>1. \A u \in Uploads : Purgeable(u) => /\ state[u] = "deleted" /\ state'[u] = "purged"
                                           /\ job'[u].state = "absent"
    BY DEF PurgeTombstones, Purgeable, NewJob
  <1>2. \A u \in Uploads : ~Purgeable(u) => state'[u] = state[u] /\ job'[u] = job[u]
    BY DEF PurgeTombstones
  <1>3. \A t \in Slots : lease[t] # NoLease => lease[t].job \in Uploads
    BY DEF TypeInv, TypeOK, LeaseTypeOK, Uploads
  <1>4. \A t \in Slots : slot[t].step # "idle" => lease[t] # NoLease
    BY DEF TypeInv, BusyInv
  <1> HIDE DEF Purgeable
  <1>5. SlotInv'
    BY <1>0, <1>1, <1>2, <1>3 DEF JobInv, SlotInv
  <1>6. AttemptsInv'
    BY <1>0, <1>1, <1>2, <1>3 DEF JobInv, AttemptsInv, Owns
  <1>7. SettleInv'
    BY <1>0, <1>1, <1>2, <1>3, <1>4 DEF JobInv, SettleInv, GoneState
  <1>8. NoEarlyJob'
    BY <1>1, <1>2 DEF JobInv, NoEarlyJob
  <1>9. JobsMatchUploads'
    BY <1>1, <1>2 DEF JobInv, JobsMatchUploads, UndecidedState
  <1> QED
    BY <1>5, <1>6, <1>7, <1>8, <1>9 DEF JobInv

LEMMA JobStep ==
  ASSUME TypeInv, JobInv, [Next]_vars
  PROVE  JobInv'
  <1>0. Monotone
    BY StateMonotone
  <1>a. ASSUME UNCHANGED <<state, leaseVars, slot>> PROVE JobInv'
    <2>1. \A u \in Uploads : state[u] = "created" => state'[u] \notin UndecidedState
      BY <1>a DEF UndecidedState
    <2> QED
      BY <1>0, <1>a, <2>1, OthersKeepJobs
  <1>b. ASSUME NEW u \in Uploads, MarkDeleted(u) \/ \E c \in Cleaners : CompleteCleanup(c, u),
               UNCHANGED <<leaseVars, slot>>
        PROVE  JobInv'
    <2>1. \A v \in Uploads : state[v] = "created" => state'[v] \notin UndecidedState
      BY <1>b DEF MarkDeleted, CompleteCleanup, SetState, UndecidedState, TypeInv, TypeOK,
                  StoreTypeOK, TablesOK
    <2> QED
      BY <1>0, <1>b, <2>1, OthersKeepJobs
  <1>1. CASE ApiNext /\ UNCHANGED workerVars
    <2>0. UNCHANGED slot
      BY <1>1 DEF workerVars
    <2>1. ASSUME NEW r \in Requests, request[r].step # "none" PROVE request[r].upload \in Uploads
      BY <2>1 DEF TypeInv, TypeOK, ApiTypeOK, Request, NoRequest
    <2>2. ASSUME NEW r \in Requests, Confirm(r) PROVE JobInv'
      BY <2>0, <2>1, <2>2, ConfirmKeepsJobs DEF Confirm
    <2>3. ASSUME NEW r \in Requests, Tombstone(r) PROVE JobInv'
      BY <1>b, <2>0, <2>1, <2>3 DEF Tombstone
    <2> QED
      BY <1>1, <1>a, <2>0, <2>2, <2>3
      DEF ApiNext, ClientPut, UrlExpires, Delete, RequestDeletion, ConfirmSingleUpload,
          CompleteMultipart, AbortMultipart, Begin, ProviderComplete, VerifyStoredSize,
          ProviderAbort, GiveUp, tableVars
  <1>2. CASE WorkerNext
    BY <1>0, <1>2, WorkerKeepsJobs
  <1>3. CASE LifecycleNext /\ UNCHANGED workerVars
    <2>0. UNCHANGED slot
      BY <1>3 DEF workerVars
    <2>1. ASSUME NEW c \in Cleaners, FinishCandidate(c) PROVE JobInv'
      <3>1. Current(c) \in Uploads
        BY <2>1, RunFacts DEF FinishCandidate
      <3> QED
        BY <1>a, <1>b, <2>0, <2>1, <3>1 DEF FinishCandidate, CleanupSettled, tableVars
    <2>2. ASSUME NEW c \in Cleaners, PurgeAndFinish(c) PROVE JobInv'
      BY <2>0, <2>2, PurgeKeepsJobs DEF PurgeAndFinish
    <2> QED
      BY <1>3, <1>a, <2>0, <2>1, <2>2
      DEF LifecycleNext, CleanerStep, ClaimCleanupBatch, LeaseCleanup, NextCandidate,
          AbortSession, DeleteDerivative, DeleteRaw, ReleaseCandidate, CleanupSettled,
          FailCleanup, StorageFails, Killed, tableVars
  <1>4. CASE TimePasses /\ UNCHANGED workerVars
    BY <1>4, <1>a DEF TimePasses, Age, CleanupDue, workerVars
  <1>5. CASE UNCHANGED vars
    BY <1>5, <1>a DEF vars, tableVars, workerVars
  <1> QED
    BY <1>1, <1>2, <1>3, <1>4, <1>5 DEF Next

LEMMA JobInit ==
  ASSUME Init
  PROVE  JobInv
  BY DEF Init, StoreInit, LeaseInit, WorkerInit, NewJob, NoLease, Idle, JobInv, SlotInv,
         AttemptsInv, SettleInv, NoEarlyJob, JobsMatchUploads, UndecidedState, Uploads

LEMMA JobInvariant == Spec => []JobInv
  <1>1. Init => JobInv
    BY JobInit
  <1>2. TypeInv /\ JobInv /\ [Next]_vars => JobInv'
    BY JobStep
  <1> QED
    BY <1>1, <1>2, TypeInvariant, PTL DEF Spec

(* Although no transaction of the worker spans the jobs and the uploads tables,
   they agree in every reachable state: no crash, takeover, late write or
   deletion leaves an undecided upload without a live job, a completed job with
   an undecided upload, or a dead-lettered job with an upload not rejected. *)
THEOREM JobsMatch == Spec => []JobsMatchUploads
  <1>1. JobInv => JobsMatchUploads
    BY DEF JobInv
  <1> QED
    BY <1>1, JobInvariant, PTL

-----------------------------------------------------------------------------
(* One source per upload *)

(* The part of OneSourcePublished that is about one upload *)
RowsMatch(u) ==
    /\ derivs[u] # {} => derivs[u] = {sha[u]} \X Variants
    /\ state[u] = "ready" => derivs[u] # {}

(* The digest is recorded once, on a quarantined upload that no slot has taken
   past the start and that has no derivative yet; so it is enough to look at
   what a step changes. *)
LEMMA SourceFrame ==
  ASSUME TypeInv, SourceInv,
         \A u \in Uploads : sha'[u] = sha[u] \/ state[u] = "quarantined",
         \A u \in Uploads : state'[u] = "quarantined" => state[u] \in {"created", "quarantined"},
         \A t \in Slots : slot[t].step # "idle" => state[lease[t].job] # "created",
         \A u \in Uploads : \/ state'[u] = state[u] /\ sha'[u] = sha[u] /\ derivs'[u] = derivs[u]
                            \/ UploadDigest(u)' /\ RowsMatch(u)',
         \A t \in Slots : \/ slot'[t] = slot[t] /\ lease'[t] = lease[t]
                          \/ SlotDigest(t)',
         \A key \in media' : key \in media \/ key[2] = sha'[key[1]]
  PROVE  SourceInv'
  <1>1. \A u \in Uploads : UploadDigest(u)' /\ RowsMatch(u)'
    BY DEF SourceInv, DigestInv, OneSourcePublished, UploadDigest, RowsMatch
  <1>2. ASSUME NEW t \in Slots PROVE SlotDigest(t)'
    <2>1. CASE slot[t].step = "idle" /\ slot'[t] = slot[t]
      BY <2>1 DEF SlotDigest
    <2>2. CASE slot[t].step # "idle" /\ slot'[t] = slot[t] /\ lease'[t] = lease[t]
      <3>1. lease[t].job \in Uploads
        BY <2>2, SlotFacts DEF Upload
      <3>2. SlotDigest(t) /\ UploadDigest(lease[t].job)
        BY <3>1 DEF SourceInv, DigestInv
      <3> QED
        BY <2>2, <3>1, <3>2 DEF SlotDigest, UploadDigest
    <2> QED
      BY <2>1, <2>2
  <1>3. \A key \in media' : key[2] = sha'[key[1]]
    <2> SUFFICES ASSUME NEW key \in media' PROVE key[2] = sha'[key[1]]
      OBVIOUS
    <2>1. CASE key \in media
      <3>1. key[1] \in Uploads /\ key[2] \in Contents /\ key[2] = sha[key[1]]
        BY <2>1 DEF TypeInv, TypeOK, StoreTypeOK, ObjectsOK, Keys, SourceInv, OneSourcePublished
      <3>2. state[key[1]] = "quarantined" => sha[key[1]] = NoContent
        BY <3>1 DEF SourceInv, DigestInv, UploadDigest
      <3> QED
        BY <3>1, <3>2, StoreAssumption
    <2> QED
      BY <2>1
  <1> QED
    BY <1>1, <1>2, <1>3 DEF SourceInv, DigestInv, OneSourcePublished, RowsMatch

(* Steps that move at most one slot, or end some, over unchanged tables. *)
LEMMA SlotKeepsSource ==
  ASSUME TypeInv, JobInv, SourceInv, UNCHANGED <<state, sha, derivs>>,
         \A t \in Slots : \/ slot'[t] = slot[t] /\ lease'[t] = lease[t]
                          \/ SlotDigest(t)',
         \A key \in media' : key \in media \/ key[2] = sha[key[1]]
  PROVE  SourceInv'
  <1>1. \A t \in Slots : slot[t].step # "idle" => state[lease[t].job] # "created"
    BY DEF JobInv, SlotInv, TypeInv, BusyInv
  <1> QED
    BY <1>1, SourceFrame

(* Transactions on one upload that leave the digest alone. *)
LEMMA TablesKeepSource ==
  ASSUME TypeInv, JobInv, SourceInv, NEW u \in Uploads,
         \A v \in Uploads \ {u} : state'[v] = state[v] /\ derivs'[v] = derivs[v],
         UNCHANGED sha,
         UploadDigest(u)' /\ RowsMatch(u)',
         state'[u] = "quarantined" => state[u] \in {"created", "quarantined"},
         \A t \in Slots : \/ slot'[t] = slot[t] /\ lease'[t] = lease[t]
                          \/ SlotDigest(t)',
         \A key \in media' : key \in media
  PROVE  SourceInv'
  <1>1. \A t \in Slots : slot[t].step # "idle" => state[lease[t].job] # "created"
    BY DEF JobInv, SlotInv, TypeInv, BusyInv
  <1>2. \A v \in Uploads : state'[v] = "quarantined" => state[v] \in {"created", "quarantined"}
    OBVIOUS
  <1>3. \A v \in Uploads : \/ state'[v] = state[v] /\ sha'[v] = sha[v] /\ derivs'[v] = derivs[v]
                           \/ UploadDigest(v)' /\ RowsMatch(v)'
    OBVIOUS
  <1> QED
    BY <1>1, <1>2, <1>3, SourceFrame

LEMMA WorkerKeepsSource ==
  ASSUME TypeInv, JobInv, SourceInv, WorkerNext
  PROVE  SourceInv'
  <1>a. ASSUME NEW s \in Slots, NEW x, slot' = [slot EXCEPT ![s] = x], UNCHANGED lease,
               UNCHANGED <<state, sha, derivs, media>>, SlotDigest(s)'
        PROVE  SourceInv'
    <2>1. \A t \in Slots \ {s} : slot'[t] = slot[t] /\ lease'[t] = lease[t]
      BY <1>a DEF TypeInv, TypeOK, WorkerTypeOK
    <2> QED
      BY <1>a, <2>1, SlotKeepsSource
  <1>b. ASSUME NEW s \in Slots, NEW st, Step(s, st), UNCHANGED <<tableVars, media, leaseVars>>,
               st \notin {"inspect", "start", "master", "thumbnail", "publish"}
        PROVE  SourceInv'
    <2>1. slot'[s].step = st
      BY <1>b DEF Step, TypeInv, TypeOK, WorkerTypeOK
    <2>2. SlotDigest(s)'
      BY <1>b, <2>1 DEF SlotDigest
    <2> QED
      BY <1>a, <1>b, <2>2 DEF Step, tableVars, leaseVars
  <1>c. ASSUME NEW s \in Slots, Transient(s), UNCHANGED <<tableVars, media, leaseVars>>
        PROVE  SourceInv'
    <2>1. PICK st \in {"reject_exhausted", "fail"} : Step(s, st)
      BY <1>c DEF Transient
    <2> QED
      BY <1>b, <1>c, <2>1
  <1>d. ASSUME NEW s \in Slots, Exit(s), UNCHANGED <<tableVars, media>> PROVE SourceInv'
    <2>1. \A t \in Slots : /\ t \in Peers(s) => slot'[t] = Idle
                           /\ t \notin Peers(s) => slot'[t] = slot[t] /\ lease'[t] = lease[t]
      BY <1>d DEF Exit, Lose
    <2>2. \A t \in Slots : slot'[t] = Idle => SlotDigest(t)'
      BY DEF SlotDigest, Idle
    <2> QED
      BY <1>d, <2>1, <2>2, SlotKeepsSource DEF tableVars
  <1>e. ASSUME UNCHANGED <<tableVars, media, slot, lease>> PROVE SourceInv'
    BY <1>e, SlotKeepsSource DEF tableVars
  <1>1. ASSUME NEW s \in Slots, NEW u \in Uploads, ClaimJob(s, u) PROVE SourceInv'
    <2>1. slot'[s].step = "read" /\ \A t \in Slots \ {s} : slot'[t] = slot[t] /\ lease'[t] = lease[t]
      BY <1>1 DEF ClaimJob, Claim, Step, TypeInv, TypeOK, WorkerTypeOK, LeaseTypeOK
    <2>2. SlotDigest(s)'
      BY <2>1 DEF SlotDigest
    <2> QED
      BY <1>1, <2>1, <2>2, SlotKeepsSource DEF ClaimJob, tableVars, objectVars
  <1>2. ASSUME NEW s \in Slots, ReadSource(s) PROVE SourceInv'
    <2>0. UNCHANGED <<tableVars, media, leaseVars>>
      BY <1>2 DEF ReadSource, objectVars
    <2> DEFINE x == [step |-> "inspect", source |-> sha[Upload(s)], digest |-> NoContent]
    <2>1. CASE slot' = [slot EXCEPT ![s] = x]
      <3>1. slot'[s] = x
        BY <2>1 DEF TypeInv, TypeOK, WorkerTypeOK
      <3>2. SlotDigest(s)'
        BY <2>0, <3>1 DEF SlotDigest, Upload, tableVars, leaseVars
      <3> QED
        BY <1>a, <2>0, <2>1, <3>2 DEF tableVars, leaseVars
    <2>2. CASE Step(s, "complete")
      BY <1>b, <2>0, <2>2
    <2>3. CASE Transient(s)
      BY <1>c, <2>0, <2>3
    <2> QED
      BY <1>2, <2>1, <2>2, <2>3 DEF ReadSource
  <1>3. ASSUME NEW s \in Slots, Inspect(s) PROVE SourceInv'
    <2>0. UNCHANGED <<tableVars, media, leaseVars>> /\ slot[s].step = "inspect"
      BY <1>3 DEF Inspect, objectVars
    <2> DEFINE x == [step |-> "start", source |-> slot[s].source, digest |-> raw[Upload(s)]]
    <2>1. CASE slot' = [slot EXCEPT ![s] = x]
      <3>1. slot'[s] = x /\ SlotDigest(s)
        BY <2>1 DEF TypeInv, TypeOK, WorkerTypeOK, SourceInv, DigestInv
      <3>2. SlotDigest(s)'
        BY <2>0, <3>1 DEF SlotDigest, tableVars, leaseVars
      <3> QED
        BY <1>a, <2>0, <2>1, <3>2 DEF tableVars, leaseVars
    <2>2. CASE Transient(s)
      BY <1>c, <2>0, <2>2
    <2> QED
      BY <1>3, <2>1, <2>2 DEF Inspect
  <1>4. ASSUME NEW s \in Slots, Start(s) PROVE SourceInv'
    <2>0. /\ UNCHANGED <<media, leaseVars, lease>> /\ slot[s].step = "start"
          /\ Upload(s) \in Uploads /\ slot[s].digest \in Contents
      BY <1>4, SlotFacts DEF Start, objectVars, leaseVars, TypeInv, BusyInv
    <2>1. CASE UNCHANGED tableVars /\ (Transient(s) \/ Step(s, "reject"))
      BY <1>b, <1>c, <2>0, <2>1
    <2>2. CASE /\ Step(s, "master") /\ UNCHANGED tableVars
               /\ sha[Upload(s)] = slot[s].digest /\ state[Upload(s)] # "quarantined"
      <3>1. slot'[s].step = "master" /\ slot'[s].digest = slot[s].digest
        BY <2>2 DEF Step, TypeInv, TypeOK, WorkerTypeOK
      <3>2. SlotDigest(s)'
        BY <2>0, <2>2, <3>1 DEF SlotDigest, Upload, tableVars
      <3> QED
        BY <1>a, <2>0, <2>2, <3>2 DEF Step, tableVars
    <2>3. CASE /\ Step(s, "master") /\ state[Upload(s)] = "quarantined"
               /\ SetState(Upload(s), "processing")
               /\ sha' = [sha EXCEPT ![Upload(s)] = slot[s].digest] /\ UNCHANGED derivs
      <3>0. PICK u \in Uploads : u = Upload(s)
        BY <2>0
      <3>1. /\ state'[u] = "processing" /\ sha'[u] = slot[s].digest
            /\ \A v \in Uploads \ {u} : state'[v] = state[v] /\ sha'[v] = sha[v]
        BY <2>0, <2>3, <3>0 DEF SetState, TypeInv, TypeOK, StoreTypeOK, TablesOK
      <3>2. slot'[s].step = "master" /\ slot'[s].digest = slot[s].digest
        BY <2>3 DEF Step, TypeInv, TypeOK, WorkerTypeOK
      <3>3. \A t \in Slots \ {s} : slot'[t] = slot[t] /\ lease'[t] = lease[t]
        BY <2>0, <2>3 DEF Step, TypeInv, TypeOK, WorkerTypeOK
      <3>4. SlotDigest(s)'
        BY <2>0, <3>0, <3>1, <3>2 DEF SlotDigest, Upload
      <3>5. UploadDigest(u)' /\ RowsMatch(u)'
        <4>1. UploadDigest(u)
          BY <2>0 DEF SourceInv, DigestInv
        <4> QED
          BY <2>0, <2>3, <3>0, <3>1, <4>1 DEF UploadDigest, RowsMatch
      <3>6. \A t \in Slots : slot[t].step # "idle" => state[lease[t].job] # "created"
        BY DEF JobInv, SlotInv, TypeInv, BusyInv
      <3>7. state[u] = "quarantined"
        BY <2>3, <3>0
      <3>8. UNCHANGED <<derivs, media>>
        BY <2>0, <2>3
      <3> QED
        BY <3>1, <3>3, <3>4, <3>5, <3>6, <3>7, <3>8, SourceFrame
    <2>4. CASE /\ Step(s, "master") /\ UNCHANGED tableVars
               /\ slot[s].source = slot[s].digest
      <3>1. SlotDigest(s) /\ UploadDigest(Upload(s)) /\ slot[s].source # NoContent
        BY <2>0, <2>4, StoreAssumption DEF SourceInv, DigestInv
      <3> QED
        BY <2>0, <2>2, <2>4, <3>1 DEF SlotDigest, UploadDigest, Upload
    <2> QED
      BY <1>4, <2>1, <2>2, <2>3, <2>4 DEF Start, StartProcessing
  <1>5. ASSUME NEW s \in Slots, NEW v \in {"master", "thumbnail"},
               NEW next \in {"thumbnail", "publish"}, PutDerivative(s, v, next)
        PROVE  SourceInv'
    <2>0. slot[s].step \in {"master", "thumbnail"} /\ UNCHANGED <<tableVars, lease>>
      BY <1>5 DEF PutDerivative, leaseVars
    <2>1. /\ slot'[s].step = next /\ slot'[s].digest = slot[s].digest
          /\ \A t \in Slots \ {s} : slot'[t] = slot[t]
      BY <1>5 DEF PutDerivative, Step, TypeInv, TypeOK, WorkerTypeOK
    <2>2. SlotDigest(s)
      BY DEF SourceInv, DigestInv
    <2>3. SlotDigest(s)'
      BY <2>0, <2>1, <2>2 DEF SlotDigest, tableVars
    <2>4. \A key \in media' : key \in media \/ key[2] = sha[key[1]]
      BY <1>5, <2>0, <2>2 DEF PutDerivative, SlotDigest, Upload
    <2> QED
      BY <2>0, <2>1, <2>3, <2>4, SlotKeepsSource DEF tableVars
  <1>6. ASSUME NEW s \in Slots, Publish(s) PROVE SourceInv'
    <2>0. UNCHANGED <<media, leaseVars, lease>> /\ slot[s].step = "publish" /\ Upload(s) \in Uploads
      BY <1>6, SlotFacts DEF Publish, objectVars, leaseVars
    <2>1. CASE Transient(s) /\ UNCHANGED tableVars
      BY <1>c, <2>0, <2>1
    <2>2. CASE PublishDerivatives(Upload(s), slot[s].digest) /\ Step(s, "complete")
      <3>0. PICK u \in Uploads : u = Upload(s)
        BY <2>0
      <3>1. /\ state'[u] = "ready" /\ UNCHANGED sha
            /\ \A v \in Uploads \ {u} : state'[v] = state[v] /\ derivs'[v] = derivs[v]
        BY <2>0, <2>2, <3>0 DEF PublishDerivatives, CanPublish, SetState, TypeInv, TypeOK, StoreTypeOK,
                          TablesOK
      <3>2. derivs'[u] = {slot[s].digest} \X Variants
        BY <2>0, <2>2, <3>0 DEF PublishDerivatives, TypeInv, TypeOK, StoreTypeOK, TablesOK
      <3>3. slot[s].digest = sha[u]
        BY <2>0, <3>0 DEF SourceInv, DigestInv, SlotDigest, Upload
      <3>4. slot[s].digest \in Contents
        BY <2>0 DEF TypeInv, BusyInv
      <3>5. derivs'[u] # {}
        <4>1. <<slot[s].digest, "master">> \in {slot[s].digest} \X Variants
          BY DEF Variants
        <4> QED
          BY <3>2, <4>1
      <3>6. UploadDigest(u)' /\ RowsMatch(u)'
        BY <3>1, <3>2, <3>3, <3>4, <3>5 DEF UploadDigest, RowsMatch
      <3>7. slot'[s].step = "complete" /\ \A t \in Slots \ {s} : slot'[t] = slot[t]
        BY <2>2 DEF Step, TypeInv, TypeOK, WorkerTypeOK
      <3>8. SlotDigest(s)'
        BY <3>7 DEF SlotDigest
      <3>9. u \in Uploads /\ UNCHANGED <<media, lease>>
        BY <2>0
      <3> QED
        BY <3>1, <3>6, <3>7, <3>8, <3>9, TablesKeepSource
    <2> QED
      BY <1>6, <2>1, <2>2 DEF Publish
  <1>7. ASSUME NEW s \in Slots, Reject(s) PROVE SourceInv'
    <2>0. UNCHANGED media /\ slot[s].step # "idle" /\ Upload(s) \in Uploads
      BY <1>7, SlotFacts DEF Reject, objectVars
    <2>1. CASE Exit(s) /\ UNCHANGED tableVars
      BY <1>d, <2>0, <2>1
    <2>2. CASE MarkRejected(Upload(s)) /\ UNCHANGED leaseVars
                 /\ \E st \in {"complete", "fail"} : Step(s, st)
      <3>0. PICK u \in Uploads : u = Upload(s)
        BY <2>0
      <3>1. CASE UNCHANGED tableVars
        BY <1>b, <2>0, <2>2, <3>1
      <3>2. CASE state[u] \in UndecidedState /\ SetState(u, "rejected") /\ UNCHANGED <<sha, derivs>>
        <4>1. state'[u] = "rejected" /\ \A v \in Uploads \ {u} : state'[v] = state[v]
          BY <2>0, <3>2 DEF SetState, TypeInv, TypeOK, StoreTypeOK, TablesOK
        <4>2. UploadDigest(u)
          BY <2>0 DEF SourceInv, DigestInv
        <4>3. UploadDigest(u)' /\ RowsMatch(u)'
          BY <3>2, <4>1, <4>2 DEF UploadDigest, RowsMatch, UndecidedState
        <4>4. \A t \in Slots \ {s} : slot'[t] = slot[t]
          BY <2>2 DEF Step, TypeInv, TypeOK, WorkerTypeOK
        <4>5. slot'[s].step \in {"complete", "fail"}
          BY <2>2 DEF Step, TypeInv, TypeOK, WorkerTypeOK
        <4>6. SlotDigest(s)'
          BY <4>5 DEF SlotDigest
        <4>7. u \in Uploads /\ UNCHANGED <<media, lease, sha, derivs>>
          BY <2>0, <2>2, <3>2 DEF leaseVars
        <4> QED
          BY <4>1, <4>3, <4>4, <4>6, <4>7, TablesKeepSource
      <3> QED
        BY <2>2, <3>0, <3>1, <3>2 DEF MarkRejected
    <2> QED
      BY <1>7, <2>1, <2>2 DEF Reject
  <1>8. ASSUME NEW s \in Slots, CompleteJob(s) \/ FailJob(s) PROVE SourceInv'
    <2>0. UNCHANGED <<tableVars, media>>
      BY <1>8 DEF CompleteJob, FailJob, Settle, objectVars
    <2>1. CASE slot' = [slot EXCEPT ![s] = Idle] /\ (Complete(s) \/ Fail(s, MaxAttempts))
      <3>1. /\ slot'[s] = Idle
            /\ \A t \in Slots \ {s} : slot'[t] = slot[t] /\ lease'[t] = lease[t]
        BY <2>1 DEF Complete, Fail, Release, TypeInv, TypeOK, WorkerTypeOK, LeaseTypeOK
      <3>2. SlotDigest(s)'
        BY <3>1 DEF SlotDigest, Idle
      <3> QED
        BY <2>0, <3>1, <3>2, SlotKeepsSource DEF tableVars
    <2> QED
      BY <1>8, <1>d, <2>0, <2>1 DEF CompleteJob, FailJob, Settle
  <1>9. ASSUME NEW s \in Slots, FailPermanently(s) \/ FailTransiently(s) PROVE SourceInv'
    BY <1>9, <1>b, <1>c DEF FailPermanently, FailTransiently, objectVars
  <1>10. ASSUME NEW s \in Slots, FailOperationally(s) \/ RenewRefused(s) \/ Crash(s)
         PROVE  SourceInv'
    BY <1>10, <1>d DEF FailOperationally, RenewRefused, Crash, objectVars
  <1>11. ASSUME NEW s \in Slots, Stall(s) PROVE SourceInv'
    BY <1>11, <1>e DEF Stall, BecomeDue, objectVars
  <1>12. ASSUME NEW u \in Uploads, JobDue(u) PROVE SourceInv'
    BY <1>12, <1>e DEF JobDue, BecomeDue, objectVars
  <1>13. ASSUME NEW s \in Slots, PutMaster(s) \/ PutThumbnail(s) PROVE SourceInv'
    BY <1>5, <1>13 DEF PutMaster, PutThumbnail
  <1> QED
    BY <1>1, <1>2, <1>3, <1>4, <1>6, <1>7, <1>8, <1>9, <1>10, <1>11, <1>12, <1>13
    DEF WorkerNext, SlotStep

LEMMA SourceStep ==
  ASSUME TypeInv, JobInv, SourceInv, [Next]_vars
  PROVE  SourceInv'
  <1>a. ASSUME UNCHANGED <<state, sha, derivs, slot, lease>>, media' \subseteq media
        PROVE  SourceInv'
    BY <1>a, SlotKeepsSource
  <1>b. ASSUME NEW u \in Uploads, NEW to \in {"quarantined", "deleted"}, SetState(u, to),
               to = "quarantined" => state[u] = "created",
               UNCHANGED <<sha, derivs, media, slot, lease>>
        PROVE  SourceInv'
    <2>1. state'[u] = to /\ \A v \in Uploads \ {u} : state'[v] = state[v]
      BY <1>b DEF SetState, TypeInv, TypeOK, StoreTypeOK, TablesOK
    <2>2. UploadDigest(u) /\ RowsMatch(u)
      BY DEF SourceInv, DigestInv, OneSourcePublished, RowsMatch
    <2>3. UploadDigest(u)' /\ RowsMatch(u)'
      BY <1>b, <2>1, <2>2 DEF UploadDigest, RowsMatch
    <2> QED
      BY <1>b, <2>1, <2>3, TablesKeepSource
  <1>1. CASE ApiNext /\ UNCHANGED workerVars
    <2>0. UNCHANGED slot
      BY <1>1 DEF workerVars
    <2>1. ASSUME NEW r \in Requests, request[r].step # "none" PROVE request[r].upload \in Uploads
      BY <2>1 DEF TypeInv, TypeOK, ApiTypeOK, Request, NoRequest
    <2>2. ASSUME NEW r \in Requests, Confirm(r) PROVE SourceInv'
      BY <1>b, <2>0, <2>1, <2>2 DEF Confirm, MarkQuarantined, Enqueue, objectVars
    <2>3. ASSUME NEW r \in Requests, Tombstone(r) PROVE SourceInv'
      BY <1>b, <2>0, <2>1, <2>3 DEF Tombstone, MarkDeleted, objectVars, leaseVars
    <2> QED
      BY <1>1, <1>a, <2>0, <2>2, <2>3
      DEF ApiNext, ClientPut, UrlExpires, Delete, RequestDeletion, ConfirmSingleUpload,
          CompleteMultipart, AbortMultipart, Begin, ProviderComplete, VerifyStoredSize,
          ProviderAbort, GiveUp, tableVars, objectVars, leaseVars
  <1>2. CASE WorkerNext
    BY <1>2, WorkerKeepsSource
  <1>3. CASE LifecycleNext /\ UNCHANGED workerVars
    <2>0. UNCHANGED slot
      BY <1>3 DEF workerVars
    <2>1. ASSUME NEW c \in Cleaners, FinishCandidate(c) PROVE SourceInv'
      <3>1. Current(c) \in Uploads
        BY <2>1, RunFacts DEF FinishCandidate
      <3>2. CASE CompleteCleanup(c, Current(c))
        BY <1>b, <2>0, <2>1, <3>1, <3>2
        DEF CompleteCleanup, FinishCandidate, CleanupSettled, objectVars, leaseVars
      <3> QED
        BY <1>a, <2>0, <2>1, <3>2
        DEF FinishCandidate, CleanupSettled, tableVars, objectVars, leaseVars
    <2>2. ASSUME NEW c \in Cleaners, PurgeAndFinish(c) PROVE SourceInv'
      <3>0. UNCHANGED <<sha, media, slot, lease>>
        BY <2>0, <2>2 DEF PurgeAndFinish, PurgeTombstones, objectVars
      <3>1. \A u \in Uploads :
              IF Purgeable(u) THEN state'[u] = "purged" /\ derivs'[u] = {}
              ELSE state'[u] = state[u] /\ derivs'[u] = derivs[u]
        BY <2>2 DEF PurgeAndFinish, PurgeTombstones
      <3>2. \A u \in Uploads : \/ state'[u] = state[u] /\ sha'[u] = sha[u] /\ derivs'[u] = derivs[u]
                               \/ UploadDigest(u)' /\ RowsMatch(u)'
        BY <3>0, <3>1 DEF UploadDigest, RowsMatch
      <3>3. \A u \in Uploads : state'[u] = "quarantined" => state[u] = "quarantined"
        BY <3>1
      <3>4. \A t \in Slots : slot[t].step # "idle" => state[lease[t].job] # "created"
        BY DEF JobInv, SlotInv, TypeInv, BusyInv
      <3> QED
        BY <3>0, <3>2, <3>3, <3>4, SourceFrame
    <2> QED
      BY <1>3, <1>a, <2>0, <2>1, <2>2
      DEF LifecycleNext, CleanerStep, ClaimCleanupBatch, LeaseCleanup, NextCandidate,
          AbortSession, DeleteDerivative, DeleteRaw, ReleaseCandidate, CleanupSettled,
          FailCleanup, StorageFails, Killed, tableVars, objectVars, leaseVars
  <1>4. CASE TimePasses /\ UNCHANGED workerVars
    BY <1>4, <1>a DEF TimePasses, Age, CleanupDue, workerVars, objectVars, leaseVars
  <1>5. CASE UNCHANGED vars
    BY <1>5, <1>a DEF vars, tableVars, objectVars, leaseVars, workerVars
  <1> QED
    BY <1>1, <1>2, <1>3, <1>4, <1>5 DEF Next

LEMMA SourceInit ==
  ASSUME Init
  PROVE  SourceInv
  BY DEF Init, StoreInit, WorkerInit, Idle, SourceInv, DigestInv, UploadDigest, SlotDigest,
         OneSourcePublished

LEMMA SourceInvariant == Spec => []SourceInv
  <1>1. Init => SourceInv
    BY SourceInit
  <1>2. TypeInv /\ JobInv /\ SourceInv /\ [Next]_vars => SourceInv'
    BY SourceStep
  <1> QED
    BY <1>1, <1>2, TypeInvariant, JobInvariant, PTL DEF Spec

(* Derivatives are immutable and of one source: slots that lost their leases
   keep writing and clients keep replacing the raw object, and still every row
   and every derivative object is made from the digest the upload recorded. *)
THEOREM OneSource == Spec => []OneSourcePublished
  <1>1. SourceInv => OneSourcePublished
    BY DEF SourceInv
  <1> QED
    BY <1>1, SourceInvariant, PTL

-----------------------------------------------------------------------------
(* Ready uploads are servable *)

(* The part of ReadyIsServable that is about one upload *)
Servable(u) ==
    state[u] = "ready" /\ u \notin delreq
      => {<<u, row[1], row[2]>> : row \in derivs[u]} \subseteq media

(* Deletion requests are never withdrawn and gone uploads do not come back, so
   the objects of a kept upload were the objects of a kept upload before. *)
LEMMA ServeFrame ==
  ASSUME TypeInv, ServeInv, Monotone, delreq \subseteq delreq',
         \A key \in media : Kept(key[1])' => key \in media',
         \A t \in Slots : \/ slot'[t] = slot[t] /\ lease'[t] = lease[t]
                          \/ SlotStored(t)',
         \A u \in Uploads : \/ state'[u] = state[u] /\ derivs'[u] = derivs[u]
                            \/ state'[u] # "ready"
                            \/ Servable(u)',
         \A c \in Cleaners : run'[c] = run[c] \/ RunKeys(c)'
  PROVE  ServeInv'
  <1>1. \A u \in Uploads : Kept(u)' => Kept(u)
    BY DEF Kept, Monotone
  <1>2. ASSUME NEW t \in Slots PROVE SlotStored(t)'
    <2>1. CASE slot[t].step = "idle" /\ slot'[t] = slot[t]
      BY <2>1 DEF SlotStored
    <2>2. CASE slot[t].step # "idle" /\ slot'[t] = slot[t] /\ lease'[t] = lease[t]
      <3>1. lease[t].job \in Uploads
        BY <2>2, SlotFacts DEF Upload
      <3>2. SlotStored(t) /\ (Kept(lease[t].job)' => Kept(lease[t].job))
        BY <1>1, <2>2, <3>1 DEF ServeInv, ObjectInv, Kept
      <3>3. \A v \in Variants : <<lease[t].job, slot[t].digest, v>> \in media
                                  /\ Kept(lease[t].job)'
                                  => <<lease[t].job, slot[t].digest, v>> \in media'
        BY <2>2 DEF Kept
      <3> QED
        BY <2>2, <3>2, <3>3 DEF SlotStored, Variants
    <2> QED
      BY <2>1, <2>2
  <1>3. ASSUME NEW u \in Uploads PROVE Servable(u)'
    <2>1. CASE state'[u] = state[u] /\ derivs'[u] = derivs[u]
      <3> SUFFICES ASSUME state'[u] = "ready", u \notin delreq', NEW row \in derivs'[u]
                   PROVE  <<u, row[1], row[2]>> \in media'
        BY DEF Servable
      <3>1. <<u, row[1], row[2]>> \in media
        BY <2>1 DEF ServeInv, ReadyIsServable
      <3>2. Kept(<<u, row[1], row[2]>>[1])'
        BY DEF Kept, LostState, GoneState
      <3> QED
        BY <3>1, <3>2
    <2> QED
      BY <2>1 DEF Servable
  <1>4. \A c \in Cleaners : RunKeys(c)'
    BY DEF ServeInv, ObjectInv, RunKeys
  <1> QED
    BY <1>2, <1>3, <1>4 DEF ServeInv, ObjectInv, ReadyIsServable, Servable

(* Steps of a slot that leave tables and cleanup runs alone. *)
LEMMA SlotKeepsServe ==
  ASSUME TypeInv, ServeInv, Monotone, UNCHANGED <<state, derivs, delreq, run>>,
         media \subseteq media',
         \A t \in Slots : \/ slot'[t] = slot[t] /\ lease'[t] = lease[t]
                          \/ SlotStored(t)'
  PROVE  ServeInv'
  BY ServeFrame

LEMMA WorkerKeepsServe ==
  ASSUME TypeInv, SourceInv, ServeInv, Monotone, WorkerNext, UNCHANGED run
  PROVE  ServeInv'
  <1>a. ASSUME NEW s \in Slots, NEW x, slot' = [slot EXCEPT ![s] = x], UNCHANGED lease,
               UNCHANGED <<derivs, delreq, media>>,
               \A u \in Uploads : state'[u] = "ready" => state[u] = "ready",
               x.step \notin {"thumbnail", "publish"}
        PROVE  ServeInv'
    <2>1. \A t \in Slots \ {s} : slot'[t] = slot[t] /\ lease'[t] = lease[t]
      BY <1>a DEF TypeInv, TypeOK, WorkerTypeOK
    <2>2. slot'[s] = x
      BY <1>a DEF TypeInv, TypeOK, WorkerTypeOK
    <2>3. SlotStored(s)'
      BY <1>a, <2>2 DEF SlotStored
    <2> QED
      BY <1>a, <2>1, <2>3, ServeFrame
  <1>b. ASSUME NEW s \in Slots, NEW st, Step(s, st), UNCHANGED <<derivs, delreq, media, leaseVars>>,
               \A u \in Uploads : state'[u] = "ready" => state[u] = "ready",
               st \notin {"thumbnail", "publish"}
        PROVE  ServeInv'
    BY <1>a, <1>b DEF Step, leaseVars
  <1>c. ASSUME NEW s \in Slots, Transient(s), UNCHANGED <<tableVars, media, leaseVars>>
        PROVE  ServeInv'
    <2>1. PICK st \in {"reject_exhausted", "fail"} : Step(s, st)
      BY <1>c DEF Transient
    <2> QED
      BY <1>b, <1>c, <2>1 DEF tableVars
  <1>d. ASSUME NEW s \in Slots, Exit(s), UNCHANGED <<tableVars, media>> PROVE ServeInv'
    <2>1. \A t \in Slots : /\ t \in Peers(s) => slot'[t] = Idle
                           /\ t \notin Peers(s) => slot'[t] = slot[t] /\ lease'[t] = lease[t]
      BY <1>d DEF Exit, Lose
    <2>2. \A t \in Slots : slot'[t] = Idle => SlotStored(t)'
      BY DEF SlotStored, Idle
    <2> QED
      BY <1>d, <2>1, <2>2, SlotKeepsServe DEF tableVars
  <1>e. ASSUME UNCHANGED <<tableVars, media, slot, lease>> PROVE ServeInv'
    BY <1>e, SlotKeepsServe DEF tableVars
  <1>1. ASSUME NEW s \in Slots, NEW u \in Uploads, ClaimJob(s, u) PROVE ServeInv'
    <2>1. slot'[s].step = "read" /\ \A t \in Slots \ {s} : slot'[t] = slot[t] /\ lease'[t] = lease[t]
      BY <1>1 DEF ClaimJob, Claim, Step, TypeInv, TypeOK, WorkerTypeOK, LeaseTypeOK
    <2>2. SlotStored(s)'
      BY <2>1 DEF SlotStored
    <2> QED
      BY <1>1, <2>1, <2>2, SlotKeepsServe DEF ClaimJob, tableVars, objectVars
  <1>2. ASSUME NEW s \in Slots, ReadSource(s) \/ Inspect(s) PROVE ServeInv'
    <2>0. UNCHANGED <<tableVars, media, leaseVars, lease, state, derivs, delreq>>
      BY <1>2 DEF ReadSource, Inspect, objectVars, tableVars, leaseVars
    <2>1. CASE \/ slot' = [slot EXCEPT ![s] = [step |-> "inspect", source |-> sha[Upload(s)],
                                               digest |-> NoContent]]
               \/ slot' = [slot EXCEPT ![s] = [step |-> "start", source |-> slot[s].source,
                                               digest |-> raw[Upload(s)]]]
      BY <1>a, <2>0, <2>1
    <2>2. CASE Step(s, "complete") \/ Transient(s)
      BY <1>b, <1>c, <2>0, <2>2
    <2> QED
      BY <1>2, <2>1, <2>2 DEF ReadSource, Inspect
  <1>3. ASSUME NEW s \in Slots, Start(s) PROVE ServeInv'
    <2>0. UNCHANGED <<media, leaseVars>>
      BY <1>3 DEF Start, objectVars
    <2>1. CASE UNCHANGED tableVars
      BY <1>3, <1>b, <1>c, <2>0, <2>1 DEF Start, tableVars
    <2>2. CASE SetState(Upload(s), "processing") /\ UNCHANGED <<derivs, delreq>> /\ Step(s, "master")
      <3>1. \A u \in Uploads : state'[u] = "ready" => state[u] = "ready"
        BY <2>2 DEF SetState, TypeInv, TypeOK, StoreTypeOK, TablesOK
      <3> QED
        BY <1>b, <2>0, <2>2, <3>1
    <2> QED
      BY <1>3, <2>1, <2>2 DEF Start, StartProcessing
  <1>4. ASSUME NEW s \in Slots, PutMaster(s) \/ PutThumbnail(s) PROVE ServeInv'
    <2>0. UNCHANGED <<tableVars, lease>> /\ media \subseteq media'
      BY <1>4 DEF PutMaster, PutThumbnail, PutDerivative, leaseVars
    <2>1. \A t \in Slots \ {s} : slot'[t] = slot[t]
      BY <1>4 DEF PutMaster, PutThumbnail, PutDerivative, Step, TypeInv, TypeOK, WorkerTypeOK
    <2>2. slot'[s].digest = slot[s].digest
      BY <1>4 DEF PutMaster, PutThumbnail, PutDerivative, Step, TypeInv, TypeOK, WorkerTypeOK
    <2>3. \/ /\ slot'[s].step = "thumbnail"
             /\ <<lease[s].job, slot[s].digest, "master">> \in media'
          \/ /\ slot[s].step = "thumbnail" /\ slot'[s].step = "publish"
             /\ <<lease[s].job, slot[s].digest, "thumbnail">> \in media'
      BY <1>4 DEF PutMaster, PutThumbnail, PutDerivative, Step, Upload, TypeInv, TypeOK, WorkerTypeOK
    <2>4. SlotStored(s)
      BY DEF ServeInv, ObjectInv
    <2>5. SlotStored(s)'
      BY <2>0, <2>2, <2>3, <2>4 DEF SlotStored, Kept, tableVars
    <2> QED
      BY <2>0, <2>1, <2>5, SlotKeepsServe DEF tableVars
  <1>5. ASSUME NEW s \in Slots, Publish(s) PROVE ServeInv'
    <2>0. UNCHANGED <<media, leaseVars, lease>> /\ slot[s].step = "publish" /\ Upload(s) \in Uploads
      BY <1>5, SlotFacts DEF Publish, objectVars, leaseVars
    <2>1. CASE Transient(s) /\ UNCHANGED tableVars
      BY <1>c, <2>0, <2>1
    <2>2. CASE PublishDerivatives(Upload(s), slot[s].digest) /\ Step(s, "complete")
      <3>0. PICK u \in Uploads : u = Upload(s)
        BY <2>0
      <3>1. /\ state[u] \in {"processing", "ready"} /\ UNCHANGED delreq
            /\ \A v \in Uploads \ {u} : state'[v] = state[v] /\ derivs'[v] = derivs[v]
        BY <2>0, <2>2, <3>0 DEF PublishDerivatives, CanPublish, SetState, TypeInv, TypeOK,
                                StoreTypeOK, TablesOK
      <3>2. derivs'[u] = {slot[s].digest} \X Variants
        BY <2>0, <2>2, <3>0 DEF PublishDerivatives, TypeInv, TypeOK, StoreTypeOK, TablesOK
      <3>3. Servable(u)'
        <4> SUFFICES ASSUME u \notin delreq', NEW row \in derivs'[u]
                     PROVE  <<u, row[1], row[2]>> \in media'
          BY DEF Servable
        <4>1. Kept(u) /\ SlotStored(s)
          BY <3>1 DEF Kept, LostState, GoneState, ServeInv, ObjectInv
        <4>2. /\ <<u, slot[s].digest, "master">> \in media
              /\ <<u, slot[s].digest, "thumbnail">> \in media
          BY <2>0, <3>0, <4>1 DEF SlotStored, Upload
        <4>3. row[1] = slot[s].digest /\ row[2] \in {"master", "thumbnail"}
          BY <3>2 DEF Variants
        <4> QED
          BY <2>0, <4>2, <4>3
      <3>4. slot'[s].step = "complete" /\ \A t \in Slots \ {s} : slot'[t] = slot[t]
        BY <2>2 DEF Step, TypeInv, TypeOK, WorkerTypeOK
      <3>5. SlotStored(s)'
        BY <3>4 DEF SlotStored
      <3> QED
        BY <2>0, <3>1, <3>3, <3>4, <3>5, ServeFrame
    <2> QED
      BY <1>5, <2>1, <2>2 DEF Publish
  <1>6. ASSUME NEW s \in Slots, Reject(s) PROVE ServeInv'
    <2>0. UNCHANGED media
      BY <1>6 DEF Reject, objectVars
    <2>1. CASE Exit(s) /\ UNCHANGED tableVars
      BY <1>d, <2>0, <2>1
    <2>2. CASE MarkRejected(Upload(s)) /\ UNCHANGED leaseVars
                 /\ \E st \in {"complete", "fail"} : Step(s, st)
      <3>1. UNCHANGED <<derivs, delreq>> /\ \A u \in Uploads : state'[u] = "ready" => state[u] = "ready"
        BY <2>2 DEF MarkRejected, SetState, tableVars, TypeInv, TypeOK, StoreTypeOK, TablesOK
      <3> QED
        BY <1>b, <2>0, <2>2, <3>1
    <2> QED
      BY <1>6, <2>1, <2>2 DEF Reject
  <1>7. ASSUME NEW s \in Slots, CompleteJob(s) \/ FailJob(s) PROVE ServeInv'
    <2>0. UNCHANGED <<tableVars, media>>
      BY <1>7 DEF CompleteJob, FailJob, Settle, objectVars
    <2>1. CASE slot' = [slot EXCEPT ![s] = Idle] /\ (Complete(s) \/ Fail(s, MaxAttempts))
      <3>1. /\ slot'[s] = Idle
            /\ \A t \in Slots \ {s} : slot'[t] = slot[t] /\ lease'[t] = lease[t]
        BY <2>1 DEF Complete, Fail, Release, TypeInv, TypeOK, WorkerTypeOK, LeaseTypeOK
      <3>2. SlotStored(s)'
        BY <3>1 DEF SlotStored, Idle
      <3> QED
        BY <2>0, <3>1, <3>2, SlotKeepsServe DEF tableVars
    <2> QED
      BY <1>7, <1>d, <2>0, <2>1 DEF CompleteJob, FailJob, Settle
  <1>8. ASSUME NEW s \in Slots, FailPermanently(s) \/ FailTransiently(s) PROVE ServeInv'
    BY <1>8, <1>b, <1>c DEF FailPermanently, FailTransiently, objectVars, tableVars
  <1>9. ASSUME NEW s \in Slots, FailOperationally(s) \/ RenewRefused(s) \/ Crash(s)
        PROVE  ServeInv'
    BY <1>9, <1>d DEF FailOperationally, RenewRefused, Crash, objectVars
  <1>10. ASSUME NEW s \in Slots, Stall(s) PROVE ServeInv'
    BY <1>10, <1>e DEF Stall, BecomeDue, objectVars
  <1>11. ASSUME NEW u \in Uploads, JobDue(u) PROVE ServeInv'
    BY <1>11, <1>e DEF JobDue, BecomeDue, objectVars
  <1> QED
    BY <1>1, <1>2, <1>3, <1>4, <1>5, <1>6, <1>7, <1>8, <1>9, <1>10, <1>11
    DEF WorkerNext, SlotStep

LEMMA ServeStep ==
  ASSUME TypeInv, SourceInv, ServeInv, [Next]_vars
  PROVE  ServeInv'
  <1>0. Monotone
    BY StateMonotone
  <1>a. ASSUME UNCHANGED <<slot, lease>>, delreq \subseteq delreq', UNCHANGED <<derivs, media>>,
               \A u \in Uploads : state'[u] = "ready" => state[u] = "ready",
               \A c \in Cleaners : run'[c] = run[c] \/ RunKeys(c)'
        PROVE  ServeInv'
    BY <1>0, <1>a, ServeFrame
  <1>1. CASE ApiNext /\ UNCHANGED <<workerVars, lifecycleVars>>
    <2>0. UNCHANGED <<slot, run>>
      BY <1>1 DEF workerVars, lifecycleVars
    <2>1. UNCHANGED <<lease, derivs, media>> /\ delreq \subseteq delreq'
      BY <1>1 DEF ApiNext, ClientPut, UrlExpires, Delete, RequestDeletion, ConfirmSingleUpload,
          CompleteMultipart, AbortMultipart, Begin, ProviderComplete, VerifyStoredSize,
          ProviderAbort, GiveUp, Confirm, MarkQuarantined, Enqueue, Tombstone, MarkDeleted,
          tableVars, objectVars, leaseVars
    <2>2. \A u \in Uploads : state'[u] = "ready" => state[u] = "ready"
      BY <1>1 DEF ApiNext, ClientPut, UrlExpires, Delete, RequestDeletion, ConfirmSingleUpload,
          CompleteMultipart, AbortMultipart, Begin, ProviderComplete, VerifyStoredSize,
          ProviderAbort, GiveUp, Confirm, MarkQuarantined, SetState, Tombstone, MarkDeleted,
          tableVars, TypeInv, TypeOK, StoreTypeOK, TablesOK
    <2> QED
      BY <1>a, <2>0, <2>1, <2>2
  <1>2. CASE WorkerNext /\ UNCHANGED lifecycleVars
    BY <1>0, <1>2, WorkerKeepsServe DEF lifecycleVars
  <1>3. CASE LifecycleNext /\ UNCHANGED workerVars
    <2>0. UNCHANGED slot
      BY <1>3 DEF workerVars
    <2>1. run \in [Cleaners -> Run] /\ \A c \in Cleaners : RunKeys(c)
      BY DEF TypeInv, TypeOK, LifecycleTypeOK, ServeInv, ObjectInv
    <2>2. ASSUME NEW c \in Cleaners, NEW st, NEW cur, NEW rest,
                 run' = [run EXCEPT ![c] = [step |-> st, current |-> cur, todo |-> rest]],
                 \A candidate \in rest \cup {cur} : \A key \in candidate.keys : key[1] \in delreq,
                 UNCHANGED delreq
          PROVE  \A d \in Cleaners : run'[d] = run[d] \/ RunKeys(d)'
      <3>1. run'[c].todo = rest /\ run'[c].current = cur /\ \A d \in Cleaners \ {c} : run'[d] = run[d]
        BY <2>1, <2>2
      <3>2. RunKeys(c)'
        BY <2>2, <3>1 DEF RunKeys
      <3> QED
        BY <3>1, <3>2
    <2>3. NoCandidate.keys = {} /\ NoRun = [step |-> "none", current |-> NoCandidate, todo |-> {}]
      BY DEF NoCandidate, NoRun
    <2>4. ASSUME NEW c \in Cleaners, NEW S \in SUBSET Uploads, ClaimCleanupBatch(c, S)
          PROVE  ServeInv'
      <3>1. UNCHANGED <<state, derivs, delreq, media, lease>>
        BY <2>4 DEF ClaimCleanupBatch, LeaseCleanup, objectVars, leaseVars
      <3>2. ASSUME NEW u \in S, NEW key \in CandidateOf(u).keys PROVE key[1] \in delreq
        <4>1. Claimable(u) /\ u \in Uploads
          BY <2>4 DEF ClaimCleanupBatch, Batch
        <4>2. key[1] = u /\ derivs[u] # {}
          BY <3>2 DEF CandidateOf
        <4>3. state[u] \in {"ready", "deleted"}
          BY <4>1, <4>2 DEF SourceInv, DigestInv, UploadDigest
        <4> QED
          BY <4>1, <4>2, <4>3 DEF Claimable, GoneState
      <3>3. \A d \in Cleaners : run'[d] = run[d] \/ RunKeys(d)'
        BY <2>2, <2>3, <2>4, <3>1, <3>2 DEF ClaimCleanupBatch
      <3> QED
        BY <1>a, <2>0, <3>1, <3>3
    <2>5. ASSUME NEW c \in Cleaners, NEW candidate \in run[c].todo, NextCandidate(c, candidate)
          PROVE  ServeInv'
      <3>1. UNCHANGED <<state, derivs, delreq, media, lease>>
        BY <2>5 DEF NextCandidate, tableVars, objectVars, leaseVars
      <3>2. \A d \in Cleaners : run'[d] = run[d] \/ RunKeys(d)'
        BY <2>1, <2>2, <2>5, <3>1 DEF NextCandidate, RunKeys
      <3> QED
        BY <1>a, <2>0, <3>1, <3>2
    <2>6. ASSUME NEW c \in Cleaners, AbortSession(c) \/ DeleteRaw(c) \/ StorageFails(c) \/ Killed(c)
          PROVE  ServeInv'
      <3>1. UNCHANGED <<state, derivs, delreq, media, lease>>
        BY <2>6 DEF AbortSession, DeleteRaw, StorageFails, Killed, tableVars, objectVars, leaseVars
      <3>2. PICK st, cur, rest :
              /\ run' = [run EXCEPT ![c] = [step |-> st, current |-> cur, todo |-> rest]]
              /\ rest \in {run[c].todo, {}}
              /\ cur.keys \in {run[c].current.keys, {}}
        <4>1. CASE AbortSession(c)
          <5>1. PICK cur : /\ cur.keys = run[c].current.keys
                           /\ run' = [run EXCEPT ![c] = [step |-> "storage", current |-> cur,
                                                         todo |-> run[c].todo]]
            BY <4>1 DEF AbortSession, Work
          <5> QED
            BY <5>1
        <4>2. CASE DeleteRaw(c) \/ StorageFails(c)
          BY <4>2 DEF DeleteRaw, StorageFails, Work
        <4>3. CASE Killed(c)
          BY <4>3, <2>3 DEF Killed
        <4> QED
          BY <2>6, <4>1, <4>2, <4>3
      <3>3. \A candidate \in rest \cup {cur} : \A key \in candidate.keys : key[1] \in delreq
        BY <2>1, <3>2 DEF RunKeys
      <3>4. \A d \in Cleaners : run'[d] = run[d] \/ RunKeys(d)'
        BY <2>2, <3>1, <3>2, <3>3
      <3> QED
        BY <1>a, <2>0, <3>1, <3>4
    <2>7. ASSUME NEW c \in Cleaners, NEW key \in run[c].current.keys, DeleteDerivative(c, key)
          PROVE  ServeInv'
      <3>1. UNCHANGED <<state, derivs, delreq, lease>> /\ media' = media \ {key}
        BY <2>7 DEF DeleteDerivative, tableVars, leaseVars
      <3>2. key[1] \in delreq
        BY <2>1 DEF RunKeys
      <3>3. \A k \in media : Kept(k[1])' => k \in media'
        BY <3>1, <3>2 DEF Kept
      <3> DEFINE cur == [upload |-> run[c].current.upload, abort |-> FALSE,
                         keys |-> run[c].current.keys \ {key}]
      <3>4. /\ run' = [run EXCEPT ![c] = [step |-> "storage", current |-> cur, todo |-> run[c].todo]]
            /\ cur.keys \subseteq run[c].current.keys
        BY <2>7 DEF DeleteDerivative, Work
      <3> HIDE DEF cur
      <3>5. \A candidate \in run[c].todo \cup {cur} : \A k \in candidate.keys : k[1] \in delreq
        BY <2>1, <3>4 DEF RunKeys
      <3>6. \A d \in Cleaners : run'[d] = run[d] \/ RunKeys(d)'
        BY <2>2, <3>1, <3>4, <3>5
      <3> QED
        BY <1>0, <2>0, <3>1, <3>3, <3>6, ServeFrame
    <2>8. ASSUME NEW c \in Cleaners, FinishCandidate(c) \/ ReleaseCandidate(c) PROVE ServeInv'
      <3>1. UNCHANGED <<derivs, delreq, media, lease>>
        BY <2>8 DEF FinishCandidate, ReleaseCandidate, CleanupSettled, CompleteCleanup, FailCleanup,
                    tableVars, objectVars, leaseVars
      <3>2. \A u \in Uploads : state'[u] = "ready" => state[u] = "ready"
        BY <2>8 DEF FinishCandidate, ReleaseCandidate, CleanupSettled, CompleteCleanup, FailCleanup,
                    SetState, tableVars, TypeInv, TypeOK, StoreTypeOK, TablesOK
      <3>3. PICK st \in {"none", "next"}, rest \in {run[c].todo, {}} :
              run' = [run EXCEPT ![c] = [step |-> st, current |-> NoCandidate, todo |-> rest]]
        BY <2>3, <2>8 DEF FinishCandidate, ReleaseCandidate, CleanupSettled, Work
      <3>4. \A candidate \in rest \cup {NoCandidate} : \A key \in candidate.keys : key[1] \in delreq
        BY <2>1, <2>3, <3>3 DEF RunKeys
      <3>5. \A d \in Cleaners : run'[d] = run[d] \/ RunKeys(d)'
        BY <2>2, <3>1, <3>3, <3>4
      <3> QED
        BY <1>a, <2>0, <3>1, <3>2, <3>5
    <2>9. ASSUME NEW c \in Cleaners, PurgeAndFinish(c) PROVE ServeInv'
      <3>1. UNCHANGED <<delreq, media, lease>>
        BY <2>9 DEF PurgeAndFinish, PurgeTombstones, objectVars
      <3>2. \A u \in Uploads : \/ state'[u] = state[u] /\ derivs'[u] = derivs[u]
                               \/ state'[u] # "ready"
        BY <2>9 DEF PurgeAndFinish, PurgeTombstones
      <3>3. run' = [run EXCEPT ![c] = [step |-> "none", current |-> NoCandidate, todo |-> {}]]
        BY <2>3, <2>9 DEF PurgeAndFinish
      <3>4. \A d \in Cleaners : run'[d] = run[d] \/ RunKeys(d)'
        BY <2>2, <2>3, <3>1, <3>3
      <3> QED
        BY <1>0, <2>0, <3>1, <3>2, <3>4, ServeFrame
    <2> QED
      BY <1>3, <2>4, <2>5, <2>6, <2>7, <2>8, <2>9 DEF LifecycleNext, CleanerStep
  <1>4. CASE TimePasses /\ UNCHANGED <<workerVars, lifecycleVars>>
    BY <1>4, <1>a DEF TimePasses, Age, CleanupDue, workerVars, lifecycleVars, objectVars, leaseVars
  <1>5. CASE UNCHANGED vars
    BY <1>5, <1>a DEF vars, tableVars, objectVars, leaseVars, workerVars, lifecycleVars
  <1> QED
    BY <1>1, <1>2, <1>3, <1>4, <1>5 DEF Next

LEMMA ServeInit ==
  ASSUME Init
  PROVE  ServeInv
  BY DEF Init, StoreInit, WorkerInit, LifecycleInit, Idle, NoRun, NoCandidate, ServeInv,
         ObjectInv, SlotStored, RunKeys, ReadyIsServable

LEMMA ServeInvariant == Spec => []ServeInv
  <1>1. Init => ServeInv
    BY ServeInit
  <1>2. TypeInv /\ SourceInv /\ ServeInv /\ [Next]_vars => ServeInv'
    BY ServeStep
  <1> QED
    BY <1>1, <1>2, TypeInvariant, SourceInvariant, PTL DEF Spec

(* No interleaving of slots, cleanup runs, crashes and failed storage calls
   deletes an object of a ready upload whose deletion nobody requested. *)
THEOREM ReadyServable == Spec => []ReadyIsServable
  <1>1. ServeInv => ReadyIsServable
    BY DEF ServeInv
  <1> QED
    BY <1>1, ServeInvariant, PTL

-----------------------------------------------------------------------------
(* Inventory scans beside the node *)

(* The digest an upload recorded is never replaced. *)
LEMMA DigestStays ==
  ASSUME TypeInv, SourceInv, [Next]_vars
  PROVE  \A u \in Uploads : sha[u] # NoContent => sha'[u] = sha[u]
  <1>1. ASSUME NEW s \in Slots, Start(s)
        PROVE  \A u \in Uploads : sha[u] # NoContent => sha'[u] = sha[u]
    <2>1. \A u \in Uploads : state[u] = "quarantined" => sha[u] = NoContent
      BY DEF SourceInv, DigestInv, UploadDigest
    <2>2. Upload(s) \in Uploads
      BY <1>1, SlotFacts DEF Start
    <2> QED
      BY <1>1, <2>1, <2>2 DEF Start, StartProcessing, tableVars, TypeInv, TypeOK, StoreTypeOK,
                              TablesOK
  <1>2. ASSUME NEW s \in Slots, SlotStep(s) PROVE Start(s) \/ UNCHANGED sha
    BY <1>2 DEF SlotStep, ClaimJob, ReadSource, Inspect, PutMaster, PutThumbnail, PutDerivative,
       Publish, PublishDerivatives, Reject, MarkRejected, CompleteJob, FailJob, Settle, tableVars
  <1>3. CASE WorkerNext
    BY <1>1, <1>2, <1>3 DEF WorkerNext, FailPermanently, FailTransiently, FailOperationally,
       RenewRefused, Crash, Stall, JobDue, tableVars
  <1>4. CASE ApiNext
    BY <1>4 DEF ApiNext, ClientPut, UrlExpires, Delete, RequestDeletion, ConfirmSingleUpload,
       CompleteMultipart, AbortMultipart, Begin, ProviderComplete, VerifyStoredSize, Confirm,
       MarkQuarantined, ProviderAbort, GiveUp, Tombstone, MarkDeleted, tableVars
  <1>5. CASE LifecycleNext
    BY <1>5 DEF LifecycleNext, CleanerStep, ClaimCleanupBatch, LeaseCleanup, NextCandidate,
       AbortSession, DeleteDerivative, DeleteRaw, StorageFails, FinishCandidate, ReleaseCandidate,
       CleanupSettled, CompleteCleanup, FailCleanup, PurgeAndFinish, PurgeTombstones, Killed,
       tableVars
  <1>6. CASE TimePasses
    BY <1>6 DEF TimePasses, Age, CleanupDue
  <1>7. CASE UNCHANGED vars
    BY <1>7 DEF vars, tableVars
  <1> QED
    BY <1>3, <1>4, <1>5, <1>6, <1>7 DEF Next

(* A key of a derivative made from the digest its upload recorded *)
Derived(key) == key \in Keys /\ key[2] = sha[key[1]]

(* What a scan may rely on.  Its keys are of the bucket it lists; a source it is
   about to delete belongs to an upload that is gone.  Where the grace period
   outlasts the jobs, the uploads of the derivatives it may delete are decided,
   and the one of the derivative it is about to delete is lost. *)
ScanOK(r) ==
    /\ {"step", "ns", "from", "keys"} \subseteq DOMAIN r
    /\ r.ns \in Namespace
    /\ r.ns = "raw" =>
         /\ r.keys \subseteq Uploads
         /\ r.step = "delete" =>
              \A u \in r.keys : RawRank[u] = r.from => state[u] \in GoneState
    /\ r.ns = "derivative" =>
         /\ \A key \in r.keys : Derived(key)
         /\ GraceOutlastsJobs /\ r.step \in {"prune", "delete", "record"} =>
              \A key \in r.keys : state[key[1]] \in DecidedState
         /\ GraceOutlastsJobs /\ r.step = "delete" =>
              \A key \in r.keys : MediaRank[key] = r.from => state[key[1]] \in LostState

ScansOK == DOMAIN scan = Scanners /\ \A i \in Scanners : ScanOK(scan[i])

(* Suspects were stored, and suspicions that outlive the grace period are of
   decided uploads. *)
SuspectsOK ==
    /\ DOMAIN suspects = Namespace /\ DOMAIN graced = Namespace
    /\ \A key \in suspects["derivative"] \cup graced["derivative"] : Derived(key)
    /\ GraceOutlastsJobs => \A key \in graced["derivative"] : state[key[1]] \in DecidedState

ScanInv == ScansOK /\ SuspectsOK

LEMMA ScanMove ==
  ASSUME ScansOK, UNCHANGED <<state, sha>>, NEW i \in Scanners, NEW r, ScanOK(r),
         scan' = [scan EXCEPT ![i] = r]
  PROVE  ScansOK'
  <1>1. \A k \in Scanners : scan'[k] = IF k = i THEN r ELSE scan[k]
    BY DEF ScansOK
  <1>2. \A k \in Scanners : ScanOK(scan[k])
    BY DEF ScansOK
  <1>3. ASSUME NEW k \in Scanners PROVE ScanOK(scan[k])'
    <2>1. PICK q : q = scan'[k]
      OBVIOUS
    <2>2. ScanOK(q)
      BY <1>1, <1>2, <2>1
    <2> QED
      BY <2>1, <2>2 DEF ScanOK, Derived
  <1> QED
    BY <1>3 DEF ScansOK

LEMMA ScanKeepsScans ==
  ASSUME TypeInv, SourceInv, ScanInv, InventoryNext
  PROVE  UNCHANGED <<tableVars, leaseVars>> /\ ScansOK'
  <1>0. ASSUME NEW i \in Scanners PROVE ScanOK(scan[i])
    BY DEF ScanInv, ScansOK
  <1>n. ScanOK(NoScan)
    BY DEF ScanOK, NoScan, Namespace
  <1>s. UNCHANGED <<tableVars, leaseVars>>
    BY DEF InventoryNext, PageStep, BeginScan, ListPage, ReconcilePage, Recheck, DeleteOrphan,
       RecordDeletion, SaveCursor, DeleteFails, ScanKilled
  <1>m. ASSUME NEW i \in Scanners, NEW r, ScanOK(r), scan' = [scan EXCEPT ![i] = r]
        PROVE  ScansOK'
    BY <1>s, <1>m, ScanMove DEF ScanInv, tableVars
  <1>1. ASSUME NEW i \in Scanners, NEW prune \in Modes, BeginScan(i, prune) PROVE ScansOK'
    <2>1. PICK r : r = [NoScan EXCEPT !.step = "list", !.prune = prune, !.from = cursor["raw"]]
      OBVIOUS
    <2>2. ScanOK(r)
      BY <2>1 DEF ScanOK, NoScan, Namespace
    <2>3. scan' = [scan EXCEPT ![i] = r]
      BY <1>1, <2>1 DEF BeginScan
    <2> QED
      BY <2>2, <2>3, <1>m
  <1>2. ASSUME NEW i \in Scanners, NEW page \in SUBSET KeysIn(scan[i].ns), ListPage(i, page)
        PROVE  ScansOK'
    <2>1. PICK r : r = [scan[i] EXCEPT !.step = "reconcile", !.keys = page,
                          !.pages = scan[i].pages + 1,
                          !.next = NextCursor(scan[i].ns, scan[i].from, page)]
      OBVIOUS
    <2>2. /\ {"step", "ns", "from", "keys"} \subseteq DOMAIN r /\ r.ns = scan[i].ns
          /\ r.keys = page /\ r.step = "reconcile"
      BY <1>0, <2>1 DEF ScanOK
    <2>3. ASSUME scan[i].ns = "derivative", NEW key \in page PROVE Derived(key)
      <3>1. key \in media
        BY <1>2, <2>3 DEF ListPage, Listing, After, Stored
      <3> QED
        BY <3>1 DEF Derived, TypeInv, TypeOK, StoreTypeOK, ObjectsOK, SourceInv, OneSourcePublished
    <2>4. ScanOK(r)
      BY <1>0, <2>2, <2>3 DEF ScanOK, KeysIn
    <2>5. scan' = [scan EXCEPT ![i] = r]
      BY <1>2, <2>1 DEF ListPage
    <2> QED
      BY <2>4, <2>5, <1>m
  (* The keys a scan goes on with are among those it had. *)
  <1>c. ASSUME NEW i \in Scanners, NEW step, NEW keys \in SUBSET scan[i].keys,
               Continue(i, step, keys), step # "delete",
               \/ scan[i].step \in {"prune", "delete", "record"} \/ step = "save"
               \/ scan[i].ns = "derivative" => keys \subseteq graced["derivative"]
        PROVE  ScansOK'
    <2>1. PICK r : r = [scan[i] EXCEPT !.step = step, !.keys = keys]
      OBVIOUS
    <2>2. /\ {"step", "ns", "from", "keys"} \subseteq DOMAIN r /\ r.ns = scan[i].ns
          /\ r.keys = keys /\ r.step = step
      BY <1>0, <2>1 DEF ScanOK
    <2>3. GraceOutlastsJobs => \A key \in graced["derivative"] : state[key[1]] \in DecidedState
      BY DEF ScanInv, SuspectsOK
    <2>4. ScanOK(r)
      BY <1>0, <1>c, <2>2, <2>3 DEF ScanOK
    <2>5. scan' = [scan EXCEPT ![i] = r]
      BY <1>c, <2>1 DEF Continue
    <2> QED
      BY <2>4, <2>5, <1>m
  <1>e. ASSUME NEW i \in Scanners, End(i) PROVE ScansOK'
    BY <1>e, <1>n, <1>m DEF End
  <1>3. ASSUME NEW i \in Scanners, ReconcilePage(i) PROVE ScansOK'
    BY <1>3, <1>c DEF ReconcilePage
  <1>4. ASSUME NEW i \in Scanners, NEW key \in scan[i].keys, Recheck(i, key) PROVE ScansOK'
    <2>0. scan[i].step = "prune"
      BY <1>4 DEF Recheck
    <2>1. CASE Continue(i, "prune", scan[i].keys \ {key})
      BY <1>c, <2>0, <2>1
    <2>2. CASE /\ ~Known(scan[i].ns, key)
               /\ scan' = [scan EXCEPT ![i] = [scan[i] EXCEPT !.step = "delete",
                                                              !.from = Rank(scan[i].ns, key)]]
      <3>1. PICK r : r = [scan[i] EXCEPT !.step = "delete", !.from = Rank(scan[i].ns, key)]
        OBVIOUS
      <3>2. /\ {"step", "ns", "from", "keys"} \subseteq DOMAIN r /\ r.step = "delete"
            /\ r.ns = scan[i].ns /\ r.keys = scan[i].keys /\ r.from = Rank(scan[i].ns, key)
        BY <1>0, <3>1 DEF ScanOK
      <3>3. ASSUME scan[i].ns = "raw"
            PROVE  /\ scan[i].keys \subseteq Uploads /\ state[key] \in GoneState
                   /\ \A u \in scan[i].keys : RawRank[u] = Rank(scan[i].ns, key) => u = key
        <4>1. scan[i].keys \subseteq Uploads /\ state[key] \in GoneState
          BY <1>0, <2>2, <3>3 DEF ScanOK, Known
        <4> QED
          BY <3>3, <4>1, InventoryAssumption DEF Rank
      <3>4. ASSUME scan[i].ns = "derivative"
            PROVE  /\ GraceOutlastsJobs => state[key[1]] \in LostState
                   /\ \A k \in scan[i].keys : MediaRank[k] = Rank(scan[i].ns, key) => k = key
        <4>1. \A k \in scan[i].keys : Derived(k)
          BY <1>0, <3>4 DEF ScanOK
        <4>2. \A k \in scan[i].keys : MediaRank[k] = Rank(scan[i].ns, key) => k = key
          BY <3>4, <4>1, InventoryAssumption DEF Rank, Derived
        <4>3. ASSUME GraceOutlastsJobs, state[key[1]] \notin LostState PROVE FALSE
          <5>1. state[key[1]] = "ready"
            BY <1>0, <2>0, <3>4, <4>3 DEF ScanOK, DecidedState, LostState, GoneState
          <5>2. key[1] \in Uploads /\ key[2] = sha[key[1]] /\ key[3] \in Variants
            BY <4>1 DEF Derived, Keys
          <5>3. derivs[key[1]] = {sha[key[1]]} \X Variants
            BY <5>1, <5>2 DEF SourceInv, OneSourcePublished
          <5>4. <<key[2], key[3]>> \in derivs[key[1]]
            BY <5>2, <5>3
          <5> QED
            BY <2>2, <3>4, <5>1, <5>4 DEF Known, GoneState
        <4> QED
          BY <4>2, <4>3
      <3>5. ScanOK(r)
        BY <1>0, <2>0, <3>2, <3>3, <3>4 DEF ScanOK
      <3> QED
        BY <2>2, <3>1, <3>5, <1>m
    <2> QED
      BY <1>4, <2>1, <2>2 DEF Recheck
  <1>5. ASSUME NEW i \in Scanners, NEW key \in scan[i].keys, DeleteOrphan(i, key) PROVE ScansOK'
    BY <1>5, <1>c DEF DeleteOrphan
  <1>6. ASSUME NEW i \in Scanners, NEW key \in scan[i].keys, RecordDeletion(i, key) PROVE ScansOK'
    BY <1>6, <1>c, <1>e DEF RecordDeletion
  <1>7. ASSUME NEW i \in Scanners, SaveCursor(i) PROVE ScansOK'
    <2>1. ASSUME scan' = [scan EXCEPT ![i] = [scan[i] EXCEPT !.step = "list",
                                                             !.from = scan[i].next]]
          PROVE  ScansOK'
      <3>1. PICK r : r = [scan[i] EXCEPT !.step = "list", !.from = scan[i].next]
        OBVIOUS
      <3>2. ScanOK(r)
        BY <1>0, <3>1 DEF ScanOK
      <3> QED
        BY <2>1, <3>1, <3>2, <1>m
    <2>2. ASSUME scan' = [scan EXCEPT ![i] = [NoScan EXCEPT !.step = "list", !.ns = "derivative",
                                                !.prune = scan[i].prune,
                                                !.from = cursor["derivative"]]]
          PROVE  ScansOK'
      <3>1. PICK r : r = [NoScan EXCEPT !.step = "list", !.ns = "derivative",
                            !.prune = scan[i].prune, !.from = cursor["derivative"]]
        OBVIOUS
      <3>2. ScanOK(r)
        BY <3>1 DEF ScanOK, NoScan, Namespace
      <3> QED
        BY <2>2, <3>1, <3>2, <1>m
    <2> QED
      BY <1>7, <1>e, <2>1, <2>2 DEF SaveCursor
  <1>8. ASSUME NEW i \in Scanners, NEW key \in scan[i].keys, DeleteFails(i, key) PROVE ScansOK'
    BY <1>8, <1>c, <1>e DEF DeleteFails
  <1>9. ASSUME NEW i \in Scanners, ScanKilled(i) PROVE ScansOK'
    BY <1>9, <1>e DEF ScanKilled
  <1> QED
    BY <1>s, <1>1, <1>2, <1>3, <1>4, <1>5, <1>6, <1>7, <1>8, <1>9 DEF InventoryNext, PageStep

LEMMA ScanKeepsSuspects ==
  ASSUME TypeInv, SourceInv, ScanInv, InventoryNext
  PROVE  SuspectsOK'
  <1>0. UNCHANGED <<state, sha>>
    BY ScanKeepsScans DEF tableVars
  <1>1. DOMAIN suspects = Namespace /\ DOMAIN graced = Namespace
    BY DEF ScanInv, SuspectsOK
  <1>a. ASSUME DOMAIN suspects' = Namespace, DOMAIN graced' = Namespace,
               graced'["derivative"] \subseteq graced["derivative"],
               \A key \in suspects'["derivative"] : key \in suspects["derivative"] \/ Derived(key)
        PROVE  SuspectsOK'
    BY <1>0, <1>a DEF ScanInv, SuspectsOK, Derived
  <1>f. ASSUME NEW ns \in Namespace, NEW keys, Forget(ns, keys) PROVE SuspectsOK'
    BY <1>1, <1>a, <1>f DEF Forget, Namespace
  <1>2. ASSUME NEW i \in Scanners, ReconcilePage(i) PROVE SuspectsOK'
    <2>1. ScanOK(scan[i])
      BY DEF ScanInv, ScansOK
    <2>2. PICK owned \in SUBSET scan[i].keys :
            /\ suspects' = [suspects EXCEPT ![scan[i].ns] = (@ \ owned) \cup (scan[i].keys \ owned)]
            /\ graced' = [graced EXCEPT ![scan[i].ns] = @ \ owned]
      BY <1>2 DEF ReconcilePage
    <2> QED
      BY <1>1, <1>a, <2>1, <2>2 DEF ScanOK, Namespace
  <1>3. ASSUME NEW i \in Scanners, NEW key \in scan[i].keys,
               Recheck(i, key) \/ RecordDeletion(i, key)
        PROVE  SuspectsOK'
    <2>1. scan[i].ns \in Namespace
      BY DEF ScanInv, ScansOK, ScanOK
    <2> QED
      BY <1>1, <1>3, <1>a, <1>f, <2>1 DEF Recheck, RecordDeletion
  <1> QED
    BY <1>1, <1>2, <1>3, <1>a
    DEF InventoryNext, PageStep, BeginScan, ListPage, DeleteOrphan, SaveCursor, DeleteFails,
        ScanKilled

(* A scan deletes what it checked, and nothing else of the node changes. *)
LEMMA ScanKeepsNode ==
  ASSUME TypeInv, JobInv, SourceInv, ScanInv, InventoryNext,
         UNCHANGED <<apiVars, workerVars, lifecycleVars>>
  PROVE  TypeInv' /\ JobInv' /\ SourceInv' /\ (GraceOutlastsJobs /\ ServeInv => ServeInv')
  <1>1. UNCHANGED <<tableVars, leaseVars>>
    BY ScanKeepsScans
  <1>2. UNCHANGED <<state, sha, derivs, delreq, job, lease, slot, run>>
    BY <1>1 DEF tableVars, leaseVars, workerVars, lifecycleVars
  <1>3. CASE UNCHANGED objectVars
    BY <1>1, <1>3 DEF TypeInv, TypeOK, StoreTypeOK, TablesOK, ObjectsOK, LeaseTypeOK, ApiTypeOK,
       WorkerTypeOK, LifecycleTypeOK, BusyInv, JobInv, SlotInv, AttemptsInv, SettleInv,
       NoEarlyJob, JobsMatchUploads, Owns, SourceInv, DigestInv, UploadDigest, SlotDigest,
       OneSourcePublished, ServeInv, ObjectInv, SlotStored, Kept, RunKeys, ReadyIsServable,
       tableVars, objectVars, leaseVars, apiVars, workerVars, lifecycleVars
  <1>4. ASSUME NEW i \in Scanners, NEW key \in scan[i].keys, DeleteOrphan(i, key)
        PROVE  /\ TypeInv' /\ JobInv' /\ SourceInv'
               /\ GraceOutlastsJobs /\ ServeInv => ServeInv'
    <2>0. ScanOK(scan[i]) /\ ObjectsOK /\ NoContent \in Digests
      BY DEF ScanInv, ScansOK, TypeInv, TypeOK, StoreTypeOK, Digests
    <2>1. ObjectsOK' /\ media' \subseteq media
      BY <1>4, <2>0 DEF DeleteOrphan, ObjectsOK
    <2>2. TypeInv'
      BY <1>1, <2>1 DEF TypeInv, TypeOK, StoreTypeOK, TablesOK, LeaseTypeOK, ApiTypeOK,
         WorkerTypeOK, LifecycleTypeOK, BusyInv, tableVars, leaseVars, apiVars, workerVars,
         lifecycleVars
    <2>3. JobInv'
      BY <1>2 DEF JobInv, SlotInv, AttemptsInv, SettleInv, NoEarlyJob, JobsMatchUploads, Owns
    <2>4. SourceInv'
      BY <1>2, <2>1, SlotKeepsSource
    <2>5. ASSUME GraceOutlastsJobs, ServeInv PROVE ServeInv'
      <3>1. ASSUME NEW k \in media, k \notin media' PROVE ~Kept(k[1])'
        <4>1. scan[i].ns = "derivative" /\ k = key /\ MediaRank[key] = scan[i].from
                /\ scan[i].step = "delete"
          BY <1>4, <2>0, <3>1 DEF DeleteOrphan, Checked, Rank, ScanOK, Namespace
        <4>2. state[k[1]] \in LostState
          BY <2>0, <2>5, <4>1 DEF ScanOK
        <4> QED
          BY <1>2, <4>2 DEF Kept
      <3>2. Monotone
        BY <1>2 DEF Monotone
      <3> QED
        BY <1>2, <2>5, <3>1, <3>2, ServeFrame
    <2> QED
      BY <2>2, <2>3, <2>4, <2>5
  <1> QED
    BY <1>3, <1>4 DEF InventoryNext, PageStep, BeginScan, ListPage, ReconcilePage, Recheck,
       RecordDeletion, SaveCursor, DeleteFails, ScanKilled

LEMMA NodeKeepsScan ==
  ASSUME TypeInv, SourceInv, ScanInv, [Next]_vars, UNCHANGED inventoryVars
  PROVE  ScanInv'
  <1>1. \A u \in Uploads : /\ state[u] \in GoneState => state'[u] \in GoneState
                           /\ state[u] \in DecidedState => state'[u] \in DecidedState
                           /\ state[u] \in LostState => state'[u] \in LostState
    BY StateMonotone DEF Monotone
  <1>2. UNCHANGED <<scan, suspects, graced>>
    BY DEF inventoryVars
  <1>3. ASSUME NEW key, Derived(key)
        PROVE  /\ Derived(key)'
               /\ state[key[1]] \in DecidedState => state'[key[1]] \in DecidedState
               /\ state[key[1]] \in LostState => state'[key[1]] \in LostState
    <2>1. key \in Keys /\ key[1] \in Uploads /\ key[2] \in Contents
      BY <1>3 DEF Derived, Keys
    <2>2. sha'[key[1]] = sha[key[1]]
      BY <1>3, <2>1, DigestStays, StoreAssumption DEF Derived
    <2> QED
      BY <1>1, <1>3, <2>1, <2>2 DEF Derived
  <1>4. ASSUME NEW i \in Scanners PROVE ScanOK(scan[i])'
    <2>1. PICK r : r = scan[i]
      OBVIOUS
    <2>2. ScanOK(r)
      BY <2>1 DEF ScanInv, ScansOK
    <2>3. /\ r.ns = "raw" => /\ r.keys \subseteq Uploads
                             /\ r.step = "delete" => \A u \in r.keys : RawRank[u] = r.from =>
                                                       state'[u] \in GoneState
      BY <1>1, <2>2 DEF ScanOK
    <2>4. r.ns = "derivative" =>
            /\ \A key \in r.keys : Derived(key)'
            /\ GraceOutlastsJobs /\ r.step \in {"prune", "delete", "record"} =>
                 \A key \in r.keys : state'[key[1]] \in DecidedState
            /\ GraceOutlastsJobs /\ r.step = "delete" =>
                 \A key \in r.keys : MediaRank[key] = r.from => state'[key[1]] \in LostState
      BY <1>3, <2>2 DEF ScanOK
    <2> QED
      BY <1>2, <2>1, <2>2, <2>3, <2>4 DEF ScanOK
  <1>5. SuspectsOK'
    BY <1>2, <1>3 DEF ScanInv, SuspectsOK
  <1> QED
    BY <1>2, <1>4, <1>5 DEF ScanInv, ScansOK

NodeInv ==
    /\ TypeInv /\ JobInv /\ SourceInv /\ ScanInv
    /\ GraceOutlastsJobs => ServeInv

LEMMA NodeInvStep ==
  ASSUME NodeInv, [InventoryNodeNext]_nodeVars
  PROVE  NodeInv'
  <1> USE DEF NodeInv
  <1>1. ASSUME [Next]_vars PROVE TypeInv' /\ JobInv' /\ SourceInv' /\ (ServeInv => ServeInv')
    BY <1>1, TypeStep, JobStep, SourceStep, ServeStep
  <1>2. CASE [Next]_vars /\ UNCHANGED inventoryVars
    BY <1>1, <1>2, NodeKeepsScan
  <1>3. CASE InventoryNext /\ UNCHANGED <<apiVars, workerVars, lifecycleVars>>
    BY <1>3, ScanKeepsScans, ScanKeepsSuspects, ScanKeepsNode DEF ScanInv
  <1>4. ASSUME NEW ns \in Namespace, NEW key \in suspects[ns], GraceEnds(ns, key)
        PROVE  NodeInv'
    <2>1. UNCHANGED vars
      BY <1>4 DEF GraceEnds, GracePasses, vars
    <2>2. UNCHANGED <<state, sha, scan, suspects>> /\ graced' = [graced EXCEPT ![ns] = @ \cup {key}]
      BY <1>4, <2>1 DEF GraceEnds, GracePasses, vars, tableVars
    <2>3. ScansOK'
      BY <2>2 DEF ScanInv, ScansOK, ScanOK, Derived
    <2>4. ASSUME ns = "derivative" PROVE Derived(key) /\ (GraceOutlastsJobs => state[key[1]] \in DecidedState)
      <3>1. Derived(key) /\ key[1] \in Uploads /\ sha[key[1]] # NoContent
        BY <2>4, StoreAssumption DEF ScanInv, SuspectsOK, Derived, Keys
      <3>2. state[key[1]] \in RowState /\ state[key[1]] # "created"
        BY <3>1 DEF TypeInv, TypeOK, StoreTypeOK, TablesOK, SourceInv, DigestInv, UploadDigest
      <3>3. GraceOutlastsJobs => state[key[1]] \notin UndecidedState
        BY <1>4, <2>4 DEF GraceEnds, OwnerOf
      <3> QED
        BY <3>1, <3>2, <3>3 DEF RowState, UndecidedState, DecidedState, GoneState
    <2>5. SuspectsOK'
      BY <2>2, <2>4 DEF ScanInv, SuspectsOK, Derived, Namespace
    <2> QED
      BY <1>1, <2>1, <2>3, <2>5 DEF ScanInv
  <1>5. UNCHANGED nodeVars => UNCHANGED <<vars, inventoryVars>>
    BY DEF nodeVars
  <1> QED
    BY <1>2, <1>3, <1>4, <1>5 DEF InventoryNodeNext

LEMMA NodeInvariant == InventoryNodeSpec => []NodeInv
  <1>1. InventoryNodeInit => NodeInv
    <2> SUFFICES ASSUME InventoryNodeInit PROVE NodeInv
      OBVIOUS
    <2>1. TypeInv /\ JobInv /\ SourceInv /\ ServeInv
      BY TypeInit, JobInit, SourceInit, ServeInit DEF InventoryNodeInit
    <2>2. ScanInv
      BY DEF InventoryNodeInit, InventoryInit, ScanInv, ScansOK, SuspectsOK, ScanOK, NoScan,
             Namespace
    <2> QED
      BY <2>1, <2>2 DEF NodeInv
  <1>2. NodeInv /\ [InventoryNodeNext]_nodeVars => NodeInv'
    BY NodeInvStep
  <1> QED
    BY <1>1, <1>2, PTL DEF InventoryNodeSpec

(* Whatever a prune scan overlaps with, a source of an upload that still has a
   row is removed by cleanup or not at all. *)
THEOREM SourcesSurvivePruning == InventoryNodeSpec => PruneLeavesSources
  <1> DEFINE A == \A u \in Uploads : raw[u] # NoContent /\ raw'[u] = NoContent
                    => state[u] \in GoneState \/ lifecycleVars' # lifecycleVars
  <1>1. ASSUME NodeInv, [InventoryNodeNext]_nodeVars PROVE A
    <2> SUFFICES ASSUME NEW u \in Uploads, raw[u] # NoContent, raw'[u] = NoContent,
                        lifecycleVars' = lifecycleVars
                 PROVE  state[u] \in GoneState
      OBVIOUS
    <2>0. /\ raw \in [Uploads -> Digests] /\ NoContent \notin Contents
      BY <1>1, StoreAssumption DEF NodeInv, TypeInv, TypeOK, StoreTypeOK, ObjectsOK
    <2>1. raw' # raw
      OBVIOUS
    <2>2. ASSUME NEW v, NEW content \in Contents, raw' = [raw EXCEPT ![v] = content] PROVE FALSE
      BY <2>0, <2>2
    <2>3. ASSUME NEW c \in Cleaners, DeleteRaw(c) PROVE FALSE
      <3>1. run[c] \in Run /\ run[c].step = "storage" /\ run' = [run EXCEPT ![c] =
               [step |-> "complete", current |-> run[c].current, todo |-> run[c].todo]]
        BY <1>1, <2>3 DEF DeleteRaw, Work, NodeInv, TypeInv, TypeOK, LifecycleTypeOK
      <3>2. run'[c].step = "complete"
        BY <1>1, <3>1 DEF NodeInv, TypeInv, TypeOK, LifecycleTypeOK
      <3> QED
        BY <3>1, <3>2 DEF lifecycleVars
    <2>4. CASE Next
      <3>1. CASE ApiNext
        BY <2>1, <2>2, <3>1
        DEF ApiNext, ClientPut, UrlExpires, Delete, RequestDeletion, ConfirmSingleUpload,
            CompleteMultipart, AbortMultipart, Begin, ProviderComplete, VerifyStoredSize, Confirm,
            ProviderAbort, GiveUp, Tombstone, objectVars
      <3>2. CASE WorkerNext
        BY <2>1, <3>2
        DEF WorkerNext, SlotStep, ClaimJob, ReadSource, Inspect, Start, PutMaster, PutThumbnail,
            PutDerivative, Publish, Reject, CompleteJob, FailJob, Settle, FailPermanently,
            FailTransiently, FailOperationally, RenewRefused, Crash, Stall, JobDue, objectVars
      <3>3. CASE LifecycleNext
        BY <2>1, <2>3, <3>3
        DEF LifecycleNext, CleanerStep, ClaimCleanupBatch, NextCandidate, AbortSession,
            DeleteDerivative, StorageFails, FinishCandidate, ReleaseCandidate, CleanupSettled,
            PurgeAndFinish, Killed, objectVars
      <3>4. CASE TimePasses
        BY <2>1, <3>4 DEF TimePasses, Age, CleanupDue, objectVars
      <3> QED
        BY <2>4, <3>1, <3>2, <3>3, <3>4 DEF Next
    <2>5. CASE InventoryNext
      <3>1. PICK i \in Scanners : \E key \in scan[i].keys : DeleteOrphan(i, key)
        BY <2>1, <2>5
        DEF InventoryNext, PageStep, BeginScan, ListPage, ReconcilePage, Recheck,
            RecordDeletion, SaveCursor, DeleteFails, ScanKilled, objectVars
      <3>2. PICK key \in scan[i].keys : DeleteOrphan(i, key)
        BY <3>1
      <3>3. scan[i].ns = "raw" /\ raw' = [raw EXCEPT ![key] = NoContent]
        BY <2>1, <3>2 DEF DeleteOrphan
      <3>4. key = u
        BY <2>0, <3>3
      <3>5. ScanOK(scan[i])
        BY <1>1 DEF NodeInv, ScanInv, ScansOK
      <3> QED
        BY <3>2, <3>3, <3>4, <3>5 DEF ScanOK, DeleteOrphan, Checked, Rank
    <2>6. ASSUME NEW ns \in Namespace, NEW key \in suspects[ns], GraceEnds(ns, key) PROVE FALSE
      BY <2>1, <2>6 DEF GraceEnds, GracePasses, objectVars
    <2>7. CASE UNCHANGED nodeVars
      BY <2>1, <2>7 DEF nodeVars, vars, objectVars
    <2> QED
      BY <1>1, <2>4, <2>5, <2>6, <2>7 DEF InventoryNodeNext
  <1>2. NodeInv /\ [InventoryNodeNext]_nodeVars => [A]_nodeVars
    BY <1>1
  <1> QED
    BY <1>2, NodeInvariant, PTL DEF InventoryNodeSpec, PruneLeavesSources

(* Prune scans that overlap with slots, cleanup runs and each other delete no
   object of a ready upload, where no upload stays undecided for as long as the
   grace period: a suspicion that outlives it is of an upload whose rows are
   final, and the last look at the tables finds them. *)
THEOREM PruningKeepsServable ==
  ASSUME GraceOutlastsJobs
  PROVE  InventoryNodeSpec => []ReadyIsServable
  <1>1. NodeInv => ReadyIsServable
    BY DEF NodeInv, ServeInv
  <1> QED
    BY <1>1, NodeInvariant, PTL

(* Prune scans change nothing that the node decides: a scan writes no row of an upload or a job, so that with
   any number of scanners under way the uploads still go through the domain's states. *)
THEOREM ScansKeepLifecycle == InventoryNodeSpec => ImplementsLifecycle
  <1>1. InventoryNodeInit => Abstract!LifecycleInit
    BY DEF InventoryNodeInit, Init, StoreInit, Abstract!LifecycleInit
  <1>2. ASSUME NodeInv, [InventoryNodeNext]_nodeVars
        PROVE  [Abstract!LifecycleNext]_state
    <2>1. CASE [Next]_vars
      BY <1>2, <2>1, StateStep DEF NodeInv
    <2>2. CASE InventoryNext /\ UNCHANGED <<apiVars, workerVars, lifecycleVars>>
      <3>1. UNCHANGED state
        BY <1>2, <2>2, ScanKeepsScans DEF NodeInv, tableVars
      <3> QED
        BY <3>1
    <2>3. ASSUME NEW ns \in Namespace, NEW key \in suspects[ns], GraceEnds(ns, key)
          PROVE  UNCHANGED vars
      BY <2>3 DEF GraceEnds, GracePasses, vars
    <2> QED
      BY <1>2, <2>1, <2>2, <2>3 DEF InventoryNodeNext, nodeVars
  <1> QED
    BY <1>1, <1>2, NodeInvariant, PTL
    DEF InventoryNodeSpec, ImplementsLifecycle, Abstract!LifecycleSpec

(* Nor does deleting an orphan undo what slots and the queue agreed on: with scans under
   way an upload that is not decided still has its job, its derivatives still come from one
   source, and no derivative object of another source is stored. *)
THEOREM ScansKeepJobsAndSources ==
  InventoryNodeSpec => [](TypeOK /\ JobsMatchUploads /\ OneSourcePublished)
  <1>1. NodeInv => TypeOK /\ JobsMatchUploads /\ OneSourcePublished
    BY DEF NodeInv, TypeInv, JobInv, SourceInv
  <1> QED
    BY <1>1, NodeInvariant, PTL
=============================================================================
