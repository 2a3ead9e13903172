---------------------------- MODULE ResourceGates ----------------------------
(***************************************************************************)
(* The semaphores of one worker process.  A slot first takes permits for   *)
(* the temporary disk its job may need, keeps them, and, once the source   *)
(* was downloaded and inspected, waits for a permit of the lane of heavy   *)
(* images or of videos.  The semaphores serve their waiters in order.  The *)
(* error of one slot ends the process and with it every wait.              *)
(***************************************************************************)
EXTENDS Naturals, Sequences, FiniteSetsExt

CONSTANTS
    Slots,
    Policies,       \* configurations: [disk, image, video, heavy, videos]
    Sizes,          \* lengths of sources
    Watermark,      \* MAX_WATERMARK_BYTES
    Unit            \* TEMP_DISK_PERMIT_BYTES

GatesAssumption ==
    /\ IsFiniteSet(Slots) /\ Sizes \subseteq Nat /\ Watermark \in Nat /\ Unit \in Nat \ {0}
    /\ Policies \subseteq [disk : Nat, image : Nat, video : Nat, heavy : Nat, videos : Nat]

Lanes == {"heavy", "video"}

Kinds == {"light"} \cup Lanes

VARIABLES
    policy, state,  \* the worker's policy; "new", "running" or "refused"
    disk, lane,     \* free permits
    diskq, laneq,   \* waiters, in the order they came
    slot            \* per slot: step, kind and length of its source

vars == <<policy, state, disk, lane, diskq, laneq, slot>>

Idle == [step |-> "idle", kind |-> "light", bytes |-> 0]

Init ==
    /\ policy \in Policies /\ state = "new"
    /\ disk = 0 /\ lane = [l \in Lanes |-> 0]
    /\ diskq = << >> /\ laneq = [l \in Lanes |-> << >>]
    /\ slot = [s \in Slots |-> Idle]

temp_disk_permits_Floor(bytes) == bytes \div Unit

temp_disk_permits(bytes) == (bytes + Unit - 1) \div Unit

required_temp_disk_bytes == 2 * policy.image + Max({policy.image, policy.video}) + Watermark

(* WorkerPolicy.validate, as far as the gates go *)
validate ==
    /\ policy.heavy > 0 /\ policy.videos > 0 /\ policy.image > 0 /\ policy.video > 0
    /\ policy.disk >= required_temp_disk_bytes

(* SourceValidationWorker::new *)
Start ==
    /\ state = "new"
    /\ IF validate
         THEN /\ state' = "running" /\ disk' = temp_disk_permits(policy.disk)
              /\ lane' = [heavy |-> policy.heavy, video |-> policy.videos]
         ELSE state' = "refused" /\ UNCHANGED <<disk, lane>>
    /\ UNCHANGED <<policy, diskq, laneq, slot>>

MaxLength(kind) == IF kind = "video" THEN policy.video ELSE policy.image

(* A claimed job; a source that is too long is rejected at once *)
Take(s) ==
    /\ state = "running" /\ slot[s].step = "idle"
    /\ \E kind \in Kinds, bytes \in Sizes :
         /\ bytes <= MaxLength(kind)
         /\ slot' = [slot EXCEPT ![s] = [step |-> "disk", kind |-> kind, bytes |-> bytes]]
    /\ diskq' = Append(diskq, s)
    /\ UNCHANGED <<policy, state, disk, lane, laneq>>

Reservation(s) == slot[s].bytes + 2 * policy.image + Watermark

Need(s) == temp_disk_permits(Reservation(s))

AcquireDisk_AnyOrder(s) ==
    /\ slot[s].step = "disk" /\ Need(s) <= disk
    /\ disk' = disk - Need(s)
    /\ diskq' = SelectSeq(diskq, LAMBDA t : t # s)
    /\ slot' = [slot EXCEPT ![s].step = "inspect"]
    /\ UNCHANGED <<policy, state, lane, laneq>>

(* acquire_temp_disk_permit *)
AcquireDisk(s) ==
    /\ diskq # << >> /\ Head(diskq) = s /\ Need(s) <= disk
    /\ disk' = disk - Need(s) /\ diskq' = Tail(diskq)
    /\ slot' = [slot EXCEPT ![s].step = "inspect"]
    /\ UNCHANGED <<policy, state, lane, laneq>>

(* Downloaded and inspected: a light image needs no further permit *)
Inspect(s) ==
    LET kind == slot[s].kind IN
    /\ slot[s].step = "inspect"
    /\ slot' = [slot EXCEPT ![s].step = IF kind \in Lanes THEN "lane" ELSE "work"]
    /\ laneq' = IF kind \in Lanes THEN [laneq EXCEPT ![kind] = Append(@, s)] ELSE laneq
    /\ UNCHANGED <<policy, state, disk, lane, diskq>>

(* acquire_transform_permit *)
AcquireLane(s) ==
    LET kind == slot[s].kind IN
    /\ slot[s].step = "lane" /\ Head(laneq[kind]) = s /\ lane[kind] > 0
    /\ lane' = [lane EXCEPT ![kind] = @ - 1]
    /\ laneq' = [laneq EXCEPT ![kind] = Tail(@)]
    /\ slot' = [slot EXCEPT ![s].step = "work"]
    /\ UNCHANGED <<policy, state, disk, diskq>>

(* The job is decided or refused, before or after the transformation: both
   permits are dropped *)
Finish(s) ==
    LET kind == slot[s].kind IN
    /\ slot[s].step \in {"inspect", "work"}
    /\ disk' = disk + Need(s)
    /\ lane' = IF slot[s].step = "work" /\ kind \in Lanes THEN [lane EXCEPT ![kind] = @ + 1] ELSE lane
    /\ slot' = [slot EXCEPT ![s] = Idle]
    /\ UNCHANGED <<policy, state, diskq, laneq>>

(* A WorkerError of a slot ends run(); the service is started again *)
Restart ==
    /\ state = "running" /\ \E s \in Slots : slot[s].step # "idle"
    /\ state' = "new" /\ disk' = 0 /\ lane' = [l \in Lanes |-> 0]
    /\ diskq' = << >> /\ laneq' = [l \in Lanes |-> << >>]
    /\ slot' = [s \in Slots |-> Idle]
    /\ UNCHANGED policy

Progress(s) == AcquireDisk(s) \/ Inspect(s) \/ AcquireLane(s) \/ Finish(s)

Next == Start \/ Restart \/ \E s \in Slots : Take(s) \/ Progress(s)

Spec == Init /\ [][Next]_vars /\ \A s \in Slots : WF_vars(Progress(s))

-----------------------------------------------------------------------------
(* What the running jobs may write to the temporary directory, never reaches
   one unit more than the configured disk. *)
DiskWithinLimit ==
    FoldSet(LAMBDA s, sum : Reservation(s) + sum, 0,
            {s \in Slots : slot[s].step \in {"inspect", "lane", "work"}})
      < policy.disk + Unit

Waiting(s) == slot[s].step \in {"disk", "lane"}

(* No slot waits for ever: the one that waits for disk gets it although others
   hold theirs while they wait for a lane, and the largest job an accepted
   policy admits fits. *)
NobodyWaitsForever == \A s \in Slots : Waiting(s) ~> ~Waiting(s)
=============================================================================
