------------------------------- MODULE Worker -------------------------------
(***************************************************************************)
(* The source-validation worker: run_one in every slot of every worker     *)
(* process.  A slot claims a job, reads the upload row, and works from     *)
(* that row through download and inspection, start_processing, the two     *)
(* derivative objects and publish_derivatives, then settles the job by the *)
(* class of the result.  Only the settlement looks at the lease: every     *)
(* write before it can come from a slot whose lease another slot took over.*)
(*                                                                         *)
(* A WorkerError in one slot ends run(), and with it every slot of the     *)
(* process; the service manager starts the process again.  MaxFaults bounds *)
(* the failures of the environment (storage, sandbox, crashes, stalls).    *)
(***************************************************************************)
EXTENDS MediaStore

CONSTANTS
    ProcessOf,   \* the worker process a slot belongs to
    MaxFaults    \* bound on environment failures

VARIABLES
    slot,    \* where each slot is in run_one, and what it works from
    faults   \* environment failures so far

workerVars == <<slot, faults>>

Idle == [step |-> "idle", source |-> NoContent, digest |-> NoContent]

(* Steps inside validate_source, during which the heartbeat runs *)
Working == {"read", "inspect", "start", "master", "thumbnail", "publish"}

(* Steps after it: the job is settled by the class of the result *)
Settling == {"complete", "reject", "reject_exhausted", "fail"}

Slot == [step : {"idle"} \cup Working \cup Settling, source : Digests, digest : Digests]

WorkerInit ==
    /\ slot = [s \in Slots |-> Idle]
    /\ faults = 0

WorkerTypeOK ==
    /\ slot \in [Slots -> Slot]
    /\ faults \in Nat

Upload(s) == lease[s].job

Step(s, step) ==
    slot' = [slot EXCEPT ![s] = [step |-> step, source |-> slot[s].source,
                                 digest |-> slot[s].digest]]

Peers(s) == {t \in Slots : ProcessOf[t] = ProcessOf[s]}

(* A transient failure uses up an attempt; the last one rejects the upload *)
Transient(s) ==
    Step(s, IF lease[s].attempts >= MaxAttempts THEN "reject_exhausted" ELSE "fail")

(* WorkerError, or the process dies: run() returns and drops every slot *)
Exit(s) ==
    /\ slot' = [t \in Slots |-> IF t \in Peers(s) THEN Idle ELSE slot[t]]
    /\ Lose(Peers(s))

NoFault == UNCHANGED faults

Fault ==
    /\ faults < MaxFaults
    /\ faults' = faults + 1

-----------------------------------------------------------------------------
ClaimJob(s, u) ==
    /\ slot[s] = Idle
    /\ Claim(s, u)
    /\ Step(s, "read")
    /\ NoFault
    /\ UNCHANGED <<tableVars, objectVars>>

(* Faulty: a source another slot is processing counts as done *)
ReadSource_ProcessingIsDone(s) ==
    LET u == Upload(s) IN
    /\ slot[s].step = "read"
    /\ \/ state[u] = "quarantined"
            /\ slot' = [slot EXCEPT ![s] = [step |-> "inspect", source |-> sha[u],
                                            digest |-> NoContent]]
       \/ state[u] \in {"processing", "ready", "rejected"} /\ Step(s, "complete")
       \/ state[u] \in {"created"} \cup GoneState /\ Transient(s)
    /\ NoFault
    /\ UNCHANGED <<tableVars, objectVars, leaseVars>>

(* find_processing_source and validate_source.  The source is the digest the
   row records: none while it is quarantined. *)
ReadSource(s) ==
    LET u == Upload(s) IN
    /\ slot[s].step = "read"
    /\ \/ state[u] \in UndecidedState
            /\ slot' = [slot EXCEPT ![s] = [step |-> "inspect", source |-> sha[u],
                                            digest |-> NoContent]]
       \/ state[u] \in {"ready", "rejected"} /\ Step(s, "complete")
       \/ state[u] \notin UndecidedState \cup {"ready", "rejected"} /\ Transient(s)
    /\ NoFault
    /\ UNCHANGED <<tableVars, objectVars, leaseVars>>

(* download_to, detect_file, sha256_file and inspect: a missing object is a
   transient failure, a file the decoders refuse a permanent one *)
Inspect(s) ==
    /\ slot[s].step = "inspect"
    /\ \/ raw[Upload(s)] # NoContent
            /\ slot' = [slot EXCEPT ![s] = [step |-> "start", source |-> slot[s].source,
                                            digest |-> raw[Upload(s)]]]
       \/ raw[Upload(s)] = NoContent /\ Transient(s)
    /\ NoFault
    /\ UNCHANGED <<tableVars, objectVars, leaseVars>>

(* Faulty: a resumed source is not compared with the recorded digest *)
Start_NoDigestCheck(s) ==
    LET u == Upload(s)
        digest == slot[s].digest
    IN
    /\ slot[s].step = "start"
    /\ \/ slot[s].source = NoContent /\ StartProcessing(u, digest) /\ Step(s, "master")
       \/ slot[s].source = NoContent /\ ~CanStart(u, digest) /\ Transient(s)
            /\ UNCHANGED tableVars
       \/ slot[s].source # NoContent /\ Step(s, "master") /\ UNCHANGED tableVars
    /\ NoFault
    /\ UNCHANGED <<objectVars, leaseVars>>

(* start_processing from a row read as quarantined; a row read as processing
   must still have the digest of the downloaded bytes *)
Start(s) ==
    LET u == Upload(s)
        digest == slot[s].digest
    IN
    /\ slot[s].step = "start"
    /\ \/ slot[s].source = NoContent /\ StartProcessing(u, digest) /\ Step(s, "master")
       \/ slot[s].source = NoContent /\ ~CanStart(u, digest) /\ Transient(s)
            /\ UNCHANGED tableVars
       \/ slot[s].source = digest /\ Step(s, "master") /\ UNCHANGED tableVars
       \/ slot[s].source \notin {NoContent, digest} /\ Step(s, "reject")
            /\ UNCHANGED tableVars
    /\ NoFault
    /\ UNCHANGED <<objectVars, leaseVars>>

(* put_file under a key made of the upload, the digest and the variant *)
PutDerivative(s, variant, next) ==
    /\ slot[s].step = variant
    /\ media' = media \cup {<<Upload(s), slot[s].digest, variant>>}
    /\ Step(s, next)
    /\ NoFault
    /\ UNCHANGED <<tableVars, leaseVars, raw, session>>

PutMaster(s) == PutDerivative(s, "master", "thumbnail")

PutThumbnail(s) == PutDerivative(s, "thumbnail", "publish")

Publish(s) ==
    LET u == Upload(s)
        digest == slot[s].digest
    IN
    /\ slot[s].step = "publish"
    /\ \/ PublishDerivatives(u, digest) /\ Step(s, "complete")
       \/ ~CanPublish(u, digest) /\ Transient(s) /\ UNCHANGED tableVars
    /\ NoFault
    /\ UNCHANGED <<objectVars, leaseVars>>

-----------------------------------------------------------------------------
(* ProcessingFailure::Permanent: decoders, length checks, unsupported media *)
FailPermanently(s) ==
    /\ slot[s].step \in {"inspect", "master", "thumbnail"}
    /\ Step(s, "reject")
    /\ NoFault
    /\ UNCHANGED <<tableVars, objectVars, leaseVars>>

(* ProcessingFailure::Transient: database, storage or sandbox unavailable *)
FailTransiently(s) ==
    /\ slot[s].step \in Working
    /\ Transient(s)
    /\ Fault
    /\ UNCHANGED <<tableVars, objectVars, leaseVars>>

(* ProcessingFailure::Operational: renderer, watermark or policy unavailable *)
FailOperationally(s) ==
    /\ slot[s].step \in {"inspect", "master", "thumbnail"}
    /\ Exit(s)
    /\ Fault
    /\ UNCHANGED <<tableVars, objectVars>>

(* mark_rejected after a permanent failure, or after the last attempt; a
   refusal is a WorkerError *)
Reject(s) ==
    LET u == Upload(s) IN
    /\ slot[s].step \in {"reject", "reject_exhausted"}
    /\ \/ /\ MarkRejected(u)
          /\ Step(s, IF slot[s].step = "reject" THEN "complete" ELSE "fail")
          /\ UNCHANGED leaseVars
       \/ /\ state[u] \notin UndecidedState
          /\ Exit(s)
          /\ UNCHANGED tableVars
    /\ NoFault
    /\ UNCHANGED objectVars

(* The queue refuses a slot that no longer owns the job: WorkerError *)
Settle(s, settlement) ==
    /\ \/ settlement /\ slot' = [slot EXCEPT ![s] = Idle]
       \/ ~Owns(s, Upload(s)) /\ Exit(s)
    /\ NoFault
    /\ UNCHANGED <<tableVars, objectVars>>

CompleteJob(s) == slot[s].step = "complete" /\ Settle(s, Complete(s))

FailJob(s) == slot[s].step = "fail" /\ Settle(s, Fail(s, MaxAttempts))

(* The heartbeat's renewal is refused once the lease ran out or was taken;
   a renewal that is accepted changes nothing here *)
RenewRefused(s) ==
    /\ slot[s].step \in Working
    /\ ~Owns(s, Upload(s)) \/ job[Upload(s)].due
    /\ Exit(s)
    /\ NoFault
    /\ UNCHANGED <<tableVars, objectVars>>

Crash(s) ==
    /\ Exit(s)
    /\ Fault
    /\ UNCHANGED <<tableVars, objectVars>>

(* The heartbeat stalls for longer than lease_for *)
Stall(s) ==
    /\ slot[s] # Idle
    /\ Owns(s, Upload(s)) /\ ~job[Upload(s)].due
    /\ BecomeDue({Upload(s)})
    /\ Fault
    /\ UNCHANGED <<tableVars, objectVars, slot>>

(* A retry delay ends, or the lease of a slot that is gone does *)
JobDue(u) ==
    /\ job[u].state \in {"queued", "leased"} /\ ~job[u].due
    /\ job[u].state = "leased" => lease[job[u].owner].job # u
    /\ BecomeDue({u})
    /\ NoFault
    /\ UNCHANGED <<tableVars, objectVars, slot>>

SlotStep(s) ==
    \/ \E u \in Uploads : ClaimJob(s, u)
    \/ ReadSource(s) \/ Inspect(s) \/ Start(s) \/ PutMaster(s) \/ PutThumbnail(s)
    \/ Publish(s) \/ Reject(s) \/ CompleteJob(s) \/ FailJob(s)

WorkerNext ==
    \/ \E s \in Slots :
          \/ SlotStep(s)
          \/ FailPermanently(s) \/ FailTransiently(s) \/ FailOperationally(s)
          \/ RenewRefused(s) \/ Crash(s) \/ Stall(s)
    \/ \E u \in Uploads : JobDue(u)
=============================================================================
