------------------------------ MODULE Lifecycle ------------------------------
(***************************************************************************)
(* g7mb-worker cleanup: one maintenance run leases a batch of uploads that *)
(* were asked to be deleted or outlived their retention, and for each      *)
(* aborts the multipart session, deletes the derivative objects, then the  *)
(* raw object, and tombstones the row.  A run works from the rows as they  *)
(* were when it claimed them.  A repository refusal ends the run; a        *)
(* storage failure releases the one upload for a later retry.              *)
(***************************************************************************)
EXTENDS MediaStore

CONSTANTS
    BatchSize,         \* LifecyclePolicy.batch_size
    MaxStorageFaults   \* bound on failed storage calls and killed runs

ASSUME LifecycleAssumption == BatchSize \in Nat \ {0}

VARIABLES
    run,            \* the step, the current candidate and the rest of the batch
    storageFaults   \* failed storage calls and killed runs so far

lifecycleVars == <<run, storageFaults>>

(* CleanupCandidate: the session to abort and the keys to delete, as claimed *)
Candidate == [upload : Uploads, abort : BOOLEAN, keys : SUBSET Keys]

NoCandidate == [upload |-> NoJob, abort |-> FALSE, keys |-> {}]

NoRun == [step |-> "none", current |-> NoCandidate, todo |-> {}]

Run == [step : {"none", "next", "storage", "complete", "fail"},
        current : Candidate \cup {NoCandidate}, todo : SUBSET Candidate]

LifecycleInit ==
    /\ run = [c \in Cleaners |-> NoRun]
    /\ storageFaults = 0

LifecycleTypeOK ==
    /\ run \in [Cleaners -> Run]
    /\ storageFaults \in Nat

CandidateOf(u) ==
    [upload |-> u,
     abort |-> state[u] = "created" /\ u \in Multipart,
     keys |-> {<<u, row[1], row[2]>> : row \in derivs[u]}]

(* ORDER BY puts requested deletions first; the order by time is left open *)
Batch(S) ==
    LET eligible == {u \in Uploads : Claimable(u)} IN
    /\ S \subseteq eligible
    /\ Cardinality(S) = IF Cardinality(eligible) < BatchSize
                        THEN Cardinality(eligible) ELSE BatchSize
    /\ eligible \cap delreq \subseteq S \/ S \subseteq delreq

Current(c) == run[c].current.upload

Work(c, step, candidate) ==
    run' = [run EXCEPT ![c] = [step |-> step, current |-> candidate, todo |-> run[c].todo]]

StorageFault ==
    /\ storageFaults < MaxStorageFaults
    /\ storageFaults' = storageFaults + 1

-----------------------------------------------------------------------------
ClaimCleanupBatch(c, S) ==
    /\ run[c] = NoRun
    /\ Batch(S)
    /\ LeaseCleanup(c, S)
    /\ run' = [run EXCEPT ![c] = [step |-> "next", current |-> NoCandidate,
                                  todo |-> {CandidateOf(u) : u \in S}]]
    /\ UNCHANGED <<leaseVars, objectVars, storageFaults>>

NextCandidate(c, candidate) ==
    /\ run[c].step = "next"
    /\ candidate \in run[c].todo
    /\ run' = [run EXCEPT ![c] = [step |-> "storage", current |-> candidate,
                                  todo |-> run[c].todo \ {candidate}]]
    /\ UNCHANGED <<tableVars, leaseVars, objectVars, storageFaults>>

(* cleanup_storage, one storage call per step *)
AbortSession(c) ==
    LET candidate == run[c].current IN
    /\ run[c].step = "storage" /\ candidate.abort
    /\ session' = session \ {candidate.upload}
    /\ Work(c, "storage", [upload |-> candidate.upload, abort |-> FALSE, keys |-> candidate.keys])
    /\ UNCHANGED <<tableVars, leaseVars, raw, media, storageFaults>>

DeleteDerivative(c, key) ==
    LET candidate == run[c].current IN
    /\ run[c].step = "storage" /\ ~candidate.abort
    /\ key \in candidate.keys
    /\ media' = media \ {key}
    /\ Work(c, "storage", [upload |-> candidate.upload, abort |-> FALSE,
                           keys |-> candidate.keys \ {key}])
    /\ UNCHANGED <<tableVars, leaseVars, raw, session, storageFaults>>

DeleteRaw(c) ==
    LET candidate == run[c].current IN
    /\ run[c].step = "storage" /\ ~candidate.abort /\ candidate.keys = {}
    /\ raw' = [raw EXCEPT ![candidate.upload] = NoContent]
    /\ Work(c, "complete", candidate)
    /\ UNCHANGED <<tableVars, leaseVars, media, session, storageFaults>>

StorageFails(c) ==
    /\ run[c].step = "storage"
    /\ StorageFault
    /\ Work(c, "fail", run[c].current)
    /\ UNCHANGED <<tableVars, leaseVars, objectVars>>

(* complete_cleanup and fail_cleanup: a refusal ends the run *)
CleanupSettled(c, settlement) ==
    /\ \/ settlement /\ Work(c, "next", NoCandidate)
       \/ /\ ~OwnsCleanup(c, Current(c))
          /\ run' = [run EXCEPT ![c] = NoRun]
          /\ UNCHANGED tableVars
    /\ UNCHANGED <<leaseVars, objectVars, storageFaults>>

FinishCandidate(c) ==
    run[c].step = "complete" /\ CleanupSettled(c, CompleteCleanup(c, Current(c)))

ReleaseCandidate(c) ==
    run[c].step = "fail" /\ CleanupSettled(c, FailCleanup(c, Current(c)))

(* The end of run_once *)
PurgeAndFinish(c) ==
    /\ run[c].step = "next" /\ run[c].todo = {}
    /\ PurgeTombstones
    /\ run' = [run EXCEPT ![c] = NoRun]
    /\ UNCHANGED <<objectVars, storageFaults>>

Killed(c) ==
    /\ run[c] # NoRun
    /\ StorageFault
    /\ run' = [run EXCEPT ![c] = NoRun]
    /\ UNCHANGED <<tableVars, leaseVars, objectVars>>

CleanerStep(c) ==
    \/ \E S \in SUBSET Uploads : ClaimCleanupBatch(c, S)
    \/ \E candidate \in run[c].todo : NextCandidate(c, candidate)
    \/ AbortSession(c)
    \/ \E key \in run[c].current.keys : DeleteDerivative(c, key)
    \/ DeleteRaw(c) \/ FinishCandidate(c) \/ ReleaseCandidate(c) \/ PurgeAndFinish(c)

LifecycleNext == \E c \in Cleaners : CleanerStep(c) \/ StorageFails(c) \/ Killed(c)
=============================================================================
