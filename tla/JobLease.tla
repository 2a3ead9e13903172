------------------------------ MODULE JobLease ------------------------------
(***************************************************************************)
(* What the durable job queue promises its callers (trait JobQueue), with  *)
(* the clock reduced to one bit per job: a job is due when its available_at *)
(* has come (queued) or its lease_until has passed (leased).  Time may make *)
(* any job due; which due job a claim gets is left open.  The attempt      *)
(* count is only ever compared with the budget, so it stops counting there. *)
(* JobQueue is the SQLite implementation and is shown to implement this    *)
(* module; Worker composes these actions with the rest of a worker slot.   *)
(***************************************************************************)
EXTENDS Naturals

CONSTANTS
    Jobs,        \* job ids
    Slots,       \* worker ids, one per concurrent slot
    MaxAttempts, \* WorkerPolicy.max_attempts
    NoJob,       \* what a slot without a lease holds
    NoSlot       \* the lease owner of a job that is not leased

ASSUME LeaseAssumption ==
    /\ MaxAttempts \in Nat \ {0}
    /\ NoJob \notin Jobs
    /\ NoSlot \notin Slots

VARIABLES
    job,   \* the jobs table: state, attempts, lease owner, due
    lease  \* the LeasedProcessingJob each slot holds in memory

leaseVars == <<job, lease>>

JobState == {"absent", "queued", "leased", "completed", "dead_letter"}

JobRow == [state : JobState, attempts : Nat, owner : Slots \cup {NoSlot}, due : BOOLEAN]

NewJob == [state |-> "absent", attempts |-> 0, owner |-> NoSlot, due |-> FALSE]

NoLease == [job |-> NoJob, attempts |-> 0]

Capped(n) == IF n < MaxAttempts THEN n ELSE MaxAttempts

LeaseTypeOK ==
    /\ job \in [Jobs -> JobRow]
    /\ lease \in [Slots -> [job : Jobs, attempts : Nat] \cup {NoLease}]

LeaseInit ==
    /\ job = [j \in Jobs |-> NewJob]
    /\ lease = [s \in Slots |-> NoLease]

-----------------------------------------------------------------------------
(* A slot forgets its lease once it has settled the job *)
Release(s) == lease' = [lease EXCEPT ![s] = NoLease]

(* complete and fail are accepted from the recorded owner, due or not *)
Owns(s, j) == job[j].state = "leased" /\ job[j].owner = s

Settled(row, state) ==
    [state |-> state, attempts |-> row.attempts, owner |-> NoSlot, due |-> FALSE]

Enqueue(j) ==
    /\ job[j].state = "absent"
    /\ job' = [job EXCEPT ![j] = [state |-> "queued", attempts |-> 0, owner |-> NoSlot,
                                  due |-> TRUE]]
    /\ UNCHANGED lease

Claim(s, j) ==
    /\ lease[s] = NoLease
    /\ job[j].state \in {"queued", "leased"} /\ job[j].due
    /\ job' = [job EXCEPT ![j] = [state |-> "leased", attempts |-> Capped(job[j].attempts + 1),
                                  owner |-> s, due |-> FALSE]]
    /\ lease' = [lease EXCEPT ![s] = [job |-> j, attempts |-> Capped(job[j].attempts + 1)]]

(* complete, accepted *)
Complete(s) ==
    LET j == lease[s].job IN
    /\ lease[s] # NoLease
    /\ Owns(s, j)
    /\ job' = [job EXCEPT ![j] = Settled(job[j], "completed")]
    /\ Release(s)

(* fail, accepted: requeued until the attempt budget is used up *)
Fail(s, max_attempts) ==
    LET j == lease[s].job IN
    /\ lease[s] # NoLease
    /\ Owns(s, j)
    /\ job' = [job EXCEPT ![j] = Settled(job[j],
                 IF job[j].attempts >= max_attempts THEN "dead_letter" ELSE "queued")]
    /\ Release(s)

(* A refused renew, complete or fail, or any other death of the process the
   slots S belong to: the leases stay in the table until they expire *)
Lose(S) ==
    /\ lease' = [s \in Slots |-> IF s \in S THEN NoLease ELSE lease[s]]
    /\ UNCHANGED job

(* Time passes: a back-off ends or a lease runs out *)
BecomeDue(J) ==
    /\ job' = [j \in Jobs |->
                 IF j \in J /\ job[j].state \in {"queued", "leased"}
                 THEN [state |-> job[j].state, attempts |-> job[j].attempts,
                       owner |-> job[j].owner, due |-> TRUE]
                 ELSE job[j]]
    /\ UNCHANGED lease

LeaseNext ==
    \/ \E j \in Jobs : Enqueue(j)
    \/ \E s \in Slots :
          \/ \E j \in Jobs : Claim(s, j)
          \/ Complete(s)
          \/ \E max \in {1, MaxAttempts} : Fail(s, max)
    \/ \E S \in SUBSET Slots : Lose(S)
    \/ \E J \in SUBSET Jobs : BecomeDue(J)

LeaseSpec == LeaseInit /\ [][LeaseNext]_leaseVars
=============================================================================
