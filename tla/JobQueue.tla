------------------------------ MODULE JobQueue ------------------------------
(***************************************************************************)
(* The SQLite job queue (impl JobQueue for SqliteStore) as worker slots    *)
(* use it: claim_next, renew, complete and fail, each one transaction, and *)
(* the clock they read.  A slot remembers the lease claim_next returned to *)
(* it; everything else is in the database.                                 *)
(*                                                                         *)
(* Time is unix seconds.  MaxTime bounds the clock; since a lease and a    *)
(* retry delay last at least a second, it also bounds attempts and the     *)
(* claim sequence.                                                         *)
(***************************************************************************)
EXTENDS Naturals

CONSTANTS
    Jobs,         \* job ids; positive numbers, so that ORDER BY id is defined
    Slots,        \* worker ids, one per concurrent slot
    Tenants,
    TenantOf,     \* the tenant of each job's upload
    LeaseFor,     \* WorkerPolicy.lease_for
    RetryDelay,   \* WorkerPolicy.retry_delay
    MaxAttempts,  \* WorkerPolicy.max_attempts
    MaxTime,      \* bound on the clock
    NoSlot        \* lease_owner IS NULL

ASSUME QueueAssumption ==
    /\ Jobs \subseteq Nat \ {0}
    /\ TenantOf \in [Jobs -> Tenants]
    /\ LeaseFor \in Nat \ {0}
    /\ RetryDelay \in Nat \ {0}
    /\ MaxAttempts \in Nat \ {0}
    /\ MaxTime \in Nat
    /\ NoSlot \notin Slots

VARIABLES
    now,        \* the wall clock every operation reads
    job,        \* the jobs table
    nextClaim,  \* queue_sequence.next_claim_sequence
    lastClaim,  \* tenant_queue_state.last_claim_sequence, 0 when absent
    lease,      \* the LeasedProcessingJob each slot holds in memory
    passed      \* history: claims of tenant u since tenant t last had no work

vars == <<now, job, nextClaim, lastClaim, lease, passed>>

JobState == {"absent", "queued", "leased", "completed", "dead_letter"}

JobRow == [state : JobState, attempts : Nat, available_at : Nat, created_at : Nat,
           lease_owner : Slots \cup {NoSlot}, lease_until : Nat]

NewJob == [state |-> "absent", attempts |-> 0, available_at |-> 0, created_at |-> 0,
           lease_owner |-> NoSlot, lease_until |-> 0]

NoJob == 0

NoLease == [job |-> NoJob, attempts |-> 0]

Init ==
    /\ now = 0
    /\ job = [j \in Jobs |-> NewJob]
    /\ nextClaim = 1
    /\ lastClaim = [t \in Tenants |-> 0]
    /\ lease = [s \in Slots |-> NoLease]
    /\ passed = [t \in Tenants |-> [u \in Tenants |-> 0]]

-----------------------------------------------------------------------------
(* Faulty: a lease can be taken over before it expires *)
EligibleRow_IgnoresDeadline(row) ==
    \/ row.state = "queued" /\ row.available_at <= now
    \/ row.state = "leased"

(* claim_next's WHERE clause *)
EligibleRow(row) ==
    \/ row.state = "queued" /\ row.available_at <= now
    \/ row.state = "leased" /\ row.lease_until <= now

Eligible(j) == EligibleRow(job[j])

(* Faulty: plain first come, first served, without the tenant's turn *)
Before_NoTenantTurn(i, j) ==
    LET key(k) == <<job[k].available_at, job[k].created_at, k>>
    IN \E n \in 1..3 : /\ key(i)[n] < key(j)[n]
                       /\ \A m \in 1..(n - 1) : key(i)[m] = key(j)[m]

(* claim_next's ORDER BY: the tenant served longest ago, then the job that
   became available first, then the oldest, then the smallest id *)
Before(i, j) ==
    LET key(k) == <<lastClaim[TenantOf[k]], job[k].available_at, job[k].created_at, k>>
    IN \E n \in 1..4 : /\ key(i)[n] < key(j)[n]
                       /\ \A m \in 1..(n - 1) : key(i)[m] = key(j)[m]

(* ORDER BY ... LIMIT 1 *)
Candidate(j) ==
    /\ Eligible(j)
    /\ \A k \in Jobs \ {j} : Eligible(k) => Before(j, k)

(* History: a claim for tenant u passes over every other tenant with work;
   a tenant's record restarts when it is served or has no work left *)
HasWork(rows, t) == \E j \in Jobs : TenantOf[j] = t /\ EligibleRow(rows[j])

NonePassed == [u \in Tenants |-> 0]

RecordClaim(u) ==
    passed' = [t \in Tenants |-> IF t # u /\ HasWork(job, t)
                                 THEN [passed[t] EXCEPT ![u] = @ + 1]
                                 ELSE NonePassed]

ForgetIdle ==
    passed' = [t \in Tenants |-> IF HasWork(job', t) THEN passed[t] ELSE NonePassed]

-----------------------------------------------------------------------------
(* The INSERT of mark_quarantined_and_enqueue *)
Enqueue(j) ==
    /\ job[j].state = "absent"
    /\ job' = [job EXCEPT ![j] = [NewJob EXCEPT !.state = "queued",
                                                !.available_at = now,
                                                !.created_at = now]]
    /\ UNCHANGED <<now, nextClaim, lastClaim, lease, passed>>

Leased(row, s) ==
    [row EXCEPT !.state = "leased", !.attempts = row.attempts + 1,
                !.lease_owner = s, !.lease_until = now + LeaseFor]

(* Faulty: the slot is told the attempt count from before the claim *)
ClaimNext_StaleAttempts(s) ==
    /\ lease[s] = NoLease
    /\ \E j \in Jobs :
         /\ Candidate(j)
         /\ job' = [job EXCEPT ![j] = Leased(job[j], s)]
         /\ nextClaim' = nextClaim + 1
         /\ lastClaim' = [lastClaim EXCEPT ![TenantOf[j]] = nextClaim]
         /\ lease' = [lease EXCEPT ![s] = [job |-> j, attempts |-> job[j].attempts]]
         /\ RecordClaim(TenantOf[j])
    /\ UNCHANGED now

ClaimNext(s) ==
    /\ lease[s] = NoLease
    /\ \E j \in Jobs :
         /\ Candidate(j)
         /\ job' = [job EXCEPT ![j] = Leased(job[j], s)]
         /\ nextClaim' = nextClaim + 1
         /\ lastClaim' = [lastClaim EXCEPT ![TenantOf[j]] = nextClaim]
         /\ lease' = [lease EXCEPT ![s] = [job |-> j, attempts |-> job[j].attempts + 1]]
         /\ RecordClaim(TenantOf[j])
    /\ UNCHANGED now

(* Faulty: settlement does not compare the owner *)
Owns_AnyOwner(s, j) == job[j].state = "leased"

(* The guard complete and fail share names the owner, not the deadline *)
Owns(s, j) == job[j].state = "leased" /\ job[j].lease_owner = s

(* A refused call surfaces as WorkerError, which ends the slot's process;
   so does a crash.  The row keeps its lease until the lease expires. *)
LoseLease(s) ==
    /\ lease' = [lease EXCEPT ![s] = NoLease]
    /\ UNCHANGED <<now, job, nextClaim, lastClaim, passed>>

(* Faulty: a lease that has already expired can be revived *)
Renewable_Expired(s, j) == Owns(s, j)

Renewable(s, j) == Owns(s, j) /\ job[j].lease_until > now

Renew(s) ==
    LET j == lease[s].job IN
    /\ lease[s] # NoLease
    /\ IF Renewable(s, j)
       THEN /\ job' = [job EXCEPT ![j] = [job[j] EXCEPT !.lease_until = now + LeaseFor]]
            /\ UNCHANGED <<now, nextClaim, lastClaim, lease, passed>>
       ELSE LoseLease(s)

Settle(s, j, row) ==
    IF Owns(s, j)
    THEN /\ job' = [job EXCEPT ![j] = [row EXCEPT !.lease_owner = NoSlot, !.lease_until = 0]]
         /\ lease' = [lease EXCEPT ![s] = NoLease]
         /\ ForgetIdle
         /\ UNCHANGED <<now, nextClaim, lastClaim>>
    ELSE LoseLease(s)

Complete(s) ==
    LET j == lease[s].job IN
    /\ lease[s] # NoLease
    /\ Settle(s, j, [job[j] EXCEPT !.state = "completed"])

(* Faulty: an exhausted job is given a state the jobs table does not have *)
Fail_UnknownState(s, max_attempts, retry_at) ==
    LET j == lease[s].job IN
    /\ lease[s] # NoLease
    /\ Settle(s, j, [job[j] EXCEPT
         !.state = IF job[j].attempts >= max_attempts THEN "failed" ELSE "queued",
         !.available_at = retry_at])

Fail(s, max_attempts, retry_at) ==
    LET j == lease[s].job IN
    /\ lease[s] # NoLease
    /\ Settle(s, j, [job[j] EXCEPT
         !.state = IF job[j].attempts >= max_attempts THEN "dead_letter" ELSE "queued",
         !.available_at = retry_at])

(* A transient failure is retried after the delay; a job whose preset the
   worker does not know is failed with a budget of one attempt *)
FailTransient(s) == Fail(s, MaxAttempts, now + RetryDelay)
FailUnsupportedPreset(s) == Fail(s, 1, now)

Crash(s) == lease[s] # NoLease /\ LoseLease(s)

Tick ==
    /\ now < MaxTime
    /\ now' = now + 1
    /\ UNCHANGED <<job, nextClaim, lastClaim, lease, passed>>

Next ==
    \/ \E j \in Jobs : Enqueue(j)
    \/ \E s \in Slots :
          \/ ClaimNext(s)
          \/ Renew(s)
          \/ Complete(s)
          \/ FailTransient(s)
          \/ FailUnsupportedPreset(s)
          \/ Crash(s)
    \/ Tick

Spec == Init /\ [][Next]_vars

-----------------------------------------------------------------------------
(* Every variable has its type. *)
TypeOK ==
    /\ now \in Nat
    /\ job \in [Jobs -> JobRow]
    /\ nextClaim \in Nat
    /\ lastClaim \in [Tenants -> Nat]
    /\ lease \in [Slots -> [job : Jobs, attempts : Nat] \cup {NoLease}]
    /\ passed \in [Tenants -> [Tenants -> Nat]]

(* Tenant fairness of claim_next: while a tenant has an eligible job, each
   other tenant is served at most once before it, whatever backlog the others
   have and however their jobs expire, fail and come back. *)
BoundedOvertaking == \A t, u \in Tenants : passed[t][u] <= 1

(* Why overtaking is bounded: the claim sequence is fresh, and a tenant that
   passed another one while that one had work is behind it in the order. *)
TurnInv ==
    /\ \A t \in Tenants : lastClaim[t] < nextClaim
    /\ \A t, u \in Tenants : passed[t][u] > 0 => lastClaim[t] < lastClaim[u]
    /\ BoundedOvertaking

(* run_one decides to reject the upload from the attempts its claim returned,
   fail decides to dead-letter from the attempts in the row.  The two agree
   for as long as the slot owns the row, so the two decisions are the same. *)
AttemptsAgree ==
    \A s \in Slots : lease[s] # NoLease /\ Owns(s, lease[s].job)
                       => lease[s].attempts = job[lease[s].job].attempts

(* Only the latest claim of a job settles it: the guard of complete and fail
   compares names only, and a name comes back when its slot claims the job again,
   yet the slot that settles holds the attempt the row counts, and any other slot
   that still believes to hold the job was given an earlier one. *)
SingleSettler ==
    [][\A s \in Slots :
         LET j == lease[s].job IN
         lease[s] # NoLease /\ lease'[s] = NoLease /\ job'[j] # job[j]
           => /\ lease[s].attempts = job[j].attempts
              /\ \A r \in Slots \ {s} : lease[r].job = j => lease[r].attempts < job[j].attempts]_vars

(* A lease that has not expired is left alone by everyone but the slot it was
   granted to: the row changes only in that slot's own renewal, or in the step
   in which that slot settles the job and forgets it. *)
LiveLeaseUntouched ==
    [][\A j \in Jobs : job[j].state = "leased" /\ now < job[j].lease_until /\ job'[j] # job[j]
         => LET s == job[j].lease_owner IN
            /\ lease[s].job = j
            /\ job'[j].lease_owner = s \/ lease'[s] = NoLease]_vars

-----------------------------------------------------------------------------
(* The implementation of JobLease: a row's two deadlines become its due bit,
   and attempts are counted up to the budget *)
Capped(n) == IF n < MaxAttempts THEN n ELSE MaxAttempts

AbsJob == [j \in Jobs |-> [state |-> job[j].state, attempts |-> Capped(job[j].attempts),
                           owner |-> job[j].lease_owner, due |-> Eligible(j)]]

AbsLease == [s \in Slots |-> [job |-> lease[s].job, attempts |-> Capped(lease[s].attempts)]]

Abstract == INSTANCE JobLease WITH job <- AbsJob, lease <- AbsLease

(* Every behaviour of the SQLite queue is one the JobQueue trait promises:
   claims only of due jobs, settlement only by the recorded owner. *)
ImplementsLease == Abstract!LeaseSpec
=============================================================================
