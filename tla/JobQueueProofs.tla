--------------------------- MODULE JobQueueProofs ---------------------------
(***************************************************************************)
(* Proofs about JobQueue, for any number of jobs, slots and tenants and any *)
(* lease duration, retry delay, attempt budget and clock bound.            *)
(***************************************************************************)
EXTENDS JobQueue, TLAPS

LEMMA NewJobType == NewJob \in JobRow
  BY QueueAssumption DEF NewJob, JobRow, JobState

LEMMA NoJobIsNoJob == NoJob \notin Jobs
  BY QueueAssumption DEF NoJob

(* A slot with a lease names a job, and that job has a row. *)
LEMMA LeaseType ==
  ASSUME TypeOK, NEW s \in Slots, lease[s] # NoLease
  PROVE  /\ lease[s] \in [job : Jobs, attempts : Nat]
         /\ lease[s].job \in Jobs
         /\ lease[s].attempts \in Nat
         /\ job[lease[s].job] \in JobRow
  BY DEF TypeOK

(* The row a claim or a renewal writes is a row. *)
LEMMA LeasedType ==
  ASSUME TypeOK, NEW s \in Slots, NEW j \in Jobs
  PROVE  /\ Leased(job[j], s) \in JobRow
         /\ [job[j] EXCEPT !.lease_until = now + LeaseFor] \in JobRow
         /\ job[j].attempts \in Nat
         /\ TenantOf[j] \in Tenants
  <1>1. job[j] \in JobRow /\ now + LeaseFor \in Nat
    BY QueueAssumption DEF TypeOK
  <1>2. job[j].attempts + 1 \in Nat
    BY <1>1 DEF JobRow
  <1> QED
    BY <1>1, <1>2, QueueAssumption DEF Leased, JobRow, JobState

LEMMA SettleType ==
  ASSUME TypeOK, NEW s \in Slots, NEW j \in Jobs, NEW row \in JobRow, Settle(s, j, row)
  PROVE  TypeOK'
  <1>1. CASE Owns(s, j)
    <2> DEFINE r == [row EXCEPT !.lease_owner = NoSlot, !.lease_until = 0]
    <2>1. r \in JobRow
      BY DEF JobRow
    <2>2. job' \in [Jobs -> JobRow]
      BY <1>1, <2>1 DEF Settle, TypeOK
    <2>3. passed' \in [Tenants -> [Tenants -> Nat]]
      BY <1>1 DEF Settle, ForgetIdle, NonePassed, TypeOK
    <2> QED
      BY <1>1, <2>2, <2>3 DEF Settle, TypeOK
  <1>2. CASE ~Owns(s, j)
    BY <1>2 DEF Settle, LoseLease, TypeOK
  <1> QED
    BY <1>1, <1>2

(* Type correctness of the queue. *)
THEOREM TypeCorrect == Spec => []TypeOK
  <1>1. Init => TypeOK
    BY NewJobType DEF Init, TypeOK
  <1>2. TypeOK /\ [Next]_vars => TypeOK'
    <2> SUFFICES ASSUME TypeOK, [Next]_vars
                 PROVE  TypeOK'
      OBVIOUS
    <2> USE QueueAssumption
    <2>1. ASSUME NEW j \in Jobs, Enqueue(j)
          PROVE  TypeOK'
      <3>1. [NewJob EXCEPT !.state = "queued", !.available_at = now, !.created_at = now]
               \in JobRow
        BY NewJobType DEF TypeOK, JobRow, JobState, NewJob
      <3> QED
        BY <2>1, <3>1 DEF Enqueue, TypeOK
    <2>2. ASSUME NEW s \in Slots, ClaimNext(s)
          PROVE  TypeOK'
      <3> PICK j \in Jobs :
            /\ job' = [job EXCEPT ![j] = Leased(job[j], s)]
            /\ nextClaim' = nextClaim + 1
            /\ lastClaim' = [lastClaim EXCEPT ![TenantOf[j]] = nextClaim]
            /\ lease' = [lease EXCEPT ![s] = [job |-> j, attempts |-> job[j].attempts + 1]]
            /\ RecordClaim(TenantOf[j])
        BY <2>2 DEF ClaimNext
      <3>0. Leased(job[j], s) \in JobRow /\ job[j].attempts \in Nat /\ TenantOf[j] \in Tenants
        BY LeasedType
      <3>1. job' \in [Jobs -> JobRow]
        BY <3>0 DEF TypeOK
      <3>2. lease' \in [Slots -> [job : Jobs, attempts : Nat] \cup {NoLease}]
        <4>1. job[j].attempts + 1 \in Nat
          BY <3>0
        <4>2. [job |-> j, attempts |-> job[j].attempts + 1] \in [job : Jobs, attempts : Nat]
          BY <4>1
        <4> QED
          BY <4>2 DEF TypeOK
      <3>3. passed' \in [Tenants -> [Tenants -> Nat]]
        BY DEF TypeOK, RecordClaim, NonePassed
      <3>4. lastClaim' \in [Tenants -> Nat] /\ nextClaim' \in Nat
        BY <3>0 DEF TypeOK
      <3> QED
        BY <2>2, <3>1, <3>2, <3>3, <3>4 DEF ClaimNext, TypeOK
    <2>3. ASSUME NEW s \in Slots, Renew(s)
          PROVE  TypeOK'
      <3>1. CASE Renewable(s, lease[s].job)
        <4> DEFINE j == lease[s].job
        <4>1. j \in Jobs
          BY <2>3, LeaseType DEF Renew
        <4>2. [job[j] EXCEPT !.lease_until = now + LeaseFor] \in JobRow
          BY <4>1, LeasedType
        <4> QED
          BY <2>3, <3>1, <4>1, <4>2 DEF Renew, TypeOK
      <3>2. CASE ~Renewable(s, lease[s].job)
        BY <2>3, <3>2 DEF Renew, LoseLease, TypeOK
      <3> QED
        BY <3>1, <3>2
    <2>4. ASSUME NEW s \in Slots, Complete(s)
          PROVE  TypeOK'
      <3>1. [job[lease[s].job] EXCEPT !.state = "completed"] \in JobRow
        BY <2>4, LeaseType DEF Complete, JobRow, JobState
      <3> QED
        BY <2>4, <3>1, LeaseType, SettleType DEF Complete
    <2>5. ASSUME NEW s \in Slots, NEW max \in Nat, NEW at \in Nat, Fail(s, max, at)
          PROVE  TypeOK'
      <3>1. [job[lease[s].job] EXCEPT
               !.state = IF job[lease[s].job].attempts >= max THEN "dead_letter" ELSE "queued",
               !.available_at = at] \in JobRow
        BY <2>5, LeaseType DEF Fail, JobRow, JobState
      <3> QED
        BY <2>5, <3>1, LeaseType, SettleType DEF Fail
    <2>6. ASSUME NEW s \in Slots, FailTransient(s) \/ FailUnsupportedPreset(s)
          PROVE  TypeOK'
      BY <2>5, <2>6 DEF FailTransient, FailUnsupportedPreset, TypeOK
    <2>7. ASSUME NEW s \in Slots, Crash(s)
          PROVE  TypeOK'
      BY <2>7 DEF Crash, LoseLease, TypeOK
    <2>8. CASE Tick
      BY <2>8 DEF Tick, TypeOK
    <2>9. CASE UNCHANGED vars
      BY <2>9 DEF vars, TypeOK
    <2> QED
      BY <2>1, <2>2, <2>3, <2>4, <2>6, <2>7, <2>8, <2>9 DEF Next
  <1> QED
    BY <1>1, <1>2, PTL DEF Spec

(* The step of a claim, with its job named. *)
LEMMA ClaimStep ==
  ASSUME NEW s \in Slots, ClaimNext(s)
  PROVE  \E j \in Jobs :
            /\ lease[s] = NoLease
            /\ Candidate(j)
            /\ job' = [job EXCEPT ![j] = Leased(job[j], s)]
            /\ nextClaim' = nextClaim + 1
            /\ lastClaim' = [lastClaim EXCEPT ![TenantOf[j]] = nextClaim]
            /\ lease' = [lease EXCEPT ![s] = [job |-> j, attempts |-> job[j].attempts + 1]]
            /\ RecordClaim(TenantOf[j])
            /\ now' = now
  BY DEF ClaimNext

(* What a settlement does to the rows and the leases, refused or not. *)
LEMMA SettleStep ==
  ASSUME TypeOK, NEW s \in Slots, NEW j \in Jobs, NEW row \in JobRow,
         row.state # "leased", Settle(s, j, row)
  PROVE  /\ lease' = [lease EXCEPT ![s] = NoLease]
         /\ \A k \in Jobs : job'[k] = job[k] \/ job'[k].state # "leased"
         /\ UNCHANGED <<now, nextClaim, lastClaim>>
         /\ \A t, u \in Tenants : passed'[t][u] = passed[t][u] \/ passed'[t][u] = 0
  <1>1. CASE Owns(s, j)
    <2>1. \A k \in Jobs : job'[k] = job[k] \/ job'[k].state # "leased"
      <3> DEFINE r == [row EXCEPT !.lease_owner = NoSlot, !.lease_until = 0]
      <3>1. r.state # "leased"
        BY DEF JobRow
      <3>2. job' = [job EXCEPT ![j] = r]
        BY <1>1 DEF Settle
      <3> HIDE DEF r
      <3> QED
        BY <3>1, <3>2 DEF TypeOK
    <2>2. \A t, u \in Tenants : passed'[t][u] = passed[t][u] \/ passed'[t][u] = 0
      BY <1>1 DEF Settle, ForgetIdle, NonePassed, TypeOK
    <2> QED
      BY <1>1, <2>1, <2>2 DEF Settle
  <1>2. CASE ~Owns(s, j)
    BY <1>2 DEF Settle, LoseLease
  <1> QED
    BY <1>1, <1>2

(* complete and fail are settlements by a slot that holds a lease. *)
LEMMA SettlementStep ==
  ASSUME TypeOK, NEW s \in Slots, Complete(s) \/ FailTransient(s) \/ FailUnsupportedPreset(s)
  PROVE  /\ lease[s] # NoLease
         /\ lease' = [lease EXCEPT ![s] = NoLease]
         /\ \A k \in Jobs : job'[k] = job[k] \/ job'[k].state # "leased"
         /\ UNCHANGED <<now, nextClaim, lastClaim>>
         /\ \A t, u \in Tenants : passed'[t][u] = passed[t][u] \/ passed'[t][u] = 0
  <1> DEFINE j == lease[s].job
  <1>1. lease[s] # NoLease
    BY DEF Complete, FailTransient, FailUnsupportedPreset, Fail
  <1>2. j \in Jobs /\ job[j] \in JobRow
    BY <1>1, LeaseType
  <1>3. CASE Complete(s)
    <2>1. [job[j] EXCEPT !.state = "completed"] \in JobRow
      BY <1>2 DEF JobRow, JobState
    <2>2. [job[j] EXCEPT !.state = "completed"].state # "leased"
      BY <1>2 DEF JobRow
    <2> QED
      BY <1>1, <1>2, <1>3, <2>1, <2>2, SettleStep DEF Complete
  <1>4. ASSUME NEW max \in Nat, NEW at \in Nat, Fail(s, max, at)
        PROVE  /\ lease' = [lease EXCEPT ![s] = NoLease]
               /\ \A k \in Jobs : job'[k] = job[k] \/ job'[k].state # "leased"
               /\ UNCHANGED <<now, nextClaim, lastClaim>>
               /\ \A t, u \in Tenants : passed'[t][u] = passed[t][u] \/ passed'[t][u] = 0
    <2> DEFINE row == [job[j] EXCEPT
               !.state = IF job[j].attempts >= max THEN "dead_letter" ELSE "queued",
               !.available_at = at]
    <2>1. row \in JobRow /\ row.state # "leased"
      BY <1>2 DEF JobRow, JobState
    <2>2. Settle(s, j, row)
      BY <1>4 DEF Fail
    <2> HIDE DEF row
    <2> QED
      BY <1>2, <2>1, <2>2, SettleStep
  <1>5. CASE FailTransient(s) \/ FailUnsupportedPreset(s)
    <2>1. now + RetryDelay \in Nat /\ now \in Nat /\ MaxAttempts \in Nat
      BY QueueAssumption DEF TypeOK
    <2> QED
      BY <1>1, <1>4, <1>5, <2>1 DEF FailTransient, FailUnsupportedPreset
  <1> QED
    BY <1>3, <1>5

(* The attempt count run_one acts on is the one in the row it owns. *)
THEOREM AttemptsAgreeHolds == Spec => []AttemptsAgree
  <1>1. Init => AttemptsAgree
    BY DEF Init, AttemptsAgree
  <1>2. TypeOK /\ AttemptsAgree /\ [Next]_vars => AttemptsAgree'
    <2> SUFFICES ASSUME TypeOK, AttemptsAgree, [Next]_vars,
                        NEW q \in Slots, lease'[q] # NoLease, Owns(q, lease[q].job)'
                 PROVE  lease'[q].attempts = job'[lease'[q].job].attempts
      BY DEF AttemptsAgree
    <2>1. ASSUME lease'[q] = lease[q], \A k \in Jobs : job'[k] = job[k] \/ job'[k].state # "leased"
          PROVE  lease'[q].attempts = job'[lease'[q].job].attempts
      BY <2>1, LeaseType DEF AttemptsAgree, Owns
    <2>2. ASSUME NEW j \in Jobs, Enqueue(j)
          PROVE  lease'[q].attempts = job'[lease'[q].job].attempts
      BY <2>1, <2>2 DEF Enqueue, TypeOK, NewJob, JobRow
    <2>3. ASSUME NEW s \in Slots, ClaimNext(s)
          PROVE  lease'[q].attempts = job'[lease'[q].job].attempts
      <3> PICK j \in Jobs :
            /\ job' = [job EXCEPT ![j] = Leased(job[j], s)]
            /\ lease' = [lease EXCEPT ![s] = [job |-> j, attempts |-> job[j].attempts + 1]]
        BY <2>3, ClaimStep
      <3>1. job[j] \in JobRow
        BY DEF TypeOK
      <3>2. job'[j].attempts = job[j].attempts + 1 /\ job'[j].lease_owner = s
        BY <3>1 DEF Leased, TypeOK, JobRow
      <3>3. CASE q = s
        BY <3>2, <3>3 DEF TypeOK
      <3>4. CASE q # s
        <4>1. lease'[q] = lease[q]
          BY <3>4 DEF TypeOK
        <4>2. lease[q].job \in Jobs /\ lease[q].job # j
          BY <3>2, <3>4, <4>1, LeaseType DEF Owns
        <4> QED
          BY <4>1, <4>2 DEF AttemptsAgree, Owns, TypeOK
      <3> QED
        BY <3>3, <3>4
    <2>4. ASSUME NEW s \in Slots, Renew(s)
          PROVE  lease'[q].attempts = job'[lease'[q].job].attempts
      <3> DEFINE j == lease[s].job
      <3>1. CASE Renewable(s, j)
        <4>1. j \in Jobs /\ job[j] \in JobRow
          BY <2>4, LeaseType DEF Renew
        <4>2. job'[j].attempts = job[j].attempts /\ job'[j].state = job[j].state
                /\ job'[j].lease_owner = job[j].lease_owner
          BY <2>4, <3>1, <4>1 DEF Renew, TypeOK, JobRow
        <4>3. \A k \in Jobs \ {j} : job'[k] = job[k]
          BY <2>4, <3>1, <4>1 DEF Renew, TypeOK
        <4> QED
          BY <2>4, <3>1, <4>2, <4>3, LeaseType DEF Renew, AttemptsAgree, Owns
      <3>2. CASE ~Renewable(s, j)
        BY <2>1, <2>4, <3>2 DEF Renew, LoseLease, TypeOK
      <3> QED
        BY <3>1, <3>2
    <2>5. ASSUME NEW s \in Slots,
                 Complete(s) \/ FailTransient(s) \/ FailUnsupportedPreset(s)
          PROVE  lease'[q].attempts = job'[lease'[q].job].attempts
      BY <2>1, <2>5, SettlementStep DEF TypeOK
    <2>6. ASSUME NEW s \in Slots, Crash(s)
          PROVE  lease'[q].attempts = job'[lease'[q].job].attempts
      BY <2>1, <2>6 DEF Crash, LoseLease, TypeOK
    <2>7. CASE Tick \/ UNCHANGED vars
      BY <2>1, <2>7 DEF Tick, vars
    <2> QED
      BY <2>2, <2>3, <2>4, <2>5, <2>6, <2>7 DEF Next
  <1> QED
    BY <1>1, <1>2, TypeCorrect, PTL DEF Spec

(* The order of claim_next puts the tenant's turn first. *)
LEMMA CandidateTurn ==
  ASSUME TypeOK, NEW j \in Jobs, Candidate(j), NEW k \in Jobs, Eligible(k)
  PROVE  lastClaim[TenantOf[j]] <= lastClaim[TenantOf[k]]
  <1>1. lastClaim[TenantOf[j]] \in Nat /\ lastClaim[TenantOf[k]] \in Nat
    BY QueueAssumption DEF TypeOK
  <1>2. CASE k = j
    BY <1>1, <1>2
  <1>3. CASE k # j
    <2>1. Before(j, k)
      BY <1>3 DEF Candidate
    <2> DEFINE key(i) == <<lastClaim[TenantOf[i]], job[i].available_at, job[i].created_at, i>>
    <2>2. PICK n \in 1..4 : key(j)[n] < key(k)[n] /\ \A m \in 1..(n - 1) : key(j)[m] = key(k)[m]
      BY <2>1 DEF Before
    <2>3. key(j)[1] = lastClaim[TenantOf[j]] /\ key(k)[1] = lastClaim[TenantOf[k]]
      OBVIOUS
    <2> HIDE DEF key
    <2>4. CASE n = 1
      BY <1>1, <2>2, <2>3, <2>4
    <2>5. CASE n # 1
      <3>1. 1 \in 1..(n - 1)
        BY <2>5
      <3> QED
        BY <1>1, <2>2, <2>3, <3>1
    <2> QED
      BY <2>4, <2>5
  <1> QED
    BY <1>2, <1>3

(* Tenant fairness: no tenant is served twice past one that has work. *)
THEOREM FairTurns == Spec => []BoundedOvertaking
  <1>1. Init => TurnInv
    BY DEF Init, TurnInv, BoundedOvertaking
  <1>2. TypeOK /\ TurnInv /\ [Next]_vars => TurnInv'
    <2> SUFFICES ASSUME TypeOK, TurnInv, [Next]_vars
                 PROVE  TurnInv'
      OBVIOUS
    <2>1. ASSUME UNCHANGED <<nextClaim, lastClaim>>,
                 \A t, u \in Tenants : passed'[t][u] = passed[t][u] \/ passed'[t][u] = 0
          PROVE  TurnInv'
      <3>1. \A t \in Tenants : lastClaim'[t] < nextClaim'
        BY <2>1 DEF TurnInv
      <3>2. ASSUME NEW t \in Tenants, NEW u \in Tenants
            PROVE  /\ passed'[t][u] > 0 => lastClaim'[t] < lastClaim'[u]
                   /\ passed'[t][u] <= 1
        <4>1. CASE passed'[t][u] = passed[t][u]
          BY <2>1, <4>1 DEF TurnInv, BoundedOvertaking
        <4>2. CASE passed'[t][u] = 0
          BY <4>2
        <4> QED
          BY <2>1, <4>1, <4>2
      <3> QED
        BY <3>1, <3>2 DEF TurnInv, BoundedOvertaking
    <2>2. ASSUME NEW s \in Slots, ClaimNext(s)
          PROVE  TurnInv'
      <3> PICK j \in Jobs :
            /\ Candidate(j)
            /\ nextClaim' = nextClaim + 1
            /\ lastClaim' = [lastClaim EXCEPT ![TenantOf[j]] = nextClaim]
            /\ RecordClaim(TenantOf[j])
        BY <2>2, ClaimStep
      <3> DEFINE v == TenantOf[j]
      <3>1. v \in Tenants /\ nextClaim \in Nat /\ lastClaim \in [Tenants -> Nat]
               /\ passed \in [Tenants -> [Tenants -> Nat]]
        BY QueueAssumption DEF TypeOK
      <3>2. \A t \in Tenants : lastClaim'[t] < nextClaim'
        BY <3>1 DEF TurnInv
      <3>3. ASSUME NEW t \in Tenants, NEW u \in Tenants
            PROVE  /\ passed'[t][u] > 0 => lastClaim'[t] < lastClaim'[u]
                   /\ passed'[t][u] <= 1
        <4>1. CASE t # v /\ HasWork(job, t)
          <5>1. passed'[t] = [passed[t] EXCEPT ![v] = passed[t][v] + 1]
            BY <3>1, <4>1 DEF RecordClaim
          <5>2. PICK k \in Jobs : TenantOf[k] = t /\ Eligible(k)
            BY <4>1 DEF HasWork, Eligible
          <5>3. lastClaim[v] <= lastClaim[t]
            BY <5>2, CandidateTurn
          <5>4. passed[t][v] = 0
            BY <3>1, <5>3 DEF TurnInv
          <5>5. CASE u = v
            BY <3>1, <4>1, <5>1, <5>4, <5>5 DEF TurnInv
          <5>6. CASE u # v
            <6>1. passed'[t][u] = passed[t][u] /\ lastClaim'[u] = lastClaim[u]
                    /\ lastClaim'[t] = lastClaim[t]
              BY <3>1, <4>1, <5>1, <5>6
            <6> QED
              BY <6>1 DEF TurnInv, BoundedOvertaking
          <5> QED
            BY <5>5, <5>6
        <4>2. CASE ~(t # v /\ HasWork(job, t))
          <5>1. passed'[t][u] = 0
            BY <4>2 DEF RecordClaim, NonePassed
          <5> QED
            BY <5>1
        <4> QED
          BY <4>1, <4>2
      <3> QED
        BY <3>2, <3>3 DEF TurnInv, BoundedOvertaking
    <2>3. ASSUME NEW s \in Slots,
                 Complete(s) \/ FailTransient(s) \/ FailUnsupportedPreset(s)
          PROVE  TurnInv'
      BY <2>1, <2>3, SettlementStep
    <2>4. ASSUME NEW s \in Slots, Renew(s) \/ Crash(s)
          PROVE  TurnInv'
      <3>1. UNCHANGED <<nextClaim, lastClaim, passed>>
        BY <2>4 DEF Renew, Crash, LoseLease
      <3> QED
        BY <2>1, <3>1
    <2>5. ASSUME NEW j \in Jobs, Enqueue(j)
          PROVE  TurnInv'
      BY <2>1, <2>5 DEF Enqueue
    <2>6. CASE Tick \/ UNCHANGED vars
      BY <2>1, <2>6 DEF Tick, vars
    <2> QED
      BY <2>2, <2>3, <2>4, <2>5, <2>6 DEF Next
  <1>3. TurnInv => BoundedOvertaking
    BY DEF TurnInv
  <1> QED
    BY <1>1, <1>2, <1>3, TypeCorrect, PTL DEF Spec

(* A leased row has been claimed at least once. *)
LeasedOnce == \A j \in Jobs : job[j].state = "leased" => job[j].attempts >= 1

LEMMA LeasedOnceHolds == Spec => []LeasedOnce
  <1>1. Init => LeasedOnce
    BY DEF Init, LeasedOnce, NewJob
  <1>2. TypeOK /\ LeasedOnce /\ [Next]_vars => LeasedOnce'
    <2> SUFFICES ASSUME TypeOK, LeasedOnce, [Next]_vars
                 PROVE  LeasedOnce'
      OBVIOUS
    <2>1. ASSUME \A k \in Jobs : job'[k] = job[k] \/ job'[k].state # "leased"
          PROVE  LeasedOnce'
      BY <2>1 DEF LeasedOnce
    <2>2. ASSUME NEW j \in Jobs, Enqueue(j)
          PROVE  LeasedOnce'
      BY <2>1, <2>2 DEF Enqueue, NewJob, TypeOK
    <2>3. ASSUME NEW s \in Slots, ClaimNext(s)
          PROVE  LeasedOnce'
      <3> PICK j \in Jobs : job' = [job EXCEPT ![j] = Leased(job[j], s)]
        BY <2>3, ClaimStep
      <3>1. job[j] \in JobRow
        BY DEF TypeOK
      <3>2. job'[j].attempts >= 1
        BY <3>1 DEF Leased, TypeOK, JobRow
      <3> QED
        BY <3>2 DEF LeasedOnce, TypeOK
    <2>4. ASSUME NEW s \in Slots, Renew(s)
          PROVE  LeasedOnce'
      <3> DEFINE j == lease[s].job
      <3>1. CASE Renewable(s, j)
        <4>1. j \in Jobs /\ job[j] \in JobRow
          BY <2>4, LeaseType DEF Renew
        <4>2. job'[j].attempts = job[j].attempts /\ job'[j].state = job[j].state
          BY <2>4, <3>1, <4>1 DEF Renew, TypeOK, JobRow
        <4>3. \A k \in Jobs \ {j} : job'[k] = job[k]
          BY <2>4, <3>1, <4>1 DEF Renew, TypeOK
        <4> QED
          BY <4>2, <4>3 DEF LeasedOnce
      <3>2. CASE ~Renewable(s, j)
        BY <2>1, <2>4, <3>2 DEF Renew, LoseLease
      <3> QED
        BY <3>1, <3>2
    <2>5. ASSUME NEW s \in Slots,
                 Complete(s) \/ FailTransient(s) \/ FailUnsupportedPreset(s)
          PROVE  LeasedOnce'
      BY <2>1, <2>5, SettlementStep
    <2>6. ASSUME NEW s \in Slots, Crash(s)
          PROVE  LeasedOnce'
      BY <2>1, <2>6 DEF Crash, LoseLease
    <2>7. CASE Tick \/ UNCHANGED vars
      BY <2>1, <2>7 DEF Tick, vars
    <2> QED
      BY <2>2, <2>3, <2>4, <2>5, <2>6, <2>7 DEF Next
  <1> QED
    BY <1>1, <1>2, TypeCorrect, PTL DEF Spec

-----------------------------------------------------------------------------
(* Attempts number the claims of a job: nobody was given a later claim than the
   row counts, and no two slots were given the same one. *)
ClaimsNumbered ==
    /\ \A s \in Slots : lease[s] # NoLease =>
         /\ job[lease[s].job].state # "absent"
         /\ lease[s].attempts <= job[lease[s].job].attempts
    /\ \A r, s \in Slots : r # s /\ lease[r] # NoLease /\ lease[s] # NoLease
                             /\ lease[r].job = lease[s].job => lease[r].attempts # lease[s].attempts

(* A settlement writes one row, with the attempts it has, or none. *)
LEMMA SettlementRow ==
  ASSUME TypeOK, NEW s \in Slots, Complete(s) \/ FailTransient(s) \/ FailUnsupportedPreset(s)
  PROVE  /\ \A k \in Jobs : job'[k] # job[k] => k = lease[s].job /\ Owns(s, k)
         /\ \A k \in Jobs : job'[k].attempts = job[k].attempts
         /\ \A k \in Jobs : job[k].state # "absent" => job'[k].state # "absent"
  <1> DEFINE j == lease[s].job
  <1>1. lease[s] # NoLease
    BY DEF Complete, FailTransient, FailUnsupportedPreset, Fail
  <1>2. j \in Jobs /\ job[j] \in JobRow
    BY <1>1, LeaseType
  <1>3. \E row \in JobRow : /\ row.attempts = job[j].attempts /\ row.state # "absent"
                            /\ Settle(s, j, row)
    <2>1. CASE Complete(s)
      <3> DEFINE row == [job[j] EXCEPT !.state = "completed"]
      <3>1. row \in JobRow /\ row.attempts = job[j].attempts /\ row.state # "absent"
        BY <1>2 DEF JobRow, JobState
      <3> QED
        BY <2>1, <3>1 DEF Complete
    <2>2. ASSUME NEW max \in Nat, NEW at \in Nat, Fail(s, max, at)
          PROVE  \E row \in JobRow : /\ row.attempts = job[j].attempts /\ row.state # "absent"
                                     /\ Settle(s, j, row)
      <3> DEFINE row == [job[j] EXCEPT
               !.state = IF job[j].attempts >= max THEN "dead_letter" ELSE "queued",
               !.available_at = at]
      <3>1. row \in JobRow /\ row.attempts = job[j].attempts /\ row.state # "absent"
        BY <1>2 DEF JobRow, JobState
      <3> QED
        BY <2>2, <3>1 DEF Fail
    <2>3. now + RetryDelay \in Nat /\ now \in Nat /\ MaxAttempts \in Nat
      BY QueueAssumption DEF TypeOK
    <2> QED
      BY <2>1, <2>2, <2>3 DEF FailTransient, FailUnsupportedPreset
  <1>4. PICK row \in JobRow : /\ row.attempts = job[j].attempts /\ row.state # "absent"
                             /\ Settle(s, j, row)
    BY <1>3
  <1>5. CASE Owns(s, j)
    <2> DEFINE r == [row EXCEPT !.lease_owner = NoSlot, !.lease_until = 0]
    <2>1. r.attempts = job[j].attempts /\ r.state # "absent"
      BY <1>4 DEF JobRow
    <2>2. job' = [job EXCEPT ![j] = r]
      BY <1>4, <1>5 DEF Settle
    <2> HIDE DEF r
    <2> QED
      BY <1>2, <1>5, <2>1, <2>2 DEF TypeOK
  <1>6. CASE ~Owns(s, j)
    BY <1>4, <1>6 DEF Settle, LoseLease
  <1> QED
    BY <1>5, <1>6

(* A renewal moves the deadline of the row its slot owns, or ends the slot. *)
LEMMA RenewStep ==
  ASSUME TypeOK, NEW s \in Slots, Renew(s)
  PROVE  /\ \A k \in Jobs : job'[k] # job[k] => k = lease[s].job /\ Owns(s, k)
         /\ \A k \in Jobs : /\ job'[k].attempts = job[k].attempts
                             /\ job'[k].state = job[k].state
                             /\ job'[k].lease_owner = job[k].lease_owner
         /\ \/ lease' = lease
            \/ lease' = [lease EXCEPT ![s] = NoLease] /\ job' = job
  <1> DEFINE j == lease[s].job
  <1>1. j \in Jobs /\ job[j] \in JobRow
    BY LeaseType DEF Renew
  <1>2. CASE Renewable(s, j)
    <2>1. job' = [job EXCEPT ![j] = [job[j] EXCEPT !.lease_until = now + LeaseFor]] /\ lease' = lease
      BY <1>2 DEF Renew
    <2>2. /\ job'[j].attempts = job[j].attempts
          /\ job'[j].state = job[j].state
          /\ job'[j].lease_owner = job[j].lease_owner
      BY <1>1, <2>1 DEF TypeOK, JobRow
    <2>3. \A k \in Jobs \ {j} : job'[k] = job[k]
      BY <2>1 DEF TypeOK
    <2> QED
      BY <1>2, <2>1, <2>2, <2>3 DEF Renewable
  <1>3. CASE ~Renewable(s, j)
    BY <1>3 DEF Renew, LoseLease
  <1> QED
    BY <1>2, <1>3

LEMMA ClaimsNumberedHolds == Spec => []ClaimsNumbered
  <1>1. Init => ClaimsNumbered
    BY DEF Init, ClaimsNumbered
  <1>2. TypeOK /\ ClaimsNumbered /\ [Next]_vars => ClaimsNumbered'
    <2> SUFFICES ASSUME TypeOK, ClaimsNumbered, [Next]_vars
                 PROVE  ClaimsNumbered'
      OBVIOUS
    <2>1. ASSUME \A s \in Slots : lease'[s] = lease[s] \/ lease'[s] = NoLease,
                 \A k \in Jobs : /\ job'[k].attempts = job[k].attempts
                                 /\ job[k].state # "absent" => job'[k].state # "absent"
          PROVE  ClaimsNumbered'
      BY <2>1, LeaseType DEF ClaimsNumbered
    <2>2. ASSUME NEW j \in Jobs, Enqueue(j)
          PROVE  ClaimsNumbered'
      <3>1. lease' = lease /\ job[j].state = "absent" /\ \A k \in Jobs \ {j} : job'[k] = job[k]
        BY <2>2 DEF Enqueue, TypeOK
      <3> QED
        BY <3>1, LeaseType DEF ClaimsNumbered
    <2>3. ASSUME NEW s \in Slots, ClaimNext(s)
          PROVE  ClaimsNumbered'
      <3> PICK j \in Jobs :
            /\ job' = [job EXCEPT ![j] = Leased(job[j], s)]
            /\ lease' = [lease EXCEPT ![s] = [job |-> j, attempts |-> job[j].attempts + 1]]
        BY <2>3, ClaimStep
      <3>1. job[j] \in JobRow /\ job[j].attempts \in Nat
        BY DEF TypeOK, JobRow
      <3>2. job'[j].attempts = job[j].attempts + 1 /\ job'[j].state = "leased"
        BY <3>1 DEF Leased, TypeOK, JobRow
      <3>3. \A k \in Jobs \ {j} : job'[k] = job[k]
        BY DEF TypeOK
      <3>4. lease'[s].job = j /\ lease'[s].attempts = job[j].attempts + 1
        BY DEF TypeOK
      <3>5. \A r \in Slots \ {s} : lease'[r] = lease[r]
        BY DEF TypeOK
      <3>6. \A r \in Slots \ {s} : lease[r] # NoLease =>
              /\ lease[r].job \in Jobs /\ lease[r].attempts \in Nat
              /\ job[lease[r].job].attempts \in Nat
              /\ job[lease[r].job].state # "absent"
              /\ lease[r].attempts <= job[lease[r].job].attempts
        BY LeaseType DEF ClaimsNumbered, JobRow
      <3>7. \A r \in Slots : lease'[r] # NoLease =>
              /\ job'[lease'[r].job].state # "absent"
              /\ lease'[r].attempts <= job'[lease'[r].job].attempts
        BY <3>1, <3>2, <3>3, <3>4, <3>5, <3>6
      <3>8. \A r \in Slots \ {s} : lease[r] # NoLease /\ lease[r].job = j
              => lease[r].attempts < job[j].attempts + 1
        BY <3>1, <3>6
      <3> QED
        BY <3>1, <3>4, <3>5, <3>6, <3>7, <3>8 DEF ClaimsNumbered
    <2>4. ASSUME NEW s \in Slots, Renew(s)
          PROVE  ClaimsNumbered'
      BY <2>1, <2>4, RenewStep DEF TypeOK
    <2>5. ASSUME NEW s \in Slots,
                 Complete(s) \/ FailTransient(s) \/ FailUnsupportedPreset(s)
          PROVE  ClaimsNumbered'
      BY <2>1, <2>5, SettlementStep, SettlementRow DEF TypeOK
    <2>6. ASSUME NEW s \in Slots, Crash(s)
          PROVE  ClaimsNumbered'
      BY <2>1, <2>6 DEF Crash, LoseLease, TypeOK
    <2>7. CASE Tick \/ UNCHANGED vars
      BY <2>1, <2>7 DEF Tick, vars
    <2> QED
      BY <2>2, <2>3, <2>4, <2>5, <2>6, <2>7 DEF Next
  <1> QED
    BY <1>1, <1>2, TypeCorrect, PTL DEF Spec

(* complete and fail compare the owner's name only, and yet the slot that
   settles a job holds the latest claim of it: everyone else who believes to
   hold it was given an earlier one. *)
THEOREM OnlyLatestClaimSettles == Spec => SingleSettler
  <1> DEFINE Settled(s) ==
        LET j == lease[s].job IN
        lease[s] # NoLease /\ lease'[s] = NoLease /\ job'[j] # job[j]
          => /\ lease[s].attempts = job[j].attempts
             /\ \A r \in Slots \ {s} : lease[r].job = j => lease[r].attempts < job[j].attempts
  <1>1. TypeOK /\ AttemptsAgree /\ ClaimsNumbered /\ [Next]_vars => [\A s \in Slots : Settled(s)]_vars
    <2> SUFFICES ASSUME TypeOK, AttemptsAgree, ClaimsNumbered, Next,
                        NEW s \in Slots, lease[s] # NoLease, lease'[s] = NoLease,
                        job'[lease[s].job] # job[lease[s].job]
                 PROVE  /\ lease[s].attempts = job[lease[s].job].attempts
                        /\ \A r \in Slots \ {s} : lease[r].job = lease[s].job
                              => lease[r].attempts < job[lease[s].job].attempts
      OBVIOUS
    <2> DEFINE j == lease[s].job
    <2>0. j \in Jobs /\ lease[s].attempts \in Nat /\ job[j].attempts \in Nat /\ j # NoJob
      BY LeaseType, NoJobIsNoJob DEF JobRow
    <2>1. Owns(s, j)
      <3>1. ASSUME NEW k \in Jobs, Enqueue(k)  PROVE FALSE
        BY <3>1 DEF Enqueue
      <3>2. ASSUME NEW q \in Slots, ClaimNext(q)  PROVE FALSE
        <4> PICK k \in Jobs :
              /\ lease[q] = NoLease
              /\ lease' = [lease EXCEPT ![q] = [job |-> k, attempts |-> job[k].attempts + 1]]
          BY <3>2, ClaimStep
        <4> QED
          BY DEF TypeOK
      <3>3. ASSUME NEW q \in Slots, Renew(q)  PROVE Owns(s, j)
        BY <2>0, <3>3, RenewStep
      <3>4. ASSUME NEW q \in Slots, Complete(q) \/ FailTransient(q) \/ FailUnsupportedPreset(q)
            PROVE  Owns(s, j)
        BY <2>0, <3>4, SettlementStep, SettlementRow DEF TypeOK
      <3>5. ASSUME NEW q \in Slots, Crash(q)  PROVE FALSE
        BY <3>5 DEF Crash, LoseLease
      <3>6. CASE Tick
        BY <3>6 DEF Tick
      <3> QED
        BY <3>1, <3>2, <3>3, <3>4, <3>5, <3>6 DEF Next
    <2>2. lease[s].attempts = job[j].attempts
      BY <2>1 DEF AttemptsAgree
    <2>3. ASSUME NEW r \in Slots \ {s}, lease[r].job = j
          PROVE  lease[r].attempts < job[j].attempts
      <3>1. lease[r] # NoLease
        BY <2>0, <2>3 DEF NoLease
      <3>2. lease[r].attempts \in Nat
        BY <3>1, LeaseType
      <3> QED
        BY <2>0, <2>2, <2>3, <3>1, <3>2 DEF ClaimsNumbered
    <2> QED
      BY <2>2, <2>3
  <1> QED
    BY <1>1, TypeCorrect, AttemptsAgreeHolds, ClaimsNumberedHolds, PTL DEF Spec, SingleSettler

(* Nobody but the slot it was granted to changes a row under a live lease. *)
THEOREM LiveLeasesHold == Spec => LiveLeaseUntouched
  <1> DEFINE Untouched(j) ==
        job[j].state = "leased" /\ now < job[j].lease_until /\ job'[j] # job[j]
          => LET s == job[j].lease_owner IN
             /\ lease[s].job = j
             /\ job'[j].lease_owner = s \/ lease'[s] = NoLease
  <1>1. TypeOK /\ [Next]_vars => [\A j \in Jobs : Untouched(j)]_vars
    <2> SUFFICES ASSUME TypeOK, Next, NEW j \in Jobs,
                        job[j].state = "leased", now < job[j].lease_until, job'[j] # job[j]
                 PROVE  /\ lease[job[j].lease_owner].job = j
                        /\ \/ job'[j].lease_owner = job[j].lease_owner
                           \/ lease'[job[j].lease_owner] = NoLease
      OBVIOUS
    <2>1. ASSUME NEW k \in Jobs, Enqueue(k)  PROVE FALSE
      BY <2>1 DEF Enqueue, TypeOK
    <2>2. ASSUME NEW q \in Slots, ClaimNext(q)  PROVE FALSE
      <3> PICK k \in Jobs : Candidate(k) /\ job' = [job EXCEPT ![k] = Leased(job[k], q)]
        BY <2>2, ClaimStep
      <3>1. k = j
        BY DEF TypeOK
      <3>2. now \in Nat /\ job[j].lease_until \in Nat
        BY DEF TypeOK, JobRow
      <3> QED
        BY <3>1, <3>2 DEF Candidate, Eligible, EligibleRow
    <2>3. ASSUME NEW q \in Slots, Renew(q)
          PROVE  lease[job[j].lease_owner].job = j /\ job'[j].lease_owner = job[j].lease_owner
      BY <2>3, RenewStep DEF Owns
    <2>4. ASSUME NEW q \in Slots, Complete(q) \/ FailTransient(q) \/ FailUnsupportedPreset(q)
          PROVE  lease[job[j].lease_owner].job = j /\ lease'[job[j].lease_owner] = NoLease
      BY <2>4, SettlementStep, SettlementRow DEF Owns, TypeOK
    <2>5. ASSUME NEW q \in Slots, Crash(q)  PROVE FALSE
      BY <2>5 DEF Crash, LoseLease
    <2>6. CASE Tick
      BY <2>6 DEF Tick
    <2> QED
      BY <2>1, <2>2, <2>3, <2>4, <2>5, <2>6 DEF Next
  <1> QED
    BY <1>1, TypeCorrect, PTL DEF Spec, LiveLeaseUntouched

-----------------------------------------------------------------------------
(* One row as JobLease sees it. *)
AbsRow(row) == [state |-> row.state, attempts |-> Capped(row.attempts),
                owner |-> row.lease_owner, due |-> EligibleRow(row)]

LEMMA CappedFacts ==
  /\ Capped(0) = 0
  /\ \A n \in Nat : /\ Capped(n) \in Nat
                    /\ Capped(Capped(n) + 1) = Capped(n + 1)
                    /\ Abstract!Capped(Capped(n) + 1) = Capped(n + 1)
                    /\ Capped(n) >= MaxAttempts <=> n >= MaxAttempts
                    /\ Capped(n) >= 1 <=> n >= 1
  BY QueueAssumption DEF Capped, Abstract!Capped

(* A step that rewrites one row, seen through the mapping. *)
LEMMA OneRow ==
  ASSUME TypeOK, NEW j \in Jobs, NEW row, job' = [job EXCEPT ![j] = row], now' = now
  PROVE  AbsJob' = [AbsJob EXCEPT ![j] = AbsRow(row)]
  BY DEF AbsJob, AbsRow, TypeOK, Eligible, EligibleRow

(* A slot holds nothing in JobLease exactly when it holds nothing here. *)
LEMMA AbsNoLease ==
  ASSUME TypeOK, NEW s \in Slots
  PROVE  /\ AbsLease[s] = Abstract!NoLease <=> lease[s] = NoLease
         /\ lease[s] # NoLease => AbsLease[s].job = lease[s].job
  <1>1. CASE lease[s] = NoLease
    BY <1>1, CappedFacts DEF AbsLease, NoLease, Abstract!NoLease
  <1>2. CASE lease[s] # NoLease
    BY <1>2, LeaseType, NoJobIsNoJob DEF AbsLease, Abstract!NoLease
  <1> QED
    BY <1>1, <1>2

(* A slot that forgets its lease forgets it in JobLease. *)
LEMMA AbsRelease ==
  ASSUME TypeOK, NEW s \in Slots, lease' = [lease EXCEPT ![s] = NoLease]
  PROVE  /\ AbsLease' = [AbsLease EXCEPT ![s] = Abstract!NoLease]
         /\ AbsLease' = [q \in Slots |-> IF q \in {s} THEN Abstract!NoLease ELSE AbsLease[q]]
  <1>1. lease'[s] = NoLease /\ \A q \in Slots \ {s} : lease'[q] = lease[q]
    BY DEF TypeOK
  <1>2. AbsLease'[s] = Abstract!NoLease /\ \A q \in Slots \ {s} : AbsLease'[q] = AbsLease[q]
    BY <1>1, CappedFacts DEF AbsLease, NoLease, Abstract!NoLease
  <1>3. /\ AbsLease = [q \in Slots |-> AbsLease[q]]
        /\ AbsLease' = [q \in Slots |-> AbsLease'[q]]
    BY DEF AbsLease
  <1> QED
    BY <1>2, <1>3

LEMMA AbsSettled ==
  ASSUME NEW j \in Jobs, NEW st
  PROVE  Abstract!Settled(AbsJob[j], st) =
           [state |-> st, attempts |-> Capped(job[j].attempts), owner |-> NoSlot, due |-> FALSE]
  <1>1. AbsJob[j].attempts = Capped(job[j].attempts)
    BY DEF AbsJob
  <1> QED
    BY <1>1 DEF Abstract!Settled

(* A settlement is a JobLease settlement when the slot owns the row. *)
LEMMA SettleRefines ==
  ASSUME TypeOK, NEW s \in Slots, NEW j \in Jobs, NEW row \in JobRow,
         Owns(s, j),
         ~EligibleRow([row EXCEPT !.lease_owner = NoSlot, !.lease_until = 0]),
         Settle(s, j, row)
  PROVE  AbsJob' = [AbsJob EXCEPT ![j] = [state |-> row.state, attempts |-> Capped(row.attempts),
                                          owner |-> NoSlot, due |-> FALSE]]
  <1> DEFINE r == [row EXCEPT !.lease_owner = NoSlot, !.lease_until = 0]
  <1>1. AbsRow(r) = [state |-> row.state, attempts |-> Capped(row.attempts),
                     owner |-> NoSlot, due |-> FALSE]
    <2>1. r.state = row.state /\ r.attempts = row.attempts /\ r.lease_owner = NoSlot
      BY DEF JobRow
    <2>2. EligibleRow(r) = FALSE
      BY DEF EligibleRow
    <2> HIDE DEF r
    <2> QED
      BY <2>1, <2>2 DEF AbsRow
  <1>2. job' = [job EXCEPT ![j] = r] /\ now' = now
    BY DEF Settle
  <1> HIDE DEF r
  <1>3. AbsJob' = [AbsJob EXCEPT ![j] = AbsRow(r)]
    BY <1>2, OneRow
  <1> QED
    BY <1>1, <1>3

(* The SQLite queue implements what the JobQueue trait promises. *)
THEOREM LeaseRefinement == Spec => ImplementsLease
  <1>1. Init => Abstract!LeaseInit
    <2> SUFFICES ASSUME Init
                 PROVE  Abstract!LeaseInit
      OBVIOUS
    <2>1. AbsJob = [j \in Jobs |-> Abstract!NewJob]
      <3>1. \A j \in Jobs : Eligible(j) = FALSE
        BY DEF Init, NewJob, Eligible, EligibleRow
      <3> QED
        BY <3>1, CappedFacts DEF Init, AbsJob, NewJob, Abstract!NewJob
    <2>2. AbsLease = [s \in Slots |-> Abstract!NoLease]
      BY CappedFacts DEF Init, AbsLease, NoLease, Abstract!NoLease
    <2> QED
      BY <2>1, <2>2 DEF Abstract!LeaseInit
  <1>2. TypeOK /\ LeasedOnce /\ [Next]_vars => [Abstract!LeaseNext]_(Abstract!leaseVars)
    <2> SUFFICES ASSUME TypeOK, LeasedOnce, [Next]_vars
                 PROVE  Abstract!LeaseNext \/ UNCHANGED Abstract!leaseVars
      OBVIOUS
    <2>a. ASSUME NEW s \in Slots, NEW j \in Jobs
          PROVE  Abstract!Owns(s, j) <=> Owns(s, j)
      BY DEF Owns, Abstract!Owns, AbsJob
    <2>b. ASSUME NEW s \in Slots, LoseLease(s)
          PROVE  Abstract!LeaseNext
      <3>1. AbsJob' = AbsJob
        BY <2>b DEF LoseLease, AbsJob, Eligible, EligibleRow
      <3>2. Abstract!Lose({s})
        BY <2>b, <3>1, AbsRelease DEF Abstract!Lose, LoseLease
      <3> QED
        BY <3>2 DEF Abstract!LeaseNext
    <2>1. ASSUME NEW j \in Jobs, Enqueue(j)
          PROVE  Abstract!LeaseNext
      <3> DEFINE row == [NewJob EXCEPT !.state = "queued", !.available_at = now, !.created_at = now]
      <3>1. AbsJob' = [AbsJob EXCEPT ![j] = AbsRow(row)]
        BY <2>1, OneRow DEF Enqueue
      <3>2. AbsRow(row) = [state |-> "queued", attempts |-> 0, owner |-> NoSlot, due |-> TRUE]
        <4>1. EligibleRow(row) = TRUE
          BY DEF EligibleRow, NewJob, TypeOK
        <4>2. row.state = "queued" /\ Capped(row.attempts) = 0 /\ row.lease_owner = NoSlot
          BY CappedFacts DEF NewJob
        <4> HIDE DEF row
        <4> QED
          BY <4>1, <4>2 DEF AbsRow
      <3>3. AbsJob[j].state = "absent" /\ AbsLease' = AbsLease
        BY <2>1 DEF Enqueue, AbsJob, AbsLease
      <3>4. Abstract!Enqueue(j)
        BY <3>1, <3>2, <3>3 DEF Abstract!Enqueue
      <3> QED
        BY <3>4 DEF Abstract!LeaseNext
    <2>2. ASSUME NEW s \in Slots, ClaimNext(s)
          PROVE  Abstract!LeaseNext
      <3> PICK j \in Jobs :
            /\ lease[s] = NoLease
            /\ Candidate(j)
            /\ job' = [job EXCEPT ![j] = Leased(job[j], s)]
            /\ lease' = [lease EXCEPT ![s] = [job |-> j, attempts |-> job[j].attempts + 1]]
            /\ now' = now
        BY <2>2, ClaimStep
      <3> DEFINE n == Capped(job[j].attempts + 1)
      <3>1. job[j] \in JobRow /\ job[j].attempts \in Nat
        BY DEF TypeOK, JobRow
      <3>2. AbsRow(Leased(job[j], s)) =
              [state |-> "leased", attempts |-> n, owner |-> s, due |-> FALSE]
        <4>1. /\ Leased(job[j], s).state = "leased"
              /\ Leased(job[j], s).attempts = job[j].attempts + 1
              /\ Leased(job[j], s).lease_owner = s
              /\ Leased(job[j], s).lease_until = now + LeaseFor
          BY <3>1 DEF Leased, JobRow
        <4>2. EligibleRow(Leased(job[j], s)) = FALSE
          BY <4>1, QueueAssumption DEF EligibleRow, TypeOK
        <4> QED
          BY <4>1, <4>2 DEF AbsRow
      <3>3. AbsJob' = [AbsJob EXCEPT ![j] = AbsRow(Leased(job[j], s))]
        BY OneRow
      <3>4. AbsJob[j].state \in {"queued", "leased"} /\ AbsJob[j].due
               /\ AbsJob[j].attempts = Capped(job[j].attempts)
        BY DEF AbsJob, Candidate, Eligible, EligibleRow
      <3>5. Abstract!Capped(AbsJob[j].attempts + 1) = n
        BY <3>1, <3>4, CappedFacts
      <3>6. AbsLease' = [AbsLease EXCEPT ![s] = [job |-> j, attempts |-> n]]
        BY DEF AbsLease, TypeOK
      <3>7. AbsLease[s] = Abstract!NoLease
        BY AbsNoLease
      <3> HIDE DEF n
      <3>8. Abstract!Claim(s, j)
        BY <3>2, <3>3, <3>4, <3>5, <3>6, <3>7 DEF Abstract!Claim
      <3> QED
        BY <3>8 DEF Abstract!LeaseNext
    <2>3. ASSUME NEW s \in Slots, Renew(s)
          PROVE  Abstract!LeaseNext \/ UNCHANGED Abstract!leaseVars
      <3> DEFINE j == lease[s].job
      <3>1. CASE Renewable(s, j)
        <4> DEFINE row == [job[j] EXCEPT !.lease_until = now + LeaseFor]
        <4>1. j \in Jobs /\ job[j] \in JobRow
          BY <2>3, LeaseType DEF Renew
        <4>2. row.state = job[j].state /\ row.attempts = job[j].attempts
                /\ row.lease_owner = job[j].lease_owner /\ row.lease_until = now + LeaseFor
          BY <4>1 DEF JobRow
        <4>3. EligibleRow(row) = FALSE /\ Eligible(j) = FALSE
          BY <3>1, <4>1, <4>2, QueueAssumption
          DEF Renewable, Owns, Eligible, EligibleRow, TypeOK, JobRow
        <4>4. AbsJob' = [AbsJob EXCEPT ![j] = AbsRow(row)]
          BY <2>3, <3>1, <4>1, OneRow DEF Renew
        <4>5. AbsRow(row) = AbsJob[j]
          <5> HIDE DEF row
          <5> QED
            BY <4>1, <4>2, <4>3 DEF AbsRow, AbsJob
        <4>6. AbsJob' = AbsJob
          BY <4>1, <4>4, <4>5 DEF AbsJob
        <4>7. AbsLease' = AbsLease
          BY <2>3, <3>1 DEF Renew, AbsLease
        <4> QED
          BY <4>6, <4>7 DEF Abstract!leaseVars
      <3>2. CASE ~Renewable(s, j)
        BY <2>3, <2>b, <3>2 DEF Renew
      <3> QED
        BY <3>1, <3>2
    <2>4. ASSUME NEW s \in Slots, Complete(s)
          PROVE  Abstract!LeaseNext
      <3> DEFINE j == lease[s].job
                 row == [job[j] EXCEPT !.state = "completed"]
      <3>1. lease[s] # NoLease /\ Settle(s, j, row)
        BY <2>4 DEF Complete
      <3>2. j \in Jobs /\ job[j] \in JobRow
        BY <3>1, LeaseType
      <3>3. row \in JobRow /\ row.state = "completed" /\ row.attempts = job[j].attempts
        BY <3>2 DEF JobRow, JobState
      <3>4. ~EligibleRow([row EXCEPT !.lease_owner = NoSlot, !.lease_until = 0])
        BY <3>3 DEF EligibleRow, JobRow
      <3> HIDE DEF row
      <3>5. CASE Owns(s, j)
        <4>1. AbsJob' = [AbsJob EXCEPT ![j] = Abstract!Settled(AbsJob[j], "completed")]
          BY <3>1, <3>2, <3>3, <3>4, <3>5, SettleRefines, AbsSettled
        <4>2. AbsLease' = [AbsLease EXCEPT ![s] = Abstract!NoLease]
          BY <3>1, <3>5, AbsRelease DEF Settle
        <4>3. AbsLease[s] # Abstract!NoLease /\ AbsLease[s].job = j
          BY <3>1, AbsNoLease
        <4>4. Abstract!Complete(s)
          BY <2>a, <3>2, <3>5, <4>1, <4>2, <4>3 DEF Abstract!Complete, Abstract!Release
        <4> QED
          BY <4>4 DEF Abstract!LeaseNext
      <3>6. CASE ~Owns(s, j)
        BY <2>b, <3>1, <3>6 DEF Settle
      <3> QED
        BY <3>5, <3>6
    <2>5. ASSUME NEW s \in Slots, NEW max \in {1, MaxAttempts}, NEW at \in Nat,
                 max = 1 \/ at > now, Fail(s, max, at)
          PROVE  Abstract!LeaseNext
      <3> DEFINE j == lease[s].job
                 st == IF job[j].attempts >= max THEN "dead_letter" ELSE "queued"
                 row == [job[j] EXCEPT !.state = st, !.available_at = at]
      <3>1. lease[s] # NoLease /\ Settle(s, j, row)
        BY <2>5 DEF Fail
      <3>2. j \in Jobs /\ job[j] \in JobRow /\ job[j].attempts \in Nat
        BY <3>1, LeaseType DEF JobRow
      <3>3. row \in JobRow /\ row.state = st /\ row.attempts = job[j].attempts
              /\ row.available_at = at
        BY <3>2 DEF JobRow, JobState
      <3>4. CASE Owns(s, j)
        <4>1. st = "queued" => at > now
          BY <2>5, <3>2, <3>4 DEF Owns, LeasedOnce, JobRow
        <4>2. ~EligibleRow([row EXCEPT !.lease_owner = NoSlot, !.lease_until = 0])
          <5> DEFINE r == [row EXCEPT !.lease_owner = NoSlot, !.lease_until = 0]
          <5>1. r.state = st /\ r.available_at = at
            BY <3>3 DEF JobRow
          <5> HIDE DEF r
          <5> QED
            BY <4>1, <5>1 DEF EligibleRow, TypeOK
        <4>3. st = IF AbsJob[j].attempts >= max THEN "dead_letter" ELSE "queued"
          BY <2>5, <3>2, CappedFacts DEF AbsJob
        <4> HIDE DEF row
        <4>4. AbsJob' = [AbsJob EXCEPT ![j] = Abstract!Settled(AbsJob[j], st)]
          <5>1. AbsJob' = [AbsJob EXCEPT ![j] = [state |-> row.state,
                                                 attempts |-> Capped(row.attempts),
                                                 owner |-> NoSlot, due |-> FALSE]]
            BY <3>1, <3>2, <3>3, <3>4, <4>2, SettleRefines
          <5> HIDE DEF st
          <5>2. Abstract!Settled(AbsJob[j], st) =
                  [state |-> st, attempts |-> Capped(job[j].attempts), owner |-> NoSlot,
                   due |-> FALSE]
            BY <3>2, AbsSettled
          <5> QED
            BY <3>3, <5>1, <5>2
        <4>5. AbsLease' = [AbsLease EXCEPT ![s] = Abstract!NoLease]
          BY <3>1, <3>4, AbsRelease DEF Settle
        <4>6. AbsLease[s] # Abstract!NoLease /\ AbsLease[s].job = j
          BY <3>1, AbsNoLease
        <4> HIDE DEF st
        <4>7. Abstract!Fail(s, max)
          BY <2>a, <3>2, <3>4, <4>3, <4>4, <4>5, <4>6 DEF Abstract!Fail, Abstract!Release
        <4> QED
          BY <2>5, <4>7 DEF Abstract!LeaseNext
      <3>5. CASE ~Owns(s, j)
        BY <2>b, <3>1, <3>5 DEF Settle
      <3> QED
        BY <3>4, <3>5
    <2>6. ASSUME NEW s \in Slots, FailTransient(s) \/ FailUnsupportedPreset(s)
          PROVE  Abstract!LeaseNext
      <3>1. now + RetryDelay \in Nat /\ now + RetryDelay > now /\ now \in Nat
        BY QueueAssumption DEF TypeOK
      <3> QED
        BY <2>5, <2>6, <3>1 DEF FailTransient, FailUnsupportedPreset
    <2>7. ASSUME NEW s \in Slots, Crash(s)
          PROVE  Abstract!LeaseNext
      BY <2>b, <2>7 DEF Crash
    <2>8. CASE Tick
      <3>0. PICK J \in SUBSET Jobs :
              \A j \in Jobs : j \in J <=>
                \/ job[j].state = "queued" /\ job[j].available_at <= now + 1
                \/ job[j].state = "leased" /\ job[j].lease_until <= now + 1
        <4> DEFINE D == {j \in Jobs : \/ job[j].state = "queued" /\ job[j].available_at <= now + 1
                                      \/ job[j].state = "leased" /\ job[j].lease_until <= now + 1}
        <4> WITNESS D \in SUBSET Jobs
        <4> QED
          OBVIOUS
      <3>1. ASSUME NEW j \in Jobs
            PROVE  AbsJob'[j] = IF j \in J /\ AbsJob[j].state \in {"queued", "leased"}
                                THEN [state |-> AbsJob[j].state, attempts |-> AbsJob[j].attempts,
                                      owner |-> AbsJob[j].owner, due |-> TRUE]
                                ELSE AbsJob[j]
        <4>1. job'[j] = job[j] /\ now' = now + 1 /\ now \in Nat /\ job[j] \in JobRow
          BY <2>8 DEF Tick, TypeOK
        <4>2. Eligible(j)' <=> j \in J
          BY <3>0, <4>1 DEF Eligible, EligibleRow
        <4>3. Eligible(j) => Eligible(j)'
          BY <4>1 DEF Eligible, EligibleRow, JobRow
        <4>4. Eligible(j) \in BOOLEAN /\ Eligible(j)' \in BOOLEAN
          BY DEF Eligible, EligibleRow
        <4>5. j \in J => job[j].state \in {"queued", "leased"}
          BY <3>0
        <4>6. AbsJob'[j] = [state |-> job[j].state, attempts |-> Capped(job[j].attempts),
                            owner |-> job[j].lease_owner, due |-> Eligible(j)']
          BY <4>1 DEF AbsJob
        <4>7. AbsJob[j] = [state |-> job[j].state, attempts |-> Capped(job[j].attempts),
                           owner |-> job[j].lease_owner, due |-> Eligible(j)]
          BY DEF AbsJob
        <4>8. CASE j \in J
          <5>1. Eligible(j)' = TRUE
            BY <4>2, <4>4, <4>8
          <5> QED
            BY <4>5, <4>6, <4>7, <4>8, <5>1
        <4>9. CASE j \notin J
          <5>1. Eligible(j)' = Eligible(j)
            BY <4>2, <4>3, <4>4, <4>9
          <5> QED
            BY <4>6, <4>7, <4>9, <5>1
        <4> QED
          BY <4>8, <4>9
      <3>2. AbsJob' = [j \in Jobs |-> AbsJob'[j]]
        BY DEF AbsJob
      <3>3. AbsJob' = [j \in Jobs |-> IF j \in J /\ AbsJob[j].state \in {"queued", "leased"}
                                      THEN [state |-> AbsJob[j].state,
                                            attempts |-> AbsJob[j].attempts,
                                            owner |-> AbsJob[j].owner, due |-> TRUE]
                                      ELSE AbsJob[j]]
        BY <3>1, <3>2, Zenon
      <3>4. AbsLease' = AbsLease
        BY <2>8 DEF Tick, AbsLease
      <3>5. Abstract!BecomeDue(J)
        BY <3>3, <3>4 DEF Abstract!BecomeDue
      <3> QED
        BY <3>5 DEF Abstract!LeaseNext
    <2>9. CASE UNCHANGED vars
      BY <2>9 DEF vars, Abstract!leaseVars, AbsJob, AbsLease, Eligible, EligibleRow
    <2> QED
      BY <2>1, <2>2, <2>3, <2>4, <2>6, <2>7, <2>8, <2>9 DEF Next
  <1> QED
    BY <1>1, <1>2, TypeCorrect, LeasedOnceHolds, PTL DEF Spec, ImplementsLease, Abstract!LeaseSpec
=============================================================================
