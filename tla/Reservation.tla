---------------------------- MODULE Reservation -----------------------------
(***************************************************************************)
(* Creating a batch of uploads: the capacity check before any provider     *)
(* session is opened, the sessions and URLs one file at a time, the second *)
(* check in the transaction that saves the batch, and the aborts when      *)
(* something fails on the way.  The reserved-byte counters are columns of  *)
(* their own, kept by triggers on the uploads table.                       *)
(*                                                                         *)
(* A file is its byte length.  Of an upload's states, "active" stands for  *)
(* created, uploaded, quarantined and processing, which count against the  *)
(* active caps, and "kept" for ready, rejected and failed.                 *)
(***************************************************************************)
EXTENDS Integers, Sequences, FiniteSets, FiniteSetsExt

CONSTANTS
    Tenants,
    Calls,           \* create_batch calls in flight
    Ids,             \* upload ids yet to be drawn
    Lengths,         \* the byte lengths clients ask for
    BatchLength,     \* bound on the files of a request the model asks for
    MaxFiles,        \* UploadBatchPolicy
    MaxFileBytes,
    MaxBatchBytes,
    Threshold,       \* multipart_threshold_bytes
    MaxActive,       \* UploadCapacityPolicy
    MaxActiveOf,
    MaxBytes,
    MaxBytesOf,
    MaxProviderFaults, \* bound on provider and database failures
    MaxCuts          \* bound on calls that are cut off

(* UploadCapacityPolicy.is_valid *)
CapacityAssumption ==
    /\ MaxActiveOf \in 1..MaxActive
    /\ MaxBytesOf \in 1..MaxBytes
    /\ MaxActive \in Nat /\ MaxBytes \in Nat
    /\ Lengths \subseteq Nat /\ BatchLength \in Nat

VARIABLES
    row,      \* uploads: the tenant, length and state of each id
    used,     \* storage_usage_global.reserved_bytes
    usedBy,   \* tenant_storage_usage.reserved_bytes, 0 for a tenant without a row
    open,     \* the multipart sessions the provider holds
    call,     \* where each create_batch call is
    drawn,    \* the ids drawn so far
    stranded, \* history: sessions left by a call that ended without a batch
    provFaults,
    cuts

vars == <<row, used, usedBy, open, call, drawn, stranded, provFaults, cuts>>

NoRow == [tenant |-> "none", bytes |-> 0, state |-> "none"]

Idle == [step |-> "idle", tenant |-> "none", files |-> << >>, ids |-> << >>]

Total(files) == FoldSet(LAMBDA i, sum : files[i] + sum, 0, DOMAIN files)

RowsIn(states) == {id \in Ids : row[id].state \in states}

Of(tenant, S) == {id \in S : row[id].tenant = tenant}

Bytes(S) == FoldSet(LAMBDA id, sum : row[id].bytes + sum, 0, S)

(* plan: every video, and an image from the threshold on; the lengths from the
   threshold on stand for both *)
Multipart(bytes) == bytes >= Threshold

Init ==
    /\ row = [id \in Ids |-> NoRow]
    /\ used = 0
    /\ usedBy = [t \in Tenants |-> 0]
    /\ open = {}
    /\ call = [c \in Calls |-> Idle]
    /\ drawn = {}
    /\ stranded = {}
    /\ provFaults = 0
    /\ cuts = 0

ProviderFault ==
    /\ provFaults < MaxProviderFaults
    /\ provFaults' = provFaults + 1

(* UploadBatchPolicy.plan *)
Planned(files) ==
    /\ Len(files) \in 1..MaxFiles
    /\ \A i \in DOMAIN files : files[i] \in 1..MaxFileBytes
    /\ Total(files) <= MaxBatchBytes

(* capacity_allows *)
CapacityAllows(tenant, files) ==
    LET active == RowsIn({"active"}) IN
    /\ Cardinality(active) + Len(files) <= MaxActive
    /\ Cardinality(Of(tenant, active)) + Len(files) <= MaxActiveOf
    /\ used + Total(files) <= MaxBytes
    /\ usedBy[tenant] + Total(files) <= MaxBytesOf

(* The triggers: `delta` more bytes of this tenant are reserved *)
Reserve(tenant, delta) ==
    /\ used' = used + delta
    /\ usedBy' = [usedBy EXCEPT ![tenant] = @ + delta]

GoTo(c, step) == call' = [call EXCEPT ![c].step = step]

Answer(c) == call' = [call EXCEPT ![c] = Idle]

-----------------------------------------------------------------------------
(* create_batch up to its capacity preflight *)
CreateBatch(c, tenant, files) ==
    /\ call[c] = Idle
    /\ Planned(files)
    /\ call' = [call EXCEPT ![c] = [step |-> "preflight", tenant |-> tenant, files |-> files,
                                    ids |-> << >>]]
    /\ UNCHANGED <<row, used, usedBy, open, drawn, stranded, provFaults, cuts>>

(* has_capacity *)
Preflight(c) ==
    /\ call[c].step = "preflight"
    /\ IF CapacityAllows(call[c].tenant, call[c].files) THEN GoTo(c, "open") ELSE Answer(c)
    /\ UNCHANGED <<row, used, usedBy, open, drawn, stranded, provFaults, cuts>>

NextFile(c) == call[c].files[Len(call[c].ids) + 1]

Opening(c) == call[c].step = "open" /\ Len(call[c].ids) < Len(call[c].files)

(* One round of the loop: a session is created, or a URL signed *)
OpenFile(c, id) ==
    /\ Opening(c)
    /\ id \notin drawn
    /\ drawn' = drawn \cup {id}
    /\ open' = IF Multipart(NextFile(c)) THEN open \cup {id} ELSE open
    /\ call' = [call EXCEPT ![c].ids = Append(@, id)]
    /\ UNCHANGED <<row, used, usedBy, stranded, provFaults, cuts>>

(* The provider call fails.  The session may exist although its answer was lost. *)
OpenFails(c, id) ==
    /\ Opening(c)
    /\ ProviderFault
    /\ id \notin drawn
    /\ drawn' = drawn \cup {id}
    /\ \/ UNCHANGED <<open, stranded>>
       \/ /\ Multipart(NextFile(c))
          /\ open' = open \cup {id}
          /\ stranded' = stranded \cup {id}
    /\ GoTo(c, "cleanup")
    /\ UNCHANGED <<row, used, usedBy, cuts>>

Saving(c) == call[c].step = "open" /\ Len(call[c].ids) = Len(call[c].files)

InsertBatch(c) ==
    /\ row' = [id \in Ids |->
                 IF \E i \in DOMAIN call[c].ids : call[c].ids[i] = id
                 THEN LET i == CHOOSE j \in DOMAIN call[c].ids : call[c].ids[j] = id
                      IN [tenant |-> call[c].tenant, bytes |-> call[c].files[i], state |-> "active"]
                 ELSE row[id]]
    /\ Reserve(call[c].tenant, Total(call[c].files))
    /\ Answer(c)

(* Faulty: the transaction trusts the preflight *)
SaveBatch_TrustsPreflight(c) ==
    /\ Saving(c)
    /\ InsertBatch(c)
    /\ UNCHANGED <<open, drawn, stranded, provFaults, cuts>>

(* Faulty: a batch that does not fit is answered without aborting its sessions *)
SaveBatch_NoCleanup(c) ==
    /\ Saving(c)
    /\ IF CapacityAllows(call[c].tenant, call[c].files)
       THEN InsertBatch(c) ELSE Answer(c) /\ UNCHANGED <<row, used, usedBy>>
    /\ UNCHANGED <<open, drawn, stranded, provFaults, cuts>>

(* save_batch: the check and the inserts are one transaction *)
SaveBatch(c) ==
    /\ Saving(c)
    /\ IF CapacityAllows(call[c].tenant, call[c].files)
       THEN InsertBatch(c) ELSE GoTo(c, "cleanup") /\ UNCHANGED <<row, used, usedBy>>
    /\ UNCHANGED <<open, drawn, stranded, provFaults, cuts>>

SaveFails(c) ==
    /\ Saving(c)
    /\ ProviderFault
    /\ GoTo(c, "cleanup")
    /\ UNCHANGED <<row, used, usedBy, open, drawn, stranded, cuts>>

(* cleanup: the sessions are aborted in turn; one that cannot be is passed by *)
AbortNext(c) ==
    /\ call[c].step = "cleanup" /\ call[c].ids # << >>
    /\ LET id == Head(call[c].ids) IN
       \/ open' = open \ {id} /\ UNCHANGED <<stranded, provFaults>>
       \/ /\ id \in open
          /\ ProviderFault
          /\ stranded' = stranded \cup {id}
          /\ UNCHANGED open
    /\ call' = [call EXCEPT ![c].ids = Tail(@)]
    /\ UNCHANGED <<row, used, usedBy, drawn, cuts>>

(* The answer: the original error, or CleanupRequired *)
EndCleanup(c) ==
    /\ call[c].step = "cleanup" /\ call[c].ids = << >>
    /\ Answer(c)
    /\ UNCHANGED <<row, used, usedBy, open, drawn, stranded, provFaults, cuts>>

(* The client hangs up, the request times out or the process stops: the call's
   future is dropped where it waits *)
CutOff(c) ==
    /\ call[c] # Idle
    /\ cuts < MaxCuts
    /\ cuts' = cuts + 1
    /\ stranded' = stranded \cup {id \in open : \E i \in DOMAIN call[c].ids : call[c].ids[i] = id}
    /\ Answer(c)
    /\ UNCHANGED <<row, used, usedBy, open, drawn, provFaults>>

(* What becomes of an upload, and the triggers on its row *)
Settle(id) ==
    /\ row[id].state = "active"
    /\ row' = [row EXCEPT ![id].state = "kept"]
    /\ open' = open \ {id}
    /\ UNCHANGED <<used, usedBy, call, drawn, stranded, provFaults, cuts>>

Remove(id) ==
    /\ row[id].state \in {"active", "kept"}
    /\ row' = [row EXCEPT ![id].state = "deleted"]
    /\ open' = open \ {id}
    /\ Reserve(row[id].tenant, -row[id].bytes)
    /\ UNCHANGED <<call, drawn, stranded, provFaults, cuts>>

Purge(id) ==
    /\ row[id].state = "deleted"
    /\ row' = [row EXCEPT ![id] = NoRow]
    /\ UNCHANGED <<used, usedBy, open, call, drawn, stranded, provFaults, cuts>>

CallStep(c) ==
    \/ Preflight(c)
    \/ \E id \in Ids : OpenFile(c, id)
    \/ SaveBatch(c)
    \/ AbortNext(c)
    \/ EndCleanup(c)

Requests == UNION {[1..n -> Lengths] : n \in 1..BatchLength}

Next ==
    \/ \E c \in Calls :
         \/ \E tenant \in Tenants, files \in Requests : CreateBatch(c, tenant, files)
         \/ CallStep(c)
         \/ \E id \in Ids : OpenFails(c, id)
         \/ SaveFails(c)
         \/ CutOff(c)
    \/ \E id \in Ids : Settle(id) \/ Remove(id) \/ Purge(id)

Spec == Init /\ [][Next]_vars

-----------------------------------------------------------------------------

(* First part: the counters the capacity check reads agree with the rows they count: at
   every commit, for every tenant, through deletion and purge. *)
UsageMatchesRows ==
    /\ used = Bytes(RowsIn({"active", "kept"}))
    /\ \A t \in Tenants : usedBy[t] = Bytes(Of(t, RowsIn({"active", "kept"})))

(* Second part: however many calls pass the preflight together, the saved uploads stay
   within the global caps and within those of each tenant. *)
WithinCapacity ==
    LET active == RowsIn({"active"})
        held == RowsIn({"active", "kept"})
    IN
    /\ Cardinality(active) <= MaxActive /\ Bytes(held) <= MaxBytes
    /\ \A t \in Tenants :
         Cardinality(Of(t, active)) <= MaxActiveOf /\ Bytes(Of(t, held)) <= MaxBytesOf

(* The caps hold and what they are checked against stays true. *)
CapacityKept == UsageMatchesRows /\ WithinCapacity

(* A failed batch closes what it opened: every session belongs to a saved
   upload or to a call in flight, except those whose abort failed, whose answer
   was lost or whose call was cut off; and no saved upload lost its session to
   the clean-up of another batch. *)
SessionsOwned ==
    /\ \A id \in open \ stranded :
         \/ row[id].state = "active"
         \/ \E c \in Calls : \E i \in DOMAIN call[c].ids : call[c].ids[i] = id
    /\ \A id \in Ids : row[id].state = "active" /\ Multipart(row[id].bytes) => id \in open

=============================================================================
