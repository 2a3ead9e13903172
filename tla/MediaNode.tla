------------------------------ MODULE MediaNode ------------------------------
(***************************************************************************)
(* One node: the upload API, the worker processes and the cleanup runs     *)
(* interleaved over the database and the object store they share.          *)
(***************************************************************************)
EXTENDS UploadApi, Worker, Lifecycle

vars == <<tableVars, objectVars, leaseVars, apiVars, workerVars, lifecycleVars>>

Init == StoreInit /\ LeaseInit /\ ApiInit /\ WorkerInit /\ LifecycleInit

TimePasses == \E u \in Uploads : Age(u) \/ CleanupDue(u)

Next ==
    \/ ApiNext /\ UNCHANGED <<workerVars, lifecycleVars>>
    \/ WorkerNext /\ UNCHANGED <<apiVars, lifecycleVars>>
    \/ LifecycleNext /\ UNCHANGED <<apiVars, workerVars>>
    \/ TimePasses /\ UNCHANGED <<apiVars, workerVars, lifecycleVars>>

Spec == Init /\ [][Next]_vars

(* The worker service is restarted whenever it stops and polls for work, the
   cleanup timer fires again and again, and clocks advance.  Nothing is
   assumed of clients, of API handlers or of how long data is retained. *)
WorkerFairness ==
    /\ \A s \in Slots : WF_vars(SlotStep(s) /\ UNCHANGED <<apiVars, lifecycleVars>>)
    /\ \A u \in Uploads : WF_vars(JobDue(u) /\ UNCHANGED <<apiVars, lifecycleVars>>)

CleanerFairness ==
    /\ \A c \in Cleaners : WF_vars(CleanerStep(c) /\ UNCHANGED <<apiVars, workerVars>>)
    /\ \A u \in Uploads :
          WF_vars(CleanupDue(u) /\ UNCHANGED <<apiVars, workerVars, lifecycleVars>>)

FairSpec == Spec /\ WorkerFairness /\ CleanerFairness

-----------------------------------------------------------------------------
(* Every variable has its type. *)
TypeOK == StoreTypeOK /\ LeaseTypeOK /\ ApiTypeOK /\ WorkerTypeOK /\ LifecycleTypeOK

(* The queue and the uploads table agree although no transaction of the worker
   spans both: an upload that is not decided still has a live job, a completed
   job left a decided upload, and a dead-lettered job left a rejected one. *)
JobsMatchUploads ==
    \A u \in Uploads :
      /\ state[u] \in UndecidedState => job[u].state \in {"queued", "leased"}
      /\ job[u].state = "completed" => state[u] \in {"ready", "rejected"} \cup GoneState
      /\ job[u].state = "dead_letter" => state[u] \in {"rejected"} \cup GoneState

(* Immutable derivatives: whatever slots raced on an upload, and whatever the
   client stored meanwhile, the derivative rows are a full set made from the
   one source digest the upload recorded, ready uploads have them, and no
   derivative object was ever stored for another digest. *)
OneSourcePublished ==
    /\ \A u \in Uploads :
         /\ derivs[u] # {} => derivs[u] = {sha[u]} \X Variants
         /\ state[u] = "ready" => derivs[u] # {}
    /\ \A key \in media : key[2] = sha[key[1]]

(* A ready upload nobody asked to delete has every object its rows name. *)
ReadyIsServable ==
    \A u \in Uploads :
      state[u] = "ready" /\ u \notin delreq
        => {<<u, row[1], row[2]>> : row \in derivs[u]} \subseteq media

(* Every change of an upload's state is a transition of the domain model. *)
Abstract == INSTANCE UploadLifecycle
ImplementsLifecycle == Abstract!LifecycleSpec

(* With finitely many environment failures every confirmed upload is decided. *)
EveryUploadDecided ==
    \A u \in Uploads :
      state[u] = "quarantined" ~> state[u] \in {"ready", "rejected"} \cup GoneState

(* A deletion the API accepted is carried out, unless cleanup ran into its
   attempt ceiling and left the row to the operator. *)
DeletionHonoured ==
    \A u \in Uploads :
      u \in delreq ~> state[u] \in GoneState \/ cleanups[u] = MaxCleanups

(* DeletionRequestError: "Active processing cannot be deleted without a worker
   cancellation protocol." *)
ActiveNeverDeleted ==
    [][\A u \in Uploads : state[u] \in UndecidedState => state'[u] # "deleted"]_vars

(* SPEC.md: a job whose lease expired is retried and, past the maximum number
   of attempts, dead-lettered.  No job stays in the queue for ever. *)
ExhaustedJobLeavesQueue ==
    \A u \in Uploads :
      job[u].attempts >= MaxAttempts ~> job[u].state \notin {"queued", "leased"}

(* SPEC.md: "every completion is idempotent".  A client whose complete call got
   no answer repeats it: as long as the upload is created, either the provider
   session the repeated call needs is still open, or nothing was assembled, or
   a call that assembled the parts is still running. *)
CompletionRetriable ==
    \A u \in Multipart :
      state[u] = "created" /\ raw[u] # NoContent
        => \/ u \in session
           \/ \E r \in Requests : request[r] \in [step : {"verify", "mark"}, upload : {u}]
=============================================================================
