------------------------------ MODULE UploadApi ------------------------------
(***************************************************************************)
(* The upload control calls of the API and the client's transfers to the   *)
(* object store.  A handler reads the upload row once, then works from     *)
(* what it read: between its steps any other handler, worker or cleaner    *)
(* may run.  Calls that are refused at the first read, and repeated        *)
(* confirmations, change nothing and are not modelled.                     *)
(***************************************************************************)
EXTENDS MediaStore

CONSTANTS
    Requests,   \* handlers of confirm, complete and abort calls in flight
    Deletions   \* the uploads a deletion may be requested for

VARIABLES
    request,  \* what each handler is about to do, and for which upload
    url       \* the uploads with a single-PUT URL that has not expired

apiVars == <<request, url>>

NoRequest == [step |-> "none", upload |-> NoJob]

Request == [step : {"complete", "verify", "mark", "abort", "tombstone"}, upload : Uploads]

ApiInit ==
    /\ request = [r \in Requests |-> NoRequest]
    /\ url = Uploads \ Multipart

ApiTypeOK ==
    /\ request \in [Requests -> Request \cup {NoRequest}]
    /\ url \subseteq Uploads

GoTo(r, step) == request' = [request EXCEPT ![r] = [step |-> step, upload |-> request[r].upload]]

Return(r) == request' = [request EXCEPT ![r] = NoRequest]

-----------------------------------------------------------------------------
(* The client stores bytes through its presigned URL, as often as it likes *)
ClientPut(u, content) ==
    /\ u \in url
    /\ raw' = [raw EXCEPT ![u] = content]
    /\ UNCHANGED <<tableVars, leaseVars, media, session, apiVars>>

UrlExpires(u) ==
    /\ u \in url
    /\ url' = url \ {u}
    /\ UNCHANGED <<tableVars, leaseVars, objectVars, request>>

(* find_upload at the start of confirm_single_upload, complete_multipart and
   abort_multipart, which go on only from created *)
Begin(r, u, step) ==
    /\ request[r] = NoRequest
    /\ state[u] = "created"
    /\ request' = [request EXCEPT ![r] = [step |-> step, upload |-> u]]
    /\ UNCHANGED <<tableVars, leaseVars, objectVars, url>>

ConfirmSingleUpload(r, u) == u \notin Multipart /\ Begin(r, u, "verify")

CompleteMultipart(r, u) == u \in Multipart /\ Begin(r, u, "complete")

AbortMultipart(r, u) == u \in Multipart /\ Begin(r, u, "abort")

(* The provider assembles the parts.  A session that is gone is an error. *)
ProviderComplete(r, content) ==
    LET u == request[r].upload IN
    /\ request[r].step = "complete"
    /\ u \in session
    /\ session' = session \ {u}
    /\ raw' = [raw EXCEPT ![u] = content]
    /\ GoTo(r, "verify")
    /\ UNCHANGED <<tableVars, leaseVars, media, url>>

(* verify_stored_size: the object must exist *)
VerifyStoredSize(r) ==
    /\ request[r].step = "verify"
    /\ raw[request[r].upload] # NoContent
    /\ GoTo(r, "mark")
    /\ UNCHANGED <<tableVars, leaseVars, objectVars, url>>

Confirm(r) ==
    /\ request[r].step = "mark"
    /\ MarkQuarantined(request[r].upload)
    /\ Return(r)
    /\ UNCHANGED <<objectVars, url>>

(* NoSuchUpload counts as aborted *)
ProviderAbort(r) ==
    /\ request[r].step = "abort"
    /\ session' = session \ {request[r].upload}
    /\ GoTo(r, "tombstone")
    /\ UNCHANGED <<tableVars, leaseVars, raw, media, url>>

Tombstone(r) ==
    /\ request[r].step = "tombstone"
    /\ MarkDeleted(request[r].upload)
    /\ Return(r)
    /\ UNCHANGED <<leaseVars, objectVars, url>>

(* Any step may be refused or fail, or the API may stop: what the handler did
   so far stays *)
GiveUp(r) ==
    /\ request[r] # NoRequest
    /\ Return(r)
    /\ UNCHANGED <<tableVars, leaseVars, objectVars, url>>

Delete(u) ==
    /\ u \in Deletions
    /\ RequestDeletion(u)
    /\ UNCHANGED <<leaseVars, objectVars, apiVars>>

ApiNext ==
    \/ \E u \in Uploads :
          \/ \E content \in Contents : ClientPut(u, content)
          \/ UrlExpires(u)
          \/ Delete(u)
    \/ \E r \in Requests :
          \/ \E u \in Uploads : ConfirmSingleUpload(r, u) \/ CompleteMultipart(r, u)
                                  \/ AbortMultipart(r, u)
          \/ \E content \in Contents : ProviderComplete(r, content)
          \/ VerifyStoredSize(r)
          \/ Confirm(r)
          \/ ProviderAbort(r)
          \/ Tombstone(r)
          \/ GiveUp(r)
=============================================================================
