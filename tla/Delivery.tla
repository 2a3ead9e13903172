------------------------------ MODULE Delivery ------------------------------
(***************************************************************************)
(* DerivativeDeliveryService for one upload: requests look its manifest up *)
(* in a cache, share one load when it is missing, ask the database again   *)
(* whether delivery is allowed, and sign a URL.  Publication, deletion,    *)
(* cleanup and purge go on meanwhile, and the deletion handler invalidates *)
(* the cache entry after its commit.  Requests are cut off by the router's *)
(* timeout.                                                                *)
(***************************************************************************)
EXTENDS Naturals

CONSTANTS
    Requests,        \* delivery requests, control and public
    UrlTtl,          \* signed_url_ttl
    RequestTimeout,  \* TimeoutLayer
    MaxTime          \* bound on the clock

DeliveryAssumption == UrlTtl \in Nat /\ RequestTimeout \in Nat /\ MaxTime \in Nat

VARIABLES
    row,       \* uploads.state, or "none"
    pending,   \* delete_requested_at is set
    cached,    \* the cache holds the manifest
    loaded,    \* what the running load has read: "none" before
    req,       \* request -> its progress
    handler,   \* the deletion handler: "idle", "committed", "acknowledged"
    gone,      \* when the deletion was committed
    clock

vars == <<row, pending, cached, loaded, req, handler, gone, clock>>

Fresh == [step |-> "new", late |-> FALSE, since |-> 0, expires |-> 0]

Init ==
    /\ row = "processing" /\ pending = FALSE /\ cached = FALSE /\ loaded = "none"
    /\ req = [r \in Requests |-> Fresh]
    /\ handler = "idle" /\ gone = 0 /\ clock = 0

(* is_delivery_allowed *)
Allowed == row = "ready" /\ ~pending

(* find_status and from_status: the whole pair of derivatives, or an error *)
ManifestRead == IF Allowed THEN "manifest" ELSE "error"

GoTo(r, step) == req' = [req EXCEPT ![r].step = step]

InFlight(r) == req[r].step \in {"get", "lead", "wait", "check", "sign"}

Leading == \E r \in Requests : req[r].step = "lead"

-----------------------------------------------------------------------------
Arrive(r) ==
    /\ req[r].step = "new"
    /\ req' = [req EXCEPT ![r] = [step |-> "get", late |-> handler # "idle", since |-> clock,
                                  expires |-> 0]]
    /\ UNCHANGED <<row, pending, cached, loaded, handler, gone, clock>>

(* manifests.get, else try_get_with: one request loads, the others wait for it *)
Lookup(r) ==
    /\ req[r].step = "get"
    /\ GoTo(r, IF cached THEN "check" ELSE IF Leading THEN "wait" ELSE "lead")
    /\ UNCHANGED <<row, pending, cached, loaded, handler, gone, clock>>

LoadManifest(r) ==
    /\ req[r].step = "lead" /\ loaded = "none"
    /\ loaded' = ManifestRead
    /\ UNCHANGED <<row, pending, cached, req, handler, gone, clock>>

(* The load ends: everyone who waits shares the manifest or the error *)
FinishLoad(r) ==
    /\ req[r].step = "lead" /\ loaded # "none"
    /\ cached' = (cached \/ loaded = "manifest")
    /\ req' = [s \in Requests |->
                 IF req[s].step \in {"lead", "wait"}
                   THEN [req[s] EXCEPT !.step = IF loaded = "manifest" THEN "check" ELSE "failed"]
                   ELSE req[s]]
    /\ loaded' = "none"
    /\ UNCHANGED <<row, pending, handler, gone, clock>>

Recheck_Cached(r) ==
    /\ req[r].step = "check"
    /\ GoTo(r, "sign")
    /\ UNCHANGED <<row, pending, cached, loaded, handler, gone, clock>>

(* A manifest that may no longer be delivered is taken out of the cache *)
Recheck(r) ==
    /\ req[r].step = "check"
    /\ IF Allowed
         THEN GoTo(r, "sign") /\ UNCHANGED cached
         ELSE GoTo(r, "failed") /\ cached' = FALSE
    /\ UNCHANGED <<row, pending, loaded, handler, gone, clock>>

(* presign_get and trusted_redirect; a redirect that is not trusted fails *)
Sign(r) ==
    /\ req[r].step = "sign"
    /\ \/ req' = [req EXCEPT ![r] = [@ EXCEPT !.step = "served", !.expires = clock + UrlTtl]]
       \/ GoTo(r, "failed")
    /\ UNCHANGED <<row, pending, cached, loaded, handler, gone, clock>>

(* The timeout, or the client hanging up.  When the loading request goes, one
   of those that wait starts over. *)
CutOff(r) ==
    /\ InFlight(r)
    /\ req' = [s \in Requests |->
                 IF s = r THEN [req[s] EXCEPT !.step = "failed"]
                 ELSE IF req[r].step = "lead" /\ req[s].step = "wait"
                   THEN [req[s] EXCEPT !.step = "get"] ELSE req[s]]
    /\ loaded' = IF req[r].step = "lead" THEN "none" ELSE loaded
    /\ UNCHANGED <<row, pending, cached, handler, gone, clock>>

(* The client's next request *)
Again(r) ==
    /\ req[r].step = "failed"
    /\ req' = [req EXCEPT ![r] = Fresh]
    /\ UNCHANGED <<row, pending, cached, loaded, handler, gone, clock>>

-----------------------------------------------------------------------------
Publish ==
    /\ row = "processing"
    /\ row' = "ready"
    /\ UNCHANGED <<pending, cached, loaded, req, handler, gone, clock>>

(* request_upload_deletion: the commit, then invalidate_upload and the answer *)
RequestDeletion ==
    /\ handler = "idle" /\ row = "ready"
    /\ pending' = TRUE /\ handler' = "committed" /\ gone' = clock
    /\ UNCHANGED <<row, cached, loaded, req, clock>>

Invalidate ==
    /\ handler = "committed"
    /\ cached' = FALSE /\ handler' = "acknowledged"
    /\ UNCHANGED <<row, pending, loaded, req, gone, clock>>

(* The lifecycle worker, and after the retention the purge *)
Cleanup ==
    /\ row = "ready" /\ pending
    /\ row' = "deleted"
    /\ UNCHANGED <<pending, cached, loaded, req, handler, gone, clock>>

Purge ==
    /\ row = "deleted"
    /\ row' = "none" /\ pending' = FALSE
    /\ UNCHANGED <<cached, loaded, req, handler, gone, clock>>

(* manifest_cache_ttl or the weight limit *)
Evict ==
    /\ cached
    /\ cached' = FALSE
    /\ UNCHANGED <<row, pending, loaded, req, handler, gone, clock>>

Tick ==
    /\ clock < MaxTime
    /\ \A r \in Requests : InFlight(r) => clock - req[r].since < RequestTimeout
    /\ clock' = clock + 1
    /\ UNCHANGED <<row, pending, cached, loaded, req, handler, gone>>

Next ==
    \/ \E r \in Requests :
         \/ Arrive(r) \/ Lookup(r) \/ LoadManifest(r) \/ FinishLoad(r) \/ Recheck(r)
         \/ Sign(r) \/ CutOff(r) \/ Again(r)
    \/ Publish \/ RequestDeletion \/ Invalidate \/ Cleanup \/ Purge \/ Evict \/ Tick

Spec == Init /\ [][Next]_vars

-----------------------------------------------------------------------------
(* docs/SECURITY.md: "every delivery checks the Ready/deletion guard in SQLite
   again": a request that arrives after a deletion was committed is never given
   a URL, although a load that began earlier may put the manifest back into
   the cache after the handler invalidated it. *)
NoUrlAfterDeletion == \A r \in Requests : req[r].step = "served" => ~req[r].late

(* Requests already under way may still be served, but no URL outlives the
   deletion by more than the request timeout and its own lifetime. *)
LinksExpire ==
    handler # "idle" =>
      \A r \in Requests :
        req[r].step = "served" => req[r].expires <= gone + RequestTimeout + UrlTtl

(* The deletion ends delivery: at once for later requests, and for every link
   in bounded time. *)
DeletionEndsDelivery == NoUrlAfterDeletion /\ LinksExpire
=============================================================================
