---------------------------- MODULE StorageCanary ----------------------------
(***************************************************************************)
(* S3StorageAdmin.canary: in every configured bucket, under keys of a fresh *)
(* run id, store an object, read it back, complete one multipart upload and *)
(* abort another, then delete all three keys.  Every provider call may      *)
(* fail, and a failed call may still have taken effect.                     *)
(***************************************************************************)
EXTENDS Naturals, Sequences, FiniteSets

CONSTANTS
    Buckets,    \* unique_buckets, in order
    MaxFaults   \* provider failures

(* At least one bucket is configured *)
CanaryAssumption ==
    Len(Buckets) \in Nat \ {0} /\ DOMAIN Buckets = 1..Len(Buckets) /\ MaxFaults \in Nat

VARIABLES
    step,       \* the call the run makes next
    at,         \* the bucket it is at
    failed,     \* result: a check failed, to be reported after the cleanup
    unclean,    \* cleanup_error
    deleting,   \* cleanup_keys still to delete
    objects,    \* stored canary objects, <<bucket, key>>
    sessions,   \* open multipart uploads, <<bucket, key>>
    lost,       \* steps whose effect the provider kept although the call failed
    faults

vars == <<step, at, failed, unclean, deleting, objects, sessions, lost, faults>>

Keys == {"single", "multipart", "abort"}

Slots == {Buckets[i] : i \in DOMAIN Buckets} \X Keys

Init ==
    /\ step = "put" /\ at = 1
    /\ failed = FALSE /\ unclean = FALSE /\ deleting = {}
    /\ objects = {} /\ sessions = {} /\ lost = {} /\ faults = 0

Here(key) == <<Buckets[at], key>>

(* The calls of a bucket, in order, and the one that follows each *)
Follows ==
    [put |-> "check", check |-> "create", create |-> "parts", parts |-> "complete",
     complete |-> "head", head |-> "create_abort", create_abort |-> "abort_abort",
     abort_abort |-> "delete"]

(* What a call does at the provider *)
Effect(call) ==
    /\ objects' = CASE call = "put" -> objects \cup {Here("single")}
                    [] call = "complete" -> objects \cup {Here("multipart")}
                    [] OTHER -> objects
    /\ sessions' = CASE call = "create" -> sessions \cup {Here("multipart")}
                     [] call = "create_abort" -> sessions \cup {Here("abort")}
                     [] call \in {"complete", "abort_parts"} -> sessions \ {Here("multipart")}
                     [] call = "abort_abort" -> sessions \ {Here("abort")}
                     [] OTHER -> sessions

GoTo(s) == step' = s /\ deleting' = IF s = "delete" THEN Keys ELSE {}

(* A call that succeeds.  The object of a multipart upload is there only
   when the parts were completed. *)
CallSucceeds ==
    /\ step \in DOMAIN Follows
    /\ Effect(step)
    /\ GoTo(Follows[step])
    /\ UNCHANGED <<at, failed, unclean, lost, faults>>

OnError_Returns(call) ==
    IF call \in {"parts", "complete", "head"} THEN "abort_parts" ELSE "failed"

(* Where a failed call leads: a PUT returns at once, a call on the first
   multipart upload aborts it, every other one goes to the cleanup *)
OnError(call) ==
    CASE call = "put" -> "failed"
      [] call \in {"parts", "complete", "head"} -> "abort_parts"
      [] OTHER -> "delete"

CallFails ==
    /\ step \in DOMAIN Follows /\ faults < MaxFaults
    /\ \/ Effect(step) /\ lost' = lost \cup {step}
       \/ UNCHANGED <<objects, sessions, lost>>
    /\ failed' = TRUE /\ faults' = faults + 1
    /\ GoTo(OnError(step))
    /\ UNCHANGED <<at, unclean>>

(* The answer of the abort after a failed multipart upload is not looked at *)
AbortParts ==
    /\ step = "abort_parts"
    /\ \/ Effect(step) /\ UNCHANGED faults
       \/ faults < MaxFaults /\ faults' = faults + 1 /\ UNCHANGED <<objects, sessions>>
    /\ GoTo("delete")
    /\ UNCHANGED <<at, failed, unclean, lost>>

(* Every key is tried; an error is kept for the report *)
DeleteKey(key) ==
    /\ step = "delete" /\ key \in deleting
    /\ \/ objects' = objects \ {Here(key)} /\ UNCHANGED <<faults, unclean>>
       \/ faults < MaxFaults /\ faults' = faults + 1 /\ unclean' = TRUE /\ UNCHANGED objects
    /\ deleting' = deleting \ {key}
    /\ UNCHANGED <<step, at, failed, sessions, lost>>

(* The result of the bucket: an error ends the run *)
BucketDone ==
    /\ step = "delete" /\ deleting = {}
    /\ \/ (failed \/ unclean) /\ step' = "failed" /\ UNCHANGED at
       \/ ~failed /\ ~unclean /\ at = Len(Buckets) /\ step' = "passed" /\ UNCHANGED at
       \/ ~failed /\ ~unclean /\ at < Len(Buckets) /\ step' = "put" /\ at' = at + 1
    /\ UNCHANGED <<failed, unclean, deleting, objects, sessions, lost, faults>>

RunStep == CallSucceeds \/ CallFails \/ AbortParts \/ (\E key \in Keys : DeleteKey(key)) \/ BucketDone

Next == RunStep

Spec == Init /\ [][Next]_vars

-----------------------------------------------------------------------------
(* "PASS" of storage doctor: every bucket was checked and the run left neither
   an object nor an open multipart session behind. *)
PassIsClean ==
    step = "passed" => objects = {} /\ sessions = {} /\ at = Len(Buckets)

(* A run that failed accounts for what it left: an object stays only if a
   DELETE was reported to fail or the answer of the first PUT was lost, an open
   session only if creating or aborting one failed. *)
LeftoversExplained ==
    step = "failed" =>
      /\ objects # {} => unclean \/ "put" \in lost
      /\ sessions # {} => failed
      /\ \A left \in objects \cup sessions : left[1] = Buckets[at]

(* A canary accounts for everything it created. *)
CanaryAccounts == PassIsClean /\ LeftoversExplained
=============================================================================
