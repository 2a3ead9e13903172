-------------------------- MODULE StorageBootstrap --------------------------
(***************************************************************************)
(* S3StorageAdmin.bootstrap: for every configured bucket, in order, check  *)
(* or create it, then merge one managed CORS rule into the rules the       *)
(* provider returns, write them back and read them again.                  *)
(*                                                                         *)
(* The provider has no conditional write for CORS: reading and writing are *)
(* two calls, and other bootstraps or an operator's console may write in   *)
(* between.  A call may fail, with or without its effect.                  *)
(***************************************************************************)
EXTENDS Naturals, Sequences, FiniteSets

CONSTANTS
    Admins,     \* concurrent g7mbctl processes
    Origins,    \* the origin lists they install
    NoOrigins,  \* --skip-cors: the rules are left alone
    Commands,   \* the command lines they are run with, of [Admins -> Arguments]
    Buckets,    \* unique_buckets: the buckets of the settings, in order
    Foreign,    \* CORS rules of other parties
    MaxRules,   \* the provider's limit (100)
    Editors,    \* other parties that add a rule through their console
    MaxFaults   \* provider failures

(* create is the --create-missing flag.  Lightsail refuses it, and origins,
   before any call. *)
Arguments == [create : BOOLEAN, origins : Origins \cup {NoOrigins}]

Managed == [managed : Origins]

BootstrapAssumption ==
    /\ Commands \subseteq [Admins -> Arguments]
    /\ Len(Buckets) \in Nat \ {0} /\ DOMAIN Buckets = 1..Len(Buckets)
    /\ MaxRules \in Nat \ {0} /\ MaxFaults \in Nat
    /\ IsFiniteSet(Foreign) /\ IsFiniteSet(Origins) /\ Editors \subseteq Foreign
    /\ Foreign \cap Managed = {}

VARIABLES
    exists,     \* buckets that exist
    cors,       \* bucket -> its rules: a foreign rule, or the managed one with its origins
    admin,      \* admin -> its progress
    faults

vars == <<exists, cors, admin, faults>>

BucketSet == {Buckets[i] : i \in DOMAIN Buckets}

Rules == SUBSET (Foreign \cup Managed)

Fresh(args) == [step |-> "head", at |-> 1, create |-> args.create, origins |-> args.origins,
                rules |-> {}]       \* what get_bucket_cors returned

Init ==
    /\ exists \in SUBSET BucketSet
    /\ \E rules \in {R \in Rules : Cardinality(R \cap Managed) <= 1
                                     /\ Cardinality(R) <= MaxRules} :
         cors = [b \in BucketSet |-> IF b \in exists THEN rules \ Editors ELSE {}]
    /\ \E args \in Commands : admin = [a \in Admins |-> Fresh(args[a])]
    /\ faults = 0

At(a) == Buckets[admin[a].at]

GoTo(a, step) == admin' = [admin EXCEPT ![a].step = step]

(* The bucket is done: the next one, or the report *)
NextBucket(a) ==
    admin' = [admin EXCEPT ![a] = IF @.at = Len(Buckets)
                                    THEN [@ EXCEPT !.step = "passed"]
                                    ELSE [@ EXCEPT !.step = "head", !.at = admin[a].at + 1]]

(* ensure_bucket returned: CORS is configured only when origins were given *)
Ensured(a) == IF admin[a].origins = NoOrigins THEN NextBucket(a) ELSE GoTo(a, "read")

Missing(a) == GoTo(a, IF admin[a].create THEN "create" ELSE "failed")

(* head_bucket: found, or missing *)
HeadBucket(a) ==
    /\ admin[a].step = "head"
    /\ IF At(a) \in exists THEN Ensured(a) ELSE Missing(a)
    /\ UNCHANGED <<exists, cors, faults>>

(* Another process may have created it meanwhile: the bucket is this account's *)
CreateBucket(a) ==
    /\ admin[a].step = "create"
    /\ IF At(a) \in exists
         THEN GoTo(a, "failed") /\ UNCHANGED exists
         ELSE GoTo(a, "created") /\ exists' = exists \cup {At(a)}
    /\ UNCHANGED <<cors, faults>>

HeadCreated(a) ==
    /\ admin[a].step = "created"
    /\ Ensured(a)
    /\ UNCHANGED <<exists, cors, faults>>

merge_managed_cors_rules_Appends(rules, origins) == rules \cup {[managed |-> origins]}

merge_managed_cors_rules_Replaces(rules, origins) == {[managed |-> origins]}

merge_managed_cors_rules(rules, origins) == (rules \ Managed) \cup {[managed |-> origins]}

HasRoom_CountsOwn(rules) == Cardinality(rules) < MaxRules

(* The limit is checked after the managed rule was taken out *)
HasRoom(rules) == Cardinality(rules \ Managed) < MaxRules

(* get_bucket_cors: the rules to merge into, unless there is no room for one more *)
ReadCors(a) ==
    /\ admin[a].step = "read"
    /\ admin' = [admin EXCEPT ![a] =
         [@ EXCEPT !.step = IF HasRoom(cors[At(a)]) THEN "write" ELSE "failed",
                   !.rules = cors[At(a)]]]
    /\ UNCHANGED <<exists, cors, faults>>

(* put_bucket_cors replaces the whole configuration by the merged rules *)
PutCors(a) ==
    cors' = [cors EXCEPT ![At(a)] = merge_managed_cors_rules(admin[a].rules, admin[a].origins)]

WriteCors(a) ==
    /\ admin[a].step = "write"
    /\ PutCors(a)
    /\ admin' = [admin EXCEPT ![a] = [@ EXCEPT !.step = "verify", !.rules = {}]]
    /\ UNCHANGED <<exists, faults>>

(* The managed rule must have come back with these origins; then the next bucket *)
VerifyCors(a) ==
    /\ admin[a].step = "verify"
    /\ IF [managed |-> admin[a].origins] \notin cors[At(a)]
         THEN GoTo(a, "failed")
         ELSE NextBucket(a)
    /\ UNCHANGED <<exists, cors, faults>>

AdminStep(a) ==
    \/ HeadBucket(a) \/ CreateBucket(a) \/ HeadCreated(a)
    \/ ReadCors(a) \/ WriteCors(a) \/ VerifyCors(a)

(* A call that fails without effect.  A HEAD that fails while creation is
   allowed is taken for a missing bucket. *)
CallFails(a) ==
    /\ faults < MaxFaults
    /\ admin[a].step \notin {"passed", "failed"}
    /\ IF admin[a].step = "head" THEN Missing(a) ELSE GoTo(a, "failed")
    /\ faults' = faults + 1
    /\ UNCHANGED <<exists, cors>>

(* A call that takes effect and whose answer is lost *)
AnswerLost(a) ==
    /\ faults < MaxFaults
    /\ \/ /\ admin[a].step = "create" /\ At(a) \notin exists
          /\ exists' = exists \cup {At(a)} /\ UNCHANGED cors
       \/ /\ admin[a].step = "write"
          /\ PutCors(a) /\ UNCHANGED exists
    /\ GoTo(a, "failed")
    /\ faults' = faults + 1

(* The operator runs the failed command again *)
Rerun(a) ==
    /\ admin[a].step = "failed"
    /\ admin' = [admin EXCEPT ![a] = Fresh(@)]
    /\ UNCHANGED <<exists, cors, faults>>

(* Somebody adds a rule in the provider's console *)
Edit(b, rule) ==
    /\ b \in exists /\ rule \in Editors
    /\ Cardinality(cors[b]) < MaxRules
    /\ cors' = [cors EXCEPT ![b] = @ \cup {rule}]
    /\ UNCHANGED <<exists, admin, faults>>

Next ==
    \/ \E a \in Admins : AdminStep(a) \/ CallFails(a) \/ AnswerLost(a) \/ Rerun(a)
    \/ \E b \in BucketSet, rule \in Editors : Edit(b, rule)

Spec == Init /\ [][Next]_vars

(* g7mbctl runs to its end and the operator repeats a failed bootstrap *)
FairSpec == Spec /\ \A a \in Admins : WF_vars(AdminStep(a) \/ Rerun(a))

-----------------------------------------------------------------------------

(* "merges one managed browser CORS rule": however bootstraps overlap and
   wherever they fail, no bucket holds two managed rules or more rules than the
   provider takes, and a bucket that a bootstrap finished has exactly one. *)
OneManagedRule ==
    \A b \in BucketSet :
      /\ Cardinality(cors[b] \cap Managed) <= 1
      /\ Cardinality(cors[b]) <= MaxRules
      /\ \A a \in Admins :
           admin[a].step = "passed"
             => b \in exists /\ (admin[a].origins # NoOrigins => cors[b] \cap Managed # {})

(* Only a write loses a foreign rule, and only one that its read did not see *)
LosesOnlyUnread ==
    \A b \in BucketSet : \A rule \in (cors[b] \cap Foreign) \ cors'[b] :
      \E a \in Admins : admin[a].step = "write" /\ At(a) = b /\ rule \notin admin[a].rules

(* docs/SETUP_CUI.md: "existing CORS rules are preserved and only the
   g7mediabooster-browser-v1 rule is merged": a bootstrap removes no rule of
   another party that was there when it read the rules.  PutBucketCors replaces
   them all, so a rule added between the read and the write is lost. *)
ForeignRulesKept == [][LosesOnlyUnread]_vars

(* The others are through with their bootstrap *)
Alone(a) == \A other \in Admins \ {a} : admin[other].step = "passed"

Through(a) ==
    \/ admin[a].step = "passed"
    \/ \E b \in BucketSet : Cardinality(cors[b] \cap Foreign) >= MaxRules
    \/ ~admin[a].create /\ exists # BucketSet

(* A repeated bootstrap passes once the provider answers, also when it starts
   from the half-done state of an earlier one and at the rule limit, unless
   other parties hold every rule the provider allows or a bucket is missing
   and may not be created. *)
RerunConverges == \A a \in Admins : Alone(a) ~> Through(a)
=============================================================================
