--------------------------- MODULE OperationsProofs ---------------------------
(***************************************************************************)
(* What Setup, StorageCanary and StorageBootstrap promise, for every value *)
(* of their constants.  As in ServicesProofs, an invariant of a part is    *)
(* proved from the part's own initial states and steps, and holds in       *)
(* Operations whenever that part is the one that runs.                     *)
(***************************************************************************)
EXTENDS Operations, FiniteSetTheorems, TLAPS

(* A step of Operations is a step of the part that runs *)
LEMMA PartSteps ==
    ASSUME [Next]_v
    PROVE  /\ part' = part
           /\ part = "bootstrap" => [Boot!Next]_(Boot!vars)
           /\ part = "canary" => [Doctor!Next]_(Doctor!vars)
           /\ part = "setup" => [Wizard!Next]_(Wizard!vars)
           /\ part = "install" => [Install!Next]_(Install!vars)
           /\ part = "backup" => [Copy!Next]_(Copy!vars)
           /\ part = "gates" => [Permits!Next]_(Permits!vars)
           /\ part = "config" => [Load!Next]_(Load!vars)
<1>1. CASE UNCHANGED v
  BY <1>1 DEF v, boot, doctor, wizard, install, copy, gates, load, Boot!vars, Doctor!vars,
    Wizard!vars, Install!vars, Copy!vars, Permits!vars, Load!vars, Install!hostVars,
    Install!envVars
<1>2. CASE Next
  <2>1. part' = part
    BY <1>2 DEF Next, bootRest, doctorRest, wizardRest, installRest, copyRest, gatesRest, loadRest
  <2>2. /\ part = "bootstrap" => Boot!Next
        /\ part = "canary" => Doctor!Next
        /\ part = "setup" => Wizard!Next
        /\ part = "install" => Install!Next
        /\ part = "backup" => Copy!Next
        /\ part = "gates" => Permits!Next
        /\ part = "config" => Load!Next
    BY <1>2 DEF Next
  <2> QED BY <2>1, <2>2
<1> QED BY <1>1, <1>2

-----------------------------------------------------------------------------
(* Setup: how far the running command has written its own contents *)
SetupSteps ==
    {"idle", "preflight", "probe", "access", "secret", "hmac", "config", "load", "passed"}

Written ==
    [idle |-> {}, preflight |-> {}, probe |-> {}, access |-> {}, secret |-> {"access"},
     hmac |-> {"access", "secret"}, config |-> {"access", "secret", "hmac"},
     load |-> Wizard!Files, passed |-> Wizard!Files]

SetupInv ==
    /\ step \in SetupSteps
    /\ file = [f \in Wizard!Files |-> file[f]]
    /\ \A f \in Written[step] : file[f] = Wizard!Contents(f)
    /\ step = "passed" => Wizard!Loads

LEMMA SetupInit == Wizard!Init => SetupInv
  BY DEF Wizard!Init, Wizard!Files, SetupInv, SetupSteps, Written

LEMMA SetupStep == SetupInv /\ [Wizard!Next]_(Wizard!vars) => SetupInv'
<1> SUFFICES ASSUME SetupInv, [Wizard!Next]_(Wizard!vars) PROVE SetupInv'
  OBVIOUS
<1> USE DEF SetupInv, SetupSteps
<1>1. CASE Wizard!Begin \/ Wizard!Preflight \/ Wizard!Probe \/ Wizard!Dies \/ Wizard!ChangeAnswers
  <2>1. step' \in {"idle", "preflight", "probe", "access"} /\ file' = file
    BY <1>1 DEF Wizard!Begin, Wizard!Preflight, Wizard!Probe, Wizard!Dies, Wizard!ChangeAnswers
  <2>2. Written[step'] = {}
    BY <2>1 DEF Written
  <2> QED BY <2>1, <2>2
<1>2. CASE Wizard!AtomicWrite
  <2>1. UNCHANGED <<goal, hmac>> /\ step \in Wizard!Files
    BY <1>2 DEF Wizard!AtomicWrite
  <2>2. CASE Wizard!Conflict(step)
    <3>1. step' = "idle" /\ file' = file
      BY <1>2, <2>2 DEF Wizard!AtomicWrite
    <3> QED BY <3>1 DEF Written
  <2>3. CASE ~Wizard!Conflict(step)
    <3>1. step' = Wizard!Following[step] /\ file' = [file EXCEPT ![step] = Wizard!Contents(step)]
      BY <1>2, <2>3 DEF Wizard!AtomicWrite
    <3>2. Written[step'] = Written[step] \cup {step} /\ step' \in SetupSteps \ {"passed"}
      BY <2>1, <3>1 DEF Written, Wizard!Following, Wizard!Files
    <3>3. \A f \in Wizard!Files : f # step => file'[f] = file[f]
      BY <3>1
    <3>4. file'[step] = Wizard!Contents(step) /\ file' = [f \in Wizard!Files |-> file'[f]]
      BY <2>1, <3>1
    <3>5. \A f \in Written[step] : f \in Wizard!Files
      BY <2>1 DEF Written, Wizard!Files
    <3>6. \A f \in Wizard!Files : Wizard!Contents(f)' = Wizard!Contents(f)
      BY <2>1 DEF Wizard!Contents
    <3> QED BY <2>1, <3>2, <3>3, <3>4, <3>5, <3>6
  <2> QED BY <2>2, <2>3
<1>3. CASE Wizard!SelfCheck
  <2>1. UNCHANGED <<file, goal, hmac>> /\ step = "load"
        /\ step' = IF Wizard!Loads THEN "passed" ELSE "idle"
    BY <1>3 DEF Wizard!SelfCheck
  <2>2. Wizard!Loads' = Wizard!Loads /\ \A f \in Wizard!Files : Wizard!Contents(f)' = Wizard!Contents(f)
    BY <2>1 DEF Wizard!Loads, Wizard!Contents
  <2> QED BY <2>1, <2>2 DEF Written
<1>4. CASE UNCHANGED Wizard!vars
  BY <1>4 DEF Wizard!vars, Wizard!Loads, Wizard!Contents
<1> QED
  BY <1>1, <1>2, <1>3, <1>4 DEF Wizard!Next, Wizard!CommandStep

LEMMA SetupPartInv == Spec => [](part = "setup" => SetupInv)
<1>1. Init => (part = "setup" => SetupInv)
  BY SetupInit DEF Init, Chosen
<1>2. (part = "setup" => SetupInv) /\ [Next]_v => (part = "setup" => SetupInv)'
  BY PartSteps, SetupStep
<1> QED
  BY <1>1, <1>2, PTL DEF Spec

(* Setup: when the command reports PASS, the four files hold what this command
   writes, whatever earlier commands that died left behind, and they load. *)
THEOREM SetupPassIsWhole == Spec => []PassIsWhole
<1>1. (part = "setup" => SetupInv) => PassIsWhole
  BY DEF SetupInv, Written, PassIsWhole, Wizard!PassIsWhole
<1> QED
  BY SetupPartInv, <1>1, PTL

(* Setup: a command without --force changes no file that exists. *)
THEOREM SetupKeepsFiles == Spec => UnforcedKeepsFiles
<1>1. ASSUME SetupInv, Wizard!Next PROVE Wizard!KeepsFiles
  <2> USE DEF SetupInv
  <2>1. CASE Wizard!AtomicWrite
    <3>1. CASE Wizard!Conflict(step)
      BY <2>1, <3>1 DEF Wizard!AtomicWrite, Wizard!KeepsFiles
    <3>2. CASE ~Wizard!Conflict(step)
      <4>1. file' = [file EXCEPT ![step] = Wizard!Contents(step)] /\ step \in Wizard!Files
        BY <2>1, <3>2 DEF Wizard!AtomicWrite
      <4>2. file[step] = None \/ file[step] = Wizard!Contents(step) \/ goal.force
        BY <3>2 DEF Wizard!Conflict
      <4> QED BY <4>1, <4>2 DEF Wizard!KeepsFiles
    <3> QED BY <3>1, <3>2
  <2>2. CASE Wizard!Begin \/ Wizard!Preflight \/ Wizard!Probe \/ Wizard!SelfCheck \/ Wizard!Dies
              \/ Wizard!ChangeAnswers
    BY <2>2 DEF Wizard!Begin, Wizard!Preflight, Wizard!Probe, Wizard!SelfCheck, Wizard!Dies,
      Wizard!ChangeAnswers, Wizard!KeepsFiles
  <2> QED BY <1>1, <2>1, <2>2 DEF Wizard!Next, Wizard!CommandStep
<1>2. (part = "setup" => SetupInv) /\ [Next]_v => [part = "setup" => Wizard!KeepsFiles]_v
  <2> SUFFICES ASSUME SetupInv, Next, part = "setup" PROVE Wizard!KeepsFiles
    OBVIOUS
  <2>1. Wizard!Next
    BY DEF Next
  <2> QED BY <1>1, <2>1
<1> QED
  BY SetupPartInv, <1>2, PTL DEF Spec, UnforcedKeepsFiles

-----------------------------------------------------------------------------
(* StorageCanary: where a run is, and what it may have left in its bucket *)
Calls ==
    {"put", "check", "create", "parts", "complete", "head", "create_abort", "abort_abort"}

CanaryTypeOK ==
    /\ call \in Calls \cup {"abort_parts", "delete", "failed", "passed"}
    /\ position \in 1..Len(Buckets)
    /\ failed \in BOOLEAN /\ unclean \in BOOLEAN

(* Nothing is left in another bucket than the one the run is at *)
OneBucketAtATime ==
    objects \cup sessions \subseteq {Doctor!Here(key) : key \in Doctor!Keys}

(* Until a call fails the run has the one session open that it works on *)
SessionsSoFar ==
    /\ call \in {"put", "check", "create", "head", "create_abort"} => sessions = {}
    /\ call \in {"parts", "complete"} => sessions \subseteq {Doctor!Here("multipart")}
    /\ call = "abort_abort" => sessions \subseteq {Doctor!Here("abort")}
    /\ call = "delete" /\ ~failed => sessions = {}

(* An object is still to be deleted, or a DELETE was reported to fail *)
ObjectsSoFar ==
    /\ call = "put" => objects = {}
    /\ call = "delete" =>
         \A key \in Doctor!Keys : Doctor!Here(key) \in objects => key \in deleting \/ unclean

CanaryInv ==
    /\ CanaryTypeOK /\ OneBucketAtATime /\ SessionsSoFar /\ ObjectsSoFar
    /\ call \in Calls => ~failed /\ ~unclean
    /\ call = "abort_parts" => failed
    /\ Doctor!CanaryAccounts

LEMMA CanaryInit ==
    ASSUME Len(Buckets) \in Nat \ {0} PROVE Doctor!Init => CanaryInv
<1> SUFFICES ASSUME Doctor!Init PROVE CanaryInv
  OBVIOUS
<1>1. CanaryTypeOK
  <2>1. position \in 1..Len(Buckets)
    BY DEF Doctor!Init
  <2>2. call \in Calls /\ failed \in BOOLEAN /\ unclean \in BOOLEAN
    BY Zenon DEF Doctor!Init, Calls
  <2> QED BY <2>1, <2>2 DEF CanaryTypeOK
<1>2. OneBucketAtATime
  BY DEF Doctor!Init, OneBucketAtATime
<1>3. SessionsSoFar /\ ObjectsSoFar /\ Doctor!CanaryAccounts
  BY DEF Doctor!Init, SessionsSoFar, ObjectsSoFar, Doctor!CanaryAccounts, Doctor!PassIsClean,
    Doctor!LeftoversExplained
<1> QED
  BY <1>1, <1>2, <1>3 DEF Doctor!Init, CanaryInv

(* What a call does to the objects and the sessions of the bucket *)
LEMMA EffectOf ==
    ASSUME CanaryInv, NEW c \in Calls \cup {"abort_parts"}, Doctor!Effect(c),
           UNCHANGED position
    PROVE  /\ OneBucketAtATime'
           /\ c # "put" => objects' \subseteq objects \cup {Doctor!Here("multipart")}
           /\ c \in {"put", "check", "head"} => sessions' = sessions
           /\ c = "create" => sessions' = sessions \cup {Doctor!Here("multipart")}
           /\ c = "parts" => sessions' = sessions
           /\ c = "complete" => sessions' = sessions \ {Doctor!Here("multipart")}
           /\ c = "create_abort" => sessions' = sessions \cup {Doctor!Here("abort")}
           /\ c = "abort_abort" => sessions' = sessions \ {Doctor!Here("abort")}
<1>1. objects' \subseteq objects \cup {Doctor!Here("single"), Doctor!Here("multipart")}
  BY DEF Doctor!Effect, Calls
<1>2. c # "put" => objects' \subseteq objects \cup {Doctor!Here("multipart")}
  BY DEF Doctor!Effect, Calls
<1>3. /\ sessions' \subseteq sessions \cup {Doctor!Here("multipart"), Doctor!Here("abort")}
      /\ c \in {"put", "check", "head"} => sessions' = sessions
      /\ c = "create" => sessions' = sessions \cup {Doctor!Here("multipart")}
      /\ c = "parts" => sessions' = sessions
      /\ c = "complete" => sessions' = sessions \ {Doctor!Here("multipart")}
      /\ c = "create_abort" => sessions' = sessions \cup {Doctor!Here("abort")}
      /\ c = "abort_abort" => sessions' = sessions \ {Doctor!Here("abort")}
  BY DEF Doctor!Effect, Calls
<1>4. OneBucketAtATime'
  BY <1>1, <1>3 DEF CanaryInv, OneBucketAtATime, Doctor!Here, Doctor!Keys
<1> QED
  BY <1>2, <1>3, <1>4

LEMMA CanaryStep ==
    ASSUME Len(Buckets) \in Nat \ {0}, CanaryInv, [Doctor!Next]_(Doctor!vars)
    PROVE  CanaryInv'
<1> USE DEF CanaryInv
<1>0. DOMAIN Doctor!Follows = Calls
  BY DEF Doctor!Follows, Calls
<1>1. CASE Doctor!CallSucceeds
  <2>1. /\ call \in Calls /\ Doctor!Effect(call)
        /\ call' = Doctor!Follows[call] /\ deleting' = IF call' = "delete" THEN Doctor!Keys ELSE {}
        /\ UNCHANGED <<position, failed, unclean>> /\ ~failed /\ ~unclean
    BY <1>0, <1>1 DEF Doctor!CallSucceeds, Doctor!GoTo
  <2>2. CanaryTypeOK' /\ call' \in (Calls \ {"put"}) \cup {"delete"}
    BY <2>1 DEF CanaryTypeOK, Calls, Doctor!Follows
  <2>3. OneBucketAtATime'
    BY <2>1, EffectOf
  <2>4. SessionsSoFar'
    <3>1. CASE call \in {"put", "check", "create"}
      BY <2>1, <3>1, EffectOf DEF SessionsSoFar, Doctor!Follows, Doctor!Here
    <3>2. CASE call \in {"parts", "complete", "head"}
      BY <2>1, <3>2, EffectOf DEF SessionsSoFar, Doctor!Follows, Doctor!Here
    <3>3. CASE call \in {"create_abort", "abort_abort"}
      BY <2>1, <3>3, EffectOf DEF SessionsSoFar, Doctor!Follows, Doctor!Here
    <3> QED BY <2>1, <3>1, <3>2, <3>3 DEF Calls
  <2>5. ObjectsSoFar'
    BY <2>1, <2>2 DEF ObjectsSoFar, Calls
  <2> QED
    BY <2>1, <2>2, <2>3, <2>4, <2>5 DEF Calls, Doctor!CanaryAccounts, Doctor!PassIsClean,
      Doctor!LeftoversExplained
<1>2. CASE Doctor!CallFails
  <2>1. /\ call \in Calls /\ failed' = TRUE /\ UNCHANGED <<position, unclean>>
        /\ call' = Doctor!OnError(call)
        /\ deleting' = IF call' = "delete" THEN Doctor!Keys ELSE {}
        /\ \/ Doctor!Effect(call) /\ lost' = lost \cup {call}
           \/ UNCHANGED <<objects, sessions, lost>>
    BY <1>0, <1>2 DEF Doctor!CallFails, Doctor!GoTo
  <2>2. /\ call = "put" => call' = "failed"
        /\ call # "put" => call' \in {"abort_parts", "delete"}
    BY <2>1 DEF Doctor!OnError
  <2>3. CanaryTypeOK'
    BY <2>1, <2>2 DEF CanaryTypeOK
  <2>4. OneBucketAtATime'
    BY <2>1, EffectOf DEF OneBucketAtATime, Doctor!Here
  <2>5. SessionsSoFar' /\ ObjectsSoFar'
    BY <2>1, <2>2 DEF SessionsSoFar, ObjectsSoFar
  <2>6. Doctor!CanaryAccounts'
    <3>1. call = "put" => (objects' # {} => "put" \in lost')
      BY <2>1 DEF ObjectsSoFar
    <3> QED
      BY <2>1, <2>2, <2>4, <3>1 DEF Doctor!CanaryAccounts, Doctor!PassIsClean,
        Doctor!LeftoversExplained, OneBucketAtATime, Doctor!Here
  <2> QED
    BY <2>1, <2>2, <2>3, <2>4, <2>5, <2>6 DEF Calls
<1>3. CASE Doctor!AbortParts
  <2>1. /\ call = "abort_parts" /\ call' = "delete" /\ deleting' = Doctor!Keys
        /\ UNCHANGED <<position, failed, unclean>>
        /\ Doctor!Effect(call) \/ UNCHANGED <<objects, sessions>>
    BY <1>3 DEF Doctor!AbortParts, Doctor!GoTo
  <2>2. OneBucketAtATime'
    BY <2>1, EffectOf DEF OneBucketAtATime, Doctor!Here
  <2> QED
    BY <2>1, <2>2 DEF CanaryTypeOK, SessionsSoFar, ObjectsSoFar, Calls, Doctor!CanaryAccounts,
      Doctor!PassIsClean, Doctor!LeftoversExplained
<1>4. ASSUME NEW key \in Doctor!Keys, Doctor!DeleteKey(key) PROVE CanaryInv'
  <2>1. /\ call = "delete" /\ UNCHANGED <<call, position, failed, sessions, lost>>
        /\ deleting' = deleting \ {key}
        /\ \/ objects' = objects \ {Doctor!Here(key)} /\ UNCHANGED unclean
           \/ unclean' = TRUE /\ UNCHANGED objects
    BY <1>4 DEF Doctor!DeleteKey
  <2>2. CanaryTypeOK' /\ OneBucketAtATime' /\ SessionsSoFar'
    BY <2>1 DEF CanaryTypeOK, OneBucketAtATime, SessionsSoFar, Doctor!Here
  <2>3. ObjectsSoFar'
    BY <2>1 DEF ObjectsSoFar, Doctor!Here
  <2> QED
    BY <2>1, <2>2, <2>3 DEF Calls, Doctor!CanaryAccounts, Doctor!PassIsClean,
      Doctor!LeftoversExplained
<1>5. CASE Doctor!BucketDone
  <2>1. /\ call = "delete" /\ deleting = {}
        /\ UNCHANGED <<failed, unclean, deleting, objects, sessions, lost>>
    BY <1>5 DEF Doctor!BucketDone
  <2>2. objects # {} => unclean
    BY <2>1 DEF ObjectsSoFar, OneBucketAtATime
  <2>3. sessions # {} => failed
    BY <2>1 DEF SessionsSoFar
  <2>4. CASE failed \/ unclean
    <3>1. call' = "failed" /\ position' = position
      BY <1>5, <2>4 DEF Doctor!BucketDone
    <3> QED
      BY <2>1, <2>2, <2>3, <3>1 DEF CanaryTypeOK, OneBucketAtATime, SessionsSoFar, ObjectsSoFar,
        Calls, Doctor!CanaryAccounts, Doctor!PassIsClean, Doctor!LeftoversExplained, Doctor!Here
  <2>5. CASE ~failed /\ ~unclean
    <3>1. \/ call' = "passed" /\ position' = position /\ position = Len(Buckets)
          \/ call' = "put" /\ position' = position + 1 /\ position < Len(Buckets)
      BY <1>5, <2>5 DEF Doctor!BucketDone
    <3>2. CanaryTypeOK'
      BY <2>1, <3>1 DEF CanaryTypeOK, Calls
    <3> QED
      BY <2>1, <2>2, <2>3, <2>5, <3>1, <3>2 DEF OneBucketAtATime, SessionsSoFar, ObjectsSoFar,
        Doctor!CanaryAccounts, Doctor!PassIsClean, Doctor!LeftoversExplained
  <2> QED BY <2>4, <2>5
<1>6. CASE UNCHANGED Doctor!vars
  BY <1>6 DEF Doctor!vars, CanaryTypeOK, OneBucketAtATime, SessionsSoFar, ObjectsSoFar,
    Doctor!CanaryAccounts, Doctor!PassIsClean, Doctor!LeftoversExplained, Doctor!Here
<1> QED
  BY <1>1, <1>2, <1>3, <1>4, <1>5, <1>6 DEF Doctor!Next, Doctor!RunStep

LEMMA CanaryPartInv == Spec => [](part = "canary" => CanaryInv)
<1>0. Len(Buckets) \in Nat \ {0}
  BY OperationsAssumption DEF OperationsAssumption, Doctor!CanaryAssumption
<1>1. Init => (part = "canary" => CanaryInv)
  BY <1>0, CanaryInit DEF Init, Chosen
<1>2. (part = "canary" => CanaryInv) /\ [Next]_v => (part = "canary" => CanaryInv)'
  BY <1>0, PartSteps, CanaryStep
<1> QED
  BY <1>1, <1>2, PTL DEF Spec

(* StorageCanary: whichever calls fail, with or without their effect, a run
   that passes left nothing behind, and one that fails reported the reason for
   each object and session it left. *)
THEOREM CanaryLeavesNothing == Spec => []CanaryAccounts
<1>1. (part = "canary" => CanaryInv) => CanaryAccounts
  BY DEF CanaryInv, CanaryAccounts
<1> QED
  BY CanaryPartInv, <1>1, PTL
-----------------------------------------------------------------------------
(* StorageBootstrap: the shape of its state *)
AdminSteps == {"head", "create", "created", "read", "write", "verify", "passed", "failed"}

AdminRecords ==
    [step : AdminSteps, at : 1..Len(Buckets), create : BOOLEAN,
     origins : Origins \cup {NoOrigins}, rules : Boot!Rules]

BootTypeOK ==
    /\ exists \subseteq Boot!BucketSet
    /\ cors \in [Boot!BucketSet -> Boot!Rules]
    /\ admin \in [Admins -> AdminRecords]

(* A bucket a bootstrap with these origins is through with *)
BucketThrough(b, origins) ==
    b \in exists /\ (origins # NoOrigins => cors[b] \cap Boot!Managed # {})

(* What a process that got this far relies on: the bucket it is at exists, the
   rules it read leave room for its own, and the buckets before are done *)
AdminSound(r) ==
    /\ r.step \in {"created", "read", "write", "verify"} => Buckets[r.at] \in exists
    /\ r.step \in {"read", "write", "verify"} => r.origins # NoOrigins
    /\ r.step = "write" => Boot!HasRoom(r.rules)
    /\ \A i \in 1..Len(Buckets) : i < r.at => BucketThrough(Buckets[i], r.origins)
    /\ r.step = "passed" => \A b \in Boot!BucketSet : BucketThrough(b, r.origins)

(* The rules of a bucket: one managed at most, within the provider's limit *)
RulesSound(R) ==
    Cardinality(R \cap Boot!Managed) <= 1 /\ Cardinality(R) <= MaxRules

BootInv ==
    /\ BootTypeOK
    /\ \A b \in Boot!BucketSet : RulesSound(cors[b])
    /\ \A a \in Admins : AdminSound(admin[a])

(* The instance counts as FiniteSets does *)
LEMMA BootCounts ==
    \A S : Boot!Cardinality(S) = Cardinality(S) /\ (Boot!IsFiniteSet(S) <=> IsFiniteSet(S))
<1>1. \A S : Boot!Cardinality(S) = Cardinality(S)
  BY DEF Boot!Cardinality, Cardinality
<1>2. \A S : Boot!IsFiniteSet(S) <=> IsFiniteSet(S)
  BY DEF Boot!IsFiniteSet, IsFiniteSet
<1> QED BY <1>1, <1>2

LEMMA BootConstants ==
    /\ Len(Buckets) \in Nat \ {0} /\ DOMAIN Buckets = 1..Len(Buckets)
    /\ MaxRules \in Nat \ {0} /\ IsFiniteSet(Foreign) /\ IsFiniteSet(Boot!Managed)
    /\ Editors \subseteq Foreign /\ Foreign \cap Boot!Managed = {}
    /\ CommandLines \subseteq [Admins -> Boot!Arguments]
<1>1. Boot!BootstrapAssumption
  BY OperationsAssumption DEF OperationsAssumption
<1>2. IsFiniteSet(Foreign) /\ IsFiniteSet(Origins)
  BY <1>1, BootCounts DEF Boot!BootstrapAssumption
<1>3. IsFiniteSet(Boot!Managed)
  <2> DEFINE f == [o \in Origins |-> [managed |-> o]]
  <2>1. f \in [Origins -> Boot!Managed]
    BY DEF Boot!Managed
  <2>2. \A m \in Boot!Managed : m.managed \in Origins /\ f[m.managed] = m
    BY DEF Boot!Managed
  <2>3. f \in Surjection(Origins, Boot!Managed)
    BY <2>1, <2>2 DEF Surjection
  <2> QED BY <1>2, <2>3, FS_Surjection
<1>4. Foreign \cap Boot!Managed = {} /\ CommandLines \subseteq [Admins -> Boot!Arguments]
  BY <1>1 DEF Boot!BootstrapAssumption
<1> QED BY <1>1, <1>2, <1>3, <1>4 DEF Boot!BootstrapAssumption

LEMMA RulesFinite ==
    ASSUME NEW R \in Boot!Rules PROVE IsFiniteSet(R) /\ Cardinality(R) \in Nat
<1>1. IsFiniteSet(Foreign \cup Boot!Managed)
  BY BootConstants, FS_Union
<1>2. IsFiniteSet(R)
  BY <1>1, FS_Subset DEF Boot!Rules
<1> QED BY <1>2, FS_CardinalityType

(* Fewer rules are as good *)
LEMMA FewerRulesSound ==
    ASSUME NEW R \in Boot!Rules, RulesSound(R), NEW T \in SUBSET R
    PROVE  RulesSound(T)
<1>1. IsFiniteSet(R) /\ IsFiniteSet(R \cap Boot!Managed)
  BY RulesFinite, FS_Intersection
<1>2. Cardinality(T) <= Cardinality(R)
  BY <1>1, FS_Subset
<1>3. Cardinality(T \cap Boot!Managed) <= Cardinality(R \cap Boot!Managed)
  <2>1. T \cap Boot!Managed \in SUBSET (R \cap Boot!Managed)
    OBVIOUS
  <2> QED BY <1>1, <2>1, FS_Subset
<1>4. T \in Boot!Rules /\ T \cap Boot!Managed \in Boot!Rules /\ R \cap Boot!Managed \in Boot!Rules
  BY DEF Boot!Rules
<1>5. /\ Cardinality(T) \in Nat /\ Cardinality(T \cap Boot!Managed) \in Nat
      /\ Cardinality(R) \in Nat /\ Cardinality(R \cap Boot!Managed) \in Nat
  BY <1>4, RulesFinite
<1> QED
  BY <1>2, <1>3, <1>5, BootConstants DEF RulesSound

(* The merged rules hold the one managed rule and fit *)
LEMMA MergedRulesSound ==
    ASSUME NEW R \in Boot!Rules, Boot!HasRoom(R), NEW o \in Origins
    PROVE  LET M == Boot!merge_managed_cors_rules(R, o)
           IN  /\ M \in Boot!Rules /\ RulesSound(M) /\ M \cap Boot!Managed # {}
               /\ R \cap Foreign \subseteq M
<1> DEFINE M == Boot!merge_managed_cors_rules(R, o)
           own == [managed |-> o]
<1>1. own \in Boot!Managed
  BY DEF Boot!Managed
<1>2. M = (R \ Boot!Managed) \cup {own}
  BY DEF Boot!merge_managed_cors_rules
<1>3. M \in Boot!Rules /\ M \cap Boot!Managed = {own} /\ R \ Boot!Managed \in Boot!Rules
  BY <1>1, <1>2 DEF Boot!Rules
<1>4. Cardinality(M) <= MaxRules
  <2>1. Cardinality(R \ Boot!Managed) < MaxRules
    BY BootCounts DEF Boot!HasRoom
  <2>2. IsFiniteSet(R \ Boot!Managed) /\ Cardinality(R \ Boot!Managed) \in Nat
    BY <1>3, RulesFinite
  <2>3. Cardinality(M) = Cardinality(R \ Boot!Managed) + 1
    BY <1>1, <1>2, <2>2, FS_AddElement
  <2> QED BY <2>1, <2>2, <2>3, BootConstants
<1>5. Cardinality(M \cap Boot!Managed) = 1
  BY <1>3, FS_Singleton
<1>6. R \cap Foreign \subseteq M
  BY <1>2, BootConstants
<1>7. RulesSound(M)
  BY <1>4, <1>5 DEF RulesSound
<1>8. M \in Boot!Rules /\ M \cap Boot!Managed # {}
  BY <1>3
<1> HIDE DEF M
<1> QED
  BY <1>6, <1>7, <1>8 DEF M

LEMMA BootInit == Boot!Init => BootInv
<1> SUFFICES ASSUME Boot!Init PROVE BootInv
  OBVIOUS
<1>1. exists \subseteq Boot!BucketSet
  BY DEF Boot!Init
<1>2. PICK R \in {S \in Boot!Rules : Boot!Cardinality(S \cap Boot!Managed) <= 1
                                       /\ Boot!Cardinality(S) <= MaxRules} :
        cors = [b \in Boot!BucketSet |-> IF b \in exists THEN R \ Editors ELSE {}]
  BY DEF Boot!Init
<1>3. R \in Boot!Rules /\ RulesSound(R)
  BY <1>2, BootCounts DEF RulesSound
<1>4. \A b \in Boot!BucketSet : cors[b] \in SUBSET R
  BY <1>2
<1>5. \A b \in Boot!BucketSet : RulesSound(cors[b])
  BY <1>3, <1>4, FewerRulesSound
<1>6. cors \in [Boot!BucketSet -> Boot!Rules]
  BY <1>2, <1>3 DEF Boot!Rules
<1>7. PICK given \in CommandLines : admin = [a \in Admins |-> Boot!Fresh(given[a])]
  BY DEF Boot!Init
<1>8. \A a \in Admins : /\ admin[a] \in AdminRecords
                        /\ admin[a].step = "head" /\ admin[a].at = 1
  BY <1>7, BootConstants DEF Boot!Fresh, Boot!Arguments, AdminRecords, AdminSteps, Boot!Rules
<1>9. \A a \in Admins : AdminSound(admin[a])
  BY <1>8 DEF AdminSound
<1>10. admin \in [Admins -> AdminRecords]
  BY <1>7, <1>8
<1> QED
  BY <1>1, <1>5, <1>6, <1>9, <1>10 DEF BootInv, BootTypeOK

(* A process keeps what it relies on while buckets are created, and rules are
   added or merged, by others *)
LEMMA AdminStaysSound ==
    ASSUME NEW r \in AdminRecords, AdminSound(r), exists \subseteq exists',
           \A b \in Boot!BucketSet : cors[b] \cap Boot!Managed # {} =>
                                       cors'[b] \cap Boot!Managed # {}
    PROVE  AdminSound(r)'
<1>1. \A b \in Boot!BucketSet : BucketThrough(b, r.origins) => BucketThrough(b, r.origins)'
  BY DEF BucketThrough
<1>2. \A i \in 1..Len(Buckets) : Buckets[i] \in Boot!BucketSet
  BY BootConstants DEF Boot!BucketSet
<1>3. (r.step = "write" => Boot!HasRoom(r.rules))'
  BY DEF AdminSound, Boot!HasRoom
<1> QED
  BY <1>1, <1>2, <1>3 DEF AdminSound

(* A step of process a that gives it a record it may rely on, and leaves the
   buckets and their rules no worse *)
LEMMA OneAdminMoves ==
    ASSUME BootInv, NEW a \in Admins, NEW r \in AdminRecords,
           admin' = [admin EXCEPT ![a] = r], AdminSound(r)',
           exists \subseteq exists', exists' \subseteq Boot!BucketSet,
           cors' \in [Boot!BucketSet -> Boot!Rules],
           \A b \in Boot!BucketSet :
             /\ RulesSound(cors'[b])
             /\ cors[b] \cap Boot!Managed # {} => cors'[b] \cap Boot!Managed # {}
    PROVE  BootInv'
<1> USE DEF BootInv, BootTypeOK
<1>1. admin' \in [Admins -> AdminRecords] /\ admin'[a] = r
  OBVIOUS
<1>2. \A c \in Admins : c # a => admin'[c] = admin[c] /\ admin[c] \in AdminRecords
  OBVIOUS
<1>3. ASSUME NEW c \in Admins PROVE AdminSound(admin[c])'
  <2>1. CASE c = a
    BY <1>1, <2>1 DEF AdminSound, BucketThrough, Boot!HasRoom
  <2>2. CASE c # a
    <3>1. AdminSound(admin'[c]) <=> AdminSound(admin[c])
      BY <1>2, <2>2
    <3> DEFINE x == admin[c]
    <3>2. x \in AdminRecords /\ AdminSound(x)
      BY <1>2, <2>2
    <3>3. admin'[c] = x
      BY <1>2, <2>2
    <3> QED
      BY <1>2, <2>2, <3>2, <3>3, AdminStaysSound DEF AdminSound, BucketThrough, Boot!HasRoom
  <2> QED BY <2>1, <2>2
<1> QED
  BY <1>1, <1>3 DEF RulesSound

(* A process that only moves to another step of the same bucket *)
LEMMA AdminGoesTo ==
    ASSUME BootInv, NEW a \in Admins, NEW t \in {"create", "created", "read", "failed"},
           Boot!GoTo(a, t),
           t \in {"created", "read"} => Buckets[admin[a].at] \in exists',
           t = "read" => admin[a].origins # NoOrigins,
           exists \subseteq exists', exists' \subseteq Boot!BucketSet,
           cors' \in [Boot!BucketSet -> Boot!Rules],
           \A b \in Boot!BucketSet :
             /\ RulesSound(cors'[b])
             /\ cors[b] \cap Boot!Managed # {} => cors'[b] \cap Boot!Managed # {}
    PROVE  BootInv'
<1>1. admin[a] \in AdminRecords /\ AdminSound(admin[a])
  BY DEF BootInv, BootTypeOK
<1>0. PICK r \in AdminRecords : r = [admin[a] EXCEPT !.step = t]
  BY <1>1 DEF AdminRecords, AdminSteps
<1>2. r.step = t /\ r.at = admin[a].at /\ r.origins = admin[a].origins
  BY <1>0, <1>1 DEF AdminRecords
<1>3. admin' = [admin EXCEPT ![a] = r]
  BY <1>0 DEF Boot!GoTo, BootInv, BootTypeOK
<1>4. \A b \in Boot!BucketSet :
        BucketThrough(b, admin[a].origins) => BucketThrough(b, r.origins)'
  BY <1>2 DEF BucketThrough
<1>5. \A i \in 1..Len(Buckets) : Buckets[i] \in Boot!BucketSet
  BY BootConstants DEF Boot!BucketSet
<1>6. \A i \in 1..Len(Buckets) : i < r.at => BucketThrough(Buckets[i], r.origins)'
  BY <1>1, <1>2, <1>4, <1>5 DEF AdminSound
<1>7. AdminSound(r)'
  BY <1>2, <1>6 DEF AdminSound
<1> QED
  BY <1>2, <1>3, <1>7, OneAdminMoves

(* A process that is through with the bucket it is at *)
LEMMA AdminNextBucket ==
    ASSUME BootInv, NEW a \in Admins, Boot!NextBucket(a), UNCHANGED <<exists, cors>>,
           BucketThrough(Buckets[admin[a].at], admin[a].origins)
    PROVE  BootInv'
<1>1. PICK old \in AdminRecords : old = admin[a] /\ AdminSound(old)
  BY DEF BootInv, BootTypeOK
<1>0. PICK r : r = IF old.at = Len(Buckets) THEN [old EXCEPT !.step = "passed"]
                   ELSE [old EXCEPT !.step = "head", !.at = old.at + 1]
  OBVIOUS
<1>2. admin' = [admin EXCEPT ![a] = r]
  BY <1>0, <1>1 DEF Boot!NextBucket, BootInv, BootTypeOK
<1>3. \/ /\ old.at = Len(Buckets) /\ r.step = "passed" /\ r.at = old.at
      \/ /\ old.at < Len(Buckets) /\ r.step = "head" /\ r.at = old.at + 1
  BY <1>0, <1>1, BootConstants DEF AdminRecords
<1>4. r.origins = old.origins
  BY <1>0, <1>1 DEF AdminRecords
<1>5. r \in AdminRecords
  <2>1. old.at \in 1..Len(Buckets) /\ (old.at # Len(Buckets) => old.at + 1 \in 1..Len(Buckets))
    BY <1>1, BootConstants DEF AdminRecords
  <2>2. CASE old.at = Len(Buckets)
    BY <1>0, <1>1, <2>2 DEF AdminRecords, AdminSteps
  <2>3. CASE old.at # Len(Buckets)
    BY <1>0, <1>1, <2>1, <2>3 DEF AdminRecords, AdminSteps
  <2> QED BY <2>2, <2>3
<1>6. \A i \in 1..Len(Buckets) : i <= old.at => BucketThrough(Buckets[i], old.origins)
  <2>1. old.at \in 1..Len(Buckets)
    BY <1>1 DEF AdminRecords
  <2> QED BY <1>1, <2>1, BootConstants DEF AdminSound
<1>7. \A b : BucketThrough(b, old.origins) => BucketThrough(b, r.origins)'
  BY <1>4 DEF BucketThrough
<1>8. \A i \in 1..Len(Buckets) : i < r.at => BucketThrough(Buckets[i], r.origins)'
  <2>1. old.at \in 1..Len(Buckets) /\ r.at \in 1..Len(Buckets)
    BY <1>1, <1>5 DEF AdminRecords
  <2>2. \A i \in 1..Len(Buckets) : i < r.at => i <= old.at
    BY <1>3, <2>1, BootConstants
  <2> QED BY <1>6, <1>7, <2>2
<1>9. r.step = "passed" => \A b \in Boot!BucketSet : BucketThrough(b, r.origins)'
  <2> SUFFICES ASSUME r.step = "passed", NEW b \in Boot!BucketSet
               PROVE  BucketThrough(b, r.origins)'
    OBVIOUS
  <2>1. PICK i \in 1..Len(Buckets) : b = Buckets[i]
    BY BootConstants DEF Boot!BucketSet
  <2>2. i <= old.at
    BY <1>3, BootConstants
  <2> QED BY <1>6, <1>7, <2>1, <2>2
<1>10. AdminSound(r)'
  BY <1>3, <1>8, <1>9 DEF AdminSound, Boot!BucketSet
<1>11. /\ cors' \in [Boot!BucketSet -> Boot!Rules] /\ exists' \subseteq Boot!BucketSet
       /\ \A b \in Boot!BucketSet : RulesSound(cors'[b])
  BY DEF BootInv, BootTypeOK
<1> QED
  BY <1>2, <1>5, <1>10, <1>11, OneAdminMoves

(* put_bucket_cors leaves every bucket within the limit and with its managed
   rule, and loses no foreign rule that the process had read *)
LEMMA PutCorsSound ==
    ASSUME BootInv, NEW a \in Admins, admin[a].step = "write", Boot!PutCors(a)
    PROVE  /\ cors' \in [Boot!BucketSet -> Boot!Rules]
           /\ \A b \in Boot!BucketSet :
                /\ RulesSound(cors'[b])
                /\ cors[b] \cap Boot!Managed # {} => cors'[b] \cap Boot!Managed # {}
                /\ b # Boot!At(a) => cors'[b] = cors[b]
           /\ admin[a].rules \cap Foreign \subseteq cors'[Boot!At(a)]
           /\ Boot!At(a) \in Boot!BucketSet
<1> DEFINE M == Boot!merge_managed_cors_rules(admin[a].rules, admin[a].origins)
<1>1. /\ admin[a].rules \in Boot!Rules /\ admin[a].origins \in Origins
      /\ admin[a].at \in 1..Len(Buckets) /\ Boot!HasRoom(admin[a].rules)
  BY DEF BootInv, BootTypeOK, AdminRecords, AdminSound
<1>2. /\ M \in Boot!Rules /\ RulesSound(M) /\ M \cap Boot!Managed # {}
      /\ admin[a].rules \cap Foreign \subseteq M
  BY <1>1, MergedRulesSound
<1>3. Boot!At(a) \in Boot!BucketSet
  BY <1>1, BootConstants DEF Boot!At, Boot!BucketSet
<1>4. cors' = [cors EXCEPT ![Boot!At(a)] = M] /\ cors \in [Boot!BucketSet -> Boot!Rules]
  BY DEF Boot!PutCors, BootInv, BootTypeOK
<1> HIDE DEF M
<1>5. \A b \in Boot!BucketSet : cors'[b] = IF b = Boot!At(a) THEN M ELSE cors[b]
  BY <1>4
<1>6. cors' \in [Boot!BucketSet -> Boot!Rules]
  BY <1>2, <1>4
<1>7. \A b \in Boot!BucketSet : RulesSound(cors[b])
  BY DEF BootInv
<1> QED
  BY <1>2, <1>3, <1>5, <1>6, <1>7

LEMMA BootStep == BootInv /\ [Boot!Next]_(Boot!vars) => BootInv'
<1> SUFFICES ASSUME BootInv, [Boot!Next]_(Boot!vars) PROVE BootInv'
  OBVIOUS
<1> USE DEF BootTypeOK
<1>1. /\ exists \subseteq Boot!BucketSet /\ cors \in [Boot!BucketSet -> Boot!Rules]
      /\ \A b \in Boot!BucketSet : RulesSound(cors[b])
  BY DEF BootInv
<1>2. ASSUME NEW a \in Admins
      PROVE  /\ admin[a] \in AdminRecords /\ AdminSound(admin[a])
             /\ Boot!At(a) = Buckets[admin[a].at] /\ Boot!At(a) \in Boot!BucketSet
  <2>1. admin[a] \in AdminRecords /\ AdminSound(admin[a])
    BY DEF BootInv
  <2>2. admin[a].at \in DOMAIN Buckets
    BY <2>1, BootConstants DEF AdminRecords
  <2> QED BY <2>1, <2>2 DEF Boot!At, Boot!BucketSet
<1>3. ASSUME NEW a \in Admins, Boot!Ensured(a), UNCHANGED <<exists, cors>>,
             Boot!At(a) \in exists
      PROVE  BootInv'
  <2>1. CASE admin[a].origins = NoOrigins
    <3>1. Boot!NextBucket(a)
      BY <1>3, <2>1 DEF Boot!Ensured
    <3>2. BucketThrough(Buckets[admin[a].at], admin[a].origins)
      BY <1>2, <1>3, <2>1 DEF BucketThrough
    <3> QED BY <1>3, <3>1, <3>2, AdminNextBucket
  <2>2. CASE admin[a].origins # NoOrigins
    <3>1. Boot!GoTo(a, "read")
      BY <1>3, <2>2 DEF Boot!Ensured
    <3> QED BY <1>1, <1>2, <1>3, <2>2, <3>1, AdminGoesTo
  <2> QED BY <2>1, <2>2
<1>4. ASSUME NEW a \in Admins, UNCHANGED <<exists, cors>>,
             Boot!Missing(a) \/ Boot!GoTo(a, "failed")
      PROVE  BootInv'
  <2>1. Boot!GoTo(a, "create") \/ Boot!GoTo(a, "failed")
    BY <1>4 DEF Boot!Missing
  <2> QED BY <1>1, <1>4, <2>1, AdminGoesTo
<1>5. ASSUME NEW a \in Admins, Boot!HeadBucket(a) PROVE BootInv'
  BY <1>3, <1>4, <1>5 DEF Boot!HeadBucket
<1>6. ASSUME NEW a \in Admins, exists' = exists \cup {Boot!At(a)}, UNCHANGED cors,
             NEW t \in {"created", "failed"}, Boot!GoTo(a, t)
      PROVE  BootInv'
  BY <1>1, <1>2, <1>6, AdminGoesTo
<1>7. ASSUME NEW a \in Admins, Boot!CreateBucket(a) PROVE BootInv'
  BY <1>4, <1>6, <1>7 DEF Boot!CreateBucket
<1>8. ASSUME NEW a \in Admins, Boot!HeadCreated(a) PROVE BootInv'
  BY <1>2, <1>3, <1>8 DEF Boot!HeadCreated, AdminSound
<1>9. ASSUME NEW a \in Admins, Boot!ReadCors(a) PROVE BootInv'
  <2> DEFINE R == cors[Boot!At(a)]
             t == IF Boot!HasRoom(R) THEN "write" ELSE "failed"
  <2>1. PICK r : r = [admin[a] EXCEPT !.step = t, !.rules = R]
    OBVIOUS
  <2>2. R \in Boot!Rules /\ t \in AdminSteps
    BY <1>1, <1>2 DEF AdminSteps
  <2>3. r \in AdminRecords
    BY <1>2, <2>1, <2>2 DEF AdminRecords
  <2>4. r.step = t /\ r.rules = R /\ r.at = admin[a].at /\ r.origins = admin[a].origins
    BY <1>2, <2>1 DEF AdminRecords
  <2>5. admin' = [admin EXCEPT ![a] = r] /\ UNCHANGED <<exists, cors>> /\ admin[a].step = "read"
    BY <1>9, <2>1 DEF Boot!ReadCors, BootInv
  <2>6. t = "write" => Boot!HasRoom(r.rules)
    BY <2>4
  <2> HIDE DEF t, R
  <2>7. t \in {"write", "failed"}
    BY DEF t
  <2>8. AdminSound(r)
    BY <1>2, <2>4, <2>5, <2>6, <2>7 DEF AdminSound
  <2>9. AdminSound(r)'
    BY <2>5, <2>8 DEF AdminSound, BucketThrough, Boot!HasRoom
  <2> QED BY <1>1, <2>3, <2>5, <2>9, OneAdminMoves
<1>10. ASSUME NEW a \in Admins, Boot!WriteCors(a) PROVE BootInv'
  <2>1. PICK r : r = [admin[a] EXCEPT !.step = "verify", !.rules = {}]
    OBVIOUS
  <2>2. r \in AdminRecords
    BY <1>2, <2>1 DEF AdminRecords, AdminSteps, Boot!Rules
  <2>3. r.step = "verify" /\ r.at = admin[a].at /\ r.origins = admin[a].origins
    BY <1>2, <2>1 DEF AdminRecords
  <2>4. /\ admin' = [admin EXCEPT ![a] = r] /\ UNCHANGED exists
        /\ admin[a].step = "write" /\ Boot!PutCors(a)
    BY <1>10, <2>1 DEF Boot!WriteCors, BootInv
  <2>5. /\ cors' \in [Boot!BucketSet -> Boot!Rules]
        /\ \A b \in Boot!BucketSet :
             /\ RulesSound(cors'[b])
             /\ cors[b] \cap Boot!Managed # {} => cors'[b] \cap Boot!Managed # {}
    BY <2>4, PutCorsSound
  <2>6. AdminSound(r)
    BY <1>2, <2>3, <2>4 DEF AdminSound
  <2>7. AdminSound(r)'
    BY <2>2, <2>4, <2>5, <2>6, AdminStaysSound
  <2> QED BY <1>1, <2>2, <2>4, <2>5, <2>7, OneAdminMoves
<1>11. ASSUME NEW a \in Admins, Boot!VerifyCors(a) PROVE BootInv'
  <2>1. CASE [managed |-> admin[a].origins] \in cors[Boot!At(a)]
    <3>1. Boot!NextBucket(a) /\ UNCHANGED <<exists, cors>> /\ admin[a].step = "verify"
      BY <1>11, <2>1 DEF Boot!VerifyCors
    <3>2. admin[a].origins \in Origins /\ Boot!At(a) \in exists
      BY <1>2, <3>1 DEF AdminSound, AdminRecords
    <3>3. BucketThrough(Boot!At(a), admin[a].origins)
      BY <2>1, <3>2 DEF BucketThrough, Boot!Managed
    <3> QED BY <1>2, <3>1, <3>3, AdminNextBucket
  <2>2. CASE [managed |-> admin[a].origins] \notin cors[Boot!At(a)]
    BY <1>4, <1>11, <2>2 DEF Boot!VerifyCors
  <2> QED BY <2>1, <2>2
<1>12. ASSUME NEW a \in Admins, Boot!CallFails(a) PROVE BootInv'
  BY <1>4, <1>12 DEF Boot!CallFails
<1>13. ASSUME NEW a \in Admins, Boot!AnswerLost(a) PROVE BootInv'
  <2>1. Boot!GoTo(a, "failed")
    BY <1>13 DEF Boot!AnswerLost
  <2>2. CASE exists' = exists \cup {Boot!At(a)} /\ UNCHANGED cors
    BY <1>6, <2>1, <2>2
  <2>3. CASE admin[a].step = "write" /\ Boot!PutCors(a) /\ UNCHANGED exists
    BY <1>1, <2>1, <2>3, PutCorsSound, AdminGoesTo
  <2> QED BY <1>13, <2>2, <2>3 DEF Boot!AnswerLost
<1>14. ASSUME NEW a \in Admins, Boot!Rerun(a) PROVE BootInv'
  <2>1. PICK r : r = Boot!Fresh(admin[a])
    OBVIOUS
  <2>2. r \in AdminRecords /\ r.step = "head" /\ r.at = 1
    BY <1>2, <2>1, BootConstants DEF Boot!Fresh, AdminRecords, AdminSteps, Boot!Rules
  <2>3. admin' = [admin EXCEPT ![a] = r] /\ UNCHANGED <<exists, cors>>
    BY <1>14, <2>1 DEF Boot!Rerun, BootInv
  <2>4. AdminSound(r)'
    BY <2>2 DEF AdminSound
  <2> QED BY <1>1, <2>2, <2>3, <2>4, OneAdminMoves
<1>15. ASSUME NEW c \in Boot!BucketSet, NEW rule \in Editors, Boot!Edit(c, rule) PROVE BootInv'
  <2> DEFINE R == cors[c]
  <2>1. /\ cors' = [cors EXCEPT ![c] = R \cup {rule}] /\ UNCHANGED <<exists, admin>>
        /\ Cardinality(R) < MaxRules
    BY <1>15, BootCounts DEF Boot!Edit
  <2>2. rule \in Foreign /\ rule \notin Boot!Managed
    BY BootConstants
  <2>3. R \in Boot!Rules /\ R \cup {rule} \in Boot!Rules
    BY <1>1, <2>2 DEF Boot!Rules
  <2>4. (R \cup {rule}) \cap Boot!Managed = R \cap Boot!Managed
    BY <2>2
  <2>5. Cardinality(R \cap Boot!Managed) <= 1
    BY <1>1 DEF RulesSound
  <2> HIDE DEF R
  <2>6. RulesSound(R \cup {rule})
    <3>1. IsFiniteSet(R) /\ Cardinality(R) \in Nat
      BY <2>3, RulesFinite
    <3>2. Cardinality(R \cup {rule}) = IF rule \in R THEN Cardinality(R) ELSE Cardinality(R) + 1
      BY <3>1, FS_AddElement
    <3>3. Cardinality(R \cup {rule}) <= MaxRules
      BY <2>1, <3>1, <3>2, BootConstants DEF R
    <3> QED BY <2>4, <2>5, <3>3 DEF RulesSound
  <2>7. \A b \in Boot!BucketSet : cors'[b] = IF b = c THEN R \cup {rule} ELSE cors[b]
    BY <1>1, <2>1
  <2>8. cors' \in [Boot!BucketSet -> Boot!Rules]
    BY <1>1, <2>1, <2>3
  <2>9. \A b \in Boot!BucketSet :
          RulesSound(cors'[b]) /\ (cors[b] \cap Boot!Managed # {} => cors'[b] \cap Boot!Managed # {})
    BY <1>1, <2>4, <2>6, <2>7 DEF R
  <2>10. ASSUME NEW a \in Admins PROVE AdminSound(admin[a])'
    <3>1. PICK r : r = admin[a]
      OBVIOUS
    <3>2. AdminSound(r)'
      BY <1>2, <2>1, <2>9, <3>1, AdminStaysSound
    <3>3. admin'[a] = r
      BY <2>1, <3>1
    <3> QED BY <3>2, <3>3 DEF AdminSound, BucketThrough, Boot!HasRoom
  <2> QED BY <1>1, <2>1, <2>8, <2>9, <2>10 DEF BootInv, RulesSound
<1>16. CASE UNCHANGED Boot!vars
  BY <1>16 DEF Boot!vars, BootInv, RulesSound, AdminSound, BucketThrough, Boot!HasRoom
<1> QED
  BY <1>5, <1>7, <1>8, <1>9, <1>10, <1>11, <1>12, <1>13, <1>14, <1>15, <1>16
     DEF Boot!Next, Boot!AdminStep

LEMMA BootPartInv == Spec => [](part = "bootstrap" => BootInv)
<1>1. Init => (part = "bootstrap" => BootInv)
  BY BootInit DEF Init, Chosen
<1>2. (part = "bootstrap" => BootInv) /\ [Next]_v => (part = "bootstrap" => BootInv)'
  <2> SUFFICES ASSUME part = "bootstrap" => BootInv, [Next]_v, (part = "bootstrap")'
               PROVE  BootInv'
    OBVIOUS
  <2>1. part = "bootstrap" /\ [Boot!Next]_(Boot!vars)
    BY PartSteps
  <2> QED BY <2>1, BootStep
<1> QED BY <1>1, <1>2, PTL DEF Spec

(* However bootstraps overlap, fail or are repeated, and whatever other parties
   add in between, no bucket holds two managed CORS rules or more rules than
   the provider takes, and a bootstrap that reported success left every bucket
   in place and with its managed rule. *)
THEOREM BootstrapKeepsOneRule == Spec => []OneManagedRule
<1>1. (part = "bootstrap" => BootInv) => OneManagedRule
  BY BootCounts
     DEF OneManagedRule, Boot!OneManagedRule, BootInv, RulesSound, AdminSound, BucketThrough
<1> QED BY <1>1, BootPartInv, PTL

(* Only a write removes a rule of another party, and only one that was not
   among the rules it had read: merge_managed_cors_rules carries every foreign
   rule of the read over. *)
THEOREM ReadRulesSurvive == Spec => ForeignRulesKept
<1>1. (part = "bootstrap" => BootInv) /\ [Next]_v
        => [part = "bootstrap" => Boot!LosesOnlyUnread]_v
  <2> SUFFICES ASSUME part = "bootstrap", BootInv, [Boot!Next]_(Boot!vars)
               PROVE  Boot!LosesOnlyUnread
    BY PartSteps
  <2> SUFFICES ASSUME NEW b \in Boot!BucketSet,
                      NEW rule \in (cors[b] \cap Foreign) \ cors'[b]
               PROVE  \E a \in Admins : /\ admin[a].step = "write" /\ Boot!At(a) = b
                                         /\ rule \notin admin[a].rules
    BY DEF Boot!LosesOnlyUnread
  <2>1. ASSUME NEW a \in Admins, admin[a].step = "write", Boot!PutCors(a)
        PROVE  Boot!At(a) = b /\ rule \notin admin[a].rules
    BY <2>1, PutCorsSound
  <2>2. ASSUME NEW c \in Boot!BucketSet, NEW added \in Editors, Boot!Edit(c, added)
        PROVE  FALSE
    <3>1. cors' = [cors EXCEPT ![c] = cors[c] \cup {added}]
      BY <2>2 DEF Boot!Edit
    <3>2. cors[b] \subseteq cors'[b]
      BY <3>1 DEF BootInv, BootTypeOK
    <3> QED BY <3>2
  <2>3. CASE UNCHANGED cors
    BY <2>3
  <2>4. \/ \E a \in Admins : admin[a].step = "write" /\ Boot!PutCors(a)
        \/ \E c \in Boot!BucketSet, added \in Editors : Boot!Edit(c, added)
        \/ UNCHANGED cors
    BY DEF Boot!Next, Boot!AdminStep, Boot!HeadBucket, Boot!CreateBucket, Boot!HeadCreated,
           Boot!ReadCors, Boot!WriteCors, Boot!VerifyCors, Boot!CallFails, Boot!AnswerLost,
           Boot!Rerun, Boot!vars
  <2> QED BY <2>1, <2>2, <2>3, <2>4
<1> QED BY <1>1, BootPartInv, PTL DEF Spec, ForeignRulesKept

=============================================================================
