-------------------------------- MODULE Setup --------------------------------
(***************************************************************************)
(* g7mbctl setup: from the operator's answers to the four files the        *)
(* services load.  The answers are checked, the targets are preflighted,   *)
(* the provider is probed unless that is deferred, the files are replaced  *)
(* one at a time with the configuration last, and the result is loaded as  *)
(* the services will.  The command may be killed between any two steps.    *)
(***************************************************************************)
EXTENDS Naturals, FiniteSets

CONSTANTS
    Inputs,      \* what an operator may answer, a set of Answers
    Keys,        \* credentials
    LiveKeys,    \* the ones the provider accepts
    Forces,      \* values of --force
    None,
    MaxChanges,  \* how often the operator changes the answers
    MaxFaults    \* kills and provider failures

Providers == {"r2", "aws", "lightsail", "generic"}

Answers == [provider : Providers, region : {"auto", "lower", "upper"}, one_bucket : BOOLEAN,
            path_style : BOOLEAN, create : BOOLEAN, cors : BOOLEAN, defer : BOOLEAN, key : Keys]

SetupAssumption ==
    /\ Inputs \subseteq Answers /\ LiveKeys \subseteq Keys /\ None \notin Keys
    /\ Forces \subseteq BOOLEAN /\ MaxChanges \in Nat /\ MaxFaults \in Nat

VARIABLES
    file,     \* the contents of the four files
    goal,     \* the command line the operator is working with
    step,     \* progress of the command
    hmac,     \* the HMAC secret this command uses
    changes, faults

vars == <<file, goal, step, hmac, changes, faults>>

Files == {"access", "secret", "hmac", "config"}

Commands == [in : Inputs, force : Forces]

Init ==
    /\ file = [f \in Files |-> None]
    /\ goal \in Commands
    /\ step = "idle" /\ hmac = None
    /\ changes = 0 /\ faults = 0

-----------------------------------------------------------------------------
(* collect_setup_values: a Lightsail key can neither create buckets nor set CORS *)
collect_setup_values(in) == in.provider = "lightsail" => ~in.create /\ ~in.cors

(* render_config: endpoint and region follow from the provider *)
render_config(in) ==
    [provider   |-> in.provider,
     endpoint   |-> CASE in.provider = "r2" -> "r2" [] in.provider = "generic" -> "custom"
                      [] OTHER -> None,
     region     |-> IF in.provider = "r2" THEN "auto" ELSE in.region,
     one_bucket |-> in.one_bucket,
     path_style |-> in.path_style]

(* What the command writes to f *)
Contents(f) ==
    CASE f = "config" -> render_config(goal.in) [] f = "hmac" -> hmac [] OTHER -> goal.in.key

validate_provider_contract(conf) ==
    CASE conf.provider = "r2" -> conf.endpoint = "r2" /\ conf.region = "auto" /\ ~conf.path_style
      [] conf.provider \in {"aws", "lightsail"} ->
           /\ conf.endpoint = None /\ conf.region # "auto" /\ ~conf.path_style
           /\ conf.provider = "lightsail" => conf.one_bucket
      [] OTHER -> conf.endpoint # None

(* The redirect authority of an AWS bucket holds the region, in lower case only *)
derive_redirect_authorities(conf) == conf.provider \in {"aws", "lightsail"} => conf.region # "upper"

(* Settings::load: the secret files are there and the settings are valid *)
Loads ==
    /\ \A f \in Files : file[f] # None
    /\ validate_provider_contract(file["config"])
    /\ derive_redirect_authorities(file["config"])

-----------------------------------------------------------------------------
Conflict_ConfigOnly(f) == f = "config" /\ file[f] # None /\ file[f] # Contents(f) /\ ~goal.force

(* preflight_target and atomic_write: other contents are replaced only with --force *)
Conflict(f) == file[f] # None /\ file[f] # Contents(f) /\ ~goal.force

(* An HMAC secret that exists is kept, unless --force draws a new one *)
NewHmac ==
    IF file["hmac"] # None /\ ~goal.force THEN file["hmac"]
    ELSE IF file["hmac"] = 1 THEN 2 ELSE 1

Begin ==
    /\ step = "idle"
    /\ collect_setup_values(goal.in)
    /\ hmac' = NewHmac
    /\ step' = "preflight"
    /\ UNCHANGED <<file, goal, changes, faults>>

(* All four targets are looked at before anything is done *)
Preflight ==
    /\ step = "preflight"
    /\ step' = IF \E f \in Files : Conflict(f) THEN "idle"
               ELSE IF goal.in.defer THEN "access" ELSE "probe"
    /\ UNCHANGED <<file, goal, hmac, changes, faults>>

(* S3StorageAdmin::new refuses a contract violation; bootstrap and canary need
   a live key, and AWS knows no region in upper case *)
Probe ==
    LET conf == render_config(goal.in)
    IN  /\ step = "probe"
        /\ step' = IF /\ validate_provider_contract(conf)
                      /\ goal.in.key \in LiveKeys
                      /\ conf.provider \in {"aws", "lightsail"} => conf.region # "upper"
                     THEN "access" ELSE "idle"
        /\ UNCHANGED <<file, goal, hmac, changes, faults>>

Following == [access |-> "secret", secret |-> "hmac", hmac |-> "config", config |-> "load"]

AtomicWrite_KeepsOld ==
    /\ step \in Files
    /\ IF file[step] # None
         THEN step' = Following[step] /\ UNCHANGED file
         ELSE step' = Following[step] /\ file' = [file EXCEPT ![step] = Contents(step)]
    /\ UNCHANGED <<goal, hmac, changes, faults>>

(* One file is replaced by a rename; the configuration comes last *)
AtomicWrite ==
    /\ step \in Files
    /\ IF Conflict(step)
         THEN step' = "idle" /\ UNCHANGED file
         ELSE step' = Following[step] /\ file' = [file EXCEPT ![step] = Contents(step)]
    /\ UNCHANGED <<goal, hmac, changes, faults>>

(* "PASS" only when the new configuration loads *)
SelfCheck ==
    /\ step = "load"
    /\ step' = IF Loads THEN "passed" ELSE "idle"
    /\ UNCHANGED <<file, goal, hmac, changes, faults>>

(* The command is killed, a write fails, or the provider does not answer *)
Dies ==
    /\ step \notin {"idle", "passed"} /\ faults < MaxFaults
    /\ step' = "idle" /\ faults' = faults + 1
    /\ UNCHANGED <<file, goal, hmac, changes>>

(* The operator goes on with other answers, or with --force *)
ChangeAnswers ==
    /\ step \in {"idle", "passed"} /\ changes < MaxChanges
    /\ goal' \in Commands
    /\ step' = "idle" /\ changes' = changes + 1
    /\ UNCHANGED <<file, hmac, faults>>

CommandStep == Begin \/ Preflight \/ Probe \/ AtomicWrite \/ SelfCheck

Next == CommandStep \/ Dies \/ ChangeAnswers

Spec == Init /\ [][Next]_vars

(* The operator repeats a command that died *)
FairSpec == Spec /\ WF_vars(CommandStep)

-----------------------------------------------------------------------------

(* "PASS": however many commands died before, the four files are the ones of
   this command and the services can load them. *)
PassIsWhole == step = "passed" => Loads /\ \A f \in Files : file[f] = Contents(f)

KeepsFiles == \A f \in Files : file'[f] # file[f] => goal.force \/ file[f] = None

(* docs/SETUP_CUI.md: a command without --force stops when a file differs.  It
   never changes what a file holds, so that without --force the files on disk
   never mix two sets of answers. *)
UnforcedKeepsFiles == [][KeepsFiles]_vars

(* The last command of the operator has sound answers and no file in its way *)
Repeatable ==
    LET conf == render_config(goal.in) IN
    /\ changes = MaxChanges
    /\ collect_setup_values(goal.in) /\ validate_provider_contract(conf)
    /\ derive_redirect_authorities(conf) /\ goal.in.key \in LiveKeys
    /\ goal.force \/ \A f \in Files \ {"hmac"} : file[f] \in {None, Contents(f)}

(* docs/SETUP_CUI.md: "Run again with the same input it keeps the HMAC and
   passes": a command that died part-way passes when it is repeated. *)
RepeatPasses == Repeatable ~> step = "passed"
=============================================================================
