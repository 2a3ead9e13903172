------------------------------ MODULE Installer ------------------------------
(***************************************************************************)
(* g7mbctl install: bring up the runtime and the service account, verify   *)
(* the bundle against its manifest, copy its files one by one over the     *)
(* installed ones, verify again, and start or restart the target.  The     *)
(* command may die anywhere and is then repeated; meanwhile the services   *)
(* of an earlier version run on, systemd restarts one that crashes from    *)
(* what is on disk, and a new release may be unpacked over the bundle.     *)
(***************************************************************************)
EXTENDS Naturals, Sequences, FiniteSets

CONSTANTS
    Versions,    \* releases
    Payload,     \* PAYLOAD_FILES, in order of installation
    Services,    \* the payload files that run as services
    None,
    Forces,      \* values of --force
    MaxDeaths,   \* kills of the command, and timeouts
    MaxCrashes,  \* crashes of a service
    MaxUnpacks   \* releases unpacked over the bundle

Files == {Payload[i] : i \in DOMAIN Payload}

InstallerAssumption ==
    /\ Len(Payload) \in Nat \ {0} /\ DOMAIN Payload = 1..Len(Payload)
    /\ Services \subseteq Files /\ None \notin Versions /\ Forces \subseteq BOOLEAN
    /\ MaxDeaths \in Nat /\ MaxCrashes \in Nat /\ MaxUnpacks \in Nat

VARIABLES
    bundle,      \* bundle file -> version; the manifest's version too
    disk,        \* installed file -> version
    runs,        \* service -> version of its process
    account,     \* service account: none, group, user
    runtime,     \* libvips and FFmpeg are installed
    config,      \* g7mb.toml exists
    cmd,         \* the command: options, step, position, target_was_active
    unpacking,   \* version being unpacked over the bundle
    deaths, crashes, unpacks

vars == <<bundle, disk, runs, account, runtime, config, cmd, unpacking, deaths, crashes, unpacks>>

hostVars == <<account, runtime, config>>

envVars == <<unpacking, deaths, crashes, unpacks>>

Manifest == "MANIFEST.sha256"

Options == [force : Forces, deps : BOOLEAN, skip_setup : BOOLEAN, skip_start : BOOLEAN]

Active == \A s \in Services : runs[s] # None

(* Either nothing is installed, or a release is installed and runs *)
Init ==
    /\ \E v \in Versions : bundle = [f \in Files \cup {Manifest} |-> v]
    /\ \E v \in Versions \cup {None} :
         /\ disk = [f \in Files |-> v] /\ runs = [s \in Services |-> v]
         /\ account = IF v = None THEN "none" ELSE "user"
         /\ config = (v # None) /\ runtime \in {v # None, TRUE}
    /\ \E o \in Options : cmd = [o |-> o, step |-> "idle", at |-> 1, was_active |-> FALSE]
    /\ unpacking = None /\ deaths = 0 /\ crashes = 0 /\ unpacks = 0

GoTo(step) == cmd' = [cmd EXCEPT !.step = step]

Begin ==
    /\ cmd.step = "idle"
    /\ cmd' = [cmd EXCEPT !.step = "runtime", !.at = 1]
    /\ UNCHANGED <<bundle, disk, runs, hostVars, envVars>>

(* apt-get runs only with the operator's consent; without it the command ends *)
ensure_native_runtime ==
    /\ cmd.step = "runtime"
    /\ runtime' = (runtime \/ cmd.o.deps)
    /\ GoTo(IF runtime' THEN "bundle" ELSE "idle")
    /\ UNCHANGED <<bundle, disk, runs, account, config, envVars>>

verify_payload_manifest == \A f \in Files : bundle[f] = bundle[Manifest]

validate_bundle ==
    /\ cmd.step = "bundle"
    /\ GoTo(IF verify_payload_manifest THEN "account" ELSE "idle")
    /\ UNCHANGED <<bundle, disk, runs, hostVars, envVars>>

(* groupadd and useradd, each only when it is missing *)
prepare_service_account ==
    /\ cmd.step = "account"
    /\ account' = IF account = "none" THEN "group" ELSE "user"
    /\ GoTo(IF account = "none" THEN "account" ELSE "preflight")
    /\ UNCHANGED <<bundle, disk, runs, runtime, config, envVars>>

Conflict(f) == disk[f] # None /\ disk[f] # bundle[f] /\ ~cmd.o.force

preflight_install_payload ==
    /\ cmd.step = "preflight"
    /\ cmd' = [cmd EXCEPT !.step = IF \E f \in Files : Conflict(f) THEN "idle" ELSE "check",
                          !.was_active = Active]
    /\ UNCHANGED <<bundle, disk, runs, hostVars, envVars>>

(* The next file is replaced by a rename, unless it differs and may not be *)
copy_file_atomic ==
    LET f == Payload[cmd.at]
    IN  /\ cmd.step = "copy"
        /\ IF Conflict(f)
             THEN GoTo("idle") /\ UNCHANGED disk
             ELSE /\ disk' = [disk EXCEPT ![f] = bundle[f]]
                  /\ cmd' = [cmd EXCEPT
                       !.step = IF cmd.at = Len(Payload) THEN "verify" ELSE "copy",
                       !.at = IF cmd.at = Len(Payload) THEN 1 ELSE @ + 1]
        /\ UNCHANGED <<bundle, runs, hostVars, envVars>>

(* install_payload verifies the bundle before the first copy and after the last *)
VerifyBefore ==
    /\ cmd.step = "check"
    /\ GoTo(IF verify_payload_manifest THEN "copy" ELSE "idle")
    /\ UNCHANGED <<bundle, disk, runs, hostVars, envVars>>

VerifyAgain ==
    /\ cmd.step = "verify"
    /\ GoTo(IF verify_payload_manifest THEN "compare" ELSE "idle")
    /\ UNCHANGED <<bundle, disk, runs, hostVars, envVars>>

(* Every installed file is compared with the bundle's *)
CompareInstalled ==
    /\ cmd.step = "compare"
    /\ GoTo(IF \A f \in Files : disk[f] = bundle[f] THEN "setup" ELSE "idle")
    /\ UNCHANGED <<bundle, disk, runs, hostVars, envVars>>

(* A first installation continues into g7mbctl setup *)
RunSetup ==
    /\ cmd.step = "setup"
    /\ config' = (config \/ ~cmd.o.skip_setup)
    /\ GoTo(IF cmd.o.skip_start THEN "passed" ELSE IF config' THEN "start" ELSE "idle")
    /\ UNCHANGED <<bundle, disk, runs, account, runtime, envVars>>

StartTarget_EnableOnly ==
    /\ cmd.step = "start"
    /\ runs' = [s \in Services |-> IF runs[s] # None THEN runs[s] ELSE disk[s]]
    /\ GoTo("ready")
    /\ UNCHANGED <<bundle, disk, hostVars, envVars>>

(* A target that was active is restarted, any other is enabled and started *)
StartTarget ==
    /\ cmd.step = "start"
    /\ runs' = [s \in Services |->
                  IF runs[s] # None /\ ~cmd.was_active THEN runs[s] ELSE disk[s]]
    /\ GoTo("ready")
    /\ UNCHANGED <<bundle, disk, hostVars, envVars>>

(* wait_until_ready, wait_until_active_units, status *)
WaitReady ==
    /\ cmd.step = "ready" /\ Active
    /\ GoTo("passed")
    /\ UNCHANGED <<bundle, disk, runs, hostVars, envVars>>

InstallStep ==
    \/ Begin \/ ensure_native_runtime \/ validate_bundle \/ prepare_service_account
    \/ preflight_install_payload \/ VerifyBefore \/ copy_file_atomic \/ VerifyAgain
    \/ CompareInstalled \/ RunSetup \/ StartTarget \/ WaitReady

-----------------------------------------------------------------------------
(* The command is killed, a program it runs fails, or waiting times out *)
Dies ==
    /\ cmd.step \notin {"idle", "passed"} /\ deaths < MaxDeaths
    /\ GoTo("idle") /\ deaths' = deaths + 1
    /\ UNCHANGED <<bundle, disk, runs, hostVars, unpacking, crashes, unpacks>>

(* Restart=on-failure: the new process is the file on disk *)
Respawn(s) ==
    /\ runs[s] # None /\ crashes < MaxCrashes
    /\ runs' = [runs EXCEPT ![s] = disk[s]] /\ crashes' = crashes + 1
    /\ UNCHANGED <<bundle, disk, hostVars, cmd, unpacking, deaths, unpacks>>

(* Another release is unpacked over the bundle, file by file *)
Unpack(v) ==
    /\ unpacking = None /\ unpacks < MaxUnpacks /\ bundle[Manifest] # v
    /\ unpacking' = v /\ unpacks' = unpacks + 1
    /\ UNCHANGED <<bundle, disk, runs, hostVars, cmd, deaths, crashes>>

UnpackFile(f) ==
    /\ unpacking # None /\ bundle[f] # unpacking
    /\ bundle' = [bundle EXCEPT ![f] = unpacking]
    /\ unpacking' = IF \A g \in DOMAIN bundle : bundle'[g] = unpacking THEN None ELSE unpacking
    /\ UNCHANGED <<disk, runs, hostVars, cmd, deaths, crashes, unpacks>>

UnpackStep == \E f \in Files \cup {Manifest} : UnpackFile(f)

Next ==
    \/ InstallStep \/ Dies
    \/ \E s \in Services : Respawn(s)
    \/ \E v \in Versions : Unpack(v)
    \/ UnpackStep

Spec == Init /\ [][Next]_vars

(* The operator repeats a command that ended early; tar finishes *)
FairSpec == Spec /\ WF_vars(InstallStep) /\ WF_vars(UnpackStep)

-----------------------------------------------------------------------------

(* "PASS install": the installed files are one release, whatever died before
   and although another one is unpacked meanwhile, and unless the start was
   skipped every service runs that release.  A bundle that is replaced twice
   during one installation (MaxUnpacks = 2) can match again, at the comparison,
   files that were copied from two releases. *)
PassRunsInstalled ==
    cmd.step = "passed" =>
      \E v \in Versions :
        /\ \A f \in Files : disk[f] = v
        /\ ~cmd.o.skip_start => \A s \in Services : runs[s] = v

Repeatable ==
    /\ cmd.o.force /\ (runtime \/ cmd.o.deps)
    /\ config \/ ~cmd.o.skip_setup \/ cmd.o.skip_start

(* A repeated installation gets through from wherever the last one died,
   provided --force allows the replacement, the runtime may be installed and
   there is a configuration to start with. *)
RepeatInstalls == Repeatable ~> cmd.step = "passed"
=============================================================================
