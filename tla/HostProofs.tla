----------------------------- MODULE HostProofs -----------------------------
(***************************************************************************)
(* What Installer, Backup, Config and ResourceGates promise, for every     *)
(* value of their constants, along the lines of OperationsProofs.          *)
(***************************************************************************)
EXTENDS OperationsProofs, Sums

-----------------------------------------------------------------------------
(* Installer.  The bundle holds the files of two releases at most: old, and new
   once another one is being unpacked. *)
BundleFiles == Install!Files \cup {Install!Manifest}

TwoReleases(old, new) ==
    /\ bundle \in [BundleFiles -> {old, new}]
    /\ IF unpacks = 0 THEN old = new /\ unpacking = None
       ELSE old # new /\ unpacking \in {None, new}

(* The files the command has copied *)
Copied ==
    {Payload[i] : i \in {j \in DOMAIN Payload :
                           (cmd.step = "copy" /\ j < cmd.at) \/ cmd.step = "verify"}}

(* What the second verification leaves open: every file was copied from the old
   release, or the bundle is the new one throughout *)
CopiedSound(old, new) ==
    /\ cmd.step \in {"runtime", "bundle", "account", "preflight", "check"} => cmd.at = 1
    /\ \A f \in Copied : /\ installed[f] \in {old, new}
                         /\ installed[f] = new => bundle[f] = new
    /\ cmd.step = "compare" => \/ \A f \in Install!Files : installed[f] = old
                               \/ old # new /\ \A f \in Install!Files : bundle[f] = new

InstallSteps ==
    {"idle", "runtime", "bundle", "account", "preflight", "check", "copy", "verify",
     "compare", "setup", "start", "ready", "passed"}

CommandRecords ==
    [o : Install!Options, step : InstallSteps, at : 1..Len(Payload), was_active : BOOLEAN]

InstallTypeOK ==
    /\ cmd \in CommandRecords /\ unpacks \in Nat
    /\ installed \in [Install!Files -> Versions \cup {None}]
    /\ runs \in [Units -> Versions \cup {None}]

(* The services run, or not, together, and none whose file is missing; while
   the command is under way it knows which *)
ServicesSound ==
    /\ \A s \in Units : runs[s] # None => Install!Active /\ installed[s] # None
    /\ cmd.step \in {"check", "copy", "verify", "compare", "setup", "start"}
         => cmd.was_active = Install!Active
    /\ cmd.step = "ready" \/ (cmd.step = "passed" /\ ~cmd.o.skip_start)
         => \A s \in Units : runs[s] = installed[s]

OneRelease ==
    cmd.step \in {"setup", "start", "ready", "passed"}
      => \E w \in Versions : \A f \in Install!Files : installed[f] = w

InstallInv ==
    /\ InstallTypeOK /\ ServicesSound /\ OneRelease
    /\ \E old, new \in Versions : TwoReleases(old, new) /\ CopiedSound(old, new)

LEMMA InstallConstants ==
    /\ Len(Payload) \in Nat \ {0} /\ DOMAIN Payload = 1..Len(Payload)
    /\ Units \subseteq Install!Files /\ None \notin Versions /\ MaxUnpacks \in Nat
    /\ \A f \in Install!Files : \E i \in 1..Len(Payload) : f = Payload[i]
    /\ \A i \in 1..Len(Payload) : Payload[i] \in Install!Files
<1>1. Install!InstallerAssumption
  BY OperationsAssumption DEF OperationsAssumption
<1> QED BY <1>1 DEF Install!InstallerAssumption, Install!Files

LEMMA InstallInit == Install!Init => InstallInv
<1> SUFFICES ASSUME Install!Init PROVE InstallInv
  OBVIOUS
<1>1. PICK w \in Versions : bundle = [f \in BundleFiles |-> w]
  BY DEF Install!Init, BundleFiles
<1>2. PICK x \in Versions \cup {None} :
        installed = [f \in Install!Files |-> x] /\ runs = [s \in Units |-> x]
  BY DEF Install!Init
<1>3. PICK o \in Install!Options :
        cmd = [o |-> o, step |-> "idle", at |-> 1, was_active |-> FALSE]
  BY DEF Install!Init
<1>4. unpacking = None /\ unpacks = 0
  BY DEF Install!Init
<1>5. InstallTypeOK
  BY <1>2, <1>3, <1>4, InstallConstants DEF InstallTypeOK, CommandRecords, InstallSteps
<1>6. ServicesSound
  BY <1>2, <1>3, InstallConstants DEF ServicesSound, Install!Active
<1>7. OneRelease
  BY <1>3 DEF OneRelease
<1>8. TwoReleases(w, w)
  BY <1>1, <1>4 DEF TwoReleases
<1>9. CopiedSound(w, w)
  BY <1>3 DEF CopiedSound, Copied
<1> QED BY <1>5, <1>6, <1>7, <1>8, <1>9 DEF InstallInv

LEMMA InstallTypeStep == InstallInv /\ [Install!Next]_(Install!vars) => InstallTypeOK'
<1> SUFFICES ASSUME InstallInv, [Install!Next]_(Install!vars) PROVE InstallTypeOK'
  OBVIOUS
<1> USE DEF InstallTypeOK
<1>1. /\ cmd \in CommandRecords /\ unpacks \in Nat
      /\ installed \in [Install!Files -> Versions \cup {None}]
      /\ runs \in [Units -> Versions \cup {None}]
      /\ \A f \in Install!Files : bundle[f] \in Versions
  BY DEF InstallInv, TwoReleases, BundleFiles
<1>2. \A t \in InstallSteps : [cmd EXCEPT !.step = t] \in CommandRecords
  BY <1>1 DEF CommandRecords
<1>3. CASE Install!Begin
  <2>1. 1 \in 1..Len(Payload)
    BY InstallConstants
  <2>2. cmd' \in CommandRecords
    BY <1>1, <1>3, <2>1 DEF Install!Begin, CommandRecords, InstallSteps
  <2> QED BY <1>1, <1>3, <2>2 DEF Install!Begin, Install!envVars
<1>4. CASE Install!ensure_native_runtime
  BY <1>1, <1>2, <1>4 DEF Install!ensure_native_runtime, Install!GoTo, InstallSteps, Install!envVars
<1>5. CASE Install!validate_bundle \/ Install!VerifyBefore \/ Install!VerifyAgain
            \/ Install!CompareInstalled \/ Install!WaitReady
  BY <1>1, <1>2, <1>5 DEF Install!validate_bundle, Install!VerifyBefore, Install!VerifyAgain,
    Install!CompareInstalled, Install!WaitReady, Install!GoTo, InstallSteps, Install!envVars
<1>6. CASE Install!prepare_service_account \/ Install!RunSetup
  BY <1>1, <1>2, <1>6 DEF Install!prepare_service_account, Install!RunSetup, Install!GoTo,
    InstallSteps, Install!envVars
<1>7. CASE Install!preflight_install_payload
  <2>1. Install!Active \in BOOLEAN
    BY DEF Install!Active
  <2> QED BY <1>1, <1>7, <2>1 DEF Install!preflight_install_payload, CommandRecords, InstallSteps,
        Install!envVars
<1>8. CASE Install!copy_file_atomic
  <2> DEFINE f == Payload[cmd.at]
  <2>1. cmd.at \in 1..Len(Payload) /\ f \in Install!Files
    BY <1>1, InstallConstants DEF CommandRecords
  <2>2. UNCHANGED <<runs, unpacks>>
    BY <1>8 DEF Install!copy_file_atomic, Install!envVars
  <2>3. CASE Install!Conflict(f)
    BY <1>1, <1>2, <1>8, <2>2, <2>3 DEF Install!copy_file_atomic, Install!GoTo, InstallSteps
  <2>4. CASE ~Install!Conflict(f)
    <3>1. /\ installed' = [installed EXCEPT ![f] = bundle[f]]
          /\ cmd' = [cmd EXCEPT !.step = IF cmd.at = Len(Payload) THEN "verify" ELSE "copy",
                                !.at = IF cmd.at = Len(Payload) THEN 1 ELSE cmd.at + 1]
      BY <1>8, <2>4 DEF Install!copy_file_atomic
    <3>2. installed' \in [Install!Files -> Versions \cup {None}]
      BY <1>1, <2>1, <3>1
    <3>3. (IF cmd.at = Len(Payload) THEN 1 ELSE cmd.at + 1) \in 1..Len(Payload)
      BY <2>1, InstallConstants
    <3>4. cmd' \in CommandRecords
      BY <1>1, <3>1, <3>3 DEF CommandRecords, InstallSteps
    <3> QED BY <1>1, <2>2, <3>2, <3>4
  <2> QED BY <2>3, <2>4
<1>9. CASE Install!StartTarget
  <2>1. runs' \in [Units -> Versions \cup {None}]
    BY <1>1, <1>9, InstallConstants DEF Install!StartTarget
  <2> QED BY <1>1, <1>2, <1>9, <2>1 DEF Install!StartTarget, Install!GoTo, InstallSteps, Install!envVars
<1>10. CASE Install!Dies
  BY <1>1, <1>2, <1>10 DEF Install!Dies, Install!GoTo, InstallSteps
<1>11. ASSUME NEW s \in Units, Install!Respawn(s) PROVE InstallTypeOK'
  BY <1>1, <1>11, InstallConstants DEF Install!Respawn
<1>12. ASSUME NEW w \in Versions, Install!Unpack(w) PROVE InstallTypeOK'
  BY <1>1, <1>12 DEF Install!Unpack
<1>13. CASE Install!UnpackStep
  BY <1>1, <1>13 DEF Install!UnpackStep, Install!UnpackFile
<1>14. CASE UNCHANGED Install!vars
  BY <1>1, <1>14 DEF Install!vars, Install!envVars
<1> QED
  BY <1>3, <1>4, <1>5, <1>6, <1>7, <1>8, <1>9, <1>10, <1>11, <1>12, <1>13, <1>14
     DEF Install!Next, Install!InstallStep

(* How the steps of the command move it *)
LEMMA CommandMoves ==
    ASSUME InstallTypeOK, NEW t, Install!GoTo(t)
    PROVE  /\ cmd'.step = t /\ cmd'.at = cmd.at /\ cmd'.o = cmd.o
           /\ cmd'.was_active = cmd.was_active
  BY DEF InstallTypeOK, CommandRecords, Install!GoTo

LEMMA InstallServicesStep ==
    InstallInv /\ [Install!Next]_(Install!vars) => (ServicesSound /\ OneRelease)'
<1> SUFFICES ASSUME InstallInv, [Install!Next]_(Install!vars) PROVE (ServicesSound /\ OneRelease)'
  OBVIOUS
<1>1. InstallTypeOK /\ ServicesSound /\ OneRelease
  BY DEF InstallInv
<1> USE DEF Install!Active
<1>2. ASSUME UNCHANGED <<installed, runs>>,
             cmd'.step \in {"idle", "runtime", "bundle", "account", "preflight"}
      PROVE  (ServicesSound /\ OneRelease)'
  BY <1>1, <1>2 DEF ServicesSound, OneRelease
<1>3. CASE Install!Begin
  <2>1. cmd'.step = "runtime"
    BY <1>1, <1>3 DEF Install!Begin, InstallTypeOK, CommandRecords
  <2> QED BY <1>2, <1>3, <2>1 DEF Install!Begin
<1>4. ASSUME UNCHANGED <<installed, runs>>, NEW t \in {"idle", "bundle", "account", "preflight"},
             Install!GoTo(t)
      PROVE  (ServicesSound /\ OneRelease)'
  BY <1>1, <1>2, <1>4, CommandMoves
<1>5. CASE Install!ensure_native_runtime \/ Install!validate_bundle \/ Install!prepare_service_account
            \/ Install!Dies
  BY <1>4, <1>5 DEF Install!ensure_native_runtime, Install!validate_bundle,
    Install!prepare_service_account, Install!Dies
<1>6. CASE Install!preflight_install_payload
  <2>1. UNCHANGED <<installed, runs>>
    BY <1>6 DEF Install!preflight_install_payload
  <2>2. cmd'.step \in {"idle", "check"} /\ cmd'.was_active = Install!Active
    BY <1>1, <1>6 DEF Install!preflight_install_payload, InstallTypeOK, CommandRecords
  <2> QED BY <1>1, <2>1, <2>2 DEF ServicesSound, OneRelease
<1>7. ASSUME UNCHANGED <<installed, runs>>, NEW t \in {"copy", "compare"}, Install!GoTo(t),
             cmd.step \in {"check", "verify"}
      PROVE  (ServicesSound /\ OneRelease)'
  BY <1>1, <1>7, CommandMoves DEF ServicesSound, OneRelease
<1>8. CASE Install!VerifyBefore
  BY <1>4, <1>7, <1>8 DEF Install!VerifyBefore
<1>9. CASE Install!VerifyAgain
  BY <1>4, <1>7, <1>9 DEF Install!VerifyAgain
<1>10. CASE Install!copy_file_atomic
  <2> DEFINE f == Payload[cmd.at]
  <2>1. f \in Install!Files /\ installed \in [Install!Files -> Versions \cup {None}]
    BY <1>1, InstallConstants DEF InstallTypeOK, CommandRecords
  <2>2. CASE Install!Conflict(f)
    BY <1>4, <1>10, <2>2 DEF Install!copy_file_atomic
  <2>3. CASE ~Install!Conflict(f)
    <3>1. /\ installed' = [installed EXCEPT ![f] = bundle[f]] /\ UNCHANGED runs
          /\ cmd'.step \in {"copy", "verify"} /\ cmd'.was_active = cmd.was_active
          /\ cmd.step = "copy"
      BY <1>1, <1>10, <2>3 DEF Install!copy_file_atomic, InstallTypeOK, CommandRecords
    <3>2. bundle[f] # None
      BY <2>1, InstallConstants DEF InstallInv, TwoReleases, BundleFiles
    <3>3. \A g \in Install!Files : installed[g] # None => installed'[g] # None
      BY <2>1, <3>1, <3>2
    <3> QED BY <1>1, <3>1, <3>3, InstallConstants DEF ServicesSound, OneRelease
  <2> QED BY <2>2, <2>3
<1>11. CASE Install!CompareInstalled
  <2>1. CASE \A f \in Install!Files : installed[f] = bundle[f]
    <3>1. /\ UNCHANGED <<installed, runs>> /\ Install!GoTo("setup") /\ cmd.step = "compare"
      BY <1>11, <2>1 DEF Install!CompareInstalled
    <3>2. PICK old, new \in Versions : CopiedSound(old, new)
      BY DEF InstallInv
    <3>3. \E w \in Versions : \A f \in Install!Files : installed[f] = w
      BY <2>1, <3>1, <3>2 DEF CopiedSound
    <3>4. cmd'.step = "setup" /\ cmd'.o = cmd.o /\ cmd'.was_active = cmd.was_active
      BY <1>1, <3>1, CommandMoves
    <3> QED BY <1>1, <3>1, <3>3, <3>4 DEF ServicesSound, OneRelease
  <2>2. CASE ~\A f \in Install!Files : installed[f] = bundle[f]
    BY <1>4, <1>11, <2>2 DEF Install!CompareInstalled
  <2> QED BY <2>1, <2>2
<1>12. CASE Install!RunSetup
  <2>1. /\ UNCHANGED <<installed, runs>> /\ cmd.step = "setup"
        /\ \/ cmd.o.skip_start /\ Install!GoTo("passed")
           \/ Install!GoTo("start") \/ Install!GoTo("idle")
    BY <1>12 DEF Install!RunSetup
  <2>2. CASE cmd.o.skip_start /\ Install!GoTo("passed")
    <3>1. cmd'.step = "passed" /\ cmd'.o = cmd.o /\ cmd'.was_active = cmd.was_active
      BY <1>1, <2>2, CommandMoves
    <3> QED BY <1>1, <2>1, <2>2, <3>1 DEF ServicesSound, OneRelease
  <2>3. CASE Install!GoTo("start")
    <3>1. cmd'.step = "start" /\ cmd'.o = cmd.o /\ cmd'.was_active = cmd.was_active
      BY <1>1, <2>3, CommandMoves
    <3> QED BY <1>1, <2>1, <2>3, <3>1 DEF ServicesSound, OneRelease
  <2>4. CASE Install!GoTo("idle")
    BY <1>4, <2>1, <2>4
  <2> QED BY <2>1, <2>2, <2>3, <2>4
<1>13. CASE Install!StartTarget
  <2>1. /\ UNCHANGED installed /\ cmd.step = "start" /\ Install!GoTo("ready")
        /\ runs' = [s \in Units |-> IF runs[s] # None /\ ~cmd.was_active
                                     THEN runs[s] ELSE installed[s]]
    BY <1>13 DEF Install!StartTarget
  <2>2. PICK w \in Versions : \A f \in Install!Files : installed[f] = w
    BY <1>1, <2>1 DEF OneRelease
  <2>3. \A s \in Units : ~(runs[s] # None /\ ~cmd.was_active)
    BY <1>1, <2>1 DEF ServicesSound
  <2>4. \A s \in Units : runs'[s] = installed[s] /\ installed[s] = w /\ w # None
    BY <2>1, <2>2, <2>3, InstallConstants
  <2>5. cmd'.step = "ready"
    BY <1>1, <2>1, CommandMoves
  <2> QED BY <1>1, <2>1, <2>2, <2>4, <2>5 DEF ServicesSound, OneRelease
<1>14. CASE Install!WaitReady
  <2>1. UNCHANGED <<installed, runs>> /\ cmd.step = "ready" /\ Install!GoTo("passed")
    BY <1>14 DEF Install!WaitReady
  <2>2. cmd'.step = "passed" /\ cmd'.o = cmd.o /\ cmd'.was_active = cmd.was_active
    BY <1>1, <2>1, CommandMoves
  <2> QED BY <1>1, <2>1, <2>2 DEF ServicesSound, OneRelease
<1>15. ASSUME NEW s \in Units, Install!Respawn(s) PROVE (ServicesSound /\ OneRelease)'
  <2>1. /\ runs' = [runs EXCEPT ![s] = installed[s]] /\ runs[s] # None
        /\ UNCHANGED <<installed, cmd>> /\ runs \in [Units -> Versions \cup {None}]
    BY <1>1, <1>15 DEF Install!Respawn, InstallTypeOK
  <2>2. installed[s] # None
    BY <1>1, <2>1 DEF ServicesSound
  <2>3. \A t \in Units : runs'[t] = IF t = s THEN installed[s] ELSE runs[t]
    BY <2>1
  <2>4. Install!Active' <=> Install!Active
    BY <2>1, <2>2, <2>3
  <2> QED BY <1>1, <2>1, <2>2, <2>3, <2>4 DEF ServicesSound, OneRelease
<1>16. CASE UNCHANGED <<installed, runs, cmd>>
  BY <1>1, <1>16 DEF ServicesSound, OneRelease
<1>17. ASSUME NEW w \in Versions, Install!Unpack(w) PROVE (ServicesSound /\ OneRelease)'
  BY <1>16, <1>17 DEF Install!Unpack
<1>18. CASE Install!UnpackStep
  BY <1>16, <1>18 DEF Install!UnpackStep, Install!UnpackFile
<1>19. CASE UNCHANGED Install!vars
  BY <1>16, <1>19 DEF Install!vars
<1> QED
  BY <1>3, <1>5, <1>6, <1>8, <1>9, <1>10, <1>11, <1>12, <1>13, <1>14, <1>15, <1>17, <1>18, <1>19
     DEF Install!Next, Install!InstallStep

(* One other release is unpacked at most: the bundle's files go from old to new
   and never back, so a file the command took from the new release is followed
   by a bundle of the new release or a verification that fails *)
LEMMA InstallReleasesStep ==
    ASSUME InstallInv, [Install!Next]_(Install!vars), MaxUnpacks <= 1
    PROVE  (\E old, new \in Versions : TwoReleases(old, new) /\ CopiedSound(old, new))'
<1>1. InstallTypeOK
  BY DEF InstallInv
<1>2. PICK old, new \in Versions : TwoReleases(old, new) /\ CopiedSound(old, new)
  BY DEF InstallInv
<1> DEFINE Goal == (\E x, y \in Versions : TwoReleases(x, y) /\ CopiedSound(x, y))'
<1> HIDE DEF Goal
<1> SUFFICES Goal
  BY DEF Goal
<1>3. ASSUME UNCHANGED <<bundle, unpacks, unpacking>>, CopiedSound(old, new)' PROVE Goal
  <2>1. TwoReleases(old, new)'
    BY <1>2, <1>3 DEF TwoReleases
  <2> QED BY <1>3, <2>1 DEF Goal
<1>4. ASSUME UNCHANGED <<bundle, unpacks, unpacking>>,
             cmd'.step \in {"idle", "setup", "start", "ready", "passed"}
      PROVE  Goal
  <2>1. CopiedSound(old, new)'
    BY <1>4 DEF CopiedSound, Copied
  <2> QED BY <1>3, <1>4, <2>1
<1>5. ASSUME UNCHANGED <<bundle, unpacks, unpacking>>, cmd'.at = 1,
             cmd'.step \in {"runtime", "bundle", "account", "preflight", "check"}
      PROVE  Goal
  <2>1. CopiedSound(old, new)'
    BY <1>5 DEF CopiedSound, Copied
  <2> QED BY <1>3, <1>5, <2>1
<1>6. ASSUME UNCHANGED <<bundle, unpacks, unpacking>>, Install!GoTo("idle") PROVE Goal
  BY <1>1, <1>4, <1>6, CommandMoves
<1>7. CASE Install!Begin
  <2>1. cmd'.step = "runtime" /\ cmd'.at = 1
    BY <1>1, <1>7 DEF Install!Begin, InstallTypeOK, CommandRecords
  <2> QED BY <1>5, <1>7, <2>1 DEF Install!Begin, Install!envVars
<1>8. ASSUME UNCHANGED <<bundle, unpacks, unpacking>>,
             cmd.step \in {"runtime", "bundle", "account"},
             NEW t \in {"bundle", "account", "preflight"}, Install!GoTo(t)
      PROVE  Goal
  BY <1>1, <1>2, <1>5, <1>8, CommandMoves DEF CopiedSound
<1>9. CASE Install!ensure_native_runtime \/ Install!validate_bundle \/ Install!prepare_service_account
  BY <1>6, <1>8, <1>9 DEF Install!ensure_native_runtime, Install!validate_bundle,
    Install!prepare_service_account, Install!envVars
<1>10. CASE Install!preflight_install_payload
  <2>1. UNCHANGED <<bundle, unpacks, unpacking>> /\ cmd.step = "preflight"
    BY <1>10 DEF Install!preflight_install_payload, Install!envVars
  <2>2. cmd'.step \in {"idle", "check"} /\ cmd'.at = cmd.at
    BY <1>1, <1>10 DEF Install!preflight_install_payload, InstallTypeOK, CommandRecords
  <2>3. cmd'.at = 1
    BY <1>2, <2>1, <2>2 DEF CopiedSound
  <2> QED BY <1>4, <1>5, <2>1, <2>2, <2>3
<1>11. CASE Install!VerifyBefore
  <2>1. CASE Install!verify_payload_manifest
    <3>1. /\ UNCHANGED <<bundle, installed, unpacks, unpacking>> /\ cmd.step = "check"
          /\ Install!GoTo("copy")
      BY <1>11, <2>1 DEF Install!VerifyBefore, Install!envVars
    <3>2. cmd'.step = "copy" /\ cmd'.at = 1
      BY <1>1, <1>2, <3>1, CommandMoves DEF CopiedSound
    <3>3. Copied' = {}
      BY <3>2, InstallConstants DEF Copied
    <3>4. CopiedSound(old, new)'
      BY <3>2, <3>3 DEF CopiedSound
    <3> QED BY <1>3, <3>1, <3>4
  <2>2. CASE ~Install!verify_payload_manifest
    BY <1>6, <1>11, <2>2 DEF Install!VerifyBefore, Install!envVars
  <2> QED BY <2>1, <2>2
<1>12. CASE Install!copy_file_atomic
  <2> DEFINE f == Payload[cmd.at]
  <2>1. /\ cmd.at \in 1..Len(Payload) /\ f \in Install!Files
        /\ installed \in [Install!Files -> Versions \cup {None}]
    BY <1>1, InstallConstants DEF InstallTypeOK, CommandRecords
  <2>2. CASE Install!Conflict(f)
    BY <1>6, <1>12, <2>2 DEF Install!copy_file_atomic, Install!envVars
  <2>3. CASE ~Install!Conflict(f)
    <3>1. /\ installed' = [installed EXCEPT ![f] = bundle[f]]
          /\ UNCHANGED <<bundle, unpacks, unpacking>> /\ cmd.step = "copy"
          /\ \/ cmd.at = Len(Payload) /\ cmd'.step = "verify"
             \/ cmd.at < Len(Payload) /\ cmd'.step = "copy" /\ cmd'.at = cmd.at + 1
      <4>1. /\ installed' = [installed EXCEPT ![f] = bundle[f]] /\ cmd.step = "copy"
            /\ UNCHANGED <<bundle, unpacks, unpacking>>
            /\ cmd' = [cmd EXCEPT !.step = IF cmd.at = Len(Payload) THEN "verify" ELSE "copy",
                                  !.at = IF cmd.at = Len(Payload) THEN 1 ELSE cmd.at + 1]
        BY <1>12, <2>3 DEF Install!copy_file_atomic, Install!envVars
      <4>2. /\ cmd'.step = IF cmd.at = Len(Payload) THEN "verify" ELSE "copy"
            /\ cmd'.at = IF cmd.at = Len(Payload) THEN 1 ELSE cmd.at + 1
        BY <1>1, <4>1 DEF InstallTypeOK, CommandRecords
      <4>3. cmd.at # Len(Payload) => cmd.at < Len(Payload)
        BY <2>1, InstallConstants
      <4> QED BY <4>1, <4>2, <4>3
    <3>2. bundle[f] \in {old, new}
      BY <1>2, <2>1 DEF TwoReleases, BundleFiles
    <3>3. Copied' \subseteq Copied \cup {f}
      <4>1. \A j \in 1..Len(Payload) :
              (cmd'.step = "copy" /\ j < cmd'.at) \/ cmd'.step = "verify"
                => j < cmd.at \/ j = cmd.at
        BY <2>1, <3>1, InstallConstants
      <4> QED BY <3>1, <4>1, InstallConstants DEF Copied
    <3>4. Copied \subseteq Install!Files
      BY InstallConstants DEF Copied
    <3> HIDE DEF f
    <3>5. \A g \in Copied \cup {f} : /\ installed'[g] \in {old, new}
                                     /\ installed'[g] = new => bundle'[g] = new
      BY <1>2, <2>1, <3>1, <3>2, <3>4 DEF CopiedSound
    <3>6. CopiedSound(old, new)'
      BY <3>1, <3>3, <3>5 DEF CopiedSound
    <3> QED BY <1>3, <3>1, <3>6
  <2> QED BY <2>2, <2>3
<1>13. CASE Install!VerifyAgain
  <2>1. CASE Install!verify_payload_manifest
    <3>1. /\ UNCHANGED <<bundle, installed, unpacks, unpacking>> /\ cmd.step = "verify"
          /\ Install!GoTo("compare")
      BY <1>13, <2>1 DEF Install!VerifyAgain, Install!envVars
    <3>2. cmd'.step = "compare"
      BY <1>1, <3>1, CommandMoves
    <3>3. Install!Files \subseteq Copied
      BY <3>1, InstallConstants DEF Copied
    <3>4. \A g \in Install!Files : bundle[g] = bundle[Install!Manifest]
      BY <2>1 DEF Install!verify_payload_manifest
    <3>5. \/ \A g \in Install!Files : installed[g] = old
          \/ old # new /\ \A g \in Install!Files : bundle[g] = new
      BY <1>2, <3>3, <3>4 DEF CopiedSound
    <3>6. CopiedSound(old, new)'
      BY <3>1, <3>2, <3>5 DEF CopiedSound, Copied
    <3> QED BY <1>3, <3>1, <3>6
  <2>2. CASE ~Install!verify_payload_manifest
    BY <1>6, <1>13, <2>2 DEF Install!VerifyAgain, Install!envVars
  <2> QED BY <2>1, <2>2
<1>14. ASSUME UNCHANGED <<bundle, unpacks, unpacking>>,
              NEW t \in {"idle", "setup", "start", "ready", "passed"}, Install!GoTo(t)
       PROVE  Goal
  BY <1>1, <1>4, <1>14, CommandMoves
<1>15. CASE Install!CompareInstalled \/ Install!RunSetup \/ Install!StartTarget \/ Install!WaitReady
             \/ Install!Dies
  BY <1>14, <1>15 DEF Install!CompareInstalled, Install!RunSetup, Install!StartTarget,
    Install!WaitReady, Install!Dies, Install!envVars
<1>16. ASSUME UNCHANGED <<bundle, installed, cmd, unpacks, unpacking>> PROVE Goal
  <2>1. CopiedSound(old, new)'
    BY <1>2, <1>16 DEF CopiedSound, Copied
  <2> QED BY <1>3, <1>16, <2>1
<1>17. ASSUME NEW s \in Units, Install!Respawn(s) PROVE Goal
  BY <1>16, <1>17 DEF Install!Respawn
<1>18. ASSUME NEW w \in Versions, Install!Unpack(w) PROVE Goal
  <2>1. /\ unpacks < MaxUnpacks /\ unpacks' = unpacks + 1 /\ unpacking' = w
        /\ bundle[Install!Manifest] # w /\ UNCHANGED <<bundle, installed, cmd>>
    BY <1>18 DEF Install!Unpack
  <2>2. unpacks = 0 /\ unpacks' # 0
    BY <1>1, <2>1, InstallConstants DEF InstallTypeOK
  <2>3. new = old /\ w # old
    BY <1>2, <2>1, <2>2 DEF TwoReleases, BundleFiles
  <2>4. TwoReleases(old, w)'
    BY <1>2, <2>1, <2>2, <2>3 DEF TwoReleases
  <2>5. \A f \in Install!Files : bundle[f] = old
    BY <1>2, <2>3 DEF TwoReleases, BundleFiles
  <2>6. Copied' = Copied
    BY <2>1 DEF Copied
  <2>7. CopiedSound(old, w)'
    <3>1. \A f \in Copied : installed[f] = old
      BY <1>2, <2>3 DEF CopiedSound
    <3>2. cmd.step = "compare" => \A f \in Install!Files : installed[f] = old
      BY <1>2, <2>3 DEF CopiedSound
    <3> QED BY <1>2, <2>1, <2>3, <2>6, <3>1, <3>2 DEF CopiedSound
  <2> QED BY <2>4, <2>7 DEF Goal
<1>19. CASE Install!UnpackStep
  <2>1. PICK f \in BundleFiles : Install!UnpackFile(f)
    BY <1>19 DEF Install!UnpackStep, BundleFiles
  <2>2. /\ unpacking # None /\ bundle' = [bundle EXCEPT ![f] = unpacking]
        /\ unpacking' \in {None, unpacking} /\ UNCHANGED <<installed, cmd, unpacks>>
    BY <2>1 DEF Install!UnpackFile
  <2>3. unpacks # 0 /\ unpacking = new /\ old # new
    BY <1>2, <2>2 DEF TwoReleases
  <2>4. TwoReleases(old, new)'
    BY <1>2, <2>2, <2>3 DEF TwoReleases
  <2>5. \A g \in BundleFiles : bundle[g] = new => bundle'[g] = new
    BY <1>2, <2>2, <2>3 DEF TwoReleases
  <2>6. Copied' = Copied /\ Copied \subseteq BundleFiles /\ Install!Files \subseteq BundleFiles
    BY <2>2, InstallConstants DEF Copied, BundleFiles
  <2>7. CopiedSound(old, new)'
    BY <1>2, <2>2, <2>5, <2>6 DEF CopiedSound
  <2> QED BY <2>4, <2>7 DEF Goal
<1>20. CASE UNCHANGED Install!vars
  BY <1>16, <1>20 DEF Install!vars, Install!envVars
<1> QED
  BY <1>7, <1>9, <1>10, <1>11, <1>12, <1>13, <1>15, <1>17, <1>18, <1>19, <1>20
     DEF Install!Next, Install!InstallStep

LEMMA InstallPartInv ==
    ASSUME MaxUnpacks <= 1
    PROVE  Spec => [](part = "install" => InstallInv)
<1>1. Init => (part = "install" => InstallInv)
  BY InstallInit DEF Init, Chosen
<1>2. (part = "install" => InstallInv) /\ [Next]_v => (part = "install" => InstallInv)'
  <2> SUFFICES ASSUME part = "install" => InstallInv, [Next]_v, (part = "install")'
               PROVE  InstallInv'
    OBVIOUS
  <2>1. part = "install" /\ [Install!Next]_(Install!vars)
    BY PartSteps
  <2>2. InstallTypeOK'
    BY <2>1, InstallTypeStep
  <2>3. (ServicesSound /\ OneRelease)'
    BY <2>1, InstallServicesStep
  <2>4. (\E old, new \in Versions : TwoReleases(old, new) /\ CopiedSound(old, new))'
    BY <2>1, InstallReleasesStep
  <2> QED BY <2>2, <2>3, <2>4 DEF InstallInv
<1> QED BY <1>1, <1>2, PTL DEF Spec

(* Installer: when the command reports PASS, the installed files are those of
   one release, although another may be unpacked over the bundle while they are
   copied, and unless the start was skipped every service runs that release,
   whatever commands died before and whichever service crashed meanwhile. *)
THEOREM InstallPassRunsOneRelease ==
    ASSUME MaxUnpacks <= 1
    PROVE  Spec => []PassRunsInstalled
<1>1. (part = "install" => InstallInv) => PassRunsInstalled
  BY InstallConstants
     DEF PassRunsInstalled, Install!PassRunsInstalled, InstallInv, ServicesSound, OneRelease
<1> QED BY <1>1, InstallPartInv, PTL

-----------------------------------------------------------------------------
(* Backup *)
CopySteps ==
    {"new", "verify", "copy", "manifest", "linksnap", "linkman", "drop", "list", "rotate",
     "rotateman", "ok", "failed", "killed"}

CopyTypeOK ==
    /\ live \in 0..MaxWrites /\ progress \in [Runs -> CopySteps]
    /\ doomed \in [Runs -> SUBSET Runs]
    /\ partial \in [Runs -> Nat] /\ partman \in [Runs -> Nat]
    /\ snap \in [Runs -> Nat] /\ man \in [Runs -> Nat]

(* Runs follow one another: above one that is new, or at work, all are new *)
InTurn ==
    /\ \A r, q \in Runs : q > r /\ (progress[r] = "new" \/ progress[r] \notin Copy!Ended)
                            => progress[q] = "new"
    /\ \A r \in Runs : progress[r] = "new" => snap[r] = Copy!NoFile

(* What a run has published by now, and what it may rotate out *)
RunSound(r) ==
    /\ progress[r] \in {"manifest", "linksnap", "linkman"} => partial[r] # Copy!NoFile
    /\ progress[r] \in {"linksnap", "linkman"} => partman[r] = partial[r]
    /\ progress[r] = "linkman" => snap[r] = partial[r]
    /\ progress[r] \in {"drop", "list", "rotate", "rotateman"} => Copy!Restorable(r)
    /\ progress[r] \in {"rotate", "rotateman"} => \A q \in doomed[r] : q < r
    /\ progress[r] = "rotateman" => doomed[r] # {}

(* A snapshot that only a later run can remove *)
Standing(q) ==
    /\ Copy!Restorable(q)
    /\ progress[q] \in {"list", "rotate", "rotateman", "ok", "failed", "killed"}

CopyInv ==
    /\ CopyTypeOK /\ InTurn
    /\ \A r \in Runs : RunSound(r)
    /\ \A r \in Runs : progress[r] = "ok" => \E q \in Runs : q >= r /\ Standing(q)

LEMMA CopyConstants ==
    /\ Runs \subseteq Nat /\ MaxWrites \in Nat /\ Retain \in Nat /\ Retain >= 2
    /\ Copy!NoFile = MaxWrites + 1
  BY OperationsAssumption DEF OperationsAssumption, Copy!BackupAssumption, Copy!NoFile

LEMMA SmallestRun ==
    ASSUME NEW S \in SUBSET Nat, S # {}
    PROVE  Copy!Min(S) \in S
  BY LeastNumber DEF Copy!Min

LEMMA CopyInit == Copy!Init => CopyInv
<1> SUFFICES ASSUME Copy!Init PROVE CopyInv
  OBVIOUS
<1> USE DEF Copy!Init
<1>1. CopyTypeOK
  BY CopyConstants DEF CopyTypeOK, CopySteps
<1>2. InTurn
  BY DEF InTurn
<1> QED
  BY <1>1, <1>2 DEF CopyInv, RunSound

(* A step of run r that leaves the published files of the others alone, and its
   own if it may be the one that stands *)
LEMMA OneRunMoves ==
    ASSUME CopyInv, CopyTypeOK', NEW r \in Runs, NEW t \in CopySteps \ {"new", "ok"},
           progress' = [progress EXCEPT ![r] = t], progress[r] \notin Copy!Ended,
           RunSound(r)',
           \A q \in Runs \ {r} : /\ partial'[q] = partial[q] /\ partman'[q] = partman[q]
                               /\ snap'[q] = snap[q] /\ man'[q] = man[q] /\ doomed'[q] = doomed[q],
           Standing(r) => Standing(r)'
    PROVE  CopyInv'
<1>1. /\ progress \in [Runs -> CopySteps] /\ progress'[r] = t
      /\ \A q \in Runs \ {r} : progress'[q] = progress[q]
  BY DEF CopyInv, CopyTypeOK
<1>2. InTurn'
  <2>1. progress[r] # "new"
    BY DEF Copy!Ended
  <2>2. ASSUME NEW p \in Runs, NEW q \in Runs, q > p,
               progress'[p] = "new" \/ progress'[p] \notin Copy!Ended
        PROVE  progress'[q] = "new"
    <3>1. progress[p] = "new" \/ progress[p] \notin Copy!Ended
      BY <1>1, <2>2
    <3>2. progress[q] = "new"
      BY <2>2, <3>1 DEF CopyInv, InTurn
    <3> QED BY <1>1, <2>1, <3>2
  <2>3. \A p \in Runs : progress'[p] = "new" => snap'[p] = Copy!NoFile'
    BY <1>1 DEF CopyInv, InTurn, Copy!NoFile
  <2> QED BY <2>2, <2>3 DEF InTurn, Copy!Ended
<1>3. \A q \in Runs : RunSound(q)'
  <2>1. ASSUME NEW q \in Runs \ {r} PROVE RunSound(q)'
    BY <1>1 DEF CopyInv, RunSound, Copy!Restorable, Copy!NoFile
  <2> QED BY <2>1
<1>4. \A q \in Runs : Standing(q) => Standing(q)'
  <2>1. ASSUME NEW q \in Runs \ {r} PROVE Standing(q) => Standing(q)'
    BY <1>1 DEF Standing, Copy!Restorable, Copy!NoFile
  <2> QED BY <2>1
<1>5. \A x \in Runs : progress'[x] = "ok" => \E q \in Runs : q >= x /\ Standing(q)'
  <2>1. \A x \in Runs : progress'[x] = "ok" => progress[x] = "ok"
    BY <1>1
  <2> QED BY <1>4, <2>1 DEF CopyInv
<1> QED BY <1>2, <1>3, <1>5 DEF CopyInv

LEMMA CopyTypeStep == CopyInv /\ [Copy!Next]_(Copy!vars) => CopyTypeOK'
<1> SUFFICES ASSUME CopyInv, [Copy!Next]_(Copy!vars) PROVE CopyTypeOK'
  OBVIOUS
<1> USE DEF CopyTypeOK
<1>1. CopyTypeOK /\ Copy!NoFile \in Nat /\ live \in Nat
  BY CopyConstants DEF CopyInv
<1>2. CASE Copy!Write
  BY <1>1, <1>2, CopyConstants DEF Copy!Write
<1>3. ASSUME NEW r \in Runs, NEW t \in CopySteps, Copy!GoTo(r, t)
      PROVE  progress' \in [Runs -> CopySteps]
  BY <1>1, <1>3 DEF Copy!GoTo
<1>4. ASSUME NEW r \in Runs, Copy!Fail(r), UNCHANGED <<live, seen, doomed>> PROVE CopyTypeOK'
  <2>1. progress' \in [Runs -> CopySteps]
    BY <1>3, <1>4 DEF Copy!Fail, CopySteps
  <2> QED BY <1>1, <1>4, <2>1 DEF Copy!Fail, Copy!RemoveOwn
<1>5. ASSUME NEW r \in Runs, Copy!Begin(r) PROVE CopyTypeOK'
  <2>1. progress' \in [Runs -> CopySteps]
    BY <1>3, <1>5 DEF Copy!Begin, CopySteps
  <2> QED BY <1>1, <1>5, <2>1 DEF Copy!Begin
<1>6. ASSUME NEW r \in Runs, Copy!VerifyLive(r) PROVE CopyTypeOK'
  <2>1. CASE seen[r] = live
    <3>1. progress' \in [Runs -> CopySteps]
      BY <1>3, <1>6, <2>1 DEF Copy!VerifyLive, CopySteps
    <3> QED BY <1>1, <1>6, <2>1, <3>1 DEF Copy!VerifyLive
  <2>2. CASE seen[r] # live
    BY <1>4, <1>6, <2>2 DEF Copy!VerifyLive
  <2> QED BY <2>1, <2>2
<1>7. ASSUME NEW r \in Runs,
             \/ Copy!BackupTo(r) \/ Copy!WriteManifest(r) \/ Copy!LinkSnapshot(r)
             \/ Copy!LinkManifest(r) \/ Copy!DropPartials(r)
      PROVE  CopyTypeOK'
  <2>1. progress' \in [Runs -> CopySteps]
    BY <1>3, <1>7 DEF Copy!BackupTo, Copy!WriteManifest, Copy!LinkSnapshot, Copy!LinkManifest,
      Copy!DropPartials, CopySteps
  <2> QED BY <1>1, <1>7, <2>1 DEF Copy!BackupTo, Copy!WriteManifest, Copy!LinkSnapshot,
        Copy!LinkManifest, Copy!DropPartials
<1>8. ASSUME NEW r \in Runs, Copy!StepFails(r) PROVE CopyTypeOK'
  BY <1>4, <1>8 DEF Copy!StepFails
<1>9. ASSUME NEW r \in Runs, Copy!List(r) PROVE CopyTypeOK'
  <2>1. progress' \in [Runs -> CopySteps]
    BY <1>3, <1>9 DEF Copy!List, CopySteps
  <2>2. Copy!Expired(Copy!Snapshots) \in SUBSET Runs
    BY DEF Copy!Expired, Copy!Snapshots
  <2> QED BY <1>1, <1>9, <2>1, <2>2 DEF Copy!List
<1>10. ASSUME NEW r \in Runs, Copy!RotateSnapshot(r) PROVE CopyTypeOK'
  <2>1. progress' \in [Runs -> CopySteps]
    BY <1>3, <1>10 DEF Copy!RotateSnapshot, CopySteps
  <2> QED BY <1>1, <1>10, <2>1 DEF Copy!RotateSnapshot
<1>11. ASSUME NEW r \in Runs, Copy!RotateManifest(r) PROVE CopyTypeOK'
  <2>1. progress' \in [Runs -> CopySteps]
    BY <1>3, <1>11 DEF Copy!RotateManifest, CopySteps
  <2> QED BY <1>1, <1>11, <2>1 DEF Copy!RotateManifest
<1>12. ASSUME NEW r \in Runs, Copy!Done(r) \/ Copy!Killed(r) PROVE CopyTypeOK'
  <2>1. progress' \in [Runs -> CopySteps]
    BY <1>3, <1>12 DEF Copy!Done, Copy!Killed, CopySteps
  <2> QED BY <1>1, <1>12, <2>1 DEF Copy!Done, Copy!Killed
<1>13. CASE UNCHANGED Copy!vars
  BY <1>1, <1>13 DEF Copy!vars
<1> QED
  BY <1>2, <1>5, <1>6, <1>7, <1>8, <1>9, <1>10, <1>11, <1>12, <1>13 DEF Copy!Next, Copy!RunStep

(* Rotation: run r is under way and stands itself, and the files that go are
   those of an earlier run, which has ended *)
LEMMA RotationKeeps ==
    ASSUME CopyInv, CopyTypeOK', NEW r \in Runs, NEW m \in Runs, m < r,
           NEW t \in {"rotate", "rotateman"}, progress' = [progress EXCEPT ![r] = t],
           progress[r] \in {"rotate", "rotateman"}, RunSound(r)',
           UNCHANGED <<partial, partman>>,
           \A q \in Runs \ {r} : doomed'[q] = doomed[q],
           \A q \in Runs \ {m} : snap'[q] = snap[q] /\ man'[q] = man[q]
    PROVE  CopyInv'
<1>0. CopyTypeOK /\ InTurn /\ Runs \subseteq Nat
  BY CopyConstants DEF CopyInv
<1>1. /\ progress'[r] = t /\ progress[r] \notin Copy!Ended /\ m # r
      /\ \A q \in Runs \ {r} : progress'[q] = progress[q]
  BY <1>0 DEF CopyTypeOK, Copy!Ended
<1>2. progress[m] \in Copy!Ended \ {"new"}
  <2>1. progress[m] # "new" /\ progress[m] \in Copy!Ended
    BY <1>0, <1>1 DEF InTurn, Copy!Ended
  <2> QED BY <2>1
<1>3. InTurn'
  <2>1. ASSUME NEW p \in Runs, NEW q \in Runs, q > p,
               progress'[p] = "new" \/ progress'[p] \notin Copy!Ended
        PROVE  progress'[q] = "new"
    <3>1. progress[p] = "new" \/ progress[p] \notin Copy!Ended
      BY <1>1, <2>1
    <3>2. progress[q] = "new"
      BY <1>0, <2>1, <3>1 DEF InTurn
    <3> QED BY <1>1, <3>2 DEF Copy!Ended
  <2>2. \A p \in Runs : progress'[p] = "new" => snap'[p] = Copy!NoFile
    <3>1. \A p \in Runs : progress'[p] = "new" => progress[p] = "new" /\ p # m
      BY <1>1, <1>2
    <3> QED BY <1>0, <3>1 DEF InTurn
  <2> QED BY <2>1, <2>2 DEF InTurn, Copy!Ended, Copy!NoFile
<1>4. \A q \in Runs : RunSound(q)'
  <2>1. RunSound(m)'
    BY <1>1, <1>2 DEF RunSound, Copy!Ended
  <2>2. ASSUME NEW q \in Runs \ {r, m} PROVE RunSound(q)'
    BY <1>1 DEF CopyInv, RunSound, Copy!Restorable, Copy!NoFile
  <2> QED BY <2>1, <2>2
<1>5. Standing(r)'
  BY <1>1 DEF RunSound, Standing
<1>6. \A x \in Runs : progress'[x] = "ok" => r >= x
  <2> SUFFICES ASSUME NEW x \in Runs, progress'[x] = "ok" PROVE r >= x
    OBVIOUS
  <2>1. progress[x] # "new"
    BY <1>1
  <2>2. ~(x > r)
    BY <1>0, <1>1, <2>1 DEF InTurn
  <2> QED BY <1>0, <2>2
<1> QED BY <1>3, <1>4, <1>5, <1>6 DEF CopyInv

LEMMA CopyStep == CopyInv /\ [Copy!Next]_(Copy!vars) => CopyInv'
<1> SUFFICES ASSUME CopyInv, [Copy!Next]_(Copy!vars) PROVE CopyInv'
  OBVIOUS
<1>0. CopyTypeOK'
  BY CopyTypeStep
<1>1. CopyTypeOK /\ InTurn /\ Runs \subseteq Nat
  BY CopyConstants DEF CopyInv
<1>2. \A r \in Runs : RunSound(r)
  BY DEF CopyInv
<1> DEFINE Others(r) ==
      \A q \in Runs \ {r} : /\ partial'[q] = partial[q] /\ partman'[q] = partman[q]
                          /\ snap'[q] = snap[q] /\ man'[q] = man[q] /\ doomed'[q] = doomed[q]
<1>3. ASSUME NEW r \in Runs, Copy!Fail(r), UNCHANGED <<live, seen, doomed>>,
             progress[r] \in {"verify", "copy", "manifest", "linksnap", "linkman", "drop"}
      PROVE  CopyInv'
  <2>1. progress' = [progress EXCEPT ![r] = "failed"] /\ progress'[r] = "failed"
    BY <1>1, <1>3 DEF Copy!Fail, Copy!GoTo, CopyTypeOK
  <2>2. Others(r)
    BY <1>1, <1>3 DEF Copy!Fail, Copy!RemoveOwn, CopyTypeOK
  <2>3. RunSound(r)'
    BY <2>1 DEF RunSound
  <2>4. ~Standing(r) /\ progress[r] \notin Copy!Ended /\ "failed" \in CopySteps \ {"new", "ok"}
    BY <1>3 DEF Standing, Copy!Ended, CopySteps
  <2> QED BY <1>0, <2>1, <2>2, <2>3, <2>4, OneRunMoves
<1>4. ASSUME NEW r \in Runs, Copy!Begin(r) PROVE CopyInv'
  <2>1. /\ progress' = [progress EXCEPT ![r] = "verify"] /\ progress[r] = "new"
        /\ \A q \in Runs : q < r => progress[q] # "new"
        /\ \A q \in Runs : progress[q] \in Copy!Ended
        /\ UNCHANGED <<live, doomed, partial, partman, snap, man>>
    BY <1>4 DEF Copy!Begin, Copy!GoTo, Copy!AtWork
  <2>2. \A q \in Runs : progress'[q] = IF q = r THEN "verify" ELSE progress[q]
    BY <1>1, <2>1 DEF CopyTypeOK
  <2>3. InTurn'
    <3>1. ASSUME NEW p \in Runs, NEW q \in Runs, q > p,
                 progress'[p] = "new" \/ progress'[p] \notin Copy!Ended
          PROVE  progress'[q] = "new"
      <4>1. p \in Nat /\ q \in Nat /\ r \in Nat
        BY <1>1
      <4>2. CASE p = r
        <5>1. progress[q] = "new" /\ q # r
          BY <1>1, <2>1, <3>1, <4>1, <4>2 DEF InTurn
        <5> QED BY <2>2, <5>1
      <4>3. CASE p # r
        <5>1. progress[p] = "new"
          BY <2>1, <2>2, <3>1, <4>3
        <5>2. progress[q] = "new"
          BY <1>1, <3>1, <5>1 DEF InTurn
        <5>3. q # r
          BY <2>1, <3>1, <4>1, <5>1
        <5> QED BY <2>2, <5>2, <5>3
      <4> QED BY <4>2, <4>3
    <3>2. \A p \in Runs : progress'[p] = "new" => snap'[p] = Copy!NoFile
      BY <1>1, <2>1, <2>2 DEF InTurn
    <3> QED BY <3>1, <3>2 DEF InTurn, Copy!Ended, Copy!NoFile
  <2>4. \A q \in Runs : RunSound(q)'
    BY <1>2, <2>1, <2>2 DEF RunSound, Copy!Restorable, Copy!NoFile
  <2>5. \A q \in Runs : Standing(q) => Standing(q)'
    BY <2>1, <2>2 DEF Standing, Copy!Restorable, Copy!NoFile
  <2>6. \A q \in Runs : progress'[q] = "ok" => progress[q] = "ok"
    BY <2>2
  <2> QED BY <1>0, <2>3, <2>4, <2>5, <2>6 DEF CopyInv
<1>5. ASSUME NEW r \in Runs, Copy!VerifyLive(r) PROVE CopyInv'
  <2>1. CASE seen[r] = live
    <3>1. /\ progress' = [progress EXCEPT ![r] = "copy"] /\ progress'[r] = "copy"
          /\ UNCHANGED <<doomed, partial, partman, snap, man>> /\ progress[r] = "verify"
      BY <1>1, <1>5, <2>1 DEF Copy!VerifyLive, Copy!GoTo, CopyTypeOK
    <3>2. RunSound(r)' /\ ~Standing(r) /\ "copy" \in CopySteps \ {"new", "ok"}
      BY <3>1 DEF RunSound, Standing, CopySteps
    <3>3. progress[r] \notin Copy!Ended
      BY <3>1 DEF Copy!Ended
    <3> QED BY <1>0, <3>1, <3>2, <3>3, OneRunMoves
  <2>2. CASE seen[r] # live
    BY <1>3, <1>5, <2>2 DEF Copy!VerifyLive
  <2> QED BY <2>1, <2>2
<1>6. ASSUME NEW r \in Runs, Copy!BackupTo(r) PROVE CopyInv'
  <2>1. /\ progress' = [progress EXCEPT ![r] = "manifest"] /\ progress'[r] = "manifest"
        /\ partial' = [partial EXCEPT ![r] = live] /\ UNCHANGED <<doomed, partman, snap, man>>
        /\ progress[r] = "copy"
    BY <1>1, <1>6 DEF Copy!BackupTo, Copy!GoTo, CopyTypeOK
  <2>2. partial'[r] # Copy!NoFile
    <3>1. live # Copy!NoFile
      BY <1>1, CopyConstants DEF CopyTypeOK
    <3> QED BY <1>1, <2>1, <3>1 DEF CopyTypeOK
  <2>3. RunSound(r)' /\ ~Standing(r) /\ "manifest" \in CopySteps \ {"new", "ok"}
    BY <2>1, <2>2 DEF RunSound, Standing, CopySteps, Copy!NoFile
  <2>4. Others(r) /\ progress[r] \notin Copy!Ended
    BY <1>1, <2>1 DEF CopyTypeOK, Copy!Ended
  <2> QED BY <1>0, <2>1, <2>3, <2>4, OneRunMoves
<1>7. ASSUME NEW r \in Runs, Copy!WriteManifest(r) PROVE CopyInv'
  <2>1. /\ progress' = [progress EXCEPT ![r] = "linksnap"] /\ progress'[r] = "linksnap"
        /\ partman' = [partman EXCEPT ![r] = partial[r]] /\ partman'[r] = partial[r]
        /\ UNCHANGED <<doomed, partial, snap, man>> /\ progress[r] = "manifest"
    BY <1>1, <1>7 DEF Copy!WriteManifest, Copy!GoTo, CopyTypeOK
  <2>2. RunSound(r)' /\ ~Standing(r) /\ "linksnap" \in CopySteps \ {"new", "ok"}
    BY <1>2, <2>1 DEF RunSound, Standing, CopySteps, Copy!NoFile
  <2>3. Others(r) /\ progress[r] \notin Copy!Ended
    BY <1>1, <2>1 DEF CopyTypeOK, Copy!Ended
  <2> QED BY <1>0, <2>1, <2>2, <2>3, OneRunMoves
<1>8. ASSUME NEW r \in Runs, Copy!LinkSnapshot(r) PROVE CopyInv'
  <2>1. /\ progress' = [progress EXCEPT ![r] = "linkman"] /\ progress'[r] = "linkman"
        /\ snap' = [snap EXCEPT ![r] = partial[r]] /\ snap'[r] = partial[r]
        /\ UNCHANGED <<doomed, partial, partman, man>> /\ progress[r] = "linksnap"
    BY <1>1, <1>8 DEF Copy!LinkSnapshot, Copy!GoTo, CopyTypeOK
  <2>2. RunSound(r)' /\ ~Standing(r) /\ "linkman" \in CopySteps \ {"new", "ok"}
    BY <1>2, <2>1 DEF RunSound, Standing, CopySteps, Copy!NoFile
  <2>3. Others(r) /\ progress[r] \notin Copy!Ended
    BY <1>1, <2>1 DEF CopyTypeOK, Copy!Ended
  <2> QED BY <1>0, <2>1, <2>2, <2>3, OneRunMoves
<1>9. ASSUME NEW r \in Runs, Copy!LinkManifest(r) PROVE CopyInv'
  <2>1. /\ progress' = [progress EXCEPT ![r] = "drop"] /\ progress'[r] = "drop"
        /\ man' = [man EXCEPT ![r] = partman[r]] /\ man'[r] = partman[r]
        /\ UNCHANGED <<doomed, partial, partman, snap>> /\ progress[r] = "linkman"
    BY <1>1, <1>9 DEF Copy!LinkManifest, Copy!GoTo, CopyTypeOK
  <2>2. Copy!Restorable(r)'
    BY <1>2, <2>1 DEF RunSound, Copy!Restorable, Copy!NoFile
  <2>3. RunSound(r)' /\ ~Standing(r) /\ "drop" \in CopySteps \ {"new", "ok"}
    BY <2>1, <2>2 DEF RunSound, Standing, CopySteps
  <2>4. Others(r) /\ progress[r] \notin Copy!Ended
    BY <1>1, <2>1 DEF CopyTypeOK, Copy!Ended
  <2> QED BY <1>0, <2>1, <2>3, <2>4, OneRunMoves
<1>10. ASSUME NEW r \in Runs, Copy!DropPartials(r) PROVE CopyInv'
  <2>1. /\ progress' = [progress EXCEPT ![r] = "list"] /\ progress'[r] = "list"
        /\ partial' = [partial EXCEPT ![r] = Copy!NoFile]
        /\ partman' = [partman EXCEPT ![r] = Copy!NoFile]
        /\ UNCHANGED <<doomed, snap, man>> /\ progress[r] = "drop"
    BY <1>1, <1>10 DEF Copy!DropPartials, Copy!GoTo, CopyTypeOK
  <2>2. Copy!Restorable(r)'
    BY <1>2, <2>1 DEF RunSound, Copy!Restorable, Copy!NoFile
  <2>3. RunSound(r)' /\ ~Standing(r) /\ "list" \in CopySteps \ {"new", "ok"}
    BY <2>1, <2>2 DEF RunSound, Standing, CopySteps
  <2>4. Others(r) /\ progress[r] \notin Copy!Ended
    BY <1>1, <2>1 DEF CopyTypeOK, Copy!Ended
  <2> QED BY <1>0, <2>1, <2>3, <2>4, OneRunMoves
<1>11. ASSUME NEW r \in Runs, Copy!StepFails(r) PROVE CopyInv'
  BY <1>3, <1>11 DEF Copy!StepFails
<1>12. ASSUME NEW r \in Runs, Copy!List(r) PROVE CopyInv'
  <2>1. /\ progress' = [progress EXCEPT ![r] = "rotate"] /\ progress'[r] = "rotate"
        /\ doomed' = [doomed EXCEPT ![r] = Copy!Expired(Copy!Snapshots)]
        /\ doomed'[r] = Copy!Expired(Copy!Snapshots)
        /\ UNCHANGED <<partial, partman, snap, man>> /\ progress[r] = "list"
    BY <1>1, <1>12 DEF Copy!List, Copy!GoTo, CopyTypeOK
  <2>2. progress[r] \notin Copy!Ended
    BY <2>1 DEF Copy!Ended
  <2>3. ASSUME NEW q \in Copy!Expired(Copy!Snapshots) PROVE q < r
    <3>1. q \in Runs /\ Copy!Cardinality({p \in Copy!Snapshots : p > q}) >= Retain
      BY DEF Copy!Expired, Copy!Snapshots
    <3>2. {p \in Copy!Snapshots : p > q} # {}
      <4>1. Copy!Cardinality({}) = 0
        BY FS_EmptySet DEF Copy!Cardinality, Cardinality
      <4> QED BY <3>1, <4>1, CopyConstants
    <3>3. PICK p \in Copy!Snapshots : p > q
      BY <3>2
    <3>4. p \in Runs /\ progress[p] # "new"
      BY <1>1 DEF Copy!Snapshots, InTurn
    <3>5. ~(p > r)
      BY <1>1, <2>2, <3>4 DEF InTurn
    <3> QED BY <1>1, <3>1, <3>3, <3>4, <3>5
  <2>4. Copy!Restorable(r)'
    BY <1>2, <2>1 DEF RunSound, Copy!Restorable, Copy!NoFile
  <2>5. RunSound(r)' /\ "rotate" \in CopySteps \ {"new", "ok"}
    BY <2>1, <2>3, <2>4 DEF RunSound, CopySteps
  <2>6. Others(r) /\ Standing(r)'
    BY <1>1, <2>1, <2>4 DEF CopyTypeOK, Standing
  <2> QED BY <1>0, <2>1, <2>2, <2>5, <2>6, OneRunMoves
<1>13. ASSUME NEW r \in Runs, Copy!RotateSnapshot(r) PROVE CopyInv'
  <2> DEFINE m == Copy!Min(doomed[r])
  <2>1. /\ progress[r] = "rotate" /\ doomed[r] # {}
        /\ UNCHANGED <<live, doomed, partial, partman, man>>
    BY <1>13 DEF Copy!RotateSnapshot
  <2>2. m \in doomed[r] /\ m \in Runs /\ m < r
    <3>1. doomed[r] \in SUBSET Nat /\ doomed[r] \subseteq Runs
      BY <1>1 DEF CopyTypeOK
    <3>2. m \in doomed[r]
      BY <2>1, <3>1, SmallestRun
    <3> QED BY <1>2, <2>1, <3>1, <3>2 DEF RunSound
  <2> HIDE DEF m
  <2>3. CASE Copy!GoTo(r, "rotateman") /\ snap' = [snap EXCEPT ![m] = Copy!NoFile]
    <3>1. /\ progress' = [progress EXCEPT ![r] = "rotateman"] /\ progress'[r] = "rotateman"
          /\ \A q \in Runs \ {m} : snap'[q] = snap[q]
      BY <1>1, <2>3 DEF Copy!GoTo, CopyTypeOK
    <3>2. Copy!Restorable(r)'
      <4>1. m # r
        BY <1>1, <2>2
      <4> QED BY <1>2, <2>1, <3>1, <4>1 DEF RunSound, Copy!Restorable, Copy!NoFile
    <3>3. RunSound(r)'
      BY <1>2, <2>1, <3>1, <3>2 DEF RunSound
    <3> QED BY <1>0, <2>1, <2>2, <3>1, <3>3, RotationKeeps
  <2>4. CASE Copy!GoTo(r, "failed") /\ UNCHANGED snap
    <3>1. progress' = [progress EXCEPT ![r] = "failed"] /\ progress'[r] = "failed"
      BY <1>1, <2>4 DEF Copy!GoTo, CopyTypeOK
    <3>2. RunSound(r)' /\ (Standing(r) => Standing(r)') /\ "failed" \in CopySteps \ {"new", "ok"}
      BY <2>1, <2>4, <3>1 DEF RunSound, Standing, CopySteps, Copy!Restorable, Copy!NoFile
    <3>3. progress[r] \notin Copy!Ended
      BY <2>1 DEF Copy!Ended
    <3> QED BY <1>0, <2>1, <2>4, <3>1, <3>2, <3>3, OneRunMoves
  <2> QED BY <1>13, <2>3, <2>4 DEF Copy!RotateSnapshot, m
<1>14. ASSUME NEW r \in Runs, Copy!RotateManifest(r) PROVE CopyInv'
  <2> DEFINE m == Copy!Min(doomed[r])
  <2>1. /\ progress[r] = "rotateman" /\ UNCHANGED <<live, partial, partman, snap>>
        /\ progress' = [progress EXCEPT ![r] = "rotate"] /\ progress'[r] = "rotate"
        /\ man' = [man EXCEPT ![m] = Copy!NoFile]
        /\ doomed' = [doomed EXCEPT ![r] = doomed[r] \ {m}] /\ doomed'[r] = doomed[r] \ {m}
    BY <1>1, <1>14 DEF Copy!RotateManifest, Copy!GoTo, CopyTypeOK
  <2>2. m \in doomed[r] /\ m \in Runs /\ m < r
    <3>1. doomed[r] \in SUBSET Nat /\ doomed[r] \subseteq Runs /\ doomed[r] # {}
      BY <1>1, <1>2, <2>1 DEF CopyTypeOK, RunSound
    <3>2. m \in doomed[r]
      BY <3>1, SmallestRun
    <3> QED BY <1>2, <2>1, <3>1, <3>2 DEF RunSound
  <2> HIDE DEF m
  <2>3. /\ \A q \in Runs \ {m} : man'[q] = man[q]
        /\ \A q \in Runs \ {r} : doomed'[q] = doomed[q]
    BY <1>1, <2>1 DEF CopyTypeOK
  <2>4. Copy!Restorable(r)'
    <3>1. m # r
      BY <1>1, <2>2
    <3> QED BY <1>2, <2>1, <2>3, <3>1 DEF RunSound, Copy!Restorable, Copy!NoFile
  <2>5. RunSound(r)'
    BY <1>2, <2>1, <2>4 DEF RunSound
  <2> QED BY <1>0, <2>1, <2>2, <2>3, <2>5, RotationKeeps
<1>15. ASSUME NEW r \in Runs, Copy!Done(r) PROVE CopyInv'
  <2>1. /\ progress' = [progress EXCEPT ![r] = "ok"] /\ progress[r] = "rotate"
        /\ UNCHANGED <<live, seen, doomed, partial, partman, snap, man>>
    BY <1>15 DEF Copy!Done, Copy!GoTo
  <2>2. \A q \in Runs : progress'[q] = IF q = r THEN "ok" ELSE progress[q]
    BY <1>1, <2>1 DEF CopyTypeOK
  <2>3. InTurn'
    <3>1. ASSUME NEW p \in Runs, NEW q \in Runs, q > p,
                 progress'[p] = "new" \/ progress'[p] \notin Copy!Ended
          PROVE  progress'[q] = "new"
      <4>1. p # r /\ progress'[p] = progress[p]
        BY <2>2, <3>1 DEF Copy!Ended
      <4>2. progress[q] = "new"
        BY <1>1, <3>1, <4>1 DEF InTurn
      <4> QED BY <2>1, <2>2, <4>2
    <3>2. \A p \in Runs : progress'[p] = "new" => snap'[p] = Copy!NoFile
      BY <1>1, <2>1, <2>2 DEF InTurn
    <3> QED BY <3>1, <3>2 DEF InTurn, Copy!Ended, Copy!NoFile
  <2>4. \A q \in Runs : RunSound(q)'
    BY <1>2, <2>1, <2>2 DEF RunSound, Copy!Restorable, Copy!NoFile
  <2>5. \A q \in Runs : Standing(q) => Standing(q)'
    BY <2>1, <2>2 DEF Standing, Copy!Restorable, Copy!NoFile
  <2>6. Standing(r)' /\ r >= r
    <3>1. Copy!Restorable(r)'
      BY <1>2, <2>1 DEF RunSound, Copy!Restorable, Copy!NoFile
    <3> QED BY <1>1, <2>2, <3>1 DEF Standing
  <2>7. \A x \in Runs : progress'[x] = "ok" => \E q \in Runs : q >= x /\ Standing(q)'
    BY <2>2, <2>5, <2>6 DEF CopyInv
  <2> QED BY <1>0, <2>3, <2>4, <2>7 DEF CopyInv
<1>16. ASSUME NEW r \in Runs, Copy!Killed(r) PROVE CopyInv'
  <2>1. /\ progress' = [progress EXCEPT ![r] = "killed"] /\ progress'[r] = "killed"
        /\ progress[r] \notin Copy!Ended
        /\ UNCHANGED <<live, seen, doomed, partial, partman, snap, man>>
    BY <1>1, <1>16 DEF Copy!Killed, Copy!GoTo, CopyTypeOK
  <2>2. RunSound(r)' /\ (Standing(r) => Standing(r)') /\ "killed" \in CopySteps \ {"new", "ok"}
    BY <2>1 DEF RunSound, Standing, CopySteps, Copy!Restorable, Copy!NoFile
  <2> QED BY <1>0, <2>1, <2>2, OneRunMoves
<1>17. CASE UNCHANGED <<progress, doomed, partial, partman, snap, man>>
  BY <1>0, <1>17 DEF CopyInv, InTurn, RunSound, Standing, Copy!Restorable, Copy!NoFile, Copy!Ended
<1>18. CASE Copy!Write \/ UNCHANGED Copy!vars
  BY <1>17, <1>18 DEF Copy!Write, Copy!vars
<1> QED
  BY <1>4, <1>5, <1>6, <1>7, <1>8, <1>9, <1>10, <1>11, <1>12, <1>13, <1>14, <1>15, <1>16, <1>18
     DEF Copy!Next, Copy!RunStep

LEMMA CopyPartInv == Spec => [](part = "backup" => CopyInv)
<1>1. Init => (part = "backup" => CopyInv)
  BY CopyInit DEF Init, Chosen
<1>2. (part = "backup" => CopyInv) /\ [Next]_v => (part = "backup" => CopyInv)'
  <2> SUFFICES ASSUME part = "backup" => CopyInv, [Next]_v, (part = "backup")'
               PROVE  CopyInv'
    OBVIOUS
  <2>1. part = "backup" /\ [Copy!Next]_(Copy!vars)
    BY PartSteps
  <2> QED BY <2>1, CopyStep
<1> QED BY <1>1, <1>2, PTL DEF Spec

(* Backup: once a run has reported success, a snapshot at least as recent can
   be restored at any time after, wherever later runs fail or are killed and
   whatever they rotate out: a run rotates only after its own snapshot and
   manifest are in place, and never its own. *)
THEOREM BackupStaysRestorable == Spec => []RestorableKept
<1>1. (part = "backup" => CopyInv) => RestorableKept
  BY DEF RestorableKept, Copy!RestorableKept, CopyInv, Standing
<1> QED BY <1>1, CopyPartInv, PTL

-----------------------------------------------------------------------------
(* Config *)
WordsOf(s) == \A f \in Load!Words : s[f] \in 0..Word

LoadInv ==
    /\ DOMAIN settings = DOMAIN Defaults /\ WordsOf(settings)
    /\ phase \in {"loaded", "started"} => Load!Valid(settings)
    /\ phase \in {"edit", "loaded", "refused"} => \A x \in Load!Services : started[x] = "no"
    /\ phase = "started" => \A x \in Load!Services :
                              started[x] = "refused" => ~Load!Starts(x, settings)
    /\ phase \in {"edit", "loaded", "refused", "started"}

LEMMA LoadConstants ==
    /\ Word \in Nat /\ DiskCap \in Nat /\ WatermarkBytes \in Nat /\ DiskCap < Word
    /\ DOMAIN Values \subseteq DOMAIN Defaults
    /\ \A f \in Load!Words : /\ f \in DOMAIN Defaults /\ Defaults[f] \in 0..Word
                             /\ f \in DOMAIN Values => Values[f] \subseteq 0..Word
  BY OperationsAssumption DEF OperationsAssumption, Load!ConfigAssumption

LEMMA Larger ==
    ASSUME NEW a \in Int, NEW b \in Int
    PROVE  Load!Max({a, b}) = IF a >= b THEN a ELSE b
<1>1. \E x \in {a, b} : \A y \in {a, b} : x >= y
  OBVIOUS
<1> QED BY <1>1 DEF Load!Max

LEMMA Smaller ==
    ASSUME NEW a \in Int, NEW b \in Int
    PROVE  Load!Min({a, b}) = IF a <= b THEN a ELSE b
<1>1. \E x \in {a, b} : \A y \in {a, b} : x <= y
  OBVIOUS
<1> QED BY <1>1 DEF Load!Min

(* saturating_mul and saturating_add against checked_mul and checked_add: below
   the cap on the disk neither saturates *)
LEMMA DiskBoundsAgree ==
    ASSUME NEW s, WordsOf(s), Load!WorkerValid(s)
    PROVE  Load!TempDiskSuffices(s) /\ s.lease > 2 * s.heartbeat
<1>1. /\ s.image \in 0..Word /\ s.video \in 0..Word /\ s.temp_disk \in 0..Word
      /\ s.lease \in 0..Word /\ s.heartbeat \in 0..Word
  BY DEF WordsOf, Load!Words
<1>2. \A n \in Nat : Load!Saturating(n) = IF n <= Word THEN n ELSE Word
  BY LoadConstants, Smaller DEF Load!Saturating
<1>3. PICK i \in Nat : i = s.image
  BY <1>1
<1>5. PICK m \in Nat : m = Load!Max({s.video, s.image})
  BY <1>1, Larger
<1>6. Load!Max({s.image, s.video}) = m
  <2>1. {s.image, s.video} = {s.video, s.image}
    OBVIOUS
  <2> QED BY <1>5, <2>1
<1>7. /\ s.temp_disk <= DiskCap
      /\ s.temp_disk >= Load!Saturating(Load!Saturating(m + Load!Saturating(2 * i)) + WatermarkBytes)
      /\ s.lease > Load!Saturating(2 * s.heartbeat)
  <2>1. /\ s.temp_disk <= DiskCap /\ s.lease > Load!Saturating(2 * s.heartbeat)
        /\ s.temp_disk >= Load!Saturating(
             Load!Saturating(Load!Max({s.video, s.image}) + Load!Saturating(2 * s.image))
               + WatermarkBytes)
    BY DEF Load!WorkerValid
  <2> QED BY <1>3, <1>5, <2>1
<1>8. s.lease > 2 * s.heartbeat
  <2>1. 2 * s.heartbeat \in Nat
    BY <1>1
  <2> QED BY <1>1, <1>2, <1>7, <2>1, LoadConstants
<1>9. 2 * i + m + WatermarkBytes <= s.temp_disk
  <2>1. PICK a \in Nat : a = Load!Saturating(2 * i) /\ (a = 2 * i \/ a = Word)
    BY <1>2, LoadConstants
  <2>2. PICK b \in Nat : b = Load!Saturating(m + a) /\ (b = m + a \/ b = Word)
    BY <1>2, <2>1, LoadConstants
  <2>3. PICK c \in Nat : /\ c = Load!Saturating(b + WatermarkBytes)
                         /\ (c = b + WatermarkBytes \/ c = Word)
    BY <1>2, <2>2, LoadConstants
  <2>4. c <= s.temp_disk
    BY <1>7, <2>1, <2>2, <2>3
  <2> QED BY <1>1, <1>7, <2>1, <2>2, <2>3, <2>4, LoadConstants
<1>10. 2 * s.image + Load!Max({s.image, s.video}) + WatermarkBytes <= s.temp_disk
  BY <1>3, <1>6, <1>9
<1>11. Load!TempDiskSuffices(s)
  <2>1. 2 * s.image + Load!Max({s.image, s.video}) + WatermarkBytes \in Nat
    BY <1>1, <1>3, <1>6, LoadConstants
  <2> QED BY <1>1, <1>10, <2>1, LoadConstants DEF Load!TempDiskSuffices
<1> QED BY <1>8, <1>11

(* The limits written twice agree: what load() accepts, every service accepts *)
LEMMA ValidStarts ==
    ASSUME NEW s, WordsOf(s), Load!Valid(s), s.tenant # "phrase", NEW x \in Load!Services
    PROVE  Load!Starts(x, s)
<1> USE DEF Load!Valid
<1>1. Load!LifecyclePolicyValid(s) /\ Load!InventoryPolicyValid(s)
  <2>1. Load!LifecycleValid(s)
    OBVIOUS
  <2>2. Load!LifecyclePolicyValid(s)
    BY ONLY <2>1 DEF Load!LifecycleValid, Load!LifecyclePolicyValid
  <2>3. Load!InventoryPolicyValid(s)
    BY ONLY <2>1 DEF Load!LifecycleValid, Load!InventoryPolicyValid
  <2> QED BY <2>2, <2>3
<1>2. Load!validate_provider_contract(s) /\ Load!AuthoritiesDerived(s)
  BY DEF Load!StorageValid
<1>3. Load!RateLimitPolicyValid(s)
  <2>0. Load!ServerValid(s)
    OBVIOUS
  <2> QED BY ONLY <2>0 DEF Load!ServerValid, Load!RateLimitPolicyValid
<1>4. s.tenant = "identifier"
  BY DEF Load!AuthValid
<1>5. Load!DeliveryPolicyValid(s)
  <2>0. Load!DeliveryValid(s)
    OBVIOUS
  <2>1. s.url_ttl \in 30..900 /\ s.manifest_ttl \in 1..Load!Min({300, s.url_ttl})
    BY ONLY <2>0 DEF Load!DeliveryValid
  <2>4. s.cache_bytes \in 65536..(64 * Load!MiB)
    BY ONLY <2>0 DEF Load!DeliveryValid
  <2>2. Load!Min({300, s.url_ttl}) = IF 300 <= s.url_ttl THEN 300 ELSE s.url_ttl
    <3>1. s.url_ttl \in Int /\ 300 \in Int
      BY <2>1
    <3> QED BY ONLY <3>1, Smaller
  <2>3. s.manifest_ttl \in 1..300 /\ s.manifest_ttl <= s.url_ttl
    <3>1. PICK most, url, manifest : /\ most = Load!Min({300, s.url_ttl})
                                     /\ url = s.url_ttl /\ manifest = s.manifest_ttl
      BY ONLY <2>1
    <3>2. url \in Int /\ manifest \in 1..most /\ most = IF 300 <= url THEN 300 ELSE url
      BY ONLY <2>1, <2>2, <3>1
    <3>3. manifest \in 1..300 /\ manifest <= url
      BY ONLY <3>2
    <3> QED BY ONLY <3>1, <3>3
  <2> QED BY ONLY <1>2, <2>1, <2>3, <2>4 DEF Load!DeliveryPolicyValid
<1>6. s.public => Load!PublicStateValid(s)
  <2>0. Load!DeliveryValid(s)
    OBVIOUS
  <2>1. s.token_ttl >= 30 /\ s.token_ttl <= 3600 /\ s.public_rate > 0 /\ s.public_rate <= 10000
    BY ONLY <2>0 DEF Load!DeliveryValid
  <2>2. s.public_burst \in s.public_rate..100000 /\ s.public_in_flight \in 1..1024
    BY ONLY <2>0 DEF Load!DeliveryValid
  <2>3. s.public => Load!resolve_public_secret(s) \in 32..256
    BY ONLY <2>0 DEF Load!DeliveryValid
  <2> QED
    BY ONLY <1>4, <2>1, <2>2, <2>3 DEF Load!PublicStateValid
<1>7. Load!SandboxProbeValid(s)
  BY DEF Load!WorkerValid, Load!SandboxProbeValid
<1>8. Load!WorkerPolicyValid(s)
  <2>1. Load!TempDiskSuffices(s) /\ s.lease > 2 * s.heartbeat
    BY DiskBoundsAgree
  <2>2. /\ s.heartbeat > 0 /\ s.retry > 0 /\ s.attempts > 0 /\ s.temp_disk <= DiskCap
    BY DEF Load!WorkerValid
  <2>3. s.image > 0 /\ s.video > 0
    BY DEF Load!UploadValid
  <2>4. s.heavy \in 1..32 /\ s.videos \in 1..32
    <3>1. s.jobs \in 1..32 /\ s.heavy \in 1..s.jobs /\ s.videos \in 1..s.jobs
      BY DEF Load!WorkerValid
    <3> QED BY <3>1
  <2>5. s.watermark => /\ s.pinned /\ s.revision \in 1..32 /\ s.margin <= 1024
                       /\ s.width \in 1..50 /\ s.opacity \in 1..100
    BY DEF Load!WatermarkValid
  <2> QED BY <2>1, <2>2, <2>3, <2>4, <2>5 DEF Load!WorkerPolicyValid
<1>9. Load!FirstBatchAdmitted(s)
  <2>1. /\ s.batch_files \in 1..100 /\ s.batch_bytes > 0
        /\ s.active_of \in s.batch_files..s.active
        /\ s.reserved_of \in s.batch_bytes..s.reserved /\ s.reserved <= Word \div 2
    BY DEF Load!UploadValid
  <2>2. s.batch_bytes \in 0..Word /\ s.active \in 0..Word /\ s.reserved \in 0..Word
    BY DEF WordsOf, Load!Words
  <2>3. /\ s.active > 0 /\ s.active_of \in 1..s.active /\ s.batch_files <= s.active_of
        /\ s.reserved \in 1..(Word \div 2) /\ s.reserved_of \in 1..s.reserved
        /\ s.batch_bytes <= s.reserved_of
    BY <2>1, <2>2, LoadConstants
  <2> QED BY <1>4, <2>3 DEF Load!FirstBatchAdmitted
<1>10. x \in {"api", "worker", "cleanup", "inventory", "batch"}
  BY DEF Load!Services
<1> QED
  BY <1>1, <1>2, <1>3, <1>5, <1>6, <1>7, <1>8, <1>9, <1>10 DEF Load!Starts

LEMMA LoadInit == Load!Init => LoadInv
  BY LoadConstants DEF Load!Init, LoadInv, WordsOf

LEMMA LoadStep == LoadInv /\ [Load!Next]_(Load!vars) => LoadInv'
<1> SUFFICES ASSUME LoadInv, [Load!Next]_(Load!vars) PROVE LoadInv'
  OBVIOUS
<1>1. ASSUME NEW f \in DOMAIN Values, NEW x \in Values[f], Load!Edit(f, x) PROVE LoadInv'
  <2>1. /\ phase = "edit" /\ settings' = [settings EXCEPT ![f] = x] /\ UNCHANGED <<phase, started>>
    BY <1>1 DEF Load!Edit
  <2>2. DOMAIN settings' = DOMAIN Defaults
    BY <2>1 DEF LoadInv
  <2>3. ASSUME NEW g \in Load!Words PROVE settings'[g] \in 0..Word
    <3>1. g \in DOMAIN settings /\ settings[g] \in 0..Word
      BY LoadConstants DEF LoadInv, WordsOf
    <3>2. settings'[g] = IF g = f THEN x ELSE settings[g]
      BY <2>1, <3>1
    <3>3. g = f => x \in 0..Word
      BY LoadConstants
    <3> QED BY <3>1, <3>2, <3>3
  <2> QED BY <2>1, <2>2, <2>3 DEF LoadInv, WordsOf, Load!Words
<1>2. CASE Load!load
  <2>1. /\ phase = "edit" /\ UNCHANGED <<settings, started>>
        /\ \/ phase' = "loaded" /\ Load!Valid(settings)
           \/ phase' = "refused"
    BY <1>2 DEF Load!load
  <2> QED BY <2>1 DEF LoadInv, WordsOf, Load!Words
<1>3. CASE Load!StartServices
  <2>1. /\ phase = "loaded" /\ phase' = "started" /\ UNCHANGED settings
        /\ \A x \in Load!Services :
             started'[x] = "refused" => ~Load!Starts(x, settings)
    BY <1>3 DEF Load!StartServices
  <2> QED BY <2>1 DEF LoadInv, WordsOf, Load!Words
<1>4. CASE UNCHANGED Load!vars
  BY <1>4 DEF Load!vars, LoadInv, WordsOf
<1> QED BY <1>1, <1>2, <1>3, <1>4 DEF Load!Next

LEMMA LoadPartInv == Spec => [](part = "config" => LoadInv)
<1>1. Init => (part = "config" => LoadInv)
  BY LoadInit DEF Init, Chosen
<1>2. (part = "config" => LoadInv) /\ [Next]_v => (part = "config" => LoadInv)'
  <2> SUFFICES ASSUME part = "config" => LoadInv, [Next]_v, (part = "config")'
               PROVE  LoadInv'
    OBVIOUS
  <2>1. part = "config" /\ [Load!Next]_(Load!vars)
    BY PartSteps
  <2> QED BY <2>1, LoadStep
<1> QED BY <1>1, <1>2, PTL DEF Spec

(* Config: whatever the settings, when load() accepts them every service starts
   with them and a full batch finds room on an idle node, unless the tenant id
   is no identifier. *)
THEOREM AcceptedSettingsStart == Spec => []AcceptedStarts
<1>1. (part = "config" => LoadInv) => AcceptedStarts
  <2> SUFFICES ASSUME LoadInv, NEW x \in Load!Services, started[x] = "refused",
                      settings.tenant # "phrase"
               PROVE  FALSE
    BY DEF AcceptedStarts, Load!AcceptedStarts
  <2>1. phase = "started" /\ Load!Valid(settings) /\ ~Load!Starts(x, settings)
    BY DEF LoadInv
  <2> QED BY <2>1, ValidStarts DEF LoadInv
<1> QED BY <1>1, LoadPartInv, PTL

-----------------------------------------------------------------------------
(* ResourceGates: the permits that are out are those of the slots at work *)
GateSteps == {"idle", "disk", "inspect", "lane", "work"}

GatesTypeOK ==
    /\ policy \in Policies
    /\ state \in {"new", "running", "refused"}
    /\ disk \in Nat
    /\ diskq \in Seq(WorkerSlots)
    /\ slot \in [WorkerSlots -> [step : GateSteps, kind : Permits!Kinds, bytes : Nat]]

Busy == {s \in WorkerSlots : slot[s].step \in {"inspect", "lane", "work"}}

NeedOf == [s \in WorkerSlots |-> Permits!Need(s)]

(* A slot waits for disk once, and holds none while it waits *)
QueueWaits ==
    /\ \A i \in 1..Len(diskq) : slot[diskq[i]].step = "disk"
    /\ \A i, j \in 1..Len(diskq) : diskq[i] = diskq[j] => i = j

PermitsCounted ==
    IF state = "running"
      THEN disk + Sum(NeedOf, Busy) = Permits!temp_disk_permits(policy.disk)
      ELSE diskq = << >> /\ \A s \in WorkerSlots : slot[s].step = "idle"

GatesInv == GatesTypeOK /\ QueueWaits /\ PermitsCounted

LEMMA GatesConstants ==
    /\ IsFiniteSet(WorkerSlots) /\ Sizes \subseteq Nat /\ Watermark \in Nat /\ Unit \in Nat \ {0}
    /\ \A p \in Policies : p.disk \in Nat /\ p.image \in Nat
<1>1. IsFiniteSet(WorkerSlots) <=> Permits!IsFiniteSet(WorkerSlots)
  BY DEF IsFiniteSet, Permits!IsFiniteSet
<1>2. Permits!GatesAssumption
  BY OperationsAssumption DEF OperationsAssumption
<1> QED BY <1>1, <1>2 DEF Permits!GatesAssumption

LEMMA PermitsOfBytes ==
    ASSUME NEW b \in Nat
    PROVE  /\ Permits!temp_disk_permits(b) \in Nat
           /\ b <= Unit * Permits!temp_disk_permits(b)
           /\ Unit * Permits!temp_disk_permits(b) < b + Unit
<1>1. Unit \in Nat \ {0}
  BY GatesConstants
<1>2. ASSUME NEW u \in Nat \ {0}, NEW a \in Nat
      PROVE  a \div u \in Nat /\ u * (a \div u) <= a /\ a < u * (a \div u) + u
  OBVIOUS
<1>3. b + Unit - 1 \in Nat
  BY <1>1
<1>4. PICK n : n = (b + Unit - 1) \div Unit
  OBVIOUS
<1>5. n \in Nat /\ Unit * n <= b + Unit - 1 /\ b + Unit - 1 < Unit * n + Unit
  BY <1>1, <1>2, <1>3, <1>4
<1>6. Unit * n \in Nat
  BY <1>1, <1>5
<1>7. b <= Unit * n /\ Unit * n < b + Unit
  BY <1>1, <1>5, <1>6
<1> QED BY <1>4, <1>5, <1>7 DEF Permits!temp_disk_permits

LEMMA NeedType ==
    ASSUME GatesTypeOK, NEW s \in WorkerSlots
    PROVE  /\ Permits!Reservation(s) \in Nat /\ Permits!Need(s) \in Nat
           /\ Permits!Reservation(s) <= Unit * Permits!Need(s)
           /\ NeedOf[s] = Permits!Need(s)
<1>1. Permits!Reservation(s) \in Nat
  BY GatesConstants DEF GatesTypeOK, Permits!Reservation
<1> QED BY <1>1, PermitsOfBytes DEF Permits!Need, NeedOf

(* What a need is made of: the policy and the length of the slot's source *)
LEMMA NeedSame ==
    ASSUME NEW s \in WorkerSlots, policy' = policy, slot'[s].bytes = slot[s].bytes
    PROVE  NeedOf'[s] = NeedOf[s]
  BY DEF NeedOf, Permits!Need, Permits!Reservation

LEMMA BusyFinite ==
    ASSUME GatesTypeOK
    PROVE  /\ IsFiniteSet(Busy) /\ Busy \in SUBSET WorkerSlots
           /\ \A s \in WorkerSlots : NeedOf[s] \in Nat
           /\ Sum(NeedOf, Busy) \in Nat
<1>1. Busy \in SUBSET WorkerSlots
  BY DEF Busy
<1>2. IsFiniteSet(Busy)
  BY <1>1, FS_Subset, GatesConstants
<1>3. \A s \in WorkerSlots : NeedOf[s] \in Nat
  BY NeedType
<1> QED BY <1>1, <1>2, <1>3, SumType

LEMMA GatesInit == Permits!Init => GatesInv
<1> SUFFICES ASSUME Permits!Init PROVE GatesInv
  OBVIOUS
<1> USE DEF Permits!Init, Permits!Idle
<1>1. GatesTypeOK
  BY DEF GatesTypeOK, GateSteps, Permits!Kinds, Permits!Lanes
<1>2. QueueWaits /\ PermitsCounted
  BY DEF QueueWaits, PermitsCounted
<1> QED BY <1>1, <1>2 DEF GatesInv

(* Steps that move a slot without taking or returning disk permits *)
LEMMA BusySame ==
    ASSUME GatesInv, UNCHANGED <<policy, state, disk>>, state = "running",
           \A s \in WorkerSlots : slot'[s].step \in {"inspect", "lane", "work"} <=>
                                    slot[s].step \in {"inspect", "lane", "work"},
           \A s \in Busy : slot'[s].bytes = slot[s].bytes
    PROVE  PermitsCounted'
<1>1. Busy' = Busy
  BY DEF Busy
<1>2. PICK g : g = NeedOf'
  OBVIOUS
<1>3. \A s \in Busy : g[s] = NeedOf[s]
  BY <1>2, NeedSame DEF Busy
<1>4. Sum(g, Busy) = Sum(NeedOf, Busy)
  BY <1>3, SumSame
<1> QED BY <1>1, <1>2, <1>4 DEF GatesInv, PermitsCounted, Permits!temp_disk_permits

(* What one slot's step leaves of the queue *)
LEMMA GatesTypeStep ==
    ASSUME GatesTypeOK, NEW s \in WorkerSlots, UNCHANGED <<policy, state>>, disk' \in Nat,
           diskq' \in Seq(WorkerSlots),
           NEW r \in [step : GateSteps, kind : Permits!Kinds, bytes : Nat],
           slot' = [slot EXCEPT ![s] = r]
    PROVE  /\ GatesTypeOK'
           /\ slot'[s] = r /\ \A u \in WorkerSlots : u # s => slot'[u] = slot[u]
  BY DEF GatesTypeOK

LEMMA GatesTake ==
    ASSUME GatesInv, NEW s \in WorkerSlots, Permits!Take(s)
    PROVE  GatesInv'
<1>1. PICK kind \in Permits!Kinds, bytes \in Sizes :
        slot' = [slot EXCEPT ![s] = [step |-> "disk", kind |-> kind, bytes |-> bytes]]
  BY DEF Permits!Take
<1>2. /\ state = "running" /\ slot[s].step = "idle" /\ diskq' = Append(diskq, s)
      /\ UNCHANGED <<policy, state, disk>>
  BY DEF Permits!Take
<1>3. GatesTypeOK /\ QueueWaits /\ PermitsCounted
  BY DEF GatesInv
<1>4. PICK r : r = [step |-> "disk", kind |-> kind, bytes |-> bytes]
  OBVIOUS
<1>5. r \in [step : GateSteps, kind : Permits!Kinds, bytes : Nat] /\ r.step = "disk"
  BY <1>4, GatesConstants DEF GateSteps
<1>6. diskq' \in Seq(WorkerSlots) /\ disk' \in Nat
  BY <1>2, <1>3 DEF GatesTypeOK
<1>7. GatesTypeOK' /\ slot'[s] = r /\ \A u \in WorkerSlots : u # s => slot'[u] = slot[u]
  BY <1>1, <1>2, <1>3, <1>4, <1>5, <1>6, GatesTypeStep
<1>8. QueueWaits'
  <2>1. diskq \in Seq(WorkerSlots) /\ \A i \in 1..Len(diskq) : diskq[i] # s
    BY <1>2, <1>3 DEF QueueWaits, GatesTypeOK
  <2>2. /\ Len(diskq') = Len(diskq) + 1
        /\ \A i \in 1..Len(diskq') :
             diskq'[i] = IF i = Len(diskq) + 1 THEN s ELSE diskq[i]
    BY <1>2, <2>1
  <2>3. \A i \in 1..Len(diskq') : i = Len(diskq) + 1 \/ i \in 1..Len(diskq)
    BY <2>1, <2>2
  <2>4. \A i \in 1..Len(diskq) : slot'[diskq[i]].step = "disk"
    BY <1>3, <1>7, <2>1 DEF QueueWaits
  <2>5. ASSUME NEW i \in 1..Len(diskq') PROVE slot'[diskq'[i]].step = "disk"
    BY <1>5, <1>7, <2>1, <2>2, <2>3, <2>4
  <2>6. ASSUME NEW i \in 1..Len(diskq'), NEW j \in 1..Len(diskq'), diskq'[i] = diskq'[j]
        PROVE  i = j
    BY <1>3, <2>1, <2>2, <2>3, <2>6 DEF QueueWaits
  <2> QED BY <2>5, <2>6 DEF QueueWaits
<1>9. PermitsCounted'
  <2>1. \A u \in WorkerSlots : slot'[u].step \in {"inspect", "lane", "work"} <=>
                                 slot[u].step \in {"inspect", "lane", "work"}
    BY <1>2, <1>5, <1>7
  <2>2. \A u \in Busy : slot'[u].bytes = slot[u].bytes
    BY <1>2, <1>7 DEF Busy
  <2> QED BY <1>2, <2>1, <2>2, BusySame
<1> QED BY <1>7, <1>8, <1>9 DEF GatesInv

LEMMA GatesAcquireDisk ==
    ASSUME GatesInv, NEW s \in WorkerSlots, Permits!AcquireDisk(s)
    PROVE  GatesInv'
<1>1. /\ diskq # << >> /\ Head(diskq) = s /\ Permits!Need(s) <= disk
      /\ disk' = disk - Permits!Need(s) /\ diskq' = Tail(diskq)
      /\ slot' = [slot EXCEPT ![s].step = "inspect"] /\ UNCHANGED <<policy, state>>
  BY DEF Permits!AcquireDisk
<1>2. GatesTypeOK /\ QueueWaits /\ PermitsCounted
  BY DEF GatesInv
<1>3. PICK r : r = [slot[s] EXCEPT !.step = "inspect"]
  OBVIOUS
<1>4. /\ r \in [step : GateSteps, kind : Permits!Kinds, bytes : Nat]
      /\ r.step = "inspect" /\ r.bytes = slot[s].bytes
  BY <1>2, <1>3 DEF GatesTypeOK, GateSteps
<1>5. slot' = [slot EXCEPT ![s] = r]
  BY <1>1, <1>3
<1>6. diskq \in Seq(WorkerSlots) /\ Len(diskq) \in Nat \ {0} /\ diskq[1] = s
  BY <1>1, <1>2 DEF GatesTypeOK
<1>7. /\ diskq' \in Seq(WorkerSlots) /\ Len(diskq') = Len(diskq) - 1
      /\ \A i \in 1..Len(diskq') : i + 1 \in 1..Len(diskq) /\ diskq'[i] = diskq[i + 1]
  BY <1>1, <1>6
<1>8. Permits!Need(s) \in Nat /\ NeedOf[s] = Permits!Need(s) /\ disk' \in Nat
  BY <1>1, <1>2, NeedType DEF GatesTypeOK
<1>9. GatesTypeOK' /\ slot'[s] = r /\ \A u \in WorkerSlots : u # s => slot'[u] = slot[u]
  BY <1>1, <1>2, <1>4, <1>5, <1>7, <1>8, GatesTypeStep
<1>10. slot[s].step = "disk" /\ state = "running"
  <2>1. 1 \in 1..Len(diskq)
    BY <1>6
  <2> QED BY <1>1, <1>2, <1>6, <2>1 DEF QueueWaits, PermitsCounted
<1>11. QueueWaits'
  <2>1. ASSUME NEW i \in 1..Len(diskq') PROVE diskq'[i] # s /\ slot'[diskq'[i]].step = "disk"
    <3>1. i + 1 \in 1..Len(diskq) /\ 1 \in 1..Len(diskq) /\ i + 1 # 1 /\ diskq'[i] = diskq[i + 1]
      BY <1>6, <1>7
    <3>2. diskq[i + 1] # diskq[1] /\ slot[diskq[i + 1]].step = "disk" /\ diskq[i + 1] \in WorkerSlots
      BY <1>2, <1>6, <3>1 DEF QueueWaits
    <3> QED BY <1>6, <1>9, <3>1, <3>2
  <2>2. ASSUME NEW i \in 1..Len(diskq'), NEW j \in 1..Len(diskq'), diskq'[i] = diskq'[j]
        PROVE  i = j
    <3>1. i + 1 \in 1..Len(diskq) /\ j + 1 \in 1..Len(diskq) /\ diskq[i + 1] = diskq[j + 1]
      BY <1>7, <2>2
    <3>2. i + 1 = j + 1
      BY <1>2, <3>1 DEF QueueWaits
    <3> QED BY <3>2
  <2> QED BY <2>1, <2>2 DEF QueueWaits
<1>12. PermitsCounted'
  <2>1. Busy' = Busy \cup {s} /\ s \notin Busy
    BY <1>4, <1>9, <1>10 DEF Busy
  <2>2. PICK g : g = NeedOf'
    OBVIOUS
  <2>3. \A u \in WorkerSlots : g[u] = NeedOf[u]
    <3> SUFFICES ASSUME NEW u \in WorkerSlots PROVE NeedOf'[u] = NeedOf[u]
      BY <2>2
    <3>1. slot'[u].bytes = slot[u].bytes
      BY <1>4, <1>9
    <3> QED BY <1>1, <3>1, NeedSame
  <2>4. PICK B : B = Busy
    OBVIOUS
  <2>5. IsFiniteSet(B) /\ B \in SUBSET WorkerSlots /\ \A u \in WorkerSlots : g[u] \in Nat
    BY <1>2, <2>3, <2>4, BusyFinite
  <2>6. IsFiniteSet({s}) /\ B \cap {s} = {} /\ \A u \in B \cup {s} : g[u] \in Nat
    BY <2>1, <2>4, <2>5, FS_Singleton
  <2>7. Sum(g, B \cup {s}) = Sum(g, B) + Sum(g, {s})
    BY <2>5, <2>6, SumUnion
  <2>8. Sum(g, {s}) = Permits!Need(s)
    BY <1>8, <2>3, <2>5, SumOne
  <2>9. Sum(g, B) = Sum(NeedOf, B) /\ Sum(NeedOf, B) \in Nat
    BY <1>2, <2>3, <2>4, <2>5, SumSame, BusyFinite
  <2>10. Sum(NeedOf, Busy)' = Sum(NeedOf, Busy) + Permits!Need(s)
    BY <2>1, <2>2, <2>4, <2>7, <2>8, <2>9
  <2>11. disk' + Sum(NeedOf, Busy)' = disk + Sum(NeedOf, Busy)
    <3>1. PICK x \in Nat : x = Sum(NeedOf, Busy)
      BY <2>4, <2>9
    <3>2. PICK n \in Nat : n = Permits!Need(s)
      BY <1>8
    <3>3. disk' = disk - n /\ disk \in Nat
      BY <1>1, <1>2, <3>2 DEF GatesTypeOK
    <3> QED BY <2>10, <3>1, <3>2, <3>3
  <2>12. Permits!temp_disk_permits(policy.disk)' = Permits!temp_disk_permits(policy.disk)
    BY <1>1 DEF Permits!temp_disk_permits
  <2> QED BY <1>1, <1>2, <1>10, <2>11, <2>12 DEF PermitsCounted
<1> QED BY <1>9, <1>11, <1>12 DEF GatesInv

(* A slot that holds permits goes on to the next step and keeps them *)
LEMMA GatesGoOn ==
    ASSUME GatesInv, NEW s \in WorkerSlots, UNCHANGED <<policy, state, disk, diskq>>,
           slot[s].step \in {"inspect", "lane"}, NEW next \in {"lane", "work"},
           slot' = [slot EXCEPT ![s].step = next]
    PROVE  GatesInv'
<1>2. GatesTypeOK /\ QueueWaits /\ PermitsCounted
  BY DEF GatesInv
<1>3. PICK r : r = [slot[s] EXCEPT !.step = next]
  OBVIOUS
<1>4. /\ r \in [step : GateSteps, kind : Permits!Kinds, bytes : Nat]
      /\ r.step = next /\ r.bytes = slot[s].bytes
  BY <1>2, <1>3 DEF GatesTypeOK, GateSteps
<1>5. slot' = [slot EXCEPT ![s] = r]
  BY <1>3
<1>6. diskq' \in Seq(WorkerSlots) /\ disk' \in Nat
  BY <1>2 DEF GatesTypeOK
<1>7. GatesTypeOK' /\ slot'[s] = r /\ \A u \in WorkerSlots : u # s => slot'[u] = slot[u]
  BY <1>2, <1>4, <1>5, <1>6, GatesTypeStep
<1>8. state = "running"
  BY <1>2 DEF PermitsCounted
<1>9. QueueWaits'
  <2>1. \A i \in 1..Len(diskq) : diskq[i] \in WorkerSlots /\ diskq[i] # s
    BY <1>2 DEF QueueWaits, GatesTypeOK
  <2> QED BY <1>2, <1>7, <2>1 DEF QueueWaits
<1>10. PermitsCounted'
  <2>1. \A u \in WorkerSlots : slot'[u].step \in {"inspect", "lane", "work"} <=>
                                 slot[u].step \in {"inspect", "lane", "work"}
    BY <1>4, <1>7
  <2>2. \A u \in Busy : slot'[u].bytes = slot[u].bytes
    BY <1>4, <1>7 DEF Busy
  <2> QED BY <1>8, <2>1, <2>2, BusySame
<1> QED BY <1>7, <1>9, <1>10 DEF GatesInv

LEMMA GatesFinish ==
    ASSUME GatesInv, NEW s \in WorkerSlots, Permits!Finish(s)
    PROVE  GatesInv'
<1>1. /\ slot[s].step \in {"inspect", "work"} /\ disk' = disk + Permits!Need(s)
      /\ slot' = [slot EXCEPT ![s] = Permits!Idle] /\ UNCHANGED <<policy, state, diskq>>
  BY DEF Permits!Finish
<1>2. GatesTypeOK /\ QueueWaits /\ PermitsCounted
  BY DEF GatesInv
<1>3. PICK r : r = Permits!Idle
  OBVIOUS
<1>4. r \in [step : GateSteps, kind : Permits!Kinds, bytes : Nat] /\ r.step = "idle"
  BY <1>3 DEF GateSteps, Permits!Idle, Permits!Kinds
<1>8. Permits!Need(s) \in Nat /\ NeedOf[s] = Permits!Need(s) /\ disk' \in Nat
  BY <1>1, <1>2, NeedType DEF GatesTypeOK
<1>7. diskq' \in Seq(WorkerSlots)
  BY <1>1, <1>2 DEF GatesTypeOK
<1>9. GatesTypeOK' /\ slot'[s] = r /\ \A u \in WorkerSlots : u # s => slot'[u] = slot[u]
  BY <1>1, <1>2, <1>3, <1>4, <1>7, <1>8, GatesTypeStep
<1>10. state = "running"
  BY <1>1, <1>2 DEF PermitsCounted
<1>11. QueueWaits'
  <2>1. \A i \in 1..Len(diskq) : diskq[i] \in WorkerSlots /\ diskq[i] # s
    BY <1>1, <1>2 DEF QueueWaits, GatesTypeOK
  <2> QED BY <1>1, <1>2, <1>9, <2>1 DEF QueueWaits
<1>12. PermitsCounted'
  <2>1. Busy' = Busy \ {s} /\ s \in Busy
    BY <1>1, <1>4, <1>9 DEF Busy
  <2>2. PICK g : g = NeedOf'
    OBVIOUS
  <2>3. PICK B : B = Busy
    OBVIOUS
  <2>4. \A u \in B \ {s} : g[u] = NeedOf[u]
    <3> SUFFICES ASSUME NEW u \in WorkerSlots, u # s PROVE NeedOf'[u] = NeedOf[u]
      BY <2>2, <2>3 DEF Busy
    <3>1. slot'[u].bytes = slot[u].bytes
      BY <1>9
    <3> QED BY <1>1, <3>1, NeedSame
  <2>5. IsFiniteSet(B) /\ B \in SUBSET WorkerSlots /\ \A u \in B : NeedOf[u] \in Nat
    BY <1>2, <2>3, BusyFinite
  <2>6. Sum(NeedOf, B) = NeedOf[s] + Sum(NeedOf, B \ {s})
    BY <2>1, <2>3, <2>5, SumWithout
  <2>7. IsFiniteSet(B \ {s}) /\ \A u \in B \ {s} : NeedOf[u] \in Nat
    BY <2>5, FS_Subset
  <2>8. Sum(NeedOf, B \ {s}) \in Nat
    BY <2>7, SumType
  <2>9. Sum(g, B \ {s}) = Sum(NeedOf, B \ {s})
    BY <2>4, SumSame
  <2>10. PICK x \in Nat : x = Sum(NeedOf, B \ {s})
    BY <2>8
  <2>11. Sum(NeedOf, Busy)' = x /\ Sum(NeedOf, Busy) = Permits!Need(s) + x
    BY <1>8, <2>1, <2>2, <2>3, <2>6, <2>9, <2>10
  <2>12. disk' + Sum(NeedOf, Busy)' = disk + Sum(NeedOf, Busy)
    <3>1. PICK n \in Nat : n = Permits!Need(s)
      BY <1>8
    <3>2. disk' = disk + n /\ disk \in Nat
      BY <1>1, <1>2, <3>1 DEF GatesTypeOK
    <3> QED BY <2>11, <3>1, <3>2
  <2>13. Permits!temp_disk_permits(policy.disk)' = Permits!temp_disk_permits(policy.disk)
    BY <1>1 DEF Permits!temp_disk_permits
  <2> QED BY <1>1, <1>2, <1>10, <2>12, <2>13 DEF PermitsCounted
<1> QED BY <1>9, <1>11, <1>12 DEF GatesInv

LEMMA GatesStart ==
    ASSUME GatesInv, Permits!Start
    PROVE  GatesInv'
<1>1. state = "new" /\ UNCHANGED <<policy, diskq, slot>>
  BY DEF Permits!Start
<1>2. \/ state' = "running" /\ disk' = Permits!temp_disk_permits(policy.disk)
      \/ state' = "refused" /\ UNCHANGED disk
  BY DEF Permits!Start
<1>3. GatesTypeOK /\ QueueWaits /\ diskq = << >> /\ \A s \in WorkerSlots : slot[s].step = "idle"
  BY <1>1 DEF GatesInv, PermitsCounted
<1>4. Permits!temp_disk_permits(policy.disk) \in Nat
  BY <1>3, GatesConstants, PermitsOfBytes DEF GatesTypeOK
<1>5. GatesTypeOK'
  BY <1>1, <1>2, <1>3, <1>4 DEF GatesTypeOK
<1>6. QueueWaits'
  BY <1>1, <1>3 DEF QueueWaits
<1>7. PermitsCounted'
  <2>1. CASE state' = "refused"
    BY <1>1, <1>3, <2>1 DEF PermitsCounted
  <2>2. CASE state' = "running"
    <3>1. Busy' = {}
      BY <1>1, <1>3 DEF Busy
    <3>2. Sum(NeedOf, Busy)' = 0
      <4>1. PICK g : g = NeedOf'
        OBVIOUS
      <4> QED BY <3>1, <4>1, SumEmpty
    <3>3. Permits!temp_disk_permits(policy.disk)' = Permits!temp_disk_permits(policy.disk)
      BY <1>1 DEF Permits!temp_disk_permits
    <3>4. disk' = Permits!temp_disk_permits(policy.disk)
      BY <1>2, <2>2
    <3> QED BY <1>4, <2>2, <3>2, <3>3, <3>4 DEF PermitsCounted
  <2> QED BY <1>2, <2>1, <2>2
<1> QED BY <1>5, <1>6, <1>7 DEF GatesInv

LEMMA GatesStep == GatesInv /\ [Permits!Next]_(Permits!vars) => GatesInv'
<1> SUFFICES ASSUME GatesInv, [Permits!Next]_(Permits!vars) PROVE GatesInv'
  OBVIOUS
<1>1. CASE Permits!Start
  BY <1>1, GatesStart
<1>2. CASE Permits!Restart
  <2>1. /\ UNCHANGED policy /\ state' = "new" /\ disk' = 0 /\ diskq' = << >>
        /\ slot' = [s \in WorkerSlots |-> Permits!Idle]
    BY <1>2 DEF Permits!Restart
  <2>2. Permits!Idle \in [step : GateSteps, kind : Permits!Kinds, bytes : Nat]
    BY DEF GateSteps, Permits!Idle, Permits!Kinds
  <2>3. GatesTypeOK'
    BY <2>1, <2>2 DEF GatesInv, GatesTypeOK
  <2> QED BY <2>1, <2>3 DEF GatesInv, QueueWaits, PermitsCounted, Permits!Idle
<1>3. ASSUME NEW s \in WorkerSlots, Permits!Take(s) PROVE GatesInv'
  BY <1>3, GatesTake
<1>4. ASSUME NEW s \in WorkerSlots, Permits!AcquireDisk(s) PROVE GatesInv'
  BY <1>4, GatesAcquireDisk
<1>5. ASSUME NEW s \in WorkerSlots, Permits!Inspect(s) PROVE GatesInv'
  <2>1. PICK next \in {"lane", "work"} : slot' = [slot EXCEPT ![s].step = next]
    BY <1>5 DEF Permits!Inspect
  <2>2. slot[s].step = "inspect" /\ UNCHANGED <<policy, state, disk, diskq>>
    BY <1>5 DEF Permits!Inspect
  <2> QED BY <2>1, <2>2, GatesGoOn
<1>6. ASSUME NEW s \in WorkerSlots, Permits!AcquireLane(s) PROVE GatesInv'
  <2>1. /\ slot[s].step = "lane" /\ UNCHANGED <<policy, state, disk, diskq>>
        /\ slot' = [slot EXCEPT ![s].step = "work"]
    BY <1>6 DEF Permits!AcquireLane
  <2> QED BY <2>1, GatesGoOn
<1>7. ASSUME NEW s \in WorkerSlots, Permits!Finish(s) PROVE GatesInv'
  BY <1>7, GatesFinish
<1>8. CASE UNCHANGED Permits!vars
  <2>1. UNCHANGED <<policy, state, disk, diskq, slot>>
    BY <1>8 DEF Permits!vars
  <2>2. UNCHANGED GatesTypeOK /\ UNCHANGED QueueWaits
    BY <2>1 DEF GatesTypeOK, QueueWaits
  <2>3. NeedOf' = NeedOf /\ Busy' = Busy
    BY <2>1 DEF NeedOf, Permits!Need, Permits!Reservation, Permits!temp_disk_permits, Busy
  <2>4. UNCHANGED PermitsCounted
    BY <2>1, <2>3 DEF PermitsCounted, Permits!temp_disk_permits
  <2> QED BY <2>2, <2>4 DEF GatesInv
<1> QED
  BY <1>1, <1>2, <1>3, <1>4, <1>5, <1>6, <1>7, <1>8 DEF Permits!Next, Permits!Progress

GatesPartInv == part = "gates" => GatesInv

LEMMA GatesPart == Spec => []GatesPartInv
<1>1. Init => GatesPartInv
  BY GatesInit DEF Init, Chosen, GatesPartInv
<1>2. GatesPartInv /\ [Next]_v => GatesPartInv'
  BY PartSteps, GatesStep DEF GatesPartInv
<1> QED BY <1>1, <1>2, PTL DEF Spec

ReservationOf == [s \in WorkerSlots |-> Permits!Reservation(s)]

(* The bytes that the slots at work may write, as a sum *)
LEMMA ReservedIsSum ==
    ASSUME GatesTypeOK
    PROVE  Permits!DiskWithinLimit <=> Sum(ReservationOf, Busy) < policy.disk + Unit
<1> DEFINE S == {s \in WorkerSlots : slot[s].step \in {"inspect", "lane", "work"}}
           Q(it) == it = [s \in SUBSET S |-> IF s = {} THEN 0 ELSE
                            Permits!Reservation(CHOOSE x \in s : TRUE)
                              + it[s \ {CHOOSE x \in s : TRUE}]]
<1>0. /\ S = Busy /\ IsFiniteSet(S)
      /\ \A s \in S : ReservationOf[s] = Permits!Reservation(s) /\ ReservationOf[s] \in Nat
  BY BusyFinite, NeedType DEF Busy, ReservationOf
<1>1. Permits!DiskWithinLimit <=> (CHOOSE it : Q(it))[S] < policy.disk + Unit
  BY DEF Permits!DiskWithinLimit, Permits!FoldSet, Permits!MapThenFoldSet
<1>3. \A it : Q(it) <=> IsFold(it, ReservationOf, S)
  BY DEF IsFold, ReservationOf
<1>4. Q([s \in SUBSET S |-> Sum(ReservationOf, s)])
  BY <1>0, <1>3, FoldExists
<1>5. Q(CHOOSE it : Q(it))
  <2> HIDE DEF Q
  <2> QED BY <1>4
<1>6. (CHOOSE it : Q(it))[S] = Sum(ReservationOf, S)
  <2> HIDE DEF Q
  <2> QED BY <1>0, <1>3, <1>5, FoldIsSum
<1> QED BY <1>0, <1>1, <1>6

(* ResourceGates: what the running jobs may write to the temporary directory
   never reaches one unit more than the configured disk, whatever the number of
   slots, the unit, the policy and the lengths of the sources. *)
THEOREM DiskStaysWithinLimit == Spec => []DiskWithinLimit
<1>1. ASSUME GatesInv PROVE Permits!DiskWithinLimit
  <2>1. GatesTypeOK /\ PermitsCounted
    BY <1>1 DEF GatesInv
  <2>2. policy.disk \in Nat /\ Unit \in Nat \ {0}
    BY <2>1, GatesConstants DEF GatesTypeOK
  <2>3. IsFiniteSet(Busy) /\ Busy \in SUBSET WorkerSlots /\ Sum(NeedOf, Busy) \in Nat
    BY <2>1, BusyFinite
  <2>4. \A s \in Busy : /\ ReservationOf[s] \in Nat /\ NeedOf[s] \in Nat
                        /\ ReservationOf[s] <= Unit * NeedOf[s]
    BY <2>1, <2>3, NeedType DEF ReservationOf
  <2>5. Sum(ReservationOf, Busy) \in Nat
    BY <2>3, <2>4, SumType
  <2>6. CASE state = "running"
    <3>1. Sum(ReservationOf, Busy) <= Unit * Sum(NeedOf, Busy)
      BY <2>2, <2>3, <2>4, SumScaled
    <3>2. PICK n \in Nat : n = Permits!temp_disk_permits(policy.disk)
      BY <2>2, PermitsOfBytes
    <3>3. Sum(NeedOf, Busy) <= n
      BY <2>1, <2>3, <2>6, <3>2 DEF PermitsCounted, GatesTypeOK
    <3>4. \A u, a, b \in Nat : a <= b => u * a <= u * b
      OBVIOUS
    <3>5. Unit * Sum(NeedOf, Busy) <= Unit * n /\ Unit * n \in Nat /\ Unit * Sum(NeedOf, Busy) \in Nat
      BY <2>2, <2>3, <3>3, <3>4
    <3>6. Unit * n < policy.disk + Unit
      BY <2>2, <3>2, PermitsOfBytes
    <3>7. Sum(ReservationOf, Busy) < policy.disk + Unit
      BY <2>2, <2>5, <3>1, <3>5, <3>6
    <3> QED BY <2>1, <3>7, ReservedIsSum
  <2>7. CASE state # "running"
    <3>1. Busy = {}
      BY <2>1, <2>7 DEF PermitsCounted, Busy
    <3>2. Sum(ReservationOf, Busy) < policy.disk + Unit
      BY <2>2, <3>1, SumEmpty
    <3> QED BY <2>1, <3>2, ReservedIsSum
  <2> QED BY <2>6, <2>7
<1>2. GatesPartInv => DiskWithinLimit
  BY <1>1 DEF GatesPartInv, DiskWithinLimit
<1> QED BY <1>2, GatesPart, PTL
=============================================================================
