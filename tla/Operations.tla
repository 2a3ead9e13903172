----------------------------- MODULE Operations -----------------------------
(***************************************************************************)
(* The commands an operator runs on the host, the configuration both       *)
(* services load, and the worker's resource gates, put side by side as in  *)
(* Services: `part` is chosen in the initial state, that part runs, and    *)
(* the others are off.                                                     *)
(***************************************************************************)
EXTENDS Integers, Sequences

VARIABLE part

CONSTANTS
    Admins, Origins, NoOrigins, CommandLines, Buckets, Foreign, MaxRules, Editors, MaxOutages

VARIABLES exists, cors, admin, outages

Boot == INSTANCE StorageBootstrap WITH
    Commands <- CommandLines, faults <- outages, MaxFaults <- MaxOutages

CONSTANT MaxErrors

VARIABLES call, position, failed, unclean, deleting, objects, sessions, lost, errors

Doctor == INSTANCE StorageCanary WITH
    step <- call, at <- position, faults <- errors, MaxFaults <- MaxErrors

CONSTANTS Inputs, Credentials, LiveCredentials, Forces, None, MaxChanges, MaxFaults

VARIABLES file, goal, step, hmac, changes, faults

Wizard == INSTANCE Setup WITH Keys <- Credentials, LiveKeys <- LiveCredentials

CONSTANTS Versions, Payload, Units, MaxDeaths, MaxCrashes, MaxUnpacks

VARIABLES
    bundle, installed, runs, account, runtime, config, cmd, unpacking, deaths, crashes, unpacks

Install == INSTANCE Installer WITH Services <- Units, disk <- installed

CONSTANTS Runs, Retain, MaxWrites

VARIABLES live, progress, seen, doomed, partial, partman, snap, man

Copy == INSTANCE Backup WITH step <- progress, part <- partial

CONSTANTS WorkerSlots, Policies, Sizes, Watermark, Unit

VARIABLES policy, state, disk, lane, diskq, laneq, slot

Permits == INSTANCE ResourceGates WITH Slots <- WorkerSlots

CONSTANTS Defaults, Values, MaxEdits, Word, DiskCap, WatermarkBytes, MinPart

VARIABLES settings, edited, phase, started

Load == INSTANCE Config WITH Watermark <- WatermarkBytes

ASSUME OperationsAssumption ==
    /\ Boot!BootstrapAssumption /\ Doctor!CanaryAssumption /\ Wizard!SetupAssumption
    /\ Install!InstallerAssumption /\ Copy!BackupAssumption
    /\ Permits!GatesAssumption /\ Load!ConfigAssumption

-----------------------------------------------------------------------------
(* The variables of each part *)
boot == <<exists, cors, admin, outages>>
doctor == <<call, position, failed, unclean, deleting, objects, sessions, lost, errors>>
wizard == <<file, goal, step, hmac, changes, faults>>
install == <<bundle, installed, runs, account, runtime, config,
              cmd, unpacking, deaths, crashes, unpacks>>
copy == <<live, progress, seen, doomed, partial, partman, snap, man>>
gates == <<policy, state, disk, lane, diskq, laneq, slot>>
load == <<settings, edited, phase, started>>

(* A part that is off *)
BootOff == exists = 0 /\ cors = 0 /\ admin = 0 /\ outages = 0
DoctorOff ==
    /\ call = 0 /\ position = 0 /\ failed = 0 /\ unclean = 0 /\ deleting = 0
    /\ objects = 0 /\ sessions = 0 /\ lost = 0 /\ errors = 0
WizardOff == file = 0 /\ goal = 0 /\ step = 0 /\ hmac = 0 /\ changes = 0 /\ faults = 0
InstallOff ==
    /\ bundle = 0 /\ installed = 0 /\ runs = 0 /\ account = 0 /\ runtime = 0 /\ config = 0
    /\ cmd = 0 /\ unpacking = 0 /\ deaths = 0 /\ crashes = 0 /\ unpacks = 0
CopyOff ==
    /\ live = 0 /\ progress = 0 /\ seen = 0 /\ doomed = 0
    /\ partial = 0 /\ partman = 0 /\ snap = 0 /\ man = 0
PermitsOff ==
    /\ policy = 0 /\ state = 0 /\ disk = 0 /\ lane = 0
    /\ diskq = 0 /\ laneq = 0 /\ slot = 0
LoadOff == settings = 0 /\ edited = 0 /\ phase = 0 /\ started = 0

(* Part p is the one that runs, or it is off *)
Chosen(p, On, Off) == IF part = p THEN On ELSE Off

Init ==
    /\ part \in {"bootstrap", "canary", "setup", "install", "backup", "gates", "config"}
    /\ Chosen("bootstrap", Boot!Init, BootOff)
    /\ Chosen("canary", Doctor!Init, DoctorOff)
    /\ Chosen("setup", Wizard!Init, WizardOff)
    /\ Chosen("install", Install!Init, InstallOff)
    /\ Chosen("backup", Copy!Init, CopyOff)
    /\ Chosen("gates", Permits!Init, PermitsOff)
    /\ Chosen("config", Load!Init, LoadOff)

v == <<part, boot, doctor, wizard, install, copy, gates, load>>

(* What a step of a part leaves alone *)
bootRest == <<part, doctor, wizard, install, copy, gates, load>>
doctorRest == <<part, boot, wizard, install, copy, gates, load>>
wizardRest == <<part, boot, doctor, install, copy, gates, load>>
installRest == <<part, boot, doctor, wizard, copy, gates, load>>
copyRest == <<part, boot, doctor, wizard, install, gates, load>>
gatesRest == <<part, boot, doctor, wizard, install, copy, load>>
loadRest == <<part, boot, doctor, wizard, install, copy, gates>>

Next ==
    \/ part = "bootstrap" /\ Boot!Next /\ UNCHANGED bootRest
    \/ part = "canary" /\ Doctor!Next /\ UNCHANGED doctorRest
    \/ part = "setup" /\ Wizard!Next /\ UNCHANGED wizardRest
    \/ part = "install" /\ Install!Next /\ UNCHANGED installRest
    \/ part = "backup" /\ Copy!Next /\ UNCHANGED copyRest
    \/ part = "gates" /\ Permits!Next /\ UNCHANGED gatesRest
    \/ part = "config" /\ Load!Next /\ UNCHANGED loadRest

AdminGoesOn(a) == part = "bootstrap" /\ (Boot!AdminStep(a) \/ Boot!Rerun(a))
SetupGoesOn == part = "setup" /\ Wizard!CommandStep
InstallGoesOn == part = "install" /\ Install!InstallStep
UnpackGoesOn == part = "install" /\ Install!UnpackStep
SlotGoesOn(s) == part = "gates" /\ Permits!Progress(s)

(* The fairness of each part *)
Spec ==
    /\ Init /\ [][Next]_v
    /\ \A a \in Admins : WF_boot(AdminGoesOn(a))
    /\ WF_wizard(SetupGoesOn) /\ WF_install(InstallGoesOn) /\ WF_install(UnpackGoesOn)
    /\ \A s \in WorkerSlots : WF_gates(SlotGoesOn(s))

-----------------------------------------------------------------------------
(* StorageBootstrap: one managed rule, within the provider's limit. *)
OneManagedRule == part = "bootstrap" => Boot!OneManagedRule

(* StorageBootstrap: a rule that was there at the read survives the write. *)
ForeignRulesKept == [][part = "bootstrap" => Boot!LosesOnlyUnread]_v

(* StorageCanary: a run accounts for every object and session it created. *)
CanaryAccounts == part = "canary" => Doctor!CanaryAccounts

(* Setup: PASS means that the files are this command's and load. *)
PassIsWhole == part = "setup" => Wizard!PassIsWhole

(* Setup: without --force no file is changed. *)
UnforcedKeepsFiles == [][part = "setup" => Wizard!KeepsFiles]_v

(* Installer: PASS means that one release is installed and runs. *)
PassRunsInstalled == part = "install" => Install!PassRunsInstalled

(* Backup: what can be restored is at least as recent as the last success. *)
RestorableKept == part = "backup" => Copy!RestorableKept

(* ResourceGates: running jobs stay within the configured disk. *)
DiskWithinLimit == part = "gates" => Permits!DiskWithinLimit

(* ResourceGates: no slot waits for ever. *)
NobodyWaitsForever ==
    \A s \in WorkerSlots :
      part = "gates" /\ Permits!Waiting(s) ~> part = "gates" /\ ~Permits!Waiting(s)

(* Config: settings that load start every service. *)
AcceptedStarts == part = "config" => Load!AcceptedStarts

(* A command that is repeated after a failure or a kill passes in the end:
   StorageBootstrap's RerunConverges, Setup's RepeatPasses and Installer's
   RepeatInstalls. *)
RepeatConverges ==
    /\ \A a \in Admins :
         part = "bootstrap" /\ Boot!Alone(a) ~> part = "bootstrap" /\ Boot!Through(a)
    /\ part = "setup" /\ Wizard!Repeatable ~> part = "setup" /\ step = "passed"
    /\ part = "install" /\ Install!Repeatable ~> part = "install" /\ cmd.step = "passed"
=============================================================================
