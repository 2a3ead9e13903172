-------------------------------- MODULE Config --------------------------------
(***************************************************************************)
(* Settings::load: defaults, file and environment give the settings,       *)
(* secret files are read, and validate() accepts them or ends the process. *)
(* The services built from accepted settings check their own policies once *)
(* more, each with limits written a second time.  An operator edits at     *)
(* most MaxEdits settings of a working configuration before a load.        *)
(*                                                                         *)
(* Byte quantities are scaled down (Word stands for u64::MAX); names are   *)
(* their lengths; endpoint, region and bucket are the classes the provider *)
(* contract and the redirect authorities tell apart.                       *)
(***************************************************************************)
EXTENDS Naturals, FiniteSetsExt

CONSTANTS
    Defaults,      \* a working configuration
    Values,        \* per setting: the values an operator tries
    MaxEdits,
    Word,          \* u64::MAX
    DiskCap,       \* 1 TiB
    Watermark,     \* 16 MiB
    MinPart        \* 5 MiB

(* The u64 and usize settings that are added, doubled or bound each other *)
Words == {"batch_bytes", "image", "video", "active", "reserved", "temp_disk", "lease", "heartbeat"}

ConfigAssumption ==
    /\ DOMAIN Values \subseteq DOMAIN Defaults
    /\ Word \in Nat /\ DiskCap \in Nat /\ Watermark \in Nat
    /\ DiskCap < Word /\ Watermark < DiskCap
    /\ \A f \in Words : /\ f \in DOMAIN Defaults /\ Defaults[f] \in 0..Word
                        /\ f \in DOMAIN Values => Values[f] \subseteq 0..Word

VARIABLES settings, edited, phase, started

vars == <<settings, edited, phase, started>>

Services == {"api", "worker", "cleanup", "inventory", "batch"}

Init ==
    /\ settings = Defaults /\ edited = {} /\ phase = "edit"
    /\ started = [x \in Services |-> "no"]

Edit(f, v) ==
    /\ phase = "edit" /\ f \notin edited /\ Cardinality(edited) < MaxEdits
    /\ settings' = [settings EXCEPT ![f] = v] /\ edited' = edited \cup {f}
    /\ UNCHANGED <<phase, started>>

-----------------------------------------------------------------------------
(* A secret is its inline length, its file and the length of the file's text *)
resolve_secret(x) == IF x.file = "none" THEN x.inline ELSE x.text

Readable(x) == x.file = "none" \/ (x.file = "good" /\ x.inline = 0 /\ x.text \in 1..4096)

resolve_public_secret(s) ==
    IF s.public THEN resolve_secret(s.public_secret) ELSE s.public_secret.inline

SecretFilesRead(s) ==
    /\ \A x \in {s.hmac, s.access_key, s.secret_key} : Readable(x)
    /\ s.public => Readable(s.public_secret)

Saturating(n) == Min({n, Word})

MiB == 1024 * 1024

ServerValid(s) ==
    /\ s.body \in 1..(16 * MiB)
    /\ s.rate > 0 /\ s.rate <= 10000
    /\ s.burst \in s.rate..100000 /\ s.in_flight \in 1..1024

AuthValid(s) ==
    /\ s.key_id \in 1..128 /\ s.tenant \in {"identifier", "phrase"}
    /\ resolve_secret(s.hmac) \in 32..256 /\ s.skew <= 900

validate_provider_contract(s) ==
    /\ s.endpoint \in {"none", "account", "https", "loopback"}
    /\ CASE s.provider = "r2" -> s.endpoint = "account" /\ s.region = "auto" /\ ~s.path_style
         [] s.provider = "aws-s3" ->
              s.endpoint = "none" /\ s.region \in {"lower", "Capitals"} /\ ~s.path_style
         [] s.provider = "lightsail" ->
              /\ s.endpoint = "none" /\ s.region \in {"lower", "Capitals"} /\ ~s.path_style
              /\ s.one_bucket
         [] s.provider = "generic" -> s.endpoint # "none"

(* The authorities hold the bucket, except with path-style requests, and the
   region, except with an endpoint; capitals are refused *)
AuthoritiesDerived(s) ==
    IF s.provider \in {"r2", "generic"}
      THEN s.endpoint # "none" /\ (s.path_style \/ s.bucket = "lower")
      ELSE s.bucket = "lower" /\ s.region # "Capitals"

StorageValid(s) ==
    /\ s.bucket # "empty"
    /\ resolve_secret(s.access_key) \in 1..256 /\ resolve_secret(s.secret_key) \in 1..1024
    /\ validate_provider_contract(s) /\ AuthoritiesDerived(s)

UploadValid(s) ==
    /\ s.batch_files \in 1..100
    /\ \A n \in {s.batch_bytes, s.image, s.video, s.threshold} : n > 0
    /\ s.part_size >= MinPart
    /\ s.active_of \in s.batch_files..s.active
    /\ s.reserved_of \in s.batch_bytes..s.reserved /\ s.reserved <= Word \div 2

WorkerValid_RenewsTwice(s) ==
    /\ s.jobs \in 1..32 /\ s.heavy \in 1..s.jobs /\ s.videos \in 1..s.jobs /\ s.threads \in 1..16
    /\ \A n \in {s.image_timeout, s.video_timeout, s.heartbeat, s.retry, s.attempts} : n > 0
    /\ s.lease >= Saturating(2 * s.heartbeat)
    /\ s.output \in 1024..MiB /\ s.temp_disk <= DiskCap
    /\ s.temp_disk >=
         Saturating(Saturating(Max({s.video, s.image}) + Saturating(2 * s.image)) + Watermark)

WorkerValid(s) ==
    /\ s.jobs \in 1..32 /\ s.heavy \in 1..s.jobs /\ s.videos \in 1..s.jobs /\ s.threads \in 1..16
    /\ \A n \in {s.image_timeout, s.video_timeout, s.heartbeat, s.retry, s.attempts} : n > 0
    /\ s.lease > Saturating(2 * s.heartbeat)
    /\ s.output \in 1024..MiB /\ s.temp_disk <= DiskCap
    /\ s.temp_disk >=
         Saturating(Saturating(Max({s.video, s.image}) + Saturating(2 * s.image)) + Watermark)

DatabaseValid(s) == s.connections \in 1..16 /\ s.retention \in 2..365

WatermarkValid(s) ==
    s.watermark =>
      /\ s.video_timeout >= 4 /\ s.pinned /\ s.revision \in 1..32
      /\ s.margin <= 1024 /\ s.width \in 1..50 /\ s.opacity \in 1..100

Day == 86400

LifecycleValid(s) ==
    /\ s.reservation_ttl \in 1..(7 * Day) /\ s.rejected \in 1..(90 * Day)
    /\ s.cleanup_lease \in 1..3600 /\ s.cleanup_retry \in 1..Day
    /\ s.cleanup_batch \in 1..100 /\ s.cleanup_attempts \in 1..100
    /\ s.grace \in 3600..(30 * Day) /\ s.page \in 1..1000 /\ s.pages \in 1..100
    /\ s.tombstone \in (30 * Day)..(3650 * Day) /\ s.purge \in 1..1000

DeliveryValid(s) ==
    LET secret == resolve_public_secret(s) IN
    /\ s.url_ttl \in 30..900 /\ s.manifest_ttl \in 1..Min({300, s.url_ttl})
    /\ s.cache_bytes \in 65536..(64 * MiB)
    /\ s.public => ~s.same_bind
    /\ s.token_ttl >= 30 /\ s.token_ttl <= 3600
    /\ s.public_rate > 0 /\ s.public_rate <= 10000
    /\ s.public_burst \in s.public_rate..100000 /\ s.public_in_flight \in 1..1024
    /\ secret \in 32..256 \/ (~s.public /\ secret = 0)

Valid(s) ==
    /\ SecretFilesRead(s) /\ ServerValid(s) /\ AuthValid(s) /\ StorageValid(s) /\ UploadValid(s)
    /\ WorkerValid(s) /\ DatabaseValid(s) /\ WatermarkValid(s) /\ LifecycleValid(s)
    /\ DeliveryValid(s)

load ==
    /\ phase = "edit" /\ phase' = IF Valid(settings) THEN "loaded" ELSE "refused"
    /\ UNCHANGED <<settings, edited, started>>

-----------------------------------------------------------------------------
(* The policies the services check when they are built *)
LifecyclePolicyValid(s) ==
    /\ s.reservation_ttl \in 1..(7 * Day) /\ s.rejected \in 1..(90 * Day)
    /\ s.cleanup_lease \in 1..3600 /\ s.cleanup_retry \in 1..Day
    /\ s.cleanup_batch \in 1..100 /\ s.cleanup_attempts \in 1..100
    /\ s.tombstone \in (30 * Day)..(3650 * Day) /\ s.purge \in 1..1000

InventoryPolicyValid(s) == s.grace \in 3600..(30 * Day) /\ s.page \in 1..1000 /\ s.pages \in 1..100

DeliveryPolicyValid(s) ==
    /\ s.url_ttl \in 30..900 /\ s.manifest_ttl \in 1..300 /\ s.manifest_ttl <= s.url_ttl
    /\ s.cache_bytes \in 65536..(64 * MiB) /\ AuthoritiesDerived(s)

PublicStateValid(s) ==
    /\ s.tenant = "identifier" /\ resolve_public_secret(s) \in 32..256
    /\ s.token_ttl >= 30 /\ s.token_ttl <= 3600
    /\ s.public_rate > 0 /\ s.public_rate <= 10000
    /\ s.public_burst \in s.public_rate..100000 /\ s.public_in_flight \in 1..1024

RateLimitPolicyValid(s) ==
    /\ s.rate > 0 /\ s.rate <= 10000
    /\ s.burst \in s.rate..100000 /\ s.in_flight \in 1..1024

SandboxProbeValid(s) ==
    /\ s.image_timeout > 0 /\ s.video_timeout > 0 /\ s.threads \in 1..16
    /\ s.output \in 1024..MiB

(* checked_mul and checked_add: an overflow is no answer, which refuses *)
TempDiskSuffices(s) ==
    LET required == 2 * s.image + Max({s.image, s.video}) + Watermark IN
    required <= Word /\ s.temp_disk >= required

WorkerPolicyValid(s) ==
    /\ s.lease > 2 * s.heartbeat /\ s.heartbeat > 0 /\ s.retry > 0 /\ s.attempts > 0
    /\ s.heavy \in 1..32 /\ s.videos \in 1..32 /\ s.image > 0 /\ s.video > 0
    /\ TempDiskSuffices(s) /\ s.temp_disk <= DiskCap
    /\ s.watermark =>
         /\ s.pinned /\ s.revision \in 1..32 /\ s.margin <= 1024
         /\ s.width \in 1..50 /\ s.opacity \in 1..100

(* create_batch checks the tenant and the capacity policy on every call; a
   batch within the request limits has to find room on an idle node *)
FirstBatchAdmitted(s) ==
    /\ s.tenant = "identifier"
    /\ s.active > 0 /\ s.active_of \in 1..s.active
    /\ s.reserved \in 1..(Word \div 2) /\ s.reserved_of \in 1..s.reserved
    /\ s.batch_files <= s.active_of /\ s.batch_bytes <= s.reserved_of

Starts(x, s) ==
    CASE x = "api" ->
           /\ LifecyclePolicyValid(s) /\ DeliveryPolicyValid(s) /\ RateLimitPolicyValid(s)
           /\ validate_provider_contract(s)
           /\ s.public => PublicStateValid(s)
      [] x = "worker" ->
           validate_provider_contract(s) /\ SandboxProbeValid(s) /\ WorkerPolicyValid(s)
      [] x = "cleanup" -> validate_provider_contract(s) /\ LifecyclePolicyValid(s)
      [] x = "inventory" -> validate_provider_contract(s) /\ InventoryPolicyValid(s)
      [] x = "batch" -> FirstBatchAdmitted(s)

StartServices ==
    /\ phase = "loaded" /\ phase' = "started"
    /\ started' = [x \in Services |-> IF Starts(x, settings) THEN "up" ELSE "refused"]
    /\ UNCHANGED <<settings, edited>>

Next ==
    \/ \E f \in DOMAIN Values : \E v \in Values[f] : Edit(f, v)
    \/ load
    \/ StartServices

Spec == Init /\ [][Next]_vars

-----------------------------------------------------------------------------
(* Settings that load() accepts start every service, and a full batch finds
   room on an idle node: the limits written twice agree, at every boundary and
   where arithmetic saturates in one place and is checked in the other.  The
   exception is a tenant id that is no identifier: load() accepts it, the
   public listener and every batch refuse it. *)
AcceptedStarts ==
    \A x \in Services : started[x] = "refused" => settings.tenant = "phrase"
=============================================================================
