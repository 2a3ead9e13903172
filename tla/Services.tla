------------------------------ MODULE Services ------------------------------
(***************************************************************************)
(* The parts of the two services that keep no state in common, put side by *)
(* side so that one specification speaks of all of them.  `part` is chosen *)
(* in the initial state: that part runs, and the others are off.  A        *)
(* behaviour of this specification is a behaviour of one part.             *)
(***************************************************************************)
EXTENDS Integers, Sequences

VARIABLE part

CONSTANTS
    Tenants, BatchCalls, Ids, Lengths, BatchLength, MaxFiles, MaxFileBytes, MaxBatchBytes,
    Threshold, MaxActive, MaxActiveOf, MaxBytes, MaxBytesOf, MaxProviderFaults, MaxCuts

VARIABLES reserved, used, usedBy, open, batch, drawn, stranded, provFaults, cuts

Reserving == INSTANCE Reservation WITH Calls <- BatchCalls, row <- reserved, call <- batch

CONSTANTS MaxLength, MinPart, MaxParts, PartSizes, ByteCap, MaxTries

VARIABLES length, partSize, signed, held, stored, copied, tries

Transfer == INSTANCE MultipartTransfer WITH part <- held, file <- copied

CONSTANTS Viewers, UrlTtl, RequestTimeout, MaxServingTime

VARIABLES row, pending, cached, loaded, req, handler, gone, clock

Serving == INSTANCE Delivery WITH Requests <- Viewers, MaxTime <- MaxServingTime

CONSTANT Timeout

VARIABLES args, step, waits, running, started, begun, file, verdict, elapsed

Process == INSTANCE Sandbox WITH clock <- elapsed

CONSTANTS
    Tracks, Prefixes, Base, StartCode, MaxSamples, MaxSampleBytes, MaxDecodeBytes, MaxNals,
    MaxErrors

VARIABLES track, prefix, at, sync, bytes, errors, units, fed, result

Fallback == INSTANCE H264Fallback

CONSTANTS Edge, Margin, Percents, MaxEdges, Brands, Thousand, Kept, Ten, MaxSeconds

VARIABLES case, answer

Rules == INSTANCE MediaRules

CONSTANTS
    Calls, Messages, MessageOf, Stamps, Rate, Burst, Second, MaxInFlight, Skew, Deadline, MaxTime

VARIABLES
    tokens, refilled_at, permits, nonces, stamp, call, admitted, executed, refused, now

Gate == INSTANCE Admission WITH clock <- now

CONSTANTS Assets, None, Callers, Jobs, MaxRevision

VARIABLES snapshots, asset, publication, job, named

Policy == INSTANCE SitePolicy WITH row <- asset, call <- publication

ASSUME ServicesAssumption ==
    /\ Reserving!CapacityAssumption /\ Transfer!LayoutAssumption /\ Serving!DeliveryAssumption
    /\ Process!SandboxAssumption /\ Fallback!FallbackAssumption /\ Rules!RulesAssumption
    /\ Gate!AdmissionAssumption

-----------------------------------------------------------------------------
(* The variables of each part *)
reserving == <<reserved, used, usedBy, open, batch, drawn, stranded, provFaults, cuts>>
transfer == <<length, partSize, signed, held, stored, copied, tries>>
serving == <<row, pending, cached, loaded, req, handler, gone, clock>>
process == <<args, step, waits, running, started, begun, file, verdict, elapsed>>
fallback == <<track, prefix, at, sync, bytes, errors, units, fed, result>>
rules == <<case, answer>>
gate == <<tokens, refilled_at, permits, nonces, stamp, call, admitted, executed, refused, now>>
policy == <<snapshots, asset, publication, job, named>>

(* A part that is off *)
ReservingOff ==
    /\ reserved = 0 /\ used = 0 /\ usedBy = 0 /\ open = 0 /\ batch = 0 /\ drawn = 0
    /\ stranded = 0 /\ provFaults = 0 /\ cuts = 0
TransferOff ==
    /\ length = 0 /\ partSize = 0 /\ signed = 0 /\ held = 0 /\ stored = 0 /\ copied = 0
    /\ tries = 0
ServingOff ==
    /\ row = 0 /\ pending = 0 /\ cached = 0 /\ loaded = 0 /\ req = 0 /\ handler = 0
    /\ gone = 0 /\ clock = 0
ProcessOff ==
    /\ args = 0 /\ step = 0 /\ waits = 0 /\ running = 0 /\ started = 0 /\ begun = 0
    /\ file = 0 /\ verdict = 0 /\ elapsed = 0
FallbackOff ==
    /\ track = 0 /\ prefix = 0 /\ at = 0 /\ sync = 0 /\ bytes = 0 /\ errors = 0
    /\ units = 0 /\ fed = 0 /\ result = 0
RulesOff == case = 0 /\ answer = 0
GateOff ==
    /\ tokens = 0 /\ refilled_at = 0 /\ permits = 0 /\ nonces = 0 /\ stamp = 0 /\ call = 0
    /\ admitted = 0 /\ executed = 0 /\ refused = 0 /\ now = 0
PolicyOff == snapshots = 0 /\ asset = 0 /\ publication = 0 /\ job = 0 /\ named = 0

(* Part p is the one that runs, or it is off *)
Chosen(p, On, Off) == IF part = p THEN On ELSE Off

Init ==
    /\ part \in {"reservation", "transfer", "delivery", "sandbox", "fallback", "rules",
                 "admission", "policy"}
    /\ Chosen("reservation", Reserving!Init, ReservingOff)
    /\ Chosen("transfer", Transfer!Init, TransferOff)
    /\ Chosen("delivery", Serving!Init, ServingOff)
    /\ Chosen("sandbox", Process!Init, ProcessOff)
    /\ Chosen("fallback", Fallback!Init, FallbackOff)
    /\ Chosen("rules", Rules!Init, RulesOff)
    /\ Chosen("admission", Gate!Init, GateOff)
    /\ Chosen("policy", Policy!Init, PolicyOff)

v == <<part, reserving, transfer, serving, process, fallback,
       rules, gate, policy>>

Reserve ==
    /\ part = "reservation" /\ Reserving!Next
    /\ UNCHANGED <<part, transfer, serving, process, fallback, rules,
                   gate, policy>>
Send ==
    /\ part = "transfer" /\ Transfer!Next
    /\ UNCHANGED <<part, reserving, serving, process, fallback, rules,
                   gate, policy>>
Serve ==
    /\ part = "delivery" /\ Serving!Next
    /\ UNCHANGED <<part, reserving, transfer, process, fallback, rules,
                   gate, policy>>
Probe ==
    /\ part = "sandbox" /\ Process!Next
    /\ UNCHANGED <<part, reserving, transfer, serving, fallback, rules,
                   gate, policy>>
Decode ==
    /\ part = "fallback" /\ Fallback!Next
    /\ UNCHANGED <<part, reserving, transfer, serving, process, rules,
                   gate, policy>>
Decide ==
    /\ part = "rules" /\ Rules!Next
    /\ UNCHANGED <<part, reserving, transfer, serving, process, fallback,
                   gate, policy>>
Admit ==
    /\ part = "admission" /\ Gate!Next
    /\ UNCHANGED <<part, reserving, transfer, serving, process, fallback,
                   rules, policy>>
Publish ==
    /\ part = "policy" /\ Policy!Next
    /\ UNCHANGED <<part, reserving, transfer, serving, process, fallback,
                   rules, gate>>

Next == Reserve \/ Send \/ Serve \/ Probe \/ Decode \/ Decide \/ Admit \/ Publish

Spec == Init /\ [][Next]_v

-----------------------------------------------------------------------------
(* Reservation: the caps hold and the counters agree with the rows. *)
CapacityKept == part = "reservation" => Reserving!CapacityKept

(* Reservation: a failed batch closes what it opened, and only that. *)
SessionsOwned == part = "reservation" => Reserving!SessionsOwned

(* MultipartTransfer: no length is off between layout, object and copy. *)
TransferExact == part = "transfer" => Transfer!TransferExact

(* Delivery: a deletion ends delivery, for links in bounded time. *)
DeletionEndsDelivery == part = "delivery" => Serving!DeletionEndsDelivery

(* Sandbox: what the worker accepts is whole, within its share of the time. *)
RenderingSound == part = "sandbox" => Process!RenderingSound

(* H264Fallback: the decoder is given the sample, within the limits. *)
DecoderInputSound == part = "fallback" => Fallback!DecoderInputSound

(* MediaRules: no placement or size leaves the image. *)
SizesSound == part = "rules" => Rules!SizesSound

(* MediaRules: brands in any order, and durations that round up. *)
ReadingsSound == part = "rules" => Rules!ReadingsSound

(* Admission: the token bucket keeps its rate and permits come back. *)
LimitsHold == part = "admission" => Gate!LimitsHold

(* Admission: a duplicate is executed no sooner than the skew later. *)
DuplicatesFarApart == part = "admission" => Gate!DuplicatesFarApart

(* SitePolicy: an answer of published or unchanged is never taken back. *)
AnswersHold == part = "policy" => Policy!AnswersHold

(* SitePolicy: a job is rendered with the policy it was pinned to. *)
PinnedPolicyDrawn == part = "policy" => Policy!PinnedPolicyDrawn

(* SitePolicy: an upload in good standing that a revision names stays. *)
WatermarkKept == [][part = "policy" => Policy!KeepsWatermark]_v
=============================================================================
