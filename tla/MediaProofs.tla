----------------------------- MODULE MediaProofs -----------------------------
(***************************************************************************)
(* What Sandbox promises, for every limit: the worker accepts only a whole *)
(* derivative that nothing writes to any more, and the two attempts at a   *)
(* poster leave half of the time for its watermark.  And what MediaRules   *)
(* promises, for every size, file and duration: no placement and no        *)
(* derivative leaves the image, the order of brands does not matter, and   *)
(* a duration is rounded up by less than a unit.  And what H264Fallback    *)
(* gives the decoder: the samples, whole, and within the limits.           *)
(***************************************************************************)
EXTENDS Services, Sums

Slots == {"frame", "ppm", "poster"}

Contents == {"none", "partial", "empty", "whole"}

ProcessSteps ==
    {"spawned", "inspect", "ffprobe", "fast", "exact", "h264", "overlay", "ok", "err", "gone",
     "killed"}

ProcessTypeOK ==
    /\ args \in Process!Arguments
    /\ step \in ProcessSteps
    /\ waits \in BOOLEAN
    /\ running \in Nat /\ started \in Nat /\ begun \in Nat /\ elapsed \in Nat
    /\ DOMAIN file = Slots /\ file["frame"] \in Contents /\ file["poster"] \in Contents
    /\ verdict \in {"none", "transient", "permanent", "operational", "ok"}

(* A step belongs to the command that reaches it *)
StepsMatch ==
    /\ step = "inspect" => args.op = "probe_image"
    /\ step = "ffprobe" => args.op = "probe_video"
    /\ step \in {"fast", "exact", "h264"} => args.op = "poster"
    /\ verdict = "none" <=> step \notin {"gone", "killed"}

(* Only a sandbox that dies or is killed leaves the program it started *)
NothingStray ==
    /\ waits => step \in Process!Tools
    /\ step \notin {"err", "gone", "killed"} => running = IF waits THEN 1 ELSE 0

(* Success is reported with a whole file, an empty one or none *)
ReportedWhole == step = "ok" /\ Process!Renders => file["poster"] # "partial"

(* Each of the two attempts under a watermark has a quarter of the limit *)
Quarter == (Timeout \div 2) \div 2

AttemptsShare ==
    args.op = "poster" /\ args.watermark =>
      /\ step = "fast" /\ ~waits => elapsed = begun
      /\ step = "fast" /\ waits => started = begun /\ elapsed - begun \in 0..Quarter
      /\ step = "exact" /\ ~waits => elapsed - begun \in 0..Quarter
      /\ step = "exact" /\ waits => started - begun \in 0..Quarter /\ elapsed - started \in 0..Quarter

ProcessInv ==
    /\ ProcessTypeOK /\ StepsMatch /\ NothingStray /\ ReportedWhole /\ AttemptsShare
    /\ Process!AcceptedIsWhole

LEMMA QuarterType == Timeout \in Nat /\ Quarter \in Nat /\ Quarter + Quarter <= Timeout \div 2
<1>1. Timeout \in Nat
  BY ServicesAssumption DEF Process!SandboxAssumption
<1>2. \A n \in Nat : n \div 2 \in Nat /\ (n \div 2) + (n \div 2) <= n
  OBVIOUS
<1>3. Timeout \div 2 \in Nat
  BY <1>1, <1>2
<1> QED BY <1>1, <1>2, <1>3 DEF Quarter

LEMMA ProcessInit == Process!Init => ProcessInv
<1> SUFFICES ASSUME Process!Init PROVE ProcessInv
  OBVIOUS
<1> USE DEF Process!Init
<1>1. ProcessTypeOK
  BY DEF ProcessTypeOK, ProcessSteps, Slots, Contents
<1> QED
  BY <1>1 DEF ProcessInv, StepsMatch, NothingStray, ReportedWhole, AttemptsShare,
    Process!AcceptedIsWhole, Process!Tools

LEMMA TargetPlace == ProcessTypeOK => Process!Target \in {"frame", "poster"}
  BY DEF Process!Target

(* A failed attempt at a poster leads to the second attempt, the fallback or an error *)
LEMMA FailureLeads ==
    ASSUME ProcessTypeOK, StepsMatch, step \in Process!Tools, NEW cause, NEW left \in Contents,
           Process!AttemptFails(cause, left)
    PROVE  /\ DOMAIN file' = Slots /\ file'["frame"] \in Contents /\ file'["poster"] \in Contents
           /\ step' \in {"exact", "h264", "err"}
           /\ step' \in {"exact", "h264"} => args.op = "poster"
           /\ step' = "exact" => step = "fast"
<1>1. /\ step' \in {"exact", "h264", "err"}
      /\ step' \in {"exact", "h264"} => args.op = "poster"
      /\ step' = "exact" => step = "fast"
  <2>1. step' = Process!AfterFailure(cause)
    BY DEF Process!AttemptFails
  <2>2. CASE step = "fast"
    BY <2>1, <2>2 DEF Process!AfterFailure, StepsMatch
  <2>3. CASE step # "fast" /\ step = "exact" /\ cause = "spawn" /\ args.fallback
    BY <2>1, <2>3 DEF Process!AfterFailure, StepsMatch
  <2>4. CASE step # "fast" /\ ~(step = "exact" /\ cause = "spawn" /\ args.fallback)
    BY <2>1, <2>4 DEF Process!AfterFailure, StepsMatch
  <2> QED BY <2>2, <2>3, <2>4
<1>2. DOMAIN file' = Slots /\ file'["frame"] \in Contents /\ file'["poster"] \in Contents
  BY TargetPlace DEF Process!AttemptFails, ProcessTypeOK, Slots, Contents
<1> QED BY <1>1, <1>2

LEMMA ProcessStep == ProcessInv /\ [Process!Next]_(Process!vars) => ProcessInv'
<1> SUFFICES ASSUME ProcessInv, [Process!Next]_(Process!vars) PROVE ProcessInv'
  OBVIOUS
<1> USE DEF ProcessInv
<1>q. Timeout \in Nat /\ Quarter \in Nat /\ Quarter + Quarter <= Timeout \div 2
  BY QuarterType
<1>1. CASE Process!Begin
  <2>1. /\ step' \in {"inspect", "ffprobe", "overlay", "fast"}
        /\ step' = "inspect" => args.op = "probe_image"
        /\ step' = "ffprobe" => args.op = "probe_video"
        /\ step' = "fast" => args.op = "poster"
    BY <1>1 DEF Process!Begin, ProcessTypeOK, Process!Arguments
  <2>2. /\ begun' = elapsed /\ step = "spawned" /\ verdict = "none"
        /\ UNCHANGED <<args, waits, running, started, file, verdict, elapsed>>
    BY <1>1 DEF Process!Begin
  <2>3. ProcessTypeOK' /\ StepsMatch'
    BY <2>1, <2>2 DEF ProcessTypeOK, ProcessSteps, StepsMatch
  <2>4. ~waits /\ running = 0
    BY <2>2 DEF NothingStray, Process!Tools, ProcessTypeOK
  <2>5. NothingStray' /\ ReportedWhole' /\ AttemptsShare' /\ Process!AcceptedIsWhole'
    BY <2>1, <2>2, <2>4, <1>q DEF NothingStray, ReportedWhole, AttemptsShare,
      Process!AcceptedIsWhole, ProcessTypeOK
  <2> QED BY <2>3, <2>5
<1>2. CASE Process!StartTool
  <2>1. /\ waits' /\ running' = running + 1 /\ started' = elapsed /\ step \in Process!Tools /\ ~waits
        /\ UNCHANGED <<args, step, begun, file, verdict, elapsed>> /\ waits' \in BOOLEAN
    BY <1>2 DEF Process!StartTool
  <2>2. ProcessTypeOK' /\ StepsMatch'
    BY <2>1 DEF ProcessTypeOK, StepsMatch
  <2>3. NothingStray' /\ ReportedWhole' /\ Process!AcceptedIsWhole'
    BY <2>1 DEF NothingStray, ReportedWhole, Process!AcceptedIsWhole, Process!Tools, StepsMatch, ProcessTypeOK,
      Process!Renders
  <2>4. AttemptsShare'
    BY <2>1, <1>q DEF AttemptsShare, ProcessTypeOK, Process!Tools
  <2> QED BY <2>2, <2>3, <2>4
<1>3. ASSUME step \in Process!Tools, ~waits', running' = 0,
             NEW cause, NEW left \in Contents, Process!AttemptFails(cause, left),
             UNCHANGED <<args, begun, verdict, elapsed>>, started' = started, waits' = FALSE,
             step = "fast" /\ args.watermark => elapsed - begun \in 0..Quarter
      PROVE  ProcessInv'
  <2>1. /\ DOMAIN file' = Slots /\ file'["frame"] \in Contents /\ file'["poster"] \in Contents
        /\ step' \in {"exact", "h264", "err"}
        /\ step' \in {"exact", "h264"} => args.op = "poster"
        /\ step' = "exact" => step = "fast"
    BY <1>3, FailureLeads
  <2>2. ProcessTypeOK'
    BY <1>3, <2>1 DEF ProcessTypeOK, ProcessSteps
  <2>3. StepsMatch' /\ NothingStray' /\ ReportedWhole' /\ Process!AcceptedIsWhole'
    BY <1>3, <2>1 DEF StepsMatch, NothingStray, ReportedWhole, Process!AcceptedIsWhole, Process!Tools
  <2>4. AttemptsShare'
    BY <1>3, <2>1 DEF AttemptsShare
  <2> QED BY <2>2, <2>3, <2>4
<1>4. step = "fast" /\ args.watermark => elapsed - begun \in 0..Quarter
  BY <1>q DEF AttemptsShare, StepsMatch, ProcessTypeOK
<1>5. CASE Process!CannotStart
  <2>1. running' = 0 /\ waits' = FALSE
    BY <1>5 DEF Process!CannotStart, NothingStray, Process!Tools, ProcessTypeOK
  <2>2. "none" \in Contents
    BY DEF Contents
  <2> QED BY <1>3, <1>4, <1>5, <2>1, <2>2 DEF Process!CannotStart
<1>6. ASSUME waits PROVE step \in Process!Tools /\ running = 1
  BY <1>6 DEF NothingStray, Process!Tools
<1>7. CASE Process!ToolWrites
  <2>1. /\ DOMAIN file' = Slots /\ file'["frame"] \in Contents /\ file'["poster"] \in Contents
        /\ running > 0 /\ UNCHANGED <<args, step, waits, running, started, begun, verdict, elapsed>>
    BY <1>7, TargetPlace DEF Process!ToolWrites, ProcessTypeOK, Slots, Contents
  <2>2. step # "ok" /\ verdict # "ok"
    BY <2>1 DEF NothingStray, Process!Tools, Process!AcceptedIsWhole, ProcessTypeOK
  <2> QED BY <2>1, <2>2 DEF ProcessTypeOK, StepsMatch, NothingStray, ReportedWhole,
    AttemptsShare, Process!AcceptedIsWhole
<1>8. CASE Process!ToolExits
  <2>1. waits /\ waits' = FALSE /\ running' = 0 /\ UNCHANGED <<args, started, begun, verdict, elapsed>>
        /\ step \in Process!Tools
    BY <1>8, <1>6 DEF Process!ToolExits
  <2>2. CASE \E left \in {"none", "partial"} : Process!AttemptFails("exit", left)
    <3>1. PICK left \in Contents : Process!AttemptFails("exit", left)
      BY <2>2 DEF Contents
    <3> QED BY <1>3, <1>4, <2>1, <3>1
  <2>3. CASE /\ step' = IF args.op = "poster" /\ args.watermark THEN "overlay" ELSE "ok"
             /\ file' = IF args.op = "poster" THEN [file EXCEPT ![Process!Target] = "whole"]
                                              ELSE file
    <3>1. DOMAIN file' = Slots /\ file'["frame"] \in Contents /\ file'["poster"] \in Contents
      BY <2>3, TargetPlace DEF ProcessTypeOK, Slots, Contents
    <3>2. step' = "ok" /\ Process!Renders => file'["poster"] = "whole"
      BY <2>1, <2>3 DEF Process!Renders, StepsMatch, Process!Tools, Process!Target, ProcessTypeOK, Slots
    <3>3. step' \in {"overlay", "ok"}
      BY <2>3
    <3>4. ProcessTypeOK' /\ StepsMatch' /\ NothingStray'
      BY <2>1, <3>1, <3>3 DEF ProcessTypeOK, ProcessSteps, StepsMatch, NothingStray, Process!Tools
    <3>5. ReportedWhole' /\ AttemptsShare' /\ Process!AcceptedIsWhole'
      BY <2>1, <3>2, <3>3, <1>8 DEF ReportedWhole, AttemptsShare, Process!AcceptedIsWhole,
        Process!Renders, StepsMatch, Process!Tools, ProcessTypeOK
    <3> QED BY <3>4, <3>5
  <2> QED BY <1>8, <2>2, <2>3 DEF Process!ToolExits
<1>9. CASE Process!AttemptTimesOut
  <2>1. waits' = FALSE /\ running' = 0 /\ UNCHANGED <<args, started, begun, verdict, elapsed>>
        /\ step \in Process!Tools /\ Process!AttemptFails("timeout", file[Process!Target])
    BY <1>9, <1>6 DEF Process!AttemptTimesOut
  <2>2. file[Process!Target] \in Contents
    BY TargetPlace DEF ProcessTypeOK
  <2> QED BY <1>3, <1>4, <2>1, <2>2
<1>10. CASE Process!Fallback
  <2>1. /\ DOMAIN file' = Slots /\ file'["frame"] \in Contents /\ file'["poster"] = file["poster"]
        /\ step = "h264" /\ step' \in {"overlay", "err"}
        /\ UNCHANGED <<args, waits, running, started, begun, verdict, elapsed>>
    BY <1>10 DEF Process!Fallback, ProcessTypeOK, Slots, Contents
  <2>2. ~waits /\ running = 0
    BY <2>1 DEF NothingStray, Process!Tools, ProcessTypeOK
  <2> QED BY <2>1, <2>2 DEF ProcessTypeOK, ProcessSteps, StepsMatch, NothingStray,
    ReportedWhole, AttemptsShare, Process!AcceptedIsWhole
<1>11. CASE Process!Overlay
  <2>1. PICK done \in Contents :
          /\ step' \in CASE done = "whole"   -> {"ok"}
                         [] done = "partial" -> {"err"}
                         [] OTHER            -> {"ok", "err"}
          /\ file' = [frame |-> "none", ppm |-> "none", poster |-> done]
    BY <1>11 DEF Process!Overlay, Contents
  <2>2. /\ DOMAIN file' = Slots /\ file'["frame"] \in Contents /\ file'["poster"] = done
        /\ step' \in {"ok", "err"} /\ (step' = "ok" => done # "partial")
    BY <2>1 DEF Slots, Contents
  <2>3. step = "overlay" /\ UNCHANGED <<args, waits, running, started, begun, verdict, elapsed>>
    BY <1>11 DEF Process!Overlay
  <2>4. ~waits /\ running = 0
    BY <2>3 DEF NothingStray, Process!Tools, ProcessTypeOK
  <2> QED BY <2>2, <2>3, <2>4 DEF ProcessTypeOK, ProcessSteps, StepsMatch, NothingStray,
    ReportedWhole, AttemptsShare, Process!AcceptedIsWhole
<1>12. CASE Process!InspectImage
  <2>1. step' \in {"ok", "err"} /\ step = "inspect"
        /\ UNCHANGED <<args, waits, running, started, begun, file, verdict, elapsed>>
    BY <1>12 DEF Process!InspectImage
  <2>2. ~waits /\ running = 0 /\ ~Process!Renders
    BY <2>1 DEF NothingStray, Process!Tools, ProcessTypeOK, Process!Renders, StepsMatch
  <2> QED BY <2>1, <2>2 DEF ProcessTypeOK, ProcessSteps, StepsMatch, NothingStray,
    ReportedWhole, AttemptsShare, Process!AcceptedIsWhole, Process!Renders
<1>13. CASE Process!NotStarted
  BY <1>13 DEF Process!NotStarted, ProcessTypeOK, ProcessSteps, StepsMatch, NothingStray,
    ReportedWhole, AttemptsShare, Process!AcceptedIsWhole, Process!Tools
<1>14. CASE Process!SandboxExits
  <2>1. PICK noisy \in BOOLEAN : verdict' = Process!Classify(noisy)
    BY <1>14 DEF Process!SandboxExits
  <2>2. /\ step \in {"ok", "err"} /\ step' = "gone"
        /\ UNCHANGED <<args, waits, running, started, begun, file, elapsed>>
    BY <1>14 DEF Process!SandboxExits
  <2>3. verdict' \in {"transient", "permanent", "operational", "ok"}
    BY <2>1 DEF Process!Classify, Process!Unusable
  <2>4. verdict' = "ok" =>
          step = "ok" /\ (Process!Renders => file["poster"] \notin {"none", "empty"})
    BY <2>1, <2>2 DEF Process!Classify, Process!Unusable
  <2>5. ~waits /\ (step = "ok" => running = 0)
    BY <2>2 DEF NothingStray, Process!Tools, ProcessTypeOK
  <2>6. Process!AcceptedIsWhole'
    BY <2>2, <2>4, <2>5 DEF Process!AcceptedIsWhole, Process!Renders, ReportedWhole, ProcessTypeOK, Contents
  <2> QED BY <2>2, <2>3, <2>5, <2>6 DEF ProcessTypeOK, ProcessSteps, StepsMatch, NothingStray,
    ReportedWhole, AttemptsShare
<1>15. CASE Process!SandboxDies
  BY <1>15 DEF Process!SandboxDies, ProcessTypeOK, ProcessSteps, StepsMatch, NothingStray,
    ReportedWhole, AttemptsShare, Process!AcceptedIsWhole, Process!Tools
<1>16. CASE Process!WorkerTimesOut
  BY <1>16 DEF Process!WorkerTimesOut, ProcessTypeOK, ProcessSteps, StepsMatch, NothingStray,
    ReportedWhole, AttemptsShare, Process!AcceptedIsWhole, Process!Tools
<1>17. CASE Process!StrayExits
  <2>1. /\ running > (IF waits THEN 1 ELSE 0) /\ running' = running - 1
        /\ UNCHANGED <<args, step, waits, started, begun, file, verdict, elapsed>>
    BY <1>17 DEF Process!StrayExits
  <2>2. step \in {"err", "gone", "killed"} /\ running > 0
    BY <2>1 DEF NothingStray, ProcessTypeOK
  <2>3. verdict # "ok"
    BY <2>2 DEF Process!AcceptedIsWhole
  <2> QED BY <2>1, <2>2, <2>3 DEF ProcessTypeOK, StepsMatch, NothingStray, ReportedWhole,
    AttemptsShare, Process!AcceptedIsWhole, Process!Renders
<1>18. CASE Process!Tick
  <2>1. /\ elapsed' = elapsed + 1 /\ (step \in Process!Tools => waits) /\ verdict = "none"
        /\ UNCHANGED <<args, step, waits, running, started, begun, file, verdict>>
    BY <1>18 DEF Process!Tick
  <2>2. args.op = "poster" /\ args.watermark /\ waits => elapsed - started < Quarter
    BY <1>18 DEF Process!Tick, Process!AttemptLimit, Quarter
  <2>3. AttemptsShare'
    BY <2>1, <2>2, <1>q DEF AttemptsShare, ProcessTypeOK, Process!Tools
  <2> QED BY <2>1, <2>3 DEF ProcessTypeOK, StepsMatch, NothingStray, ReportedWhole,
    Process!AcceptedIsWhole, Process!Renders
<1>19. CASE UNCHANGED Process!vars
  BY <1>19 DEF Process!vars, ProcessTypeOK, StepsMatch, NothingStray, ReportedWhole,
    AttemptsShare, Process!AcceptedIsWhole, Process!Renders
<1> QED
  BY <1>1, <1>2, <1>5, <1>7, <1>8, <1>9, <1>10, <1>11, <1>12, <1>13, <1>14, <1>15, <1>16, <1>17,
    <1>18, <1>19 DEF Process!Next, Process!SandboxStep

LEMMA ProcessSound == ProcessInv => Process!RenderingSound
<1> SUFFICES ASSUME ProcessInv, args.op = "poster", args.watermark, step \in Process!Tools
             PROVE  elapsed - begun <= Timeout \div 2
  BY DEF ProcessInv, Process!RenderingSound, Process!ComposeHasHalf
<1>1. Timeout \in Nat /\ Timeout \div 2 \in Nat /\ Quarter \in Nat /\ Quarter + Quarter <= Timeout \div 2
  BY QuarterType
<1>2. step \in {"fast", "exact"} /\ elapsed \in Nat /\ begun \in Nat /\ started \in Nat
  BY DEF ProcessInv, StepsMatch, Process!Tools, ProcessTypeOK
<1> QED BY <1>1, <1>2 DEF ProcessInv, AttemptsShare

LEMMA ProcessPartInv == Spec => [](part = "sandbox" => ProcessInv)
<1>1. Init => (part = "sandbox" => ProcessInv)
  BY ProcessInit DEF Init, Chosen
<1>2. (part = "sandbox" => ProcessInv) /\ [Next]_v => (part = "sandbox" => ProcessInv)'
  <2> SUFFICES ASSUME part = "sandbox" => ProcessInv, [Next]_v, part' = "sandbox"
               PROVE  ProcessInv'
    OBVIOUS
  <2>1. part = "sandbox" /\ [Process!Next]_(Process!vars)
    BY DEF Next, v, process, Process!vars, Reserve, Send, Serve, Probe, Decode, Decide, Admit,
      Publish
  <2> QED BY <2>1, ProcessStep
<1> QED BY <1>1, <1>2, PTL DEF Spec

(* Whatever the programs do, a derivative the worker accepts (verdict "ok" of run_process,
   crates/g7mb-media) is whole and nothing of the call can still write to it; and while a
   poster is attempted under a watermark, no more than half of the limit has gone by. *)
THEOREM AcceptedRenderingIsWhole == Spec => []RenderingSound
<1>1. (part = "sandbox" => ProcessInv) => RenderingSound
  BY ProcessSound DEF RenderingSound
<1> QED BY <1>1, ProcessPartInv, PTL

-----------------------------------------------------------------------------
(* MediaRules.  Integer division, as far as the sizes need it. *)
LEMMA Division ==
    ASSUME NEW a \in Nat, NEW u \in Nat \ {0}
    PROVE  a \div u \in Nat /\ u * (a \div u) <= a /\ a < u * (a \div u) + u
  OBVIOUS

LEMMA TimesMonotone ==
    ASSUME NEW a \in Nat, NEW b \in Nat, NEW u \in Nat, a <= b
    PROVE  u * a <= u * b /\ u * a \in Nat /\ u * b \in Nat
  OBVIOUS

LEMMA TimesCancel ==
    ASSUME NEW a \in Nat, NEW b \in Nat, NEW u \in Nat \ {0}, u * a < u * b
    PROVE  a < b
  OBVIOUS

(* A share of n, no larger than the whole, takes no more than n *)
LEMMA Share ==
    ASSUME NEW n \in Nat, NEW a \in Nat, NEW u \in Nat \ {0}, a <= u
    PROVE  (n * a) \div u \in 0..n
<1>1. n * a \in Nat /\ n * a <= n * u /\ n * u \in Nat
  BY TimesMonotone
<1>2. PICK q : q = (n * a) \div u
  OBVIOUS
<1>3. q \in Nat /\ u * q <= n * a
  BY <1>1, <1>2, Division
<1>4. n * u < u * (n + 1) /\ u * q \in Nat
  <2>1. u * (n + 1) = n * u + u
    OBVIOUS
  <2> QED BY <1>1, <1>3, <2>1
<1>5. u * q < u * (n + 1)
  <2>1. u * (n + 1) \in Nat
    OBVIOUS
  <2> QED BY <1>1, <1>3, <1>4, <2>1
<1>6. q < n + 1
  BY <1>3, <1>5, TimesCancel
<1> QED BY <1>2, <1>3, <1>6

LEMMA LargerSize ==
    ASSUME NEW a \in Int, NEW b \in Int
    PROVE  Rules!Max({a, b}) = IF a >= b THEN a ELSE b
<1>1. \E x \in {a, b} : \A y \in {a, b} : x >= y
  OBVIOUS
<1> QED BY <1>1 DEF Rules!Max

LEMMA SmallerSize ==
    ASSUME NEW a \in Int, NEW b \in Int
    PROVE  Rules!Min({a, b}) = IF a <= b THEN a ELSE b
<1>1. \E x \in {a, b} : \A y \in {a, b} : x <= y
  OBVIOUS
<1> QED BY <1>1 DEF Rules!Min

LEMMA SmallestOfFour ==
    ASSUME NEW a \in Int, NEW b \in Int, NEW c \in Int, NEW d \in Int
    PROVE  LET m == Rules!Min({a, b, c, d})
           IN  m \in {a, b, c, d} /\ m <= a /\ m <= b /\ m <= c /\ m <= d
<1>1. \E x \in {a, b, c, d} : \A y \in {a, b, c, d} : x <= y
  <2>1. PICK x \in {a, b} : x <= a /\ x <= b
    OBVIOUS
  <2>2. PICK y \in {c, d} : y <= c /\ y <= d
    OBVIOUS
  <2>3. CASE x <= y
    <3>1. x \in {a, b, c, d} /\ \A z \in {a, b, c, d} : x <= z
      BY <2>1, <2>2, <2>3
    <3> QED BY <3>1
  <2>4. CASE y <= x
    <3>1. y \in {a, b, c, d} /\ \A z \in {a, b, c, d} : y <= z
      BY <2>1, <2>2, <2>4
    <3> QED BY <3>1
  <2> QED BY <2>3, <2>4
<1>2. PICK S : S = {a, b, c, d}
  OBVIOUS
<1>3. Rules!Min(S) \in S /\ \A y \in S : Rules!Min(S) <= y
  BY <1>1, <1>2 DEF Rules!Min
<1> QED BY <1>2, <1>3

(* To the nearest, between one and either factor that is no larger than the divisor *)
LEMMA ScaledWithin ==
    ASSUME NEW a \in Nat \ {0}, NEW b \in Nat \ {0}, NEW c \in Nat \ {0}
    PROVE  /\ b <= c => Rules!Scaled(a, b, c) \in 1..a
           /\ a <= c => Rules!Scaled(a, b, c) \in 1..b
<1>1. PICK n \in Nat : n = a * b
  OBVIOUS
<1>2. 2 * a * b + c = 2 * n + c /\ 2 * n + c \in Nat /\ 2 * c \in Nat \ {0}
  BY <1>1
<1>3. PICK q : q = (2 * n + c) \div (2 * c)
  OBVIOUS
<1>4. q \in Nat /\ (2 * c) * q <= 2 * n + c
  BY <1>2, <1>3, Division
<1>5. Rules!Scaled(a, b, c) = IF 1 >= q THEN 1 ELSE q
  <2>1. Rules!Scaled(a, b, c) = Rules!Max({1, q})
    BY <1>2, <1>3 DEF Rules!Scaled
  <2> QED BY <1>4, <2>1, LargerSize
<1>6. ASSUME NEW m \in Nat \ {0}, n <= m * c PROVE q <= m
  <2>1. m * c \in Nat /\ (2 * c) * (m + 1) = 2 * (m * c) + 2 * c /\ (2 * c) * (m + 1) \in Nat
    OBVIOUS
  <2>2. (2 * c) * q \in Nat
    BY <1>4
  <2>3. (2 * c) * q < (2 * c) * (m + 1)
    BY <1>4, <1>6, <2>1, <2>2
  <2>4. q < m + 1
    BY <1>2, <1>4, <2>3, TimesCancel
  <2> QED BY <1>4, <2>4
<1>7. b <= c => n <= a * c
  BY <1>1, TimesMonotone
<1>8. a <= c => n <= b * c
  <2>1. a * b = b * a
    OBVIOUS
  <2> QED BY <1>1, <2>1, TimesMonotone
<1> QED BY <1>4, <1>5, <1>6, <1>7, <1>8

LEMMA RulesConstants ==
    Edge \in Nat /\ Margin \in Nat /\ Percents \in SUBSET Nat /\ MaxEdges \in SUBSET (Nat \ {0})
  BY ServicesAssumption DEF Rules!RulesAssumption

(* The placement along one axis: a length that leaves both margins *)
LEMMA PlacedInside ==
    ASSUME NEW whole \in Nat, NEW margin \in Nat, NEW size \in Nat, size <= whole - 2 * margin,
           NEW at1 \in {(whole - size) \div 2, margin, whole - size - margin}
    PROVE  at1 >= margin /\ at1 + size + margin <= whole
  OBVIOUS

LEMMA PlacementInside ==
    ASSUME NEW q, q.bw \in Nat, q.bh \in Nat, q.ww \in Nat, q.wh \in Nat, q.margin \in Nat,
           q.percent \in Nat, Rules!plan_watermark(q) # Rules!Refused
    PROVE  LET p == Rules!plan_watermark(q) IN
           /\ p.width \in 1..q.ww /\ p.height \in 1..q.wh
           /\ p.x >= q.margin /\ p.x + p.width + q.margin <= q.bw
           /\ p.y >= q.margin /\ p.y + p.height + q.margin <= q.bh
<1> DEFINE w == Rules!Min({q.ww, q.bw - 2 * q.margin,
                           Rules!Max({1, (q.bw * q.percent) \div 100}),
                           (q.ww * (q.bh - 2 * q.margin)) \div q.wh})
           h == Rules!Max({1, (q.wh * w) \div q.ww})
<1>1. /\ ~(0 \in {q.bw, q.bh, q.ww, q.wh}) /\ ~(q.bw <= 2 * q.margin) /\ ~(q.bh <= 2 * q.margin)
      /\ w # 0 /\ ~(h > q.bh - 2 * q.margin)
  BY DEF Rules!plan_watermark
<1>2. PICK x : x = CASE q.position = "Center" -> (q.bw - w) \div 2
                     [] q.position \in {"TopLeft", "BottomLeft"} -> q.margin
                     [] OTHER -> q.bw - w - q.margin
  OBVIOUS
<1>3. PICK y : y = CASE q.position = "Center" -> (q.bh - h) \div 2
                     [] q.position \in {"TopLeft", "TopRight"} -> q.margin
                     [] OTHER -> q.bh - h - q.margin
  OBVIOUS
<1>4. Rules!plan_watermark(q) = [width |-> w, height |-> h, x |-> x, y |-> y]
  BY <1>1, <1>2, <1>3 DEF Rules!plan_watermark
<1>5. x \in {(q.bw - w) \div 2, q.margin, q.bw - w - q.margin}
  BY <1>2
<1>6. y \in {(q.bh - h) \div 2, q.margin, q.bh - h - q.margin}
  BY <1>3
<1>7. /\ q.bw \in Nat \ {0} /\ q.bh \in Nat \ {0} /\ q.ww \in Nat \ {0} /\ q.wh \in Nat \ {0}
      /\ q.bw - 2 * q.margin \in Nat \ {0} /\ q.bh - 2 * q.margin \in Nat \ {0}
  BY <1>1
<1>8. PICK c \in Nat : c = Rules!Max({1, (q.bw * q.percent) \div 100})
  <2>1. q.bw * q.percent \in Nat
    OBVIOUS
  <2>2. (q.bw * q.percent) \div 100 \in Nat
    BY <2>1, Division
  <2> QED BY <2>2, LargerSize
<1>9. PICK d \in Nat : d = (q.ww * (q.bh - 2 * q.margin)) \div q.wh
  <2>1. q.ww * (q.bh - 2 * q.margin) \in Nat
    BY <1>7
  <2> QED BY <1>7, <2>1, Division
<1>10. w = Rules!Min({q.ww, q.bw - 2 * q.margin, c, d})
  BY <1>8, <1>9
<1>11. w \in Nat \ {0} /\ w <= q.ww /\ w <= q.bw - 2 * q.margin
  <2>1. PICK a \in Nat, b \in Nat : a = q.ww /\ b = q.bw - 2 * q.margin
    BY <1>7
  <2>2. PICK m : m = Rules!Min({a, b, c, d})
    OBVIOUS
  <2>3. m \in {a, b, c, d} /\ m <= a /\ m <= b
    <3>1. a \in Int /\ b \in Int /\ c \in Int /\ d \in Int
      OBVIOUS
    <3> QED BY <2>2, <3>1, SmallestOfFour, Zenon
  <2>4. m = w
    BY <1>10, <2>1, <2>2
  <2> QED BY <1>1, <2>1, <2>3, <2>4
<1>12. h \in 1..q.wh /\ h <= q.bh - 2 * q.margin
  <2>1. (q.wh * w) \div q.ww \in 0..q.wh
    BY <1>7, <1>11, Share
  <2>2. h \in 1..q.wh
    <3>1. PICK k \in 0..q.wh : k = (q.wh * w) \div q.ww
      BY <2>1
    <3>2. h = Rules!Max({1, k})
      BY <3>1
    <3>3. Rules!Max({1, k}) = IF 1 >= k THEN 1 ELSE k
      BY <1>7, LargerSize
    <3> QED BY <1>7, <3>2, <3>3
  <2> QED BY <1>1, <1>7, <2>2
<1> HIDE DEF w, h
<1>13. x >= q.margin /\ x + w + q.margin <= q.bw
  BY <1>5, <1>7, <1>11, PlacedInside
<1>14. y >= q.margin /\ y + h + q.margin <= q.bh
  BY <1>6, <1>7, <1>12, PlacedInside
<1>15. w \in 1..q.ww
  BY <1>7, <1>11
<1> QED BY <1>4, <1>12, <1>13, <1>14, <1>15

(* The sizes libvips may answer are within the source *)
LEMMA ThumbnailWithin ==
    ASSUME NEW w \in Nat \ {0}, NEW h \in Nat \ {0}, NEW t \in 1..w,
           NEW size \in Rules!vips_thumbnail(w, h, t)
    PROVE  size.w \in 1..w /\ size.h \in 1..h
<1>1. CASE size = [w |-> t, h |-> Rules!Scaled(h, t, w)]
  <2>1. Rules!Scaled(h, t, w) \in 1..h
    <3>1. t \in Nat \ {0} /\ t <= w
      OBVIOUS
    <3> QED BY <3>1, ScaledWithin
  <2> QED BY <1>1, <2>1
<1>2. CASE h > w /\ size = [w |-> Rules!Scaled(w, t, h), h |-> t]
  <2>1. Rules!Scaled(w, t, h) \in 1..w
    <3>1. t \in Nat \ {0} /\ t <= h
      BY <1>2
    <3> QED BY <3>1, ScaledWithin
  <2> QED BY <1>2, <2>1
<1> QED BY <1>1, <1>2 DEF Rules!vips_thumbnail

LEMMA TargetWithin ==
    ASSUME NEW q, q.w \in Nat \ {0}, q.h \in Nat \ {0}, q.max \in Nat \ {0}
    PROVE  Rules!TargetWidth(q) \in 1..q.w
<1>1. PICK n \in Nat \ {0} : n = Rules!Max({q.w, q.h})
  BY LargerSize
<1>2. CASE n <= q.max
  BY <1>1, <1>2 DEF Rules!TargetWidth
<1>3. CASE ~(n <= q.max)
  <2>1. q.max <= n
    BY <1>3
  <2>2. (q.w * q.max) \div n \in 0..q.w
    BY <2>1, Share
  <2>3. PICK m \in 0..q.w : m = (q.w * q.max) \div n
    BY <2>2
  <2>4. Rules!TargetWidth(q) = Rules!Max({1, m})
    BY <1>1, <1>3, <2>3 DEF Rules!TargetWidth
  <2> QED BY <2>3, <2>4, LargerSize
<1> QED BY <1>2, <1>3

LEMMA DerivativeWithin ==
    ASSUME NEW q, q.w \in Nat, q.h \in Nat, q.max \in Nat \ {0},
           NEW d \in Rules!thumbnail(q), d # Rules!Refused
    PROVE  d.w \in 1..Rules!Min({q.w, q.max}) /\ d.h \in 1..Rules!Min({q.h, q.max})
<1>1. q.w \in Nat \ {0} /\ q.h \in Nat \ {0}
  BY DEF Rules!thumbnail
<1>2. PICK size \in Rules!vips_thumbnail(q.w, q.h, Rules!TargetWidth(q)) :
        d = Rules!Bounded(size, q.max)
  BY DEF Rules!thumbnail
<1>3. size.w \in 1..q.w /\ size.h \in 1..q.h
  BY <1>1, <1>2, TargetWithin, ThumbnailWithin
<1>4. PICK a \in Nat \ {0}, b \in Nat \ {0} : a = size.w /\ b = size.h
  BY <1>1, <1>3
<1>5. PICK n \in Nat \ {0} : n = Rules!Max({a, b}) /\ a <= n /\ b <= n
  BY LargerSize
<1>6. d.w \in 1..a /\ d.h \in 1..b /\ d.w <= q.max /\ d.h <= q.max
  <2>1. CASE n > q.max
    <3>1. d = [w |-> Rules!Scaled(a, q.max, n), h |-> Rules!Scaled(b, q.max, n)]
      BY <1>2, <1>4, <1>5, <2>1 DEF Rules!Bounded, Rules!resize
    <3>2. q.max <= n
      BY <2>1
    <3>3. Rules!Scaled(a, q.max, n) \in 1..a /\ Rules!Scaled(a, q.max, n) \in 1..q.max
      BY <1>5, <3>2, ScaledWithin
    <3>4. Rules!Scaled(b, q.max, n) \in 1..b /\ Rules!Scaled(b, q.max, n) \in 1..q.max
      BY <1>5, <3>2, ScaledWithin
    <3> QED BY <3>1, <3>3, <3>4
  <2>2. CASE ~(n > q.max)
    <3>1. d = size
      BY <1>2, <1>4, <1>5, <2>2 DEF Rules!Bounded
    <3> QED BY <1>4, <1>5, <2>2, <3>1
  <2> QED BY <2>1, <2>2
<1>7. /\ Rules!Min({q.w, q.max}) = IF q.w <= q.max THEN q.w ELSE q.max
      /\ Rules!Min({q.h, q.max}) = IF q.h <= q.max THEN q.h ELSE q.max
  BY <1>1, SmallerSize
<1> QED BY <1>1, <1>3, <1>4, <1>6, <1>7

(* One question, at most one answer: what the code says to it *)
Answered ==
    /\ case \in Rules!Questions
    /\ \/ answer = << >>
       \/ case.ask = "watermark" /\ answer = <<Rules!plan_watermark(case)>>
       \/ case.ask = "derivative" /\ \E d \in Rules!thumbnail(case) : answer = <<d>>
       \/ case.ask = "brands" /\ answer = <<Rules!detect_iso_bmff(case)>>
       \/ case.ask = "duration" /\ answer = <<Rules!parse_duration_ms(case)>>

RulesPartInv == part = "rules" => Answered

LEMMA RulesPart == Spec => []RulesPartInv
<1>1. Init => RulesPartInv
  BY DEF Init, Chosen, Rules!Init, RulesPartInv, Answered
<1>2. RulesPartInv /\ [Next]_v => RulesPartInv'
  <2> SUFFICES ASSUME part = "rules" => Answered, [Next]_v, part' = "rules"
               PROVE  Answered'
    BY DEF RulesPartInv
  <2>1. part = "rules" /\ [Rules!Next]_(Rules!vars)
    BY DEF Next, v, rules, Rules!vars, Reserve, Send, Serve, Probe, Decode, Decide, Admit,
      Publish
  <2>2. CASE Rules!Next
    <3>1. case' = case
      BY <2>2 DEF Rules!Next, Rules!Decide
    <3>2. CASE case.ask = "watermark" /\ answer' = <<Rules!plan_watermark(case)>>
      BY <2>1, <3>1, <3>2 DEF Answered, Rules!plan_watermark
    <3>3. ASSUME NEW d \in Rules!thumbnail(case), case.ask = "derivative", answer' = <<d>>
          PROVE  Answered'
      <4>1. Rules!thumbnail(case)' = Rules!thumbnail(case)
        BY <3>1 DEF Rules!thumbnail, Rules!TargetWidth, Rules!vips_thumbnail, Rules!Bounded, Rules!resize
      <4> QED BY <2>1, <3>1, <3>3, <4>1 DEF Answered
    <3>4. CASE case.ask = "brands" /\ answer' = <<Rules!detect_iso_bmff(case)>>
      <4>1. Rules!detect_iso_bmff(case)' = Rules!detect_iso_bmff(case)
        BY <3>1 DEF Rules!detect_iso_bmff
      <4> QED BY <2>1, <3>1, <3>4, <4>1 DEF Answered
    <3>5. CASE case.ask = "duration" /\ answer' = <<Rules!parse_duration_ms(case)>>
      <4>1. Rules!parse_duration_ms(case)' = Rules!parse_duration_ms(case)
        BY <3>1 DEF Rules!parse_duration_ms
      <4> QED BY <2>1, <3>1, <3>5, <4>1 DEF Answered
    <3> QED BY <2>2, <3>2, <3>3, <3>4, <3>5 DEF Rules!Next, Rules!Decide
  <2>3. CASE UNCHANGED Rules!vars
    BY <2>1, <2>3 DEF Rules!vars, Answered
  <2> QED BY <2>1, <2>2, <2>3
<1> QED BY <1>1, <1>2, PTL DEF Spec

(* MediaRules: for every size of image, asset, margin and percentage a watermark that is
   placed lies inside the image with its margins, and for every source and max_edge no edge
   of a derivative exceeds either or is zero, whatever integer division does. *)
THEOREM SizesStayInside == Spec => []SizesSound
<1>1. ASSUME Answered PROVE Rules!WatermarkInside
  <2> SUFFICES ASSUME case.ask = "watermark", answer # << >>, answer[1] # Rules!Refused
               PROVE  LET p == answer[1] IN
                      /\ p.width \in 1..case.ww /\ p.height \in 1..case.wh
                      /\ p.x >= case.margin /\ p.x + p.width + case.margin <= case.bw
                      /\ p.y >= case.margin /\ p.y + p.height + case.margin <= case.bh
    BY DEF Rules!WatermarkInside, Rules!Asked
  <2>1. answer[1] = Rules!plan_watermark(case)
    BY <1>1 DEF Answered
  <2>2. /\ case.bw \in Nat /\ case.bh \in Nat /\ case.ww \in Nat /\ case.wh \in Nat
        /\ case.margin \in Nat /\ case.percent \in Nat
    <3>1. case \in [ask : {"watermark"}, bw : 0..Edge, bh : 0..Edge, ww : 0..Edge, wh : 0..Edge,
                    margin : 0..Margin, percent : Percents, position : Rules!Positions]
      BY <1>1 DEF Answered, Rules!Questions
    <3>2. /\ case.bw \in 0..Edge /\ case.bh \in 0..Edge /\ case.ww \in 0..Edge
          /\ case.wh \in 0..Edge /\ case.margin \in 0..Margin /\ case.percent \in Percents
      BY <3>1
    <3>3. case.percent \in Nat
      BY <3>2, RulesConstants
    <3> QED BY ONLY <3>2, <3>3, RulesConstants
  <2> QED BY <2>1, <2>2, PlacementInside
<1>2. ASSUME Answered PROVE Rules!DerivativeFits
  <2> SUFFICES ASSUME case.ask = "derivative", answer # << >>, answer[1] # Rules!Refused
               PROVE  LET d == answer[1] IN
                      /\ d.w \in 1..Rules!Min({case.w, case.max})
                      /\ d.h \in 1..Rules!Min({case.h, case.max})
    BY DEF Rules!DerivativeFits, Rules!Asked
  <2>1. PICK d \in Rules!thumbnail(case) : answer = <<d>>
    BY <1>2 DEF Answered
  <2>2. case.w \in Nat /\ case.h \in Nat /\ case.max \in Nat \ {0}
    <3>1. case \in [ask : {"derivative"}, w : 0..(2 * Edge), h : 0..(2 * Edge), max : MaxEdges]
      BY <1>2 DEF Answered, Rules!Questions
    <3>2. case.w \in 0..(2 * Edge) /\ case.h \in 0..(2 * Edge) /\ case.max \in MaxEdges
      BY <3>1
    <3>3. case.max \in Nat \ {0}
      BY <3>2, RulesConstants
    <3> QED BY ONLY <3>2, <3>3, RulesConstants
  <2> QED BY <2>1, <2>2, DerivativeWithin
<1>3. RulesPartInv => SizesSound
  BY <1>1, <1>2 DEF RulesPartInv, SizesSound, Rules!SizesSound
<1> QED BY <1>3, RulesPart, PTL

-----------------------------------------------------------------------------
(* The brands of a file.  One brand after another, as the loop of detect_iso_bmff does. *)
Formats == {"none", "Avif", "Heif", "QuickTime", "Mp4"}

After(detected, brand) == IF detected = "Avif" THEN "Avif" ELSE Rules!Brand(detected, brand)

Loop(it, b, n) == it = [i \in 0..n |-> IF i = 0 THEN "none" ELSE After(it[i - 1], b[i])]

LEMMA BrandMeans ==
    ASSUME NEW d \in Formats, NEW x \in Rules!BrandNames
    PROVE  After(d, x) =
             IF d = "Avif" \/ x = "avif" THEN "Avif"
             ELSE IF x = "heic" THEN "Heif"
             ELSE IF d = "none" /\ x = "qt" THEN "QuickTime"
             ELSE IF d = "none" /\ x = "isom" THEN "Mp4"
             ELSE d
  BY DEF After, Formats, Rules!BrandNames, Rules!Brand

(* The loop has a result: the format after i brands, told from the brands alone *)
LEMMA LoopEnds ==
    ASSUME NEW n \in Nat, NEW b \in [1..n -> Rules!BrandNames]
    PROVE  \E it : Loop(it, b, n)
<1> DEFINE K == {k \in 1..n : b[k] \in {"qt", "isom"}}
<1>1. PICK f \in 1..(n + 1) : /\ \A k \in 1..n : k < f => b[k] \notin {"qt", "isom"}
                              /\ f # n + 1 => b[f] \in {"qt", "isom"}
  <2>1. CASE K = {}
    <3>1. n + 1 \in 1..(n + 1)
      OBVIOUS
    <3> QED BY <2>1, <3>1
  <2>2. CASE K # {}
    <3>1. K \in SUBSET Nat
      OBVIOUS
    <3>2. PICK f \in K : \A k \in K : f <= k
      <4> HIDE DEF K
      <4> QED BY <2>2, <3>1, LeastNumber
    <3>3. f \in 1..(n + 1) /\ f \in 1..n /\ b[f] \in {"qt", "isom"}
      OBVIOUS
    <3>4. \A k \in 1..n : k < f => b[k] \notin {"qt", "isom"}
      BY <3>2, <3>3
    <3> QED BY <3>3, <3>4
  <2> QED BY <2>1, <2>2
<1> DEFINE Seen(x, i) == \E j \in 1..i : b[j] = x
           Told(i) == IF Seen("avif", i) THEN "Avif"
                      ELSE IF Seen("heic", i) THEN "Heif"
                      ELSE IF f > i THEN "none"
                      ELSE IF b[f] = "qt" THEN "QuickTime" ELSE "Mp4"
           it == [i \in 0..n |-> Told(i)]
<1>2. ASSUME NEW i \in 0..n
      PROVE  Told(i) = IF i = 0 THEN "none" ELSE After(it[i - 1], b[i])
  <2>1. CASE i = 0
    BY <1>1, <2>1
  <2>2. CASE i # 0
    <3>1. i \in 1..n /\ i - 1 \in 0..n /\ b[i] \in Rules!BrandNames
      BY <2>2
    <3>2. it[i - 1] = Told(i - 1)
      BY <3>1
    <3>3. Told(i - 1) \in Formats
      BY DEF Formats
    <3>4. \A x : Seen(x, i) <=> Seen(x, i - 1) \/ b[i] = x
      <4>1. \A j : j \in 1..i <=> j \in 1..(i - 1) \/ j = i
        BY <3>1
      <4> QED BY <4>1
    <3>5. f > i - 1 <=> f > i \/ f = i
      BY <1>1, <3>1
    <3>6. f > i => b[i] \notin {"qt", "isom"}
      BY <1>1, <3>1
    <3>7. f = i => b[i] \in {"qt", "isom"}
      BY <1>1, <3>1
    <3>8. PICK d \in Formats : d = Told(i - 1)
      BY <3>3
    <3>9. After(d, b[i]) = Told(i)
      BY <3>1, <3>4, <3>5, <3>6, <3>7, <3>8, BrandMeans DEF Rules!BrandNames, Formats
    <3> QED BY <2>2, <3>2, <3>8, <3>9
  <2> QED BY <2>1, <2>2
<1>3. Loop(it, b, n)
  BY <1>2 DEF Loop
<1> QED BY <1>3

(* Whatever the order, an image brand makes an image, and only foreign brands make nothing *)
LEMMA LoopDecides ==
    ASSUME NEW n \in Nat, NEW b \in [1..n -> Rules!BrandNames], NEW it, Loop(it, b, n)
    PROVE  /\ it[n] \in {"Avif", "Heif"} <=> \E j \in 1..n : b[j] \in {"avif", "heic"}
           /\ it[n] = "none" <=> \A j \in 1..n : b[j] = "other"
<1> DEFINE P(i) == /\ it[i] \in Formats
                   /\ it[i] \in {"Avif", "Heif"} <=> \E j \in 1..i : b[j] \in {"avif", "heic"}
                   /\ it[i] = "none" <=> \A j \in 1..i : b[j] = "other"
           C == {i \in 0..n : ~P(i)}
<1>1. ASSUME C # {} PROVE FALSE
  <2>1. C \in SUBSET Nat
    OBVIOUS
  <2>2. PICK i \in C : \A j \in C : i <= j
    <3> HIDE DEF C
    <3> QED BY <1>1, <2>1, LeastNumber
  <2>3. i \in 0..n /\ ~P(i)
    OBVIOUS
  <2>4. i # 0
    <3>1. it[0] = "none"
      BY DEF Loop
    <3>2. P(0)
      BY <3>1 DEF Formats
    <3> QED BY <2>3, <3>2
  <2>5. i \in 1..n /\ i - 1 \in 0..n /\ i - 1 < i /\ b[i] \in Rules!BrandNames
    BY <2>3, <2>4
  <2>6. P(i - 1)
    <3>1. i - 1 \notin C
      BY <2>2, <2>5
    <3> QED BY <2>5, <3>1
  <2>7. it[i] = After(it[i - 1], b[i])
    BY <2>4, <2>5 DEF Loop
  <2>8. \A j : j \in 1..i <=> j \in 1..(i - 1) \/ j = i
    BY <2>5
  <2>0. PICK e : e = it[i]
    OBVIOUS
  <2>9. PICK d \in Formats : d = it[i - 1]
    BY <2>6
  <2>10. e = IF d = "Avif" \/ b[i] = "avif" THEN "Avif"
             ELSE IF b[i] = "heic" THEN "Heif"
             ELSE IF d = "none" /\ b[i] = "qt" THEN "QuickTime"
             ELSE IF d = "none" /\ b[i] = "isom" THEN "Mp4"
             ELSE d
    BY <2>0, <2>5, <2>7, <2>9, BrandMeans
  <2>11. e \in Formats
    BY <2>10 DEF Formats
  <2>12. /\ e \in {"Avif", "Heif"} <=> d \in {"Avif", "Heif"} \/ b[i] \in {"avif", "heic"}
         /\ e = "none" <=> d = "none" /\ b[i] = "other"
    BY <2>5, <2>10 DEF Formats, Rules!BrandNames
  <2>13. P(i)
    BY <2>0, <2>6, <2>8, <2>9, <2>11, <2>12
  <2> QED BY <2>3, <2>13
<1>2. n \in 0..n /\ n \notin C
  BY <1>1
<1>3. P(n)
  BY <1>2
<1> QED BY <1>3

LEMMA BrandsDecide ==
    ASSUME NEW q, NEW n \in Nat, q.brands \in [1..n -> Rules!BrandNames]
    PROVE  LET format == Rules!detect_iso_bmff(q) IN
           /\ format \in {"Avif", "Heif"} <=>
                \E j \in DOMAIN q.brands : q.brands[j] \in {"avif", "heic"}
           /\ format = "none" <=> \A j \in DOMAIN q.brands : q.brands[j] = "other"
<1>1. PICK b : b = q.brands
  OBVIOUS
<1>2. b \in [1..n -> Rules!BrandNames] /\ Len(b) = n /\ DOMAIN b = 1..n
  BY <1>1
<1> DEFINE Q(it) == it = [i \in 0..n |-> IF i = 0 THEN "none"
                            ELSE IF it[i - 1] = "Avif" THEN "Avif" ELSE Rules!Brand(it[i - 1], b[i])]
<1>3. Rules!detect_iso_bmff(q) = (CHOOSE it : Q(it))[n]
  BY <1>1, <1>2 DEF Rules!detect_iso_bmff
<1>4. \A it : Q(it) <=> Loop(it, b, n)
  BY DEF Loop, After
<1> HIDE DEF Q
<1>5. \E it : Q(it)
  BY <1>2, <1>4, LoopEnds
<1>6. PICK it : it = (CHOOSE x : Q(x))
  OBVIOUS
<1>7. Loop(it, b, n)
  BY <1>4, <1>5, <1>6
<1> QED BY <1>1, <1>2, <1>3, <1>6, <1>7, LoopDecides
-----------------------------------------------------------------------------
(* The digits of a duration *)
LEMMA RulesPowers ==
    /\ Ten \in Nat \ {0} /\ Kept \in Nat /\ MaxSeconds \in Nat /\ Thousand = Ten^Kept
    /\ Ten^0 = 1 /\ \A n \in 0..Kept : Ten^n \in Nat /\ Ten^(n + 1) = Ten * Ten^n
  BY ServicesAssumption DEF Rules!RulesAssumption

LEMMA DigitTimes ==
    ASSUME NEW d \in Nat, NEW u \in Nat, NEW p \in Nat
    PROVE  d * p \in Nat /\ d * (u * p) = u * (d * p) /\ u * (d * p) \in Nat
  OBVIOUS

LEMMA MillisIsSum ==
    ASSUME NEW fraction, NEW D, D = {i \in DOMAIN fraction : i <= Kept}, IsFiniteSet(D),
           NEW f, \A i \in D : f[i] \in Nat, \A i \in D : f[i] = fraction[i] * Ten^(Kept - i)
    PROVE  Rules!Millis(fraction) = Sum(f, D)
<1> DEFINE Q(it) == it = [s \in SUBSET D |-> IF s = {} THEN 0 ELSE
                            fraction[CHOOSE x \in s : TRUE] * Ten^(Kept - (CHOOSE x \in s : TRUE))
                              + it[s \ {CHOOSE x \in s : TRUE}]]
<1>1. Rules!Millis(fraction) = (CHOOSE it : Q(it))[D]
  BY DEF Rules!Millis, Rules!FoldSet, Rules!MapThenFoldSet
<1>2. \A it : Q(it) <=> IsFold(it, f, D)
  BY DEF IsFold
<1>3. Q([s \in SUBSET D |-> Sum(f, s)])
  BY <1>2, FoldExists
<1> HIDE DEF Q
<1>4. Q(CHOOSE it : Q(it))
  BY <1>3
<1>5. (CHOOSE it : Q(it))[D] = Sum(f, D)
  BY <1>2, <1>4, FoldIsSum
<1> QED BY <1>1, <1>5

LEMMA ExactIsSum ==
    ASSUME NEW q, NEW D, DOMAIN q.fraction = D, IsFiniteSet(D), NEW g,
           \A i \in D : g[i] \in Nat /\ g[i] = q.fraction[i] * Ten^(Kept + 1 - i),
           NEW rest, rest = q.seconds * Thousand * Ten
    PROVE  Rules!Exact(q) = Sum(g, D) + rest
<1> DEFINE Q(it) == it = [s \in SUBSET D |-> IF s = {} THEN 0 ELSE
                            q.fraction[CHOOSE x \in s : TRUE] * Ten^(Kept + 1 - (CHOOSE x \in s : TRUE))
                              + it[s \ {CHOOSE x \in s : TRUE}]]
<1>1. Rules!Exact(q) = (CHOOSE it : Q(it))[D] + rest
  BY DEF Rules!Exact, Rules!FoldSet, Rules!MapThenFoldSet
<1>2. \A it : Q(it) <=> IsFold(it, g, D)
  BY DEF IsFold
<1> HIDE DEF Q
<1>3. Q([s \in SUBSET D |-> Sum(g, s)])
  <2>1. IsFold([s \in SUBSET D |-> Sum(g, s)], g, D)
    BY FoldExists
  <2> QED BY <1>2, <2>1
<1>4. Q(CHOOSE it : Q(it))
  BY <1>3
<1>5. (CHOOSE it : Q(it))[D] = Sum(g, D)
  BY <1>2, <1>4, FoldIsSum
<1> QED BY <1>1, <1>5

(* The kept digits are the written ones but for the last, which rounds up *)
LEMMA DigitsRoundUp ==
    ASSUME NEW q, NEW n \in 0..(Kept + 1), q.fraction \in [1..n -> 0..(Ten - 1)]
    PROVE  \E a \in Nat, r \in 0..(Ten - 1) :
             /\ Rules!Millis(q.fraction) = a
             /\ Rules!RoundsUp(q.fraction) = IF r = 0 THEN 0 ELSE 1
             /\ Rules!Exact(q) = Ten * a + r + q.seconds * Thousand * Ten
<1>1. PICK w : w = q.fraction
  OBVIOUS
<1>2. w \in [1..n -> 0..(Ten - 1)] /\ DOMAIN w = 1..n /\ Len(w) = n
  BY <1>1
<1>3. /\ Ten \in Nat \ {0} /\ Kept \in Nat /\ Ten^0 = 1
      /\ \A k \in 0..Kept : Ten^k \in Nat /\ Ten^(k + 1) = Ten * Ten^k
  BY RulesPowers
<1> DEFINE D == {i \in 1..n : i <= Kept}
           f == [i \in D |-> w[i] * Ten^(Kept - i)]
           g == [i \in 1..n |-> w[i] * Ten^(Kept + 1 - i)]
<1>4. IsFiniteSet(1..n) /\ IsFiniteSet(D)
  <2>1. IsFiniteSet(1..n)
    BY FS_Interval
  <2> QED BY <2>1, FS_Subset
<1>5. ASSUME NEW i \in D PROVE f[i] \in Nat /\ g[i] \in Nat /\ g[i] = Ten * f[i]
  <2>0. Kept \in Nat /\ i \in 1..n /\ i <= Kept
    BY <1>3
  <2>1. PICK k \in 0..Kept : k = Kept - i /\ Kept + 1 - i = k + 1
    <3>1. Kept - i \in 0..Kept /\ Kept + 1 - i = (Kept - i) + 1
      BY ONLY <2>0
    <3> QED BY <3>1
  <2>2. PICK d \in Nat : d = w[i]
    BY <1>2, <1>3
  <2>3. PICK p \in Nat : p = Ten^k /\ Ten^(k + 1) = Ten * p
    BY <1>3, <2>1
  <2>4. f[i] = d * p /\ g[i] = d * (Ten * p)
    BY <2>1, <2>2, <2>3
  <2>5. d * p \in Nat /\ d * (Ten * p) = Ten * (d * p) /\ Ten * (d * p) \in Nat
    BY <1>3, DigitTimes
  <2> QED BY <2>4, <2>5
<1>6. PICK a \in Nat : a = Sum(f, D) /\ Sum(g, D) = Ten * a
  <2>1. \A i \in D : f[i] \in Nat /\ g[i] \in Nat /\ g[i] = Ten * f[i]
    BY <1>5
  <2>2. Ten \in Nat
    BY <1>3
  <2> HIDE DEF f, g, D
  <2>3. Sum(f, D) \in Nat
    <3>1. \A i \in D : f[i] \in Nat
      BY <2>1
    <3> QED BY ONLY <1>4, <3>1, SumType
  <2>4. Sum(g, D) = Ten * Sum(f, D)
    BY ONLY <1>4, <2>1, <2>2, SumTimes
  <2> QED BY <2>3, <2>4
<1>7. Rules!Millis(q.fraction) = a
  <2>1. D = {i \in DOMAIN w : i <= Kept} /\ \A i \in D : f[i] = w[i] * Ten^(Kept - i)
    BY <1>2
  <2>2. \A i \in D : f[i] \in Nat
    BY <1>5
  <2> HIDE DEF f, D
  <2>3. Rules!Millis(w) = Sum(f, D)
    BY ONLY <1>4, <2>1, <2>2, MillisIsSum
  <2> QED BY <1>1, <1>6, <2>3
<1>8. ASSUME NEW r \in 0..(Ten - 1), Sum(g, 1..n) = Ten * a + r, \A i \in 1..n : g[i] \in Nat
      PROVE  Rules!Exact(q) = Ten * a + r + q.seconds * Thousand * Ten
  <2>1. \A i \in 1..n : g[i] = w[i] * Ten^(Kept + 1 - i)
    OBVIOUS
  <2> HIDE DEF g
  <2>2. Rules!Exact(q) = Sum(g, 1..n) + q.seconds * Thousand * Ten
    <3>1. PICK rest : rest = q.seconds * Thousand * Ten
      OBVIOUS
    <3>2. PICK N : N = 1..n
      OBVIOUS
    <3>3. /\ DOMAIN q.fraction = N /\ IsFiniteSet(N)
          /\ \A i \in N : g[i] \in Nat /\ g[i] = q.fraction[i] * Ten^(Kept + 1 - i)
      BY <1>1, <1>2, <1>4, <1>8, <2>1, <3>2, Zenon
    <3>4. Rules!Exact(q) = Sum(g, N) + rest
      BY ONLY <3>1, <3>3, ExactIsSum
    <3> QED BY <3>1, <3>2, <3>4
  <2> QED BY <1>8, <2>2
<1>9. CASE n <= Kept
  <2>1. D = 1..n
    BY <1>3, <1>9
  <2>2. 0 \in 0..(Ten - 1) /\ Sum(g, 1..n) = Ten * a + 0
    <3> HIDE DEF g, D
    <3> QED BY <1>3, <1>6, <2>1
  <2>3. \A i \in 1..n : g[i] \in Nat
    BY <1>5, <2>1
  <2>4. Rules!RoundsUp(q.fraction) = 0
    BY <1>1, <1>2, <1>3, <1>9 DEF Rules!RoundsUp
  <2>5. Rules!Exact(q) = Ten * a + 0 + q.seconds * Thousand * Ten
    <3> HIDE DEF g, D
    <3> QED BY <1>8, <2>2, <2>3
  <2> QED BY <1>7, <2>2, <2>4, <2>5
<1>10. CASE n = Kept + 1
  <2>1. D = (1..n) \ {n} /\ n \in 1..n
    BY <1>3, <1>10
  <2>2. PICK r \in 0..(Ten - 1) : r = w[n]
    BY <1>2, <2>1
  <2>3. r \in Nat /\ g[n] = r
    <3>1. Kept + 1 - n = 0
      BY <1>3, <1>10
    <3>2. g[n] = r * 1 /\ r \in Nat
      BY <1>3, <2>1, <2>2, <3>1
    <3> QED BY <3>2
  <2>4. \A i \in 1..n : g[i] \in Nat
    <3>1. \A i \in 1..n : i \in D \/ i = n
      BY <2>1
    <3> HIDE DEF g, D
    <3> QED BY <1>5, <2>3, <3>1
  <2>5. Sum(g, 1..n) = Ten * a + r
    <3>1. Sum(g, 1..n) = g[n] + Sum(g, (1..n) \ {n})
      <4> HIDE DEF g
      <4> QED BY <1>4, <2>1, <2>4, SumWithout
    <3>2. Sum(g, 1..n) = r + Ten * a
      <4> HIDE DEF g, D
      <4> QED BY <1>6, <2>1, <2>3, <3>1
    <3>3. Ten * a \in Nat
      BY <1>3
    <3> HIDE DEF g
    <3> QED BY <2>3, <3>2, <3>3
  <2>6. Rules!RoundsUp(q.fraction) = IF r = 0 THEN 0 ELSE 1
    <3>1. (Kept + 1)..Len(w) = {n}
      BY <1>2, <1>3, <1>10
    <3> QED BY <1>1, <2>2, <3>1 DEF Rules!RoundsUp
  <2>7. Rules!Exact(q) = Ten * a + r + q.seconds * Thousand * Ten
    <3> HIDE DEF g, D
    <3> QED BY <1>8, <2>4, <2>5
  <2> QED BY <1>7, <2>6, <2>7
<1> QED BY <1>3, <1>9, <1>10

(* Up to the next unit: between the exact number and one unit more *)
LEMMA RoundedUp ==
    ASSUME NEW u \in Nat \ {0}, NEW a \in Nat, NEW r \in 0..(u - 1), NEW s \in Nat,
           NEW up, up = IF r = 0 THEN 0 ELSE 1, NEW exact, exact = u * a + r + s * u
    PROVE  /\ s + a + up \in Nat /\ (s + a + up = 0 <=> exact = 0)
           /\ (s + a + up) * u >= exact /\ (s + a + up) * u < exact + u
<1>1. PICK m \in Nat : m = u * a
  OBVIOUS
<1>2. PICK k \in Nat : k = s * u
  OBVIOUS
<1>3. (s + a + up) * u = k + m + up * u /\ up * u = IF r = 0 THEN 0 ELSE u
  BY <1>1, <1>2
<1>4. exact = m + r + k
  BY <1>1, <1>2
<1>5. s + a + up \in Nat
  OBVIOUS
<1>6. (m = 0 <=> a = 0) /\ (k = 0 <=> s = 0)
  BY <1>1, <1>2
<1>7. s + a + up = 0 <=> exact = 0
  BY <1>4, <1>6
<1>8. (s + a + up) * u >= exact /\ (s + a + up) * u < exact + u
  BY <1>3, <1>4
<1> QED BY <1>5, <1>7, <1>8

LEMMA SeeksInside ==
    ASSUME NEW ms \in Nat \ {0}
    PROVE  Rules!FirstSeek(ms) < ms /\ Rules!SecondSeek(ms) < ms
<1>1. ms \div 10 \in Nat /\ ms \div 10 < ms /\ ms \div 2 \in Nat /\ ms \div 2 < ms
  OBVIOUS
<1>2. Rules!FirstSeek(ms) = IF ms \div 10 <= 1000 THEN ms \div 10 ELSE 1000
  BY <1>1, SmallerSize DEF Rules!FirstSeek
<1>3. Rules!SecondSeek(ms) = IF ms \div 2 <= ms - 1 THEN ms \div 2 ELSE ms - 1
  BY <1>1, SmallerSize DEF Rules!SecondSeek
<1> QED BY <1>1, <1>2, <1>3

LEMMA DurationReads ==
    ASSUME NEW q, q.seconds \in Nat, NEW n \in 0..(Kept + 1),
           q.fraction \in [1..n -> 0..(Ten - 1)]
    PROVE  LET ms == Rules!parse_duration_ms(q) IN
           IF Rules!Exact(q) = 0
             THEN ms = Rules!Refused
             ELSE /\ ms * Ten >= Rules!Exact(q) /\ ms * Ten < Rules!Exact(q) + Ten
                  /\ Rules!FirstSeek(ms) < ms /\ Rules!SecondSeek(ms) < ms
<1>1. PICK a \in Nat, r \in 0..(Ten - 1) :
        /\ Rules!Millis(q.fraction) = a
        /\ Rules!RoundsUp(q.fraction) = IF r = 0 THEN 0 ELSE 1
        /\ Rules!Exact(q) = Ten * a + r + q.seconds * Thousand * Ten
  BY DigitsRoundUp
<1>2. Ten \in Nat \ {0} /\ Thousand \in Nat
  BY RulesPowers
<1>3. PICK s \in Nat : s = q.seconds * Thousand
  BY <1>2
<1>4. PICK up : up = Rules!RoundsUp(q.fraction)
  OBVIOUS
<1>5. PICK exact : exact = Rules!Exact(q)
  OBVIOUS
<1>6. up = (IF r = 0 THEN 0 ELSE 1) /\ exact = Ten * a + r + s * Ten
  BY <1>1, <1>3, <1>4, <1>5
<1>7. PICK total : total = s + a + up
  OBVIOUS
<1>8. total \in Nat /\ (total = 0 <=> exact = 0) /\ total * Ten >= exact /\ total * Ten < exact + Ten
  BY <1>2, <1>6, <1>7, RoundedUp
<1>9. Rules!parse_duration_ms(q) = IF total = 0 THEN Rules!Refused ELSE total
  BY <1>1, <1>3, <1>4, <1>7 DEF Rules!parse_duration_ms
<1> QED BY <1>5, <1>8, <1>9, SeeksInside

(* MediaRules: whatever the order of its brands, a file with an image brand is read as an
   image and one with foreign brands only as nothing (detect_iso_bmff); a duration is never
   read as shorter than it is written nor a whole unit longer, and both seeks of the poster
   lie inside the video (parse_duration_ms, extract), for every base and number of digits. *)
THEOREM ReadingsAreSound == Spec => []ReadingsSound
<1>1. ASSUME Answered PROVE Rules!BrandOrderIrrelevant
  <2> SUFFICES ASSUME case.ask = "brands", answer # << >>
               PROVE  LET has(b) == \E i \in DOMAIN case.brands : case.brands[i] = b
                          image == answer[1] \in {"Avif", "Heif"}
                      IN  /\ image <=> has("avif") \/ has("heic")
                          /\ answer[1] = "none" <=>
                               \A i \in DOMAIN case.brands : case.brands[i] = "other"
    BY DEF Rules!BrandOrderIrrelevant, Rules!Asked
  <2>1. answer[1] = Rules!detect_iso_bmff(case)
    BY <1>1 DEF Answered
  <2>2. PICK n \in Nat : case.brands \in [1..n -> Rules!BrandNames]
    <3>1. case \in [ask : {"brands"}, brands : UNION {[1..n -> Rules!BrandNames] : n \in 0..Brands}]
      BY <1>1 DEF Answered, Rules!Questions
    <3>2. PICK n \in 0..Brands : case.brands \in [1..n -> Rules!BrandNames]
      BY <3>1
    <3> QED BY <3>2
  <2>3. /\ answer[1] \in {"Avif", "Heif"} <=>
             \E j \in DOMAIN case.brands : case.brands[j] \in {"avif", "heic"}
        /\ answer[1] = "none" <=> \A j \in DOMAIN case.brands : case.brands[j] = "other"
    BY <2>1, <2>2, BrandsDecide
  <2> QED BY <2>3
<1>2. ASSUME Answered PROVE Rules!DurationRoundsUp
  <2> SUFFICES ASSUME case.ask = "duration", answer # << >>
               PROVE  LET ms == answer[1] IN
                      IF Rules!Exact(case) = 0
                        THEN ms = Rules!Refused
                        ELSE /\ ms * Ten >= Rules!Exact(case) /\ ms * Ten < Rules!Exact(case) + Ten
                             /\ Rules!FirstSeek(ms) < ms /\ Rules!SecondSeek(ms) < ms
    BY DEF Rules!DurationRoundsUp, Rules!Asked
  <2>1. answer[1] = Rules!parse_duration_ms(case)
    BY <1>2 DEF Answered
  <2>2. case \in [ask : {"duration"}, seconds : 0..MaxSeconds,
                  fraction : UNION {[1..n -> 0..(Ten - 1)] : n \in 0..(Kept + 1)}]
    BY <1>2 DEF Answered, Rules!Questions
  <2>3. PICK n \in 0..(Kept + 1) : case.fraction \in [1..n -> 0..(Ten - 1)]
    BY <2>2
  <2>4. case.seconds \in Nat
    <3>1. case.seconds \in 0..MaxSeconds
      BY <2>2
    <3> QED BY <3>1, RulesPowers
  <2> QED BY <2>1, <2>3, <2>4, DurationReads
<1>3. RulesPartInv => ReadingsSound
  BY <1>1, <1>2 DEF RulesPartInv, ReadingsSound, Rules!ReadingsSound
<1> QED BY <1>3, RulesPart, PTL
-----------------------------------------------------------------------------
(* H264Fallback.  Splitting a sample into units loses nothing. *)
Bytes == 0..(Base - 1)

LEMMA BaseType == Base \in Nat \ {0} /\ Prefixes \subseteq Nat
  BY ServicesAssumption DEF Fallback!FallbackAssumption

(* Induction from 0 to w, over a set of numbers *)
LEMMA Climb ==
    ASSUME NEW w \in Nat, NEW S, 0 \in S, \A i \in 0..w : i # w /\ i \in S => i + 1 \in S
    PROVE  0..w \subseteq S
<1> DEFINE K == {k \in 0..w : k \notin S}
<1> SUFFICES ASSUME K # {} PROVE FALSE
  OBVIOUS
<1>1. K \in SUBSET Nat
  OBVIOUS
<1>2. PICK k \in K : \A j \in K : k <= j
  <2> HIDE DEF K
  <2> QED BY <1>1, LeastNumber
<1>3. k \in 0..w /\ k \notin S /\ k # 0
  OBVIOUS
<1>4. k - 1 \in 0..w /\ k - 1 # w /\ k - 1 + 1 = k /\ ~(k <= k - 1)
  BY <1>3
<1>5. k - 1 \in S
  BY <1>2, <1>4
<1> QED BY <1>3, <1>4, <1>5

(* A recursion over 0..w that starts with x and whose step is the function g *)
Recursion(f, w, X, x, g) ==
    /\ f \in [0..w -> X] /\ f[0] = x
    /\ \A i \in 1..w : f[i] = g[i, f[i - 1]]

LEMMA RecursionEnds ==
    ASSUME NEW w \in Nat, NEW X, NEW x \in X, NEW g, \A i \in 1..w, y \in X : g[i, y] \in X
    PROVE  \E f : Recursion(f, w, X, x, g)
<1> DEFINE S == {k \in 0..w : \E f : Recursion(f, k, X, x, g)}
<1>1. 0 \in S
  <2>1. PICK f : f = [i \in 0..0 |-> x]
    OBVIOUS
  <2>0. 0..0 = {0} /\ 1..0 = {} /\ 0 \in 0..w
    BY ONLY w \in Nat
  <2>2. f \in [0..0 -> X] /\ f[0] = x /\ 1..0 = {}
    BY ONLY <2>0, <2>1, x \in X
  <2>3. Recursion(f, 0, X, x, g)
    BY <2>2 DEF Recursion
  <2> QED BY ONLY <2>0, <2>3
<1>2. ASSUME NEW k \in 0..w, k # w, k \in S PROVE k + 1 \in S
  <2>1. PICK f : Recursion(f, k, X, x, g)
    BY <1>2
  <2>2. /\ f \in [0..k -> X] /\ f[0] = x /\ \A i \in 1..k : f[i] = g[i, f[i - 1]]
    BY <2>1 DEF Recursion
  <2>3. k + 1 \in 1..w /\ k + 1 \in 0..w /\ k \in 0..k /\ 0 \in 0..k /\ k + 1 \notin 0..k
    BY ONLY k \in 0..w, k # w, w \in Nat
  <2>4. PICK y : y = g[k + 1, f[k]]
    OBVIOUS
  <2>5. y \in X
    BY <2>2, <2>3, <2>4
  <2>6. \A i \in 0..(k + 1) : i \in 0..k \/ i = k + 1
    BY ONLY k \in 0..w, w \in Nat
  <2>7. PICK h : h = [i \in 0..(k + 1) |-> IF i \in 0..k THEN f[i] ELSE y]
    OBVIOUS
  <2>8. \A i \in 0..k : i \in 0..(k + 1)
    BY ONLY k \in 0..w, w \in Nat
  <2>9. \A i \in 0..k : h[i] = f[i]
    BY ONLY <2>7, <2>8
  <2>10. k + 1 \in 0..(k + 1)
    BY ONLY k \in 0..w, w \in Nat
  <2>11. h[k + 1] = y
    BY ONLY <2>3, <2>7, <2>10
  <2>12. h \in [0..(k + 1) -> X]
    BY ONLY <2>2, <2>5, <2>7
  <2>13. ASSUME NEW i \in 1..(k + 1) PROVE h[i] = g[i, h[i - 1]]
    <3>1. CASE i = k + 1
      <4>1. i - 1 = k
        BY ONLY <3>1, k \in 0..w, w \in Nat
      <4>2. h[i - 1] = f[k]
        BY <2>3, <2>9, <4>1
      <4> QED BY <2>4, <2>11, <3>1, <4>2
    <3>2. CASE i # k + 1
      <4>1. i \in 1..k /\ i \in 0..k /\ i - 1 \in 0..k
        BY ONLY k \in 0..w, w \in Nat, i \in 1..(k + 1), <3>2
      <4>2. h[i] = f[i] /\ h[i - 1] = f[i - 1]
        BY <2>9, <4>1
      <4> QED BY <2>2, <4>1, <4>2
    <3> QED BY <3>1, <3>2
  <2>14. Recursion(h, k + 1, X, x, g)
    BY <2>2, <2>3, <2>9, <2>12, <2>13 DEF Recursion
  <2> QED BY <2>3, <2>14
<1>3. 0..w \subseteq S
  <2> HIDE DEF S
  <2> QED BY <1>1, <1>2, Climb
<1>4. w \in S
  <2>1. w \in 0..w
    BY ONLY w \in Nat
  <2> HIDE DEF S
  <2> QED BY <1>3, <2>1
<1> QED BY <1>4

(* The number read from w bytes, digit by digit *)
LEMMA NumberReads ==
    ASSUME NEW input \in Seq(Bytes), NEW c \in Nat, NEW w \in Nat, c + w <= Len(input)
    PROVE  \E n \in [0..w -> Nat] :
             /\ Fallback!Number(input, c, w) = n[w]
             /\ \A i \in 1..w : n[i] = n[i - 1] * Base + input[c + i]
<1> DEFINE Q(n) == n = [i \in 0..w |-> IF i = 0 THEN 0 ELSE n[i - 1] * Base + input[c + i]]
<1>1. Fallback!Number(input, c, w) = (CHOOSE n : Q(n))[w]
  BY DEF Fallback!Number
<1>2. PICK g : g = [p \in (1..w) \X Nat |-> p[2] * Base + input[c + p[1]]]
  OBVIOUS
<1>3. \A i \in 1..w : input[c + i] \in Nat
  <2> SUFFICES ASSUME NEW i \in 1..w PROVE input[c + i] \in Nat
    OBVIOUS
  <2>1. c + i \in 1..Len(input)
    OBVIOUS
  <2>2. input[c + i] \in Bytes
    BY <2>1
  <2> QED BY <2>2, BaseType DEF Bytes
<1>4. \A i \in 1..w, m \in Nat : g[i, m] = m * Base + input[c + i]
  BY <1>2
<1>5. \A i \in 1..w, m \in Nat : m * Base + input[c + i] \in Nat
  <2>1. \A m, d \in Nat : m * Base + d \in Nat
    BY ONLY BaseType
  <2> QED BY <1>3, <2>1
<1>6. \A i \in 1..w, m \in Nat : g[i, m] \in Nat
  BY <1>4, <1>5
<1>7. PICK f : f \in [0..w -> Nat] /\ f[0] = 0 /\ \A i \in 1..w : f[i] = g[i, f[i - 1]]
  <2>1. \E f : Recursion(f, w, Nat, 0, g)
    BY <1>6, RecursionEnds
  <2> QED BY <2>1 DEF Recursion
<1>8. \A i \in 1..w : f[i] = f[i - 1] * Base + input[c + i]
  <2> SUFFICES ASSUME NEW i \in 1..w PROVE f[i] = f[i - 1] * Base + input[c + i]
    OBVIOUS
  <2>1. i - 1 \in 0..w
    OBVIOUS
  <2> QED BY <1>4, <1>7, <2>1
<1>9. Q(f)
  <2>1. \A i \in 0..w : i # 0 => i \in 1..w
    OBVIOUS
  <2> QED BY <1>7, <1>8, <2>1
<1>10. PICK n : n = CHOOSE m : Q(m)
  OBVIOUS
<1>11. Q(n)
  BY <1>9, <1>10
<1>12. DOMAIN n = 0..w /\ n[0] = 0 /\ \A i \in 1..w : n[i] = n[i - 1] * Base + input[c + i]
  BY <1>11
<1>13. n \in [0..w -> Nat]
  <2> DEFINE S == {i \in 0..w : n[i] \in Nat}
  <2>1. 0 \in S
    BY <1>12
  <2>2. ASSUME NEW i \in 0..w, i # w, i \in S PROVE i + 1 \in S
    <3>1. i + 1 \in 1..w /\ i + 1 \in 0..w /\ i + 1 - 1 = i /\ n[i] \in Nat
      BY <2>2
    <3>2. n[i + 1] = n[i] * Base + input[c + (i + 1)]
      BY <1>12, <3>1
    <3> QED BY <1>5, <3>1, <3>2
  <2>3. 0..w \subseteq S
    <3> HIDE DEF S
    <3> QED BY <2>1, <2>2, Climb
  <2>4. \A i \in 0..w : n[i] \in Nat
    BY <2>3
  <2>5. n = [i \in 0..w |-> n[i]]
    BY <1>11
  <2> QED BY <2>4, <2>5
<1> QED BY <1>1, <1>10, <1>12, <1>13

LEMMA NumberType ==
    ASSUME NEW input \in Seq(Bytes), NEW c \in Nat, NEW w \in Nat, c + w <= Len(input)
    PROVE  Fallback!Number(input, c, w) \in Nat
<1>1. PICK n \in [0..w -> Nat] : Fallback!Number(input, c, w) = n[w]
  BY NumberReads
<1>2. w \in 0..w
  BY ONLY w \in Nat
<1> QED BY <1>1, <1>2

(* Division undoes the step of that reading *)
LEMMA DigitOff ==
    ASSUME NEW x \in Nat, NEW u \in Nat \ {0}, NEW d \in 0..(u - 1)
    PROVE  (x * u + d) \div u = x /\ (x * u + d) % u = d
<1>1. PICK a : a = x * u + d
  OBVIOUS
<1>2. a \in Nat /\ a = u * x + d /\ u * x \in Nat
  BY <1>1
<1>3. PICK q : q = a \div u
  OBVIOUS
<1>4. q \in Nat /\ u * q <= a /\ a < u * q + u
  BY <1>2, <1>3, Division
<1>5. PICK y : y = u * q
  OBVIOUS
<1>6. y \in Nat
  BY <1>4, <1>5
<1>7. ~(q < x)
  <2> SUFFICES ASSUME q < x PROVE FALSE
    OBVIOUS
  <2>1. u * (q + 1) <= u * x
    BY <1>4, TimesMonotone
  <2>2. u * (q + 1) = y + u
    BY <1>4, <1>5
  <2>3. PICK z : z = u * x
    OBVIOUS
  <2> QED BY ONLY <1>2, <1>4, <1>5, <1>6, <2>1, <2>2, <2>3, u \in Nat, d \in 0..(u - 1)
<1>8. ~(x < q)
  <2> SUFFICES ASSUME x < q PROVE FALSE
    OBVIOUS
  <2>1. u * (x + 1) <= u * q
    BY <1>4, TimesMonotone
  <2>2. PICK z : z = u * x
    OBVIOUS
  <2>3. u * (x + 1) = z + u
    BY <2>2
  <2> QED BY ONLY <1>2, <1>4, <1>5, <1>6, <2>1, <2>2, <2>3, u \in Nat, d \in 0..(u - 1)
<1>9. q = x
  BY ONLY <1>4, <1>7, <1>8, x \in Nat
<1>10. a % u = a - u * (a \div u)
  BY ONLY <1>2, u \in Nat \ {0}
<1>11. a % u = d
  BY ONLY <1>2, <1>3, <1>9, <1>10, u \in Nat, d \in 0..(u - 1)
<1> QED BY <1>1, <1>3, <1>9, <1>11

(* The digits of the number that was read are the bytes it was read from *)
LEMMA DigitsOfNumber ==
    ASSUME NEW input \in Seq(Bytes), NEW c \in Nat, NEW w \in Nat, c + w <= Len(input)
    PROVE  Fallback!Digits(Fallback!Number(input, c, w), w) = SubSeq(input, c + 1, c + w)
<1>1. PICK n \in [0..w -> Nat] :
         /\ Fallback!Number(input, c, w) = n[w]
         /\ \A i \in 1..w : n[i] = n[i - 1] * Base + input[c + i]
  BY NumberReads
<1>2. \A i \in 1..w : c + i \in 1..Len(input) /\ input[c + i] \in Bytes
  OBVIOUS
<1>3. ASSUME NEW i \in 1..w
      PROVE  n[i] \div Base = n[i - 1] /\ n[i] % Base = input[c + i]
  <2>1. n[i - 1] \in Nat /\ input[c + i] \in 0..(Base - 1)
    BY <1>2 DEF Bytes
  <2>2. PICK p, d : p = n[i - 1] /\ d = input[c + i]
    OBVIOUS
  <2>3. (p * Base + d) \div Base = p /\ (p * Base + d) % Base = d
    BY <2>1, <2>2, BaseType, DigitOff
  <2> QED BY <1>1, <2>2, <2>3
<1> DEFINE Q(h) == h = [i \in 0..w |-> IF i = w THEN Fallback!Number(input, c, w)
                                       ELSE h[i + 1] \div Base]
<1>4. Fallback!Digits(Fallback!Number(input, c, w), w) = [i \in 1..w |-> (CHOOSE h : Q(h))[i] % Base]
  BY DEF Fallback!Digits
<1>5. Q(n)
  <2>1. \A i \in 0..w : i # w => i + 1 \in 1..w /\ i + 1 - 1 = i
    BY ONLY w \in Nat
  <2>2. \A i \in 0..w : i # w => n[i + 1] \div Base = n[i]
    BY <1>3, <2>1
  <2> QED BY <1>1, <2>2
<1>6. PICK h : h = CHOOSE g : Q(g)
  OBVIOUS
<1>7. Q(h)
  BY <1>5, <1>6
<1>8. \A i \in 0..w : h[i] = n[i]
  <2> DEFINE S == {k \in 0..w : h[w - k] = n[w - k]}
  <2>1. 0 \in S
    <3>1. w - 0 = w /\ w \in 0..w /\ 0 \in 0..w
      BY ONLY w \in Nat
    <3> QED BY <1>1, <1>7, <3>1
  <2>2. ASSUME NEW k \in 0..w, k # w, k \in S PROVE k + 1 \in S
    <3>1. /\ k + 1 \in 0..w /\ w - (k + 1) \in 0..w /\ w - (k + 1) # w
          /\ w - (k + 1) + 1 = w - k
      BY ONLY w \in Nat, k \in 0..w, k # w
    <3>2. h[w - (k + 1)] = h[w - k] \div Base /\ n[w - (k + 1)] = n[w - k] \div Base
      BY <1>5, <1>7, <3>1
    <3> QED BY <2>2, <3>1, <3>2
  <2>3. 0..w \subseteq S
    <3> HIDE DEF S
    <3> QED BY <2>1, <2>2, Climb
  <2> SUFFICES ASSUME NEW i \in 0..w PROVE h[i] = n[i]
    OBVIOUS
  <2>4. w - i \in 0..w /\ w - (w - i) = i
    BY ONLY w \in Nat, i \in 0..w
  <2> QED BY <2>3, <2>4
<1>9. \A i \in 1..w : h[i] % Base = input[c + i]
  <2>1. \A i \in 1..w : i \in 0..w
    BY ONLY w \in Nat
  <2> QED BY <1>3, <1>8, <2>1
<1>10. Fallback!Digits(Fallback!Number(input, c, w), w) = [i \in 1..w |-> input[c + i]]
  <2> HIDE DEF Q
  <2> QED BY <1>4, <1>6, <1>9
<1>11. SubSeq(input, c + 1, c + w) = [i \in 1..w |-> input[c + i]]
  BY ONLY input \in Seq(Bytes), c \in Nat, w \in Nat, c + w <= Len(input)
<1> QED BY <1>10, <1>11

(* The units from position c on, f being those from the later positions *)
Units(f, input, w, c) ==
    LET first == c + w
        last == first + Fallback!Number(input, c, w)
    IN  IF c = Len(input) THEN [why |-> "none", units |-> << >>]
        ELSE IF first > Len(input) THEN Fallback!Malformed
        ELSE IF last = first \/ last > Len(input) THEN Fallback!Malformed
        ELSE [f[last] EXCEPT !.units = <<SubSeq(input, first + 1, last)>> \o @]

Splits(f, input, w) == f = [c \in 0..Len(input) |-> Units(f, input, w, c)]

Splittings == [why : {"none", "decode"}, units : Seq(Seq(Bytes))]

(* One more unit, from c up to last, before those from last on *)
OneMore(f, input, w, c, last) ==
    [f[last] EXCEPT !.units = <<SubSeq(input, c + w + 1, last)>> \o @]

(* What Units says of a position, case by case *)
LEMMA UnitsFrom ==
    ASSUME NEW input \in Seq(Bytes), NEW w \in Nat, NEW c \in 0..Len(input), NEW f
    PROVE  \/ c = Len(input) /\ Units(f, input, w, c) = [why |-> "none", units |-> << >>]
           \/ c # Len(input) /\ Units(f, input, w, c) = [why |-> "decode", units |-> << >>]
           \/ \E last \in (c + w + 1)..Len(input) :
                /\ c # Len(input) /\ last = c + w + Fallback!Number(input, c, w)
                /\ Units(f, input, w, c) = OneMore(f, input, w, c, last)
<1>1. PICK n : n = Fallback!Number(input, c, w)
  OBVIOUS
<1>2. c + w <= Len(input) => n \in Nat
  <2> SUFFICES ASSUME c + w <= Len(input) PROVE n \in Nat
    OBVIOUS
  <2>1. c \in Nat
    OBVIOUS
  <2> QED BY <1>1, <2>1, NumberType
<1>3. Len(input) \in Nat
  OBVIOUS
<1>4. CASE c = Len(input)
  BY <1>4 DEF Units
<1>5. CASE c # Len(input) /\ c + w > Len(input)
  BY <1>5 DEF Units, Fallback!Malformed
<1>6. CASE c # Len(input) /\ c + w <= Len(input) /\ (c + w + n = c + w \/ c + w + n > Len(input))
  <2>1. ~(c + w > Len(input))
    BY ONLY <1>3, <1>6, w \in Nat, c \in 0..Len(input)
  <2> QED BY <1>1, <1>6, <2>1 DEF Units, Fallback!Malformed
<1>7. CASE c # Len(input) /\ c + w <= Len(input) /\ ~(c + w + n = c + w \/ c + w + n > Len(input))
  <2>1. PICK last : last = c + w + n
    OBVIOUS
  <2>2. ~(c + w > Len(input)) /\ last \in (c + w + 1)..Len(input)
    BY ONLY <1>2, <1>3, <1>7, <2>1, w \in Nat, c \in 0..Len(input)
  <2>3. Units(f, input, w, c) = OneMore(f, input, w, c, last)
    BY <1>1, <1>7, <2>1, <2>2 DEF Units, OneMore
  <2> QED BY <1>1, <1>7, <2>1, <2>2, <2>3
<1>8. c + w > Len(input) \/ c + w <= Len(input)
  BY ONLY <1>3, w \in Nat, c \in 0..Len(input)
<1> QED BY <1>4, <1>5, <1>6, <1>7, <1>8

(* The units from a position depend on those from later positions only *)
LEMMA UnitsAgree ==
    ASSUME NEW input \in Seq(Bytes), NEW w \in Nat, NEW c \in 0..Len(input), NEW f, NEW g,
           \A last \in (c + 1)..Len(input) : f[last] = g[last]
    PROVE  Units(f, input, w, c) = Units(g, input, w, c)
<1>1. PICK n : n = Fallback!Number(input, c, w)
  OBVIOUS
<1>2. c + w <= Len(input) => n \in Nat
  <2> SUFFICES ASSUME c + w <= Len(input) PROVE n \in Nat
    OBVIOUS
  <2>1. c \in Nat
    OBVIOUS
  <2> QED BY <1>1, <2>1, NumberType
<1>3. PICK last : last = c + w + n
  OBVIOUS
<1>4. ASSUME c # Len(input), ~(c + w > Len(input)), ~(last = c + w \/ last > Len(input))
      PROVE  f[last] = g[last]
  <2>1. last \in (c + 1)..Len(input)
    <3>1. Len(input) \in Nat
      OBVIOUS
    <3> QED BY ONLY <1>2, <1>3, <1>4, <3>1, w \in Nat, c \in 0..Len(input)
  <2> QED BY <2>1
<1>5. CASE c # Len(input) /\ ~(c + w > Len(input)) /\ ~(last = c + w \/ last > Len(input))
  BY <1>1, <1>3, <1>4, <1>5 DEF Units
<1>6. CASE ~(c # Len(input) /\ ~(c + w > Len(input)) /\ ~(last = c + w \/ last > Len(input)))
  BY <1>1, <1>3, <1>6 DEF Units
<1> QED BY <1>5, <1>6

LEMMA SplitsExist ==
    ASSUME NEW input \in Seq(Bytes), NEW w \in Nat
    PROVE  \E f : Splits(f, input, w)
<1>1. PICK L \in Nat : L = Len(input)
  OBVIOUS
<1> DEFINE Partly(f, b) == f = [c \in b..L |-> Units(f, input, w, c)]
           S == {k \in 0..L : \E f : Partly(f, L - k)}
<1>2. 0 \in S
  <2>1. PICK f : f = [c \in L..L |-> [why |-> "none", units |-> << >>]]
    OBVIOUS
  <2>2. ASSUME NEW c \in L..L PROVE Units(f, input, w, c) = [why |-> "none", units |-> << >>]
    <3>1. c = L
      BY ONLY <2>2, L \in Nat
    <3> QED BY <1>1, <3>1 DEF Units
  <2>3. f = [c \in L..L |-> Units(f, input, w, c)]
    BY ONLY <2>1, <2>2
  <2>4. L - 0 = L /\ 0 \in 0..L
    BY ONLY L \in Nat
  <2>5. Partly(f, L - 0)
    BY <2>3, <2>4
  <2> HIDE DEF Partly
  <2> QED BY <2>4, <2>5
<1>3. ASSUME NEW k \in 0..L, k # L, k \in S PROVE k + 1 \in S
  <2>1. PICK f : Partly(f, L - k)
    BY <1>3
  <2>2. PICK b : b = L - (k + 1)
    OBVIOUS
  <2>3. b \in 0..L /\ b # L /\ b + 1 = L - k /\ k + 1 \in 0..L /\ b \in b..L
    BY ONLY <1>3, <2>2, L \in Nat
  <2>4. f = [c \in (b + 1)..L |-> Units(f, input, w, c)]
    BY <2>1, <2>3
  <2>5. PICK h : h = [c \in b..L |-> IF c = b THEN Units(f, input, w, b) ELSE f[c]]
    OBVIOUS
  <2>6. \A c \in (b + 1)..L : h[c] = f[c]
    <3>1. \A c \in (b + 1)..L : c \in b..L /\ c # b
      BY ONLY <2>3, L \in Nat
    <3> QED BY ONLY <2>5, <3>1
  <2>7. ASSUME NEW c \in b..L PROVE Units(h, input, w, c) = Units(f, input, w, c)
    <3>1. c \in 0..Len(input) /\ \A last \in (c + 1)..Len(input) : last \in (b + 1)..L
      BY ONLY <1>1, <2>3, c \in b..L
    <3>2. \A last \in (c + 1)..Len(input) : h[last] = f[last]
      BY <2>6, <3>1
    <3> QED BY <3>1, <3>2, UnitsAgree
  <2>8. ASSUME NEW c \in b..L PROVE h[c] = Units(h, input, w, c)
    <3>1. CASE c = b
      BY <2>3, <2>5, <2>7, <3>1
    <3>2. CASE c # b
      <4>1. c \in (b + 1)..L
        BY ONLY <2>3, <3>2, c \in b..L, L \in Nat
      <4>2. f[c] = Units(f, input, w, c)
        BY <2>4, <4>1
      <4> QED BY <2>6, <2>7, <4>1, <4>2
    <3> QED BY <3>1, <3>2
  <2>9. h = [c \in b..L |-> h[c]]
    BY ONLY <2>5
  <2>10. h = [c \in b..L |-> Units(h, input, w, c)]
    BY ONLY <2>8, <2>9
  <2>11. Partly(h, L - (k + 1))
    BY <2>2, <2>10
  <2> HIDE DEF Partly
  <2> QED BY <2>3, <2>11
<1>4. L \in S
  <2> HIDE DEF S
  <2>1. 0..L \subseteq S
    BY <1>2, <1>3, Climb
  <2>2. L \in 0..L
    BY ONLY L \in Nat
  <2> QED BY <2>1, <2>2
<1>5. PICK f : Partly(f, L - L)
  BY <1>4
<1>6. L - L = 0
  BY ONLY L \in Nat
<1>7. f = [c \in 0..L |-> Units(f, input, w, c)]
  BY <1>5, <1>6
<1> QED BY <1>1, <1>7 DEF Splits

(* ToAnnexB is such a function at 0, and all it holds are splittings *)
LEMMA SplitsType ==
    ASSUME NEW input \in Seq(Bytes), NEW w \in Nat, NEW f, Splits(f, input, w)
    PROVE  \A c \in 0..Len(input) : f[c] \in Splittings
<1>1. PICK L \in Nat : L = Len(input)
  OBVIOUS
<1>2. \A c \in 0..L : f[c] = Units(f, input, w, c)
  BY <1>1 DEF Splits
<1> DEFINE S == {k \in 0..L : \A c \in (L - k)..L : f[c] \in Splittings}
<1>3. ASSUME NEW c \in 0..L, \A last \in (c + 1)..L : f[last] \in Splittings
      PROVE  f[c] \in Splittings
  <2>1. \/ Units(f, input, w, c) = [why |-> "none", units |-> << >>]
        \/ Units(f, input, w, c) = [why |-> "decode", units |-> << >>]
        \/ \E last \in (c + w + 1)..L :
             Units(f, input, w, c) = OneMore(f, input, w, c, last)
    <3>1. c \in 0..Len(input)
      BY <1>1
    <3> QED BY <1>1, <3>1, UnitsFrom
  <2>2. [why |-> "none", units |-> << >>] \in Splittings
        /\ [why |-> "decode", units |-> << >>] \in Splittings
    BY DEF Splittings
  <2>3. ASSUME NEW last \in (c + w + 1)..L
        PROVE  OneMore(f, input, w, c, last) \in Splittings
    <3>1. last \in (c + 1)..L
      BY ONLY <2>3, c \in 0..L, L \in Nat, w \in Nat
    <3>2. f[last] \in Splittings
      BY <1>3, <3>1
    <3>3. PICK piece : piece = SubSeq(input, c + w + 1, last)
      OBVIOUS
    <3>4. piece \in Seq(Bytes)
      BY ONLY <1>1, <2>3, <3>3, c \in 0..L, L \in Nat, w \in Nat, input \in Seq(Bytes)
    <3>5. <<piece>> \o f[last].units \in Seq(Seq(Bytes))
      BY ONLY <3>2, <3>4 DEF Splittings
    <3> QED BY ONLY <3>2, <3>3, <3>5 DEF Splittings, OneMore
  <2> QED BY <1>2, <2>1, <2>2, <2>3
<1>4. 0 \in S
  <2>1. L - 0 = L /\ 0 \in 0..L
    BY ONLY L \in Nat
  <2>2. ASSUME NEW c \in L..L PROVE f[c] \in Splittings
    <3>1. c \in 0..L /\ (c + 1)..L = {}
      BY ONLY <2>2, L \in Nat
    <3> QED BY <1>3, <3>1
  <2> QED BY <2>1, <2>2
<1>5. ASSUME NEW k \in 0..L, k # L, k \in S PROVE k + 1 \in S
  <2>1. PICK b : b = L - (k + 1)
    OBVIOUS
  <2>2. b \in 0..L /\ b + 1 = L - k /\ k + 1 \in 0..L
    BY ONLY <1>5, <2>1, L \in Nat
  <2>3. \A c \in (b + 1)..L : f[c] \in Splittings
    BY <1>5, <2>2
  <2>4. f[b] \in Splittings
    BY <1>3, <2>2, <2>3
  <2>5. \A c \in b..L : c = b \/ c \in (b + 1)..L
    BY ONLY <2>2, L \in Nat
  <2> QED BY <2>1, <2>2, <2>3, <2>4, <2>5
<1>6. L \in S
  <2> HIDE DEF S
  <2>1. 0..L \subseteq S
    BY <1>4, <1>5, Climb
  <2>2. L \in 0..L
    BY ONLY L \in Nat
  <2> QED BY <2>1, <2>2
<1>7. L - L = 0
  BY ONLY L \in Nat
<1> QED BY <1>1, <1>6, <1>7

LEMMA ToAnnexBSplits ==
    ASSUME NEW input \in Seq(Bytes), NEW w \in Nat
    PROVE  \E f : Splits(f, input, w) /\ Fallback!ToAnnexB(input, w) = f[0]
<1> DEFINE Q(f) == f = [c \in 0..Len(input) |->
                          IF c = Len(input) THEN [why |-> "none", units |-> << >>]
                          ELSE IF c + w > Len(input) THEN Fallback!Malformed
                          ELSE IF \/ c + w + Fallback!Number(input, c, w) = c + w
                                  \/ c + w + Fallback!Number(input, c, w) > Len(input)
                            THEN Fallback!Malformed
                          ELSE [f[c + w + Fallback!Number(input, c, w)] EXCEPT !.units =
                                  <<SubSeq(input, c + w + 1, c + w + Fallback!Number(input, c, w))>> \o @]]
<1>1. Fallback!ToAnnexB(input, w) = (CHOOSE f : Q(f))[0]
  BY DEF Fallback!ToAnnexB
<1>2. \A f : Q(f) <=> Splits(f, input, w)
  BY DEF Splits, Units
<1> HIDE DEF Q
<1>3. \E f : Q(f)
  BY <1>2, SplitsExist
<1>4. Q(CHOOSE f : Q(f))
  BY <1>3
<1> QED BY <1>1, <1>2, <1>4

(* Position c is where the units after the i-th begin *)
StandsAt(f, input, list, i, c) ==
    /\ c \in 0..Len(input) /\ f[c].why = "none"
    /\ f[c].units = SubSeq(list, i + 1, Len(list))

(* The unit after the i-th, between c and last, and its length before it *)
Follows(f, input, w, list, i, c, last) ==
    /\ c \in 0..Len(input) /\ StandsAt(f, input, list, i + 1, last)
    /\ Fallback!Digits(Len(list[i + 1]), w) = SubSeq(input, c + 1, c + w)
    /\ list[i + 1] = SubSeq(input, c + w + 1, last)

LEMMA Joined ==
    ASSUME NEW T, NEW input \in Seq(T), NEW a \in 0..Len(input), NEW b \in a..Len(input)
    PROVE  SubSeq(input, 1, a) \o SubSeq(input, a + 1, b) = SubSeq(input, 1, b)
<1>1. PICK x : x = SubSeq(input, 1, a)
  OBVIOUS
<1>2. PICK y : y = SubSeq(input, a + 1, b)
  OBVIOUS
<1>3. PICK z : z = SubSeq(input, 1, b)
  OBVIOUS
<1>4. Len(input) \in Nat /\ a \in Nat /\ b \in Nat /\ a <= b /\ b <= Len(input)
  OBVIOUS
<1>5. x \in Seq(T) /\ Len(x) = a /\ \A i \in 1..a : x[i] = input[i]
  BY <1>1, <1>4
<1>6. y \in Seq(T) /\ Len(y) = b - a /\ \A i \in 1..(b - a) : y[i] = input[a + i]
  BY <1>2, <1>4
<1>7. z \in Seq(T) /\ Len(z) = b /\ \A i \in 1..b : z[i] = input[i]
  BY <1>3, <1>4
<1>8. x \o y \in Seq(T) /\ Len(x \o y) = b
  <2>1. x \o y \in Seq(T) /\ Len(x \o y) = Len(x) + Len(y)
    BY ONLY <1>5, <1>6
  <2> QED BY ONLY <1>4, <1>5, <1>6, <2>1
<1>9. \A i \in 1..b : (x \o y)[i] = z[i]
  <2> SUFFICES ASSUME NEW i \in 1..b PROVE (x \o y)[i] = z[i]
    OBVIOUS
  <2>1. CASE i <= a
    <3>1. i \in 1..a
      BY ONLY <1>4, <2>1, i \in 1..b
    <3>2. (x \o y)[i] = x[i]
      BY ONLY <1>4, <1>5, <1>6, <3>1
    <3> QED BY <1>5, <1>7, <3>1, <3>2
  <2>2. CASE ~(i <= a)
    <3>1. i - a \in 1..(b - a) /\ a + (i - a) = i
      BY ONLY <1>4, <2>2, i \in 1..b
    <3>2. (x \o y)[i] = y[i - a]
      BY ONLY <1>4, <1>5, <1>6, <2>2, i \in 1..b
    <3> QED BY <1>6, <1>7, <3>1, <3>2
  <2> QED BY <2>1, <2>2
<1>10. x \o y = z
  BY ONLY <1>7, <1>8, <1>9
<1> QED BY <1>1, <1>2, <1>3, <1>10

(* After the first i members of a list come x and the tail *)
Remains(T, list, i, x, tail) ==
    /\ list \in Seq(T) /\ i \in Nat /\ i < Len(list) /\ x \in T /\ tail \in Seq(T)
    /\ SubSeq(list, i + 1, Len(list)) = <<x>> \o tail

LEMMA RestOf ==
    ASSUME NEW T, NEW list, NEW i, NEW x, NEW tail, Remains(T, list, i, x, tail)
    PROVE  x = list[i + 1] /\ tail = SubSeq(list, i + 2, Len(list))
<1>0. list \in Seq(T) /\ i \in Nat /\ i < Len(list) /\ x \in T /\ tail \in Seq(T)
  BY DEF Remains
<1>1. PICK m \in Nat : m = Len(list)
  BY <1>0
<1>2. PICK rest : rest = SubSeq(list, i + 1, m)
  OBVIOUS
<1>3. Len(rest) = m - i /\ \A j \in 1..(m - i) : rest[j] = list[i + j]
  BY ONLY <1>1, <1>2, <1>0
<1>4. rest = <<x>> \o tail
  BY <1>1, <1>2 DEF Remains
<1>5. Len(rest) = 1 + Len(tail) /\ rest[1] = x /\ \A j \in 1..Len(tail) : rest[j + 1] = tail[j]
  BY ONLY <1>4, <1>0
<1>6. Len(tail) \in Nat
  BY <1>0
<1>7. Len(tail) = m - i - 1 /\ 1 \in 1..(m - i)
  <2>1. PICK k \in Nat : k = Len(tail)
    BY <1>6
  <2>2. m - i = 1 + k /\ i < m
    BY <1>0, <1>1, <1>3, <1>5, <2>1
  <2>3. k = m - i - 1 /\ 1 \in 1..(m - i)
    BY ONLY <2>2, <1>0, k \in Nat, m \in Nat
  <2> QED BY <2>1, <2>3
<1>8. PICK z : z = SubSeq(list, i + 2, m)
  OBVIOUS
<1>9. /\ z \in Seq(T) /\ Len(z) = m - i - 1
      /\ \A j \in 1..(m - i - 1) : z[j] = list[i + 1 + j]
  BY ONLY <1>1, <1>8, <1>0
<1>10. ASSUME NEW j \in 1..(m - i - 1) PROVE tail[j] = z[j]
  <2>1. j + 1 \in 1..(m - i) /\ i + (j + 1) = i + 1 + j
    BY ONLY <1>1, <1>10, <1>0
  <2> QED BY <1>3, <1>5, <1>7, <1>9, <2>1
<1>11. tail = z
  BY ONLY <1>7, <1>9, <1>10, <1>0
<1> QED BY <1>1, <1>3, <1>5, <1>7, <1>8, <1>11

(* A unit is what follows its length in the input, up to where the next one begins *)
LEMMA NextUnit ==
    ASSUME NEW input \in Seq(Bytes), NEW w \in Nat, NEW f, Splits(f, input, w),
           NEW list \in Seq(Seq(Bytes)), NEW i \in 0..Len(list), i # Len(list), NEW c,
           StandsAt(f, input, list, i, c)
    PROVE  \E last \in (c + w)..Len(input) : Follows(f, input, w, list, i, c, last)
<1>1. c \in 0..Len(input) /\ f[c].why = "none" /\ f[c].units = SubSeq(list, i + 1, Len(list))
  BY DEF StandsAt
<1>2. f[c] = Units(f, input, w, c)
  BY <1>1 DEF Splits
<1>3. PICK m \in Nat : m = Len(list)
  OBVIOUS
<1>4. i \in Nat /\ i < m
  BY <1>3
<1>5. PICK rest : rest = SubSeq(list, i + 1, m)
  OBVIOUS
<1>6. rest # << >>
  <2>1. Len(rest) = m - i /\ Len(<< >>) = 0
    BY ONLY <1>3, <1>4, <1>5
  <2> QED BY ONLY <1>3, <1>4, <2>1
<1>7. f[c].units = rest
  BY <1>1, <1>3, <1>5
<1>8. Units(f, input, w, c).units # << >> /\ Units(f, input, w, c).why = "none"
  BY <1>1, <1>2, <1>6, <1>7
<1>9. PICK last \in (c + w + 1)..Len(input) :
         /\ last = c + w + Fallback!Number(input, c, w)
         /\ Units(f, input, w, c) = OneMore(f, input, w, c, last)
  <2>1. \/ Units(f, input, w, c).units = << >> \/ Units(f, input, w, c).why = "decode"
        \/ \E last \in (c + w + 1)..Len(input) :
             /\ last = c + w + Fallback!Number(input, c, w)
             /\ Units(f, input, w, c) = OneMore(f, input, w, c, last)
    BY <1>1, UnitsFrom
  <2> QED BY <1>8, <2>1
<1>10. PICK L \in Nat : L = Len(input)
  OBVIOUS
<1>11. last \in (c + w)..L /\ last \in 0..L /\ c + w <= L /\ c \in Nat
  BY ONLY <1>1, <1>9, <1>10, w \in Nat
<1>12. f[last] \in Splittings
  BY <1>10, <1>11, SplitsType
<1>13. PICK piece : piece = SubSeq(input, c + w + 1, last)
  OBVIOUS
<1>14. piece \in Seq(Bytes) /\ Len(piece) = last - (c + w)
  BY ONLY <1>9, <1>10, <1>11, <1>13, w \in Nat, input \in Seq(Bytes)
<1>15. f[c] = [f[last] EXCEPT !.units = <<piece>> \o @]
  BY ONLY <1>2, <1>9, <1>13 DEF OneMore
<1>16. PICK tail \in Seq(Seq(Bytes)) : tail = f[last].units
  BY <1>12 DEF Splittings
<1>17. f[c].units = <<piece>> \o tail /\ f[c].why = f[last].why
  BY ONLY <1>12, <1>15, <1>16 DEF Splittings
<1>18. rest = <<piece>> \o tail
  BY <1>7, <1>17
<1>19. piece = list[i + 1] /\ tail = SubSeq(list, i + 2, m)
  <2>1. SubSeq(list, i + 1, Len(list)) = <<piece>> \o tail
    BY <1>3, <1>5, <1>18
  <2>2. PICK T : T = Seq(Bytes)
    OBVIOUS
  <2>3. list \in Seq(T) /\ piece \in T /\ tail \in Seq(T) /\ i < Len(list)
    BY <1>3, <1>4, <1>14, <2>2
  <2>4. Remains(T, list, i, piece, tail)
    BY ONLY <1>4, <2>1, <2>3 DEF Remains
  <2>5. piece = list[i + 1] /\ tail = SubSeq(list, i + 2, Len(list))
    BY ONLY <2>4, RestOf
  <2> QED BY <1>3, <2>5
<1>20. StandsAt(f, input, list, i + 1, last)
  <2>1. i + 1 + 1 = i + 2
    BY ONLY <1>4
  <2> QED BY <1>1, <1>3, <1>10, <1>11, <1>16, <1>17, <1>19, <2>1 DEF StandsAt
<1>21. Fallback!Number(input, c, w) \in Nat
  BY <1>10, <1>11, NumberType
<1>22. Len(piece) = Fallback!Number(input, c, w)
  BY ONLY <1>9, <1>11, <1>14, <1>21, w \in Nat
<1>23. Fallback!Digits(Len(list[i + 1]), w) = SubSeq(input, c + 1, c + w)
  BY <1>10, <1>11, <1>19, <1>22, DigitsOfNumber
<1>24. Follows(f, input, w, list, i, c, last)
  BY <1>1, <1>13, <1>19, <1>20, <1>23 DEF Follows
<1> QED BY <1>10, <1>11, <1>24

(* Of a splitting that succeeds, the units with their lengths are the input *)
LEMMA EncodeUndoes ==
    ASSUME NEW input \in Seq(Bytes), input # << >>, NEW w \in Nat,
           Fallback!ToAnnexB(input, w).why = "none"
    PROVE  /\ Fallback!ToAnnexB(input, w).units \in Seq(Seq(Bytes)) \ {<< >>}
           /\ Fallback!Encode(Fallback!ToAnnexB(input, w).units, w) = input
<1>1. PICK f : Splits(f, input, w) /\ Fallback!ToAnnexB(input, w) = f[0]
  BY ToAnnexBSplits
<1>2. Len(input) \in Nat /\ 0 \in 0..Len(input) /\ Len(input) # 0
  OBVIOUS
<1>3. f[0] \in Splittings
  BY <1>1, <1>2, SplitsType
<1>4. PICK list \in Seq(Seq(Bytes)) : list = f[0].units
  BY <1>3 DEF Splittings
<1>5. PICK m \in Nat : m = Len(list)
  OBVIOUS
<1>6. StandsAt(f, input, list, 0, 0)
  <2>1. SubSeq(list, 0 + 1, Len(list)) = list
    OBVIOUS
  <2> QED BY <1>1, <1>2, <1>4, <2>1 DEF StandsAt
(* A position where no unit is left is the end *)
<1>7. ASSUME NEW c, StandsAt(f, input, list, m, c) PROVE c = Len(input)
  <2>1. SubSeq(list, m + 1, Len(list)) = << >>
    BY ONLY <1>5, list \in Seq(Seq(Bytes))
  <2>2. c \in 0..Len(input) /\ f[c].why = "none" /\ f[c].units = << >>
    BY <1>5, <1>7, <2>1 DEF StandsAt
  <2>3. f[c] = Units(f, input, w, c)
    BY <1>1, <2>2 DEF Splits
  <2>4. ASSUME NEW last \in (c + w + 1)..Len(input), f[c] = OneMore(f, input, w, c, last)
        PROVE  FALSE
    <3>1. last \in 0..Len(input)
      BY ONLY <1>2, <2>2, <2>4, w \in Nat
    <3>2. f[last] \in Splittings
      BY <1>1, <3>1, SplitsType
    <3>3. PICK piece, tail : piece = SubSeq(input, c + w + 1, last) /\ tail = f[last].units
      OBVIOUS
    <3>0. tail \in Seq(Seq(Bytes))
      BY ONLY <3>2, <3>3 DEF Splittings
    <3>4. f[c].units = <<piece>> \o tail
      BY ONLY <2>4, <3>2, <3>3 DEF OneMore, Splittings
    <3>5. piece \in Seq(Bytes)
      BY ONLY <1>2, <2>2, <2>4, <3>3, w \in Nat, input \in Seq(Bytes)
    <3>6. PICK T : T = Seq(Bytes)
      OBVIOUS
    <3>7. piece \in T /\ tail \in Seq(T) /\ <<piece>> \o tail = << >>
      BY <2>2, <3>0, <3>3, <3>4, <3>5, <3>6
    <3> QED BY ONLY <3>7
  <2>5. \/ c = Len(input) \/ Units(f, input, w, c).why = "decode"
        \/ \E last \in (c + w + 1)..Len(input) : Units(f, input, w, c) = OneMore(f, input, w, c, last)
    BY <2>2, UnitsFrom
  <2> QED BY <2>2, <2>3, <2>4, <2>5
<1>8. list # << >>
  <2> SUFFICES ASSUME list = << >> PROVE FALSE
    OBVIOUS
  <2>1. m = 0
    BY <1>5
  <2> QED BY <1>2, <1>6, <1>7, <2>1
<1>9. ASSUME NEW i \in 0..m, i # m, NEW c, StandsAt(f, input, list, i, c)
      PROVE  \E last \in (c + w)..Len(input) : Follows(f, input, w, list, i, c, last)
  <2>1. i \in 0..Len(list) /\ i # Len(list)
    BY <1>5, <1>9
  <2> QED BY ONLY <1>1, <1>9, <2>1, input \in Seq(Bytes), w \in Nat, list \in Seq(Seq(Bytes)), NextUnit
<1>10. \A i \in 0..m : \E c : StandsAt(f, input, list, i, c)
  <2> DEFINE S == {i \in 0..m : \E c : StandsAt(f, input, list, i, c)}
  <2>1. 0 \in S
    <3>1. 0 \in 0..m
      BY ONLY m \in Nat
    <3> QED BY <1>6, <3>1
  <2>2. ASSUME NEW i \in 0..m, i # m, i \in S PROVE i + 1 \in S
    <3>1. i + 1 \in 0..m
      BY ONLY <2>2, m \in Nat
    <3>2. PICK c : StandsAt(f, input, list, i, c)
      BY <2>2
    <3>3. PICK last : Follows(f, input, w, list, i, c, last)
      BY <1>9, <2>2, <3>2
    <3> QED BY <3>1, <3>3 DEF Follows
  <2>3. 0..m \subseteq S
    <3> HIDE DEF S
    <3> QED BY <2>1, <2>2, Climb
  <2> QED BY <2>3
<1>11. ASSUME NEW i \in 1..m
       PROVE  Fallback!Digits(Len(list[i]), w) \in Seq(Bytes) /\ list[i] \in Seq(Bytes)
  <2>1. i - 1 \in 0..m /\ i - 1 # m /\ i - 1 + 1 = i
    BY ONLY <1>11, m \in Nat
  <2>2. PICK c : StandsAt(f, input, list, i - 1, c)
    BY <1>10, <2>1
  <2>0. PICK last \in (c + w)..Len(input) : Follows(f, input, w, list, i - 1, c, last)
    BY <1>9, <2>1, <2>2
  <2>3. /\ c \in 0..Len(input) /\ last \in (c + w)..Len(input)
        /\ Fallback!Digits(Len(list[i]), w) = SubSeq(input, c + 1, c + w)
        /\ list[i] = SubSeq(input, c + w + 1, last)
    BY <2>0, <2>1 DEF Follows
  <2>4. PICK x, y : x = SubSeq(input, c + 1, c + w) /\ y = SubSeq(input, c + w + 1, last)
    OBVIOUS
  <2>5. x \in Seq(Bytes) /\ y \in Seq(Bytes)
    BY ONLY <1>2, <2>3, <2>4, w \in Nat, input \in Seq(Bytes)
  <2> QED BY <2>3, <2>4, <2>5
<1> DEFINE Q(e) == e = [i \in 0..Len(list) |-> IF i = 0 THEN << >>
                          ELSE e[i - 1] \o Fallback!Digits(Len(list[i]), w) \o list[i]]
<1>12. Fallback!Encode(list, w) = (CHOOSE e : Q(e))[m]
  BY <1>5 DEF Fallback!Encode
<1>13. \E e : Q(e)
  <2>1. PICK g : g = [p \in (1..m) \X Seq(Bytes) |->
                        p[2] \o Fallback!Digits(Len(list[p[1]]), w) \o list[p[1]]]
    OBVIOUS
  <2>2. \A i \in 1..m, y \in Seq(Bytes) :
          g[i, y] = y \o Fallback!Digits(Len(list[i]), w) \o list[i]
    BY ONLY <2>1
  <2>3. \A x, y, z \in Seq(Bytes) : x \o y \o z \in Seq(Bytes)
    OBVIOUS
  <2>4. \A i \in 1..m, y \in Seq(Bytes) : g[i, y] \in Seq(Bytes)
    <3> SUFFICES ASSUME NEW i \in 1..m, NEW y \in Seq(Bytes) PROVE g[i, y] \in Seq(Bytes)
      OBVIOUS
    <3>1. PICK x, z : x = Fallback!Digits(Len(list[i]), w) /\ z = list[i]
      OBVIOUS
    <3>2. x \in Seq(Bytes) /\ z \in Seq(Bytes)
      BY <1>11, <3>1
    <3>3. g[i, y] = y \o x \o z
      BY ONLY <2>2, <3>1, i \in 1..m, y \in Seq(Bytes)
    <3> QED BY ONLY <2>3, <3>2, <3>3, y \in Seq(Bytes)
  <2>5. << >> \in Seq(Bytes)
    OBVIOUS
  <2>6. PICK e : Recursion(e, m, Seq(Bytes), << >>, g)
    BY <2>4, <2>5, RecursionEnds
  <2>7. e \in [0..m -> Seq(Bytes)] /\ e[0] = << >> /\ \A i \in 1..m : e[i] = g[i, e[i - 1]]
    BY <2>6 DEF Recursion
  <2>8. \A i \in 0..m : i # 0 => i \in 1..m /\ i - 1 \in 0..m
    BY ONLY m \in Nat
  <2>9. \A i \in 0..m : i # 0 =>
          e[i] = e[i - 1] \o Fallback!Digits(Len(list[i]), w) \o list[i]
    BY ONLY <2>2, <2>7, <2>8
  <2>10. e = [i \in 0..m |-> e[i]]
    BY ONLY <2>7
  <2>11. e = [i \in 0..m |-> IF i = 0 THEN << >>
                ELSE e[i - 1] \o Fallback!Digits(Len(list[i]), w) \o list[i]]
    BY ONLY <2>7, <2>9, <2>10
  <2> QED BY <1>5, <2>11
<1>14. PICK e : e = CHOOSE x : Q(x)
  OBVIOUS
<1>15. Q(e)
  <2> HIDE DEF Q
  <2> QED BY <1>13, <1>14
(* What is encoded of the units before a position is the input before it *)
<1>16. \A i \in 0..m : \E c : StandsAt(f, input, list, i, c) /\ e[i] = SubSeq(input, 1, c)
  <2> DEFINE S == {i \in 0..m : \E c : StandsAt(f, input, list, i, c) /\ e[i] = SubSeq(input, 1, c)}
  <2>1. 0 \in S
    <3>1. 0 \in 0..m
      BY ONLY m \in Nat
    <3>2. SubSeq(input, 1, 0) = << >>
      OBVIOUS
    <3>3. e[0] = << >>
      BY <1>5, <1>15, <3>1
    <3> QED BY <1>6, <3>1, <3>2, <3>3
  <2>2. ASSUME NEW i \in 0..m, i # m, i \in S PROVE i + 1 \in S
    <3>1. i + 1 \in 0..m /\ i + 1 # 0 /\ i + 1 - 1 = i
      BY ONLY <2>2, m \in Nat
    <3>2. PICK c : StandsAt(f, input, list, i, c) /\ e[i] = SubSeq(input, 1, c)
      BY <2>2
    <3>0. PICK last \in (c + w)..Len(input) : Follows(f, input, w, list, i, c, last)
      BY <1>9, <2>2, <3>2
    <3>3. /\ c \in 0..Len(input) /\ last \in (c + w)..Len(input)
          /\ StandsAt(f, input, list, i + 1, last)
          /\ Fallback!Digits(Len(list[i + 1]), w) = SubSeq(input, c + 1, c + w)
          /\ list[i + 1] = SubSeq(input, c + w + 1, last)
      BY <3>0 DEF Follows
    <3>4. e[i + 1] = e[i] \o Fallback!Digits(Len(list[i + 1]), w) \o list[i + 1]
      <4>1. \A j \in 0..m : j # 0 =>
              e[j] = e[j - 1] \o Fallback!Digits(Len(list[j]), w) \o list[j]
        BY ONLY <1>5, <1>15
      <4>2. PICK j \in 0..m : j = i + 1 /\ j # 0 /\ j - 1 = i
        BY <3>1
      <4>3. e[j] = e[j - 1] \o Fallback!Digits(Len(list[j]), w) \o list[j]
        BY <4>1, <4>2
      <4> QED BY ONLY <4>2, <4>3
    <3>5. c + w \in c..Len(input) /\ c + w \in 0..Len(input)
      BY ONLY <1>2, <3>3, w \in Nat
    <3>6. SubSeq(input, 1, c) \o SubSeq(input, c + 1, c + w) = SubSeq(input, 1, c + w)
      BY <3>3, <3>5, Joined
    <3>7. SubSeq(input, 1, c + w) \o SubSeq(input, c + w + 1, last) = SubSeq(input, 1, last)
      BY <3>3, <3>5, Joined
    <3>8. e[i + 1] = SubSeq(input, 1, last)
      BY <3>2, <3>3, <3>4, <3>6, <3>7
    <3> QED BY <3>1, <3>3, <3>8
  <2>3. 0..m \subseteq S
    <3> HIDE DEF S
    <3> QED BY <2>1, <2>2, Climb
  <2> QED BY <2>3
<1>17. e[m] = input
  <2>1. m \in 0..m
    BY ONLY m \in Nat
  <2>2. PICK c : StandsAt(f, input, list, m, c) /\ e[m] = SubSeq(input, 1, c)
    BY <1>16, <2>1
  <2>3. c = Len(input)
    BY <1>7, <2>2
  <2>4. SubSeq(input, 1, Len(input)) = input
    OBVIOUS
  <2> QED BY <2>2, <2>3, <2>4
<1> HIDE DEF Q
<1> QED BY <1>1, <1>4, <1>8, <1>12, <1>14, <1>17
-----------------------------------------------------------------------------
(* What the decoder was given so far, counted by the position in the track. *)
Samples == [sync : BOOLEAN, bytes : Seq(Bytes)]

DecoderTypeOK ==
    /\ track \in Seq(Samples) /\ prefix \in Prefixes /\ at \in Nat \ {0} /\ at <= Fallback!SampleLimit + 1
    /\ bytes \in Nat /\ errors \in Nat
    /\ fed \in Seq(Nat) /\ sync \in BOOLEAN

(* Each sample is fed once, before the position, and not before a sync sample was seen *)
FedInOrder ==
    /\ Len(fed) < at
    /\ sync => \E j \in 1..(at - 1) : track[j].sync
    /\ \A i \in DOMAIN fed : fed[i] \in 1..(at - 1)

DecoderInv ==
    /\ DecoderTypeOK /\ FedInOrder
    /\ result = "none" => errors <= MaxErrors
    /\ Fallback!WithinLimits

LEMMA DecoderConstants ==
    /\ MaxSamples \in Nat \ {0} /\ MaxSampleBytes \in Nat /\ MaxDecodeBytes \in Nat
    /\ MaxErrors \in Nat /\ Tracks \in SUBSET Seq(Samples)
  BY ServicesAssumption DEF Fallback!FallbackAssumption, Samples, Bytes

LEMMA SampleLimitMeans ==
    ASSUME track \in Seq(Samples)
    PROVE  /\ Fallback!SampleLimit \in Nat /\ Fallback!SampleLimit <= Len(track)
           /\ Fallback!SampleLimit <= MaxSamples
  BY DecoderConstants DEF Fallback!SampleLimit, Fallback!Minimum

LEMMA DecoderInit == Fallback!Init => DecoderInv
<1> SUFFICES ASSUME Fallback!Init PROVE DecoderInv
  OBVIOUS
<1>1. /\ track \in Seq(Samples) /\ prefix \in Prefixes /\ at = 1 /\ sync = FALSE /\ bytes = 0 /\ errors = 0
      /\ fed = << >>
  BY DecoderConstants DEF Fallback!Init
<1>2. DecoderTypeOK
  <2>1. Fallback!SampleLimit \in Nat
    BY <1>1, SampleLimitMeans
  <2>2. at \in Nat \ {0} /\ at <= Fallback!SampleLimit + 1 /\ bytes \in Nat /\ errors \in Nat
    BY <1>1, <2>1
  <2>3. sync \in BOOLEAN
    BY <1>1
  <2>4. << >> \in Seq(Nat)
    OBVIOUS
  <2> QED BY <1>1, <2>2, <2>3, <2>4 DEF DecoderTypeOK
<1>3. FedInOrder /\ Fallback!WithinLimits
  BY <1>1, DecoderConstants DEF FedInOrder, Fallback!WithinLimits
<1> QED BY <1>1, <1>2, <1>3, DecoderConstants DEF DecoderInv

LEMMA DecoderStep == DecoderInv /\ [Fallback!Next]_(Fallback!vars) => DecoderInv'
<1> SUFFICES ASSUME DecoderInv, [Fallback!Next]_(Fallback!vars) PROVE DecoderInv'
  OBVIOUS
<1>1. /\ DecoderTypeOK /\ FedInOrder /\ (result = "none" => errors <= MaxErrors)
      /\ Fallback!WithinLimits
  BY DEF DecoderInv
<1>2. track' = track /\ prefix' = prefix /\ Fallback!SampleLimit' = Fallback!SampleLimit
  BY DEF Fallback!Next, Fallback!vars, Fallback!ParameterSetFails, Fallback!SkipSample,
    Fallback!ReadSample, Fallback!DecodeUnit, Fallback!NoFrame, Fallback!SampleLimit
<1>3. /\ Fallback!SampleLimit \in Nat /\ Fallback!SampleLimit <= Len(track)
      /\ Fallback!SampleLimit <= MaxSamples
  BY <1>1, SampleLimitMeans DEF DecoderTypeOK
<1>4. ASSUME UNCHANGED <<at, sync, bytes, fed>>,
             \/ UNCHANGED <<errors, result>>
             \/ result = "none" /\ errors' = errors + 1
                  /\ result' = IF errors' > MaxErrors THEN "decode" ELSE "none"
             \/ result' # "none" /\ UNCHANGED errors
      PROVE  DecoderInv'
  <2>1. errors \in Nat /\ errors' \in Nat /\ errors <= MaxErrors + 1
    BY <1>1, <1>4 DEF DecoderTypeOK, Fallback!WithinLimits
  <2>2. (result' = "none" => errors' <= MaxErrors) /\ errors' <= MaxErrors + 1
    BY <1>1, <1>4, <2>1, DecoderConstants
  <2>3. DecoderTypeOK' /\ FedInOrder'
    BY <1>1, <1>2, <1>4, <2>1 DEF DecoderTypeOK, FedInOrder
  <2>4. Fallback!WithinLimits'
    BY <1>1, <1>2, <1>4, <2>2 DEF Fallback!WithinLimits
  <2> QED BY <2>2, <2>3, <2>4 DEF DecoderInv
<1>5. CASE Fallback!ParameterSetFails
  BY <1>4, <1>5 DEF Fallback!ParameterSetFails
<1>6. CASE Fallback!DecodeUnit
  <2>1. UNCHANGED <<at, sync, bytes, fed>> /\ result = "none"
    BY <1>6 DEF Fallback!DecodeUnit
  <2>2. \/ UNCHANGED <<errors, result>>
        \/ errors' = errors + 1 /\ result' = IF errors' > MaxErrors THEN "decode" ELSE "none"
        \/ result' # "none" /\ UNCHANGED errors
    BY <1>6 DEF Fallback!DecodeUnit
  <2> QED BY <1>4, <2>1, <2>2
<1>7. CASE Fallback!NoFrame
  <2>1. UNCHANGED <<at, sync, bytes, fed, errors>> /\ result' # "none"
    BY <1>7 DEF Fallback!NoFrame
  <2> QED BY <1>4, <2>1
<1>8. CASE UNCHANGED Fallback!vars
  <2>1. UNCHANGED <<at, sync, bytes, fed, errors, result>>
    BY <1>8 DEF Fallback!vars
  <2> QED BY <1>4, <2>1
<1>9. ASSUME Fallback!Reading, at' = at + 1, UNCHANGED errors, fed' \in Seq(Nat), bytes' \in Nat,
             sync' \in BOOLEAN, sync' => \E j \in 1..at : track[j].sync,
             bytes' <= MaxDecodeBytes, Len(fed') < at',
             \A i \in DOMAIN fed' : /\ fed'[i] \in 1..at
                                    /\ Len(track[fed'[i]].bytes) <= MaxSampleBytes
                                    /\ \E j \in 1..fed'[i] : track[j].sync
      PROVE  DecoderInv'
  <2>1. at \in Nat \ {0} /\ at <= Fallback!SampleLimit /\ result = "none" /\ at' - 1 = at
    BY <1>1, <1>9 DEF Fallback!Reading, DecoderTypeOK
  <2>2. DecoderTypeOK'
    BY <1>1, <1>2, <1>3, <1>9, <2>1 DEF DecoderTypeOK
  <2>3. FedInOrder'
    BY <1>2, <1>9, <2>1 DEF FedInOrder
  <2>4. errors <= MaxErrors /\ errors \in Nat
    BY <1>1, <2>1 DEF DecoderTypeOK
  <2>5. Len(fed') <= MaxSamples
    <3>1. Len(fed') \in Nat
      BY <1>9
    <3> QED BY <1>3, <1>9, <2>1, <3>1, DecoderConstants
  <2>6. Fallback!WithinLimits'
    BY <1>2, <1>9, <2>4, <2>5, DecoderConstants DEF Fallback!WithinLimits
  <2> QED BY <1>9, <2>2, <2>3, <2>4, <2>6 DEF DecoderInv
<1>10. /\ at \in Nat \ {0} /\ fed \in Seq(Nat) /\ bytes \in Nat /\ bytes <= MaxDecodeBytes
       /\ sync \in BOOLEAN /\ Len(fed) < at /\ Len(fed) \in Nat
       /\ sync => \E j \in 1..at : track[j].sync
       /\ \A i \in DOMAIN fed : /\ fed[i] \in 1..at
                                /\ Len(track[fed[i]].bytes) <= MaxSampleBytes
                                /\ \E j \in 1..fed[i] : track[j].sync
  BY <1>1 DEF DecoderTypeOK, FedInOrder, Fallback!WithinLimits
<1>11. CASE Fallback!SkipSample
  <2>1. Fallback!Reading /\ at' = at + 1 /\ UNCHANGED <<sync, bytes, errors, fed>>
    BY <1>11 DEF Fallback!SkipSample
  <2> QED BY <1>9, <1>10, <2>1
<1>12. CASE Fallback!ReadSample
  <2>1. /\ Fallback!Reading /\ (sync \/ Fallback!Current.sync) /\ sync' = TRUE /\ at' = at + 1
        /\ UNCHANGED errors
    BY <1>12 DEF Fallback!ReadSample
  <2>2. \E j \in 1..at : track[j].sync
    BY <1>10, <2>1 DEF Fallback!Current
  <2>3. CASE UNCHANGED <<bytes, fed>>
    BY <1>9, <1>10, <2>1, <2>2, <2>3
  <2>4. ASSUME /\ Len(track[at].bytes) \in 1..MaxSampleBytes
               /\ ~(bytes + Len(track[at].bytes) > MaxDecodeBytes)
               /\ bytes' = bytes + Len(track[at].bytes)
               /\ fed' \in {fed, Append(fed, at)}
        PROVE  DecoderInv'
    <3>1. bytes' \in Nat /\ bytes' <= MaxDecodeBytes
      BY <1>10, <2>4, DecoderConstants
    <3>2. CASE fed' = fed
      BY <1>9, <1>10, <2>1, <2>2, <3>1, <3>2
    <3>3. CASE fed' = Append(fed, at)
      <4>1. fed' \in Seq(Nat) /\ Len(fed') = Len(fed) + 1
        BY <1>10, <3>3
      <4>2. \A i \in DOMAIN fed' : (i \in DOMAIN fed /\ fed'[i] = fed[i]) \/ fed'[i] = at
        BY <1>10, <3>3
      <4>3. \A i \in DOMAIN fed' : /\ fed'[i] \in 1..at
                                   /\ Len(track[fed'[i]].bytes) <= MaxSampleBytes
                                   /\ \E j \in 1..fed'[i] : track[j].sync
        <5> SUFFICES ASSUME NEW i \in DOMAIN fed'
                     PROVE  /\ fed'[i] \in 1..at
                            /\ Len(track[fed'[i]].bytes) <= MaxSampleBytes
                            /\ \E j \in 1..fed'[i] : track[j].sync
          OBVIOUS
        <5>1. CASE i \in DOMAIN fed /\ fed'[i] = fed[i]
          BY <1>10, <5>1
        <5>2. CASE fed'[i] = at
          BY <1>10, <2>2, <2>4, <5>2, DecoderConstants
        <5> QED BY <4>2, <5>1, <5>2
      <4>4. Len(fed') < at'
        BY <1>10, <2>1, <4>1
      <4> QED BY <1>9, <1>10, <2>1, <2>2, <3>1, <4>1, <4>3, <4>4
    <3> QED BY <2>4, <3>2, <3>3
  <2>5. CASE UNCHANGED <<bytes, units, fed>>
    BY <2>3, <2>5
  <2> QED BY <1>12, <2>4, <2>5 DEF Fallback!ReadSample, Fallback!Current
<1> QED BY <1>5, <1>6, <1>7, <1>8, <1>11, <1>12 DEF Fallback!Next

(* Every sample that was fed was split without an error, and the units still to decode
   are the last ones of the sample fed last *)
UnitsLeft(list) == \E k \in 0..Len(list) : units = SubSeq(list, k + 1, Len(list))

FedWhole ==
    /\ \A i \in DOMAIN fed :
         /\ track[fed[i]].bytes # << >>
         /\ Fallback!ToAnnexB(track[fed[i]].bytes, prefix).why = "none"
    /\ fed # << >> => UnitsLeft(Fallback!ToAnnexB(track[fed[Len(fed)]].bytes, prefix).units)

LEMMA Converted ==
    ASSUME NEW input, NEW w, NEW x, x = Fallback!avcc_to_annex_b(input, w)
    PROVE  /\ x.why = "none" => x = Fallback!ToAnnexB(input, w)
           /\ x.why # "none" => x.units = << >>
  BY DEF Fallback!avcc_to_annex_b, Fallback!Malformed

(* The samples that were fed are split into units that encode them *)
LEMMA FedEncodes ==
    ASSUME DecoderInv, FedWhole, NEW i \in DOMAIN fed
    PROVE  LET input == track[fed[i]].bytes
               list == Fallback!ToAnnexB(input, prefix).units
           IN  list \in Seq(Seq(Bytes)) \ {<< >>} /\ Fallback!Encode(list, prefix) = input
<1>1. /\ DecoderTypeOK /\ FedInOrder
  BY DEF DecoderInv
<1>2. Fallback!SampleLimit \in Nat /\ Fallback!SampleLimit <= Len(track)
  BY <1>1, SampleLimitMeans DEF DecoderTypeOK
<1>3. fed[i] \in 1..(at - 1) /\ at \in Nat /\ at <= Fallback!SampleLimit + 1 /\ Len(track) \in Nat
  BY <1>1 DEF DecoderTypeOK, FedInOrder
<1>4. fed[i] \in 1..Len(track)
  BY ONLY <1>2, <1>3
<1>5. track[fed[i]] \in Samples
  BY <1>1, <1>4 DEF DecoderTypeOK
<1>6. PICK input : input = track[fed[i]].bytes
  OBVIOUS
<1>7. input \in Seq(Bytes) /\ prefix \in Nat
  BY <1>1, <1>5, <1>6, BaseType DEF Samples, DecoderTypeOK
<1>8. input # << >> /\ Fallback!ToAnnexB(input, prefix).why = "none"
  BY <1>6 DEF FedWhole
<1>9. PICK list : list = Fallback!ToAnnexB(input, prefix).units
  OBVIOUS
<1>10. list \in Seq(Seq(Bytes)) \ {<< >>} /\ Fallback!Encode(list, prefix) = input
  BY <1>7, <1>8, <1>9, EncodeUndoes
<1> QED BY <1>6, <1>9, <1>10

LEMMA FedStep ==
    ASSUME DecoderInv, FedWhole, [Fallback!Next]_(Fallback!vars)
    PROVE  FedWhole'
<1>1. ASSUME UNCHANGED <<track, prefix, units, fed>> PROVE FedWhole'
  BY <1>1 DEF FedWhole, UnitsLeft
<1>2. CASE Fallback!ParameterSetFails
  BY <1>1, <1>2 DEF Fallback!ParameterSetFails
<1>3. CASE Fallback!SkipSample
  BY <1>1, <1>3 DEF Fallback!SkipSample
<1>4. CASE Fallback!NoFrame
  BY <1>1, <1>4 DEF Fallback!NoFrame
<1>5. CASE UNCHANGED Fallback!vars
  BY <1>1, <1>5 DEF Fallback!vars
<1>6. fed \in Seq(Nat)
  BY DEF DecoderInv, DecoderTypeOK
<1>7. PICK list : list = Fallback!ToAnnexB(track[fed[Len(fed)]].bytes, prefix).units
  OBVIOUS
<1>8. ASSUME fed # << >> PROVE list \in Seq(Seq(Bytes)) /\ UnitsLeft(list)
  <2>1. Len(fed) \in DOMAIN fed
    BY <1>6, <1>8
  <2> QED BY <1>7, <1>8, <2>1, FedEncodes DEF FedWhole
(* A decoded unit leaves the others. *)
<1>9. CASE Fallback!DecodeUnit
  <2>1. UNCHANGED <<track, prefix, fed>> /\ units # << >> /\ units' = Tail(units)
    BY <1>9 DEF Fallback!DecodeUnit
  <2>2. ASSUME fed # << >> PROVE UnitsLeft(list)'
    <3>1. list \in Seq(Seq(Bytes))
      BY <1>8, <2>2
    <3>2. PICK k \in 0..Len(list) : units = SubSeq(list, k + 1, Len(list))
      BY <1>8, <2>2 DEF UnitsLeft
    <3>3. PICK m \in Nat : m = Len(list)
      BY <3>1
    <3>4. PICK T : T = Seq(Bytes)
      OBVIOUS
    <3>5. list \in Seq(T) /\ k \in 0..m /\ units = SubSeq(list, k + 1, m)
      BY <3>1, <3>2, <3>3, <3>4
    <3>6. k # m
      <4> SUFFICES ASSUME k = m PROVE FALSE
        OBVIOUS
      <4>1. SubSeq(list, m + 1, m) = << >>
        BY ONLY <3>3, <3>5
      <4> QED BY <2>1, <3>5, <4>1
    <3>7. Tail(units) = SubSeq(list, (k + 1) + 1, m) /\ k + 1 \in 0..m
      BY ONLY <3>3, <3>5, <3>6
    <3> QED BY <2>1, <3>3, <3>7 DEF UnitsLeft
  <2> QED BY <1>7, <2>1, <2>2 DEF FedWhole, UnitsLeft
<1>10. CASE Fallback!ReadSample
  <2>1. PICK input : input = track[at].bytes
    OBVIOUS
  <2>2. PICK x : x = Fallback!avcc_to_annex_b(input, prefix)
    OBVIOUS
  <2>3. UNCHANGED <<track, prefix>> /\ Fallback!Reading
    BY <1>10 DEF Fallback!ReadSample
  <2>4. \/ UNCHANGED <<units, fed>>
        \/ /\ Len(input) \in 1..MaxSampleBytes
           /\ units' = x.units /\ fed' = IF x.why = "none" THEN Append(fed, at) ELSE fed
    BY <1>10, <2>1, <2>2 DEF Fallback!ReadSample, Fallback!Current
  <2>5. CASE UNCHANGED <<units, fed>>
    BY <1>1, <2>3, <2>5
  <2>6. /\ at \in 1..Len(track) /\ Len(track) \in Nat /\ track \in Seq(Samples)
        /\ prefix \in Nat
    <3>1. /\ track \in Seq(Samples) /\ prefix \in Prefixes /\ at \in Nat \ {0}
          /\ at <= Fallback!SampleLimit
      BY <2>3 DEF DecoderInv, DecoderTypeOK, Fallback!Reading
    <3>2. Fallback!SampleLimit \in Nat /\ Fallback!SampleLimit <= Len(track)
      BY <3>1, SampleLimitMeans
    <3>3. Len(track) \in Nat
      BY <3>1
    <3>4. at \in 1..Len(track)
      BY ONLY <3>1, <3>2, <3>3
    <3> QED BY <3>1, <3>3, <3>4, BaseType
  <2>7. input \in Seq(Bytes)
    <3>1. track[at] \in Samples
      BY <2>6
    <3> QED BY <2>1, <3>1 DEF Samples
  (* Its units follow those of the samples before. *)
  <2>8. CASE Len(input) \in 1..MaxSampleBytes /\ x.why = "none" /\ units' = x.units /\ fed' = Append(fed, at)
    <3>1. input # << >>
      BY <2>7, <2>8, DecoderConstants
    <3>2. x = Fallback!ToAnnexB(input, prefix) /\ x.why = "none"
      BY <2>2, <2>8, Converted
    <3>3. x.units \in Seq(Seq(Bytes))
      BY <2>6, <2>7, <3>1, <3>2, EncodeUndoes
    <3>4. /\ fed' # << >> /\ fed'[Len(fed')] = at
          /\ \A i \in DOMAIN fed' : fed'[i] = at \/ (i \in DOMAIN fed /\ fed'[i] = fed[i])
      BY <1>6, <2>6, <2>8
    <3>5. \A i \in DOMAIN fed' :
            /\ track[fed'[i]].bytes # << >>
            /\ Fallback!ToAnnexB(track[fed'[i]].bytes, prefix).why = "none"
      <4> SUFFICES ASSUME NEW i \in DOMAIN fed'
                   PROVE  /\ track[fed'[i]].bytes # << >>
                          /\ Fallback!ToAnnexB(track[fed'[i]].bytes, prefix).why = "none"
        OBVIOUS
      <4>1. CASE fed'[i] = at
        BY <2>1, <3>1, <3>2, <4>1
      <4>2. CASE i \in DOMAIN fed /\ fed'[i] = fed[i]
        BY <4>2 DEF FedWhole
      <4> QED BY <3>4, <4>1, <4>2
    <3>6. UnitsLeft(x.units)'
      <4>1. PICK parts : parts = x.units
        OBVIOUS
      <4>2. parts \in Seq(Seq(Bytes)) /\ units' = parts
        BY <2>8, <3>3, <4>1
      <4>3. SubSeq(parts, 0 + 1, Len(parts)) = parts /\ 0 \in 0..Len(parts)
        BY ONLY <4>2
      <4> QED BY <4>1, <4>2, <4>3 DEF UnitsLeft
    <3>7. Fallback!ToAnnexB(track[fed'[Len(fed')]].bytes, prefix).units = x.units
      BY <2>1, <3>2, <3>4
    <3> QED BY <2>3, <3>5, <3>6, <3>7 DEF FedWhole, UnitsLeft
  (* A sample that cannot be split leaves nothing to decode. *)
  <2>9. CASE x.why # "none" /\ units' = x.units /\ fed' = fed
    <3>1. units' = << >>
      BY <2>2, <2>9, Converted
    <3>2. ASSUME fed # << >> PROVE UnitsLeft(list)'
      <4>1. list \in Seq(Seq(Bytes))
        BY <1>8, <3>2
      <4>2. SubSeq(list, Len(list) + 1, Len(list)) = << >> /\ Len(list) \in 0..Len(list)
        BY ONLY <4>1
      <4> QED BY <3>1, <4>2 DEF UnitsLeft
    <3> QED BY <1>7, <2>3, <2>9, <3>2 DEF FedWhole, UnitsLeft
  <2> QED BY <2>4, <2>5, <2>8, <2>9
<1> QED BY <1>2, <1>3, <1>4, <1>5, <1>9, <1>10 DEF Fallback!Next

DecoderPartInv == part = "fallback" => DecoderInv /\ FedWhole

(* Whatever the track holds, what extract_first_frame_ppm gives the decoder are the units of
   its samples, whole and in order, with no byte of a sample left out or added; and it
   gives no more bytes and samples than OpenH264FallbackLimits allows, stops at the first
   error beyond the limit and feeds nothing that lies before the first sync sample. *)
THEOREM DecoderIsFedTheSamples == Spec => []DecoderInputSound
<1>1. Init => DecoderPartInv
  <2>1. Fallback!Init => FedWhole
    <3>1. Fallback!Init => fed = << >>
      BY DEF Fallback!Init
    <3>2. DOMAIN << >> = {}
      OBVIOUS
    <3> QED BY <3>1, <3>2 DEF FedWhole
  <2> QED BY <2>1, DecoderInit DEF Init, Chosen, DecoderPartInv
<1>2. DecoderPartInv /\ [Next]_v => DecoderPartInv'
  <2> SUFFICES ASSUME part = "fallback" => DecoderInv /\ FedWhole, [Next]_v, part' = "fallback"
               PROVE  DecoderInv' /\ FedWhole'
    BY DEF DecoderPartInv
  <2>1. part = "fallback" /\ [Fallback!Next]_(Fallback!vars)
    BY DEF Next, v, fallback, Fallback!vars, Reserve, Send, Serve, Probe, Decode, Decide, Admit,
      Publish
  <2> QED BY <2>1, DecoderStep, FedStep
<1>3. ASSUME DecoderInv, FedWhole PROVE Fallback!UnitsAreTheSample
  <2>1. fed \in Seq(Nat)
    BY <1>3 DEF DecoderInv, DecoderTypeOK
  <2> SUFFICES ASSUME NEW i \in DOMAIN fed, NEW input, input = track[fed[i]].bytes,
                      NEW list, list = Fallback!ToAnnexB(input, prefix).units
               PROVE  /\ list # << >> /\ Fallback!Encode(list, prefix) = input
                      /\ i = Len(fed) =>
                           \E k \in 0..Len(list) : units = SubSeq(list, k + 1, Len(list))
    BY DEF Fallback!UnitsAreTheSample
  <2>2. list # << >> /\ Fallback!Encode(list, prefix) = input
    BY <1>3, FedEncodes
  <2>3. fed # << >>
    OBVIOUS
  <2>4. i = Len(fed) => UnitsLeft(list)
    BY <1>3, <2>3 DEF FedWhole
  <2> QED BY <2>2, <2>4 DEF UnitsLeft
<1>4. DecoderPartInv => DecoderInputSound
  BY <1>3 DEF DecoderPartInv, DecoderInv, DecoderInputSound, Fallback!DecoderInputSound
<1> QED BY <1>1, <1>2, <1>4, PTL DEF Spec
=============================================================================
