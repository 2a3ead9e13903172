------------------------------- MODULE Sandbox -------------------------------
(***************************************************************************)
(* One call of ProcessSandboxProbe: the worker starts g7mb-sandbox under a *)
(* wall-clock limit, and the sandbox starts ffprobe or ffmpeg under limits *)
(* of its own.  A poster takes two ffmpeg attempts, then, if ffmpeg cannot *)
(* be started, the OpenH264 first frame; a watermark is laid over the      *)
(* frame in the sandbox process itself.                                    *)
(*                                                                         *)
(* Killing the sandbox does not kill the program it started: the worker's  *)
(* kill_on_drop signals one process.                                       *)
(***************************************************************************)
EXTENDS Naturals

CONSTANTS Timeout    \* the worker's limit, which it also passes to the sandbox

SandboxAssumption == Timeout \in Nat /\ Timeout >= 4

VARIABLES
    args,       \* what the worker asks for
    step,       \* progress of the sandbox process
    waits,      \* it waits for a program it started
    running,    \* programs of this call that run
    started,    \* when the awaited program was started
    begun,      \* when the sandbox began
    file,       \* files of the job directory
    verdict,    \* the worker's classification, "none" while it waits
    clock

vars == <<args, step, waits, running, started, begun, file, verdict, clock>>

(* image: render_image, for the master and the thumbnail of an image *)
Arguments == [op : {"probe_image", "probe_video", "image", "poster"},
              watermark : BOOLEAN, fallback : BOOLEAN]

Init ==
    /\ args \in Arguments
    /\ step = "spawned" /\ waits = FALSE /\ running = 0
    /\ started = 0 /\ begun = 0 /\ clock = 0
    /\ file = [frame |-> "none", ppm |-> "none", poster |-> "none"]
    /\ verdict = "none"

(* ffmpeg writes the poster itself, or a frame for the watermark *)
Target == IF args.watermark THEN "frame" ELSE "poster"

Tools == {"ffprobe", "fast", "exact"}

(* ffprobe has the whole limit; the two ffmpeg attempts share it, or half of
   it when a watermark is still to be laid *)
AttemptLimit ==
    IF args.op = "probe_video" THEN Timeout
    ELSE IF args.watermark THEN (Timeout \div 2) \div 2 ELSE Timeout \div 2

(* The sandbox process is up and takes the branch of its command *)
Begin ==
    /\ step = "spawned" /\ verdict = "none"
    /\ step' = CASE args.op = "probe_image" -> "inspect"
                 [] args.op = "probe_video" -> "ffprobe"
                 [] args.op = "image"       -> "overlay"
                 [] OTHER                   -> "fast"
    /\ begun' = clock
    /\ UNCHANGED <<args, waits, running, started, file, verdict, clock>>

(* The sandbox process cannot be started *)
NotStarted ==
    /\ step = "spawned" /\ verdict = "none"
    /\ verdict' = "transient" /\ step' = "gone"
    /\ UNCHANGED <<args, waits, running, started, begun, file, clock>>

StartTool ==
    /\ step \in Tools /\ ~waits
    /\ waits' = TRUE /\ running' = running + 1 /\ started' = clock
    /\ UNCHANGED <<args, step, begun, file, verdict, clock>>

(* Where a failed attempt leads: the first one's output is removed and the
   second is made; only a program that cannot be started brings the fallback *)
AfterFailure(cause) ==
    CASE step = "fast" -> "exact"
      [] step = "exact" /\ cause = "spawn" /\ args.fallback -> "h264"
      [] OTHER -> "err"

AttemptFails(cause, left) ==
    /\ step' = AfterFailure(cause)
    /\ file' = IF args.op = "poster"
                 THEN [file EXCEPT ![Target] = IF step = "fast" THEN "none" ELSE left]
                 ELSE file

CannotStart ==
    /\ step \in Tools /\ ~waits
    /\ AttemptFails("spawn", "none")
    /\ UNCHANGED <<args, waits, running, started, begun, verdict, clock>>

ToolWrites ==
    /\ running > 0 /\ args.op = "poster"
    /\ file' = [file EXCEPT ![Target] = "partial"]
    /\ UNCHANGED <<args, step, waits, running, started, begun, verdict, clock>>

(* It exits: with the frame, with an empty or no file, or with an error *)
ToolExits ==
    /\ waits /\ waits' = FALSE /\ running' = running - 1
    /\ \/ /\ step' = IF args.op = "poster" /\ args.watermark THEN "overlay" ELSE "ok"
          /\ file' = IF args.op = "poster" THEN [file EXCEPT ![Target] = "whole"] ELSE file
       \/ \E left \in {"none", "partial"} : AttemptFails("exit", left)
    /\ UNCHANGED <<args, started, begun, verdict, clock>>

AttemptTimesOut_NoKill ==
    /\ waits /\ clock - started >= AttemptLimit
    /\ waits' = FALSE
    /\ AttemptFails("timeout", file[Target])
    /\ UNCHANGED <<args, running, started, begun, verdict, clock>>

(* It is killed and waited for *)
AttemptTimesOut ==
    /\ waits /\ clock - started >= AttemptLimit
    /\ waits' = FALSE /\ running' = running - 1
    /\ AttemptFails("timeout", file[Target])
    /\ UNCHANGED <<args, started, begun, verdict, clock>>

(* A program nobody waits for any more ends by itself *)
StrayExits ==
    /\ running > (IF waits THEN 1 ELSE 0)
    /\ running' = running - 1
    /\ UNCHANGED <<args, step, waits, started, begun, file, verdict, clock>>

(* extract_first_frame_ppm; its file is removed when it fails *)
Fallback ==
    /\ step = "h264"
    /\ \/ step' = "overlay" /\ file' = [file EXCEPT !["frame"] = "none", !["ppm"] = "whole"]
       \/ step' = "err" /\ file' = [file EXCEPT !["frame"] = "none"]
    /\ UNCHANGED <<args, waits, running, started, begun, verdict, clock>>

(* image_thumbnail, in the sandbox process; its input is removed afterwards.
   That libvips reports success is no proof that the file has content. *)
Overlay ==
    /\ step = "overlay"
    /\ \E done \in {"whole", "partial", "empty", "none"} :
         /\ step' \in CASE done = "whole"   -> {"ok"}
                        [] done = "partial" -> {"err"}
                        [] OTHER            -> {"ok", "err"}
         /\ file' = [frame |-> "none", ppm |-> "none", poster |-> done]
    /\ UNCHANGED <<args, waits, running, started, begun, verdict, clock>>

(* The header probe of an image: signature, decoder and limits *)
InspectImage ==
    /\ step = "inspect"
    /\ step' \in {"ok", "err"}
    /\ UNCHANGED <<args, waits, running, started, begun, file, verdict, clock>>

SandboxStep ==
    \/ Begin \/ StartTool \/ CannotStart \/ ToolWrites \/ ToolExits \/ AttemptTimesOut
    \/ Fallback \/ Overlay \/ InspectImage

-----------------------------------------------------------------------------
Renders == args.op \in {"image", "poster"}

(* Without a watermark the source of an image is to blame, else the renderer *)
Unusable == IF args.op = "poster" \/ args.watermark THEN "operational" ELSE "permanent"

(* Exit status, then the size of what it printed, then the output file *)
Classify(noisy) ==
    IF step = "err" THEN IF Renders THEN Unusable ELSE "permanent"
    ELSE IF noisy \/ (Renders /\ file["poster"] = "none") THEN "transient"
    ELSE IF Renders /\ file["poster"] = "empty" THEN Unusable ELSE "ok"

SandboxExits ==
    /\ verdict = "none" /\ step \in {"ok", "err"}
    /\ \E noisy \in BOOLEAN : verdict' = Classify(noisy)
    /\ step' = "gone"
    /\ UNCHANGED <<args, waits, running, started, begun, file, clock>>

(* The sandbox is killed by a signal: an unsuccessful exit.  What it had
   started runs on. *)
SandboxDies ==
    /\ verdict = "none" /\ step \notin {"spawned", "ok", "err"}
    /\ step' = "err" /\ waits' = FALSE
    /\ UNCHANGED <<args, running, started, begun, file, verdict, clock>>

WorkerTimesOut ==
    /\ verdict = "none" /\ clock >= Timeout
    /\ verdict' = "transient" /\ step' = "killed" /\ waits' = FALSE
    /\ UNCHANGED <<args, running, started, begun, file, clock>>

(* Time passes while no limit has been reached; between two attempts the
   sandbox does not wait *)
Tick ==
    /\ verdict = "none" /\ clock < Timeout
    /\ step \in Tools => waits
    /\ waits => clock - started < AttemptLimit
    /\ clock' = clock + 1
    /\ UNCHANGED <<args, step, waits, running, started, begun, file, verdict>>

Next ==
    \/ SandboxStep \/ NotStarted \/ SandboxExits \/ SandboxDies \/ WorkerTimesOut
    \/ StrayExits \/ Tick

Spec == Init /\ [][Next]_vars

-----------------------------------------------------------------------------
(* A derivative the worker goes on to store is whole, and no program of the
   call can still write to it: an attempt that timed out was ended before the
   next one wrote to the same path. *)
AcceptedIsWhole ==
    verdict = "ok" => running = 0 /\ (Renders => file["poster"] = "whole")

(* docs/WATERMARK.md: "video gives half of the whole timeout to at most two
   seeks of FFmpeg and composes in the time that remains": the two attempts
   together never use more than half of the limit when a watermark follows. *)
ComposeHasHalf ==
    args.op = "poster" /\ args.watermark /\ step \in Tools => clock - begun <= Timeout \div 2

(* What the worker makes of one call is sound, within its share of the time. *)
RenderingSound == AcceptedIsWhole /\ ComposeHasHalf

(* DEVELOPMENT_CONSTITUTION.md: "a child that timed out is killed and waited
   for, so that there is neither a zombie nor an orphan process": when the
   worker has given up on a sandbox, nothing of it still runs. *)
NoProcessLeft == step = "killed" => running = 0
=============================================================================
