---------------------------- MODULE H264Fallback ----------------------------
(***************************************************************************)
(* extract_first_frame_ppm: the samples of the one H.264 track are read    *)
(* from the start, samples before the first sync sample are passed over,   *)
(* each of the others is split into its length-prefixed NAL units and the  *)
(* units are decoded one by one until a frame comes out.  Samples, bytes,  *)
(* units and decoder errors are each limited.  Bytes are digits of a small *)
(* base; the decoder is external and may answer anything.                  *)
(***************************************************************************)
EXTENDS Naturals, Sequences, FiniteSetsExt

CONSTANTS
    Tracks,         \* tracks: sequences of samples [sync, bytes]
    Prefixes,       \* nal_length_size
    Base,           \* a byte is one of 0..Base-1
    StartCode,      \* bytes of ANNEX_B_START_CODE
    MaxSamples, MaxSampleBytes, MaxDecodeBytes, MaxNals, MaxErrors  \* OpenH264FallbackLimits

(* OpenH264FallbackLimits.validate, and the types of what is read *)
FallbackAssumption ==
    /\ {MaxSamples, MaxSampleBytes, MaxDecodeBytes, MaxNals, MaxErrors} \subseteq Nat \ {0}
    /\ MaxDecodeBytes >= MaxSampleBytes
    /\ Prefixes \subseteq {1, 2, 4} /\ Base \in Nat \ {0}
    /\ Tracks \subseteq Seq([sync : BOOLEAN, bytes : Seq(0..(Base - 1))])

VARIABLES
    track, prefix,
    at,         \* sample_id
    sync,       \* found_sync
    bytes,      \* decoded_bytes
    errors,     \* decode_errors
    units,      \* units of the current sample still to decode
    fed,        \* history: samples whose units went to the decoder
    result      \* "none" while it runs

vars == <<track, prefix, at, sync, bytes, errors, units, fed, result>>

(* h264_track_config: a track without samples is refused *)
Init ==
    /\ track \in {t \in Tracks : t # << >>} /\ prefix \in Prefixes
    /\ at = 1 /\ sync = FALSE /\ bytes = 0 /\ errors = 0
    /\ units = << >> /\ fed = << >> /\ result = "none"

Minimum(a, b) == IF a < b THEN a ELSE b

SampleLimit == Minimum(Len(track), MaxSamples)

-----------------------------------------------------------------------------
(* The big-endian number in `w` bytes after position c *)
Number(input, c, w) ==
    LET n[i \in 0..w] == IF i = 0 THEN 0 ELSE n[i - 1] * Base + input[c + i] IN n[w]

Malformed == [why |-> "decode", units |-> << >>]

ToAnnexB_Clips(input, w) ==
    LET from[c \in 0..Len(input)] ==
          LET first == c + w
              last == Minimum(first + Number(input, c, w), Len(input))
          IN  IF c = Len(input) THEN [why |-> "none", units |-> << >>]
              ELSE IF first > Len(input) \/ last = first THEN Malformed
              ELSE [from[last] EXCEPT !.units = <<SubSeq(input, first + 1, last)>> \o @]
    IN  from[0]

(* avcc_to_annex_b up to its limits: the units from position c on *)
ToAnnexB(input, w) ==
    LET from[c \in 0..Len(input)] ==
          LET first == c + w
              last == first + Number(input, c, w)
          IN  IF c = Len(input) THEN [why |-> "none", units |-> << >>]
              ELSE IF first > Len(input) THEN Malformed
              ELSE IF last = first \/ last > Len(input) THEN Malformed
              ELSE [from[last] EXCEPT !.units = <<SubSeq(input, first + 1, last)>> \o @]
    IN  from[0]

(* append_annex_b_nal counts the start codes *)
Written(list) == FoldSet(LAMBDA i, sum : sum + StartCode + Len(list[i]), 0, DOMAIN list)

(* The whole conversion; which of two errors is met first is not told apart *)
avcc_to_annex_b(input, w) ==
    LET parsed == ToAnnexB(input, w) IN
    IF parsed.why # "none" THEN Malformed
    ELSE IF Len(parsed.units) > MaxNals \/ Written(parsed.units) > MaxSampleBytes
      THEN [Malformed EXCEPT !.why = "limit"] ELSE parsed

-----------------------------------------------------------------------------
(* A parameter set the decoder does not take counts as an error *)
ParameterSetFails ==
    /\ result = "none" /\ at = 1 /\ fed = << >> /\ ~sync
    /\ errors' = errors + 1
    /\ result' = IF errors' > MaxErrors THEN "decode" ELSE "none"
    /\ UNCHANGED <<track, prefix, at, sync, bytes, units, fed>>

Current == track[at]

Reading == result = "none" /\ units = << >> /\ at <= SampleLimit

SkipSample ==
    /\ Reading /\ ~sync /\ ~Current.sync
    /\ at' = at + 1
    /\ UNCHANGED <<track, prefix, sync, bytes, errors, units, fed, result>>

ReadSample ==
    LET converted == avcc_to_annex_b(Current.bytes, prefix)
        size == Len(Current.bytes)
    IN  /\ Reading /\ (sync \/ Current.sync)
        /\ sync' = TRUE /\ at' = at + 1
        /\ IF size \notin 1..MaxSampleBytes \/ bytes + size > MaxDecodeBytes
             THEN result' = "limit" /\ UNCHANGED <<bytes, units, fed>>
             ELSE /\ bytes' = bytes + size
                  /\ result' = converted.why /\ units' = converted.units
                  /\ fed' = IF converted.why = "none" THEN Append(fed, at) ELSE fed
        /\ UNCHANGED <<track, prefix, errors>>

(* The decoder answers with nothing yet, an error, or a frame, which
   validate_frame may find too large *)
DecodeUnit ==
    /\ result = "none" /\ units # << >>
    /\ units' = Tail(units)
    /\ \/ UNCHANGED <<errors, result>>
       \/ errors' = errors + 1 /\ result' = IF errors' > MaxErrors THEN "decode" ELSE "none"
       \/ result' \in {"frame", "limit"} /\ UNCHANGED errors
    /\ UNCHANGED <<track, prefix, at, sync, bytes, fed>>

NoFrame ==
    /\ result = "none" /\ units = << >> /\ at > SampleLimit
    /\ result' = IF Len(track) > SampleLimit THEN "limit" ELSE "decode"
    /\ UNCHANGED <<track, prefix, at, sync, bytes, errors, units, fed>>

Next == ParameterSetFails \/ SkipSample \/ ReadSample \/ DecodeUnit \/ NoFrame

Spec == Init /\ [][Next]_vars

-----------------------------------------------------------------------------
(* n as a big-endian number of w bytes *)
Digits(n, w) ==
    LET high[i \in 0..w] == IF i = w THEN n ELSE high[i + 1] \div Base
    IN  [i \in 1..w |-> high[i] % Base]

Encode(list, w) ==
    LET e[i \in 0..Len(list)] ==
          IF i = 0 THEN << >> ELSE e[i - 1] \o Digits(Len(list[i]), w) \o list[i]
    IN  e[Len(list)]

(* What goes to the decoder is the sample and nothing but the sample: its
   units, each behind its length, are again its bytes, and the units still to
   decode are a tail of them. *)
UnitsAreTheSample ==
    \A i \in DOMAIN fed :
      LET input == track[fed[i]].bytes
          list == ToAnnexB(input, prefix).units
      IN  /\ list # << >> /\ Encode(list, prefix) = input
          /\ i = Len(fed) => \E k \in 0..Len(list) : units = SubSeq(list, k + 1, Len(list))

(* Whatever the track holds, the decoder is given no more bytes, samples or
   tries after an error than OpenH264FallbackLimits allows, and nothing that
   lies before the first sync sample. *)
WithinLimits ==
    /\ bytes <= MaxDecodeBytes /\ errors <= MaxErrors + 1 /\ Len(fed) <= MaxSamples
    /\ \A i \in DOMAIN fed :
         Len(track[fed[i]].bytes) <= MaxSampleBytes /\ \E j \in 1..fed[i] : track[j].sync

(* What the decoder is given is what the sample holds, within the limits. *)
DecoderInputSound == UnitsAreTheSample /\ WithinLimits
=============================================================================
