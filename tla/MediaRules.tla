----------------------------- MODULE MediaRules -----------------------------
(***************************************************************************)
(* The arithmetic and the decisions the media code makes about one source: *)
(* its format from the brands of the file, its duration from a decimal     *)
(* string, the seek positions of its poster, the size of its derivatives   *)
(* and the place of a watermark on them.  `case` is one question,          *)
(* `answer` what the code says; every run is one question.                 *)
(***************************************************************************)
EXTENDS Integers, Sequences, FiniteSetsExt

CONSTANTS
    Edge,          \* bound on the pixels of an edge in the questions asked
    Margin,        \* bound on watermark margins (1024)
    Percents,      \* max_width_percent, within 1..50
    MaxEdges,      \* max_edge of the derivatives asked for
    Brands,        \* bound on the brands of a file
    Thousand,      \* fractions of a second that are kept: digits^Kept
    Kept,          \* digits of a fraction that are kept (3)
    Ten,           \* the base of the decimal strings
    MaxSeconds     \* bound on the seconds of a duration

RulesAssumption ==
    /\ Thousand = Ten^Kept
    /\ Ten \in Nat \ {0} /\ Kept \in Nat /\ MaxSeconds \in Nat
    \* laws of arithmetic that no prover here knows; they hold for every base
    /\ Ten^0 = 1 /\ \A n \in 0..Kept : Ten^n \in Nat /\ Ten^(n + 1) = Ten * Ten^n
    /\ Edge \in Nat /\ Margin \in Nat /\ Percents \subseteq Nat
    /\ MaxEdges \subseteq Nat \ {0}    \* max_edge is checked to be 1..8192

VARIABLES case, answer

vars == <<case, answer>>

Refused == [refused |-> TRUE]

Positions == {"Center", "TopLeft", "TopRight", "BottomLeft", "BottomRight"}

BrandNames == {"avif", "heic", "qt", "isom", "other"}

Questions ==
    [ask : {"watermark"}, bw : 0..Edge, bh : 0..Edge, ww : 0..Edge, wh : 0..Edge,
     margin : 0..Margin, percent : Percents, position : Positions]
    \cup [ask : {"derivative"}, w : 0..(2 * Edge), h : 0..(2 * Edge), max : MaxEdges]
    \cup [ask : {"brands"}, brands : UNION {[1..n -> BrandNames] : n \in 0..Brands}]
    \cup [ask : {"duration"}, seconds : 0..MaxSeconds,
          fraction : UNION {[1..n -> 0..(Ten - 1)] : n \in 0..(Kept + 1)}]

Init == case \in Questions /\ answer = << >>

-----------------------------------------------------------------------------
plan_watermark_NoHeightCap(q) ==
    LET wide == q.bw - 2 * q.margin
        width == Min({q.ww, wide, Max({1, (q.bw * q.percent) \div 100})})
        height == Max({1, (q.wh * width) \div q.ww})
    IN  IF 0 \in {q.bw, q.bh, q.ww, q.wh} \/ q.bw <= 2 * q.margin \/ q.bh <= 2 * q.margin
          THEN Refused
          ELSE [width |-> width, height |-> height,
                x |-> CASE q.position = "Center" -> (q.bw - width) \div 2
                        [] q.position \in {"TopLeft", "BottomLeft"} -> q.margin
                        [] OTHER -> q.bw - width - q.margin,
                y |-> CASE q.position = "Center" -> (q.bh - height) \div 2
                        [] q.position \in {"TopLeft", "TopRight"} -> q.margin
                        [] OTHER -> q.bh - height - q.margin]

(* The largest placement that keeps the margins and the percentage *)
plan_watermark(q) ==
    LET wide == q.bw - 2 * q.margin
        high == q.bh - 2 * q.margin
        width == Min({q.ww, wide, Max({1, (q.bw * q.percent) \div 100}), (q.ww * high) \div q.wh})
        height == Max({1, (q.wh * width) \div q.ww})
    IN  IF \/ 0 \in {q.bw, q.bh, q.ww, q.wh} \/ q.bw <= 2 * q.margin \/ q.bh <= 2 * q.margin
           \/ width = 0 \/ height > high
          THEN Refused
          ELSE [width |-> width, height |-> height,
                x |-> CASE q.position = "Center" -> (q.bw - width) \div 2
                        [] q.position \in {"TopLeft", "BottomLeft"} -> q.margin
                        [] OTHER -> q.bw - width - q.margin,
                y |-> CASE q.position = "Center" -> (q.bh - height) \div 2
                        [] q.position \in {"TopLeft", "TopRight"} -> q.margin
                        [] OTHER -> q.bh - height - q.margin]

-----------------------------------------------------------------------------
(* a * b / c to the nearest, at least 1 *)
Scaled(a, b, c) == Max({1, (2 * a * b + c) \div (2 * c)})

(* libvips: the image at this width; its height follows, or is bounded by the
   same number *)
vips_thumbnail(w, h, width) ==
    {[w |-> width, h |-> Scaled(h, width, w)],
     IF h > w THEN [w |-> Scaled(w, width, h), h |-> width]
              ELSE [w |-> width, h |-> Scaled(h, width, w)]}

resize(size, edge) ==
    LET longest == Max({size.w, size.h})
    IN  [w |-> Scaled(size.w, edge, longest), h |-> Scaled(size.h, edge, longest)]

(* What came out is bounded once more *)
Bounded(size, edge) == IF Max({size.w, size.h}) > edge THEN resize(size, edge) ELSE size

TargetWidth(q) ==
    LET longest == Max({q.w, q.h})
    IN  IF longest <= q.max THEN q.w ELSE Max({1, (q.w * q.max) \div longest})

(* VipsEngine.thumbnail: the sizes it may produce *)
thumbnail(q) ==
    IF q.w = 0 \/ q.h = 0 THEN {Refused}
    ELSE {Bounded(size, q.max) : size \in vips_thumbnail(q.w, q.h, TargetWidth(q))}

-----------------------------------------------------------------------------
Brand_LastWins(detected, brand) ==
    CASE brand = "avif" -> "Avif" [] brand = "heic" -> "Heif"
      [] brand = "qt" -> "QuickTime" [] brand = "isom" -> "Mp4"
      [] OTHER -> detected

(* One brand of the ftyp box: an image brand overrides, a video brand only fills *)
Brand(detected, brand) ==
    CASE brand = "avif" -> "Avif"
      [] brand = "heic" -> "Heif"
      [] brand = "qt" /\ detected = "none" -> "QuickTime"
      [] brand = "isom" /\ detected = "none" -> "Mp4"
      [] OTHER -> detected

(* detect_iso_bmff: the loop stops at an AVIF brand *)
detect_iso_bmff(q) ==
    LET after[i \in 0..Len(q.brands)] ==
          IF i = 0 THEN "none"
          ELSE IF after[i - 1] = "Avif" THEN "Avif" ELSE Brand(after[i - 1], q.brands[i])
    IN  after[Len(q.brands)]

-----------------------------------------------------------------------------

(* A digit after the kept ones that is not zero *)
RoundsUp(fraction) == IF \E i \in (Kept + 1)..Len(fraction) : fraction[i] # 0 THEN 1 ELSE 0

(* The first digits of a fraction, each at its place *)
Millis(fraction) ==
    FoldSet(LAMBDA i, sum : fraction[i] * Ten^(Kept - i) + sum, 0,
            {i \in DOMAIN fraction : i <= Kept})

(* parse_duration_ms; zero is refused *)
parse_duration_ms(q) ==
    LET total == q.seconds * Thousand + Millis(q.fraction) + RoundsUp(q.fraction)
    IN  IF total = 0 THEN Refused ELSE total

(* ProcessSandboxProbe.thumbnail and FfmpegThumbnailer.extract: the first seek, the second *)
FirstSeek(duration) == Min({duration \div 10, 1000})

SecondSeek(duration) == Min({duration \div 2, duration - 1})

-----------------------------------------------------------------------------
Decide ==
    /\ answer = << >>
    /\ \/ case.ask = "watermark" /\ answer' = <<plan_watermark(case)>>
       \/ case.ask = "derivative" /\ \E size \in thumbnail(case) : answer' = <<size>>
       \/ case.ask = "brands" /\ answer' = <<detect_iso_bmff(case)>>
       \/ case.ask = "duration" /\ answer' = <<parse_duration_ms(case)>>
    /\ UNCHANGED case

Next == Decide

Spec == Init /\ [][Next]_vars

-----------------------------------------------------------------------------
Asked(ask) == case.ask = ask /\ answer # << >>

(* plan_watermark: "a bounded placement": for every size, margin and anchor the
   watermark lies inside the image, keeps the margin on every side and is no
   larger than the asset; and the unsigned subtractions never go below zero. *)
WatermarkInside ==
    Asked("watermark") /\ answer[1] # Refused =>
      LET p == answer[1] IN
      /\ p.width \in 1..case.ww /\ p.height \in 1..case.wh
      /\ p.x >= case.margin /\ p.x + p.width + case.margin <= case.bw
      /\ p.y >= case.margin /\ p.y + p.height + case.margin <= case.bh

(* "Produces one derivative with no upscaling": for every shape of the source,
   slivers of one pixel too, no edge of the derivative exceeds max_edge or the
   source, and none is zero. *)
DerivativeFits ==
    Asked("derivative") /\ answer[1] # Refused =>
      LET d == answer[1] IN
      /\ d.w \in 1..Min({case.w, case.max}) /\ d.h \in 1..Min({case.h, case.max})

(* A file that carries an image brand is an image, whatever other brands it
   carries and in whatever order: no order of brands makes one file an image
   and its permutation a video. *)
BrandOrderIrrelevant ==
    Asked("brands") =>
      LET has(b) == \E i \in DOMAIN case.brands : case.brands[i] = b
          image == answer[1] \in {"Avif", "Heif"}
      IN  /\ image <=> has("avif") \/ has("heic")
          /\ answer[1] = "none" <=> \A i \in DOMAIN case.brands : case.brands[i] = "other"

(* The duration that is written, in fractions one digit finer *)
Exact(q) ==
    FoldSet(LAMBDA i, sum : q.fraction[i] * Ten^(Kept + 1 - i) + sum, 0, DOMAIN q.fraction)
      + q.seconds * Thousand * Ten

(* A duration is never taken for shorter than it is, so that a video over the
   limit is not accepted, nor for a whole unit longer; and both seeks of the
   poster lie inside the video, down to a single millisecond. *)
DurationRoundsUp ==
    Asked("duration") =>
      LET ms == answer[1] IN
      IF Exact(case) = 0
        THEN ms = Refused
        ELSE /\ ms * Ten >= Exact(case) /\ ms * Ten < Exact(case) + Ten
             /\ FirstSeek(ms) < ms /\ SecondSeek(ms) < ms

(* No placement or size leaves the image, whatever integer division does. *)
SizesSound == WatermarkInside /\ DerivativeFits

(* What is read from brands and decimal strings is never to the source's
   advantage. *)
ReadingsSound == BrandOrderIrrelevant /\ DurationRoundsUp
=============================================================================
