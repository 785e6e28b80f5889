----------------------------- MODULE SourceConfig -----------------------------
(***************************************************************************)
(* What `EntropyEngine::analyze_image` hands to the sources: the size of   *)
(* the working picture and the adaptive choices, bounded by the static     *)
(* knobs.  Wavelet scales are powers of two and are written as their       *)
(* exponents.                                                              *)
(***************************************************************************)
EXTENDS Integers, Sequences

CONSTANT Call      (* the calls that are made, see CallType                  *)

VARIABLE call      (* this call; never changes                               *)

Density == {"sparse", "medium", "dense"}     (* pixel_density in thirds   *)
Clustered == BOOLEAN                         (* has_clusters              *)
Bucket == {"VeryLow", "Low", "Medium", "High", "VeryHigh"}
Switchable == {"wtmm", "lacunarity", "multifractal", "hurst", "gradient", "texture", "noise", "chaos",
               "quantum_density", "lattice", "fractal_aware"}
CallType ==
  [ width : Nat, height : Nat,           (* of the canonical picture         *)
    density : Density, clustered : Clustered, bucket : Bucket,
    lacunarity_scales : SUBSET Nat,      (* knobs                            *)
    min_scale : Nat, max_scale : Nat, num_scales : Nat,
    dimension : Nat, full_spectrum : BOOLEAN,        (* quantum density      *)
    detection_max : Nat,                 (* fractal source: largest sizes of *)
    fractal_max : Nat,                   (* its two ladders, its threshold   *)
    convergence : 0 .. 100,              (* in percent                       *)
    q_values : Seq(Int \X {"+", "-"}),   (* moments of the fractal source    *)
    moments : Nat,                       (* of the multifractal source       *)
    orientations : Nat, frequencies : Nat,           (* of the Gabor filters *)
    iterations : Nat,                    (* of the chaos source              *)
    spot : Nat,                          (* the pixel that is lit            *)
    disabled : SUBSET Switchable,
    flat : SUBSET Nat ]                  (* wavelet levels without a maximum *)

ASSUME CallAssumption == Call \subseteq CallType

AtLeast(a, b) == IF a < b THEN b ELSE a
AtMost(a, b) == IF a > b THEN b ELSE a

(* downsample_to_max(160), the sides rounded to the nearest. *)
Longest == AtLeast(call.width, call.height)
Downsampled(side) ==
  IF Longest <= 160 THEN side ELSE AtLeast((2 * side * 160 + Longest) \div (2 * Longest), 1)
Width == Downsampled(call.width)
Height == Downsampled(call.height)
SmallerThan(side) == Width < side \/ Height < side

(* LacunarityConfig::auto_detect, retaining the scales the knob names.  The *)
(* lists of the code grow, so a set stands for one.                         *)
AdaptiveScales ==
  CASE call.density = "sparse" -> {2, 4, 8, 16, 32}
    [] call.density = "medium" -> {2, 4, 8, 16, 32, 64, 128}
    [] call.density = "dense"  -> {4, 8, 16, 32, 64, 128, 256}
Scales ==
  {s \in AdaptiveScales : call.lacunarity_scales = {} \/ s \in call.lacunarity_scales}

(* WtmmConfig::auto_detect, and the knobs: a floor and two caps. *)
Adaptive(least, largest, steps) == [min |-> least, max |-> largest, steps |-> steps]
AdaptiveLadder ==
  CASE call.bucket = "VeryLow"  -> Adaptive(0, 6, 16)
    [] call.bucket = "Low"      -> Adaptive(0, 7, 32)
    [] call.bucket = "Medium"   -> Adaptive(0, 7, 48)
    [] call.bucket = "High"     -> Adaptive(1, 8, 64)
    [] call.bucket = "VeryHigh" -> Adaptive(1, 8, 128)
Ladder ==
  LET least == AtLeast(AdaptiveLadder.min, call.min_scale)
  IN  Adaptive(least,
               AtMost(AdaptiveLadder.max, AtLeast(call.max_scale, least)),
               AtMost(AdaptiveLadder.steps, AtLeast(call.num_scales, 2)))
==============================================================================
