-------------------------- MODULE StationaryWavelet ---------------------------
(***************************************************************************)
(* `swt2_decompose`: the undecimated wavelet transform behind the scales   *)
(* of WaveletScales.  It is linear, so a picture with one lit pixel, the   *)
(* spot, stands for all of them; and its taps are quarters and halves of   *)
(* small whole numbers, which floating point adds without rounding: every  *)
(* plane is written as whole numbers, 16 ^ level times too large.          *)
(***************************************************************************)
EXTENDS WaveletScales, FiniteSets

CONSTANT MaxTracked      (* pixels of a picture whose planes are followed    *)
ASSUME TrackedAssumption == MaxTracked \in Nat

VARIABLES
  current,       (* the approximation so far, scaled by 16 ^ depth           *)
  bands,         (* details of the last level, with the same scale           *)
  rebuilt,       (* sum of all details so far, with the same scale           *)
  depth          (* levels done                                              *)

transformVars == <<current, bands, rebuilt, depth>>

Pixel == (0 .. Width - 1) \X (0 .. Height - 1)
Tracked == Width >= 4 /\ Height >= 4 /\ Cardinality(Pixel) <= MaxTracked
NoBands == [lh |-> <<>>, hl |-> <<>>, hh |-> <<>>]

Spot == <<call.spot % Width, call.spot \div Width>>
Lit == IF Tracked THEN [p \in Pixel |-> IF p = Spot THEN 1 ELSE 0] ELSE <<>>

TransformInit == current = Lit /\ bands = NoBands /\ rebuilt = <<>> /\ depth = 0
TransformReset == current' = <<>> /\ bands' = NoBands /\ rebuilt' = <<>> /\ depth' = 0

-----------------------------------------------------------------------------
(* Taps at a gap of 2 ^ (level - 1), clamped at the edge, four times too   *)
(* large.                                                                  *)
Gap(l) == 2 ^ (l - 1)
Clamped(c, extent) == AtMost(AtLeast(c, 0), extent - 1)
ConvolveX(f, gap) ==
  [p \in Pixel |-> f[Clamped(p[1] - gap, Width), p[2]] + 2 * f[p] +
                   f[Clamped(p[1] + gap, Width), p[2]]]
ConvolveY(f, gap) ==
  [p \in Pixel |-> f[p[1], Clamped(p[2] - gap, Height)] + 2 * f[p] +
                   f[p[1], Clamped(p[2] + gap, Height)]]

(* Faulty variant: what both low-passes take away is not given back. *)
DetailsTwiceTaken(cur, lx, ly, ll) ==
  [lh |-> [p \in Pixel |-> 4 * lx[p] - ll[p]],
   hl |-> [p \in Pixel |-> 4 * ly[p] - ll[p]],
   hh |-> [p \in Pixel |-> 16 * cur[p] - 4 * lx[p] - 4 * ly[p]]]

Details(cur, lx, ly, ll) ==
  [lh |-> [p \in Pixel |-> 4 * lx[p] - ll[p]],
   hl |-> [p \in Pixel |-> 4 * ly[p] - ll[p]],
   hh |-> [p \in Pixel |-> 16 * cur[p] - 4 * lx[p] - 4 * ly[p] + ll[p]]]

(* Adds the details of a level to those before, on its scale. *)
Reconstruct(details) ==
  [p \in Pixel |-> details.lh[p] + details.hl[p] + details.hh[p] +
                   (IF depth = 0 THEN 0 ELSE 16 * rebuilt[p])]

TransformDone == ~Tracked \/ depth = Levels
DecomposeLevel ==
  /\ ~TransformDone
  /\ LET lx == ConvolveX(current, Gap(depth + 1))
         ly == ConvolveY(current, Gap(depth + 1))
         ll == ConvolveY(lx, Gap(depth + 1))
         details == Details(current, lx, ly, ll)
     IN  /\ bands' = details
         /\ current' = ll
         /\ rebuilt' = Reconstruct(details)
  /\ depth' = depth + 1

-----------------------------------------------------------------------------
(* Along one axis: what the low-pass of l levels leaves of a spot at s,    *)
(* 4 ^ l times too large, and what the last of them took away.             *)
LowPass(extent, s) ==
  LET f[l \in 0 .. 6] ==
        IF l = 0 THEN [c \in 0 .. extent - 1 |-> IF c = s THEN 1 ELSE 0]
        ELSE LET before == f[l - 1]
             IN  [c \in 0 .. extent - 1 |->
                    before[Clamped(c - Gap(l), extent)] + 2 * before[c] +
                    before[Clamped(c + Gap(l), extent)]]
  IN  f

(* "The sum of all detail blocks plus the final LL reconstructs the        *)
(* original image exactly" (wavelet2d.rs), after every level.  Each band   *)
(* is what its documentation calls it, a low- or high-pass along x times   *)
(* one along y, and no detail of a level is further from the spot than its *)
(* taps reach, so that maxima stay where the picture has its edges.        *)
TransformIsExact ==
  depth > 0 =>
    LET x == LowPass(Width, Spot[1])
        y == LowPass(Height, Spot[2])
        low(f, c) == f[depth][c]
        high(f, c) == 4 * f[depth - 1][c] - f[depth][c]
        reach == 2 ^ depth - 1
        near(p) == p[1] - Spot[1] \in -reach .. reach /\ p[2] - Spot[2] \in -reach .. reach
    IN  \A p \in Pixel :
          /\ current[p] + rebuilt[p] = IF p = Spot THEN 16 ^ depth ELSE 0
          /\ current[p] = low(x, p[1]) * low(y, p[2])
          /\ bands.lh[p] = low(x, p[1]) * high(y, p[2])
          /\ bands.hl[p] = high(x, p[1]) * low(y, p[2])
          /\ bands.hh[p] = high(x, p[1]) * high(y, p[2])
          /\ ~near(p) => bands.lh[p] = 0 /\ bands.hl[p] = 0 /\ bands.hh[p] = 0
==============================================================================
