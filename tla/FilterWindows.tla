---------------------------- MODULE FilterWindows -----------------------------
(***************************************************************************)
(* The filters and windows that slide over the working picture: Sobel and  *)
(* Laplacian kernels of the gradient, noise and fractal sources, the Gabor *)
(* kernel of the texture source, and the gliding windows of the fractal    *)
(* detector.  All of them are squares and treat both axes alike: a         *)
(* placement is the interval it reads along one axis.  Responses are left  *)
(* out.                                                                    *)
(***************************************************************************)
EXTENDS PixelBlocks

VARIABLES
  filter,        (* index of the next filter                                 *)
  reads          (* of the last one: its placements along each axis          *)

filterVars == <<filter, reads>>

NoReads == [columns |-> {}, lines |-> {}]
FilterInit == filter = 1 /\ reads = NoReads

Kernel(source, kind, side) == [source |-> source, kind |-> kind, side |-> side]
GradientKernel == Kernel("gradient", "interior", 3)
OrientationKernel == Kernel("gradient", "interior", 3)
TextureKernel == Kernel("texture", "gabor", 15)
NoiseKernel == Kernel("noise", "interior", 3)
DetectorKernel == Kernel("fractal_aware", "interior", 3)

(* The detector glides windows up to a quarter of the shorter side. *)
WindowSizes == DetectorSizes(ShortSide \div 4)

Running(source, filters) == IF source \in call.disabled THEN <<>> ELSE filters
Filters ==
  Running("gradient", <<GradientKernel, OrientationKernel>>) \o
  Running("texture", <<TextureKernel>>) \o
  Running("noise", <<NoiseKernel>>) \o
  Running("fractal_aware", <<DetectorKernel>>) \o
  Running("fractal_aware",
          [k \in DOMAIN WindowSizes |-> Kernel("fractal_aware", "window", WindowSizes[k])])

Middle(f) == f.side \div 2

(* mean_abs_response: half a kernel off the edge, but at least one place   *)
(* in a picture that is wider than half a kernel.                          *)
GaborEnd(extent, f) ==
  AtMost(AtLeast(AtLeast(extent - Middle(f), 0), Middle(f) + 1), extent)

(* Where a filter starts to read. *)
Interior3(extent) == 1 .. extent - 2
Anchors(f, extent) ==
  CASE f.kind = "interior" -> {c - Middle(f) : c \in Interior3(extent)}
    [] f.kind = "gabor" ->
         {c - Middle(f) : c \in {p \in Middle(f) .. GaborEnd(extent, f) - 1 :
                                   (p - Middle(f)) % 2 = 0}}
    [] f.kind = "window" -> 0 .. AtLeast(extent - f.side, 0)

Placements(f, extent) == {<<a, a + f.side - 1>> : a \in Anchors(f, extent)}

FiltersDone == filter > Len(Filters)
Slide ==
  /\ ~FiltersDone
  /\ reads' = [columns |-> Placements(Filters[filter], Width),
               lines   |-> Placements(Filters[filter], Height)]
  /\ filter' = filter + 1

-----------------------------------------------------------------------------
(* No filter reads before the first pixel, where an unsigned index would   *)
(* wrap, and none needs the clamping of `pixel_clamped` past the last one  *)
(* in a picture its kernel fits into; there every row and column is read,  *)
(* but for the last, which the stride of two may step over.  A picture     *)
(* narrower than a Gabor kernel has one place for it, one not wider than   *)
(* half a kernel has none.                                                 *)
FiltersStayInside ==
  filter > 1 =>
    LET f == Filters[filter - 1]
        inside(placements, extent) ==
          /\ \A p \in placements : 0 <= p[1]
          /\ IF f.side <= extent
               THEN /\ \A p \in placements : p[2] < extent
                    /\ \A c \in 0 .. extent - 1 - (IF f.kind = "gabor" THEN 1 ELSE 0) :
                         \E p \in placements : p[1] <= c /\ c <= p[2]
               ELSE Cardinality(placements) =
                      IF f.kind = "gabor" /\ extent > Middle(f) THEN 1 ELSE 0
    IN  inside(reads.columns, Width) /\ inside(reads.lines, Height)
==============================================================================
