------------------------ MODULE WitnessPipelineProofs -------------------------
(***************************************************************************)
(* What WitnessPipeline keeps for every call, whatever the picture's size, *)
(* the knobs and the limits: the loops of the sources stay inside their    *)
(* arrays and take every box, tile, pixel, scale and moment as often as    *)
(* they should, the wavelet levels add up to the picture, and every value  *)
(* reaches the witness once.  An invariant for each component, and first   *)
(* what a step of the pipeline does to all of them.                        *)
(***************************************************************************)
EXTENDS WitnessPipeline, FiniteSetTheorems, SequenceTheorems, WellFoundedInduction, TLAPS

(* Every step moves the variables of one component by one of its actions,  *)
(* or takes them back to where they begin, and leaves those of the others. *)
LEMMA Components ==
  ASSUME [Next]_vars
  PROVE  /\ UNCHANGED call
         /\ UNCHANGED boxVars \/ BoxStep
         /\ \/ UNCHANGED blockVars \/ CutTiles
            \/ phase = "quantum" /\ Enabled("quantum_density") /\ BuildOperator
            \/ /\ turn' = 1 /\ tiles' = {}
               /\ UNCHANGED <<block, latest, seen>>
            \/ /\ block' = 0 /\ latest' = NoPixels /\ seen' = NoPixels
               /\ UNCHANGED <<turn, tiles>>
         /\ UNCHANGED filterVars \/ Slide \/ (filter' = 1 /\ reads' = NoReads)
         /\ UNCHANGED momentVars \/ Partition \/ SpectrumStep \/ MomentReset
         /\ \/ UNCHANGED seriesVars \/ HurstStep \/ SeriesReset
            \/ phase = "chaos" /\ Enabled("chaos") /\ Iterate
         /\ \/ UNCHANGED transformVars \/ (phase = "wtmm" /\ DecomposeLevel)
            \/ TransformReset /\ phase' # "wtmm"
         /\ phase' = "wtmm" => phase = "wtmm"
         /\ UNCHANGED waveletVars \/ AnalyzeStep \/ ProbeScale \/ WaveletReset
         /\ UNCHANGED mixVars \/ MixStep
         /\ phase' \in {phase, "refused"} \/ phase \notin {"wtmm", "refused"} \/ ~Refused
<1>1. CASE UNCHANGED vars
  BY <1>1 DEF vars, sourceVars
<1>2. CASE Refuse
  BY <1>2 DEF Refuse, sourceVars
<1>3. CASE Transform
  BY <1>3 DEF Transform
<1>4. CASE Wtmm
  BY <1>4 DEF Wtmm
<1>5. CASE WtmmSpectrum
  BY <1>5 DEF WtmmSpectrum
<1>6. CASE EndWtmm
  BY <1>6 DEF EndWtmm
<1>7. CASE Lacunarity
  BY <1>7 DEF Lacunarity
<1>8. CASE EndLacunarity
  BY <1>8 DEF EndLacunarity, sourceVars
<1>9. CASE CutPicture
  BY <1>9 DEF CutPicture
<1>10. CASE EndTilings
  BY <1>10 DEF EndTilings
<1>0. CASE Filter
  BY <1>0 DEF Filter
<1>12. CASE EndFilters
  BY <1>12 DEF EndFilters
<1>13. CASE Hurst
  BY <1>13 DEF Hurst
<1>14. CASE EndHurst
  BY <1>14 DEF EndHurst
<1>15. CASE Chaos
  BY <1>15 DEF Chaos
<1>16. CASE EndChaos
  BY <1>16 DEF EndChaos
<1>17. CASE Quantum
  BY <1>17 DEF Quantum
<1>18. CASE EndQuantum
  BY <1>18 DEF EndQuantum
<1>19. CASE Fractal
  BY <1>19 DEF Fractal
<1>20. CASE EndFractal
  BY <1>20 DEF EndFractal
<1>21. CASE FractalSpectrum
  BY <1>21 DEF FractalSpectrum
<1>22. CASE EndSpectrum
  BY <1>22 DEF EndSpectrum
<1>23. CASE Mix
  BY <1>23 DEF Mix, sourceVars
<1>24. CASE EndMix
  BY <1>24 DEF EndMix, sourceVars
<1> QED
  BY <1>1, <1>2, <1>3, <1>4, <1>5, <1>6, <1>7, <1>8, <1>9, <1>10, <1>0, <1>12, <1>13, <1>14, <1>15,
     <1>16, <1>17, <1>18, <1>19, <1>20, <1>21, <1>22, <1>23, <1>24 DEF Next

(* Every call has the type, and keeps it: it never changes. *)
LEMMA CallNeverChanges == Spec => [](call \in CallType)
<1>1. Init => call \in CallType
  BY CallAssumption DEF Init
<1>2. call \in CallType /\ [Next]_vars => (call \in CallType)'
  BY Components
<1> QED
  BY <1>1, <1>2, PTL DEF Spec
-----------------------------------------------------------------------------
(* The working picture has no side longer than 160 pixels. *)
LEMMA Sides ==
  ASSUME call \in CallType
  PROVE  /\ Width \in 0 .. 160 /\ Height \in 0 .. 160
<1>1. call.width \in Nat /\ call.height \in Nat
  BY DEF CallType
<1>2. Longest \in Nat /\ call.width <= Longest /\ call.height <= Longest
  BY <1>1 DEF Longest, AtLeast
<1>3. ASSUME NEW s \in Nat, s <= Longest
      PROVE  Downsampled(s) \in 0 .. 160
  <2>1. CASE Longest <= 160
    BY <1>3, <2>1, <1>2 DEF Downsampled
  <2>2. CASE Longest > 160
    <3>1. (2 * s * 160 + Longest) \div (2 * Longest) \in 0 .. 160
      BY <1>3, <2>2, <1>2
    <3> QED
      BY <3>1, <2>2, <1>2 DEF Downsampled, AtLeast
  <2> QED
    BY <2>1, <2>2, <1>2
<1> QED
  BY <1>1, <1>2, <1>3 DEF Width, Height

(* What is computed from the call alone stays as it is. *)
LEMMA SidesStay ==
  ASSUME call' = call
  PROVE  Width' = Width /\ Height' = Height /\ NumPixels' = NumPixels /\ ShortSide' = ShortSide
BY DEF Width, Height, Downsampled, Longest, NumPixels, ShortSide

-----------------------------------------------------------------------------
(* Powers of two with a symbolic exponent are beyond the provers, so they  *)
(* are looked up in a table of the exponents that occur.                   *)
Power == [k \in 0 .. 16 |-> 2 ^ k]

LEMMA PowerTable ==
  /\ Power[0] = 1 /\ Power[1] = 2 /\ Power[2] = 4 /\ Power[3] = 8 /\ Power[4] = 16
  /\ Power[5] = 32 /\ Power[6] = 64 /\ Power[7] = 128 /\ Power[8] = 256 /\ Power[9] = 512
  /\ Power[10] = 1024 /\ Power[11] = 2048 /\ Power[12] = 4096 /\ Power[13] = 8192
  /\ Power[14] = 16384 /\ Power[15] = 32768 /\ Power[16] = 65536
<1>1. /\ 2 ^ 0 = 1 /\ 2 ^ 1 = 2 /\ 2 ^ 2 = 4 /\ 2 ^ 3 = 8 /\ 2 ^ 4 = 16
      /\ 2 ^ 5 = 32 /\ 2 ^ 6 = 64 /\ 2 ^ 7 = 128 /\ 2 ^ 8 = 256 /\ 2 ^ 9 = 512
      /\ 2 ^ 10 = 1024 /\ 2 ^ 11 = 2048 /\ 2 ^ 12 = 4096 /\ 2 ^ 13 = 8192
      /\ 2 ^ 14 = 16384 /\ 2 ^ 15 = 32768 /\ 2 ^ 16 = 65536
  OBVIOUS
<1> QED
  BY <1>1 DEF Power

LEMMA PowerIs == ASSUME NEW k \in 0 .. 16 PROVE Power[k] = 2 ^ k
BY DEF Power

LEMMA PowersGrow ==
  /\ \A k \in 0 .. 16 : Power[k] \in Nat /\ Power[k] >= 1
  /\ \A j, k \in 0 .. 16 : j < k => 2 * Power[j] <= Power[k]
  /\ \A k \in 1 .. 16 : Power[k] = 2 * Power[k - 1]
<1>1. \A k \in 0 .. 16 : k \in {0, 1, 2, 3, 4, 5, 6, 7, 8, 9, 10, 11, 12, 13, 14, 15, 16}
  OBVIOUS
<1>2. \A k \in 0 .. 16 : Power[k] \in Nat /\ Power[k] >= 1
  BY <1>1, PowerTable
<1>3. \A j, k \in 0 .. 16 : j < k => 2 * Power[j] <= Power[k]
  BY <1>1, PowerTable
<1>4. \A k \in 1 .. 16 : Power[k] = 2 * Power[k - 1]
  BY <1>1, PowerTable
<1> QED
  BY <1>2, <1>3, <1>4
-----------------------------------------------------------------------------
(* The dyadic probe of the fractal source.                                 *)
(***************************************************************************)
(* How the plateau counter and the counts belong together: the counter is  *)
(* the number of counts at the end that hardly moved, and it has been      *)
(* three at no time before.                                                *)
(***************************************************************************)
SteadyAt(k) == k >= 2 /\ Steady(features[k - 1], features[k])
ProbeInv ==
  /\ probe \in 1 .. NumProbes + 1
  /\ features \in Seq(Nat) /\ Len(features) = probe - 1
  /\ plateau \in 0 .. 3 /\ plateau <= Len(features)
  /\ \A k \in Len(features) - plateau + 1 .. Len(features) : SteadyAt(k)
  /\ plateau < Len(features) => ~SteadyAt(Len(features) - plateau)
  /\ \A k \in 3 .. Len(features) - 1 : ~(SteadyAt(k) /\ SteadyAt(k - 1) /\ SteadyAt(k - 2))

LEMMA ProbesExist ==
  ASSUME call \in CallType
  PROVE  Cap \in 1 .. 80 /\ NumProbes \in 1 .. 16
<1>1. Cap \in 1 .. 80
  <2>1. call.fractal_max \in Nat
    BY DEF CallType
  <2>2. AtMost(Width, Height) \div 2 \in 0 .. 80
    BY Sides DEF AtMost
  <2> QED
    BY <2>1, <2>2 DEF Cap, AtLeast, AtMost
<1>2. \E n \in 1 .. 16 : 2 ^ (n - 1) <= Cap /\ 2 ^ n > Cap
  <2>1. Cap < 2 \/ (2 <= Cap /\ Cap < 4) \/ (4 <= Cap /\ Cap < 8) \/ (8 <= Cap /\ Cap < 16)
          \/ (16 <= Cap /\ Cap < 32) \/ (32 <= Cap /\ Cap < 64) \/ (64 <= Cap /\ Cap < 128)
    BY <1>1
  <2>2. /\ 2 ^ (1 - 1) = 1 /\ 2 ^ 1 = 2 /\ 2 ^ (2 - 1) = 2 /\ 2 ^ 2 = 4
        /\ 2 ^ (3 - 1) = 4 /\ 2 ^ 3 = 8 /\ 2 ^ (4 - 1) = 8 /\ 2 ^ 4 = 16
        /\ 2 ^ (5 - 1) = 16 /\ 2 ^ 5 = 32 /\ 2 ^ (6 - 1) = 32 /\ 2 ^ 6 = 64
        /\ 2 ^ (7 - 1) = 64 /\ 2 ^ 7 = 128
    OBVIOUS
  <2>3. /\ 1 \in 1 .. 16 /\ 2 \in 1 .. 16 /\ 3 \in 1 .. 16 /\ 4 \in 1 .. 16
        /\ 5 \in 1 .. 16 /\ 6 \in 1 .. 16 /\ 7 \in 1 .. 16
    OBVIOUS
  <2> QED
    BY <1>1, <2>1, <2>2, <2>3
<1> QED
  BY <1>1, <1>2, Zenon DEF NumProbes

LEMMA ProbesStay ==
  ASSUME call' = call
  PROVE  /\ NumProbes' = NumProbes
         /\ \A p, c : Steady(p, c)' = Steady(p, c)
<1>1. Cap' = Cap
  BY SidesStay DEF Cap
<1> QED
  BY <1>1 DEF NumProbes, Steady

LEMMA ProbeInitially == ASSUME WaveletInit, call \in CallType PROVE ProbeInv
BY ProbesExist DEF WaveletInit, ProbeInv

LEMMA ProbeStep ==
  ASSUME call \in CallType, ProbeInv, ProbeScale, UNCHANGED call
  PROVE  ProbeInv'
<1>1. NumProbes \in 1 .. 16 /\ NumProbes' = NumProbes
  BY ProbesExist, ProbesStay
<1>2. probe \in 1 .. NumProbes /\ plateau \in 0 .. 2 /\ probe' = probe + 1
  BY <1>1 DEF ProbeScale, AdaptiveDone, ProbeInv
<1>3. PICK count \in CountsAt(Probed(probe)) :
         /\ features' = Append(features, count)
         /\ plateau' = IF features = <<>> THEN plateau
                       ELSE IF Steady(features[Len(features)], count) THEN plateau + 1 ELSE 0
  BY DEF ProbeScale
<1>4. count \in Nat
  BY WaveletAssumption DEF CountsAt
<1>5. PICK n \in Nat : n = Len(features)
  BY DEF ProbeInv
<1>6. PICK w \in 0 .. 2 : w = plateau
  BY <1>2
<1>7. /\ features' \in Seq(Nat) /\ Len(features') = n + 1
      /\ \A k \in 1 .. n : features'[k] = features[k]
      /\ features'[n + 1] = count
  BY <1>3, <1>4, <1>5 DEF ProbeInv
<1>8. \A k \in 1 .. n : SteadyAt(k)' <=> SteadyAt(k)
  BY <1>7, ProbesStay DEF SteadyAt
<1>9. SteadyAt(n + 1)' <=> (n # 0 /\ Steady(features[n], count))
  BY <1>7, ProbesStay DEF SteadyAt
<1>10. (features = <<>> <=> n = 0) /\ w <= n
  BY <1>5, <1>6 DEF ProbeInv
<1>0. ~(SteadyAt(n) /\ SteadyAt(n - 1) /\ SteadyAt(n - 2))
  BY <1>5, <1>6, <1>10 DEF ProbeInv, SteadyAt
<1>12. \A k \in 3 .. n : ~(SteadyAt(k)' /\ SteadyAt(k - 1)' /\ SteadyAt(k - 2)')
  BY <1>5, <1>8, <1>0 DEF ProbeInv
<1>13. CASE SteadyAt(n + 1)'
  <2>1. plateau' = w + 1 /\ n # 0
    BY <1>3, <1>5, <1>6, <1>9, <1>10, <1>13
  <2>2. \A k \in n + 1 - w .. n + 1 : SteadyAt(k)'
    BY <1>5, <1>6, <1>8, <1>10, <1>13 DEF ProbeInv
  <2>3. w < n => ~SteadyAt(n - w)'
    BY <1>5, <1>6, <1>8 DEF ProbeInv
  <2> QED
    BY <1>1, <1>2, <1>5, <1>7, <1>10, <1>12, <2>1, <2>2, <2>3 DEF ProbeInv
<1>14. CASE ~SteadyAt(n + 1)'
  <2>1. plateau' = 0
    BY <1>3, <1>5, <1>6, <1>9, <1>10, <1>14 DEF ProbeInv
  <2> QED
    BY <1>1, <1>2, <1>5, <1>7, <1>10, <1>12, <1>14, <2>1 DEF ProbeInv
<1> QED
  BY <1>13, <1>14

LEMMA ProbeSafe ==
  ASSUME call \in CallType, ProbeInv
  PROVE  StopsOnlyOnPlateau
<1>1. NumProbes \in 1 .. 16
  BY ProbesExist
<1>2. \A k \in 1 .. Len(features) - 1 : ~(SteadyAt(k) /\ SteadyAt(k - 1) /\ SteadyAt(k - 2))
  BY DEF ProbeInv, SteadyAt
<1>3. AdaptiveDone =>
        \/ Len(features) = NumProbes
        \/ /\ SteadyAt(Len(features)) /\ SteadyAt(Len(features) - 1)
           /\ SteadyAt(Len(features) - 2)
  BY <1>1 DEF AdaptiveDone, ProbeInv
<1> QED
  BY <1>2, <1>3 DEF StopsOnlyOnPlateau, SteadyAt

(* The kernel of a probe lies inside wherever it is laid. *)
LEMMA ProbeInside ==
  ASSUME call \in CallType, ProbeInv
  PROVE  ProbesStayInside
<1>1. NumProbes \in 1 .. 16
  BY ProbesExist
<1>2. ASSUME ~AdaptiveDone PROVE Probed(probe) \in Nat
  <2>1. probe - 1 \in 0 .. 16
    BY <1>1, <1>2 DEF AdaptiveDone, ProbeInv
  <2> QED
    BY <2>1, PowerIs, PowersGrow DEF Probed
<1>3. ASSUME NEW s \in Nat PROVE Half(s) \in Nat
  BY <1>3 DEF Half, KernelSize
<1>4. ASSUME NEW s \in Nat, ~NoInterior(s), NEW extent \in {Width, Height}
      PROVE  LET range == Interior(extent, s)
             IN  range.from < range.to /\ range.from - 1 >= Half(s) /\ range.to < extent - Half(s)
  BY <1>3, <1>4, Sides DEF NoInterior, Interior
<1> QED
  BY <1>2, <1>4 DEF ProbesStayInside

-----------------------------------------------------------------------------
(* The powers of two up to a cap, as far as the table has them.            *)
LEMMA Ladders ==
  ASSUME NEW cap \in Int
  PROVE  \E n \in 0 .. 9 :
           /\ PowersUpTo(cap) = [k \in 1 .. n |-> 2 ^ k]
           /\ \A k \in 1 .. n : Power[k] <= cap
<1>1. PICK n \in 0 .. 9 : (n = 0 \/ Power[n] <= cap) /\ (n = 9 \/ cap < Power[n + 1])
  <2>1. CASE cap >= 512
    BY <2>1, PowerTable
  <2>2. CASE cap < 512
    <3>1. \/ cap < 2 \/ (2 <= cap /\ cap < 4) \/ (4 <= cap /\ cap < 8) \/ (8 <= cap /\ cap < 16)
          \/ (16 <= cap /\ cap < 32) \/ (32 <= cap /\ cap < 64) \/ (64 <= cap /\ cap < 128)
          \/ (128 <= cap /\ cap < 256) \/ (256 <= cap /\ cap < 512)
      BY <2>2
    <3> QED
      BY <3>1, PowerTable
  <2> QED
    BY <2>1, <2>2
<1>2. \A k \in 1 .. 9 : 2 ^ k <= cap <=> k <= n
  <2>1. \A k \in 1 .. 9 : Power[k] <= cap <=> k <= n
    BY <1>1, PowersGrow
  <2>2. \A k \in 1 .. 9 : Power[k] = 2 ^ k
    <3>1. \A k \in 1 .. 9 : k \in 0 .. 16
      OBVIOUS
    <3> QED
      BY <3>1, PowerIs, Zenon
  <2> QED
    BY <2>1, <2>2, Zenon
<1>3. {k \in 1 .. 9 : 2 ^ k <= cap} = 1 .. n
  <2>1. {k \in 1 .. 9 : 2 ^ k <= cap} = {k \in 1 .. 9 : k <= n}
    BY <1>2, Zenon
  <2> QED
    BY <1>1, <2>1
<1>4. Cardinality(1 .. n) = n
  <2>1. Cardinality(1 .. n) = IF 1 > n THEN 0 ELSE n - 1 + 1
    BY <1>1, FS_Interval
  <2> QED
    BY <1>1, <2>1
<1>5. \A k \in 1 .. n : Power[k] <= cap
  BY <1>1, PowersGrow
<1> QED
  BY <1>3, <1>4, <1>5 DEF PowersUpTo

Dyadic(cap) == {w \in {2, 4, 8, 16, 32, 64, 128, 256, 512} : w <= cap}

LEMMA LaddersAreDyadic ==
  ASSUME NEW cap \in Int
  PROVE  /\ PowersUpTo(cap) \in Seq(Dyadic(cap))
         /\ AtMostOf(8, PowersUpTo(cap)) \in Seq(Dyadic(cap))
<1>1. PICK n \in 0 .. 9 : /\ PowersUpTo(cap) = [k \in 1 .. n |-> 2 ^ k]
                          /\ \A k \in 1 .. n : Power[k] <= cap
  BY Ladders
<1>2. ASSUME NEW k \in 1 .. n PROVE 2 ^ k \in Dyadic(cap)
  <2>1. k \in 0 .. 16 /\ k \in {1, 2, 3, 4, 5, 6, 7, 8, 9}
    BY <1>1
  <2>2. Power[k] \in Dyadic(cap)
    <3>1. Power[k] \in {2, 4, 8, 16, 32, 64, 128, 256, 512}
      BY <2>1, PowerTable
    <3> QED
      BY <1>1, <3>1 DEF Dyadic
  <2> QED
    BY <2>1, <2>2, PowerIs
<1>3. PowersUpTo(cap) \in Seq(Dyadic(cap)) /\ Len(PowersUpTo(cap)) = n
  BY <1>1, <1>2
<1>4. SubSeq(PowersUpTo(cap), 1, AtMost(8, n)) \in Seq(Dyadic(cap))
  BY <1>1, <1>3, SubSeqProperties DEF AtMost
<1> QED
  BY <1>3, <1>4 DEF AtMostOf

-----------------------------------------------------------------------------
(* The filters and windows that slide: how wide each kind is, at most.     *)
KnownFilters ==
  {Kernel(s, "interior", 3) : s \in {"gradient", "noise", "fractal_aware"}}
  \cup {TextureKernel}
  \cup {Kernel("fractal_aware", "window", w) : w \in Dyadic(ShortSide)}

LEMMA FiltersAreKnown ==
  ASSUME call \in CallType
  PROVE  Filters \in Seq(KnownFilters)
<1>1. ShortSide \in Nat
  BY Sides DEF ShortSide, AtMost
<1> DEFINE cap == AtMost(ShortSide \div 4, AtLeast(call.detection_max, 2))
<1>2. cap \in Int /\ cap <= ShortSide
  BY <1>1 DEF CallType, AtMost, AtLeast
<1>3. WindowSizes \in Seq(Dyadic(cap))
  BY <1>2, LaddersAreDyadic DEF WindowSizes, DetectorSizes
<1>4. \A k \in DOMAIN WindowSizes : Kernel("fractal_aware", "window", WindowSizes[k]) \in KnownFilters
  BY <1>1, <1>2, <1>3 DEF Dyadic, KnownFilters
<1>5. [k \in DOMAIN WindowSizes |-> Kernel("fractal_aware", "window", WindowSizes[k])]
        \in Seq(KnownFilters)
  BY <1>3, <1>4
<1>6. /\ <<GradientKernel, OrientationKernel>> \in Seq(KnownFilters)
      /\ <<TextureKernel>> \in Seq(KnownFilters)
      /\ <<NoiseKernel>> \in Seq(KnownFilters)
      /\ <<DetectorKernel>> \in Seq(KnownFilters)
  BY DEF KnownFilters, GradientKernel, OrientationKernel, NoiseKernel, DetectorKernel
<1>7. \A source, fs : fs \in Seq(KnownFilters) => Running(source, fs) \in Seq(KnownFilters)
  BY DEF Running
<1>8. \A s, t \in Seq(KnownFilters) : s \o t \in Seq(KnownFilters)
  OBVIOUS
<1> HIDE DEF cap
<1> QED
  BY <1>5, <1>6, <1>7, <1>8, Zenon DEF Filters

(* Along one axis, for a kernel or window of a known kind. *)
Inside(f, placements, extent) ==
  /\ \A p \in placements : 0 <= p[1]
  /\ IF f.side <= extent
       THEN /\ \A p \in placements : p[2] < extent
            /\ \A c \in 0 .. extent - 1 - (IF f.kind = "gabor" THEN 1 ELSE 0) :
                 \E p \in placements : p[1] <= c /\ c <= p[2]
       ELSE Cardinality(placements) = IF f.kind = "gabor" /\ extent > Middle(f) THEN 1 ELSE 0

LEMMA SlidesInside ==
  ASSUME NEW extent \in Nat, ShortSide \in Nat, ShortSide <= extent, NEW f \in KnownFilters
  PROVE  Inside(f, Placements(f, extent), extent)
<1>1. CASE f \in {Kernel(s, "interior", 3) : s \in {"gradient", "noise", "fractal_aware"}}
  <2>1. f.kind = "interior" /\ f.side = 3 /\ Middle(f) = 1
    BY <1>1 DEF Kernel, Middle
  <2>2. Placements(f, extent) = {<<c - 1, c + 1>> : c \in 1 .. extent - 2}
    BY <2>1 DEF Placements, Anchors, Interior3
  <2>3. CASE extent >= 3
    <3>1. ASSUME NEW c \in 0 .. extent - 1
          PROVE  \E p \in Placements(f, extent) : p[1] <= c /\ c <= p[2]
      <4>1. PICK d \in 1 .. extent - 2 : d - 1 <= c /\ c <= d + 1
        BY <2>3
      <4>2. <<d - 1, d + 1>> \in Placements(f, extent)
        BY <2>2, <4>1
      <4> QED
        BY <4>1, <4>2
    <3>2. \A p \in Placements(f, extent) : 0 <= p[1] /\ p[2] < extent
      BY <2>2
    <3> QED
      BY <2>1, <2>3, <3>1, <3>2 DEF Inside
  <2>4. CASE extent < 3
    <3>1. Placements(f, extent) = {}
      BY <2>2, <2>4
    <3> QED
      BY <2>1, <2>4, <3>1, FS_EmptySet DEF Inside
  <2> QED
    BY <2>3, <2>4
<1>2. CASE f = TextureKernel
  <2>1. f.kind = "gabor" /\ f.side = 15 /\ Middle(f) = 7
    BY <1>2 DEF Kernel, Middle, TextureKernel
  <2>2. Placements(f, extent) =
          {<<c - 7, c + 7>> : c \in {p \in 7 .. GaborEnd(extent, f) - 1 : (p - 7) % 2 = 0}}
    BY <2>1 DEF Placements, Anchors, GaborEnd, AtMost, AtLeast
  <2>3. CASE extent >= 15
    <3>1. GaborEnd(extent, f) = extent - 7
      BY <2>1, <2>3 DEF GaborEnd, AtMost, AtLeast
    <3>2. ASSUME NEW c \in 0 .. extent - 2
          PROVE  \E p \in Placements(f, extent) : p[1] <= c /\ c <= p[2]
      <4>1. PICK d \in 7 .. extent - 8 : (d - 7) % 2 = 0 /\ d - 7 <= c /\ c <= d + 7
        <5>1. CASE c <= 14
          BY <2>3, <5>1
        <5>2. CASE c > 14 /\ c % 2 = 0
          <6>1. c - 7 \in 7 .. extent - 8 /\ ((c - 7) - 7) % 2 = 0
            BY <5>2
          <6>2. (c - 7) - 7 <= c /\ c <= (c - 7) + 7
            BY <3>2
          <6> QED
            BY <6>1, <6>2
        <5>3. CASE c > 14 /\ c % 2 = 1
          <6>1. c - 6 \in 7 .. extent - 8 /\ ((c - 6) - 7) % 2 = 0
            BY <5>3
          <6>2. (c - 6) - 7 <= c /\ c <= (c - 6) + 7
            BY <3>2
          <6> QED
            BY <6>1, <6>2
        <5> QED
          BY <5>1, <5>2, <5>3
      <4>2. <<d - 7, d + 7>> \in Placements(f, extent)
        BY <2>2, <3>1, <4>1
      <4> QED
        BY <4>1, <4>2
    <3>3. \A p \in Placements(f, extent) : 0 <= p[1] /\ p[2] < extent
      BY <2>2, <3>1
    <3> QED
      BY <2>1, <2>3, <3>2, <3>3 DEF Inside
  <2>4. CASE extent \in 8 .. 14
    <3>1. GaborEnd(extent, f) = 8
      BY <2>1, <2>4 DEF GaborEnd, AtMost, AtLeast
    <3>2. Placements(f, extent) = {<<0, 14>>}
      BY <2>2, <3>1
    <3>3. Cardinality({<<0, 14>>}) = 1
      BY FS_Singleton
    <3> QED
      BY <2>1, <2>4, <3>2, <3>3 DEF Inside
  <2>5. CASE extent < 8
    <3>1. GaborEnd(extent, f) = extent
      BY <2>1, <2>5 DEF GaborEnd, AtMost, AtLeast
    <3>2. Placements(f, extent) = {}
      BY <2>2, <2>5, <3>1
    <3> QED
      BY <2>1, <2>5, <3>2, FS_EmptySet DEF Inside
  <2> QED
    BY <2>3, <2>4, <2>5
<1>3. CASE f \in {Kernel("fractal_aware", "window", w) : w \in Dyadic(ShortSide)}
  <2>1. f.kind = "window" /\ f.side \in Nat /\ 1 <= f.side /\ f.side <= extent
    BY <1>3 DEF Kernel, Dyadic
  <2>2. Placements(f, extent) = {<<a, a + f.side - 1>> : a \in 0 .. extent - f.side}
    BY <2>1 DEF Placements, Anchors, AtLeast
  <2>3. ASSUME NEW c \in 0 .. extent - 1
        PROVE  \E p \in Placements(f, extent) : p[1] <= c /\ c <= p[2]
    <3>1. PICK a \in 0 .. extent - f.side : a <= c /\ c <= a + f.side - 1
      BY <2>1
    <3>2. <<a, a + f.side - 1>> \in Placements(f, extent)
      BY <2>2, <3>1
    <3> QED
      BY <3>1, <3>2
  <2>4. \A p \in Placements(f, extent) : 0 <= p[1] /\ p[2] < extent
    BY <2>1, <2>2
  <2> QED
    BY <2>1, <2>3, <2>4 DEF Inside
<1> QED
  BY <1>1, <1>2, <1>3 DEF KnownFilters

FilterInv ==
  /\ filter \in 1 .. Len(Filters) + 1
  /\ filter > 1 => reads = [columns |-> Placements(Filters[filter - 1], Width),
                            lines   |-> Placements(Filters[filter - 1], Height)]

LEMMA FiltersStay ==
  ASSUME call' = call
  PROVE  Filters' = Filters
<1>1. WindowSizes' = WindowSizes
  BY SidesStay DEF WindowSizes, DetectorSizes
<1> QED
  BY <1>1 DEF Filters, Running

LEMMA FilterStep ==
  ASSUME call \in CallType, FilterInv, Slide, UNCHANGED call
  PROVE  FilterInv'
<1>1. Filters \in Seq(KnownFilters)
  BY FiltersAreKnown
<1>2. filter \in 1 .. Len(Filters)
  BY <1>1 DEF Slide, FiltersDone, FilterInv
<1> QED
  BY <1>1, <1>2, SidesStay, FiltersStay DEF Slide, FilterInv

LEMMA FilterSafe ==
  ASSUME call \in CallType, FilterInv
  PROVE  FiltersStayInside
<1>1. /\ Width \in Nat /\ Height \in Nat /\ ShortSide \in Nat
      /\ ShortSide <= Width /\ ShortSide <= Height
  BY Sides DEF ShortSide, AtMost
<1>2. ASSUME filter > 1 PROVE Filters[filter - 1] \in KnownFilters
  BY <1>2, FiltersAreKnown DEF FilterInv
<1>3. ASSUME filter > 1
      PROVE  /\ Inside(Filters[filter - 1], reads.columns, Width)
             /\ Inside(Filters[filter - 1], reads.lines, Height)
  BY <1>1, <1>2, <1>3, SlidesInside DEF FilterInv
<1> QED
  BY <1>3 DEF FiltersStayInside, Inside

LEMMA ProbeAlways == Spec => [](call \in CallType /\ ProbeInv)
<1>1. Init => call \in CallType /\ ProbeInv
  BY CallAssumption, ProbeInitially DEF Init
<1>2. call \in CallType /\ ProbeInv /\ [Next]_vars => (call \in CallType /\ ProbeInv)'
  <2> SUFFICES ASSUME call \in CallType, ProbeInv, [Next]_vars
               PROVE  ProbeInv' /\ call' \in CallType
    OBVIOUS
  <2>1. UNCHANGED call /\ (UNCHANGED waveletVars \/ AnalyzeStep \/ ProbeScale \/ WaveletReset)
    BY Components
  <2>2. CASE UNCHANGED waveletVars \/ AnalyzeStep
    <3>1. probe' = probe /\ plateau' = plateau /\ features' = features /\ NumProbes' = NumProbes
      BY <2>1, <2>2, ProbesStay DEF AnalyzeStep, waveletVars
    <3>2. \A p, c : Steady(p, c)' <=> Steady(p, c)
      BY <2>1 DEF Steady
    <3> QED
      BY <2>1, <3>1, <3>2 DEF ProbeInv, SteadyAt
  <2>3. CASE ProbeScale
    BY <2>1, <2>3, ProbeStep
  <2>4. CASE WaveletReset
    BY <2>1, <2>4, ProbesExist, ProbesStay DEF WaveletReset, ProbeInv
  <2> QED
    BY <2>1, <2>2, <2>3, <2>4
<1> QED
  BY <1>1, <1>2, PTL DEF Spec

(* The fractal source ends its search early only on a plateau of three     *)
(* counts, and then at once, for every cap, threshold and series of counts *)
(* (`AdaptiveWTMM::analyze`).                                              *)
THEOREM PlateauEndsSearch == Spec => []StopsOnlyOnPlateau
<1>1. call \in CallType /\ ProbeInv => StopsOnlyOnPlateau
  BY ProbeSafe
<1> QED
  BY <1>1, ProbeAlways, PTL

(* No kernel, window or slice of a source reads outside the picture, for   *)
(* every size of it and every knob.                                        *)
THEOREM ReadsInside == Spec => []ReadsStayInside
<1> DEFINE Inv == call \in CallType /\ ProbeInv
<1>1. Inv /\ Init => FilterInv
  <2> SUFFICES ASSUME Inv, Init PROVE FilterInv
    OBVIOUS
  <2>1. Filters \in Seq(KnownFilters)
    BY FiltersAreKnown
  <2> QED
    BY <2>1 DEF Init, FilterInit, FilterInv
<1>2. Inv /\ FilterInv /\ [Next]_vars => FilterInv'
  <2> SUFFICES ASSUME Inv, FilterInv, [Next]_vars PROVE FilterInv'
    OBVIOUS
  <2>1. UNCHANGED call /\ (UNCHANGED filterVars \/ Slide \/ (filter' = 1 /\ reads' = NoReads))
    BY Components
  <2>2. Filters' = Filters /\ Width' = Width /\ Height' = Height
    BY <2>1, FiltersStay, SidesStay
  <2>3. CASE UNCHANGED filterVars
    BY <2>2, <2>3 DEF FilterInv, filterVars
  <2>4. CASE Slide
    BY <2>1, <2>4, FilterStep
  <2>5. CASE filter' = 1 /\ reads' = NoReads
    BY <2>2, <2>5, FiltersAreKnown DEF FilterInv
  <2> QED
    BY <2>1, <2>3, <2>4, <2>5
<1>3. Inv /\ FilterInv => ReadsStayInside
  BY ProbeInside, FilterSafe DEF ReadsStayInside
<1> HIDE DEF Inv
<1>4. Spec => []Inv
  BY ProbeAlways DEF Inv
<1> QED
  BY <1>1, <1>2, <1>3, <1>4, PTL DEF Spec

-----------------------------------------------------------------------------
(* The boxes of the lacunarity source.                                     *)
LEMMA LeastOf ==
  ASSUME NEW T, T \subseteq Nat, T # {}
  PROVE  \E m \in T : \A n \in T : m <= n
<1>1. PICK m \in T : \A n \in T : ~(<<n, m>> \in OpToRel(<, Nat))
  BY NatLessThanWellFounded, WFMin
<1>2. \A n \in T : ~(n < m)
  BY <1>1 DEF OpToRel
<1>3. \A n \in T : m <= n
  <2>1. m \in Nat
    BY <1>1
  <2> QED
    BY <1>2, <2>1
<1> QED
  BY <1>1, <1>3

LEMMA BoxSides ==
  ASSUME call \in CallType, due \subseteq Scales, due # {}
  PROVE  /\ InUse \in due
         /\ Side \in Nat /\ Side >= 2
         /\ EndX \in Nat /\ EndX >= 1 /\ EndY \in Nat /\ EndY >= 1
         /\ Columns \in Nat /\ Columns >= 1 /\ Rows \in Nat /\ Rows >= 1
         /\ Side <= Width => EndX - 1 + Side <= Width /\ (Columns - 1) * Side + Side <= Width
         /\ Side <= Height => EndY - 1 + Side <= Height /\ (Rows - 1) * Side + Side <= Height
<1>1. Width \in Nat /\ Height \in Nat
  BY Sides
<1>2. due \subseteq Nat
  <2>1. AdaptiveScales \subseteq Nat
    BY DEF AdaptiveScales, CallType, Density
  <2> QED
    BY <2>1 DEF Scales
<1>3. \E s \in due : \A t \in due : s <= t
  BY <1>2, LeastOf
<1>4. InUse \in due
  BY <1>3, Zenon DEF InUse
<1>5. Side \in Nat /\ Side >= 2
  BY <1>2, <1>4 DEF Side, AtLeast
<1>6. ASSUME NEW extent \in Nat
      PROVE  /\ EndOf(extent) \in Nat /\ EndOf(extent) >= 1
             /\ Side <= extent => EndOf(extent) - 1 + Side <= extent
  BY <1>5 DEF EndOf, AtLeast, AtMost
<1>7. ASSUME NEW extent \in Nat
      PROVE  /\ AtLeast(extent \div Side, 1) \in Nat /\ AtLeast(extent \div Side, 1) >= 1
             /\ Side <= extent => (AtLeast(extent \div Side, 1) - 1) * Side + Side <= extent
  <2>1. extent \div Side \in Nat /\ (extent \div Side) * Side <= extent
    BY <1>5
  <2>2. Side <= extent => extent \div Side >= 1
    BY <1>5
  <2>3. ASSUME NEW q \in Nat PROVE (q - 1) * Side + Side = q * Side
    BY <1>5
  <2> QED
    BY <2>1, <2>2, <2>3 DEF AtLeast
<1> QED
  BY <1>1, <1>4, <1>5, <1>6, <1>7 DEF EndX, EndY, Columns, Rows

(* A scale that is not over: where the next box goes, and that all boxes   *)
(* so far are in rows above it or to its left.                             *)
Place == IF call.clustered THEN <<x, y>> ELSE <<x * Side, y * Side>>
Behind(g) == g[2] + Side <= Place[2] \/ (g[2] = Place[2] /\ g[1] + Side <= Place[1])
Covers(g, column, line) ==
  g[1] <= column /\ column < g[1] + Side /\ g[2] <= line /\ line < g[2] + Side
Walking ==
  /\ call.clustered => x \in 0 .. EndX - 1
  /\ ~call.clustered => x \in 0 .. Columns - 1 /\ y \in 0 .. Rows - 1
  /\ y > 0 => gaps # <<>>
  /\ \A k \in DOMAIN gaps : Behind(gaps[k])
  /\ call.clustered =>
       \A line \in 0 .. EndY - 1 : \A column \in Side - 1 .. EndX - 1 :
         line < y \/ (line < y + Side /\ column < x) =>
           \E k \in DOMAIN gaps : Covers(gaps[k], column, line)
BoxInv ==
  /\ due \subseteq Scales
  /\ x \in Nat /\ y \in Nat /\ gaps \in Seq(Nat \X Nat) /\ covered \in BOOLEAN
  /\ due # {} /\ ~covered => Walking
  /\ BoxesStayApart /\ NoBandSkipped

LEMMA BoxSidesStay ==
  ASSUME call' = call, due' = due
  PROVE  /\ Side' = Side /\ EndX' = EndX /\ EndY' = EndY /\ Columns' = Columns /\ Rows' = Rows
         /\ Scales' = Scales
<1>1. InUse' = InUse
  BY DEF InUse
<1>2. Side' = Side
  BY <1>1 DEF Side
<1> QED
  BY <1>2, SidesStay DEF EndX, EndY, EndOf, Columns, Rows, Scales, AdaptiveScales

(* A scale begins with no box. *)
LEMMA BoxesBegin ==
  ASSUME call \in CallType, due \subseteq Scales, x = 0, y = 0, gaps = <<>>, covered = FALSE
  PROVE  BoxInv
<1>1. ASSUME due # {} PROVE Walking
  BY <1>1, BoxSides DEF Walking
<1>2. BoxesStayApart /\ NoBandSkipped
  BY DEF BoxesStayApart, NoBandSkipped
<1>3. gaps \in Seq(Nat \X Nat)
  OBVIOUS
<1> QED
  BY <1>1, <1>2, <1>3 DEF BoxInv

LEMMA TimesGrows ==
  ASSUME NEW a \in Int, NEW b \in Int, NEW s \in Nat, a <= b
  PROVE  a * s <= b * s
OBVIOUS

(* A box at the next place is apart from all before it, and inside. *)
LEMMA NextBoxApart ==
  ASSUME call \in CallType, BoxInv, due # {}, ~covered, UNCHANGED <<call, due>>,
         call.clustered => y < EndY, gaps' = Append(gaps, Place), NEW n \in Nat, n = Len(gaps)
  PROVE  /\ BoxesStayApart'
         /\ gaps' \in Seq(Nat \X Nat) /\ Len(gaps') = n + 1 /\ gaps'[n + 1] = Place
         /\ \A k \in 1 .. n : gaps'[k] = gaps[k]
<1>1. /\ Side' = Side /\ Width' = Width /\ Height' = Height
      /\ Side \in Nat /\ Side >= 2
  BY BoxSides, BoxSidesStay, SidesStay DEF BoxInv
<1>2. /\ EndX \in Nat /\ EndY \in Nat /\ Columns \in Nat /\ Rows \in Nat
      /\ Side <= Width => EndX - 1 + Side <= Width /\ (Columns - 1) * Side + Side <= Width
      /\ Side <= Height => EndY - 1 + Side <= Height /\ (Rows - 1) * Side + Side <= Height
  <2>1. due \subseteq Scales
    BY DEF BoxInv
  <2> QED
    BY <2>1, BoxSides, Zenon
<1>0. Width \in 0 .. 160 /\ Height \in 0 .. 160
  BY Sides, Zenon
<1>3. Place \in Nat \X Nat
  BY <1>1 DEF Place, BoxInv
<1>4. /\ gaps' \in Seq(Nat \X Nat) /\ Len(gaps') = n + 1 /\ gaps'[n + 1] = Place
      /\ \A k \in 1 .. n : gaps'[k] = gaps[k]
  BY <1>3 DEF BoxInv
<1>5. Walking
  BY DEF BoxInv
<1>6. Side <= Width /\ Side <= Height => Place[1] + Side <= Width /\ Place[2] + Side <= Height
  <2>1. CASE call.clustered
    <3>1. x <= EndX - 1 /\ y <= EndY - 1 /\ x \in Nat /\ y \in Nat
      BY <1>2, <1>5, <2>1 DEF Walking, BoxInv
    <3>2. Place[1] = x /\ Place[2] = y
      BY <2>1 DEF Place
    <3>3. Width \in Nat /\ Height \in Nat
      BY <1>0
    <3> QED
      BY <1>1, <1>2, <3>1, <3>2, <3>3
  <2>2. CASE ~call.clustered
    <3>1. x <= Columns - 1 /\ y <= Rows - 1 /\ x \in Nat /\ y \in Nat
      BY <1>2, <1>5, <2>2 DEF Walking, BoxInv
    <3>2. x * Side <= (Columns - 1) * Side /\ y * Side <= (Rows - 1) * Side
      BY <1>1, <1>2, <3>1, TimesGrows
    <3>3. Place[1] = x * Side /\ Place[2] = y * Side
      BY <2>2 DEF Place
    <3>4. Width \in Nat /\ Height \in Nat
      BY <1>0
    <3>5. x * Side \in Nat /\ (Columns - 1) * Side \in Int /\ y * Side \in Nat /\ (Rows - 1) * Side \in Int
      BY <1>1, <1>2, <3>1
    <3> QED
      BY <1>1, <1>2, <3>2, <3>3, <3>4, <3>5
  <2> QED
    BY <2>1, <2>2
<1>7. \A k \in 1 .. n : Behind(gaps[k])
  <2>1. DOMAIN gaps = 1 .. n
    BY DEF BoxInv
  <2> QED
    BY <1>5, <2>1 DEF Walking
<1>8. \A k \in 1 .. n : Apart(gaps[k], Place)
  <2> TAKE k \in 1 .. n
  <2>1. PICK g \in Nat \X Nat : g = gaps[k]
    BY DEF BoxInv
  <2>2. PICK q \in Nat \X Nat : q = Place
    BY <1>3
  <2>3. q[2] >= g[2] + Side \/ q[1] >= g[1] + Side
    BY <1>1, <1>7, <2>1, <2>2 DEF Behind
  <2> QED
    BY <1>1, <2>1, <2>2, <2>3 DEF Apart
<1>9. \A p, q : Apart(p, q)' <=> Apart(p, q)
  BY <1>1 DEF Apart
<1>10. ASSUME Side' <= Width', Side' <= Height'
       PROVE  /\ gaps'[Len(gaps')][1] + Side' <= Width' /\ gaps'[Len(gaps')][2] + Side' <= Height'
              /\ \A k \in 1 .. Len(gaps') - 1 : Apart(gaps[k], gaps[Len(gaps)])'
  BY <1>1, <1>4, <1>6, <1>8, <1>9, <1>10
<1> QED
  BY <1>4, <1>10 DEF BoxesStayApart

(* The shift with which the walk starts again is smaller than a box. *)
LEMMA Wraps ==
  ASSUME NEW e \in Nat \ {0}, NEW c \in 0 .. e - 1, NEW s \in Nat
  PROVE  /\ (c + s) % e \in 0 .. e - 1
         /\ c + s < e => (c + s) % e = c + s
         /\ c + s >= e => (c + s) % e < s
<1>1. (c + s) % e \in 0 .. e - 1
  OBVIOUS
<1>2. c + s < e => (c + s) % e = c + s
  OBVIOUS
<1>3. ASSUME c + s >= e, e > s PROVE (c + s) % e < s
  <2>1. (c + s) % e = c + s - e
    BY <1>3
  <2> QED
    BY <2>1
<1> QED
  BY <1>1, <1>2, <1>3

LEMMA GlideStep ==
  ASSUME call \in CallType, BoxInv, Glide, UNCHANGED call
  PROVE  BoxInv'
<1>0. /\ due # {} /\ ~covered /\ call.clustered /\ y < EndY /\ UNCHANGED due
      /\ gaps' = Append(gaps, <<x, y>>)
      /\ IF x + Side >= EndX /\ y + Side >= EndY
           THEN covered' = TRUE /\ UNCHANGED <<x, y>>
         ELSE /\ x' = (x + Side) % EndX
              /\ y' = IF x' < Side THEN y + Side ELSE y
              /\ UNCHANGED covered
  BY DEF Glide, BoxesDone
<1>1. due \subseteq Scales /\ x \in Nat /\ y \in Nat /\ gaps \in Seq(Nat \X Nat)
  BY DEF BoxInv
<1>2. /\ Side \in Nat /\ Side >= 2 /\ EndX \in Nat /\ EndX >= 1 /\ EndY \in Nat /\ EndY >= 1
      /\ Side' = Side /\ EndX' = EndX /\ EndY' = EndY /\ Scales' = Scales
  BY <1>0, <1>1, BoxSides, BoxSidesStay
<1>3. PICK n \in Nat : n = Len(gaps)
  BY <1>1
<1>4. Place = <<x, y>>
  BY <1>0 DEF Place
<1>5. /\ BoxesStayApart'
      /\ gaps' \in Seq(Nat \X Nat) /\ Len(gaps') = n + 1 /\ gaps'[n + 1] = <<x, y>>
      /\ \A k \in 1 .. n : gaps'[k] = gaps[k]
  BY <1>0, <1>3, <1>4, NextBoxApart
<1>6. x \in 0 .. EndX - 1 /\ DOMAIN gaps = 1 .. n /\ DOMAIN gaps' = 1 .. n + 1
  BY <1>0, <1>1, <1>3, <1>5 DEF BoxInv, Walking
<1>7. ASSUME NEW line \in 0 .. EndY - 1, NEW column \in Side - 1 .. EndX - 1,
             line < y \/ (line < y + Side /\ column < x + Side)
      PROVE  \E k \in 1 .. n + 1 : Covers(gaps'[k], column, line)
  <2>1. CASE line < y \/ (line < y + Side /\ column < x)
    <3>1. PICK k \in 1 .. n : Covers(gaps[k], column, line)
      BY <1>0, <1>6, <2>1 DEF BoxInv, Walking
    <3>2. k \in 1 .. n + 1 /\ gaps'[k] = gaps[k]
      BY <1>5, <3>1
    <3> QED
      BY <3>1, <3>2
  <2>2. CASE line >= y /\ line < y + Side /\ column >= x /\ column < x + Side
    <3>1. Covers(<<x, y>>, column, line)
      BY <2>2 DEF Covers
    <3> QED
      BY <1>5, <3>1
  <2> QED
    BY <1>1, <1>2, <1>7, <2>1, <2>2
<1>8. \A g \in Nat \X Nat : \A column, line : Covers(g, column, line)' <=> Covers(g, column, line)
  BY <1>2 DEF Covers
<1>9. CASE x + Side >= EndX /\ y + Side >= EndY
  <2>1. covered' = TRUE /\ x' = x /\ y' = y
    BY <1>0, <1>9
  <2>2. \A line \in 0 .. EndY - 1 : \A column \in Side - 1 .. EndX - 1 :
          \E k \in 1 .. n + 1 : Covers(gaps'[k], column, line)
    BY <1>1, <1>2, <1>7, <1>9
  <2>3. NoBandSkipped'
    <3>1. gaps' # <<>>
      BY <1>5
    <3>2. \A line \in 0 .. EndY' - 1 : \A column \in Side' - 1 .. EndX' - 1 :
            \E k \in DOMAIN gaps' :
              /\ gaps'[k][1] <= column /\ column < gaps'[k][1] + Side'
              /\ gaps'[k][2] <= line /\ line < gaps'[k][2] + Side'
      BY <1>2, <1>6, <2>2, Zenon DEF Covers
    <3> QED
      BY <3>1, <3>2, Zenon DEF NoBandSkipped
  <2> QED
    BY <1>0, <1>1, <1>2, <1>5, <2>1, <2>3 DEF BoxInv
<1>10. CASE ~(x + Side >= EndX /\ y + Side >= EndY)
  <2>1. /\ x' = (x + Side) % EndX /\ covered' = FALSE
        /\ y' = IF x' < Side THEN y + Side ELSE y
    BY <1>0, <1>10
  <2>2. /\ x' \in 0 .. EndX - 1
        /\ x + Side < EndX => x' = x + Side /\ y' = y
        /\ x + Side >= EndX => x' < Side /\ y' = y + Side
    <3>1. EndX \in Nat \ {0}
      BY <1>2
    <3>2. /\ (x + Side) % EndX \in 0 .. EndX - 1
          /\ x + Side < EndX => (x + Side) % EndX = x + Side
          /\ x + Side >= EndX => (x + Side) % EndX < Side
      BY <1>2, <1>6, <3>1, Wraps
    <3> QED
      BY <1>1, <1>2, <2>1, <3>2
  <2>3. ASSUME NEW line \in 0 .. EndY - 1, NEW column \in Side - 1 .. EndX - 1,
               line < y' \/ (line < y' + Side /\ column < x')
        PROVE  \E k \in 1 .. n + 1 : Covers(gaps'[k], column, line)
    <3>1. line < y \/ (line < y + Side /\ column < x + Side)
      BY <1>1, <1>2, <2>2, <2>3
    <3> QED
      BY <1>7, <3>1
  <2>4. \A k \in 1 .. n + 1 :
          gaps'[k][2] + Side <= y' \/ (gaps'[k][2] = y' /\ gaps'[k][1] + Side <= x')
    <3>1. \A k \in 1 .. n :
            gaps[k][2] + Side <= y \/ (gaps[k][2] = y /\ gaps[k][1] + Side <= x)
      BY <1>0, <1>4, <1>6 DEF BoxInv, Walking, Behind
    <3>2. ASSUME NEW k \in 1 .. n
          PROVE  gaps[k][2] + Side <= y' \/ (gaps[k][2] = y' /\ gaps[k][1] + Side <= x')
      <4>1. gaps[k][1] \in Nat /\ gaps[k][2] \in Nat
        BY <1>1, <1>6
      <4>2. gaps[k][2] + Side <= y \/ (gaps[k][2] = y /\ gaps[k][1] + Side <= x)
        BY <3>1
      <4>3. (x' = x + Side /\ y' = y) \/ y' = y + Side
        BY <1>1, <1>2, <1>6, <2>2
      <4> QED
        BY <1>1, <1>2, <4>1, <4>2, <4>3
    <3>3. y + Side <= y' \/ (y = y' /\ x + Side <= x')
      BY <1>1, <1>2, <2>2
    <3>4. \A k \in 1 .. n + 1 : k \in 1 .. n \/ k = n + 1
      OBVIOUS
    <3> QED
      BY <1>5, <3>2, <3>3, <3>4
  <2>5. Walking'
    <3>1. /\ call'.clustered /\ Place' = <<x', y'>>
          /\ x' \in 0 .. EndX' - 1 /\ gaps' # <<>>
      <4>1. call'.clustered
        BY <1>0
      <4>2. Place' = <<x', y'>>
        BY <4>1 DEF Place
      <4> QED
        BY <1>2, <1>5, <2>2, <4>1, <4>2
    <3>2. \A k \in DOMAIN gaps' :
            gaps'[k][2] + Side' <= Place'[2]
              \/ (gaps'[k][2] = Place'[2] /\ gaps'[k][1] + Side' <= Place'[1])
      BY <1>2, <1>6, <2>4, <3>1
    <3>3. \A line \in 0 .. EndY' - 1 : \A column \in Side' - 1 .. EndX' - 1 :
            line < y' \/ (line < y' + Side' /\ column < x') =>
              \E k \in DOMAIN gaps' :
                /\ gaps'[k][1] <= column /\ column < gaps'[k][1] + Side'
                /\ gaps'[k][2] <= line /\ line < gaps'[k][2] + Side'
      BY <1>2, <1>6, <2>3, Zenon DEF Covers
    <3> QED
      BY <3>1, <3>2, <3>3, Zenon DEF Walking, Behind, Covers
  <2>6. NoBandSkipped'
    BY <2>1 DEF NoBandSkipped
  <2> QED
    BY <1>0, <1>1, <1>2, <1>5, <2>1, <2>2, <2>5, <2>6 DEF BoxInv
<1> QED
  BY <1>9, <1>10

LEMMA StopGlidingStep ==
  ASSUME call \in CallType, BoxInv, StopGliding, UNCHANGED call
  PROVE  BoxInv'
<1>1. /\ due # {} /\ ~covered /\ call.clustered /\ (y >= EndY \/ Len(gaps) >= MaxBoxes)
      /\ covered' = TRUE /\ UNCHANGED <<due, x, y, gaps>>
  BY DEF StopGliding, BoxesDone
<1>2. due \subseteq Scales /\ x \in Nat /\ y \in Nat /\ gaps \in Seq(Nat \X Nat) /\ Walking
  BY <1>1 DEF BoxInv
<1>3. /\ Side' = Side /\ EndX' = EndX /\ EndY' = EndY /\ Scales' = Scales
      /\ EndY \in Nat /\ EndY >= 1
  BY <1>1, <1>2, BoxSides, BoxSidesStay
<1>4. gaps # <<>>
  BY <1>1, <1>2, <1>3, BoxAssumption DEF Walking
<1>5. BoxesStayApart'
  <2>1. \A p, q : Apart(p, q)' <=> Apart(p, q)
    BY <1>3 DEF Apart
  <2>2. Width' = Width /\ Height' = Height
    BY SidesStay
  <2>3. BoxesStayApart
    BY DEF BoxInv
  <2> QED
    BY <1>1, <1>3, <2>1, <2>2, <2>3, Zenon DEF BoxesStayApart, BoxesDone, Apart
<1>6. NoBandSkipped'
  <2>1. ASSUME Len(gaps) < MaxBoxes
        PROVE  \A line \in 0 .. EndY - 1 : \A column \in Side - 1 .. EndX - 1 :
                 \E k \in DOMAIN gaps : Covers(gaps[k], column, line)
    <3>1. y >= EndY
      BY <1>1, <1>2, <2>1, BoxAssumption
    <3>2. \A line \in 0 .. EndY - 1 : line < y
      BY <1>2, <1>3, <3>1
    <3> QED
      BY <1>1, <1>2, <3>2 DEF Walking
  <2>2. MaxBoxes' = MaxBoxes
    OBVIOUS
  <2> QED
    BY <1>1, <1>3, <1>4, <2>1, Zenon DEF NoBandSkipped, Covers
<1> QED
  BY <1>1, <1>2, <1>3, <1>5, <1>6 DEF BoxInv

LEMMA CountStep ==
  ASSUME call \in CallType, BoxInv, Count, UNCHANGED call
  PROVE  BoxInv'
<1>1. /\ due # {} /\ ~covered /\ ~call.clustered /\ UNCHANGED due
      /\ gaps' = Append(gaps, <<x * Side, y * Side>>)
      /\ x' = IF x + 1 < Columns THEN x + 1 ELSE 0
      /\ y' = IF x + 1 < Columns THEN y ELSE y + 1
      /\ covered' = (y' >= Rows)
  BY DEF Count, BoxesDone
<1>2. due \subseteq Scales /\ x \in Nat /\ y \in Nat /\ gaps \in Seq(Nat \X Nat) /\ Walking
  BY <1>1 DEF BoxInv
<1>3. /\ Side \in Nat /\ Side >= 2 /\ Columns \in Nat /\ Rows \in Nat
      /\ Side' = Side /\ Columns' = Columns /\ Rows' = Rows /\ Scales' = Scales
  BY <1>1, <1>2, BoxSides, BoxSidesStay
<1>4. PICK n \in Nat : n = Len(gaps)
  BY <1>2
<1>5. Place = <<x * Side, y * Side>>
  BY <1>1 DEF Place
<1>6. /\ BoxesStayApart'
      /\ gaps' \in Seq(Nat \X Nat) /\ Len(gaps') = n + 1 /\ gaps'[n + 1] = <<x * Side, y * Side>>
      /\ \A k \in 1 .. n : gaps'[k] = gaps[k]
  BY <1>1, <1>4, <1>5, NextBoxApart
<1>7. /\ x' \in Nat /\ y' \in Nat /\ covered' \in BOOLEAN /\ gaps' # <<>>
      /\ DOMAIN gaps = 1 .. n /\ DOMAIN gaps' = 1 .. n + 1
  <2>1. x' \in Nat /\ y' \in Nat
    BY <1>1, <1>2
  <2>2. covered' \in BOOLEAN
    BY <1>1
  <2> QED
    BY <1>2, <1>4, <1>6, <2>1, <2>2
<1>8. NoBandSkipped'
  BY <1>1, <1>7 DEF NoBandSkipped
<1>9. ASSUME ~covered' PROVE Walking'
  <2>1. x' \in 0 .. Columns' - 1 /\ y' \in 0 .. Rows' - 1
    <3>1. x \in 0 .. Columns - 1 /\ y \in 0 .. Rows - 1
      BY <1>1, <1>2 DEF Walking
    <3>2. ~(y' >= Rows)
      BY <1>1, <1>9
    <3> QED
      BY <1>1, <1>2, <1>3, <3>1, <3>2
  <2>2. Place' = <<x' * Side, y' * Side>> /\ ~call'.clustered
    BY <1>1, <1>3 DEF Place
  <2>3. y * Side + Side <= y' * Side \/ (y' * Side = y * Side /\ x * Side + Side <= x' * Side)
    <3>1. \A a \in Nat : (a + 1) * Side = a * Side + Side
      BY <1>3
    <3>2. x * Side \in Nat /\ y * Side \in Nat
      BY <1>2, <1>3
    <3> QED
      BY <1>1, <1>2, <1>3, <3>1, <3>2
  <2>4. x * Side \in Nat /\ y * Side \in Nat /\ x' * Side \in Nat /\ y' * Side \in Nat
    <3>1. \A a \in Nat : a * Side \in Nat
      BY <1>3
    <3> QED
      BY <1>2, <1>7, <3>1
  <2>5. ASSUME NEW k \in 1 .. n
        PROVE  \/ gaps[k][2] + Side <= y' * Side
               \/ gaps[k][2] = y' * Side /\ gaps[k][1] + Side <= x' * Side
    <3>1. gaps[k][1] \in Nat /\ gaps[k][2] \in Nat
      BY <1>2, <1>7
    <3>2. \/ gaps[k][2] + Side <= y * Side
          \/ gaps[k][2] = y * Side /\ gaps[k][1] + Side <= x * Side
      BY <1>2, <1>5, <1>7 DEF Walking, Behind
    <3> QED
      BY <1>3, <2>3, <2>4, <3>1, <3>2
  <2>6. \A k \in 1 .. n + 1 : k \in 1 .. n \/ k = n + 1
    OBVIOUS
  <2>7. \A k \in DOMAIN gaps' :
          gaps'[k][2] + Side' <= Place'[2]
            \/ (gaps'[k][2] = Place'[2] /\ gaps'[k][1] + Side' <= Place'[1])
    <3>1. ASSUME NEW k \in 1 .. n + 1
          PROVE  gaps'[k][2] + Side <= y' * Side
                   \/ (gaps'[k][2] = y' * Side /\ gaps'[k][1] + Side <= x' * Side)
      <4>1. CASE k \in 1 .. n
        BY <1>6, <2>5, <4>1
      <4>2. CASE k = n + 1
        <5>1. gaps'[k][1] = x * Side /\ gaps'[k][2] = y * Side
          BY <1>6, <4>2
        <5> QED
          BY <2>3, <5>1
      <4> QED
        BY <2>6, <4>1, <4>2
    <3>2. Place'[1] = x' * Side /\ Place'[2] = y' * Side
      BY <2>2
    <3> QED
      BY <1>3, <1>7, <3>1, <3>2
  <2> QED
    BY <1>7, <2>1, <2>2, <2>7, Zenon DEF Walking, Behind
<1> QED
  BY <1>1, <1>2, <1>3, <1>6, <1>7, <1>8, <1>9 DEF BoxInv

LEMMA EndScaleStep ==
  ASSUME call \in CallType, BoxInv, EndScale, UNCHANGED call
  PROVE  BoxInv'
<1>1. /\ due' = due \ {InUse} /\ x' = 0 /\ y' = 0 /\ gaps' = <<>> /\ covered' = FALSE
      /\ due \subseteq Scales
  BY DEF EndScale, BoxInv
<1>2. Scales' = Scales
  BY DEF Scales, AdaptiveScales
<1>3. due' \subseteq Scales' /\ call' \in CallType
  BY <1>1, <1>2
<1>4. (call \in CallType /\ due \subseteq Scales /\ x = 0 /\ y = 0 /\ gaps = <<>> /\ covered = FALSE
        => BoxInv)'
  BY BoxesBegin, PTL
<1> QED
  BY <1>1, <1>3, <1>4

(***************************************************************************)
(* At every scale the boxes of the lacunarity source stay inside and apart *)
(* while one fits into the picture, and a walk that is not cut off leaves  *)
(* out no band, for every size and choice of scales.                       *)
(***************************************************************************)
LEMMA BoxesAlways == Spec => [](call \in CallType /\ BoxInv)
<1>1. Init => call \in CallType /\ BoxInv
  BY CallAssumption, BoxesBegin DEF Init, BoxInit
<1>2. call \in CallType /\ BoxInv /\ [Next]_vars => (call \in CallType /\ BoxInv)'
  <2> SUFFICES ASSUME call \in CallType, BoxInv, [Next]_vars
               PROVE  BoxInv' /\ call' \in CallType
    OBVIOUS
  <2>1. UNCHANGED call /\ (UNCHANGED boxVars \/ BoxStep)
    BY Components
  <2>2. CASE UNCHANGED boxVars
    <3>1. due' = due /\ x' = x /\ y' = y /\ gaps' = gaps /\ covered' = covered
      BY <2>2 DEF boxVars
    <3>2. /\ Side' = Side /\ EndX' = EndX /\ EndY' = EndY /\ Columns' = Columns /\ Rows' = Rows
          /\ Scales' = Scales /\ Width' = Width /\ Height' = Height
      BY <2>1, <3>1, BoxSidesStay, SidesStay
    <3>3. BoxesDone' = BoxesDone /\ (\A p, q : Apart(p, q)' <=> Apart(p, q))
      BY <3>1, <3>2 DEF BoxesDone, Apart
    <3>4. BoxesStayApart' /\ NoBandSkipped'
      <4>1. BoxesStayApart /\ NoBandSkipped
        BY DEF BoxInv
      <4>2. BoxesStayApart'
        BY <3>1, <3>2, <3>3, <4>1 DEF BoxesStayApart, Apart
      <4>3. NoBandSkipped'
        BY <2>1, <3>1, <3>2, <3>3, <4>1 DEF NoBandSkipped
      <4> QED
        BY <4>2, <4>3
    <3>5. Walking' = Walking
      <4>1. Place' = Place
        BY <2>1, <3>1, <3>2 DEF Place
      <4> QED
        BY <2>1, <3>1, <3>2, <4>1 DEF Walking, Behind, Covers
    <3> QED
      BY <2>1, <3>1, <3>2, <3>4, <3>5 DEF BoxInv
  <2>3. CASE BoxStep
    BY <2>1, <2>3, GlideStep, StopGlidingStep, CountStep, EndScaleStep DEF BoxStep
  <2> QED
    BY <2>1, <2>2, <2>3
<1> QED
  BY <1>1, <1>2, PTL DEF Spec

(* No pixel is counted twice at a scale (`extract_lacunarity`). *)
THEOREM BoxesAreApart == Spec => []BoxesStayApart
<1>1. BoxInv => BoxesStayApart
  BY DEF BoxInv
<1> QED
  BY <1>1, BoxesAlways, PTL

(* No part of the range is left out by the walk's shifted rows. *)
THEOREM BandsAreWhole == Spec => []NoBandSkipped
<1>1. BoxInv => NoBandSkipped
  BY DEF BoxInv
<1> QED
  BY <1>1, BoxesAlways, PTL

-----------------------------------------------------------------------------
(* The tilings.  What a function takes to different values is as many.     *)
LEMMA ImageSize ==
  ASSUME NEW S, IsFiniteSet(S), NEW f, f = [s \in S |-> f[s]],
         \A s, t \in S : f[s] = f[t] => s = t
  PROVE  IsFiniteSet({f[s] : s \in S}) /\ Cardinality({f[s] : s \in S}) = Cardinality(S)
<1> DEFINE T == {f[s] : s \in S}
<1>1. f \in [S -> T]
  OBVIOUS
<1>2. f \in Bijection(S, T)
  BY <1>1 DEF Bijection, Injection, Surjection, IsInjective
<1>3. ExistsBijection(S, T)
  BY <1>2 DEF ExistsBijection
<1> HIDE DEF T
<1>4. IsFiniteSet(T) /\ Cardinality(T) = Cardinality(S)
  BY <1>3, FS_Bijection
<1> QED
  BY <1>4 DEF T

LEMMA ImageFinite ==
  ASSUME NEW S, IsFiniteSet(S), NEW f, f = [s \in S |-> f[s]]
  PROVE  IsFiniteSet({f[s] : s \in S})
<1> DEFINE T == {f[s] : s \in S}
<1>1. f \in Surjection(S, T)
  BY DEF Surjection
<1> HIDE DEF T
<1>2. IsFiniteSet(T)
  BY <1>1, FS_Surjection
<1> QED
  BY <1>2 DEF T

LEMMA Intervals ==
  ASSUME NEW n \in Nat
  PROVE  /\ IsFiniteSet(0 .. n - 1) /\ Cardinality(0 .. n - 1) = n
         /\ IsFiniteSet(1 .. n) /\ Cardinality(1 .. n) = n
<1>1. /\ IsFiniteSet(0 .. n - 1)
      /\ Cardinality(0 .. n - 1) = IF 0 > n - 1 THEN 0 ELSE n - 1 - 0 + 1
  BY FS_Interval
<1>2. IsFiniteSet(1 .. n) /\ Cardinality(1 .. n) = IF 1 > n THEN 0 ELSE n - 1 + 1
  BY FS_Interval
<1> QED
  BY <1>1, <1>2

(* The boxes along one extent: whole ones, at least one, or up to the edge. *)
LEMMA CutsAreWhole ==
  ASSUME NEW e \in Nat \ {0}, NEW s \in Nat \ {0}, NEW n, NEW over,
         \/ n = AtLeast(e \div s, 1) /\ over = s - 1
         \/ n = (e + s - 1) \div s /\ over = 0
  PROVE  /\ n \in Nat \ {0}
         /\ CutWhole({<<c * s, AtMost((c + 1) * s, e)>> : c \in 0 .. n - 1}, e, over)
<1> DEFINE spans == {<<c * s, AtMost((c + 1) * s, e)>> : c \in 0 .. n - 1}
<1>1. /\ e \div s \in Nat /\ (e \div s) * s <= e
      /\ (e + s - 1) \div s \in Nat /\ ((e + s - 1) \div s) * s <= e + s - 1
      /\ e - s < (e \div s) * s /\ e - 1 < ((e + s - 1) \div s) * s
  OBVIOUS
<1>2. n \in Nat \ {0}
  <2>1. ((e + s - 1) \div s) # 0
    BY <1>1
  <2> QED
    BY <1>1, <2>1 DEF AtLeast
<1>3. ASSUME NEW c \in 0 .. n - 1 PROVE c * s < e /\ c * s \in Nat /\ (c + 1) * s = c * s + s
  <2>1. c * s \in Nat /\ (c + 1) * s = c * s + s
    BY <1>3
  <2>2. CASE n = 1
    <3>1. c = 0
      BY <1>3, <2>2
    <3> QED
      BY <2>1, <3>1
  <2>3. CASE n # 1
    <3>1. n * s <= e + s - 1 /\ n * s \in Nat
      BY <1>1, <1>2, <2>3 DEF AtLeast
    <3>2. (c + 1) * s <= n * s
      BY <1>2, <1>3, TimesGrows
    <3> QED
      BY <1>2, <2>1, <3>1, <3>2
  <2> QED
    BY <2>2, <2>3
<1>4. \A p \in spans : p[1] < p[2]
  BY <1>3 DEF AtMost
<1>5. ASSUME NEW p \in spans, NEW q \in spans, p # q
      PROVE  p[2] <= q[1] \/ q[2] <= p[1]
  <2>1. PICK c \in 0 .. n - 1 : p = <<c * s, AtMost((c + 1) * s, e)>>
    OBVIOUS
  <2>2. PICK d \in 0 .. n - 1 : q = <<d * s, AtMost((d + 1) * s, e)>>
    OBVIOUS
  <2>3. c < d \/ d < c
    BY <1>5, <2>1, <2>2
  <2>4. AtMost((c + 1) * s, e) <= (c + 1) * s /\ AtMost((d + 1) * s, e) <= (d + 1) * s
    BY <1>3 DEF AtMost
  <2>5. CASE c < d
    <3>1. (c + 1) * s <= d * s
      BY <1>2, <2>5, TimesGrows
    <3> QED
      BY <1>3, <2>1, <2>2, <2>4, <3>1 DEF AtMost
  <2>6. CASE d < c
    <3>1. (d + 1) * s <= c * s
      BY <1>2, <2>6, TimesGrows
    <3> QED
      BY <1>3, <2>1, <2>2, <2>4, <3>1 DEF AtMost
  <2> QED
    BY <2>3, <2>5, <2>6
<1>6. ASSUME NEW p \in 0 .. e - 1 - over
      PROVE  \E q \in spans : q[1] <= p /\ p < q[2]
  <2> DEFINE c == p \div s
  <2>1. c \in Nat /\ c * s <= p /\ p < c * s + s
    BY <1>6
  <2>2. c <= n - 1
    <3>1. p < n * s
      BY <1>1, <1>6 DEF AtLeast
    <3>2. ASSUME n <= c PROVE FALSE
      <4>1. n * s <= c * s
        BY <1>2, <2>1, <3>2, TimesGrows
      <4> QED
        BY <1>2, <1>6, <2>1, <3>1, <4>1
    <3> QED
      BY <1>2, <2>1, <3>2
  <2>3. <<c * s, AtMost((c + 1) * s, e)>> \in spans
    <3>1. c \in 0 .. n - 1
      BY <1>2, <2>1, <2>2
    <3> HIDE DEF c
    <3> QED
      BY <3>1
  <2>4. p < AtMost((c + 1) * s, e)
    BY <1>6, <2>1 DEF AtMost
  <2> QED
    BY <2>1, <2>3, <2>4
<1> QED
  BY <1>2, <1>4, <1>5, <1>6 DEF CutWhole

KnownTilings ==
  [source : {"multifractal", "noise", "lattice", "fractal_aware"}, side : Nat \ {0}]

LEMMA TilingsAreKnown ==
  ASSUME call \in CallType
  PROVE  AllTilings \in Seq(KnownTilings)
<1>1. Width \in Nat /\ Height \in Nat /\ ShortSide \in Nat /\ call.detection_max \in Nat
  <2>1. call.detection_max \in Nat
    BY DEF CallType
  <2> QED
    BY <2>1, Sides DEF ShortSide, AtMost
<1>2. \A cap \in Int : /\ PowersUpTo(cap) \in Seq(Nat \ {0})
                       /\ AtMostOf(8, PowersUpTo(cap)) \in Seq(Nat \ {0})
  <2> TAKE cap \in Int
  <2>1. Dyadic(cap) \subseteq Nat \ {0}
    BY DEF Dyadic
  <2>2. \A s : s \in Seq(Dyadic(cap)) => s \in Seq(Nat \ {0})
    BY <2>1
  <2> QED
    BY <2>2, LaddersAreDyadic
<1>3. /\ AtLeast(Width \div 4, 4) \in Int /\ ShortSide \div 2 \in Int
      /\ AtMost(ShortSide \div 2, AtLeast(call.detection_max, 2)) \in Int
  BY <1>1 DEF AtLeast, AtMost
<1>4. /\ AtMostOf(8, PowersUpTo(AtLeast(Width \div 4, 4))) \in Seq(Nat \ {0})
      /\ DetectorSizes(ShortSide \div 2) \in Seq(Nat \ {0})
      /\ SpectrumSizes \in Seq(Nat \ {0})
  BY <1>2, <1>3, Zenon DEF DetectorSizes, SpectrumSizes
<1>5. <<8>> \in Seq(Nat \ {0}) /\ <<LatticeSide>> \in Seq(Nat \ {0})
  <2>1. LatticeSide \in Nat \ {0}
    BY <1>1 DEF LatticeSide, AtLeast, AtMost
  <2> QED
    BY <2>1
<1>6. ASSUME NEW source \in {"multifractal", "noise", "lattice", "fractal_aware"},
             NEW sizes \in Seq(Nat \ {0})
      PROVE  Tilings(source, sizes) \in Seq(KnownTilings)
  <2>1. [k \in DOMAIN sizes |-> [source |-> source, side |-> sizes[k]]] \in Seq(KnownTilings)
    <3>1. \A k \in DOMAIN sizes : [source |-> source, side |-> sizes[k]] \in KnownTilings
      BY DEF KnownTilings
    <3>2. DOMAIN sizes = 1 .. Len(sizes) /\ Len(sizes) \in Nat
      OBVIOUS
    <3> QED
      BY <3>1, <3>2
  <2> QED
    BY <2>1 DEF Tilings
<1>7. /\ Tilings("multifractal", AtMostOf(8, PowersUpTo(AtLeast(Width \div 4, 4))))
           \in Seq(KnownTilings)
      /\ Tilings("noise", <<8>>) \in Seq(KnownTilings)
      /\ Tilings("lattice", <<LatticeSide>>) \in Seq(KnownTilings)
      /\ Tilings("fractal_aware", DetectorSizes(ShortSide \div 2)) \in Seq(KnownTilings)
      /\ Tilings("fractal_aware", SpectrumSizes) \in Seq(KnownTilings)
  BY <1>4, <1>5, <1>6, Zenon
<1>8. \A s, t \in Seq(KnownTilings) : s \o t \in Seq(KnownTilings)
  OBVIOUS
<1> QED
  BY <1>7, <1>8, Zenon DEF AllTilings

LEMMA TilingsStay ==
  ASSUME call' = call
  PROVE  AllTilings' = AllTilings /\ (\A t : TilesOf(t)' = TilesOf(t))
<1>1. /\ (\A n, sizes : Tilings(n, sizes)' = Tilings(n, sizes))
      /\ SpectrumSizes' = SpectrumSizes /\ LatticeSide' = LatticeSide
      /\ DetectorSizes(ShortSide \div 2)' = DetectorSizes(ShortSide \div 2)
  BY SidesStay DEF Tilings, SpectrumSizes, LatticeSide, DetectorSizes
<1>2. /\ Tilings("multifractal", AtMostOf(8, PowersUpTo(AtLeast(Width \div 4, 4))))'
           = Tilings("multifractal", AtMostOf(8, PowersUpTo(AtLeast(Width \div 4, 4))))
      /\ Tilings("noise", <<8>>)' = Tilings("noise", <<8>>)
      /\ Tilings("lattice", <<LatticeSide>>)' = Tilings("lattice", <<LatticeSide>>)
      /\ Tilings("fractal_aware", DetectorSizes(ShortSide \div 2))'
           = Tilings("fractal_aware", DetectorSizes(ShortSide \div 2))
      /\ Tilings("fractal_aware", SpectrumSizes)' = Tilings("fractal_aware", SpectrumSizes)
  BY <1>1, SidesStay DEF Tilings
<1>3. AllTilings' = AllTilings
  BY <1>2, Zenon DEF AllTilings
<1>4. \A t : TilesOf(t)' = TilesOf(t)
  BY SidesStay DEF TilesOf, Tile, BoxesAlong
<1> QED
  BY <1>3, <1>4

(* The tiles of a tiling: what the columns of boxes and the rows of boxes  *)
(* cut, and as many as pairs of both.                                      *)
LEMMA TilesAreSpans ==
  ASSUME call \in CallType, NumPixels > 0, NEW t \in KnownTilings, tiles = TilesOf(t),
         NEW over, over = IF t.source = "multifractal" THEN t.side - 1 ELSE 0
  PROVE  /\ CutWhole(Spans("x0", "x1"), Width, over)
         /\ CutWhole(Spans("y0", "y1"), Height, over)
         /\ Cardinality(tiles) = Cardinality(Spans("x0", "x1")) * Cardinality(Spans("y0", "y1"))
<1>1. Width \in Nat \ {0} /\ Height \in Nat \ {0} /\ t.side \in Nat \ {0}
  BY Sides DEF NumPixels, KnownTilings
<1> DEFINE s == t.side
           Cols == 0 .. BoxesAlong(Width, t) - 1
           Rws == 0 .. BoxesAlong(Height, t) - 1
           H == [c \in Cols |-> <<c * s, AtMost((c + 1) * s, Width)>>]
           V == [l \in Rws |-> <<l * s, AtMost((l + 1) * s, Height)>>]
<1>2. /\ BoxesAlong(Width, t) \in Nat \ {0}
      /\ CutWhole({<<c * s, AtMost((c + 1) * s, Width)>> : c \in Cols}, Width, over)
  BY <1>1, CutsAreWhole DEF BoxesAlong
<1>3. /\ BoxesAlong(Height, t) \in Nat \ {0}
      /\ CutWhole({<<c * s, AtMost((c + 1) * s, Height)>> : c \in Rws}, Height, over)
  BY <1>1, CutsAreWhole DEF BoxesAlong
<1>4. \A c \in Cols, l \in Rws :
        /\ Tile(t, c, l).x0 = H[c][1] /\ Tile(t, c, l).x1 = H[c][2]
        /\ Tile(t, c, l).y0 = V[l][1] /\ Tile(t, c, l).y1 = V[l][2]
  BY DEF Tile
<1>5. 0 \in Cols /\ 0 \in Rws
  BY <1>2, <1>3
<1>6. tiles = {Tile(t, c, l) : c \in Cols, l \in Rws}
  BY DEF TilesOf
<1>7. \A c \in Cols : H[c] = <<H[c][1], H[c][2]>>
  OBVIOUS
<1>8. \A l \in Rws : V[l] = <<V[l][1], V[l][2]>>
  OBVIOUS
<1>9. {<<c * s, AtMost((c + 1) * s, Width)>> : c \in Cols} = {H[c] : c \in Cols}
  OBVIOUS
<1>10. {<<c * s, AtMost((c + 1) * s, Height)>> : c \in Rws} = {V[l] : l \in Rws}
  OBVIOUS
<1>11. IsFiniteSet(Cols) /\ IsFiniteSet(Rws)
  BY <1>2, <1>3, Intervals
<1>12. H = [c \in Cols |-> H[c]] /\ V = [l \in Rws |-> V[l]]
  OBVIOUS
<1> HIDE DEF s, Cols, Rws, H, V
<1>13. Spans("x0", "x1") = {H[c] : c \in Cols}
  <2>1. \A u \in tiles : \E c \in Cols : <<u["x0"], u["x1"]>> = H[c]
    BY <1>4, <1>6, <1>7
  <2>2. \A c \in Cols : \E u \in tiles : H[c] = <<u["x0"], u["x1"]>>
    BY <1>4, <1>5, <1>6, <1>7
  <2> QED
    <3>1. Spans("x0", "x1") \subseteq {H[c] : c \in Cols}
      BY <2>1 DEF Spans
    <3>2. {H[c] : c \in Cols} \subseteq Spans("x0", "x1")
      BY <2>2 DEF Spans
    <3> QED
      BY <3>1, <3>2
<1>14. Spans("y0", "y1") = {V[l] : l \in Rws}
  <2>1. \A u \in tiles : \E l \in Rws : <<u["y0"], u["y1"]>> = V[l]
    BY <1>4, <1>6, <1>8
  <2>2. \A l \in Rws : \E u \in tiles : V[l] = <<u["y0"], u["y1"]>>
    BY <1>4, <1>5, <1>6, <1>8
  <2> QED
    BY <2>1, <2>2 DEF Spans
<1>15. IsFiniteSet({H[c] : c \in Cols}) /\ IsFiniteSet({V[l] : l \in Rws})
  BY <1>11, <1>12, ImageFinite
<1> DEFINE pairing == [u \in tiles |-> <<<<u.x0, u.x1>>, <<u.y0, u.y1>>>>]
<1>16. pairing \in Bijection(tiles, {H[c] : c \in Cols} \X {V[l] : l \in Rws})
  <2>1. pairing \in [tiles -> {H[c] : c \in Cols} \X {V[l] : l \in Rws}]
    BY <1>4, <1>6, <1>7, <1>8
  <2>2. \A u, v \in tiles : pairing[u] = pairing[v] => u = v
    <3> SUFFICES ASSUME NEW u \in tiles, NEW v \in tiles, pairing[u] = pairing[v]
                 PROVE  u = v
      OBVIOUS
    <3>1. u.x0 = v.x0 /\ u.x1 = v.x1 /\ u.y0 = v.y0 /\ u.y1 = v.y1
      OBVIOUS
    <3>2. \A w \in tiles : w = [x0 |-> w.x0, x1 |-> w.x1, y0 |-> w.y0, y1 |-> w.y1]
      BY <1>6 DEF Tile
    <3> QED
      BY <3>1, <3>2, Zenon
  <2>3. \A z \in {H[c] : c \in Cols} \X {V[l] : l \in Rws} : \E u \in tiles : pairing[u] = z
    <3> TAKE z \in {H[c] : c \in Cols} \X {V[l] : l \in Rws}
    <3>1. PICK c \in Cols, l \in Rws : z = <<H[c], V[l]>>
      OBVIOUS
    <3>2. Tile(t, c, l) \in tiles
      BY <1>6
    <3>3. pairing[Tile(t, c, l)] = <<<<Tile(t, c, l).x0, Tile(t, c, l).x1>>,
                                     <<Tile(t, c, l).y0, Tile(t, c, l).y1>>>>
      BY <3>2, Zenon
    <3>4. pairing[Tile(t, c, l)] = <<<<H[c][1], H[c][2]>>, <<V[l][1], V[l][2]>>>>
      BY <1>4, <3>3, Zenon
    <3>5. pairing[Tile(t, c, l)] = z
      BY <1>7, <1>8, <3>1, <3>4, Zenon
    <3> QED
      BY <3>2, <3>5
  <2> QED
    BY <2>1, <2>2, <2>3 DEF Bijection, Injection, Surjection, IsInjective
<1>17. /\ IsFiniteSet({H[c] : c \in Cols} \X {V[l] : l \in Rws})
       /\ Cardinality({H[c] : c \in Cols} \X {V[l] : l \in Rws}) =
            Cardinality({H[c] : c \in Cols}) * Cardinality({V[l] : l \in Rws})
  BY <1>15, FS_Product
<1>18. Cardinality(tiles) = Cardinality({H[c] : c \in Cols} \X {V[l] : l \in Rws})
  <2>1. pairing \in Injection(tiles, {H[c] : c \in Cols} \X {V[l] : l \in Rws})
    BY <1>16 DEF Bijection
  <2>2. ExistsBijection(tiles, {H[c] : c \in Cols} \X {V[l] : l \in Rws})
    BY <1>16 DEF ExistsBijection
  <2> HIDE DEF pairing
  <2>3. IsFiniteSet(tiles)
    BY <1>17, <2>1, FS_Injection
  <2> QED
    BY <2>2, <2>3, FS_Bijection
<1> QED
  BY <1>2, <1>3, <1>9, <1>10, <1>13, <1>14, <1>17, <1>18

TileInv ==
  /\ turn \in 1 .. Len(AllTilings) + 1
  /\ turn > 1 => tiles = TilesOf(AllTilings[turn - 1])

LEMMA TileStep ==
  ASSUME call \in CallType, TileInv, CutTiles, UNCHANGED call
  PROVE  TileInv'
<1>1. AllTilings \in Seq(KnownTilings) /\ AllTilings' = AllTilings
  BY TilingsAreKnown, TilingsStay
<1>2. turn \in 1 .. Len(AllTilings) /\ turn' = turn + 1 /\ tiles' = TilesOf(AllTilings[turn])
  BY <1>1 DEF CutTiles, TilingsDone, TileInv
<1>3. PICK t : t = AllTilings[turn]
  OBVIOUS
<1>4. tiles' = TilesOf(t)'
  BY <1>2, <1>3, TilingsStay
<1>5. AllTilings'[turn' - 1] = t
  BY <1>1, <1>2, <1>3
<1>6. tiles' = TilesOf(AllTilings[turn - 1])'
  BY <1>4, <1>5, Zenon
<1> QED
  BY <1>1, <1>2, <1>6 DEF TileInv

LEMMA TileSafe ==
  ASSUME call \in CallType, TileInv
  PROVE  TilingsAreWhole
<1> SUFFICES ASSUME turn > 1, NumPixels > 0
             PROVE  LET cut  == AllTilings[turn - 1]
                        over == IF cut.source = "multifractal" THEN cut.side - 1 ELSE 0
                        columns == Spans("x0", "x1")
                        lines == Spans("y0", "y1")
                    IN  /\ CutWhole(columns, Width, over) /\ CutWhole(lines, Height, over)
                        /\ Cardinality(tiles) = Cardinality(columns) * Cardinality(lines)
  BY DEF TilingsAreWhole
<1>1. AllTilings[turn - 1] \in KnownTilings /\ tiles = TilesOf(AllTilings[turn - 1])
  BY TilingsAreKnown DEF TileInv
<1> QED
  BY <1>1, TilesAreSpans

(* No source runs after a refusal, except that the wavelet source begins.  *)
LEMMA RefusedStays ==
  ASSUME call' = call
  PROVE  Refused' <=> Refused
<1>1. Scales' = Scales
  BY DEF Scales, AdaptiveScales
<1>2. \A n : SmallerThan(n)' <=> SmallerThan(n)
  BY SidesStay DEF SmallerThan
<1>3. \A s : Enabled(s)' <=> Enabled(s)
  BY DEF Enabled
<1>4. (ChaosRefuses' <=> ChaosRefuses) /\ (QuantumRefuses' <=> QuantumRefuses)
  <2>1. NumPixels' = NumPixels /\ Dim' = Dim
    BY SidesStay, SMT DEF Dim
  <2> QED
    BY <2>1, SMT DEF ChaosRefuses, QuantumRefuses
<1>5. FractalRefuses' <=> FractalRefuses
  <2>1. (Len(call.q_values) \notin 3 .. 32)' <=> Len(call.q_values) \notin 3 .. 32
    BY SMT
  <2>2. IsInjective(call.q_values)' <=> IsInjective(call.q_values)
    BY SMT
  <2>3. /\ (call.detection_max \notin 2 .. 512)' <=> call.detection_max \notin 2 .. 512
        /\ (call.fractal_max \notin 1 .. 64)' <=> call.fractal_max \notin 1 .. 64
    BY SMT
  <2> QED
    BY <2>1, <2>2, <2>3, SMT DEF FractalRefuses, MomentsRefused
<1> QED
  BY <1>1, <1>2, <1>3, <1>4, <1>5 DEF Refused

LEMMA NothingRefused ==
  Spec => [](call \in CallType /\ (phase \notin {"wtmm", "refused"} => ~Refused))
<1> DEFINE Inv == call \in CallType /\ (phase \notin {"wtmm", "refused"} => ~Refused)
<1>1. Init => Inv
  BY CallAssumption DEF Init
<1>2. Inv /\ [Next]_vars => Inv'
  <2> SUFFICES ASSUME Inv, [Next]_vars PROVE Inv'
    OBVIOUS
  <2>1. /\ call' = call
        /\ phase' \in {phase, "refused"} \/ phase \notin {"wtmm", "refused"} \/ ~Refused
    BY Components
  <2> QED
    BY <2>1, RefusedStays
<1> QED
  BY <1>1, <1>2, PTL DEF Spec

-----------------------------------------------------------------------------
(***************************************************************************)
(* Strides.  Euclid's lemma: a prime that divides a product divides one    *)
(* of the factors.  The least multiplier that the prime divides together   *)
(* with n divides the prime, so it is one.                                 *)
(***************************************************************************)
IsPrime(p) == p \in Nat /\ p >= 2 /\ \A a, b \in 2 .. p - 1 : a * b # p

LEMMA Division ==
  ASSUME NEW a \in Nat, NEW n \in Nat \ {0}
  PROVE  \E q \in Nat, r \in 0 .. n - 1 : a = q * n + r /\ r = a % n
<1>1. /\ a \div n \in Nat /\ a % n \in 0 .. n - 1
      /\ a = (a \div n) * n + (a % n)
  OBVIOUS
<1> WITNESS a \div n \in Nat, a % n \in 0 .. n - 1
<1> QED
  BY <1>1

LEMMA Euclid ==
  ASSUME NEW p, IsPrime(p), NEW n \in Nat, NEW k \in 1 .. p - 1, NEW d \in Nat, k * n = p * d
  PROVE  n % p = 0
<1> DEFINE T == {a \in Nat \ {0} : \E e \in Nat : a * n = p * e}
<1>1. p \in Nat /\ p >= 2
  BY DEF IsPrime
<1>2. k \in T
  BY <1>1
<1>3. PICK m \in T : \A a \in T : m <= a
  <2>1. T \subseteq Nat /\ T # {}
    BY <1>2
  <2> HIDE DEF T
  <2> QED
    BY <2>1, LeastOf
<1>4. PICK e \in Nat : m * n = p * e
  BY <1>3
<1>5. m \in Nat \ {0} /\ m < p
  <2>1. m <= k
    BY <1>2, <1>3
  <2> QED
    BY <1>1, <1>3, <2>1
<1>6. PICK q \in Nat, r \in 0 .. m - 1 : p = q * m + r
  <2>1. p \in Nat /\ m \in Nat \ {0}
    BY <1>1, <1>5
  <2>2. PICK q \in Nat, r \in 0 .. m - 1 : p = q * m + r /\ r = p % m
    BY <2>1, Division
  <2> QED
    BY <2>2
<1>7. r * n = p * (n - q * e)
  <2>1. r * n = p * n - q * (m * n)
    <3>1. p * n = (q * m) * n + r * n
      BY <1>1, <1>5, <1>6
    <3>2. (q * m) * n = q * (m * n)
      BY <1>5, <1>6
    <3>3. q * (m * n) \in Int /\ r * n \in Int /\ p * n \in Int
      BY <1>1, <1>5, <1>6
    <3> QED
      BY <3>1, <3>2, <3>3
  <2>2. q * (p * e) = p * (q * e)
    BY <1>1, <1>4, <1>6
  <2>3. p * (n - q * e) = p * n - p * (q * e)
    BY <1>1, <1>4, <1>6
  <2> QED
    BY <1>4, <2>1, <2>2, <2>3
<1>8. n - q * e \in Nat
  <2>1. r * n \in Nat /\ n - q * e \in Int
    BY <1>1, <1>4, <1>6
  <2>2. PICK z \in Int : z = n - q * e
    BY <2>1
  <2>3. p * z >= 0
    BY <1>7, <2>1, <2>2
  <2>4. z >= 0
    BY <1>1, <2>2, <2>3
  <2> QED
    BY <2>2, <2>4
<1>9. r = 0
  <2>1. r # 0 => r \in T
    BY <1>6, <1>7, <1>8
  <2> QED
    <3>1. r # 0 => m <= r
      BY <1>3, <2>1
    <3> QED
      BY <1>5, <1>6, <3>1
<1>10. m = 1
  <2>1. p = q * m
    BY <1>1, <1>5, <1>6, <1>9
  <2>2. ASSUME m >= 2 PROVE FALSE
    <3>1. q # 0 /\ q # 1
      BY <1>1, <1>5, <2>1
    <3>2. 2 * q <= m * q /\ m * q = q * m
      BY <1>5, <1>6, <2>2, TimesGrows
    <3>3. q \in 2 .. p - 1 /\ m \in 2 .. p - 1
      BY <1>1, <1>5, <1>6, <2>1, <2>2, <3>1, <3>2
    <3> QED
      BY <2>1, <3>3 DEF IsPrime
  <2> QED
    BY <1>5, <2>2
<1>11. n = p * e
  BY <1>3, <1>4, <1>10
<1> QED
  BY <1>1, <1>4, <1>11

LEMMA Primes == IsPrime(31) /\ IsPrime(131) /\ IsPrime(197)
<1>1. ASSUME NEW p \in {31, 131, 197}, NEW a \in 2 .. p - 1, NEW b \in 2 .. p - 1,
             a <= b, a * b = p
      PROVE  FALSE
  <2>1. a <= 14
    <3>1. ASSUME a >= 15 PROVE FALSE
      <4>1. a * b >= 15 * b
        BY <3>1
      <4> QED
        BY <1>1, <3>1, <4>1
    <3> QED
      BY <3>1
  <2>2. a \in {2, 3, 4, 5, 6, 7, 8, 9, 10, 11, 12, 13, 14}
    BY <2>1
  <2> QED
    BY <1>1, <2>2
<1>2. ASSUME NEW p \in {31, 131, 197} PROVE IsPrime(p)
  <2>1. ASSUME NEW a \in 2 .. p - 1, NEW b \in 2 .. p - 1 PROVE a * b # p
    <3>1. a * b = b * a
      BY <1>2
    <3>2. a \in Int /\ b \in Int
      BY <1>2
    <3>3. a <= b \/ b <= a
      BY <3>2
    <3> QED
      BY <1>1, <3>1, <3>3
  <2> QED
    BY <2>1 DEF IsPrime
<1> QED
  BY <1>2

(* Pixels that a prime stride takes modulo their number: as long as they   *)
(* are fewer than there are, no two are the same.                          *)
LEMMA StrideTakesOnce ==
  ASSUME NEW p, IsPrime(p), NEW n \in Nat \ {0}, n % p # 0, NEW c \in Nat,
         NEW i \in Nat, NEW j \in Nat, i < j, j - i < n
  PROVE  (i * p + c) % n # (j * p + c) % n
<1>1. p \in Nat /\ p >= 2
  BY DEF IsPrime
<1> SUFFICES ASSUME (i * p + c) % n = (j * p + c) % n PROVE FALSE
  OBVIOUS
<1>2. i * p + c \in Nat /\ j * p + c \in Nat
  BY <1>1
<1>3. PICK u \in Nat, v \in Nat, r \in Nat :
        i * p + c = u * n + r /\ j * p + c = v * n + r
  <2>1. PICK u \in Nat, r \in 0 .. n - 1 : i * p + c = u * n + r /\ r = (i * p + c) % n
    BY <1>2, Division
  <2>2. PICK v \in Nat, s \in 0 .. n - 1 : j * p + c = v * n + s /\ s = (j * p + c) % n
    BY <1>2, Division
  <2>3. r = s /\ r \in Nat
    BY <2>1, <2>2
  <2> QED
    BY <2>1, <2>2, <2>3
<1>4. (j - i) * p = (v - u) * n
  <2>1. (j - i) * p = j * p - i * p /\ (v - u) * n = v * n - u * n
    BY <1>1, <1>3
  <2> QED
    BY <1>1, <1>2, <1>3, <2>1
<1>5. PICK k \in Int : k = v - u
  BY <1>3
<1>6. PICK d \in 1 .. n - 1 : d = j - i
  OBVIOUS
<1>7. k * n = p * d
  BY <1>1, <1>4, <1>5, <1>6
<1>8. k >= 1
  BY <1>1, <1>6, <1>7
<1>9. k < p
  <2>1. p * d < p * n
    BY <1>1, <1>6
  <2> QED
    BY <1>1, <1>5, <1>7, <2>1
<1>10. k \in 1 .. p - 1 /\ d \in Nat /\ n \in Nat
  BY <1>1, <1>5, <1>6, <1>8, <1>9
<1> QED
  BY <1>7, <1>10, Euclid

LEMMA Remainder ==
  ASSUME NEW n \in Nat \ {0}, NEW q \in Nat, NEW r \in 0 .. n - 1
  PROVE  (q * n + r) % n = r
<1>1. q * n + r \in Nat
  OBVIOUS
<1>2. PICK u \in Nat, s \in 0 .. n - 1 : q * n + r = u * n + s /\ s = (q * n + r) % n
  BY <1>1, Division
<1>3. ASSUME q < u PROVE FALSE
  <2>1. (q + 1) * n <= u * n /\ (q + 1) * n = q * n + n
    BY <1>3, TimesGrows
  <2>2. q * n \in Nat /\ u * n \in Nat
    OBVIOUS
  <2> QED
    BY <1>2, <2>1, <2>2
<1>4. ASSUME u < q PROVE FALSE
  <2>1. (u + 1) * n <= q * n /\ (u + 1) * n = u * n + n
    BY <1>4, TimesGrows
  <2>2. q * n \in Nat /\ u * n \in Nat
    OBVIOUS
  <2> QED
    BY <1>2, <2>1, <2>2
<1>5. u = q
  BY <1>3, <1>4
<1>6. q * n \in Nat
  OBVIOUS
<1> QED
  BY <1>2, <1>5, <1>6

(* The orbit of the chaos source: what it has taken since the first tap    *)
(* was last at the start of the row.                                       *)
Turned == ((iteration - 1) % NumPixels) + 1
OrbitInv ==
  /\ iteration \in Nat
  /\ iteration > 0 =>
       /\ NumPixels \in Nat \ {0}
       /\ taps.x = 0 .. Turned - 1
       /\ taps.y = {OrbitTap(i) : i \in iteration - Turned .. iteration - 1}

LEMMA OrbitStep ==
  ASSUME call \in CallType, OrbitInv, Iterate, UNCHANGED call, ~ChaosRefuses
  PROVE  OrbitInv'
<1>1. NumPixels \in Nat \ {0} /\ NumPixels' = NumPixels
  <2>1. Width \in Nat /\ Height \in Nat
    <3>1. Width \in 0 .. 160 /\ Height \in 0 .. 160
      BY Sides, Zenon
    <3> QED
      BY <3>1
  <2>2. NumPixels \in Nat /\ NumPixels # 0
    BY <2>1 DEF NumPixels, ChaosRefuses
  <2>3. NumPixels' = NumPixels
    BY SidesStay DEF NumPixels
  <2> QED
    BY <2>2, <2>3
<1>2. PICK i \in Nat : i = iteration
  BY DEF OrbitInv
<1>3. PICK n \in Nat \ {0} : n = NumPixels
  BY <1>1
<1>4. PICK q \in Nat, r \in 0 .. n - 1 : i = q * n + r /\ r = i % n
  BY Division
<1>5. iteration' = i + 1 /\ Turned' = r + 1 /\ iteration' - 1 = i
  BY <1>1, <1>2, <1>3, <1>4 DEF Iterate, Turned
<1>6. \A k : OrbitTap(k)' = OrbitTap(k)
  BY <1>1 DEF OrbitTap
<1>7. CASE r = 0
  <2>1. taps'.x = {} \cup {r} /\ taps'.y = {} \cup {OrbitTap(i)}
    BY <1>2, <1>3, <1>4, <1>7 DEF Iterate, NoTaps
  <2>2. taps'.x = 0 .. Turned' - 1
    BY <1>5, <1>7, <2>1
  <2>3. taps'.y = {OrbitTap(k) : k \in iteration' - Turned' .. iteration' - 1}
    <3>1. iteration' - Turned' .. iteration' - 1 = {i}
      BY <1>5, <1>7
    <3> QED
      BY <2>1, <3>1
  <2> QED
    BY <1>1, <1>3, <1>5, <1>6, <2>2, <2>3 DEF OrbitInv
<1>8. CASE r # 0
  <2>1. taps'.x = taps.x \cup {r} /\ taps'.y = taps.y \cup {OrbitTap(i)}
    BY <1>2, <1>3, <1>4, <1>8 DEF Iterate
  <2>2. i > 0 /\ Turned = r
    <3>1. i - 1 = q * n + (r - 1) /\ r - 1 \in 0 .. n - 1 /\ i > 0
      <4>1. q * n \in Nat
        OBVIOUS
      <4> QED
        BY <1>4, <1>8, <4>1
    <3>2. (i - 1) % n = r - 1
      BY <3>1, Remainder
    <3> QED
      BY <1>2, <1>3, <3>1, <3>2 DEF Turned
  <2>3. taps'.x = 0 .. Turned' - 1
    <3>1. taps.x = 0 .. r - 1
      BY <1>2, <2>2 DEF OrbitInv
    <3>2. (0 .. r - 1) \cup {r} = 0 .. r
      OBVIOUS
    <3> QED
      BY <1>5, <2>1, <3>1, <3>2
  <2>4. taps'.y = {OrbitTap(k) : k \in iteration' - Turned' .. iteration' - 1}
    <3>1. taps.y = {OrbitTap(k) : k \in i - r .. i - 1}
      BY <1>2, <2>2 DEF OrbitInv
    <3>2. iteration' - Turned' .. iteration' - 1 = (i - r .. i - 1) \cup {i}
      BY <1>5
    <3> QED
      BY <2>1, <3>1, <3>2
  <2> QED
    BY <1>1, <1>3, <1>5, <1>6, <2>3, <2>4 DEF OrbitInv
<1> QED
  BY <1>4, <1>7, <1>8

LEMMA OrbitSafe ==
  ASSUME OrbitInv
  PROVE  OrbitTakesAll
<1> SUFFICES ASSUME iteration > 0
             PROVE  /\ Cardinality(taps.x) = Turned
                    /\ NumPixels % 31 # 0 => Cardinality(taps.y) = Turned
  BY DEF OrbitTakesAll, Turned
<1>1. PICK n \in Nat \ {0} : n = NumPixels
  BY DEF OrbitInv
<1>2. PICK i \in Nat \ {0} : i = iteration
  BY DEF OrbitInv
<1>3. PICK q \in Nat, r \in 0 .. n - 1 : i - 1 = q * n + r /\ r = (i - 1) % n
  <2>1. i - 1 \in Nat
    OBVIOUS
  <2> QED
    BY <2>1, Division
<1>4. Turned = r + 1 /\ r + 1 <= i
  <2>1. q * n \in Nat
    OBVIOUS
  <2> QED
    BY <1>1, <1>2, <1>3, <2>1 DEF Turned
<1>5. taps.x = 0 .. r /\ taps.y = {OrbitTap(k) : k \in i - 1 - r .. i - 1}
  <2>1. taps.x = 0 .. Turned - 1 /\ Turned - 1 = r /\ iteration - Turned = i - 1 - r
    BY <1>2, <1>3, <1>4 DEF OrbitInv
  <2>2. taps.y = {OrbitTap(k) : k \in iteration - Turned .. iteration - 1}
    BY DEF OrbitInv
  <2> QED
    BY <1>2, <2>1, <2>2
<1>6. Cardinality(0 .. r) = r + 1
  <2>1. Cardinality(0 .. (r + 1) - 1) = r + 1
    BY Intervals
  <2> QED
    BY <2>1
<1>7. ASSUME n % 31 # 0 PROVE Cardinality(taps.y) = r + 1
  <2> DEFINE S == i - 1 - r .. i - 1
             f == [k \in S |-> OrbitTap(k)]
  <2>1. IsFiniteSet(S) /\ Cardinality(S) = r + 1
    <3>1. i - 1 - r \in Int /\ i - 1 \in Int
      OBVIOUS
    <3>2. IsFiniteSet(S) /\ Cardinality(S) = IF i - 1 - r > i - 1 THEN 0 ELSE i - 1 - (i - 1 - r) + 1
      BY <3>1, FS_Interval
    <3> QED
      BY <3>2
  <2>2. ASSUME NEW j \in S, NEW k \in S, j < k PROVE f[j] # f[k]
    <3>1. j \in Nat /\ k \in Nat /\ k - j < n
      BY <1>3, <1>4, <2>2
    <3>2. (j * 31 + 17) % n # (k * 31 + 17) % n
      BY <1>7, <2>2, <3>1, Primes, StrideTakesOnce
    <3> QED
      BY <1>1, <3>2 DEF OrbitTap
  <2>3. \A j, k \in S : f[j] = f[k] => j = k
    <3>1. \A j, k \in S : j = k \/ j < k \/ k < j
      OBVIOUS
    <3> QED
      BY <2>2, <3>1
  <2>4. f = [k \in S |-> f[k]] /\ taps.y = {f[k] : k \in S}
    BY <1>5
  <2> HIDE DEF S, f
  <2> QED
    BY <2>1, <2>3, <2>4, ImageSize
<1> QED
  BY <1>1, <1>4, <1>5, <1>6, <1>7

-----------------------------------------------------------------------------
(* The Hurst estimates: the next suffix is half of the last one, until     *)
(* that is too short, and the windows are those of one width.              *)
SuffixInv ==
  /\ suffixes \in Seq(Int) /\ rest \in Nat /\ rest <= NumPixels
  /\ suffixes = <<>> => rest = NumPixels
  /\ suffixes # <<>> => rest = 0 \/ rest = (NumPixels - suffixes[Len(suffixes)]) \div 2
  /\ \A k \in DOMAIN suffixes :
       /\ suffixes[k] >= 0 /\ NumPixels - suffixes[k] >= Shortest
       /\ k > 1 => NumPixels - suffixes[k] = (NumPixels - suffixes[k - 1]) \div 2
WindowInv ==
  /\ aggregate \in Nat /\ aggregate # 1
  /\ windows = {} \/ (\E m \in Nat : m >= 2 /\ m <= NumPixels \div 4 /\ windows = WindowsOf(m))

LEMMA Pixels == ASSUME call \in CallType PROVE NumPixels \in Nat
<1>1. Width \in 0 .. 160 /\ Height \in 0 .. 160
  BY Sides, Zenon
<1>2. \A a, b \in 0 .. 160 : a * b \in Nat
  OBVIOUS
<1> QED
  BY <1>1, <1>2 DEF NumPixels

LEMMA SuffixStep ==
  ASSUME call \in CallType, SuffixInv, Rescale, UNCHANGED call
  PROVE  SuffixInv'
<1>1. PICK n \in Nat : n = NumPixels /\ n = NumPixels'
  BY Pixels, SidesStay
<1>2. PICK r \in Nat : r = rest /\ r <= n /\ r >= 64
  BY <1>1 DEF SuffixInv, Rescale, RescaleDone, Shortest
<1>3. PICK m \in Nat : m = Len(suffixes)
  BY DEF SuffixInv
<1>4. /\ suffixes' = Append(suffixes, n - r)
      /\ rest' = IF r <= 128 THEN 0 ELSE r \div 2
  BY <1>1, <1>2 DEF Rescale, Suffix, Shortest
<1>5. /\ suffixes' \in Seq(Int) /\ Len(suffixes') = m + 1 /\ suffixes' # <<>>
      /\ \A k \in 1 .. m : suffixes'[k] = suffixes[k]
      /\ suffixes'[m + 1] = n - r
      /\ DOMAIN suffixes' = 1 .. m + 1 /\ DOMAIN suffixes = 1 .. m
  BY <1>3, <1>4 DEF SuffixInv
<1>6. \A k \in 1 .. m : suffixes[k] >= 0 /\ n - suffixes[k] >= 64
                          /\ (k > 1 => n - suffixes[k] = (n - suffixes[k - 1]) \div 2)
  BY <1>1, <1>5 DEF SuffixInv, Shortest
<1>7. m > 0 => n - (n - r) = (n - suffixes[m]) \div 2
  <2>1. m > 0 => suffixes # <<>>
    BY <1>3
  <2> QED
    BY <1>1, <1>2, <1>3, <2>1 DEF SuffixInv
<1>8. rest' \in Nat /\ rest' <= n /\ (rest' = 0 \/ rest' = (n - (n - r)) \div 2)
  BY <1>2, <1>4
<1>9. \A k \in DOMAIN suffixes' :
       /\ suffixes'[k] >= 0 /\ n - suffixes'[k] >= 64
       /\ k > 1 => n - suffixes'[k] = (n - suffixes'[k - 1]) \div 2
  <2> TAKE k \in DOMAIN suffixes'
  <2>1. CASE k = m + 1
    <3>1. k > 1 => suffixes'[k - 1] = suffixes[m]
      BY <1>5, <2>1
    <3> QED
      BY <1>2, <1>5, <1>7, <2>1, <3>1
  <2>2. CASE k # m + 1
    <3>1. k \in 1 .. m /\ suffixes'[k] = suffixes[k] /\ (k > 1 => suffixes'[k - 1] = suffixes[k - 1])
      BY <1>5, <2>2
    <3> QED
      BY <1>6, <3>1
  <2> QED
    BY <2>1, <2>2
<1> QED
  BY <1>1, <1>5, <1>8, <1>9 DEF SuffixInv, Shortest

LEMMA WindowsStay ==
  ASSUME call' = call
  PROVE  \A m : WindowsOf(m)' = WindowsOf(m)
BY SidesStay DEF WindowsOf

LEMMA WindowStep ==
  ASSUME call \in CallType, WindowInv, Aggregate, UNCHANGED call
  PROVE  WindowInv'
<1>1. NumPixels \in Nat /\ NumPixels' = NumPixels
  BY Pixels, SidesStay
<1>2. PICK m \in Nat : m = aggregate /\ m >= 2 /\ m <= NumPixels \div 4
  BY <1>1 DEF WindowInv, Aggregate, AggregateDone
<1>3. windows' = WindowsOf(m)'
  BY <1>2, WindowsStay DEF Aggregate
<1>4. aggregate' \in Nat /\ aggregate' # 1
  BY <1>1, <1>2 DEF Aggregate
<1> QED
  BY <1>1, <1>2, <1>3, <1>4 DEF WindowInv

(* Windows of a width, from the start of the row as many as there is room. *)
LEMMA WindowsAreWhole ==
  ASSUME call \in CallType, NEW m \in Nat, m >= 2, m <= NumPixels \div 4
  PROVE  LET read == UNION {w[1] .. w[2] - 1 : w \in WindowsOf(m)}
             many == Cardinality(WindowsOf(m))
         IN  /\ many >= 4
             /\ \A w \in WindowsOf(m) : w[2] - w[1] = m
             /\ Cardinality(read) = many * m
             /\ read = 0 .. Cardinality(read) - 1 /\ NumPixels - Cardinality(read) < m
<1>1. PICK n \in Nat : n = NumPixels
  BY Pixels
<1>2. PICK q \in Nat : q = n \div m /\ q * m <= n /\ n - q * m < m
  <2>1. PICK q \in Nat, r \in 0 .. m - 1 : n = q * m + r /\ q = n \div m
    <3>1. n \div m \in Nat /\ n % m \in 0 .. m - 1 /\ n = (n \div m) * m + (n % m)
      OBVIOUS
    <3> QED
      BY <3>1
  <2>2. q * m \in Nat
    OBVIOUS
  <2> QED
    BY <2>1, <2>2
<1>3. q >= 4
  <2>1. 4 * m <= n
    BY <1>1
  <2>2. ASSUME q <= 3 PROVE FALSE
    <3>1. q * m <= 3 * m
      BY <2>2
    <3>2. q * m \in Nat
      OBVIOUS
    <3> QED
      BY <1>2, <2>1, <3>1, <3>2
  <2> QED
    BY <2>2
<1> DEFINE S == 0 .. q - 1
           f == [k \in S |-> <<k * m, (k + 1) * m>>]
<1>4. WindowsOf(m) = {f[k] : k \in S}
  BY <1>1, <1>2 DEF WindowsOf
<1>5. Cardinality(WindowsOf(m)) = q
  <2>1. IsFiniteSet(S) /\ Cardinality(S) = q
    BY Intervals
  <2>2. \A j, k \in S : f[j] = f[k] => j = k
    <3>1. ASSUME NEW j \in 0 .. q - 1, NEW k \in 0 .. q - 1, j < k PROVE j * m # k * m
      <4>1. (j + 1) * m <= k * m /\ (j + 1) * m = j * m + m
        BY <3>1, TimesGrows
      <4>2. j * m \in Nat /\ k * m \in Nat
        OBVIOUS
      <4> QED
        BY <4>1, <4>2
    <3>2. \A j, k \in 0 .. q - 1 : f[j] = f[k] => j * m = k * m
      OBVIOUS
    <3>3. \A j, k \in 0 .. q - 1 : j < k \/ k < j \/ j = k
      OBVIOUS
    <3> HIDE DEF f
    <3> QED
      BY <3>1, <3>2, <3>3 DEF S
  <2>3. f = [k \in S |-> f[k]]
    OBVIOUS
  <2> HIDE DEF f, S
  <2> QED
    BY <1>4, <2>1, <2>2, <2>3, ImageSize
<1>6. \A w \in WindowsOf(m) : w[2] - w[1] = m
  <2>1. \A k \in 0 .. q - 1 : (k + 1) * m - k * m = m
    OBVIOUS
  <2> QED
    BY <1>4, <2>1
<1>7. UNION {w[1] .. w[2] - 1 : w \in WindowsOf(m)} = 0 .. q * m - 1
  <2>0. UNION {w[1] .. w[2] - 1 : w \in WindowsOf(m)} = UNION {k * m .. (k + 1) * m - 1 : k \in 0 .. q - 1}
    <3>1. \A k \in S : f[k][1] = k * m /\ f[k][2] = (k + 1) * m
      OBVIOUS
    <3>2. UNION {w[1] .. w[2] - 1 : w \in WindowsOf(m)} = UNION {f[k][1] .. f[k][2] - 1 : k \in S}
      <4> HIDE DEF f
      <4> QED
        BY <1>4
    <3>3. UNION {f[k][1] .. f[k][2] - 1 : k \in S} = UNION {k * m .. (k + 1) * m - 1 : k \in S}
      <4> HIDE DEF f, S
      <4> QED
        BY <3>1
    <3> QED
      BY <3>2, <3>3 DEF S
  <2>1. ASSUME NEW k \in 0 .. q - 1, NEW p \in k * m .. (k + 1) * m - 1
        PROVE  p \in 0 .. q * m - 1
    <3>1. k * m \in Nat /\ (k + 1) * m \in Nat /\ q * m \in Nat /\ (k + 1) * m <= q * m
      BY TimesGrows
    <3> QED
      BY <3>1
  <2>2. ASSUME NEW p \in 0 .. q * m - 1
        PROVE  \E k \in 0 .. q - 1 : p \in k * m .. (k + 1) * m - 1
    <3>1. PICK k \in Nat, r \in 0 .. m - 1 : p = k * m + r
      <4>1. p \in Nat /\ m \in Nat \ {0}
        <5>1. q * m \in Nat
          OBVIOUS
        <5> QED
          BY <5>1
      <4>2. PICK k \in Nat, r \in 0 .. m - 1 : p = k * m + r /\ r = p % m
        BY <4>1, Division
      <4> QED
        BY <4>2
    <3>2. ASSUME q <= k PROVE FALSE
      <4>1. q * m <= k * m /\ q * m \in Nat /\ k * m \in Nat
        BY <3>2, TimesGrows
      <4> QED
        BY <3>1, <4>1
    <3>3. k \in 0 .. q - 1
      BY <3>2
    <3>4. p \in k * m .. (k + 1) * m - 1
      <4>1. k * m \in Nat /\ (k + 1) * m = k * m + m
        OBVIOUS
      <4> QED
        BY <3>1, <4>1
    <3> QED
      BY <3>3, <3>4
  <2>3. UNION {k * m .. (k + 1) * m - 1 : k \in 0 .. q - 1} = 0 .. q * m - 1
    BY <2>1, <2>2
  <2> QED
    BY <2>0, <2>3
<1>8. q * m \in Nat /\ Cardinality(0 .. q * m - 1) = q * m
  <2>1. q * m \in Nat
    OBVIOUS
  <2> QED
    BY <2>1, Intervals
<1> HIDE DEF f, S
<1> QED
  BY <1>1, <1>2, <1>3, <1>5, <1>6, <1>7, <1>8

LEMMA SeriesSafe ==
  ASSUME call \in CallType, SuffixInv, WindowInv
  PROVE  SeriesAreWhole
<1>1. RescaleDone /\ NumPixels >= Shortest => suffixes # <<>>
  BY Pixels DEF SuffixInv, RescaleDone, Shortest
<1>2. ASSUME windows # {}
      PROVE  LET size == LET w == CHOOSE w \in windows : TRUE IN w[2] - w[1]
                 read == UNION {w[1] .. w[2] - 1 : w \in windows}
             IN  /\ Cardinality(windows) >= 4
                 /\ \A w \in windows : w[2] - w[1] = size
                 /\ Cardinality(read) = Cardinality(windows) * size
                 /\ read = 0 .. Cardinality(read) - 1 /\ NumPixels - Cardinality(read) < size
  <2>1. PICK m \in Nat : m >= 2 /\ m <= NumPixels \div 4 /\ windows = WindowsOf(m)
    BY <1>2 DEF WindowInv
  <2> DEFINE v == CHOOSE w \in windows : TRUE
  <2>2. v \in windows
    BY <1>2
  <2>3. \A w \in windows : w[2] - w[1] = m
    BY <2>1, WindowsAreWhole
  <2>4. v[2] - v[1] = m
    BY <2>2, <2>3
  <2> QED
    BY <2>1, <2>4, WindowsAreWhole
<1>3. \A k \in DOMAIN suffixes :
       /\ suffixes[k] >= 0 /\ NumPixels - suffixes[k] >= Shortest
       /\ k > 1 => NumPixels - suffixes[k] = (NumPixels - suffixes[k - 1]) \div 2
  BY DEF SuffixInv
<1> QED
  BY <1>1, <1>2, <1>3 DEF SeriesAreWhole

(* Both estimates, and the orbit, over all steps.                          *)
SeriesInv == SuffixInv /\ WindowInv /\ OrbitInv

LEMMA SeriesBegin ==
  ASSUME call \in CallType, SeriesInit
  PROVE  SeriesInv
BY Pixels DEF SeriesInit, SeriesInv, SuffixInv, WindowInv, OrbitInv

LEMMA SeriesStay ==
  ASSUME call \in CallType, SeriesInv, UNCHANGED call
  PROVE  /\ UNCHANGED <<suffixes, rest>> => SuffixInv'
         /\ UNCHANGED <<windows, aggregate>> => WindowInv'
         /\ UNCHANGED <<iteration, taps>> => OrbitInv'
         /\ SeriesReset => SeriesInv'
<1>1. NumPixels' = NumPixels /\ NumPixels \in Nat
  BY Pixels, SidesStay
<1>2. UNCHANGED <<suffixes, rest>> => SuffixInv'
  BY <1>1 DEF SeriesInv, SuffixInv, Shortest
<1>3. UNCHANGED <<windows, aggregate>> => WindowInv'
  BY <1>1, WindowsStay DEF SeriesInv, WindowInv
<1>4. UNCHANGED <<iteration, taps>> => OrbitInv'
  <2>1. \A k : OrbitTap(k)' = OrbitTap(k)
    BY <1>1 DEF OrbitTap
  <2>2. UNCHANGED <<iteration, taps>> => Turned' = Turned
    BY <1>1 DEF Turned
  <2> QED
    BY <1>1, <2>1, <2>2 DEF SeriesInv, OrbitInv
<1>5. SeriesReset => SeriesInv'
  BY <1>1 DEF SeriesReset, SeriesInv, SuffixInv, WindowInv, OrbitInv
<1> QED
  BY <1>2, <1>3, <1>4, <1>5

LEMMA SeriesAlways == Spec => [](call \in CallType /\ SeriesInv)
<1> DEFINE Allowed == call \in CallType /\ (phase \notin {"wtmm", "refused"} => ~Refused)
<1>1. Init => SeriesInv
  BY CallAssumption, SeriesBegin DEF Init
<1>2. SeriesInv /\ Allowed /\ [Next]_vars => SeriesInv'
  <2> SUFFICES ASSUME SeriesInv, Allowed, [Next]_vars PROVE SeriesInv'
    OBVIOUS
  <2>1. /\ UNCHANGED call
        /\ \/ UNCHANGED seriesVars \/ HurstStep \/ SeriesReset
           \/ phase = "chaos" /\ Enabled("chaos") /\ Iterate
    BY Components
  <2>2. CASE UNCHANGED seriesVars
    BY <2>1, <2>2, SeriesStay DEF seriesVars, SeriesInv
  <2>3. CASE Rescale
    BY <2>1, <2>3, SeriesStay, SuffixStep DEF Rescale, SeriesInv
  <2>4. CASE Aggregate
    BY <2>1, <2>4, SeriesStay, WindowStep DEF Aggregate, SeriesInv
  <2>5. CASE SeriesReset
    BY <2>1, <2>5, SeriesStay
  <2>6. CASE phase = "chaos" /\ Enabled("chaos") /\ Iterate
    <3>1. ~ChaosRefuses
      BY <2>6 DEF Refused
    <3> QED
      BY <2>1, <2>6, <3>1, SeriesStay, OrbitStep DEF Iterate, SeriesInv
  <2> QED
    BY <2>1, <2>2, <2>3, <2>4, <2>5, <2>6 DEF HurstStep
<1> HIDE DEF Allowed
<1>3. Spec => []Allowed
  BY NothingRefused DEF Allowed
<1>4. Allowed => call \in CallType
  BY DEF Allowed
<1> QED
  BY <1>1, <1>2, <1>3, <1>4, PTL DEF Spec

LEMMA TilesAlways == Spec => [](call \in CallType /\ TileInv)
<1>1. Init => call \in CallType /\ TileInv
  <2> SUFFICES ASSUME Init PROVE call \in CallType /\ TileInv
    OBVIOUS
  <2>1. call \in CallType /\ turn = 1
    BY CallAssumption DEF Init, BlockInit
  <2> QED
    BY <2>1, TilingsAreKnown DEF TileInv
<1>2. call \in CallType /\ TileInv /\ [Next]_vars => (call \in CallType /\ TileInv)'
  <2> SUFFICES ASSUME call \in CallType, TileInv, [Next]_vars
               PROVE  call' \in CallType /\ TileInv'
    OBVIOUS
  <2>1. /\ UNCHANGED call
        /\ UNCHANGED <<turn, tiles>> \/ CutTiles \/ turn' = 1
    BY Components DEF blockVars, BuildOperator
  <2>2. AllTilings \in Seq(KnownTilings) /\ AllTilings' = AllTilings
        /\ (\A t : TilesOf(t)' = TilesOf(t))
    BY <2>1, TilingsAreKnown, TilingsStay
  <2>3. CASE UNCHANGED <<turn, tiles>>
    <3>1. ASSUME turn > 1 PROVE tiles' = TilesOf(AllTilings[turn - 1])'
      <4>1. PICK t : t = AllTilings[turn - 1]
        OBVIOUS
      <4>2. tiles' = TilesOf(t)'
        BY <2>2, <2>3, <3>1, <4>1 DEF TileInv
      <4>3. t = (AllTilings[turn - 1])'
        BY <2>2, <2>3, <4>1
      <4> QED
        BY <4>2, <4>3, Zenon
    <3> QED
      BY <2>1, <2>2, <2>3, <3>1 DEF TileInv
  <2>4. CASE CutTiles
    BY <2>1, <2>4, TileStep
  <2>5. CASE turn' = 1
    BY <2>1, <2>2, <2>5 DEF TileInv
  <2> QED
    BY <2>1, <2>3, <2>4, <2>5
<1> QED
  BY <1>1, <1>2, PTL DEF Spec

(* Pieces of the picture and of the row of its pixels are whole: nothing   *)
(* is lost at an edge and nothing is counted twice (`partition`,           *)
(* `rescaled_range_hurst`, `variance_time_fit`).                           *)
THEOREM PiecesAreWhole == Spec => []TilesAreWhole
<1>1. call \in CallType /\ TileInv /\ SeriesInv => TilesAreWhole
  BY TileSafe, SeriesSafe DEF TilesAreWhole, SeriesInv
<1> QED
  BY <1>1, TilesAlways, SeriesAlways, PTL

-----------------------------------------------------------------------------
(* The lower triangle of a matrix in reading order: row i begins after     *)
(* T(i) slots.                                                             *)
T(i) == (i * (i + 1)) \div 2

LEMMA Triangle ==
  ASSUME NEW i \in Nat
  PROVE  T(i) \in Nat /\ 2 * T(i) = i * (i + 1)
<1>1. PICK k \in Nat : i = 2 * k \/ i = 2 * k + 1
  <2>1. i = 2 * (i \div 2) \/ i = 2 * (i \div 2) + 1
    OBVIOUS
  <2> QED
    BY <2>1
<1>2. PICK t \in Nat : i * (i + 1) = 2 * t
  <2>1. CASE i = 2 * k
    <3>1. i * (i + 1) = 2 * (k * (i + 1)) /\ k * (i + 1) \in Nat
      BY <2>1
    <3> QED
      BY <3>1
  <2>2. CASE i = 2 * k + 1
    <3>1. i * (i + 1) = 2 * (i * (k + 1)) /\ i * (k + 1) \in Nat
      BY <2>2
    <3> QED
      BY <3>1
  <2> QED
    BY <1>1, <2>1, <2>2
<1>3. T(i) = t
  BY <1>2 DEF T
<1> QED
  BY <1>2, <1>3

LEMMA TrianglesGrow ==
  /\ T(0) = 0
  /\ \A i \in Nat : T(i) \in Nat /\ T(i + 1) = T(i) + i + 1
  /\ \A i, j \in Nat : i <= j => T(i) <= T(j)
<1>1. T(0) = 0
  BY DEF T
<1>2. ASSUME NEW i \in Nat PROVE T(i) \in Nat /\ T(i + 1) = T(i) + i + 1
  <2>1. T(i) \in Nat /\ 2 * T(i) = i * (i + 1)
    BY Triangle
  <2>2. T(i + 1) \in Nat /\ 2 * T(i + 1) = (i + 1) * (i + 1 + 1)
    BY Triangle
  <2>3. (i + 1) * (i + 1 + 1) = i * (i + 1) + 2 * (i + 1)
    OBVIOUS
  <2> QED
    BY <2>1, <2>2, <2>3
<1>3. ASSUME NEW i \in Nat, NEW j \in Nat, i <= j PROVE T(i) <= T(j)
  <2>1. T(i) \in Nat /\ 2 * T(i) = i * (i + 1) /\ T(j) \in Nat /\ 2 * T(j) = j * (j + 1)
    BY Triangle
  <2>2. i * (i + 1) <= j * (i + 1) /\ (i + 1) * j <= (j + 1) * j
    BY <1>3, TimesGrows
  <2>3. j * (i + 1) = (i + 1) * j /\ (j + 1) * j = j * (j + 1)
    OBVIOUS
  <2>4. i * (i + 1) \in Nat /\ j * (i + 1) \in Nat /\ j * (j + 1) \in Nat
    OBVIOUS
  <2> QED
    BY <2>1, <2>2, <2>3, <2>4
<1> QED
  BY <1>1, <1>2, <1>3

(* Each slot is that of one cell on or below the diagonal.                 *)
LEMMA SlotsAreCells ==
  ASSUME NEW d \in Nat
  PROVE  /\ \A i \in 0 .. d - 1, j \in Nat : j <= i => T(i) + j \in 0 .. T(d) - 1
         /\ \A s \in 0 .. T(d) - 1 : \E i \in 0 .. d - 1, j \in Nat : j <= i /\ s = T(i) + j
         /\ \A i, j, k, l \in Nat : j <= i /\ l <= k /\ T(i) + j = T(k) + l => i = k /\ j = l
<1>1. ASSUME NEW i \in 0 .. d - 1, NEW j \in Nat, j <= i
      PROVE  T(i) + j \in 0 .. T(d) - 1
  <2>1. i \in Nat /\ i + 1 \in Nat /\ i + 1 <= d
    OBVIOUS
  <2>2. T(i) \in Nat /\ T(i + 1) = T(i) + i + 1 /\ T(i + 1) <= T(d) /\ T(d) \in Nat
    BY <2>1, TrianglesGrow
  <2> QED
    BY <1>1, <2>1, <2>2
<1>2. ASSUME NEW s \in 0 .. T(d) - 1
      PROVE  \E i \in 0 .. d - 1, j \in Nat : j <= i /\ s = T(i) + j
  <2>1. T(d) \in Nat /\ s \in Nat /\ s < T(d) /\ d # 0
    <3>1. T(d) \in Nat
      BY TrianglesGrow
    <3>2. s \in Nat /\ s < T(d) /\ T(d) # 0
      BY <3>1
    <3>3. T(0) = 0
      BY TrianglesGrow
    <3> QED
      BY <3>1, <3>2, <3>3
  <2> DEFINE Beyond == {i \in Nat : s < T(i + 1)}
  <2>2. PICK e \in Nat : e + 1 = d
    <3>1. d - 1 \in Nat /\ d - 1 + 1 = d
      BY <2>1
    <3> QED
      BY <3>1
  <2>3. e \in Beyond
    BY <2>1, <2>2
  <2>4. PICK i \in Beyond : \A k \in Beyond : i <= k
    <3>1. Beyond \subseteq Nat /\ Beyond # {}
      BY <2>3
    <3> HIDE DEF Beyond
    <3> QED
      BY <3>1, LeastOf
  <2>5. i \in Nat /\ i <= e /\ s < T(i + 1)
    BY <2>3, <2>4
  <2>6. T(i) <= s
    <3>1. CASE i = 0
      BY <2>1, <3>1, TrianglesGrow
    <3>2. CASE i # 0
      <4>1. PICK k \in Nat : k + 1 = i
        <5>1. i - 1 \in Nat /\ i - 1 + 1 = i
          BY <2>5, <3>2
        <5> QED
          BY <5>1
      <4>2. ~(s < T(k + 1))
        BY <2>4, <4>1
      <4>3. T(i) \in Nat
        BY <2>5, TrianglesGrow
      <4> QED
        BY <2>1, <4>1, <4>2, <4>3
    <3> QED
      BY <3>1, <3>2
  <2>7. PICK j \in Nat : s = T(i) + j
    <3>1. T(i) \in Nat
      BY <2>5, TrianglesGrow
    <3>2. s - T(i) \in Nat /\ s = T(i) + (s - T(i))
      BY <2>1, <2>6, <3>1
    <3> QED
      BY <3>2
  <2>8. j <= i
    <3>1. T(i) \in Nat /\ T(i + 1) = T(i) + i + 1
      BY <2>5, TrianglesGrow
    <3> QED
      BY <2>5, <2>7, <3>1
  <2>9. i \in 0 .. d - 1
    BY <2>2, <2>5
  <2> QED
    BY <2>7, <2>8, <2>9
<1>3. ASSUME NEW i \in Nat, NEW j \in Nat, NEW k \in Nat, NEW l \in Nat,
             j <= i, l <= k, i < k
      PROVE  T(i) + j # T(k) + l
  <2>1. T(i) \in Nat /\ T(i + 1) = T(i) + i + 1 /\ T(k) \in Nat
    BY TrianglesGrow
  <2>2. T(i + 1) <= T(k)
    <3>1. i + 1 \in Nat /\ i + 1 <= k
      BY <1>3
    <3> QED
      BY <3>1, TrianglesGrow
  <2> QED
    BY <1>3, <2>1, <2>2
<1>4. ASSUME NEW i \in Nat, NEW j \in Nat, NEW k \in Nat, NEW l \in Nat,
             j <= i, l <= k, T(i) + j = T(k) + l
      PROVE  i = k /\ j = l
  <2>1. i = k
    <3>1. i < k \/ k < i \/ i = k
      OBVIOUS
    <3> QED
      BY <1>3, <1>4, <3>1
  <2>2. T(i) \in Nat
    BY TrianglesGrow
  <2> QED
    BY <1>4, <2>1, <2>2
<1> QED
  BY <1>1, <1>2, <1>4

(* The slots of an operator.                                               *)
LEMMA Slots ==
  ASSUME call \in CallType
  PROVE  /\ Dim \in Nat /\ NumSlots = T(Dim) /\ NumSlots \in Nat
         /\ Diagonal = {T(i) + i : i \in 0 .. Dim - 1}
         /\ \A i, j : SlotOf(i, j) = T(i) + j
<1>1. Dim \in Nat
  BY DEF CallType, Dim
<1>2. NumSlots = T(Dim) /\ NumSlots \in Nat
  BY <1>1, TrianglesGrow DEF NumSlots, T
<1>3. ASSUME NEW i \in 0 .. Dim - 1
      PROVE  ((i + 1) * (i + 2)) \div 2 - 1 = T(i) + i
  <2>1. i \in Nat
    BY <1>1
  <2>2. T(i) \in Nat /\ T(i + 1) = T(i) + i + 1
    BY <2>1, TrianglesGrow
  <2>3. ((i + 1) * (i + 2)) \div 2 = T(i + 1)
    <3>1. i + 2 = i + 1 + 1
      BY <2>1
    <3> QED
      BY <3>1 DEF T
  <2> QED
    BY <2>1, <2>2, <2>3
<1>4. Diagonal = {T(i) + i : i \in 0 .. Dim - 1}
  BY <1>3 DEF Diagonal
<1> QED
  BY <1>1, <1>2, <1>4 DEF SlotOf, T

LEMMA DiagonalSlots ==
  ASSUME call \in CallType
  PROVE  /\ IsFiniteSet(0 .. NumSlots - 1) /\ Cardinality(0 .. NumSlots - 1) = NumSlots
         /\ IsFiniteSet((0 .. NumSlots - 1) \ Diagonal)
         /\ Cardinality((0 .. NumSlots - 1) \ Diagonal) = NumSlots - Dim
<1>1. /\ Dim \in Nat /\ NumSlots = T(Dim) /\ NumSlots \in Nat
      /\ Diagonal = {T(i) + i : i \in 0 .. Dim - 1}
  BY Slots
<1>2. IsFiniteSet(0 .. NumSlots - 1) /\ Cardinality(0 .. NumSlots - 1) = NumSlots
  BY <1>1, Intervals
<1> DEFINE S == 0 .. Dim - 1
           f == [i \in S |-> T(i) + i]
<1>3. Diagonal = {f[i] : i \in S} /\ f = [i \in S |-> f[i]]
  BY <1>1
<1>4. \A i, j \in S : f[i] = f[j] => i = j
  <2> SUFFICES ASSUME NEW i \in S, NEW j \in S, f[i] = f[j] PROVE i = j
    OBVIOUS
  <2>1. i \in Nat /\ j \in Nat /\ i <= i /\ j <= j /\ T(i) + i = T(j) + j
    OBVIOUS
  <2>2. \A a, b, k, l \in Nat : b <= a /\ l <= k /\ T(a) + b = T(k) + l => a = k /\ b = l
    BY <1>1, SlotsAreCells
  <2> QED
    BY <2>1, <2>2
<1>5. IsFiniteSet(S) /\ Cardinality(S) = Dim
  BY <1>1, Intervals
<1>6. Diagonal \subseteq 0 .. NumSlots - 1
  <2> SUFFICES ASSUME NEW i \in S PROVE T(i) + i \in 0 .. NumSlots - 1
    BY <1>1
  <2>1. i \in Nat /\ i <= i
    OBVIOUS
  <2> QED
    BY <1>1, <2>1, SlotsAreCells
<1> HIDE DEF f, S
<1>7. IsFiniteSet(Diagonal) /\ Cardinality(Diagonal) = Dim
  BY <1>3, <1>4, <1>5, ImageSize
<1>8. /\ IsFiniteSet((0 .. NumSlots - 1) \ Diagonal)
      /\ Cardinality((0 .. NumSlots - 1) \ Diagonal) =
           Cardinality(0 .. NumSlots - 1) - Cardinality((0 .. NumSlots - 1) \cap Diagonal)
  BY <1>2, FS_Difference
<1>9. (0 .. NumSlots - 1) \cap Diagonal = Diagonal
  BY <1>6
<1> QED
  BY <1>2, <1>7, <1>8, <1>9

(* The matrix of an operator: mirrored cells match, and each slot is used. *)
LEMMA MirrorsMatch ==
  ASSUME call \in CallType, NEW r \in Nat, NEW c \in Nat
  PROVE  Embedded(r, c) = Embedded(c, r)
<1>1. PICK i \in Nat, j \in Nat : i = r \div 2 /\ j = c \div 2
  OBVIOUS
<1>2. PICK a \in Nat, b \in Nat : a = r % 2 /\ b = c % 2
  OBVIOUS
<1>3. \A s, g : Value("im", s, g) # NoValue
  BY DEF Value, NoValue
<1>4. Real(i, j) = Real(j, i)
  <2>1. i < j \/ j < i \/ i = j
    OBVIOUS
  <2> QED
    BY <2>1 DEF Real
<1>5. \A s : Negated(Value("im", s, 1)) = Value("im", s, -1)
             /\ Negated(Value("im", s, -1)) = Value("im", s, 1)
  BY <1>3 DEF Negated, Value
<1>6. Negated(Imaginary(i, j)) = Imaginary(j, i) /\ Negated(Imaginary(j, i)) = Imaginary(i, j)
  <2>1. CASE i = j
    BY <2>1 DEF Imaginary, Negated
  <2>2. CASE j < i
    <3>1. Imaginary(i, j) = Value("im", SlotOf(i, j), 1) /\ Imaginary(j, i) = Value("im", SlotOf(i, j), -1)
      BY <2>2 DEF Imaginary
    <3> QED
      BY <1>5, <3>1
  <2>3. CASE i < j
    <3>1. Imaginary(j, i) = Value("im", SlotOf(j, i), 1) /\ Imaginary(i, j) = Value("im", SlotOf(j, i), -1)
      BY <2>3 DEF Imaginary
    <3> QED
      BY <1>5, <3>1
  <2>4. i < j \/ j < i \/ i = j
    OBVIOUS
  <2> QED
    BY <2>1, <2>2, <2>3, <2>4
<1>7. /\ a = b => Embedded(r, c) = Real(i, j) /\ Embedded(c, r) = Real(j, i)
      /\ a < b => Embedded(r, c) = Negated(Imaginary(i, j)) /\ Embedded(c, r) = Imaginary(j, i)
      /\ b < a => Embedded(r, c) = Imaginary(i, j) /\ Embedded(c, r) = Negated(Imaginary(j, i))
  BY <1>1, <1>2 DEF Embedded
<1>8. a < b \/ b < a \/ a = b
  BY <1>2
<1> QED
  BY <1>4, <1>6, <1>7, <1>8

LEMMA HermitianSafe ==
  ASSUME call \in CallType
  PROVE  OperatorsAreHermitian
<1> DEFINE lower(part) == {s \in 0 .. NumSlots - 1 : part = "re" \/ s \notin Diagonal}
           below(part) == {p \in (0 .. Dim - 1) \X (0 .. Dim - 1) :
                             p[2] < p[1] \/ (part = "re" /\ p[1] = p[2])}
<1>1. /\ Dim \in Nat /\ NumSlots = T(Dim)
      /\ Diagonal = {T(i) + i : i \in 0 .. Dim - 1} /\ (\A i, j : SlotOf(i, j) = T(i) + j)
  BY Slots
<1>2. /\ \A i \in 0 .. Dim - 1, j \in Nat : j <= i => T(i) + j \in 0 .. NumSlots - 1
      /\ \A s \in 0 .. NumSlots - 1 : \E i \in 0 .. Dim - 1, j \in Nat : j <= i /\ s = T(i) + j
      /\ \A i, j, k, l \in Nat : j <= i /\ l <= k /\ T(i) + j = T(k) + l => i = k /\ j = l
  BY <1>1, SlotsAreCells
<1>3. \A r, c \in 0 .. 2 * Dim - 1 : Embedded(r, c) = Embedded(c, r)
  <2>1. \A r \in 0 .. 2 * Dim - 1 : r \in Nat
    BY <1>1
  <2> QED
    BY <2>1, MirrorsMatch
<1>4. ASSUME NEW i \in Nat, NEW j \in Nat, j <= i
      PROVE  Embedded(2 * i + 1, 2 * j + 1).slot = T(i) + j
  <2>1. /\ (2 * i + 1) \div 2 = i /\ (2 * j + 1) \div 2 = j
        /\ (2 * i + 1) % 2 = 1 /\ (2 * j + 1) % 2 = 1
    OBVIOUS
  <2>2. Embedded(2 * i + 1, 2 * j + 1) = Real(i, j)
    BY <2>1 DEF Embedded
  <2> QED
    BY <1>1, <1>4, <2>2 DEF Real, Value
<1>5. ASSUME NEW i \in Nat, NEW j \in Nat, j < i
      PROVE  Embedded(2 * i + 1, 2 * j + 0).slot = T(i) + j
  <2>1. /\ (2 * i + 1) \div 2 = i /\ (2 * j + 0) \div 2 = j
        /\ (2 * i + 1) % 2 = 1 /\ (2 * j + 0) % 2 = 0
    OBVIOUS
  <2>2. Embedded(2 * i + 1, 2 * j + 0) = Imaginary(i, j)
    BY <2>1 DEF Embedded
  <2>3. Imaginary(i, j) = Value("im", SlotOf(i, j), 1)
    BY <1>5 DEF Imaginary
  <2> QED
    BY <1>1, <2>2, <2>3 DEF Value
<1>6. ASSUME NEW i \in 0 .. Dim - 1, NEW j \in Nat, j <= i
      PROVE  T(i) + j \in Diagonal <=> i = j
  <2>1. i \in Nat /\ (\A k \in 0 .. Dim - 1 : k \in Nat /\ k <= k)
    BY <1>1
  <2>2. T(i) + j \in Diagonal <=> \E k \in 0 .. Dim - 1 : T(i) + j = T(k) + k
    BY <1>1
  <2>3. \A k \in 0 .. Dim - 1 : T(i) + j = T(k) + k => i = k /\ j = k
    BY <1>2, <1>6, <2>1
  <2> QED
    BY <2>2, <2>3
<1>7. {Embedded(2 * p[1] + 1, 2 * p[2] + 1).slot : p \in below("re")} = lower("re")
  <2>1. below("re") = {p \in (0 .. Dim - 1) \X (0 .. Dim - 1) : p[2] <= p[1]}
    OBVIOUS
  <2>2. \A p \in below("re") : Embedded(2 * p[1] + 1, 2 * p[2] + 1).slot \in lower("re")
    <3> SUFFICES ASSUME NEW i \in 0 .. Dim - 1, NEW j \in 0 .. Dim - 1, j <= i
                 PROVE  Embedded(2 * i + 1, 2 * j + 1).slot \in 0 .. NumSlots - 1
      BY <2>1
    <3>1. i \in Nat /\ j \in Nat
      OBVIOUS
    <3>2. Embedded(2 * i + 1, 2 * j + 1).slot = T(i) + j
      BY <1>4, <3>1, Zenon
    <3>3. T(i) + j \in 0 .. NumSlots - 1
      BY <1>2, <3>1, Zenon
    <3> QED
      BY <3>2, <3>3
  <2>3. ASSUME NEW s \in 0 .. NumSlots - 1
        PROVE  \E p \in below("re") : s = Embedded(2 * p[1] + 1, 2 * p[2] + 1).slot
    <3>1. PICK i \in 0 .. Dim - 1, j \in Nat : j <= i /\ s = T(i) + j
      BY <1>2
    <3>2. i \in Nat /\ j \in 0 .. Dim - 1
      BY <1>1, <3>1
    <3>3. <<i, j>> \in below("re") /\ <<i, j>>[1] = i /\ <<i, j>>[2] = j
      BY <2>1, <3>1, <3>2
    <3>4. s = Embedded(2 * i + 1, 2 * j + 1).slot
      BY <1>4, <3>1, <3>2
    <3> HIDE DEF below
    <3> QED
      BY <3>3, <3>4
  <2>4. lower("re") = 0 .. NumSlots - 1
    OBVIOUS
  <2> HIDE DEF below, lower
  <2> QED
    BY <2>2, <2>3, <2>4
<1>8. {Embedded(2 * p[1] + 1, 2 * p[2] + 0).slot : p \in below("im")} = lower("im")
  <2>1. below("im") = {p \in (0 .. Dim - 1) \X (0 .. Dim - 1) : p[2] < p[1]}
    OBVIOUS
  <2>2. \A p \in below("im") : Embedded(2 * p[1] + 1, 2 * p[2] + 0).slot \in lower("im")
    <3> SUFFICES ASSUME NEW i \in 0 .. Dim - 1, NEW j \in 0 .. Dim - 1, j < i
                 PROVE  Embedded(2 * i + 1, 2 * j + 0).slot \in (0 .. NumSlots - 1) \ Diagonal
      BY <2>1
    <3>1. i \in Nat /\ j \in Nat /\ j <= i
      OBVIOUS
    <3>2. Embedded(2 * i + 1, 2 * j + 0).slot = T(i) + j
      BY <1>5, <3>1, Zenon
    <3>3. T(i) + j \in 0 .. NumSlots - 1
      BY <1>2, <3>1, Zenon
    <3>4. i # j
      BY <3>1
    <3>5. T(i) + j \notin Diagonal
      BY <1>6, <3>1, <3>4, Zenon
    <3> QED
      BY <3>2, <3>3, <3>5
  <2>3. ASSUME NEW s \in (0 .. NumSlots - 1) \ Diagonal
        PROVE  \E p \in below("im") : s = Embedded(2 * p[1] + 1, 2 * p[2] + 0).slot
    <3>1. PICK i \in 0 .. Dim - 1, j \in Nat : j <= i /\ s = T(i) + j
      BY <1>2
    <3>2. i \in Nat /\ j \in 0 .. Dim - 1 /\ j < i
      BY <1>1, <1>6, <3>1
    <3>3. <<i, j>> \in below("im") /\ <<i, j>>[1] = i /\ <<i, j>>[2] = j
      BY <2>1, <3>2
    <3>4. s = Embedded(2 * i + 1, 2 * j + 0).slot
      BY <1>5, <3>1, <3>2
    <3> HIDE DEF below
    <3> QED
      BY <3>3, <3>4
  <2>4. lower("im") = (0 .. NumSlots - 1) \ Diagonal
    OBVIOUS
  <2> HIDE DEF below, lower
  <2> QED
    BY <2>2, <2>3, <2>4
<1>9. \A part \in {"re", "im"} :
        {Embedded(2 * p[1] + 1, 2 * p[2] + (IF part = "re" THEN 1 ELSE 0)).slot :
           p \in below(part)} = lower(part)
  <2> HIDE DEF below, lower
  <2> QED
    BY <1>7, <1>8
<1> QED
  BY <1>3, <1>9 DEF OperatorsAreHermitian

-----------------------------------------------------------------------------
(***************************************************************************)
(* The taps of the operators.  A slot of a block has a place in the row of *)
(* pixels, and no two slots have the same; the taps stride over them.  The *)
(* last operator is that of the last block, those before it are of earlier *)
(* blocks, and there is room for all of them.                              *)
(***************************************************************************)
InnerSlots == (0 .. NumSlots - 1) \ Diagonal
TapsInv ==
  /\ block \in Nat
  /\ block = 0 => latest = NoPixels /\ seen = NoPixels
  /\ block > 0 =>
       /\ ~QuantumRefuses /\ block <= NumBlocks
       /\ latest.re = {RealTap(block - 1, s) : s \in 0 .. NumSlots - 1}
       /\ latest.im = {ImagTap(block - 1, s) : s \in InnerSlots}
       /\ \A p \in seen.re : \E b \in 0 .. block - 2, s \in 0 .. NumSlots - 1 : p = RealTap(b, s)
       /\ \A p \in seen.im : \E b \in 0 .. block - 2, s \in InnerSlots : p = ImagTap(b, s)

LEMMA TapsStay ==
  ASSUME call' = call
  PROVE  /\ NumSlots' = NumSlots /\ InnerSlots' = InnerSlots /\ NumBlocks' = NumBlocks
         /\ (QuantumRefuses' <=> QuantumRefuses)
         /\ \A b, s : RealTap(b, s)' = RealTap(b, s) /\ ImagTap(b, s)' = ImagTap(b, s)
<1>1. NumPixels' = NumPixels /\ Dim' = Dim
  BY SidesStay DEF Dim
<1>2. NumSlots' = NumSlots /\ Diagonal' = Diagonal
  BY <1>1 DEF NumSlots, Diagonal
<1>3. NumBlocks' = NumBlocks /\ (QuantumRefuses' <=> QuantumRefuses)
  BY <1>1 DEF NumBlocks, QuantumRefuses
<1>4. \A b : Base(b)' = Base(b)
  BY <1>1 DEF Base
<1>5. \A b, s : RealTap(b, s)' = RealTap(b, s) /\ ImagTap(b, s)' = ImagTap(b, s)
  BY <1>1, <1>4 DEF RealTap, ImagTap
<1> QED
  BY <1>2, <1>3, <1>5 DEF InnerSlots

(* All blocks fit in the picture, an operator's slots in its block.        *)
LEMMA RoomForBlocks ==
  ASSUME call \in CallType, ~QuantumRefuses
  PROVE  \E d \in 1 .. 64, area \in Nat \ {0} :
           /\ d = Dim /\ area = d * d /\ NumSlots <= area
           /\ NumPixels \in Nat \ {0} /\ NumBlocks \in Nat \ {0}
           /\ NumBlocks * area <= NumPixels
           /\ \A b \in Nat : Base(b) = b * area
<1>1. PICK d \in 1 .. 64 : d = Dim
  BY DEF QuantumRefuses
<1>2. PICK area \in Nat \ {0} : area = d * d
  OBVIOUS
<1>3. NumPixels \in Nat /\ area <= NumPixels
  BY <1>1, <1>2, Pixels DEF QuantumRefuses
<1>4. NumSlots <= area
  <2>1. T(d) \in Nat /\ 2 * T(d) = d * (d + 1)
    BY Triangle
  <2>2. d * (d + 1) = d * d + d /\ d <= d * d
    OBVIOUS
  <2>3. NumSlots = T(d)
    BY <1>1, Slots
  <2> QED
    BY <1>2, <2>1, <2>2, <2>3
<1>5. NumBlocks \in Nat \ {0} /\ NumBlocks * area <= NumPixels
  <2>1. CASE call.full_spectrum
    <3>1. PICK q \in Nat, r \in 0 .. area - 1 : NumPixels = q * area + r /\ q = NumPixels \div area
      <4>1. /\ NumPixels \div area \in Nat /\ NumPixels % area \in 0 .. area - 1
            /\ NumPixels = (NumPixels \div area) * area + (NumPixels % area)
        BY <1>3
      <4> QED
        BY <4>1
    <3>2. NumBlocks = q
      BY <1>1, <1>2, <2>1, <3>1 DEF NumBlocks
    <3>3. q # 0
      BY <1>3, <3>1
    <3>4. q * area \in Nat
      OBVIOUS
    <3> QED
      BY <3>1, <3>2, <3>3, <3>4
  <2>2. CASE ~call.full_spectrum
    <3>1. NumBlocks = 1
      BY <2>2 DEF NumBlocks
    <3> QED
      BY <1>2, <1>3, <3>1
  <2> QED
    BY <2>1, <2>2
<1>6. \A b \in Nat : Base(b) = b * area
  <2>1. \A b \in Nat : b * d * d = b * (d * d)
    OBVIOUS
  <2> QED
    BY <1>1, <1>2, <2>1 DEF Base
<1>7. NumPixels \in Nat \ {0}
  BY <1>3
<1> QED
  BY <1>1, <1>2, <1>4, <1>5, <1>6, <1>7

LEMMA TapsStep ==
  ASSUME call \in CallType, TapsInv, BuildOperator, UNCHANGED call, ~QuantumRefuses
  PROVE  TapsInv'
<1>1. /\ NumSlots' = NumSlots /\ InnerSlots' = InnerSlots /\ NumBlocks' = NumBlocks
      /\ ~QuantumRefuses'
      /\ \A b, s : RealTap(b, s)' = RealTap(b, s) /\ ImagTap(b, s)' = ImagTap(b, s)
  BY TapsStay
<1>2. PICK k \in Nat : k = block
  BY DEF TapsInv
<1>3. /\ block' = k + 1
      /\ latest' = [re |-> {RealTap(k, s) : s \in 0 .. NumSlots - 1},
                    im |-> {ImagTap(k, s) : s \in InnerSlots}]
      /\ seen' = [re |-> seen.re \cup latest.re, im |-> seen.im \cup latest.im]
  BY <1>2 DEF BuildOperator, InnerSlots
<1>4. k + 1 <= NumBlocks
  <2>1. NumBlocks \in Nat \ {0}
    BY RoomForBlocks
  <2>2. k # NumBlocks
    BY <1>2 DEF BuildOperator, QuantumDone
  <2>3. k > 0 => k <= NumBlocks
    BY <1>2 DEF TapsInv
  <2> QED
    BY <2>1, <2>2, <2>3
<1>5. /\ latest'.re = {RealTap(k, s) : s \in 0 .. NumSlots - 1}
      /\ latest'.im = {ImagTap(k, s) : s \in InnerSlots}
  BY <1>3
<1>6. /\ \A p \in seen'.re : \E b \in 0 .. k - 1, s \in 0 .. NumSlots - 1 : p = RealTap(b, s)
      /\ \A p \in seen'.im : \E b \in 0 .. k - 1, s \in InnerSlots : p = ImagTap(b, s)
  <2>1. CASE k = 0
    <3>1. seen'.re = {} /\ seen'.im = {}
      BY <1>2, <1>3, <2>1 DEF TapsInv, NoPixels
    <3> QED
      BY <3>1
  <2>2. CASE k > 0
    <3>1. /\ latest.re = {RealTap(k - 1, s) : s \in 0 .. NumSlots - 1}
          /\ latest.im = {ImagTap(k - 1, s) : s \in InnerSlots}
          /\ \A p \in seen.re : \E b \in 0 .. k - 2, s \in 0 .. NumSlots - 1 : p = RealTap(b, s)
          /\ \A p \in seen.im : \E b \in 0 .. k - 2, s \in InnerSlots : p = ImagTap(b, s)
      BY <1>2, <2>2 DEF TapsInv
    <3>2. k - 1 \in 0 .. k - 1 /\ 0 .. k - 2 \subseteq 0 .. k - 1
      BY <2>2
    <3>3. seen'.re = seen.re \cup latest.re /\ seen'.im = seen.im \cup latest.im
      BY <1>3
    <3> QED
      BY <3>1, <3>2, <3>3
  <2> QED
    BY <2>1, <2>2
<1>7. k + 1 \in Nat /\ k + 1 # 0 /\ k + 1 - 1 = k /\ k + 1 - 2 = k - 1
  OBVIOUS
<1> QED
  BY <1>1, <1>3, <1>4, <1>5, <1>6, <1>7 DEF TapsInv

(* Two slots, of one block or of two, have different taps.                 *)
LEMMA TapsDiffer ==
  ASSUME call \in CallType, ~QuantumRefuses,
         NEW b \in Nat, NEW s \in 0 .. NumSlots - 1, NEW e \in Nat, NEW u \in 0 .. NumSlots - 1,
         b < NumBlocks, e < NumBlocks, b < e \/ (b = e /\ s < u)
  PROVE  /\ NumPixels % 131 # 0 => RealTap(b, s) # RealTap(e, u)
         /\ NumPixels % 197 # 0 => ImagTap(b, s) # ImagTap(e, u)
<1>1. PICK d \in 1 .. 64, area \in Nat \ {0} :
        /\ d = Dim /\ NumSlots <= area
        /\ NumPixels \in Nat \ {0} /\ NumBlocks \in Nat \ {0} /\ NumBlocks * area <= NumPixels
        /\ \A k \in Nat : Base(k) = k * area
  BY RoomForBlocks
<1>2. NumSlots \in Nat /\ s \in Nat /\ u \in Nat /\ s < area /\ u < area
  BY <1>1, Slots
<1>3. PICK i \in Nat : i = Base(b) + s
  BY <1>1, <1>2
<1>4. PICK j \in Nat : j = Base(e) + u
  BY <1>1, <1>2
<1>5. i < j
  <2>1. i = b * area + s /\ j = e * area + u /\ b * area \in Nat /\ e * area \in Nat
    BY <1>1, <1>3, <1>4
  <2>2. CASE b < e
    <3>1. (b + 1) * area <= e * area /\ (b + 1) * area = b * area + area
      BY <2>2, TimesGrows
    <3> QED
      BY <1>2, <2>1, <3>1
  <2>3. CASE b = e /\ s < u
    BY <1>2, <2>1, <2>3
  <2> QED
    BY <2>2, <2>3
<1>6. j - i < NumPixels
  <2>1. j = e * area + u /\ e * area \in Nat
    BY <1>1, <1>4
  <2>2. (e + 1) * area <= NumBlocks * area /\ (e + 1) * area = e * area + area
        /\ NumBlocks * area \in Nat
    <3>1. e + 1 <= NumBlocks
      BY <1>1
    <3> QED
      BY <1>1, <3>1, TimesGrows
  <2> QED
    BY <1>1, <1>2, <2>1, <2>2
<1>7. ASSUME NumPixels % 131 # 0 PROVE RealTap(b, s) # RealTap(e, u)
  <2>1. (i * 131 + 0) % NumPixels # (j * 131 + 0) % NumPixels
    <3>1. PICK n \in Nat \ {0} : n = NumPixels
      BY <1>1
    <3>2. PICK p \in Nat : p = 131
      OBVIOUS
    <3>3. IsPrime(p) /\ i \in Nat /\ j \in Nat /\ 0 \in Nat /\ n \in Nat \ {0}
      BY <3>1, <3>2, Primes
    <3>4. n % p # 0 /\ i < j /\ j - i < n
      BY <1>5, <1>6, <1>7, <3>1, <3>2
    <3>5. (i * p + 0) % n # (j * p + 0) % n
      BY <3>3, <3>4, StrideTakesOnce, Zenon
    <3> QED
      BY <3>1, <3>2, <3>5
  <2>2. i * 131 + 0 = (Base(b) + s) * 131 /\ j * 131 + 0 = (Base(e) + u) * 131
    BY <1>3, <1>4
  <2> QED
    BY <2>1, <2>2 DEF RealTap
<1>8. ASSUME NumPixels % 197 # 0 PROVE ImagTap(b, s) # ImagTap(e, u)
  <2>1. PICK c \in Nat : c = d * 197
    OBVIOUS
  <2>2. (i * 197 + c) % NumPixels # (j * 197 + c) % NumPixels
    <3>1. PICK n \in Nat \ {0} : n = NumPixels
      BY <1>1
    <3>2. PICK p \in Nat : p = 197
      OBVIOUS
    <3>3. IsPrime(p) /\ i \in Nat /\ j \in Nat /\ c \in Nat /\ n \in Nat \ {0}
      BY <3>1, <3>2, Primes
    <3>4. n % p # 0 /\ i < j /\ j - i < n
      BY <1>5, <1>6, <1>8, <3>1, <3>2
    <3>5. (i * p + c) % n # (j * p + c) % n
      BY <3>3, <3>4, StrideTakesOnce, Zenon
    <3> QED
      BY <3>1, <3>2, <3>5
  <2>3. /\ i * 197 + c = (Base(b) + s + Dim) * 197
        /\ j * 197 + c = (Base(e) + u + Dim) * 197
    <3>1. (i + d) * 197 = i * 197 + d * 197 /\ (j + d) * 197 = j * 197 + d * 197
      OBVIOUS
    <3> QED
      BY <1>1, <1>3, <1>4, <2>1, <3>1
  <2> QED
    BY <2>2, <2>3 DEF ImagTap
<1> QED
  BY <1>7, <1>8

LEMMA TapsSafe ==
  ASSUME call \in CallType, TapsInv
  PROVE  OperatorsShareNoPixel
<1> SUFFICES ASSUME block > 0
             PROVE  /\ NumPixels % 131 # 0 =>
                         latest.re \cap seen.re = {} /\ Cardinality(latest.re) = NumSlots
                    /\ NumPixels % 197 # 0 =>
                         latest.im \cap seen.im = {} /\ Cardinality(latest.im) = NumSlots - Dim
  BY DEF OperatorsShareNoPixel
<1>1. PICK e \in Nat : e + 1 = block /\ block - 1 = e /\ block - 2 = e - 1
  <2>1. block - 1 \in Nat /\ block - 1 + 1 = block /\ block - 2 = block - 1 - 1
    BY DEF TapsInv
  <2> QED
    BY <2>1
<1>2. /\ ~QuantumRefuses
      /\ latest.re = {RealTap(e, s) : s \in 0 .. NumSlots - 1}
      /\ latest.im = {ImagTap(e, s) : s \in InnerSlots}
      /\ \A p \in seen.re : \E b \in 0 .. e - 1, s \in 0 .. NumSlots - 1 : p = RealTap(b, s)
      /\ \A p \in seen.im : \E b \in 0 .. e - 1, s \in InnerSlots : p = ImagTap(b, s)
  BY <1>1 DEF TapsInv
<1>3. NumBlocks \in Nat /\ e < NumBlocks
  <2>1. NumBlocks \in Nat
    BY <1>2, RoomForBlocks
  <2>2. block <= NumBlocks
    BY DEF TapsInv
  <2> QED
    BY <1>1, <2>1, <2>2
<1>4. \A b \in 0 .. e - 1 : b \in Nat /\ b < e /\ b < NumBlocks
  BY <1>3
<1>5. InnerSlots \subseteq 0 .. NumSlots - 1
  BY DEF InnerSlots
<1>6. ASSUME NumPixels % 131 # 0
      PROVE  latest.re \cap seen.re = {} /\ Cardinality(latest.re) = NumSlots
  <2>1. \A b \in 0 .. e - 1, s, u \in 0 .. NumSlots - 1 : RealTap(b, s) # RealTap(e, u)
    BY <1>2, <1>3, <1>4, <1>6, TapsDiffer
  <2>2. latest.re \cap seen.re = {}
    BY <1>2, <2>1
  <2> DEFINE S == 0 .. NumSlots - 1
             f == [s \in S |-> RealTap(e, s)]
  <2>3. \A s, u \in S : f[s] = f[u] => s = u
    <3>1. \A s, u \in S : s < u => RealTap(e, s) # RealTap(e, u)
      BY <1>2, <1>3, <1>6, TapsDiffer
    <3>2. \A s, u \in S : s < u \/ u < s \/ s = u
      BY Slots
    <3> QED
      BY <3>1, <3>2
  <2>4. IsFiniteSet(S) /\ Cardinality(S) = NumSlots
    BY DiagonalSlots
  <2>5. latest.re = {f[s] : s \in S} /\ f = [s \in S |-> f[s]]
    BY <1>2
  <2> HIDE DEF S, f
  <2> QED
    BY <2>2, <2>3, <2>4, <2>5, ImageSize
<1>7. ASSUME NumPixels % 197 # 0
      PROVE  latest.im \cap seen.im = {} /\ Cardinality(latest.im) = NumSlots - Dim
  <2>1. \A b \in 0 .. e - 1, s, u \in 0 .. NumSlots - 1 : ImagTap(b, s) # ImagTap(e, u)
    BY <1>2, <1>3, <1>4, <1>7, TapsDiffer
  <2>2. latest.im \cap seen.im = {}
    BY <1>2, <1>5, <2>1
  <2> DEFINE S == InnerSlots
             f == [s \in S |-> ImagTap(e, s)]
  <2>3. \A s, u \in S : f[s] = f[u] => s = u
    <3>1. \A s, u \in 0 .. NumSlots - 1 : s < u => ImagTap(e, s) # ImagTap(e, u)
      BY <1>2, <1>3, <1>7, TapsDiffer
    <3>2. \A s, u \in 0 .. NumSlots - 1 : s < u \/ u < s \/ s = u
      BY Slots
    <3> QED
      BY <1>5, <3>1, <3>2
  <2>4. IsFiniteSet(S) /\ Cardinality(S) = NumSlots - Dim
    BY DiagonalSlots DEF InnerSlots
  <2>5. latest.im = {f[s] : s \in S} /\ f = [s \in S |-> f[s]]
    BY <1>2
  <2> HIDE DEF S, f
  <2> QED
    BY <2>2, <2>3, <2>4, <2>5, ImageSize
<1> QED
  BY <1>6, <1>7

LEMMA TapsAlways == Spec => [](call \in CallType /\ TapsInv)
<1> DEFINE Allowed == call \in CallType /\ (phase \notin {"wtmm", "refused"} => ~Refused)
<1>1. Init => TapsInv
  BY DEF Init, BlockInit, TapsInv
<1>2. TapsInv /\ Allowed /\ [Next]_vars => TapsInv'
  <2> SUFFICES ASSUME TapsInv, Allowed, [Next]_vars PROVE TapsInv'
    OBVIOUS
  <2>1. /\ UNCHANGED call
        /\ \/ UNCHANGED <<block, latest, seen>>
           \/ phase = "quantum" /\ Enabled("quantum_density") /\ BuildOperator
           \/ block' = 0 /\ latest' = NoPixels /\ seen' = NoPixels
    BY Components DEF blockVars, CutTiles
  <2>2. CASE UNCHANGED <<block, latest, seen>>
    BY <2>1, <2>2, TapsStay DEF TapsInv
  <2>3. CASE phase = "quantum" /\ Enabled("quantum_density") /\ BuildOperator
    <3>1. ~QuantumRefuses
      BY <2>3 DEF Refused
    <3> QED
      BY <2>1, <2>3, <3>1, TapsStep
  <2>4. CASE block' = 0 /\ latest' = NoPixels /\ seen' = NoPixels
    BY <2>4 DEF TapsInv, NoPixels
  <2> QED
    BY <2>1, <2>2, <2>3, <2>4
<1> HIDE DEF Allowed
<1>3. Spec => []Allowed
  BY NothingRefused DEF Allowed
<1>4. Allowed => call \in CallType
  BY DEF Allowed
<1> QED
  BY <1>1, <1>2, <1>3, <1>4, PTL DEF Spec

(* No pixel is taken again before its turn, unless a stride divides their  *)
(* number, and an operator is a symmetric matrix with every slot in it     *)
(* (`build_hermitian`, `hermitian_eigenvalues`, the orbit of the chaos     *)
(* source).                                                                *)
THEOREM PixelsTakeTurns == Spec => []BlocksShareNoPixel
<1>1. call \in CallType /\ TapsInv /\ SeriesInv => BlocksShareNoPixel
  BY TapsSafe, HermitianSafe, OrbitSafe DEF BlocksShareNoPixel, SeriesInv
<1> QED
  BY <1>1, TapsAlways, SeriesAlways, PTL

-----------------------------------------------------------------------------
(***************************************************************************)
(* The ladder of the wavelet source.  Its levels never go down, whichever  *)
(* way the rounding goes at a whole power of two: so a level is the last   *)
(* entry of both lists, or one beyond.                                     *)
(***************************************************************************)
LEMMA LadderRises ==
  ASSUME call \in CallType
  PROVE  /\ Ladder.min \in Nat /\ Largest \in Nat /\ Ladder.min <= Largest
         /\ Ladder.steps \in Nat /\ Ladder.steps >= 2
         /\ Levels \in 1 .. 6
<1>1. call.min_scale \in Nat /\ call.max_scale \in Nat /\ call.num_scales \in Nat /\ call.bucket \in Bucket
  BY DEF CallType
<1>2. /\ AdaptiveLadder.min \in Nat /\ AdaptiveLadder.max \in Nat
      /\ AdaptiveLadder.steps \in Nat /\ AdaptiveLadder.steps >= 2
  BY <1>1 DEF AdaptiveLadder, Adaptive, Bucket
<1>3. /\ Ladder.min = AtLeast(AdaptiveLadder.min, call.min_scale)
      /\ Ladder.max = AtMost(AdaptiveLadder.max,
                             AtLeast(call.max_scale, AtLeast(AdaptiveLadder.min, call.min_scale)))
      /\ Ladder.steps = AtMost(AdaptiveLadder.steps, AtLeast(call.num_scales, 2))
  BY DEF Ladder, Adaptive
<1>4. /\ Ladder.min \in Nat /\ Ladder.max \in Nat
      /\ Ladder.steps \in Nat /\ Ladder.steps >= 2
  BY <1>1, <1>2, <1>3 DEF AtLeast, AtMost
<1> QED
  BY <1>4 DEF Largest, Levels, AtLeast, AtMost

LEMMA LevelsClimb ==
  ASSUME call \in CallType, NEW s \in Nat
  PROVE  /\ \A l \in LevelsOf(s) : l \in 1 .. 6
         /\ \A l \in LevelsOf(s), m \in LevelsOf(s + 1) : l <= m
<1>1. PICK least \in Nat, up \in Nat, last \in Nat \ {0}, top \in 1 .. 6 :
        least = Ladder.min /\ up = Largest - Ladder.min /\ last = Ladder.steps - 1 /\ top = Levels
  <2>1. Largest - Ladder.min \in Nat /\ Ladder.steps - 1 \in Nat \ {0}
    BY LadderRises
  <2> QED
    BY <2>1, LadderRises
<1> DEFINE Floor(t) == (up * t) \div last
<1>2. ASSUME NEW t \in Nat
      PROVE  \A l \in LevelsOf(t) :
               \E f \in {least + Floor(t) - 1, least + Floor(t)} :
                 /\ l = AtMost(f + 1, top)
                 /\ f = least + Floor(t) - 1 => up * t > 0 /\ (up * t) % last = 0
  <2>1. LevelsOf(t) =
          {AtMost(f + 1, top) : f \in IF t \in 1 .. last - 1 /\ up * t > 0 /\ (up * t) % last = 0
                                       THEN {least + Floor(t) - 1, least + Floor(t)}
                                       ELSE {least + Floor(t)}}
    BY <1>1 DEF LevelsOf
  <2>2. Floor(t) \in Int
    BY <1>2
  <2> HIDE DEF Floor
  <2>3. PICK e \in Int : e = Floor(t)
    BY <2>2
  <2>4. least + e - 1 # least + e
    OBVIOUS
  <2>5. CASE t \in 1 .. last - 1 /\ up * t > 0 /\ (up * t) % last = 0
    BY <2>1, <2>3, <2>5
  <2>6. CASE ~(t \in 1 .. last - 1 /\ up * t > 0 /\ (up * t) % last = 0)
    BY <2>1, <2>3, <2>4, <2>6
  <2> QED
    BY <2>5, <2>6
<1>3. ASSUME NEW t \in Nat
      PROVE  \E q \in Nat, r \in 0 .. last - 1 :
               up * t = q * last + r /\ q = Floor(t) /\ r = (up * t) % last
  <2>1. up * t \in Nat
    OBVIOUS
  <2>2. /\ (up * t) \div last \in Nat /\ (up * t) % last \in 0 .. last - 1
        /\ up * t = ((up * t) \div last) * last + ((up * t) % last)
    BY <2>1
  <2> QED
    BY <2>2
<1> HIDE DEF Floor
<1>4. ASSUME NEW t \in Nat, NEW l \in LevelsOf(t) PROVE l \in 1 .. 6
  <2>1. PICK q \in Nat, r \in 0 .. last - 1 :
          up * t = q * last + r /\ q = Floor(t) /\ r = (up * t) % last
    BY <1>3, Zenon
  <2>2. PICK f \in {least + q - 1, least + q} :
          /\ l = AtMost(f + 1, top)
          /\ f = least + q - 1 => up * t > 0 /\ r = 0
    BY <1>2, <1>4, <2>1
  <2>3. f = least + q - 1 => q >= 1
    <3> SUFFICES ASSUME f = least + q - 1, q = 0 PROVE FALSE
      BY <2>1
    <3>1. up * t > 0 /\ r = 0
      BY <2>2
    <3>2. up * t = 0 * last + 0
      BY <2>1, <3>1
    <3> QED
      BY <3>1, <3>2
  <2> QED
    BY <2>1, <2>2, <2>3 DEF AtMost
<1>5. ASSUME NEW l \in LevelsOf(s), NEW m \in LevelsOf(s + 1) PROVE l <= m
  <2>1. PICK q \in Nat, r \in 0 .. last - 1 :
          up * s = q * last + r /\ q = Floor(s) /\ r = (up * s) % last
    BY <1>3, Zenon
  <2>2. PICK f \in {least + q - 1, least + q} : l = AtMost(f + 1, top)
    BY <1>2, <1>5, <2>1
  <2>3. PICK v \in Nat, w \in 0 .. last - 1 :
          up * (s + 1) = v * last + w /\ v = Floor(s + 1) /\ w = (up * (s + 1)) % last
    <3>1. s + 1 \in Nat
      OBVIOUS
    <3> QED
      BY <1>3, <3>1, Zenon
  <2>4. PICK g \in {least + v - 1, least + v} :
          /\ m = AtMost(g + 1, top)
          /\ g = least + v - 1 => up * (s + 1) > 0 /\ w = 0
    <3>1. s + 1 \in Nat
      OBVIOUS
    <3> QED
      BY <1>2, <1>5, <2>3, <3>1
  <2>5. up * (s + 1) = up * s + up /\ up * s \in Nat
    OBVIOUS
  <2>6. ASSUME v < q PROVE FALSE
    <3>1. (v + 1) * last <= q * last /\ (v + 1) * last = v * last + last
      BY <2>6, TimesGrows
    <3>2. v * last \in Nat /\ q * last \in Nat
      OBVIOUS
    <3> QED
      BY <2>1, <2>3, <2>5, <3>1, <3>2
  <2>7. ASSUME v <= q, w = 0, up * (s + 1) > 0 PROVE FALSE
    <3>1. v * last <= q * last /\ v * last \in Nat /\ q * last \in Nat
      BY <2>7, TimesGrows
    <3>2. up = 0
      BY <2>1, <2>3, <2>5, <2>7, <3>1
    <3>3. up * (s + 1) = 0
      BY <3>2
    <3> QED
      BY <2>7, <3>3
  <2>8. f <= g
    BY <2>2, <2>4, <2>6, <2>7
  <2> QED
    BY <2>2, <2>4, <2>8 DEF AtMost
<1> QED
  BY <1>4, <1>5

LadderInv ==
  /\ step \in Nat /\ selected_moduli \in Seq(Nat) /\ selected_scales \in Seq(Nat)
  /\ Len(selected_moduli) <= 6
  /\ step = 0 => level = 0 /\ selected_moduli = <<>> /\ selected_scales = <<>>
  /\ step > 0 => level \in LevelsOf(step - 1)
  /\ LevelsPairUp

LEMMA LevelsStay ==
  ASSUME call' = call
  PROVE  \A s : LevelsOf(s)' = LevelsOf(s) /\ Maxima(s)' = Maxima(s)
<1>1. Ladder' = Ladder
  BY DEF Ladder, AdaptiveLadder
<1>2. Levels' = Levels /\ Largest' = Largest
  BY <1>1 DEF Levels, Largest
<1> QED
  BY <1>1, <1>2 DEF LevelsOf, Maxima

LEMMA LadderStep ==
  ASSUME call \in CallType, LadderInv, AnalyzeStep, UNCHANGED call
  PROVE  LadderInv'
<1>1. PICK s \in Nat, n \in 0 .. 6 : s = step /\ n = Len(selected_moduli) /\ n = Len(selected_scales)
  <2>1. /\ step \in Nat /\ selected_moduli \in Seq(Nat) /\ Len(selected_moduli) <= 6
        /\ LevelsPairUp
    BY DEF LadderInv
  <2>2. Len(selected_scales) = Len(selected_moduli)
    BY <2>1 DEF LevelsPairUp
  <2>3. Len(selected_moduli) \in 0 .. 6
    <3>1. selected_moduli \in Seq(Nat) /\ Len(selected_moduli) <= 6
      BY <2>1
    <3>2. PICK m \in Nat : m = Len(selected_moduli)
      BY <3>1, LenProperties
    <3>3. m <= 6
      BY <3>1, <3>2
    <3>4. m \in 0 .. 6
      BY <3>3
    <3> QED
      BY <3>2, <3>4, Zenon
  <2> QED
    BY <2>1, <2>2, <2>3
<1>2. PICK l \in LevelsOf(s) :
        LET moduli == Resized(selected_moduli, AtLeast(n, l))
        IN  /\ level' = l
            /\ selected_moduli' = [moduli EXCEPT ![l] = Maxima(l)]
            /\ selected_scales' = IF moduli[l] # 0 THEN selected_scales
                                  ELSE [Resized(selected_scales, l) EXCEPT ![l] = 2 ^ (l - 1)]
  BY <1>1 DEF AnalyzeStep
<1>3. step' = s + 1
  BY <1>1 DEF AnalyzeStep
<1>4. l \in 1 .. 6
  BY <1>1, <1>2, LevelsClimb
<1>5. n <= l /\ (n = l => selected_moduli[l] = Maxima(l))
  <2>1. CASE s = 0
    BY <1>1, <1>4, <2>1 DEF LadderInv
  <2>2. CASE s # 0
    <3>1. PICK t \in Nat : t + 1 = s /\ step - 1 = t
      <4>1. s - 1 \in Nat /\ s - 1 + 1 = s
        BY <2>2
      <4> QED
        BY <1>1, <4>1
    <3>2. level \in LevelsOf(t)
      BY <1>1, <2>2, <3>1 DEF LadderInv
    <3>3. level \in 1 .. 6 /\ level <= l
      BY <1>2, <3>1, <3>2, LevelsClimb
    <3>4. level = n /\ selected_moduli[level] = Maxima(level)
      BY <1>1, <3>3 DEF LadderInv, LevelsPairUp
    <3> QED
      BY <3>3, <3>4
  <2> QED
    BY <2>1, <2>2
<1>6. PICK moduli : /\ moduli = [k \in 1 .. l |-> IF k <= n THEN selected_moduli[k] ELSE 0]
                    /\ moduli = Resized(selected_moduli, AtLeast(n, l))
  <2>1. AtLeast(n, l) = l
    BY <1>4, <1>5 DEF AtLeast
  <2> QED
    BY <1>1, <2>1 DEF Resized
<1>7. Maxima(l) \in {0, l} /\ Maxima(l) \in Nat
  BY <1>4 DEF Maxima
<1>8. \A k \in 1 .. n : selected_moduli[k] \in Nat /\ selected_scales[k] \in Nat
                          /\ (selected_moduli[k] # 0 => selected_moduli[k] = k /\ selected_scales[k] = 2 ^ (k - 1))
  <2>0. selected_moduli \in Seq(Nat) /\ selected_scales \in Seq(Nat)
    BY DEF LadderInv
  <2>1. \A k \in 1 .. n : selected_moduli[k] \in Nat /\ selected_scales[k] \in Nat
    BY <1>1, <2>0, ElementOfSeq
  <2>2. DOMAIN selected_moduli = 1 .. n
    BY <1>1, <2>0, LenProperties
  <2>3. \A k \in DOMAIN selected_moduli :
          selected_moduli[k] # 0 => selected_moduli[k] = k /\ selected_scales[k] = 2 ^ (k - 1)
    BY DEF LadderInv, LevelsPairUp
  <2> QED
    BY <2>1, <2>2, <2>3, Zenon
<1>9. /\ selected_moduli' = [k \in 1 .. l |-> IF k = l THEN Maxima(l)
                                              ELSE IF k <= n THEN selected_moduli[k] ELSE 0]
      /\ selected_moduli' \in Seq(Nat) /\ Len(selected_moduli') = l
  <2>1. selected_moduli' = [moduli EXCEPT ![l] = Maxima(l)]
    BY <1>2, <1>6
  <2>2. selected_moduli' = [k \in 1 .. l |-> IF k = l THEN Maxima(l)
                                              ELSE IF k <= n THEN selected_moduli[k] ELSE 0]
    BY <1>4, <1>6, <2>1
  <2> QED
    BY <1>4, <1>7, <1>8, <2>2
<1>10. PICK scale \in Nat : scale = 2 ^ (l - 1)
  <2>1. l - 1 \in 0 .. 16
    BY <1>4
  <2> QED
    BY <2>1, PowerIs, PowersGrow
<1>0. /\ selected_scales' \in Seq(Nat) /\ Len(selected_scales') = l
      /\ \A k \in 1 .. n : k # l => selected_scales'[k] = selected_scales[k]
      /\ Maxima(l) # 0 => selected_scales'[l] = scale
  <2>1. CASE moduli[l] # 0
    <3>1. n = l /\ selected_moduli[l] # 0
      BY <1>4, <1>5, <1>6, <2>1
    <3>2. selected_scales' = selected_scales
      BY <1>2, <1>6, <2>1
    <3>3. selected_scales[l] = scale
      BY <1>4, <1>8, <1>10, <3>1
    <3> QED
      BY <1>1, <3>1, <3>2, <3>3 DEF LadderInv
  <2>2. CASE ~(moduli[l] # 0)
    <3>1. selected_scales' = [Resized(selected_scales, l) EXCEPT ![l] = scale]
      BY <1>2, <1>6, <1>10, <2>2
    <3>2. Resized(selected_scales, l) = [k \in 1 .. l |-> IF k <= n THEN selected_scales[k] ELSE 0]
      BY <1>1 DEF Resized
    <3>3. selected_scales' = [k \in 1 .. l |-> IF k = l THEN scale
                                               ELSE IF k <= n THEN selected_scales[k] ELSE 0]
      BY <1>4, <3>1, <3>2
    <3> QED
      BY <1>4, <1>5, <1>8, <3>3
  <2> QED
    BY <2>1, <2>2
<1>12. LevelsPairUp'
  <2>1. \A k \in 1 .. l : selected_moduli'[k] # 0 =>
          selected_moduli'[k] = k /\ selected_scales'[k] = 2 ^ (k - 1)
    <3> SUFFICES ASSUME NEW k \in 1 .. l, selected_moduli'[k] # 0
                 PROVE  selected_moduli'[k] = k /\ selected_scales'[k] = 2 ^ (k - 1)
      OBVIOUS
    <3>1. CASE k = l
      BY <1>7, <1>9, <1>10, <1>0, <3>1
    <3>2. CASE k # l
      <4>1. k \in 1 .. n /\ selected_moduli'[k] = selected_moduli[k] /\ selected_moduli[k] # 0
        BY <1>1, <1>4, <1>9, <3>2
      <4> QED
        BY <1>8, <1>0, <3>2, <4>1
    <3> QED
      BY <3>1, <3>2
  <2>2. DOMAIN selected_moduli' = 1 .. l /\ selected_moduli'[l] = Maxima(l) /\ Maxima(l) = Maxima(l)'
    BY <1>4, <1>9, LevelsStay
  <2> QED
    BY <1>2, <1>9, <1>0, <2>1, <2>2 DEF LevelsPairUp, Maxima
<1>13. level' \in (LevelsOf(step - 1))'
  <2>1. step' - 1 = s
    BY <1>3
  <2>2. level' \in LevelsOf(s)'
    <3>1. LevelsOf(s)' = LevelsOf(s)
      BY LevelsStay
    <3> QED
      BY <1>2, <3>1
  <2> QED
    BY <2>1, <2>2, Zenon
<1> QED
  BY <1>3, <1>4, <1>9, <1>0, <1>12, <1>13 DEF LadderInv

-----------------------------------------------------------------------------
(***************************************************************************)
(* The spectra.  The pairs are levels beside their scales; the exponents   *)
(* that are there grow with their moments, and every moment still to be    *)
(* measured is greater than all of them.                                   *)
(***************************************************************************)
PairsInv == \A p \in pairs : \E l \in 1 .. 6 : p = <<Power[l - 1], l>>
SlopesInv ==
  \/ slopes = <<>>
  \/ slopes = [i \in 1 .. Moments |-> <<>>]
  \/ slopes = [i \in 1 .. Moments |-> Neighbours(i, Moments)]
MomentsInv ==
  /\ unmeasured \subseteq Int /\ tau_q \in Seq(Int)
  /\ \A j, k \in 1 .. Len(tau_q) : j < k => tau_q[j] < tau_q[k]
  /\ \A j \in 1 .. Len(tau_q), q \in unmeasured : tau_q[j] < q
  /\ f_alpha # NotYet =>
       /\ unmeasured = {}
       /\ f_alpha = [k \in 1 .. (IF Len(tau_q) < 3 THEN 0 ELSE Len(tau_q) - 2) |->
                       SubSeq(tau_q, k, k + 2)]
SpectraInv == PairsInv /\ SlopesInv /\ MomentsInv

LEMMA MomentsAreWhole ==
  ASSUME call \in CallType
  PROVE  QValues \subseteq Int
<1>1. call.q_values \in Seq(Int \X {"+", "-"})
  BY DEF CallType
<1>2. \A k \in DOMAIN call.q_values : call.q_values[k] \in Int \X {"+", "-"}
  BY <1>1
<1> QED
  BY <1>2 DEF QValues, Range

LEMMA SpectraBegin ==
  ASSUME call \in CallType, MomentInit
  PROVE  SpectraInv
BY MomentsAreWhole DEF MomentInit, SpectraInv, PairsInv, SlopesInv, MomentsInv

LEMMA SpectraBeginAgain ==
  ASSUME call \in CallType, MomentReset, UNCHANGED call
  PROVE  SpectraInv'
<1>1. QValues' = QValues /\ QValues \subseteq Int
  BY MomentsAreWhole DEF QValues
<1> QED
  BY <1>1 DEF MomentReset, SpectraInv, PairsInv, SlopesInv, MomentsInv

LEMMA PartitionStep ==
  ASSUME LadderInv, SpectraInv, Partition
  PROVE  SpectraInv'
<1>1. \A l \in LevelsWithMaxima :
        l \in 1 .. 6 /\ selected_moduli[l] = l /\ selected_scales[l] = Power[l - 1]
  <2> SUFFICES ASSUME NEW l \in LevelsWithMaxima
               PROVE  l \in 1 .. 6 /\ selected_moduli[l] = l /\ selected_scales[l] = Power[l - 1]
    OBVIOUS
  <2>0. selected_moduli \in Seq(Nat) /\ Len(selected_moduli) <= 6 /\ LevelsPairUp
    BY DEF LadderInv
  <2>1. PICK m \in Nat : m = Len(selected_moduli) /\ DOMAIN selected_moduli = 1 .. m
    BY <2>0, LenProperties
  <2>2. m <= 6
    BY <2>0, <2>1
  <2>3. m = Len(selected_scales)
    BY <2>0, <2>1 DEF LevelsPairUp
  <2>4. l \in 1 .. m /\ selected_moduli[l] # 0
    BY <2>1, <2>3 DEF LevelsWithMaxima, AtMost
  <2>5. selected_moduli[l] = l /\ selected_scales[l] = 2 ^ (l - 1)
    BY <2>0, <2>1, <2>4, Zenon DEF LevelsPairUp
  <2>6. l \in 1 .. 6 /\ l - 1 \in 0 .. 16
    BY <2>2, <2>4
  <2> QED
    BY <2>5, <2>6, PowerIs
<1>2. PairsInv'
  <2>1. pairs' = {<<selected_scales[l], selected_moduli[l]>> : l \in LevelsWithMaxima}
    BY DEF Partition
  <2>2. \A p \in pairs' : \E l \in LevelsWithMaxima : p = <<Power[l - 1], l>>
    BY <1>1, <2>1
  <2> QED
    BY <1>1, <2>2 DEF PairsInv
<1>3. SlopesInv'
  BY DEF Partition, SlopesInv
<1>4. MomentsInv'
  BY DEF Partition, MomentsInv, SpectraInv
<1> QED
  BY <1>2, <1>3, <1>4 DEF SpectraInv

LEMMA SpectrumStepKeeps ==
  ASSUME SpectraInv, SpectrumStep
  PROVE  SpectraInv'
<1>1. PairsInv' /\ SlopesInv'
  BY DEF SpectraInv, PairsInv, SlopesInv, SpectrumStep, MeasureMoment, NoMeasure, Legendre
<1>2. /\ unmeasured \subseteq Int /\ tau_q \in Seq(Int)
      /\ \A j, k \in 1 .. Len(tau_q) : j < k => tau_q[j] < tau_q[k]
      /\ \A j \in 1 .. Len(tau_q), q \in unmeasured : tau_q[j] < q
      /\ f_alpha # NotYet => unmeasured = {}
  BY DEF SpectraInv, MomentsInv
<1>3. CASE MeasureMoment
  <2>1. PICK q \in unmeasured :
          /\ \A p \in unmeasured : q <= p
          /\ unmeasured' = unmeasured \ {q}
          /\ tau_q' = Append(tau_q, q) \/ tau_q' = tau_q
          /\ f_alpha' = f_alpha
    BY <1>3 DEF MeasureMoment
  <2>2. f_alpha' = NotYet
    BY <1>2, <2>1
  <2>3. unmeasured' \subseteq Int /\ q \in Int /\ \A p \in unmeasured' : q < p
    BY <1>2, <2>1
  <2>4. ASSUME tau_q' = tau_q PROVE MomentsInv'
    BY <1>2, <2>1, <2>2, <2>3, <2>4 DEF MomentsInv
  <2>5. ASSUME tau_q' = Append(tau_q, q) PROVE MomentsInv'
    <3>1. PICK n \in Nat : n = Len(tau_q)
      BY <1>2
    <3>2. /\ tau_q' \in Seq(Int) /\ Len(tau_q') = n + 1 /\ tau_q'[n + 1] = q
          /\ \A j \in 1 .. n : tau_q'[j] = tau_q[j] /\ tau_q[j] \in Int
      BY <1>2, <2>3, <2>5, <3>1
    <3>3. \A j \in 1 .. n + 1 : j \in 1 .. n \/ j = n + 1
      OBVIOUS
    <3>4. \A j, k \in 1 .. n + 1 : j < k => tau_q'[j] < tau_q'[k]
      <4> SUFFICES ASSUME NEW j \in 1 .. n + 1, NEW k \in 1 .. n + 1, j < k
                   PROVE  tau_q'[j] < tau_q'[k]
        OBVIOUS
      <4>1. j \in 1 .. n
        OBVIOUS
      <4>2. CASE k \in 1 .. n
        BY <1>2, <3>1, <3>2, <4>1, <4>2
      <4>3. CASE k = n + 1
        BY <1>2, <2>1, <3>1, <3>2, <4>1, <4>3
      <4> QED
        BY <3>3, <4>2, <4>3
    <3>5. \A j \in 1 .. n + 1, p \in unmeasured' : tau_q'[j] < p
      BY <1>2, <2>1, <2>3, <3>1, <3>2, <3>3
    <3> QED
      BY <2>2, <2>3, <3>2, <3>4, <3>5 DEF MomentsInv
  <2> QED
    BY <1>1, <2>1, <2>4, <2>5 DEF SpectraInv
<1>4. CASE NoMeasure
  <2>1. unmeasured # {} /\ unmeasured' = {} /\ tau_q' = tau_q /\ f_alpha' = f_alpha
    BY <1>4 DEF NoMeasure, MomentsDone
  <2>2. f_alpha' = NotYet
    BY <1>2, <2>1
  <2> QED
    BY <1>1, <1>2, <2>1, <2>2 DEF MomentsInv, SpectraInv
<1>5. CASE Legendre
  <2>1. /\ unmeasured = {} /\ unmeasured' = unmeasured /\ tau_q' = tau_q
        /\ f_alpha' = [k \in 1 .. (IF Len(tau_q) < 3 THEN 0 ELSE Len(tau_q) - 2) |->
                         SubSeq(tau_q, k, k + 2)]
    BY <1>5 DEF Legendre, MomentsDone
  <2> QED
    BY <1>1, <1>2, <2>1 DEF MomentsInv, SpectraInv
<1> QED
  BY <1>3, <1>4, <1>5 DEF SpectrumStep

LEMMA SpectraSafe ==
  ASSUME SpectraInv
  PROVE  MomentsPairUp
<1>1. ASSUME NEW p \in pairs, NEW r \in pairs
      PROVE  p[1] = 2 ^ (p[2] - 1) /\ (p[1] = r[1] => p = r)
  <2>1. PICK l \in 1 .. 6 : p = <<Power[l - 1], l>>
    BY DEF SpectraInv, PairsInv
  <2>2. PICK m \in 1 .. 6 : r = <<Power[m - 1], m>>
    BY DEF SpectraInv, PairsInv
  <2>3. l - 1 \in 0 .. 16 /\ m - 1 \in 0 .. 16
    OBVIOUS
  <2>4. Power[l - 1] = 2 ^ (l - 1)
    BY <2>3, PowerIs
  <2>5. Power[l - 1] = Power[m - 1] => l = m
    <3>1. \A a, b \in 0 .. 16 : a < b => Power[a] # Power[b]
      BY PowersGrow
    <3>2. l - 1 < m - 1 \/ m - 1 < l - 1 \/ l = m
      OBVIOUS
    <3> QED
      BY <2>3, <3>1, <3>2
  <2> QED
    BY <2>1, <2>2, <2>4, <2>5
<1>2. ASSUME NEW i \in DOMAIN slopes, slopes[i] # <<>>
      PROVE  /\ 1 <= slopes[i][1] /\ slopes[i][1] < slopes[i][2] /\ slopes[i][2] <= Moments
             /\ {i - 1, i + 1} \cap 1 .. Moments \subseteq {slopes[i][1], slopes[i][2]}
  <2>1. i \in 1 .. 5 /\ slopes[i] = <<AtLeast(i - 1, 1), AtMost(i + 1, 5)>>
    <3>1. CASE slopes = <<>>
      BY <1>2, <3>1
    <3>2. CASE slopes = [k \in 1 .. Moments |-> <<>>]
      BY <1>2, <3>2
    <3>3. CASE slopes = [k \in 1 .. Moments |-> Neighbours(k, Moments)]
      BY <3>3 DEF Neighbours, Moments
    <3> QED
      BY <3>1, <3>2, <3>3 DEF SpectraInv, SlopesInv
  <2>2. slopes[i][1] = AtLeast(i - 1, 1) /\ slopes[i][2] = AtMost(i + 1, 5)
    BY <2>1
  <2> QED
    BY <2>1, <2>2 DEF AtLeast, AtMost, Moments
<1>3. ASSUME SpectrumDone
      PROVE  /\ (f_alpha = <<>>) <=> (Cardinality(Range(tau_q)) < 3)
             /\ \A k \in DOMAIN f_alpha :
                  LET around == f_alpha[k]
                  IN  /\ around[1] < around[2] /\ around[2] < around[3]
                      /\ \A q \in Range(tau_q) : q > around[1] /\ q < around[3] => q = around[2]
             /\ f_alpha # <<>> =>
                  \A q \in Range(tau_q) :
                    \/ \E k \in DOMAIN f_alpha : f_alpha[k][2] = q
                    \/ \A p \in Range(tau_q) : p <= q
                    \/ \A p \in Range(tau_q) : p >= q
  <2>1. /\ tau_q \in Seq(Int)
        /\ \A j, k \in 1 .. Len(tau_q) : j < k => tau_q[j] < tau_q[k]
        /\ f_alpha = [k \in 1 .. (IF Len(tau_q) < 3 THEN 0 ELSE Len(tau_q) - 2) |->
                        SubSeq(tau_q, k, k + 2)]
    BY <1>3 DEF SpectraInv, MomentsInv, SpectrumDone
  <2>2. PICK n \in Nat : n = Len(tau_q) /\ DOMAIN tau_q = 1 .. n
    BY <2>1, LenProperties
  <2>3. PICK m \in Nat : m = (IF n < 3 THEN 0 ELSE n - 2)
    BY <2>2
  <2>4. DOMAIN f_alpha = 1 .. m /\ (\A k \in 1 .. m : f_alpha[k] = SubSeq(tau_q, k, k + 2))
    BY <2>1, <2>2, <2>3
  <2>5. \A j \in 1 .. n : tau_q[j] \in Int
    BY <2>1, <2>2
  <2>6. \A k \in 1 .. m : /\ f_alpha[k][1] = tau_q[k] /\ f_alpha[k][2] = tau_q[k + 1]
                          /\ f_alpha[k][3] = tau_q[k + 2] /\ k + 2 \in 1 .. n
                          /\ k \in 1 .. n /\ k + 1 \in 1 .. n
    <3> SUFFICES ASSUME NEW k \in 1 .. m
                 PROVE  /\ f_alpha[k][1] = tau_q[k] /\ f_alpha[k][2] = tau_q[k + 1]
                        /\ f_alpha[k][3] = tau_q[k + 2] /\ k + 2 \in 1 .. n
                        /\ k \in 1 .. n /\ k + 1 \in 1 .. n
      OBVIOUS
    <3>1. k \in 1 .. n /\ k + 1 \in 1 .. n /\ k + 2 \in 1 .. n
      BY <2>3
    <3>2. SubSeq(tau_q, k, k + 2) = [i \in 1 .. 3 |-> tau_q[k + i - 1]]
      <4>1. SubSeq(tau_q, k, k + 2) = [i \in 1 .. (k + 2 - k + 1) |-> tau_q[i + k - 1]]
        BY <2>1, <2>2, <3>1
      <4>2. k + 2 - k + 1 = 3 /\ (\A i \in 1 .. 3 : i + k - 1 = k + i - 1)
        BY <3>1
      <4> QED
        BY <4>1, <4>2
    <3>3. k + 1 - 1 = k /\ k + 2 - 1 = k + 1 /\ k + 3 - 1 = k + 2
      OBVIOUS
    <3> QED
      BY <2>4, <3>1, <3>2, <3>3
  <2>7. Range(tau_q) = {tau_q[j] : j \in 1 .. n}
    BY <2>2 DEF Range
  <2>8. \A j, k \in 1 .. n : /\ tau_q[j] < tau_q[k] => j < k
                             /\ j <= k => tau_q[j] <= tau_q[k]
    <3> SUFFICES ASSUME NEW j \in 1 .. n, NEW k \in 1 .. n
                 PROVE  (tau_q[j] < tau_q[k] => j < k) /\ (j <= k => tau_q[j] <= tau_q[k])
      OBVIOUS
    <3>1. j < k \/ k < j \/ j = k
      OBVIOUS
    <3> QED
      BY <2>1, <2>2, <2>5, <3>1
  <2>9. Cardinality(Range(tau_q)) = n
    <3> DEFINE S == 1 .. n
    <3>1. IsFiniteSet(S) /\ Cardinality(S) = n
      BY Intervals
    <3>2. \A j, k \in S : tau_q[j] = tau_q[k] => j = k
      <4>1. \A j, k \in S : j < k \/ k < j \/ j = k
        OBVIOUS
      <4>2. \A j, k \in S : j < k => tau_q[j] # tau_q[k]
        BY <2>1, <2>2, <2>5
      <4> QED
        BY <4>1, <4>2
    <3>3. tau_q = [j \in S |-> tau_q[j]]
      BY <2>1, <2>2
    <3>4. Range(tau_q) = {tau_q[j] : j \in S}
      BY <2>7
    <3> HIDE DEF S
    <3> QED
      BY <3>1, <3>2, <3>3, <3>4, ImageSize
  <2>10. (f_alpha = <<>>) <=> (Cardinality(Range(tau_q)) < 3)
    <3>1. CASE n < 3
      <4>1. 1 .. m = {}
        BY <2>3, <3>1
      <4>2. f_alpha = <<>>
        BY <2>1, <2>2, <3>1
      <4> QED
        BY <2>9, <3>1, <4>2
    <3>2. CASE ~(n < 3)
      <4>1. 1 \in DOMAIN f_alpha
        BY <2>3, <2>4, <3>2
      <4> QED
        BY <2>9, <3>2, <4>1
    <3> QED
      BY <3>1, <3>2
  <2>0. ASSUME NEW k \in 1 .. m
        PROVE  /\ f_alpha[k][1] < f_alpha[k][2] /\ f_alpha[k][2] < f_alpha[k][3]
               /\ \A q \in Range(tau_q) :
                    q > f_alpha[k][1] /\ q < f_alpha[k][3] => q = f_alpha[k][2]
    <3>1. tau_q[k] < tau_q[k + 1] /\ tau_q[k + 1] < tau_q[k + 2]
      <4>1. k < k + 1 /\ k + 1 < k + 2 /\ k \in 1 .. n /\ k + 1 \in 1 .. n /\ k + 2 \in 1 .. n
        BY <2>6
      <4>2. \A i, j \in 1 .. n : i < j => tau_q[i] < tau_q[j]
        BY <2>1, <2>2
      <4> QED
        BY <4>1, <4>2, Zenon
    <3>2. ASSUME NEW j \in 1 .. n, tau_q[k] < tau_q[j], tau_q[j] < tau_q[k + 2]
          PROVE  tau_q[j] = tau_q[k + 1]
      <4>1. k < j /\ j < k + 2
        BY <2>6, <2>8, <3>2
      <4>2. j = k + 1
        BY <4>1
      <4> QED
        BY <4>2
    <3>3. \A q \in Range(tau_q) : q > tau_q[k] /\ q < tau_q[k + 2] => q = tau_q[k + 1]
      BY <2>5, <2>6, <2>7, <3>2
    <3> QED
      BY <2>6, <3>1, <3>3
  <2>12. ASSUME f_alpha # <<>>, NEW j \in 1 .. n
         PROVE  \/ \E k \in 1 .. m : f_alpha[k][2] = tau_q[j]
                \/ \A p \in Range(tau_q) : p <= tau_q[j]
                \/ \A p \in Range(tau_q) : p >= tau_q[j]
    <3>1. CASE j = 1
      <4>1. \A i \in 1 .. n : tau_q[i] >= tau_q[j]
        BY <2>5, <2>8, <3>1
      <4> QED
        BY <2>7, <4>1
    <3>2. CASE j = n
      <4>1. \A i \in 1 .. n : tau_q[i] <= tau_q[j]
        BY <2>5, <2>8, <3>2
      <4> QED
        BY <2>7, <4>1
    <3>3. CASE j # 1 /\ j # n
      <4>1. PICK k \in 1 .. m : k + 1 = j
        <5>1. j - 1 \in 1 .. m /\ j - 1 + 1 = j
          BY <2>3, <3>3
        <5> QED
          BY <5>1
      <4> QED
        BY <2>6, <4>1
    <3> QED
      BY <3>1, <3>2, <3>3
  <2>13. \A k \in DOMAIN f_alpha :
           LET around == f_alpha[k]
           IN  /\ around[1] < around[2] /\ around[2] < around[3]
               /\ \A q \in Range(tau_q) : q > around[1] /\ q < around[3] => q = around[2]
    BY <2>4, <2>0
  <2>14. f_alpha # <<>> =>
           \A q \in Range(tau_q) :
             \/ \E k \in DOMAIN f_alpha : f_alpha[k][2] = q
             \/ \A p \in Range(tau_q) : p <= q
             \/ \A p \in Range(tau_q) : p >= q
    BY <2>4, <2>7, <2>12
  <2> QED
    BY <2>10, <2>13, <2>14
<1> QED
  BY <1>1, <1>2, <1>3 DEF MomentsPairUp

LEMMA SpectraAlways == Spec => [](call \in CallType /\ LadderInv /\ SpectraInv)
<1>1. Init => call \in CallType /\ LadderInv /\ SpectraInv
  <2> SUFFICES ASSUME Init PROVE call \in CallType /\ LadderInv /\ SpectraInv
    OBVIOUS
  <2>1. call \in CallType /\ WaveletInit /\ MomentInit
    BY CallAssumption DEF Init
  <2> QED
    BY <2>1, SpectraBegin DEF WaveletInit, LadderInv, LevelsPairUp
<1>2. call \in CallType /\ LadderInv /\ SpectraInv /\ [Next]_vars
        => (call \in CallType /\ LadderInv /\ SpectraInv)'
  <2> SUFFICES ASSUME call \in CallType, LadderInv, SpectraInv, [Next]_vars
               PROVE  call' \in CallType /\ LadderInv' /\ SpectraInv'
    OBVIOUS
  <2>1. /\ UNCHANGED call
        /\ UNCHANGED momentVars \/ Partition \/ SpectrumStep \/ MomentReset
        /\ UNCHANGED waveletVars \/ AnalyzeStep \/ ProbeScale \/ WaveletReset
    BY Components
  <2>2. LadderInv'
    <3>1. CASE UNCHANGED <<step, level, selected_moduli, selected_scales>>
      <4>1. \A s : LevelsOf(s)' = LevelsOf(s) /\ Maxima(s)' = Maxima(s)
        BY <2>1, LevelsStay
      <4>2. LevelsPairUp'
        BY <3>1, <4>1 DEF LadderInv, LevelsPairUp
      <4>3. step > 0 => level' \in (LevelsOf(step - 1))'
        BY <3>1, <4>1 DEF LadderInv
      <4> QED
        BY <3>1, <4>2, <4>3 DEF LadderInv
    <3>2. CASE AnalyzeStep
      BY <2>1, <3>2, LadderStep
    <3>3. CASE WaveletReset
      BY <3>3 DEF WaveletReset, LadderInv, LevelsPairUp
    <3> QED
      BY <2>1, <3>1, <3>2, <3>3 DEF waveletVars, ProbeScale
  <2>3. SpectraInv'
    <3>1. CASE UNCHANGED momentVars
      BY <3>1 DEF momentVars, SpectraInv, PairsInv, SlopesInv, MomentsInv
    <3> QED
      BY <2>1, <3>1, PartitionStep, SpectrumStepKeeps, SpectraBeginAgain
  <2> QED
    BY <2>1, <2>2, <2>3
<1> QED
  BY <1>1, <1>2, PTL DEF Spec

(* The spectra differentiate what belongs together (`extract_wtmm`,        *)
(* `compute_multifractal_spectrum`).                                       *)
THEOREM NeighboursBelong == Spec => []ScalesPairUp
<1>1. LadderInv /\ SpectraInv => ScalesPairUp
  BY SpectraSafe DEF ScalesPairUp, LadderInv
<1> QED
  BY <1>1, SpectraAlways, PTL
-----------------------------------------------------------------------------
-----------------------------------------------------------------------------
(***************************************************************************)
(* The wavelet transform.  Along one axis the low-pass of a level is the   *)
(* one before, spread by the taps of the level; the definition is          *)
(* recursive, but there are seven levels, so the function it names can be  *)
(* written out.                                                            *)
(***************************************************************************)
Spread(f, extent, g) ==
  [c \in 0 .. extent - 1 |->
     f[Clamped(c - g, extent)] + 2 * f[c] + f[Clamped(c + g, extent)]]

LEMMA LowPassUnfolds ==
  ASSUME NEW extent, NEW s
  PROVE  LowPass(extent, s) =
           [l \in 0 .. 6 |-> IF l = 0 THEN [c \in 0 .. extent - 1 |-> IF c = s THEN 1 ELSE 0]
                             ELSE Spread(LowPass(extent, s)[l - 1], extent, Gap(l))]
<1> DEFINE f0 == [c \in 0 .. extent - 1 |-> IF c = s THEN 1 ELSE 0]
           f1 == Spread(f0, extent, Gap(1))
           f2 == Spread(f1, extent, Gap(2))
           f3 == Spread(f2, extent, Gap(3))
           f4 == Spread(f3, extent, Gap(4))
           f5 == Spread(f4, extent, Gap(5))
           f6 == Spread(f5, extent, Gap(6))
           Body(f) == [l \in 0 .. 6 |-> IF l = 0 THEN f0 ELSE Spread(f[l - 1], extent, Gap(l))]
           g == [l \in 0 .. 6 |-> IF l = 0 THEN f0 ELSE IF l = 1 THEN f1 ELSE IF l = 2 THEN f2
                                  ELSE IF l = 3 THEN f3 ELSE IF l = 4 THEN f4
                                  ELSE IF l = 5 THEN f5 ELSE f6]
<1>1. LowPass(extent, s) = CHOOSE f : f = Body(f)
  BY DEF LowPass, Spread
<1> HIDE DEF f0, f1, f2, f3, f4, f5, f6
<1>2. g = Body(g)
  <2>1. g[0] = f0 /\ g[1] = f1 /\ g[2] = f2 /\ g[3] = f3 /\ g[4] = f4 /\ g[5] = f5 /\ g[6] = f6
    OBVIOUS
  <2>2. \A l \in 0 .. 6 : l \in {0, 1, 2, 3, 4, 5, 6}
    OBVIOUS
  <2>3. \A l \in 0 .. 6 : g[l] = IF l = 0 THEN f0 ELSE Spread(g[l - 1], extent, Gap(l))
    <3>1. /\ f1 = Spread(f0, extent, Gap(1)) /\ f2 = Spread(f1, extent, Gap(2))
          /\ f3 = Spread(f2, extent, Gap(3)) /\ f4 = Spread(f3, extent, Gap(4))
          /\ f5 = Spread(f4, extent, Gap(5)) /\ f6 = Spread(f5, extent, Gap(6))
      BY DEF f1, f2, f3, f4, f5, f6
    <3>2. 1 - 1 = 0 /\ 2 - 1 = 1 /\ 3 - 1 = 2 /\ 4 - 1 = 3 /\ 5 - 1 = 4 /\ 6 - 1 = 5
      OBVIOUS
    <3> HIDE DEF g
    <3> QED
      BY <2>1, <2>2, <3>1, <3>2
  <2>4. g = [l \in 0 .. 6 |-> g[l]]
    OBVIOUS
  <2> HIDE DEF g
  <2> QED
    BY <2>3, <2>4
<1> HIDE DEF Body, g
<1>3. LowPass(extent, s) = Body(LowPass(extent, s))
  BY <1>1, <1>2
<1> QED
  BY <1>3 DEF Body, f0

LEMMA ClampStays ==
  ASSUME NEW extent \in Nat \ {0}, NEW c \in Int
  PROVE  Clamped(c, extent) \in 0 .. extent - 1
BY DEF Clamped, AtLeast, AtMost

LEMMA GapIs ==
  ASSUME NEW l \in 1 .. 6
  PROVE  Gap(l) \in Nat /\ Gap(l) = Power[l - 1] /\ Power[l] = Gap(l) + Gap(l) /\ Power[l] \in Nat
<1>1. l - 1 \in 0 .. 16 /\ l \in 1 .. 16 /\ l \in 0 .. 16
  OBVIOUS
<1>2. Gap(l) = Power[l - 1]
  BY <1>1, PowerIs DEF Gap
<1>3. Power[l - 1] \in Nat /\ Power[l] = 2 * Power[l - 1]
  BY <1>1, PowersGrow
<1> QED
  BY <1>2, <1>3

(* What is left of the spot is a whole number everywhere, and nothing at   *)
(* all further away than the taps so far reach.                            *)
LEMMA SpreadsFromSpot ==
  ASSUME NEW extent \in Nat \ {0}, NEW s \in Int
  PROVE  \A l \in 0 .. 6 :
           /\ LowPass(extent, s)[l] \in [0 .. extent - 1 -> Int]
           /\ l > 0 => LowPass(extent, s)[l] = Spread(LowPass(extent, s)[l - 1], extent, Gap(l))
           /\ \A c \in 0 .. extent - 1 :
                /\ l = 0 => LowPass(extent, s)[l][c] = IF c = s THEN 1 ELSE 0
                /\ c - s \notin -(Power[l] - 1) .. Power[l] - 1 => LowPass(extent, s)[l][c] = 0
<1> DEFINE f == LowPass(extent, s)
           Known(l) == /\ f[l] \in [0 .. extent - 1 -> Int]
                       /\ \A c \in 0 .. extent - 1 :
                            c - s \notin -(Power[l] - 1) .. Power[l] - 1 => f[l][c] = 0
<1>1. /\ f[0] = [c \in 0 .. extent - 1 |-> IF c = s THEN 1 ELSE 0]
      /\ \A l \in 1 .. 6 : f[l] = Spread(f[l - 1], extent, Gap(l))
  <2>1. 0 \in 0 .. 6 /\ (\A l \in 1 .. 6 : l \in 0 .. 6 /\ l # 0)
    OBVIOUS
  <2> HIDE DEF f
  <2>2. f = [l \in 0 .. 6 |-> IF l = 0 THEN [c \in 0 .. extent - 1 |-> IF c = s THEN 1 ELSE 0]
                              ELSE Spread(f[l - 1], extent, Gap(l))]
    BY LowPassUnfolds DEF f
  <2> QED
    BY <2>1, <2>2
<1> HIDE DEF f
<1>2. Known(0)
  <2>1. Power[0] - 1 = 0
    BY PowerTable
  <2>2. \A c \in 0 .. extent - 1 : f[0][c] = IF c = s THEN 1 ELSE 0
    BY <1>1
  <2>3. f[0] \in [0 .. extent - 1 -> Int]
    BY <1>1
  <2>4. \A c \in 0 .. extent - 1 : c = s => c - s \in -0 .. 0
    OBVIOUS
  <2> QED
    BY <2>1, <2>2, <2>3, <2>4
<1>3. ASSUME NEW l \in 1 .. 6, Known(l - 1) PROVE Known(l)
  <2>1. PICK g \in Nat : g = Gap(l) /\ Power[l - 1] = g /\ Power[l] = g + g
    BY GapIs
  <2>2. PICK h : h = f[l - 1]
    OBVIOUS
  <2>3. /\ h \in [0 .. extent - 1 -> Int]
        /\ \A c \in 0 .. extent - 1 : c - s \notin -(g - 1) .. g - 1 => h[c] = 0
    BY <1>3, <2>1, <2>2
  <2>4. f[l] = [c \in 0 .. extent - 1 |->
                  h[Clamped(c - g, extent)] + 2 * h[c] + h[Clamped(c + g, extent)]]
    BY <1>1, <2>1, <2>2 DEF Spread
  <2>5. \A c \in 0 .. extent - 1 :
          /\ Clamped(c - g, extent) \in 0 .. extent - 1 /\ Clamped(c + g, extent) \in 0 .. extent - 1
          /\ c - s \notin -(g + g - 1) .. g + g - 1 =>
               /\ Clamped(c - g, extent) - s \notin -(g - 1) .. g - 1
               /\ c - s \notin -(g - 1) .. g - 1
               /\ Clamped(c + g, extent) - s \notin -(g - 1) .. g - 1
    BY DEF Clamped, AtLeast, AtMost
  <2>6. \A c \in 0 .. extent - 1 :
          h[Clamped(c - g, extent)] \in Int /\ h[c] \in Int /\ h[Clamped(c + g, extent)] \in Int
    BY <2>3, <2>5
  <2>7. f[l] \in [0 .. extent - 1 -> Int]
    <3>1. \A c \in 0 .. extent - 1 :
            h[Clamped(c - g, extent)] + 2 * h[c] + h[Clamped(c + g, extent)] \in Int
      BY <2>6
    <3> QED
      BY <2>4, <3>1, Zenon
  <2>8. ASSUME NEW c \in 0 .. extent - 1, c - s \notin -(g + g - 1) .. g + g - 1
        PROVE  f[l][c] = 0
    <3>1. h[Clamped(c - g, extent)] = 0 /\ h[c] = 0 /\ h[Clamped(c + g, extent)] = 0
      BY <2>3, <2>5, <2>8
    <3>2. f[l][c] = h[Clamped(c - g, extent)] + 2 * h[c] + h[Clamped(c + g, extent)]
      BY <2>4
    <3> QED
      BY <3>1, <3>2
  <2> QED
    BY <2>1, <2>7, <2>8
<1> HIDE DEF Known
<1>4. Known(1) /\ Known(2) /\ Known(3) /\ Known(4) /\ Known(5) /\ Known(6)
  <2>1. 1 - 1 = 0 /\ 2 - 1 = 1 /\ 3 - 1 = 2 /\ 4 - 1 = 3 /\ 5 - 1 = 4 /\ 6 - 1 = 5
    OBVIOUS
  <2>2. Known(1)
    BY <1>2, <1>3, <2>1
  <2>3. Known(2)
    BY <1>3, <2>1, <2>2
  <2>4. Known(3)
    BY <1>3, <2>1, <2>3
  <2>5. Known(4)
    BY <1>3, <2>1, <2>4
  <2>6. Known(5)
    BY <1>3, <2>1, <2>5
  <2>7. Known(6)
    BY <1>3, <2>1, <2>6
  <2> QED
    BY <2>2, <2>3, <2>4, <2>5, <2>6, <2>7
<1>5. \A l \in 0 .. 6 : Known(l)
  <2>1. \A l \in 0 .. 6 : l \in {0, 1, 2, 3, 4, 5, 6}
    OBVIOUS
  <2> QED
    BY <1>2, <1>4, <2>1
<1>6. \A c \in 0 .. extent - 1 : f[0][c] = IF c = s THEN 1 ELSE 0
  BY <1>1
<1>7. \A l \in 0 .. 6 : l > 0 => f[l] = Spread(f[l - 1], extent, Gap(l))
  BY <1>1
<1> QED
  BY <1>5, <1>6, <1>7 DEF f, Known

(* A plane that is a product, one factor along each axis, stays one.       *)
IsProduct(f, u, v) ==
  \A a \in 0 .. Width - 1, b \in 0 .. Height - 1 : f[<<a, b>>] = u[a] * v[b]

LEMMA ConvolvesAlongAxis ==
  ASSUME Width \in Nat \ {0}, Height \in Nat \ {0}, NEW g \in Nat,
         NEW u \in [0 .. Width - 1 -> Int], NEW v \in [0 .. Height - 1 -> Int],
         NEW f, IsProduct(f, u, v)
  PROVE  /\ IsProduct(ConvolveX(f, g), Spread(u, Width, g), v)
         /\ IsProduct(ConvolveY(f, g), u, Spread(v, Height, g))
<1>1. \A j, k, m, w \in Int : (j + 2 * k + m) * w = j * w + 2 * (k * w) + m * w
  OBVIOUS
<1>2. \A j, k, m, w \in Int : w * (j + 2 * k + m) = w * j + 2 * (w * k) + w * m
  OBVIOUS
<1>3. ASSUME NEW a \in 0 .. Width - 1, NEW b \in 0 .. Height - 1
      PROVE  ConvolveX(f, g)[<<a, b>>] = Spread(u, Width, g)[a] * v[b]
  <2>1. PICK i \in 0 .. Width - 1, k \in 0 .. Width - 1 :
          i = Clamped(a - g, Width) /\ k = Clamped(a + g, Width)
    <3>1. a - g \in Int /\ a + g \in Int
      OBVIOUS
    <3> QED
      BY <3>1, ClampStays
  <2>2. Spread(u, Width, g)[a] = u[i] + 2 * u[a] + u[k]
    BY <2>1 DEF Spread
  <2>3. ConvolveX(f, g)[<<a, b>>] = f[<<i, b>>] + 2 * f[<<a, b>>] + f[<<k, b>>]
    <3>1. <<a, b>> \in Pixel /\ <<a, b>>[1] = a /\ <<a, b>>[2] = b
      BY DEF Pixel
    <3> QED
      BY <2>1, <3>1 DEF ConvolveX
  <2>4. f[<<i, b>>] = u[i] * v[b] /\ f[<<a, b>>] = u[a] * v[b] /\ f[<<k, b>>] = u[k] * v[b]
    BY <2>1 DEF IsProduct
  <2>5. u[i] \in Int /\ u[a] \in Int /\ u[k] \in Int /\ v[b] \in Int
    BY <2>1
  <2>6. (u[i] + 2 * u[a] + u[k]) * v[b] = u[i] * v[b] + 2 * (u[a] * v[b]) + u[k] * v[b]
    BY <1>1, <2>5
  <2> QED
    BY <2>2, <2>3, <2>4, <2>6
<1>4. ASSUME NEW a \in 0 .. Width - 1, NEW b \in 0 .. Height - 1
      PROVE  ConvolveY(f, g)[<<a, b>>] = u[a] * Spread(v, Height, g)[b]
  <2>1. PICK i \in 0 .. Height - 1, k \in 0 .. Height - 1 :
          i = Clamped(b - g, Height) /\ k = Clamped(b + g, Height)
    <3>1. b - g \in Int /\ b + g \in Int
      OBVIOUS
    <3> QED
      BY <3>1, ClampStays
  <2>2. Spread(v, Height, g)[b] = v[i] + 2 * v[b] + v[k]
    BY <2>1 DEF Spread
  <2>3. ConvolveY(f, g)[<<a, b>>] = f[<<a, i>>] + 2 * f[<<a, b>>] + f[<<a, k>>]
    <3>1. <<a, b>> \in Pixel /\ <<a, b>>[1] = a /\ <<a, b>>[2] = b
      BY DEF Pixel
    <3> QED
      BY <2>1, <3>1 DEF ConvolveY
  <2>4. f[<<a, i>>] = u[a] * v[i] /\ f[<<a, b>>] = u[a] * v[b] /\ f[<<a, k>>] = u[a] * v[k]
    BY <2>1 DEF IsProduct
  <2>5. v[i] \in Int /\ v[b] \in Int /\ v[k] \in Int /\ u[a] \in Int
    BY <2>1
  <2>6. u[a] * (v[i] + 2 * v[b] + v[k]) = u[a] * v[i] + 2 * (u[a] * v[b]) + u[a] * v[k]
    BY <1>2, <2>5
  <2> QED
    BY <2>2, <2>3, <2>4, <2>6
<1> QED
  BY <1>3, <1>4 DEF IsProduct

LEMMA BandsAreProducts ==
  ASSUME NEW a \in Int, NEW c \in Int, NEW b \in Int, NEW d \in Int
  PROVE  /\ 4 * (c * b) - c * d = c * (4 * b - d)
         /\ 4 * (a * d) - c * d = (4 * a - c) * d
         /\ 16 * (a * b) - 4 * (c * b) - 4 * (a * d) + c * d = (4 * a - c) * (4 * b - d)
<1>1. \A j, k, m \in Int : j * (4 * k - m) = 4 * (j * k) - j * m
  OBVIOUS
<1>2. \A j, k, m \in Int : (4 * j - k) * m = 4 * (j * m) - k * m
  OBVIOUS
<1>3. 4 * a - c \in Int /\ 4 * b - d \in Int
  OBVIOUS
<1>4. /\ c * (4 * b - d) = 4 * (c * b) - c * d
      /\ (4 * a - c) * d = 4 * (a * d) - c * d
  BY <1>1, <1>2
<1>5. (4 * a - c) * (4 * b - d) = 4 * ((4 * a - c) * b) - (4 * a - c) * d
  BY <1>1, <1>3
<1>6. (4 * a - c) * b = 4 * (a * b) - c * b
  BY <1>2
<1>7. a * b \in Int /\ c * b \in Int /\ a * d \in Int /\ c * d \in Int
  OBVIOUS
<1> QED
  BY <1>4, <1>5, <1>6, <1>7

Scale == [l \in 0 .. 6 |-> 16 ^ l]
LEMMA Scales16 ==
  /\ Scale[0] = 1 /\ (\A l \in 0 .. 5 : Scale[l + 1] = 16 * Scale[l])
  /\ \A l \in 0 .. 6 : Scale[l] \in Nat /\ Scale[l] = 16 ^ l
<1>1. /\ 16 ^ 0 = 1 /\ 16 ^ 1 = 16 /\ 16 ^ 2 = 256 /\ 16 ^ 3 = 4096 /\ 16 ^ 4 = 65536
      /\ 16 ^ 5 = 1048576 /\ 16 ^ 6 = 16777216
  OBVIOUS
<1>2. /\ Scale[0] = 1 /\ Scale[1] = 16 /\ Scale[2] = 256 /\ Scale[3] = 4096 /\ Scale[4] = 65536
      /\ Scale[5] = 1048576 /\ Scale[6] = 16777216
  BY <1>1 DEF Scale
<1>3. (\A l \in 0 .. 5 : l \in {0, 1, 2, 3, 4, 5}) /\ (\A l \in 0 .. 6 : l \in {0, 1, 2, 3, 4, 5, 6})
  OBVIOUS
<1>4. \A l \in 0 .. 5 : Scale[l + 1] = 16 * Scale[l]
  BY <1>2, <1>3
<1>5. \A l \in 0 .. 6 : Scale[l] \in Nat
  BY <1>2, <1>3
<1>6. \A l \in 0 .. 6 : Scale[l] = 16 ^ l
  BY DEF Scale
<1> QED
  BY <1>2, <1>4, <1>5, <1>6

(***************************************************************************)
(* After l levels of the transform: the approximation is the product of    *)
(* the low-passes along both axes, and what the bands have taken away so   *)
(* far adds up with it to the spot.                                        *)
(***************************************************************************)
Along(l) == LowPass(Width, Spot[1])[l]
Across(l) == LowPass(Height, Spot[2])[l]
Detail(l, a) == 4 * Along(l - 1)[a] - Along(l)[a]
DetailAcross(l, b) == 4 * Across(l - 1)[b] - Across(l)[b]
TransformedTo(l) ==
  /\ IsProduct(current, Along(l), Across(l))
  /\ l > 0 => \A a \in 0 .. Width - 1, b \in 0 .. Height - 1 :
       /\ rebuilt[<<a, b>>] \in Int
       /\ current[<<a, b>>] + rebuilt[<<a, b>>] = IF <<a, b>> = Spot THEN Scale[l] ELSE 0
       /\ bands.lh[<<a, b>>] = Along(l)[a] * DetailAcross(l, b)
       /\ bands.hl[<<a, b>>] = Detail(l, a) * Across(l)[b]
       /\ bands.hh[<<a, b>>] = Detail(l, a) * DetailAcross(l, b)
TransformInv ==
  /\ depth \in 0 .. Levels
  /\ depth > 0 => Tracked
  /\ depth > 0 \/ (phase = "wtmm" /\ Tracked) => TransformedTo(depth)

LEMMA Axes ==
  ASSUME call \in CallType, Tracked
  PROVE  /\ Width \in Nat \ {0} /\ Height \in Nat \ {0} /\ Spot[1] \in Int /\ Spot[2] \in Int
         /\ Spot = <<Spot[1], Spot[2]>>
         /\ \A l \in 0 .. 6 : /\ Along(l) \in [0 .. Width - 1 -> Int]
                              /\ Across(l) \in [0 .. Height - 1 -> Int]
                              /\ l > 0 => Along(l) = Spread(Along(l - 1), Width, Gap(l))
                              /\ l > 0 => Across(l) = Spread(Across(l - 1), Height, Gap(l))
         /\ \A a \in 0 .. Width - 1 : Along(0)[a] = IF a = Spot[1] THEN 1 ELSE 0
         /\ \A b \in 0 .. Height - 1 : Across(0)[b] = IF b = Spot[2] THEN 1 ELSE 0
         /\ \A l \in 0 .. 6, a \in 0 .. Width - 1 :
              a - Spot[1] \notin -(Power[l] - 1) .. Power[l] - 1 => Along(l)[a] = 0
         /\ \A l \in 0 .. 6, b \in 0 .. Height - 1 :
              b - Spot[2] \notin -(Power[l] - 1) .. Power[l] - 1 => Across(l)[b] = 0
<1>1. Width \in Nat \ {0} /\ Height \in Nat \ {0}
  <2>1. Width \in 0 .. 160 /\ Height \in 0 .. 160
    BY Sides, Zenon
  <2>2. Width >= 4 /\ Height >= 4
    BY DEF Tracked
  <2> QED
    BY <2>1, <2>2
<1>2. call.spot % Width \in Int /\ call.spot \div Width \in Int
  <2>1. call.spot \in Nat
    BY DEF CallType
  <2> QED
    BY <1>1, <2>1
<1>3. Spot[1] = call.spot % Width /\ Spot[2] = call.spot \div Width /\ Spot = <<Spot[1], Spot[2]>>
  BY DEF Spot
<1>4. Spot[1] \in Int /\ Spot[2] \in Int
  BY <1>2, <1>3
<1>5. ASSUME NEW extent \in Nat \ {0}, NEW s \in Int
      PROVE  /\ \A l \in 0 .. 6 :
                  /\ LowPass(extent, s)[l] \in [0 .. extent - 1 -> Int]
                  /\ l > 0 => LowPass(extent, s)[l] = Spread(LowPass(extent, s)[l - 1], extent, Gap(l))
             /\ \A c \in 0 .. extent - 1 : LowPass(extent, s)[0][c] = IF c = s THEN 1 ELSE 0
             /\ \A l \in 0 .. 6, c \in 0 .. extent - 1 :
                  c - s \notin -(Power[l] - 1) .. Power[l] - 1 => LowPass(extent, s)[l][c] = 0
  <2>1. \A l \in 0 .. 6 :
          /\ LowPass(extent, s)[l] \in [0 .. extent - 1 -> Int]
          /\ l > 0 => LowPass(extent, s)[l] = Spread(LowPass(extent, s)[l - 1], extent, Gap(l))
          /\ \A c \in 0 .. extent - 1 :
               /\ l = 0 => LowPass(extent, s)[l][c] = IF c = s THEN 1 ELSE 0
               /\ c - s \notin -(Power[l] - 1) .. Power[l] - 1 => LowPass(extent, s)[l][c] = 0
    BY SpreadsFromSpot
  <2>2. PICK k \in 0 .. 6 : k = 0
    OBVIOUS
  <2>3. \A c \in 0 .. extent - 1 : LowPass(extent, s)[k][c] = IF c = s THEN 1 ELSE 0
    BY <2>1, <2>2, Zenon
  <2>4. \A l \in 0 .. 6 :
          /\ LowPass(extent, s)[l] \in [0 .. extent - 1 -> Int]
          /\ l > 0 => LowPass(extent, s)[l] = Spread(LowPass(extent, s)[l - 1], extent, Gap(l))
    BY <2>1, Zenon
  <2>5. \A l \in 0 .. 6, c \in 0 .. extent - 1 :
          c - s \notin -(Power[l] - 1) .. Power[l] - 1 => LowPass(extent, s)[l][c] = 0
    BY <2>1, Zenon
  <2> QED
    BY <2>2, <2>3, <2>4, <2>5, Zenon
<1>6. PICK i \in Int, j \in Int : i = Spot[1] /\ j = Spot[2]
  BY <1>4
<1>7. /\ \A l \in 0 .. 6 :
           /\ LowPass(Width, i)[l] \in [0 .. Width - 1 -> Int]
           /\ l > 0 => LowPass(Width, i)[l] = Spread(LowPass(Width, i)[l - 1], Width, Gap(l))
      /\ \A c \in 0 .. Width - 1 : LowPass(Width, i)[0][c] = IF c = i THEN 1 ELSE 0
      /\ \A l \in 0 .. 6, c \in 0 .. Width - 1 :
           c - i \notin -(Power[l] - 1) .. Power[l] - 1 => LowPass(Width, i)[l][c] = 0
  BY <1>1, <1>5, Zenon
<1>8. /\ \A l \in 0 .. 6 :
           /\ LowPass(Height, j)[l] \in [0 .. Height - 1 -> Int]
           /\ l > 0 => LowPass(Height, j)[l] = Spread(LowPass(Height, j)[l - 1], Height, Gap(l))
      /\ \A c \in 0 .. Height - 1 : LowPass(Height, j)[0][c] = IF c = j THEN 1 ELSE 0
      /\ \A l \in 0 .. 6, c \in 0 .. Height - 1 :
           c - j \notin -(Power[l] - 1) .. Power[l] - 1 => LowPass(Height, j)[l][c] = 0
  BY <1>1, <1>5, Zenon
<1>9. \A l :
        /\ Along(l) = LowPass(Width, i)[l] /\ Across(l) = LowPass(Height, j)[l]
        /\ Along(l - 1) = LowPass(Width, i)[l - 1] /\ Across(l - 1) = LowPass(Height, j)[l - 1]
  BY <1>6 DEF Along, Across
<1>10. \A l \in 0 .. 6 :
         /\ Along(l) \in [0 .. Width - 1 -> Int]
         /\ Across(l) \in [0 .. Height - 1 -> Int]
         /\ l > 0 => Along(l) = Spread(Along(l - 1), Width, Gap(l))
         /\ l > 0 => Across(l) = Spread(Across(l - 1), Height, Gap(l))
  BY <1>7, <1>8, <1>9, Zenon
<1>0. /\ \A a \in 0 .. Width - 1 : Along(0)[a] = IF a = Spot[1] THEN 1 ELSE 0
      /\ \A b \in 0 .. Height - 1 : Across(0)[b] = IF b = Spot[2] THEN 1 ELSE 0
  BY <1>6, <1>7, <1>8, <1>9, Zenon
<1>11. \A l \in 0 .. 6, a \in 0 .. Width - 1 :
         a - Spot[1] \notin -(Power[l] - 1) .. Power[l] - 1 => Along(l)[a] = 0
  BY <1>6, <1>7, <1>9, Zenon
<1>12. \A l \in 0 .. 6, b \in 0 .. Height - 1 :
         b - Spot[2] \notin -(Power[l] - 1) .. Power[l] - 1 => Across(l)[b] = 0
  BY <1>6, <1>8, <1>9, Zenon
<1> QED
  BY <1>1, <1>3, <1>4, <1>10, <1>0, <1>11, <1>12

LEMMA TransformStays ==
  ASSUME call' = call
  PROVE  /\ Levels' = Levels /\ (Tracked' <=> Tracked)
         /\ \A l : Along(l)' = Along(l) /\ Across(l)' = Across(l)
<1>1. Ladder' = Ladder
  BY DEF Ladder, AdaptiveLadder
<1>2. Levels' = Levels
  BY <1>1 DEF Levels
<1>3. Width' = Width /\ Height' = Height
  BY SidesStay
<1>4. Tracked' <=> Tracked
  BY <1>3 DEF Tracked, Pixel
<1>5. Spot' = Spot
  BY <1>3 DEF Spot
<1>6. \A extent, s : LowPass(extent, s)' = LowPass(extent, s)
  BY DEF LowPass, Clamped, Gap
<1> QED
  BY <1>2, <1>3, <1>4, <1>5, <1>6 DEF Along, Across

LEMMA DecomposeStep ==
  ASSUME call \in CallType, TransformInv, phase = "wtmm", DecomposeLevel, UNCHANGED call
  PROVE  TransformInv'
<1>1. Tracked /\ depth \in 0 .. Levels /\ depth # Levels /\ TransformedTo(depth)
  BY DEF DecomposeLevel, TransformDone, TransformInv
<1>2. PICK l \in 0 .. 5 : l = depth /\ l + 1 \in 0 .. Levels
  BY <1>1, LadderRises
<1>3. /\ Width \in Nat \ {0} /\ Height \in Nat \ {0} /\ Spot[1] \in Int /\ Spot[2] \in Int
      /\ \A k \in 0 .. 6 : /\ Along(k) \in [0 .. Width - 1 -> Int]
                           /\ Across(k) \in [0 .. Height - 1 -> Int]
                           /\ k > 0 => Along(k) = Spread(Along(k - 1), Width, Gap(k))
                           /\ k > 0 => Across(k) = Spread(Across(k - 1), Height, Gap(k))
  BY <1>1, Axes
<1>4. PICK g \in Nat : g = Gap(l + 1)
  <2>1. l + 1 \in 1 .. 6
    OBVIOUS
  <2> QED
    BY <2>1, GapIs
<1>5. /\ l \in 0 .. 6 /\ l + 1 \in 0 .. 6 /\ l + 1 > 0 /\ l + 1 - 1 = l
  OBVIOUS
<1>6. PICK u, v, w, z : /\ u = Along(l) /\ v = Across(l) /\ w = Along(l + 1) /\ z = Across(l + 1)
  OBVIOUS
<1>7. /\ u \in [0 .. Width - 1 -> Int] /\ v \in [0 .. Height - 1 -> Int]
      /\ w \in [0 .. Width - 1 -> Int] /\ z \in [0 .. Height - 1 -> Int]
      /\ w = Spread(u, Width, g) /\ z = Spread(v, Height, g)
  <2>1. /\ Along(l) \in [0 .. Width - 1 -> Int] /\ Across(l) \in [0 .. Height - 1 -> Int]
        /\ Along(l + 1) \in [0 .. Width - 1 -> Int] /\ Across(l + 1) \in [0 .. Height - 1 -> Int]
    BY <1>3, <1>5
  <2>2. /\ Along(l + 1) = Spread(Along(l + 1 - 1), Width, Gap(l + 1))
        /\ Across(l + 1) = Spread(Across(l + 1 - 1), Height, Gap(l + 1))
    <3>1. PICK k \in 0 .. 6 : k = l + 1
      OBVIOUS
    <3>2. k > 0
      BY <3>1
    <3>3. Along(k) = Spread(Along(k - 1), Width, Gap(k)) /\ Across(k) = Spread(Across(k - 1), Height, Gap(k))
      BY <1>3, <3>2
    <3> QED
      BY <3>1, <3>3
  <2>3. l + 1 - 1 = l
    OBVIOUS
  <2> QED
    BY <1>4, <1>6, <2>1, <2>2, <2>3
<1>8. PICK lx, ly, ll :
        /\ lx = ConvolveX(current, g) /\ ly = ConvolveY(current, g) /\ ll = ConvolveY(lx, g)
        /\ bands' = Details(current, lx, ly, ll) /\ current' = ll
        /\ rebuilt' = Reconstruct(Details(current, lx, ly, ll))
  BY <1>2, <1>4 DEF DecomposeLevel
<1>9. depth' = l + 1
  BY <1>2 DEF DecomposeLevel
<1>10. IsProduct(current, u, v)
  BY <1>1, <1>2, <1>6 DEF TransformedTo
<1>0. IsProduct(lx, w, v) /\ IsProduct(ly, u, z) /\ IsProduct(ll, w, z)
  <2>1. IsProduct(lx, w, v) /\ IsProduct(ly, u, z)
    BY <1>3, <1>7, <1>8, <1>10, ConvolvesAlongAxis
  <2> QED
    BY <1>3, <1>7, <1>8, <2>1, ConvolvesAlongAxis
<1>12. ASSUME NEW a \in 0 .. Width - 1, NEW b \in 0 .. Height - 1
       PROVE  /\ rebuilt'[<<a, b>>] \in Int
              /\ current'[<<a, b>>] + rebuilt'[<<a, b>>] = IF <<a, b>> = Spot THEN Scale[l + 1] ELSE 0
              /\ bands'.lh[<<a, b>>] = w[a] * (4 * v[b] - z[b])
              /\ bands'.hl[<<a, b>>] = (4 * u[a] - w[a]) * z[b]
              /\ bands'.hh[<<a, b>>] = (4 * u[a] - w[a]) * (4 * v[b] - z[b])
  <2> DEFINE p == <<a, b>>
  <2>1. p \in Pixel
    BY DEF Pixel
  <2>2. /\ current[p] = u[a] * v[b] /\ lx[p] = w[a] * v[b] /\ ly[p] = u[a] * z[b]
        /\ ll[p] = w[a] * z[b]
    BY <1>10, <1>0 DEF IsProduct
  <2>3. u[a] \in Int /\ v[b] \in Int /\ w[a] \in Int /\ z[b] \in Int
    BY <1>7
  <2>4. current[p] \in Int /\ lx[p] \in Int /\ ly[p] \in Int /\ ll[p] \in Int
    <3>1. \A i, j \in Int : i * j \in Int
      OBVIOUS
    <3> QED
      BY <2>2, <2>3, <3>1
  <2>5. /\ bands'.lh[p] = 4 * lx[p] - ll[p]
        /\ bands'.hl[p] = 4 * ly[p] - ll[p]
        /\ bands'.hh[p] = 16 * current[p] - 4 * lx[p] - 4 * ly[p] + ll[p]
        /\ current'[p] = ll[p]
    BY <1>8, <2>1 DEF Details
  <2>6. rebuilt'[p] = bands'.lh[p] + bands'.hl[p] + bands'.hh[p] +
                      (IF l = 0 THEN 0 ELSE 16 * rebuilt[p])
    BY <1>2, <1>8, <2>1 DEF Reconstruct
  <2>7. bands'.lh[p] + bands'.hl[p] + bands'.hh[p] = 16 * current[p] - ll[p]
    <3> HIDE DEF p
    <3> QED
      BY <2>4, <2>5
  <2>8. Scale[l] \in Int /\ Scale[l + 1] = 16 * Scale[l] /\ Scale[0] = 1
    BY <1>5, Scales16
  <2>9. CASE l = 0
    <3>1. u[a] = (IF a = Spot[1] THEN 1 ELSE 0) /\ v[b] = (IF b = Spot[2] THEN 1 ELSE 0)
      BY <1>1, <1>6, <2>9, Axes
    <3>2. current[p] = IF p = Spot THEN 1 ELSE 0
      <4>1. p = Spot <=> a = Spot[1] /\ b = Spot[2]
        <5>1. Spot = <<Spot[1], Spot[2]>>
          BY <1>1, Axes, Zenon
        <5> QED
          BY <5>1
      <4> QED
        BY <2>2, <3>1, <4>1
    <3>3. rebuilt'[p] = 16 * current[p] - ll[p]
      BY <2>4, <2>6, <2>7, <2>9
    <3>4. rebuilt'[p] \in Int /\ current'[p] + rebuilt'[p] = 16 * current[p]
      BY <2>4, <2>5, <3>3
    <3>5. current'[p] + rebuilt'[p] = IF p = Spot THEN Scale[l + 1] ELSE 0
      BY <2>8, <2>9, <3>2, <3>4
    <3> QED
      BY <2>2, <2>3, <2>5, <3>4, <3>5, BandsAreProducts
  <2>10. CASE l # 0
    <3>1. rebuilt[p] \in Int /\ current[p] + rebuilt[p] = IF p = Spot THEN Scale[l] ELSE 0
      BY <1>1, <1>2, <1>5, <2>10 DEF TransformedTo
    <3>2. rebuilt'[p] = 16 * current[p] - ll[p] + 16 * rebuilt[p]
      BY <2>4, <2>6, <2>7, <2>10
    <3>3. rebuilt'[p] \in Int /\ current'[p] + rebuilt'[p] = 16 * (current[p] + rebuilt[p])
      BY <2>4, <2>5, <3>1, <3>2
    <3>4. current'[p] + rebuilt'[p] = IF p = Spot THEN Scale[l + 1] ELSE 0
      BY <2>8, <3>1, <3>3
    <3> QED
      BY <2>2, <2>3, <2>5, <3>3, <3>4, BandsAreProducts
  <2> QED
    BY <2>9, <2>10
<1>13. TransformedTo(l + 1)'
  <2>1. /\ Width' = Width /\ Height' = Height /\ Spot' = Spot
        /\ u = Along(l)' /\ v = Across(l)' /\ w = Along(l + 1)' /\ z = Across(l + 1)'
    BY <1>6, SidesStay, TransformStays DEF Spot
  <2>2. IsProduct(current, w, z)'
    BY <1>8, <1>0, <2>1 DEF IsProduct
  <2>3. l + 1 - 1 = l
    OBVIOUS
  <2>4. \A a, b : /\ Detail(l + 1, a)' = 4 * u[a] - w[a]
                  /\ DetailAcross(l + 1, b)' = 4 * v[b] - z[b]
    BY <2>1, <2>3 DEF Detail, DetailAcross
  <2> QED
    BY <1>12, <2>1, <2>2, <2>4 DEF TransformedTo
<1> QED
  <2>1. TransformedTo(depth)'
    BY <1>9, <1>13, Zenon
  <2>2. Levels' = Levels /\ Tracked'
    BY <1>1, TransformStays
  <2> QED
    BY <1>2, <1>9, <2>1, <2>2 DEF TransformInv

LEMMA TransformSafe ==
  ASSUME call \in CallType, TransformInv
  PROVE  TransformIsExact
<1> SUFFICES ASSUME depth > 0
             PROVE  LET f == LowPass(Width, Spot[1])
                        h == LowPass(Height, Spot[2])
                        low(e, c) == e[depth][c]
                        high(e, c) == 4 * e[depth - 1][c] - e[depth][c]
                        reach == 2 ^ depth - 1
                        near(p) == p[1] - Spot[1] \in -reach .. reach /\ p[2] - Spot[2] \in -reach .. reach
                    IN  \A p \in Pixel :
                          /\ current[p] + rebuilt[p] = IF p = Spot THEN 16 ^ depth ELSE 0
                          /\ current[p] = low(f, p[1]) * low(h, p[2])
                          /\ bands.lh[p] = low(f, p[1]) * high(h, p[2])
                          /\ bands.hl[p] = high(f, p[1]) * low(h, p[2])
                          /\ bands.hh[p] = high(f, p[1]) * high(h, p[2])
                          /\ ~near(p) => bands.lh[p] = 0 /\ bands.hl[p] = 0 /\ bands.hh[p] = 0
  BY DEF TransformIsExact
<1>1. PICK l \in 1 .. 6 : l = depth
  BY LadderRises DEF TransformInv
<1>2. Tracked /\ TransformedTo(l)
  BY <1>1 DEF TransformInv
<1>3. /\ Width \in Nat \ {0} /\ Height \in Nat \ {0} /\ Spot[1] \in Int /\ Spot[2] \in Int
      /\ \A k \in 0 .. 6 : Along(k) \in [0 .. Width - 1 -> Int] /\ Across(k) \in [0 .. Height - 1 -> Int]
  BY <1>2, Axes
<1>4. l - 1 \in 0 .. 6 /\ l \in 0 .. 6 /\ l \in 0 .. 16 /\ l - 1 \in 0 .. 16
  OBVIOUS
<1>5. PICK reach \in Nat, short \in Nat :
        /\ reach = Power[l] - 1 /\ reach = 2 ^ depth - 1 /\ short = Power[l - 1] - 1 /\ short <= reach
  <2>1. Power[l] = 2 ^ l /\ Power[l] \in Nat /\ Power[l] >= 1
        /\ Power[l - 1] \in Nat /\ Power[l - 1] >= 1
    BY <1>4, PowerIs, PowersGrow
  <2>2. Power[l] = Power[l - 1] + Power[l - 1]
    BY GapIs
  <2>3. PICK i \in Nat, j \in Nat : i = Power[l] /\ j = Power[l - 1] /\ i >= 1 /\ j >= 1 /\ i = j + j
    BY <2>1, <2>2
  <2>4. i - 1 \in Nat /\ j - 1 \in Nat /\ j - 1 <= i - 1
    BY <2>3
  <2> QED
    BY <1>1, <2>1, <2>3, <2>4
<1>6. ASSUME NEW a \in 0 .. Width - 1, a - Spot[1] \notin -reach .. reach
      PROVE  Along(l)[a] = 0 /\ Detail(l, a) = 0
  <2>1. a - Spot[1] \notin -short .. short
    <3>1. \A i \in Int : i \notin -reach .. reach => i \notin -short .. short
      BY <1>5
    <3>2. a - Spot[1] \in Int
      <4>1. PICK i \in Int : i = Spot[1]
        BY <1>3
      <4>2. a \in Int
        BY <1>3
      <4> QED
        BY <4>1, <4>2
    <3> QED
      BY <1>6, <3>1, <3>2
  <2>2. Along(l)[a] = 0 /\ Along(l - 1)[a] = 0
    BY <1>2, <1>4, <1>5, <1>6, <2>1, Axes
  <2> QED
    BY <2>2 DEF Detail
<1>7. ASSUME NEW b \in 0 .. Height - 1, b - Spot[2] \notin -reach .. reach
      PROVE  Across(l)[b] = 0 /\ DetailAcross(l, b) = 0
  <2>1. b - Spot[2] \notin -short .. short
    <3>1. \A i \in Int : i \notin -reach .. reach => i \notin -short .. short
      BY <1>5
    <3>2. b - Spot[2] \in Int
      <4>1. PICK i \in Int : i = Spot[2]
        BY <1>3
      <4>2. b \in Int
        BY <1>3
      <4> QED
        BY <4>1, <4>2
    <3> QED
      BY <1>7, <3>1, <3>2
  <2>2. Across(l)[b] = 0 /\ Across(l - 1)[b] = 0
    BY <1>2, <1>4, <1>5, <1>7, <2>1, Axes
  <2> QED
    BY <2>2 DEF DetailAcross
<1>8. ASSUME NEW a \in 0 .. Width - 1, NEW b \in 0 .. Height - 1
      PROVE  /\ current[<<a, b>>] + rebuilt[<<a, b>>] = IF <<a, b>> = Spot THEN 16 ^ depth ELSE 0
             /\ current[<<a, b>>] = Along(l)[a] * Across(l)[b]
             /\ bands.lh[<<a, b>>] = Along(l)[a] * DetailAcross(l, b)
             /\ bands.hl[<<a, b>>] = Detail(l, a) * Across(l)[b]
             /\ bands.hh[<<a, b>>] = Detail(l, a) * DetailAcross(l, b)
             /\ ~(a - Spot[1] \in -reach .. reach /\ b - Spot[2] \in -reach .. reach) =>
                  bands.lh[<<a, b>>] = 0 /\ bands.hl[<<a, b>>] = 0 /\ bands.hh[<<a, b>>] = 0
  <2>1. Scale[l] = 16 ^ depth
    BY <1>1, <1>4, Scales16
  <2>2. /\ current[<<a, b>>] + rebuilt[<<a, b>>] = IF <<a, b>> = Spot THEN 16 ^ depth ELSE 0
        /\ current[<<a, b>>] = Along(l)[a] * Across(l)[b]
        /\ bands.lh[<<a, b>>] = Along(l)[a] * DetailAcross(l, b)
        /\ bands.hl[<<a, b>>] = Detail(l, a) * Across(l)[b]
        /\ bands.hh[<<a, b>>] = Detail(l, a) * DetailAcross(l, b)
    BY <1>2, <1>4, <2>1 DEF TransformedTo, IsProduct
  <2>3. \A i \in Int : 0 * i = 0 /\ i * 0 = 0
    OBVIOUS
  <2>4. /\ Along(l)[a] \in Int /\ Across(l)[b] \in Int
        /\ Detail(l, a) \in Int /\ DetailAcross(l, b) \in Int
    <3>1. /\ Along(l)[a] \in Int /\ Along(l - 1)[a] \in Int
          /\ Across(l)[b] \in Int /\ Across(l - 1)[b] \in Int
      BY <1>3, <1>4
    <3> QED
      BY <3>1 DEF Detail, DetailAcross
  <2>5. CASE a - Spot[1] \notin -reach .. reach
    BY <1>6, <2>2, <2>3, <2>4, <2>5
  <2>6. CASE b - Spot[2] \notin -reach .. reach
    BY <1>7, <2>2, <2>3, <2>4, <2>6
  <2> QED
    BY <2>2, <2>5, <2>6
<1>9. \A p \in Pixel : /\ p[1] \in 0 .. Width - 1 /\ p[2] \in 0 .. Height - 1
                       /\ p = <<p[1], p[2]>>
  BY DEF Pixel
<1>10. /\ \A c : LowPass(Width, Spot[1])[depth][c] = Along(l)[c]
       /\ \A c : LowPass(Height, Spot[2])[depth][c] = Across(l)[c]
       /\ \A c : 4 * LowPass(Width, Spot[1])[depth - 1][c] - LowPass(Width, Spot[1])[depth][c] = Detail(l, c)
       /\ \A c : 4 * LowPass(Height, Spot[2])[depth - 1][c] - LowPass(Height, Spot[2])[depth][c] = DetailAcross(l, c)
  BY <1>1 DEF Along, Across, Detail, DetailAcross
<1> QED
  BY <1>5, <1>8, <1>9, <1>10

LEMMA TransformBegins == Init => TransformInv
<1> SUFFICES ASSUME Init PROVE TransformInv
  OBVIOUS
<1>1. call \in CallType /\ depth = 0 /\ current = Lit
  BY CallAssumption DEF Init, TransformInit
<1>2. Levels \in 0 .. 6
  BY <1>1, LadderRises
<1>3. ASSUME Tracked PROVE IsProduct(current, Along(0), Across(0))
  <2>1. /\ \A a \in 0 .. Width - 1 : Along(0)[a] = IF a = Spot[1] THEN 1 ELSE 0
        /\ \A b \in 0 .. Height - 1 : Across(0)[b] = IF b = Spot[2] THEN 1 ELSE 0
        /\ Spot = <<Spot[1], Spot[2]>>
    BY <1>1, <1>3, Axes
  <2>2. ASSUME NEW a \in 0 .. Width - 1, NEW b \in 0 .. Height - 1
        PROVE  current[<<a, b>>] = Along(0)[a] * Across(0)[b]
    <3>1. <<a, b>> \in Pixel
      BY DEF Pixel
    <3>2. current[<<a, b>>] = IF <<a, b>> = Spot THEN 1 ELSE 0
      BY <1>1, <1>3, <3>1 DEF Lit
    <3>3. <<a, b>> = Spot <=> a = Spot[1] /\ b = Spot[2]
      BY <2>1
    <3>4. Along(0)[a] = (IF a = Spot[1] THEN 1 ELSE 0) /\ Across(0)[b] = (IF b = Spot[2] THEN 1 ELSE 0)
      BY <2>1
    <3> QED
      BY <3>2, <3>3, <3>4
  <2> QED
    BY <2>2 DEF IsProduct
<1>4. Tracked => TransformedTo(0)
  BY <1>3 DEF TransformedTo
<1> QED
  BY <1>1, <1>2, <1>4 DEF TransformInv

LEMMA TransformAlways == Spec => [](call \in CallType /\ TransformInv)
<1>1. Init => call \in CallType /\ TransformInv
  BY CallAssumption, TransformBegins DEF Init
<1>2. call \in CallType /\ TransformInv /\ [Next]_vars => (call \in CallType /\ TransformInv)'
  <2> SUFFICES ASSUME call \in CallType, TransformInv, [Next]_vars
               PROVE  call' \in CallType /\ TransformInv'
    OBVIOUS
  <2>1. /\ UNCHANGED call
        /\ \/ UNCHANGED transformVars \/ (phase = "wtmm" /\ DecomposeLevel)
           \/ TransformReset /\ phase' # "wtmm"
        /\ phase' = "wtmm" => phase = "wtmm"
    BY Components
  <2>2. CASE UNCHANGED transformVars
    <3>1. Levels' = Levels /\ (Tracked' <=> Tracked)
      BY <2>1, TransformStays
    <3>2. /\ current' = current /\ bands' = bands /\ rebuilt' = rebuilt /\ depth' = depth
      BY <2>2 DEF transformVars
    <3>3. ASSUME TransformedTo(depth) PROVE TransformedTo(depth)'
      <4>1. PICK l : l = depth
        OBVIOUS
      <4>2. /\ Width' = Width /\ Height' = Height /\ Spot' = Spot
            /\ \A k : Along(k)' = Along(k) /\ Across(k)' = Across(k)
        BY <2>1, SidesStay, TransformStays DEF Spot
      <4>3. \A a, b : Detail(l, a)' = Detail(l, a) /\ DetailAcross(l, b)' = DetailAcross(l, b)
        BY <4>2 DEF Detail, DetailAcross
      <4>4. TransformedTo(l)
        BY <3>3, <4>1
      <4>5. TransformedTo(l)'
        BY <3>2, <4>2, <4>3, <4>4 DEF TransformedTo, IsProduct
      <4> QED
        BY <3>2, <4>1, <4>5
    <3> QED
      BY <2>1, <3>1, <3>2, <3>3 DEF TransformInv
  <2>3. CASE phase = "wtmm" /\ DecomposeLevel
    BY <2>1, <2>3, DecomposeStep
  <2>4. CASE TransformReset /\ phase' # "wtmm"
    <3>1. Levels' \in 0 .. 6
      <4>1. Levels \in 0 .. 6
        BY LadderRises
      <4> QED
        BY <2>1, <4>1, TransformStays
    <3>2. depth' = 0 /\ phase' # "wtmm"
      BY <2>4 DEF TransformReset
    <3>3. 0 \in (0 .. Levels)' /\ ~(depth' > 0)
      BY <3>1, <3>2
    <3> QED
      BY <2>1, <3>2, <3>3 DEF TransformInv
  <2> QED
    BY <2>1, <2>2, <2>3, <2>4
<1> QED
  BY <1>1, <1>2, PTL DEF Spec

(* After every level of the transform what the details have taken and what *)
(* is left are together the picture, each band is the product its name     *)
(* says, and no detail is further from the spot than its taps reach        *)
(* (`swt2_decompose`).                                                     *)
THEOREM TransformReconstructs == Spec => []TransformIsExact
<1>1. call \in CallType /\ TransformInv => TransformIsExact
  BY TransformSafe
<1> QED
  BY <1>1, TransformAlways, PTL

-----------------------------------------------------------------------------
(* Sums.  What is carved does not depend on the order in which the weights *)
(* stand: their sums are the same in every order.                          *)
AddsUp(f, ws, n) ==
  /\ f \in [0 .. n -> Nat] /\ f[0] = 0
  /\ \A k \in 1 .. n : f[k] = f[k - 1] + ws[k]

LEMMA SumsExist ==
  ASSUME NEW n \in Nat, NEW ws \in [1 .. n -> Nat]
  PROVE  \E f : AddsUp(f, ws, n)
<1> DEFINE Has(m) == \E f : AddsUp(f, ws, m)
           Bad == {m \in Nat : m <= n /\ ~Has(m)}
<1>1. Has(0)
  <2>1. AddsUp([k \in 0 .. 0 |-> 0], ws, 0)
    BY DEF AddsUp
  <2> QED
    BY <2>1
<1>2. ASSUME NEW m \in Nat, m < n, Has(m) PROVE Has(m + 1)
  <2>1. PICK f : AddsUp(f, ws, m)
    BY <1>2
  <2>2. f \in [0 .. m -> Nat] /\ f[0] = 0 /\ \A k \in 1 .. m : f[k] = f[k - 1] + ws[k]
    BY <2>1 DEF AddsUp
  <2>3. PICK g : g = [k \in 0 .. m + 1 |-> IF k <= m THEN f[k] ELSE f[m] + ws[m + 1]]
    OBVIOUS
  <2>4. ws[m + 1] \in Nat /\ f[m] \in Nat
    BY <1>2, <2>2
  <2>5. g \in [0 .. m + 1 -> Nat] /\ g[m + 1] = f[m] + ws[m + 1] /\ \A k \in 0 .. m : g[k] = f[k]
    BY <2>2, <2>3, <2>4
  <2>6. \A k \in 1 .. m + 1 : g[k] = g[k - 1] + ws[k]
    <3> TAKE k \in 1 .. m + 1
    <3>1. CASE k = m + 1
      <4>1. g[k - 1] = f[m]
        BY <2>5, <3>1
      <4> QED
        BY <2>5, <3>1, <4>1
    <3>2. CASE k \in 1 .. m
      <4>1. g[k - 1] = f[k - 1] /\ g[k] = f[k]
        BY <2>5, <3>2
      <4> QED
        BY <2>2, <3>2, <4>1
    <3> QED
      BY <3>1, <3>2
  <2>7. AddsUp(g, ws, m + 1)
    BY <2>2, <2>5, <2>6 DEF AddsUp
  <2> QED
    BY <2>7
<1> HIDE DEF Has
<1>3. Bad = {}
  <2> SUFFICES ASSUME Bad # {} PROVE FALSE
    OBVIOUS
  <2>1. PICK m \in Bad : \A k \in Bad : m <= k
    BY LeastOf
  <2>2. m \in Nat /\ m <= n /\ ~Has(m) /\ m # 0
    BY <1>1, <2>1
  <2>3. m - 1 \in Nat /\ m - 1 < n /\ m - 1 \notin Bad /\ (m - 1) + 1 = m
    BY <2>1, <2>2
  <2>4. Has(m - 1)
    BY <2>3
  <2>5. Has((m - 1) + 1)
    BY <1>2, <2>3, <2>4
  <2> QED
    BY <2>2, <2>3, <2>5
<1> QED
  BY <1>3 DEF Has

(* Cumulative adds up. *)
LEMMA CumulativeAddsUp ==
  ASSUME NEW ws \in Seq(Nat)
  PROVE  AddsUp(Cumulative(ws), ws, Len(ws))
<1>1. PICK n \in Nat : n = Len(ws)
  OBVIOUS
<1>2. ws \in [1 .. n -> Nat]
  BY <1>1, LenProperties
<1> DEFINE Sum(f) == [k \in 0 .. n |-> IF k = 0 THEN 0 ELSE f[k - 1] + ws[k]]
<1>3. Cumulative(ws) = CHOOSE f : f = Sum(f)
  BY <1>1 DEF Cumulative
<1>4. PICK g : AddsUp(g, ws, n)
  BY <1>2, SumsExist
<1>5. g = Sum(g)
  <2>1. g = [k \in 0 .. n |-> g[k]]
    BY <1>4 DEF AddsUp
  <2>2. \A k \in 0 .. n : g[k] = IF k = 0 THEN 0 ELSE g[k - 1] + ws[k]
    BY <1>4 DEF AddsUp
  <2> QED
    BY <2>1, <2>2
<1>6. PICK f : f = Cumulative(ws) /\ f = Sum(f)
  <2> HIDE DEF Sum
  <2> QED
    BY <1>3, <1>5
<1>7. DOMAIN f = 0 .. n /\ \A k \in 0 .. n : f[k] = IF k = 0 THEN 0 ELSE f[k - 1] + ws[k]
  <2>1. DOMAIN Sum(f) = 0 .. n /\ \A k \in 0 .. n : Sum(f)[k] = IF k = 0 THEN 0 ELSE f[k - 1] + ws[k]
    OBVIOUS
  <2> HIDE DEF Sum
  <2> QED
    BY <1>6, <2>1
<1>8. \A k \in 0 .. n : f[k] \in Nat
  <2> DEFINE Bad == {k \in 0 .. n : f[k] \notin Nat}
  <2> SUFFICES ASSUME Bad # {} PROVE FALSE
    OBVIOUS
  <2>0. Bad \subseteq Nat
    OBVIOUS
  <2>1. PICK m \in Bad : \A k \in Bad : m <= k
    BY <2>0, LeastOf
  <2>2. m # 0
    BY <1>7, <2>1
  <2>3. m - 1 \in 0 .. n /\ m - 1 \notin Bad /\ m \in 1 .. n
    BY <2>1, <2>2
  <2>4. f[m - 1] \in Nat /\ ws[m] \in Nat
    BY <1>2, <2>3
  <2> QED
    BY <1>7, <2>1, <2>2, <2>4
<1>9. f = [k \in 0 .. n |-> f[k]]
  <2> HIDE DEF Sum
  <2>1. f = [k \in 0 .. n |-> IF k = 0 THEN 0 ELSE f[k - 1] + ws[k]]
    BY <1>6 DEF Sum
  <2> QED
    BY <1>7, <2>1
<1>10. f \in [0 .. n -> Nat]
  BY <1>8, <1>9
<1>11. f[0] = 0 /\ \A k \in 1 .. n : f[k] = f[k - 1] + ws[k]
  BY <1>7
<1> QED
  BY <1>1, <1>6, <1>10, <1>11 DEF AddsUp

(* One summand is changed. *)
DifferAt(m, v, w, n) ==
  /\ v \in [1 .. n -> Nat] /\ w \in [1 .. n -> Nat] /\ m \in 1 .. n
  /\ \A k \in 1 .. n : k # m => v[k] = w[k]

LEMMA OneChanges ==
  ASSUME NEW n \in Nat, NEW m, NEW v, NEW w, DifferAt(m, v, w, n),
         NEW f, NEW g, AddsUp(f, v, n), AddsUp(g, w, n)
  PROVE  f[n] + w[m] = g[n] + v[m]
<1>0. /\ v \in [1 .. n -> Nat] /\ w \in [1 .. n -> Nat] /\ m \in 1 .. n
      /\ \A k \in 1 .. n : k # m => v[k] = w[k]
  BY DEF DifferAt
<1> DEFINE Good(k) == f[k] + (IF k < m THEN 0 ELSE w[m]) = g[k] + (IF k < m THEN 0 ELSE v[m])
           Bad == {k \in 0 .. n : ~Good(k)}
<1>1. /\ f \in [0 .. n -> Nat] /\ f[0] = 0 /\ \A k \in 1 .. n : f[k] = f[k - 1] + v[k]
      /\ g \in [0 .. n -> Nat] /\ g[0] = 0 /\ \A k \in 1 .. n : g[k] = g[k - 1] + w[k]
  BY DEF AddsUp
<1>2. Good(0)
  BY <1>0, <1>1
<1>3. ASSUME NEW k \in 1 .. n, Good(k - 1) PROVE Good(k)
  <2>0. k - 1 \in 0 .. n
    OBVIOUS
  <2>1. /\ f[k] = f[k - 1] + v[k] /\ g[k] = g[k - 1] + w[k]
        /\ f[k - 1] \in Nat /\ g[k - 1] \in Nat
    BY <1>1, <2>0
  <2>5. v[k] \in Nat /\ w[k] \in Nat /\ v[m] \in Nat /\ w[m] \in Nat
    BY <1>0
  <2>6. k # m => v[k] = w[k]
    BY <1>0
  <2>7. m \in Nat
    BY <1>0
  <2>2. CASE k = m
    BY <1>3, <2>1, <2>5, <2>2
  <2>3. CASE k < m
    BY <1>3, <2>1, <2>5, <2>6, <2>7, <2>3
  <2>4. CASE k > m
    <3>1. ~(k < m) /\ ~(k - 1 < m)
      BY <2>4, <2>7
    <3>2. f[k - 1] + w[m] = g[k - 1] + v[m]
      BY <1>3, <3>1
    <3>3. v[k] = w[k]
      BY <2>4, <2>6, <2>7
    <3>4. PICK a, b, c, d, e \in Nat :
            a = f[k - 1] /\ b = g[k - 1] /\ c = v[k] /\ d = w[m] /\ e = v[m]
      BY <2>1, <2>5
    <3>5. f[k] = a + c /\ g[k] = b + c /\ a + d = b + e
      BY <2>1, <3>2, <3>3, <3>4
    <3>6. f[k] + d = g[k] + e
      BY <3>5
    <3>7. f[k] + w[m] = g[k] + v[m]
      BY <3>4, <3>6
    <3> QED
      BY <3>1, <3>7
  <2> QED
    BY <2>7, <2>2, <2>3, <2>4
<1> HIDE DEF Good
<1>4. Bad = {}
  <2> SUFFICES ASSUME Bad # {} PROVE FALSE
    OBVIOUS
  <2>0. Bad \subseteq Nat
    OBVIOUS
  <2>1. PICK k \in Bad : \A l \in Bad : k <= l
    BY <2>0, LeastOf
  <2>2. k \in 1 .. n /\ k - 1 \in 0 .. n /\ k - 1 \notin Bad
    BY <1>2, <2>1
  <2> QED
    BY <1>3, <2>1, <2>2
<1>5. Good(n) /\ ~(n < m)
  BY <1>0, <1>4
<1> QED
  BY <1>5 DEF Good

(* Every number from 1 to n, once. *)
Permutes(p, n) ==
  /\ p \in [1 .. n -> 1 .. n]
  /\ \A k, l \in 1 .. n : p[k] = p[l] => k = l
  /\ \A l \in 1 .. n : \E k \in 1 .. n : p[k] = l

SameInEveryOrder(n) ==
  \A w \in [1 .. n -> Nat] : \A p, f, g :
    Permutes(p, n) /\ AddsUp(f, w, n) /\ AddsUp(g, [k \in 1 .. n |-> w[p[k]]], n) => f[n] = g[n]

LEMMA OneMoreInEveryOrder ==
  ASSUME NEW n \in Nat, SameInEveryOrder(n)
  PROVE  SameInEveryOrder(n + 1)
<1> SUFFICES ASSUME NEW w \in [1 .. n + 1 -> Nat], NEW p, NEW f, NEW g,
                    Permutes(p, n + 1), AddsUp(f, w, n + 1),
                    AddsUp(g, [k \in 1 .. n + 1 |-> w[p[k]]], n + 1)
             PROVE  f[n + 1] = g[n + 1]
  BY DEF SameInEveryOrder
<1>1. PICK v : v = [k \in 1 .. n + 1 |-> w[p[k]]]
  OBVIOUS
<1>2. /\ p \in [1 .. n + 1 -> 1 .. n + 1]
      /\ \A k, l \in 1 .. n + 1 : p[k] = p[l] => k = l
      /\ \A l \in 1 .. n + 1 : \E k \in 1 .. n + 1 : p[k] = l
  BY DEF Permutes
<1>3. v \in [1 .. n + 1 -> Nat] /\ \A k \in 1 .. n + 1 : v[k] = w[p[k]]
  BY <1>1, <1>2
<1>4. PICK m \in 1 .. n + 1 : p[m] = n + 1
  BY <1>2
<1>5. PICK q : q = [k \in 1 .. n |-> IF k = m THEN p[n + 1] ELSE p[k]]
  OBVIOUS
<1>6. \A k \in 1 .. n : q[k] \in 1 .. n /\ q[k] = IF k = m THEN p[n + 1] ELSE p[k]
  <2> TAKE k \in 1 .. n
  <2>1. k \in 1 .. n + 1 /\ n + 1 \in 1 .. n + 1 /\ k # n + 1
    OBVIOUS
  <2>2. CASE k = m
    <3>1. p[n + 1] # n + 1 /\ p[n + 1] \in 1 .. n + 1
      BY <1>2, <1>4, <2>1, <2>2
    <3> QED
      BY <1>5, <2>2, <3>1
  <2>3. CASE k # m
    <3>1. p[k] # n + 1 /\ p[k] \in 1 .. n + 1
      BY <1>2, <1>4, <2>1, <2>3
    <3> QED
      BY <1>5, <2>3, <3>1
  <2> QED
    BY <2>2, <2>3
<1>7. Permutes(q, n)
  <2>1. q \in [1 .. n -> 1 .. n]
    <3>1. q = [k \in 1 .. n |-> q[k]]
      BY <1>5
    <3> QED
      BY <1>6, <3>1
  <2>2. ASSUME NEW k \in 1 .. n, NEW l \in 1 .. n, q[k] = q[l] PROVE k = l
    <3>1. k \in 1 .. n + 1 /\ l \in 1 .. n + 1 /\ n + 1 \in 1 .. n + 1 /\ k # n + 1 /\ l # n + 1
      OBVIOUS
    <3> QED
      BY <1>2, <1>6, <2>2, <3>1
  <2>3. ASSUME NEW l \in 1 .. n PROVE \E k \in 1 .. n : q[k] = l
    <3>1. PICK k \in 1 .. n + 1 : p[k] = l
      BY <1>2
    <3>2. k # m
      BY <1>4, <3>1
    <3>3. CASE k = n + 1
      <4>1. m \in 1 .. n
        BY <3>2, <3>3
      <4> QED
        BY <1>6, <3>1, <3>3, <4>1
    <3>4. CASE k \in 1 .. n
      BY <1>6, <3>1, <3>2, <3>4
    <3> QED
      BY <3>3, <3>4
  <2> QED
    BY <2>1, <2>2, <2>3 DEF Permutes
<1>8. PICK w0, v0, u : w0 = [k \in 1 .. n |-> w[k]] /\ v0 = [k \in 1 .. n |-> v[k]]
                       /\ u = [k \in 1 .. n |-> w0[q[k]]]
  OBVIOUS
<1>9. w0 \in [1 .. n -> Nat] /\ v0 \in [1 .. n -> Nat] /\ u \in [1 .. n -> Nat]
      /\ \A k \in 1 .. n : w0[k] = w[k] /\ v0[k] = v[k] /\ u[k] = w[q[k]]
  BY <1>3, <1>6, <1>8
<1>10. PICK f0, g0 : f0 = [k \in 0 .. n |-> f[k]] /\ g0 = [k \in 0 .. n |-> g[k]]
  OBVIOUS
<1>11. /\ f \in [0 .. n + 1 -> Nat] /\ f[0] = 0 /\ \A k \in 1 .. n + 1 : f[k] = f[k - 1] + w[k]
       /\ g \in [0 .. n + 1 -> Nat] /\ g[0] = 0 /\ \A k \in 1 .. n + 1 : g[k] = g[k - 1] + v[k]
  BY <1>1 DEF AddsUp
<1>12. AddsUp(f0, w0, n) /\ AddsUp(g0, v0, n) /\ f0[n] = f[n] /\ g0[n] = g[n]
  <2>1. \A k \in 0 .. n : f0[k] = f[k] /\ g0[k] = g[k] /\ f[k] \in Nat /\ g[k] \in Nat
    BY <1>10, <1>11
  <2>2. f0 \in [0 .. n -> Nat] /\ g0 \in [0 .. n -> Nat]
    BY <1>10, <2>1
  <2>3. \A k \in 1 .. n : f0[k] = f0[k - 1] + w0[k] /\ g0[k] = g0[k - 1] + v0[k]
    <3> TAKE k \in 1 .. n
    <3>1. k \in 0 .. n /\ k - 1 \in 0 .. n /\ k \in 1 .. n + 1
      OBVIOUS
    <3> QED
      BY <1>9, <1>11, <2>1, <3>1
  <2> QED
    BY <1>11, <2>1, <2>2, <2>3 DEF AddsUp
<1>13. f[n + 1] = f[n] + w[n + 1] /\ g[n + 1] = g[n] + v[n + 1]
  <2>1. n + 1 \in 1 .. n + 1 /\ (n + 1) - 1 = n
    OBVIOUS
  <2> QED
    BY <1>11, <2>1
<1>14. PICK h : AddsUp(h, u, n)
  BY <1>9, SumsExist
<1>17. \A r, a, b : Permutes(r, n) /\ AddsUp(a, w0, n)
                     /\ AddsUp(b, [k \in 1 .. n |-> w0[r[k]]], n) => a[n] = b[n]
  BY <1>9, Zenon DEF SameInEveryOrder
<1>15. f[n] = h[n]
  <2>1. AddsUp(h, [k \in 1 .. n |-> w0[q[k]]], n)
    BY <1>8, <1>14
  <2> QED
    BY <1>7, <1>17, <1>12, <2>1
<1>16. CASE m = n + 1
  <2>1. \A k \in 1 .. n : u[k] = v0[k]
    <3> TAKE k \in 1 .. n
    <3>1. k # m /\ k \in 1 .. n + 1
      BY <1>16
    <3>2. q[k] = p[k]
      BY <1>6, <3>1
    <3> QED
      BY <1>3, <1>9, <3>1, <3>2
  <2>2. u = v0
    BY <1>9, <2>1
  <2>3. AddsUp(g0, [k \in 1 .. n |-> w0[q[k]]], n)
    BY <1>8, <1>12, <2>2
  <2>4. f[n] = g[n]
    BY <1>7, <1>17, <1>12, <2>3
  <2>5. v[n + 1] = w[n + 1]
    BY <1>3, <1>4, <1>16
  <2> QED
    BY <1>13, <2>4, <2>5
<1>18. CASE m \in 1 .. n
  <2>1. \A k \in 1 .. n : k # m => v0[k] = u[k]
    <3> TAKE k \in 1 .. n
    <3> HAVE k # m
    <3>1. k \in 1 .. n + 1
      OBVIOUS
    <3>2. q[k] = p[k]
      BY <1>6
    <3> QED
      BY <1>3, <1>9, <3>1, <3>2
  <2>2. g0[n] + u[m] = h[n] + v0[m]
    <3>1. DifferAt(m, v0, u, n)
      BY <1>9, <1>18, <2>1 DEF DifferAt
    <3>2. AddsUp(g0, v0, n) /\ AddsUp(h, u, n)
      BY <1>12, <1>14
    <3> QED
      BY <3>1, <3>2, OneChanges
  <2>3. u[m] = v[n + 1] /\ v0[m] = w[n + 1]
    <3>1. q[m] = p[n + 1] /\ n + 1 \in 1 .. n + 1
      BY <1>6, <1>18
    <3> QED
      BY <1>3, <1>4, <1>9, <1>18, <3>1
  <2>4. f[n] \in Nat /\ g[n] \in Nat /\ w[n + 1] \in Nat /\ v[n + 1] \in Nat
    BY <1>3, <1>11
  <2> QED
    BY <1>12, <1>13, <1>15, <2>2, <2>3, <2>4
<1> QED
  BY <1>4, <1>16, <1>18

LEMMA SumsInEveryOrder == \A n \in Nat : SameInEveryOrder(n)
<1>1. SameInEveryOrder(0)
  BY DEF SameInEveryOrder, AddsUp
<1> DEFINE Bad == {n \in Nat : ~SameInEveryOrder(n)}
<1> SUFFICES ASSUME Bad # {} PROVE FALSE
  OBVIOUS
<1>2. PICK m \in Bad : \A k \in Bad : m <= k
  BY LeastOf
<1>3. m - 1 \in Nat /\ m - 1 \notin Bad /\ (m - 1) + 1 = m
  BY <1>1, <1>2
<1>4. SameInEveryOrder((m - 1) + 1)
  BY <1>3, OneMoreInEveryOrder
<1> QED
  BY <1>2, <1>3, <1>4

-----------------------------------------------------------------------------
(* The ranking of Strategy::determine: every source has a place of its     *)
(* own, and every place its source.                                        *)
Ahead(w, i) == {j \in Source : Before(w, j, i)}

LEMMA RanksRise ==
  ASSUME NEW w \in [Source -> Nat], NEW i \in Source
  PROVE  /\ Rank(w, i) \in 0 .. 10
         /\ \A j \in Source : Before(w, i, j) => Rank(w, i) < Rank(w, j)
<1>1. IsFiniteSet(Source) /\ Cardinality(Source) = 11
  <2>1. 11 \in Nat /\ 11 - 1 = 10
    OBVIOUS
  <2>2. IsFiniteSet(0 .. 11 - 1) /\ Cardinality(0 .. 11 - 1) = 11
    BY <2>1, Intervals
  <2> QED
    BY <2>1, <2>2 DEF Source
<1>2. \A j \in Source : w[j] \in Nat /\ j \in Nat
  BY DEF Source
<1>3. \A j \in Source : /\ Ahead(w, j) \in SUBSET Source /\ j \notin Ahead(w, j)
  BY <1>2 DEF Ahead, Before
<1>4. \A j \in Source : IsFiniteSet(Ahead(w, j)) /\ Rank(w, j) \in Nat
  BY <1>1, <1>3, FS_Subset, FS_CardinalityType DEF Rank, Ahead
<1>5. Rank(w, i) \in 0 .. 10
  <2>1. Rank(w, i) <= 11 /\ Rank(w, i) # 11
    BY <1>1, <1>3, FS_Subset DEF Rank, Ahead
  <2> QED
    BY <1>4, <2>1
<1>6. ASSUME NEW j \in Source, Before(w, i, j) PROVE Rank(w, i) < Rank(w, j)
  <2>1. \A k \in Source : Before(w, k, i) => Before(w, k, j)
    BY <1>2, <1>6 DEF Before
  <2>2. Ahead(w, i) \in SUBSET Ahead(w, j) /\ i \in Ahead(w, j)
    BY <1>6, <2>1 DEF Ahead
  <2>3. Rank(w, i) <= Rank(w, j) /\ Rank(w, i) # Rank(w, j)
    BY <1>3, <1>4, <2>2, FS_Subset DEF Rank, Ahead
  <2> QED
    BY <1>4, <2>3
<1> QED
  BY <1>5, <1>6

LEMMA RanksAreTaken ==
  ASSUME NEW w \in [Source -> Nat]
  PROVE  /\ \A i, j \in Source : Rank(w, i) = Rank(w, j) => i = j
         /\ \A r \in 0 .. 10 : \E i \in Source : Rank(w, i) = r
<1>1. ASSUME NEW i \in Source, NEW j \in Source, Rank(w, i) = Rank(w, j) PROVE i = j
  <2>1. w[i] \in Nat /\ w[j] \in Nat /\ i \in Nat /\ j \in Nat
    BY DEF Source
  <2>2. i = j \/ Before(w, i, j) \/ Before(w, j, i)
    BY <2>1 DEF Before
  <2>3. Rank(w, i) \in 0 .. 10 /\ Rank(w, j) \in 0 .. 10
    BY RanksRise
  <2>4. Before(w, i, j) => Rank(w, i) < Rank(w, j)
    BY RanksRise
  <2>5. Before(w, j, i) => Rank(w, j) < Rank(w, i)
    BY RanksRise
  <2> QED
    BY <1>1, <2>2, <2>3, <2>4, <2>5
<1>2. PICK f : f = [i \in Source |-> Rank(w, i)]
  OBVIOUS
<1>3. f \in [Source -> 0 .. 10] /\ \A i \in Source : f[i] = Rank(w, i)
  BY <1>2, RanksRise
<1>4. f \in Injection(Source, 0 .. 10)
  BY <1>1, <1>3 DEF Injection, IsInjective
<1>5. IsFiniteSet(0 .. 10) /\ Cardinality(0 .. 10) = 11 /\ Cardinality(Source) = 11
  <2>1. 11 \in Nat /\ 11 - 1 = 10
    OBVIOUS
  <2>2. IsFiniteSet(0 .. 11 - 1) /\ Cardinality(0 .. 11 - 1) = 11
    BY <2>1, Intervals
  <2> QED
    BY <2>1, <2>2 DEF Source
<1>6. f \in Surjection(Source, 0 .. 10)
  BY <1>4, <1>5, FS_Injection
<1>7. \A r \in 0 .. 10 : \E i \in Source : f[i] = r
  BY <1>6 DEF Surjection
<1> QED
  BY <1>1, <1>3, <1>7

LEMMA OfLength ==
  ASSUME NEW S, NEW n \in Nat, NEW s \in [1 .. n -> S]
  PROVE  s \in Seq(S) /\ Len(s) = n
OBVIOUS

(* A strategy whose spans end where the values end. *)
PiecesOf(s) == AtLeast(Len(s.sources), 1)
Sound(s) ==
  /\ PiecesOf(s) \in Nat /\ PiecesOf(s) >= 1
  /\ s.weights \in Seq(Nat) /\ s.total \in Nat \ {0}
  /\ Len(s.weights) >= PiecesOf(s) => Cumulative(s.weights)[PiecesOf(s)] >= s.total

LEMMA OnesAddUp ==
  ASSUME NEW f, AddsUp(f, [k \in 1 .. 11 |-> 1], 11)
  PROVE  f[11] = 11
<1>1. f[0] = 0 /\ \A k \in 1 .. 11 : f[k] = f[k - 1] + 1
  BY DEF AddsUp
<1>2. f[1] = 1 /\ f[2] = 2 /\ f[3] = 3 /\ f[4] = 4
  BY <1>1
<1>3. f[5] = 5 /\ f[6] = 6 /\ f[7] = 7 /\ f[8] = 8
  BY <1>1, <1>2
<1> QED
  BY <1>1, <1>3

LEMMA DeterminedIsSound ==
  ASSUME NEW bits \in [Source -> Nat]
  PROVE  Sound(Determined(bits))
<1> DEFINE total == Total(bits)
           weight == [i \in Source |-> IF total = 0 THEN 1 ELSE bits[i]]
           ranked == [k \in 1 .. 11 |-> CHOOSE i \in Source : Rank(weight, i) = k - 1]
           weights == [k \in 1 .. 11 |-> weight[ranked[k]]]
           whole == IF total = 0 THEN 11 ELSE total
<1>1. Determined(bits) = [name |-> NameFor(bits), sources |-> ranked, weights |-> weights,
                          total |-> whole]
  BY DEF Determined
<1>2. PICK w : w = weight
  OBVIOUS
<1>3. w \in [Source -> Nat] /\ \A i \in Source : w[i] = IF total = 0 THEN 1 ELSE bits[i]
  BY <1>2
<1>4. PICK r : r = ranked
  OBVIOUS
<1>5. /\ r \in [1 .. 11 -> Source]
      /\ \A k \in 1 .. 11 : Rank(w, r[k]) = k - 1
  <2>1. \A k \in 1 .. 11 : k - 1 \in 0 .. 10
    OBVIOUS
  <2>2. \A k \in 1 .. 11 : \E i \in Source : Rank(w, i) = k - 1
    BY <1>3, <2>1, RanksAreTaken
  <2>3. r = [k \in 1 .. 11 |-> CHOOSE i \in Source : Rank(w, i) = k - 1]
    BY <1>2, <1>4
  <2>4. \A k \in 1 .. 11 : r[k] = CHOOSE i \in Source : Rank(w, i) = k - 1
    BY <2>3
  <2>5. \A k \in 1 .. 11 : r[k] \in Source /\ Rank(w, r[k]) = k - 1
    BY <2>2, <2>4
  <2> QED
    BY <2>3, <2>5
<1>6. PICK ws : ws = weights
  OBVIOUS
<1>7. ws = [k \in 1 .. 11 |-> w[r[k]]]
  BY <1>2, <1>4, <1>6
<1>8. PICK c, p : /\ c = [s \in 1 .. 11 |-> w[s - 1]]
                  /\ p = [k \in 1 .. 11 |-> r[k] + 1]
  OBVIOUS
<1> HIDE DEF total, weight, ranked, weights, whole
<1>9. c \in [1 .. 11 -> Nat] /\ \A s \in 1 .. 11 : c[s] = w[s - 1]
  BY <1>3, <1>8 DEF Source
<1>10. /\ \A k \in 1 .. 11 : p[k] = r[k] + 1 /\ p[k] \in 1 .. 11 /\ w[r[k]] = c[p[k]]
       /\ p \in [1 .. 11 -> 1 .. 11]
  <2>1. \A k \in 1 .. 11 : p[k] = r[k] + 1 /\ r[k] \in 0 .. 10
    BY <1>5, <1>8 DEF Source
  <2>2. \A k \in 1 .. 11 : p[k] \in 1 .. 11 /\ p[k] - 1 = r[k]
    BY <2>1
  <2> QED
    BY <1>8, <1>9, <2>1, <2>2
<1>11. Permutes(p, 11)
  <2>1. ASSUME NEW k \in 1 .. 11, NEW l \in 1 .. 11, p[k] = p[l] PROVE k = l
    <3>1. r[k] = r[l]
      BY <1>5, <1>10, <2>1 DEF Source
    <3>2. k - 1 = l - 1
      BY <1>5, <3>1
    <3> QED
      BY <3>2
  <2>2. ASSUME NEW l \in 1 .. 11 PROVE \E k \in 1 .. 11 : p[k] = l
    <3>1. l - 1 \in Source
      BY DEF Source
    <3>2. PICK q \in 0 .. 10 : q = Rank(w, l - 1)
      BY <1>3, <3>1, RanksRise
    <3>3. q + 1 \in 1 .. 11 /\ (q + 1) - 1 = q
      OBVIOUS
    <3>4. Rank(w, r[q + 1]) = Rank(w, l - 1) /\ r[q + 1] \in Source
      BY <1>5, <3>2, <3>3
    <3>5. r[q + 1] = l - 1
      BY <1>3, <3>1, <3>4, RanksAreTaken
    <3> QED
      BY <1>10, <3>3, <3>5
  <2> QED
    BY <1>10, <2>1, <2>2 DEF Permutes
<1>12. ws = [k \in 1 .. 11 |-> c[p[k]]] /\ ws \in [1 .. 11 -> Nat]
  BY <1>3, <1>5, <1>7, <1>10
<1>13. ws \in Seq(Nat) /\ Len(ws) = 11 /\ c \in Seq(Nat) /\ Len(c) = 11
  <2>1. ws \in [1 .. 11 -> Nat]
    BY <1>12
  <2>2. c \in [1 .. 11 -> Nat]
    BY <1>9
  <2>3. ws \in Seq(Nat) /\ Len(ws) = 11
    BY <2>1, OfLength
  <2>4. c \in Seq(Nat) /\ Len(c) = 11
    BY <2>2, OfLength
  <2> QED
    BY <2>3, <2>4
<1>14. Cumulative(c)[11] = Cumulative(ws)[11] /\ Cumulative(c)[11] \in Nat
  <2>1. AddsUp(Cumulative(c), c, 11) /\ AddsUp(Cumulative(ws), ws, 11)
    BY <1>13, CumulativeAddsUp
  <2>2. SameInEveryOrder(11)
    BY SumsInEveryOrder
  <2>3. Cumulative(c)[11] = Cumulative(ws)[11]
    BY <1>9, <1>11, <1>12, <2>1, <2>2 DEF SameInEveryOrder
  <2>4. Cumulative(c)[11] \in Nat
    BY <2>1 DEF AddsUp
  <2> QED
    BY <2>3, <2>4
<1>15. total \in Nat
  <2>1. PICK b : b = [s \in 1 .. 11 |-> bits[Index(s)]]
    OBVIOUS
  <2>2. b \in [1 .. 11 -> Nat]
    BY <2>1 DEF Index, Source
  <2>3. b \in Seq(Nat) /\ Len(b) = 11
    BY <2>2, OfLength
  <2>4. AddsUp(Cumulative(b), b, 11)
    BY <2>3, CumulativeAddsUp
  <2>5. total = Cumulative(b)[11]
    BY <2>1 DEF total, Total
  <2> QED
    BY <2>4, <2>5 DEF AddsUp
<1>16. Cumulative(ws)[11] = whole
  <2>1. CASE total = 0
    <3>1. c = [k \in 1 .. 11 |-> 1]
      <4>1. \A k \in 1 .. 11 : k - 1 \in Source
        BY DEF Source
      <4>2. \A k \in 1 .. 11 : w[k - 1] = 1
        BY <1>3, <2>1, <4>1
      <4> QED
        BY <1>8, <4>2
    <3>2. AddsUp(Cumulative(c), c, 11)
      BY <1>13, CumulativeAddsUp
    <3>3. Cumulative(c)[11] = 11
      BY <3>1, <3>2, OnesAddUp
    <3> QED
      BY <1>14, <2>1, <3>3 DEF whole
  <2>2. CASE total # 0
    <3>1. c = [s \in 1 .. 11 |-> bits[Index(s)]]
      <4>1. \A s \in 1 .. 11 : s - 1 \in Source /\ Index(s) = s - 1
        BY DEF Source, Index
      <4>2. \A s \in 1 .. 11 : w[s - 1] = bits[Index(s)]
        BY <1>3, <2>2, <4>1
      <4> QED
        BY <1>8, <4>2
    <3>2. total = Cumulative(c)[11]
      BY <3>1 DEF total, Total
    <3> QED
      BY <1>14, <2>2, <3>2 DEF whole
  <2> QED
    BY <2>1, <2>2
<1>17. whole \in Nat \ {0}
  BY <1>15 DEF whole
<1>18. r \in Seq(Source) /\ Len(r) = 11
  <2>1. r \in [1 .. 11 -> Source]
    BY <1>5
  <2>2. 11 \in Nat
    OBVIOUS
  <2> QED
    BY <2>1, <2>2, OfLength, Zenon
<1>19. PICK s : s = Determined(bits)
  OBVIOUS
<1>20. s.sources = r /\ s.weights = ws /\ s.total = whole
  BY <1>1, <1>4, <1>6, <1>19
<1>21. PiecesOf(s) = 11
  <2>1. Len(s.sources) = 11
    BY <1>18, <1>20
  <2> QED
    BY <2>1 DEF PiecesOf, AtLeast
<1>22. Sound(s)
  BY <1>13, <1>16, <1>17, <1>20, <1>21 DEF Sound
<1> QED
  BY <1>19, <1>22

-----------------------------------------------------------------------------
(* The cuts of create_byte_sequence: they rise from 0 to the last value.   *)
LEMMA DivisionIs ==
  ASSUME NEW a \in Nat, NEW d \in Nat \ {0}, NEW q \in Nat, NEW r \in 0 .. d - 1, a = q * d + r
  PROVE  a \div d = q
<1>1. PICK p \in Nat, s \in 0 .. d - 1 : p = a \div d /\ a = p * d + s
  OBVIOUS
<1>2. ~(p + 1 <= q)
  <2> SUFFICES ASSUME p + 1 <= q PROVE FALSE
    OBVIOUS
  <2>1. (p + 1) * d <= q * d
    BY TimesGrows
  <2>2. (p + 1) * d = p * d + d
    OBVIOUS
  <2> QED
    BY <1>1, <2>1, <2>2
<1>3. ~(q + 1 <= p)
  <2> SUFFICES ASSUME q + 1 <= p PROVE FALSE
    OBVIOUS
  <2>1. (q + 1) * d <= p * d
    BY TimesGrows
  <2>2. (q + 1) * d = q * d + d
    OBVIOUS
  <2> QED
    BY <1>1, <2>1, <2>2
<1> QED
  BY <1>1, <1>2, <1>3

LEMMA DivisionRises ==
  ASSUME NEW a \in Nat, NEW b \in Nat, NEW d \in Nat \ {0}, a <= b
  PROVE  a \div d \in Nat /\ b \div d \in Nat /\ a \div d <= b \div d
<1>1. PICK p \in Nat, s \in 0 .. d - 1 : p = a \div d /\ a = p * d + s
  OBVIOUS
<1>2. PICK q \in Nat, r \in 0 .. d - 1 : q = b \div d /\ b = q * d + r
  OBVIOUS
<1>3. ~(q + 1 <= p)
  <2> SUFFICES ASSUME q + 1 <= p PROVE FALSE
    OBVIOUS
  <2>1. (q + 1) * d <= p * d
    BY TimesGrows
  <2>2. (q + 1) * d = q * d + d
    OBVIOUS
  <2> QED
    BY <1>1, <1>2, <2>1, <2>2
<1> QED
  BY <1>1, <1>2, <1>3

LEMMA Rounding ==
  ASSUME NEW n \in Nat, NEW t \in Nat \ {0}
  PROVE  /\ (2 * 0 * n + t) \div (2 * t) = 0
         /\ (2 * t * n + t) \div (2 * t) = n
         /\ \A a \in 0 .. t : (2 * a * n + t) \div (2 * t) \in Int
         /\ \A a, b \in 0 .. t :
              a <= b => (2 * a * n + t) \div (2 * t) <= (2 * b * n + t) \div (2 * t)
<1>1. 2 * t \in Nat \ {0} /\ t \in 0 .. 2 * t - 1 /\ 0 \in Nat
  OBVIOUS
<1>2. (2 * 0 * n + t) \div (2 * t) = 0
  <2>1. 2 * 0 * n + t = 0 * (2 * t) + t /\ 2 * 0 * n + t \in Nat
    OBVIOUS
  <2> QED
    BY <1>1, <2>1, DivisionIs
<1>3. (2 * t * n + t) \div (2 * t) = n
  <2>1. 2 * t * n + t = n * (2 * t) + t
    OBVIOUS
  <2>2. t * n \in Nat
    OBVIOUS
  <2>3. 2 * t * n + t \in Nat
    BY <2>2
  <2> QED
    BY <1>1, <2>1, <2>3, DivisionIs
<1>4. ASSUME NEW a \in 0 .. t, NEW b \in 0 .. t, a <= b
      PROVE  (2 * a * n + t) \div (2 * t) <= (2 * b * n + t) \div (2 * t)
  <2>1. a * n \in Nat /\ b * n \in Nat /\ a * n <= b * n
    BY <1>4, TimesGrows
  <2>2. 2 * a * n = 2 * (a * n) /\ 2 * b * n = 2 * (b * n)
    OBVIOUS
  <2>3. 2 * a * n + t \in Nat /\ 2 * b * n + t \in Nat /\ 2 * a * n + t <= 2 * b * n + t
    BY <2>1, <2>2
  <2> QED
    BY <1>1, <2>3, DivisionRises
<1>5. ASSUME NEW a \in 0 .. t PROVE (2 * a * n + t) \div (2 * t) \in Int
  <2>1. a * n \in Nat /\ 2 * a * n = 2 * (a * n)
    OBVIOUS
  <2> QED
    BY <1>1, <2>1
<1> QED
  BY <1>2, <1>3, <1>4, <1>5

LEMMA BoundariesRise ==
  ASSUME Sound(strategy)
  PROVE  /\ NumSpans \in Nat /\ NumSpans >= 1 /\ strategy.total \in Nat \ {0}
         /\ Boundary(0) = 0 /\ Boundary(NumSpans) = strategy.total
         /\ \A k \in 0 .. NumSpans : Boundary(k) \in 0 .. strategy.total
         /\ \A k \in 0 .. NumSpans - 1 : Boundary(k) <= Boundary(k + 1)
<1> DEFINE ws == strategy.weights
           c == Cumulative(ws)
           len == Len(ws)
           t == strategy.total
<1>1. NumSpans \in Nat /\ NumSpans >= 1 /\ t \in Nat \ {0} /\ len \in Nat
  BY DEF Sound, NumSpans, PiecesOf
<1>2. AddsUp(c, ws, len)
  BY CumulativeAddsUp DEF Sound
<1>3. c[0] = 0 /\ \A k \in 0 .. len : c[k] \in Nat
  BY <1>2 DEF AddsUp
<1>4. \A k \in 1 .. len : c[k - 1] <= c[k]
  <2> SUFFICES ASSUME NEW k \in 1 .. len PROVE c[k - 1] <= c[k]
    OBVIOUS
  <2>1. ws[k] \in Nat
    BY ElementOfSeq DEF Sound
  <2>2. c[k] = c[k - 1] + ws[k] /\ k - 1 \in 0 .. len
    BY <1>1, <1>2 DEF AddsUp
  <2>3. c[k - 1] \in Nat
    BY <1>3, <2>2
  <2> QED
    BY <2>1, <2>2, <2>3
<1>5. len >= NumSpans => c[NumSpans] >= t
  BY DEF Sound, NumSpans, PiecesOf
<1>6. \A k : Boundary(k) = IF k <= len THEN AtMost(c[k], t) ELSE t
  BY DEF Boundary
<1> HIDE DEF c, len, t
<1>7. Boundary(0) = 0
  BY <1>1, <1>3, <1>6 DEF AtMost
<1>8. Boundary(NumSpans) = t
  <2>1. CASE len >= NumSpans
    <3>1. c[NumSpans] \in Nat /\ c[NumSpans] >= t
      BY <1>1, <1>3, <1>5, <2>1
    <3> QED
      BY <1>1, <1>6, <2>1, <3>1 DEF AtMost
  <2>2. CASE ~(len >= NumSpans)
    BY <1>1, <1>6, <2>2
  <2> QED
    BY <2>1, <2>2
<1>9. \A k \in 0 .. NumSpans : Boundary(k) \in 0 .. t
  BY <1>1, <1>3, <1>6 DEF AtMost
<1>10. ASSUME NEW k \in 0 .. NumSpans - 1 PROVE Boundary(k) <= Boundary(k + 1)
  <2>1. k \in Nat /\ k + 1 \in Nat /\ (k + 1) - 1 = k /\ k \in 0 .. NumSpans /\ k + 1 \in 0 .. NumSpans
    BY <1>1
  <2>2. CASE k + 1 <= len
    <3>1. c[k] \in Nat /\ c[k + 1] \in Nat /\ c[k] <= c[k + 1]
      BY <1>1, <1>3, <1>4, <2>1, <2>2
    <3> QED
      BY <1>1, <1>6, <2>1, <2>2, <3>1 DEF AtMost
  <2>3. CASE ~(k + 1 <= len)
    BY <1>1, <1>6, <1>9, <2>1, <2>3
  <2> QED
    BY <2>2, <2>3
<1> QED
  BY <1>1, <1>7, <1>8, <1>9, <1>10 DEF t

LEMMA CutsRise ==
  ASSUME Sound(strategy), NEW n \in Nat, Len(normalized) = n
  PROVE  /\ CutAt(0) = 0 /\ CutAt(NumSpans) = n
         /\ \A k \in 0 .. NumSpans : CutAt(k) \in 0 .. n
         /\ \A k \in 0 .. NumSpans - 1 : CutAt(k) <= CutAt(k + 1)
<1> DEFINE t == strategy.total
           Cut(b) == (2 * b * n + t) \div (2 * t)
<1>1. /\ NumSpans \in Nat /\ NumSpans >= 1 /\ t \in Nat \ {0}
      /\ Boundary(0) = 0 /\ Boundary(NumSpans) = t
      /\ \A k \in 0 .. NumSpans : Boundary(k) \in 0 .. t
      /\ \A k \in 0 .. NumSpans - 1 : Boundary(k) <= Boundary(k + 1)
  BY BoundariesRise
<1>2. \A k : CutAt(k) = Cut(Boundary(k))
  BY DEF CutAt
<1>3. Cut(0) = 0 /\ Cut(t) = n
  BY <1>1, Rounding
<1>4. \A a, b \in 0 .. t : a <= b => Cut(a) <= Cut(b)
  BY <1>1, Rounding
<1>5. \A b \in 0 .. t : Cut(b) \in Int /\ Cut(0) <= Cut(b) /\ Cut(b) <= Cut(t)
  <2>1. \A b \in 0 .. t : Cut(b) \in Int
    BY <1>1, Rounding
  <2> QED
    BY <1>1, <1>4, <2>1
<1> HIDE DEF Cut, t
<1>6. ASSUME NEW k \in 0 .. NumSpans - 1 PROVE CutAt(k) <= CutAt(k + 1)
  <2>1. k \in 0 .. NumSpans /\ k + 1 \in 0 .. NumSpans
    BY <1>1
  <2> QED
    BY <1>1, <1>2, <1>4, <2>1
<1> QED
  BY <1>1, <1>2, <1>3, <1>5, <1>6

-----------------------------------------------------------------------------
(* A list has every value of a set, and each once.                         *)
Lists(seq, S) ==
  /\ seq \in Seq(S)
  /\ \A i, j \in 1 .. Len(seq) : seq[i] = seq[j] => i = j
  /\ \A v \in S : \E i \in 1 .. Len(seq) : seq[i] = v

LEMMA EmptyLists == Lists(<<>>, {})
BY EmptySeq DEF Lists

LEMMA OneLists == ASSUME NEW v PROVE Lists(<<v>>, {v})
BY DEF Lists

LEMMA JoinLists ==
  ASSUME NEW s, NEW A, Lists(s, A), NEW t, NEW B, Lists(t, B), A \cap B = {}
  PROVE  Lists(s \o t, A \cup B)
<1>1. s \in Seq(A) /\ t \in Seq(B) /\ Len(s) \in Nat /\ Len(t) \in Nat
  BY LenProperties DEF Lists
<1>2. s \in Seq(A \cup B) /\ t \in Seq(A \cup B)
  BY <1>1, SeqMonotonic
<1>3. PICK m \in Nat, n \in Nat : m = Len(s) /\ n = Len(t)
  BY <1>1
<1> DEFINE st == s \o t
<1>4. /\ st \in Seq(A \cup B) /\ Len(st) = m + n
      /\ \A i \in 1 .. m + n : st[i] = IF i <= m THEN s[i] ELSE t[i - m]
  BY <1>2, <1>3, ConcatProperties
<1> HIDE DEF st
<1>5. (\A i \in 1 .. m : s[i] \in A) /\ (\A i \in 1 .. n : t[i] \in B)
  BY <1>1, <1>3, ElementOfSeq
<1>6. ASSUME NEW i \in 1 .. m + n, NEW j \in 1 .. m + n, st[i] = st[j] PROVE i = j
  <2>1. /\ i <= m => st[i] = s[i] /\ i \in 1 .. m
        /\ ~(i <= m) => st[i] = t[i - m] /\ i - m \in 1 .. n
    BY <1>3, <1>4
  <2>2. /\ j <= m => st[j] = s[j] /\ j \in 1 .. m
        /\ ~(j <= m) => st[j] = t[j - m] /\ j - m \in 1 .. n
    BY <1>3, <1>4
  <2>3. CASE i <= m /\ j <= m
    BY <1>3, <1>6, <2>1, <2>2, <2>3 DEF Lists
  <2>4. CASE ~(i <= m) /\ ~(j <= m)
    <3>1. i - m = j - m
      BY <1>3, <1>6, <2>1, <2>2, <2>4 DEF Lists
    <3> QED
      BY <1>3, <3>1
  <2>5. CASE (i <= m) # (j <= m)
    BY <1>5, <1>6, <2>1, <2>2, <2>5
  <2> QED
    BY <2>3, <2>4, <2>5
<1>7. ASSUME NEW v \in A \cup B PROVE \E i \in 1 .. m + n : st[i] = v
  <2>1. CASE v \in A
    <3>1. PICK i \in 1 .. m : s[i] = v
      BY <1>3, <2>1 DEF Lists
    <3>2. i \in 1 .. m + n /\ i <= m
      BY <1>3
    <3> QED
      BY <1>4, <3>1, <3>2
  <2>2. CASE v \in B
    <3>1. PICK i \in 1 .. n : t[i] = v
      BY <1>3, <2>2 DEF Lists
    <3>2. i + m \in 1 .. m + n /\ ~(i + m <= m) /\ (i + m) - m = i
      BY <1>3
    <3> QED
      BY <1>4, <3>1, <3>2
  <2> QED
    BY <2>1, <2>2
<1> QED
  BY <1>3, <1>4, <1>6, <1>7 DEF Lists, st

LEMMA ValuesLists ==
  ASSUME NEW s, NEW n \in Nat
  PROVE  Lists(Values(s, n), {s} \X (1 .. n))
<1>1. PICK q, S : q = Values(s, n) /\ S = {s} \X (1 .. n)
  OBVIOUS
<1>2. q = [k \in 1 .. n |-> <<s, k>>] /\ \A k \in 1 .. n : <<s, k>> \in S
  BY <1>1 DEF Values
<1>3. q \in [1 .. n -> S]
  BY <1>2
<1>4. q \in Seq(S) /\ Len(q) = n
  BY <1>3, OfLength, Zenon
<1>5. \A v \in S : \E k \in 1 .. n : q[k] = v
  BY <1>1, <1>2
<1>6. \A i, j \in 1 .. n : q[i] = q[j] => i = j
  BY <1>2
<1> QED
  BY <1>1, <1>4, <1>5, <1>6 DEF Lists

LEMMA ListsCount ==
  ASSUME NEW s, NEW S, Lists(s, S)
  PROVE  {s[k] : k \in DOMAIN s} = S /\ IsFiniteSet(S) /\ Cardinality(S) = Len(s)
<1>1. PICK n \in Nat : n = Len(s)
  BY LenProperties DEF Lists
<1>2. s \in [1 .. n -> S] /\ DOMAIN s = 1 .. n
  BY <1>1, LenProperties DEF Lists
<1>3. /\ \A i, j \in 1 .. n : s[i] = s[j] => i = j
      /\ \A v \in S : \E i \in 1 .. n : s[i] = v
  BY <1>1 DEF Lists
<1>4. s \in Bijection(1 .. n, S)
  BY <1>2, <1>3 DEF Bijection, Injection, Surjection, IsInjective
<1>5. IsFiniteSet(1 .. n) /\ Cardinality(1 .. n) = n
  BY Intervals
<1>6. ExistsBijection(1 .. n, S)
  BY <1>4 DEF ExistsBijection
<1>7. IsFiniteSet(S) /\ Cardinality(S) = n
  BY <1>5, <1>6, FS_Bijection
<1> QED
  BY <1>1, <1>2, <1>3, <1>7

(* What follows the round robin. *)
LateValues ==
  ({"direction"} \X (1 .. 8)) \cup ({"orientation"} \X (1 .. call.orientations)) \cup ({"hurst"} \X (1 .. 3))
    \cup ({"gradient"} \X (1 .. 1)) \cup ({"noise"} \X (1 .. 4)) \cup ({"chaos"} \X (1 .. 2))
    \cup ({"quantum_density"} \X (1 .. 2)) \cup ({"lattice"} \X (1 .. 3))
    \cup ({"fractal_aware"} \X (1 .. 4))

LEMMA AfterRoundsLists ==
  ASSUME call \in CallType
  PROVE  Lists(AfterRounds, LateValues)
<1> DEFINE A == {"direction"} \X (1 .. 8)
           B == {"orientation"} \X (1 .. call.orientations)
           C == {"hurst"} \X (1 .. 3)
           D == {"gradient"} \X (1 .. 1)
           E == {"noise"} \X (1 .. 4)
           F == {"chaos"} \X (1 .. 2)
           G == {"quantum_density"} \X (1 .. 2)
           H == {"lattice"} \X (1 .. 3)
           J == {"fractal_aware"} \X (1 .. 4)
<1>0. call.orientations \in Nat
  BY DEF CallType
<1>1. /\ Lists(Values("direction", 8), A) /\ Lists(Values("orientation", call.orientations), B)
      /\ Lists(Values("hurst", 3), C) /\ Lists(Values("gradient", 1), D)
      /\ Lists(Values("noise", 4), E) /\ Lists(Values("chaos", 2), F)
      /\ Lists(Values("quantum_density", 2), G) /\ Lists(Values("lattice", 3), H)
      /\ Lists(Values("fractal_aware", 4), J)
  BY <1>0, ValuesLists
<1>2. /\ A \cap B = {} /\ (A \cup B) \cap C = {} /\ (A \cup B \cup C) \cap D = {}
      /\ (A \cup B \cup C \cup D) \cap E = {} /\ (A \cup B \cup C \cup D \cup E) \cap F = {}
      /\ (A \cup B \cup C \cup D \cup E \cup F) \cap G = {}
      /\ (A \cup B \cup C \cup D \cup E \cup F \cup G) \cap H = {}
      /\ (A \cup B \cup C \cup D \cup E \cup F \cup G \cup H) \cap J = {}
  OBVIOUS
<1>3. LateValues = A \cup B \cup C \cup D \cup E \cup F \cup G \cup H \cup J
  BY DEF LateValues
<1>4. PICK a, b, c, d, e, f, g, h, j :
        /\ a = Values("direction", 8) /\ b = Values("orientation", call.orientations)
        /\ c = Values("hurst", 3) /\ d = Values("gradient", 1) /\ e = Values("noise", 4) /\ f = Values("chaos", 2)
        /\ g = Values("quantum_density", 2) /\ h = Values("lattice", 3)
        /\ j = Values("fractal_aware", 4)
  OBVIOUS
<1>5. AfterRounds = a \o b \o c \o d \o e \o f \o g \o h \o j
  BY <1>4 DEF AfterRounds
<1>6. /\ Lists(a, A) /\ Lists(b, B) /\ Lists(c, C) /\ Lists(d, D) /\ Lists(e, E) /\ Lists(f, F)
      /\ Lists(g, G) /\ Lists(h, H) /\ Lists(j, J)
  BY <1>1, <1>4
<1> HIDE DEF A, B, C, D, E, F, G, H, J
<1>7. Lists(a \o b \o c, A \cup B \cup C)
  BY <1>2, <1>6, JoinLists
<1>8. Lists(a \o b \o c \o d \o e, A \cup B \cup C \cup D \cup E)
  BY <1>2, <1>6, <1>7, JoinLists
<1>9. Lists(a \o b \o c \o d \o e \o f \o g, A \cup B \cup C \cup D \cup E \cup F \cup G)
  BY <1>2, <1>6, <1>8, JoinLists
<1>10. Lists(a \o b \o c \o d \o e \o f \o g \o h \o j,
             A \cup B \cup C \cup D \cup E \cup F \cup G \cup H \cup J)
  BY <1>2, <1>6, <1>9, JoinLists
<1> QED
  BY <1>3, <1>5, <1>10

-----------------------------------------------------------------------------
(* The round robin: row i has the i-th value of every source that has one, *)
(* and there are rows enough for all of them.                              *)
RoundValues == UNION {{s} \X (1 .. NumValues(s)) : s \in Interleaved}
InRow(i) == {v \in RoundValues : v[2] = i}
BeforeRow(i) == {v \in RoundValues : v[2] < i}

LEMMA ValuesAreCounted ==
  ASSUME call \in CallType
  PROVE  \A s \in Interleaved : NumValues(s) \in Nat
<1>1. Ladder.steps \in Nat
  BY LadderRises
<1>2. Cardinality(Scales) \in Nat
  <2>1. Scales \in SUBSET (1 .. 256)
    <3>1. call.density \in {"sparse", "medium", "dense"}
      BY DEF CallType, Density
    <3>2. AdaptiveScales \in SUBSET (1 .. 256)
      BY <3>1 DEF AdaptiveScales
    <3> QED
      BY <3>2 DEF Scales
  <2>2. IsFiniteSet(1 .. 256)
    <3>1. 256 \in Nat
      OBVIOUS
    <3> QED
      BY <3>1, Intervals
  <2>3. IsFiniteSet(Scales)
    BY <2>1, <2>2, FS_Subset
  <2> QED
    BY <2>3, FS_CardinalityType
<1>3. /\ call.moments \in Nat
      /\ call.orientations * call.frequencies \in Nat
  <2>1. PICK n \in Nat, m \in Nat : n = call.orientations /\ m = call.frequencies
    BY DEF CallType
  <2>2. n * m \in Nat
    OBVIOUS
  <2> QED BY <2>1, <2>2 DEF CallType
<1> QED
  BY <1>1, <1>2, <1>3 DEF NumValues, Interleaved

LEMMA RowsEnough ==
  ASSUME call \in CallType
  PROVE  MaxIter \in Nat /\ \A s \in Interleaved : NumValues(s) \in 0 .. MaxIter
<1> DEFINE counts == {NumValues(s) : s \in Interleaved}
           Largest4(n) == \A s \in Interleaved : NumValues(s) <= n
<1>1. \A s \in Interleaved : NumValues(s) \in Nat
  BY ValuesAreCounted
<1>2. \E n \in counts : Largest4(n)
  <2>1. PICK a, b, c, d \in Nat : /\ a = NumValues("wtmm") /\ b = NumValues("lacunarity")
                                  /\ c = NumValues("multifractal") /\ d = NumValues("texture")
    BY <1>1 DEF Interleaved
  <2>2. PICK m \in {a, b, c, d} : a <= m /\ b <= m /\ c <= m /\ d <= m
    <3>1. PICK p \in {a, b} : a <= p /\ b <= p
      OBVIOUS
    <3>2. PICK q \in {c, d} : c <= q /\ d <= q
      OBVIOUS
    <3>3. p \in Nat /\ q \in Nat
      OBVIOUS
    <3>4. CASE p <= q
      BY <3>1, <3>2, <3>3, <3>4
    <3>5. CASE ~(p <= q)
      BY <3>1, <3>2, <3>3, <3>5
    <3> QED
      BY <3>4, <3>5
  <2>3. m \in counts
    BY <2>1, <2>2 DEF Interleaved
  <2>4. Largest4(m)
    BY <2>1, <2>2 DEF Interleaved
  <2> QED
    BY <2>3, <2>4
<1>3. MaxIter \in counts /\ Largest4(MaxIter)
  <2>1. MaxIter = CHOOSE n \in counts : Largest4(n)
    BY DEF MaxIter
  <2> HIDE DEF counts, Largest4
  <2> QED
    BY <1>2, <2>1
<1> QED
  BY <1>1, <1>3

LEMMA RoundIs ==
  ASSUME NEW v
  PROVE  v \in RoundValues <=> \E s \in Interleaved : \E i \in 1 .. NumValues(s) : v = <<s, i>>
BY DEF RoundValues

LEMMA RowLists ==
  ASSUME call \in CallType, NEW i \in Nat \ {0}
  PROVE  Lists(Row(i), InRow(i))
<1> DEFINE Got(s) == IF i <= NumValues(s) THEN {<<s, i>>} ELSE {}
<1>1. \A s : Lists(Turn(s, i), Got(s))
  <2> SUFFICES ASSUME NEW s PROVE Lists(Turn(s, i), Got(s))
    OBVIOUS
  <2>1. CASE i <= NumValues(s)
    <3>1. Turn(s, i) = << <<s, i>> >> /\ Got(s) = {<<s, i>>}
      BY <2>1 DEF Turn
    <3> QED
      BY <3>1, OneLists
  <2>2. CASE ~(i <= NumValues(s))
    <3>1. Turn(s, i) = <<>> /\ Got(s) = {}
      BY <2>2 DEF Turn
    <3> QED
      BY <3>1, EmptyLists
  <2> QED
    BY <2>1, <2>2
<1>2. PICK A, B, C, D : /\ A = Got("wtmm") /\ B = Got("lacunarity")
                        /\ C = Got("multifractal") /\ D = Got("texture")
  OBVIOUS
<1>3. PICK a, b, c, d : /\ a = Turn("wtmm", i) /\ b = Turn("lacunarity", i)
                        /\ c = Turn("multifractal", i) /\ d = Turn("texture", i)
  OBVIOUS
<1>4. A \cap B = {} /\ (A \cup B) \cap C = {} /\ (A \cup B \cup C) \cap D = {}
  BY <1>2
<1>5. Lists(a, A) /\ Lists(b, B) /\ Lists(c, C) /\ Lists(d, D)
  BY <1>1, <1>2, <1>3
<1>6. A \cup B \cup C \cup D = InRow(i)
  <2>1. ASSUME NEW v \in A \cup B \cup C \cup D PROVE v \in InRow(i)
    <3>1. PICK s \in Interleaved : v \in Got(s)
      BY <1>2 DEF Interleaved
    <3>2. v = <<s, i>> /\ i <= NumValues(s)
      BY <3>1
    <3>3. NumValues(s) \in Nat
      BY ValuesAreCounted
    <3>4. i \in 1 .. NumValues(s) /\ v[2] = i
      BY <3>2, <3>3
    <3> QED
      BY <3>2, <3>4, RoundIs DEF InRow
  <2>2. ASSUME NEW v \in InRow(i) PROVE v \in A \cup B \cup C \cup D
    <3>1. v \in RoundValues /\ v[2] = i
      BY DEF InRow
    <3>2. PICK s \in Interleaved : \E k \in 1 .. NumValues(s) : v = <<s, k>>
      BY <3>1, RoundIs
    <3>0. PICK k \in 1 .. NumValues(s) : v = <<s, k>>
      BY <3>2
    <3>3. k = i /\ i <= NumValues(s)
      BY <3>0, <3>1, ValuesAreCounted
    <3>4. v \in Got(s)
      BY <3>0, <3>3
    <3> QED
      BY <1>2, <3>4 DEF Interleaved
  <2> QED
    BY <2>1, <2>2
<1> HIDE DEF Got
<1>7. Lists(a \o b \o c \o d, A \cup B \cup C \cup D)
  BY <1>4, <1>5, JoinLists
<1> QED
  BY <1>3, <1>6, <1>7 DEF Row

LEMMA RowsFollow ==
  ASSUME call \in CallType
  PROVE  /\ BeforeRow(1) = {} /\ BeforeRow(MaxIter + 1) = RoundValues
         /\ \A i \in Nat \ {0} : /\ BeforeRow(i) \cap InRow(i) = {}
                                 /\ BeforeRow(i + 1) = BeforeRow(i) \cup InRow(i)
<1>1. ASSUME NEW v \in RoundValues PROVE v[2] \in Nat /\ v[2] >= 1 /\ v[2] < MaxIter + 1
  <2>1. PICK s \in Interleaved : \E k \in 1 .. NumValues(s) : v = <<s, k>>
    BY RoundIs
  <2>2. PICK k \in 1 .. NumValues(s) : v = <<s, k>>
    BY <2>1
  <2>3. NumValues(s) \in 0 .. MaxIter /\ MaxIter \in Nat
    BY RowsEnough
  <2> QED
    BY <2>2, <2>3
<1>2. BeforeRow(1) = {} /\ BeforeRow(MaxIter + 1) = RoundValues
  BY <1>1 DEF BeforeRow
<1>3. ASSUME NEW i \in Nat \ {0}
      PROVE  /\ BeforeRow(i) \cap InRow(i) = {}
             /\ BeforeRow(i + 1) = BeforeRow(i) \cup InRow(i)
  <2>1. \A v \in RoundValues : v[2] < i + 1 <=> v[2] < i \/ v[2] = i
    BY <1>1
  <2> QED
    BY <1>1, <2>1 DEF BeforeRow, InRow
<1> QED
  BY <1>2, <1>3

LEMMA RoundsStay ==
  ASSUME call' = call
  PROVE  /\ MaxIter' = MaxIter /\ RoundValues' = RoundValues /\ LateValues' = LateValues
         /\ \A s : NumValues(s)' = NumValues(s)
<1>1. Ladder' = Ladder /\ Scales' = Scales
  BY DEF Ladder, AdaptiveLadder, Scales, AdaptiveScales
<1>2. \A s : NumValues(s)' = NumValues(s)
  BY <1>1 DEF NumValues
<1> QED
  BY <1>2 DEF MaxIter, RoundValues, LateValues

-----------------------------------------------------------------------------
(* The mixing.  While the rounds last, normalized has what came in them;   *)
(* while the spans are carved, the witness is normalized up to the cut.    *)
AllValues == RoundValues \cup LateValues

MixInv ==
  /\ strategy # NoStrategy => Sound(strategy)
  /\ row \in 1 .. MaxIter + 2
  /\ row <= MaxIter + 1 => Lists(normalized, BeforeRow(row)) /\ span = 0 /\ witness = <<>>
  /\ row = MaxIter + 2 =>
       /\ strategy # NoStrategy /\ Lists(normalized, AllValues)
       /\ span \in 0 .. NumSpans + 1
       /\ span <= NumSpans => witness = SubSeq(normalized, 1, CutAt(span))
       /\ span = NumSpans + 1 => witness = normalized \o Tag

LEMMA ListsAreSequences ==
  ASSUME NEW s, NEW S, Lists(s, S)
  PROVE  s \in Seq(S) /\ Len(s) \in Nat
BY LenProperties DEF Lists

LEMMA MixBegins ==
  ASSUME call \in CallType, MixInit
  PROVE  MixInv
<1>1. row \in 1 .. MaxIter + 2 /\ row <= MaxIter + 1 /\ ~(row = MaxIter + 2)
  BY RowsEnough DEF MixInit
<1>2. Lists(normalized, BeforeRow(row))
  BY RowsFollow, EmptyLists DEF MixInit
<1> QED
  BY <1>1, <1>2 DEF MixInv, MixInit

LEMMA MixStays ==
  ASSUME call' = call, MixInv, UNCHANGED mixVars
  PROVE  MixInv'
<1>1. /\ strategy' = strategy /\ row' = row /\ normalized' = normalized /\ span' = span
      /\ witness' = witness
  BY DEF mixVars
<1>2. MaxIter' = MaxIter /\ RoundValues' = RoundValues /\ LateValues' = LateValues
  BY RoundsStay
<1>3. NumSpans' = NumSpans /\ CutAt(span)' = CutAt(span) /\ Tag' = Tag
  BY <1>1 DEF NumSpans, CutAt, Boundary, Tag
<1> QED
  BY <1>1, <1>2, <1>3 DEF MixInv, BeforeRow, AllValues

LEMMA DetermineStep ==
  ASSUME call \in CallType, call' = call, MixInv, Determine
  PROVE  MixInv'
<1>1. /\ strategy = NoStrategy /\ row' = row /\ normalized' = normalized /\ span' = span
      /\ witness' = witness
  BY DEF Determine
<1>2. MaxIter' = MaxIter /\ RoundValues' = RoundValues /\ LateValues' = LateValues
  BY RoundsStay
<1>3. Sound(strategy')
  <2>1. CASE \E bits \in EntropyBits : strategy' = Determined(bits)
    <3>1. PICK bits \in EntropyBits : strategy' = Determined(bits)
      BY <2>1
    <3>2. bits \in [Source -> Nat]
      BY MixingAssumption
    <3> QED
      BY <3>1, <3>2, DeterminedIsSound
  <2>2. CASE strategy' \in OwnStrategies
    <3>1. PICK s \in OwnStrategies : s = strategy'
      BY <2>2
    <3>2. /\ s.sources \in Seq(Source) /\ s.weights \in Seq(Nat) /\ s.total \in Nat \ {0}
          /\ Len(s.weights) >= PiecesOf(s) => Cumulative(s.weights)[PiecesOf(s)] >= s.total
      BY MixingAssumption DEF PiecesOf
    <3>3. Len(s.sources) \in Nat
      BY <3>2, LenProperties
    <3>4. PiecesOf(s) \in Nat /\ PiecesOf(s) >= 1
      BY <3>3 DEF PiecesOf, AtLeast
    <3> QED
      BY <3>1, <3>2, <3>4 DEF Sound
  <2> QED
    BY <2>1, <2>2 DEF Determine
<1>4. row # MaxIter + 2
  BY <1>1 DEF MixInv
<1> QED
  BY <1>1, <1>2, <1>3, <1>4 DEF MixInv, BeforeRow

LEMMA NormalizeRowStep ==
  ASSUME call \in CallType, call' = call, MixInv, NormalizeRow
  PROVE  MixInv'
<1>1. /\ strategy' = strategy /\ row' = row + 1 /\ normalized' = normalized \o Row(row)
      /\ span' = span /\ witness' = witness /\ row <= MaxIter
  BY DEF NormalizeRow
<1>2. MaxIter' = MaxIter /\ RoundValues' = RoundValues /\ LateValues' = LateValues /\ MaxIter \in Nat
  BY RoundsStay, RowsEnough
<1>3. PICK r \in Nat \ {0} : r = row
  BY <1>2 DEF MixInv
<1>4. Lists(normalized, BeforeRow(r)) /\ span = 0 /\ witness = <<>>
  BY <1>1, <1>2, <1>3 DEF MixInv
<1>5. Lists(Row(r), InRow(r)) /\ BeforeRow(r) \cap InRow(r) = {}
  BY RowLists, RowsFollow
<1>6. Lists(normalized \o Row(r), BeforeRow(r) \cup InRow(r))
  BY <1>4, <1>5, JoinLists
<1>7. BeforeRow(r + 1) = BeforeRow(r) \cup InRow(r)
  BY RowsFollow
<1>8. Lists(normalized', BeforeRow(r + 1))
  BY <1>1, <1>3, <1>6, <1>7
<1>9. BeforeRow(r + 1) = BeforeRow(row)'
  BY <1>1, <1>2, <1>3 DEF BeforeRow
<1>10. row' \in 1 .. MaxIter + 2 /\ row' # MaxIter + 2
  BY <1>1, <1>2, <1>3
<1> QED
  BY <1>1, <1>2, <1>4, <1>8, <1>9, <1>10 DEF MixInv

LEMMA NormalizeTailStep ==
  ASSUME call \in CallType, call' = call, MixInv, NormalizeTail
  PROVE  MixInv'
<1>1. /\ strategy # NoStrategy /\ strategy' = strategy /\ row = MaxIter + 1 /\ row' = row + 1
      /\ normalized' = normalized \o AfterRounds /\ span' = span /\ witness' = witness
  BY DEF NormalizeTail
<1>2. MaxIter' = MaxIter /\ RoundValues' = RoundValues /\ LateValues' = LateValues /\ MaxIter \in Nat
  BY RoundsStay, RowsEnough
<1>3. Sound(strategy) /\ Lists(normalized, RoundValues) /\ span = 0 /\ witness = <<>>
  BY <1>1, <1>2, RowsFollow DEF MixInv
<1>4. RoundValues \cap LateValues = {}
  BY RoundIs DEF LateValues, Interleaved
<1>5. Lists(normalized', AllValues)
  BY <1>1, <1>3, <1>4, AfterRoundsLists, JoinLists DEF AllValues
<1>6. NumSpans' = NumSpans /\ NumSpans \in Nat /\ NumSpans >= 1 /\ strategy.total \in Nat \ {0}
  BY <1>1, <1>3, BoundariesRise DEF NumSpans
<1>7. CutAt(0)' = 0
  <2>1. Boundary(0)' = 0
    <3>1. Boundary(0)' = Boundary(0)
      BY <1>1 DEF Boundary
    <3> QED
      BY <1>3, <3>1, BoundariesRise
  <2>2. PICK n \in Nat : n = Len(normalized')
    BY <1>5, ListsAreSequences
  <2>3. CutAt(0)' = (2 * 0 * n + strategy.total) \div (2 * strategy.total)
    BY <1>1, <2>1, <2>2 DEF CutAt
  <2> QED
    BY <1>6, <2>3, Rounding
<1>8. SubSeq(normalized', 1, 0) = <<>>
  BY SubSeqEmpty
<1>9. CutAt(span)' = 0
  BY <1>1, <1>3, <1>7 DEF CutAt
<1>10. AllValues' = AllValues
  BY <1>2 DEF AllValues
<1> QED
  BY <1>1, <1>2, <1>3, <1>5, <1>6, <1>8, <1>9, <1>10 DEF MixInv

LEMMA CarveSpanStep ==
  ASSUME call \in CallType, call' = call, MixInv, CarveSpan
  PROVE  MixInv'
<1>1. /\ strategy' = strategy /\ row' = row /\ normalized' = normalized /\ row = MaxIter + 2
      /\ span < NumSpans /\ span' = span + 1
      /\ witness' = witness \o SubSeq(normalized, CutAt(span) + 1,
                                      AtLeast(CutAt(span + 1), CutAt(span)))
  BY DEF CarveSpan
<1>2. MaxIter' = MaxIter /\ AllValues' = AllValues
  BY RoundsStay DEF AllValues
<1>3. /\ strategy # NoStrategy /\ Sound(strategy) /\ Lists(normalized, AllValues)
      /\ span \in 0 .. NumSpans + 1
      /\ span <= NumSpans => witness = SubSeq(normalized, 1, CutAt(span))
  BY <1>1 DEF MixInv
<1>4. NumSpans' = NumSpans /\ NumSpans \in Nat
  BY <1>1, <1>3, BoundariesRise DEF NumSpans
<1>5. PICK k \in 0 .. NumSpans - 1 : k = span
  BY <1>1, <1>3, <1>4
<1>6. PICK n \in Nat : n = Len(normalized)
  BY <1>3, ListsAreSequences
<1>7. CutAt(k) \in 0 .. n /\ CutAt(k + 1) \in 0 .. n /\ CutAt(k) <= CutAt(k + 1)
  <2>1. k \in 0 .. NumSpans /\ k + 1 \in 0 .. NumSpans
    BY <1>4
  <2> QED
    BY <1>3, <1>6, <2>1, CutsRise
<1>8. PICK a \in 0 .. n : a = CutAt(k)
  BY <1>7
<1>9. PICK b \in a .. n : b = CutAt(k + 1)
  BY <1>7, <1>8
<1>10. normalized \in Seq(AllValues)
  BY <1>3, ListsAreSequences
<1>11. SubSeq(normalized, 1, a) \o SubSeq(normalized, a + 1, b) = SubSeq(normalized, 1, b)
  <2>1. 1 \in 1 .. n + 1 /\ a \in 1 - 1 .. n
    OBVIOUS
  <2> QED
    BY <1>6, <1>10, <2>1, ConcatAdjacentSubSeq
<1>12. AtLeast(CutAt(k + 1), CutAt(k)) = b
  BY <1>8, <1>9 DEF AtLeast
<1>13. witness' = SubSeq(normalized, 1, b)
  <2>1. witness = SubSeq(normalized, 1, a)
    BY <1>1, <1>3, <1>4, <1>5, <1>8
  <2> QED
    BY <1>1, <1>5, <1>8, <1>11, <1>12, <2>1
<1>14. CutAt(span)' = b
  <2>1. CutAt(span)' = CutAt(k + 1)
    BY <1>1, <1>5 DEF CutAt, Boundary
  <2> QED
    BY <1>9, <2>1
<1>15. span' \in (0 .. NumSpans + 1)' /\ span' # (NumSpans + 1)'
  BY <1>1, <1>4, <1>5
<1>16. row' \in (1 .. MaxIter + 2)' /\ ~(row <= MaxIter + 1)' /\ row' = (MaxIter + 2)'
  BY <1>1, <1>2, RowsEnough
<1>17. witness' = SubSeq(normalized, 1, CutAt(span))'
  BY <1>1, <1>13, <1>14
<1>18. (strategy # NoStrategy /\ Sound(strategy) /\ Lists(normalized, AllValues))'
  BY <1>1, <1>2, <1>3
<1> QED
  BY <1>15, <1>16, <1>17, <1>18 DEF MixInv

LEMMA AppendTagStep ==
  ASSUME call \in CallType, call' = call, MixInv, AppendTag
  PROVE  MixInv'
<1>1. /\ strategy' = strategy /\ row' = row /\ normalized' = normalized /\ row = MaxIter + 2
      /\ span = NumSpans /\ span' = span + 1 /\ witness' = witness \o Tag
  BY DEF AppendTag
<1>2. MaxIter' = MaxIter /\ AllValues' = AllValues
  BY RoundsStay DEF AllValues
<1>3. /\ strategy # NoStrategy /\ Sound(strategy) /\ Lists(normalized, AllValues)
      /\ span <= NumSpans => witness = SubSeq(normalized, 1, CutAt(span))
  BY <1>1 DEF MixInv
<1>4. NumSpans' = NumSpans /\ NumSpans \in Nat /\ Tag' = Tag
  BY <1>1, <1>3, BoundariesRise DEF NumSpans, Tag
<1>5. PICK n \in Nat : n = Len(normalized)
  BY <1>3, ListsAreSequences
<1>6. CutAt(NumSpans) = n
  BY <1>3, <1>5, CutsRise
<1>7. witness = SubSeq(normalized, 1, n)
  BY <1>1, <1>3, <1>4, <1>6
<1>8. SubSeq(normalized, 1, n) = normalized
  BY <1>3, <1>5, ListsAreSequences, SubSeqFull
<1>9. witness' = normalized' \o Tag'
  BY <1>1, <1>4, <1>7, <1>8
<1>10. span' \in 0 .. NumSpans + 1 /\ ~(span' <= NumSpans)
  BY <1>1, <1>4
<1> QED
  BY <1>1, <1>2, <1>3, <1>4, <1>9, <1>10, RowsEnough DEF MixInv

LEMMA MixAlways == Spec => [](call \in CallType /\ MixInv)
<1>1. Init => call \in CallType /\ MixInv
  BY CallAssumption, MixBegins DEF Init
<1>2. call \in CallType /\ MixInv /\ [Next]_vars => (call \in CallType /\ MixInv)'
  <2> SUFFICES ASSUME call \in CallType, MixInv, [Next]_vars
               PROVE  call' \in CallType /\ MixInv'
    OBVIOUS
  <2>1. UNCHANGED call /\ (UNCHANGED mixVars \/ MixStep)
    BY Components
  <2>2. CASE UNCHANGED mixVars
    BY <2>1, <2>2, MixStays
  <2>3. CASE Determine
    BY <2>1, <2>3, DetermineStep
  <2>4. CASE NormalizeRow
    BY <2>1, <2>4, NormalizeRowStep
  <2>5. CASE NormalizeTail
    BY <2>1, <2>5, NormalizeTailStep
  <2>6. CASE CarveSpan
    BY <2>1, <2>6, CarveSpanStep
  <2>7. CASE AppendTag
    BY <2>1, <2>7, AppendTagStep
  <2> QED
    BY <2>1, <2>2, <2>3, <2>4, <2>5, <2>6, <2>7 DEF MixStep
<1> QED
  BY <1>1, <1>2, PTL DEF Spec

LEMMA MixSafe ==
  ASSUME call \in CallType, MixInv
  PROVE  WitnessIsWhole
<1> SUFFICES ASSUME MixDone
             PROVE  \E taken : /\ taken = RoundValues \cup {AfterRounds[k] : k \in DOMAIN AfterRounds}
                                           \cup {Tag[1], Tag[2]}
                               /\ {witness[k] : k \in DOMAIN witness} = taken
                               /\ Len(witness) = Cardinality(taken)
                               /\ SubSeq(witness, Len(witness) - 1, Len(witness)) = Tag
  BY DEF WitnessIsWhole, RoundValues
<1>1. MaxIter \in Nat
  BY RowsEnough
<1>2. strategy # NoStrategy /\ Sound(strategy) /\ span = NumSpans + 1 /\ NumSpans \in Nat
  BY BoundariesRise DEF MixDone, MixInv
<1>3. row = MaxIter + 2
  BY <1>1, <1>2 DEF MixInv
<1>4. Lists(normalized, AllValues) /\ witness = normalized \o Tag
  BY <1>2, <1>3 DEF MixInv
<1>5. PICK a, b : a = Tag[1] /\ b = Tag[2] /\ a = <<"name", strategy.name>> /\ b = <<"version", 1>>
  BY DEF Tag
<1>6. Tag = <<a, b>> /\ <<a, b>> = <<a>> \o <<b>>
  BY <1>5 DEF Tag
<1>7. Lists(Tag, {a, b})
  <2>1. Lists(<<a>>, {a}) /\ Lists(<<b>>, {b}) /\ {a} \cap {b} = {} /\ {a, b} = {a} \cup {b}
    BY <1>5, OneLists
  <2>2. Lists(<<a>> \o <<b>>, {a} \cup {b})
    BY <2>1, JoinLists
  <2> QED
    BY <1>6, <2>1, <2>2
<1>8. AllValues \cap {a, b} = {}
  BY <1>5, RoundIs DEF AllValues, LateValues, Interleaved
<1>9. Lists(witness, AllValues \cup {a, b})
  BY <1>4, <1>7, <1>8, JoinLists
<1>10. {AfterRounds[k] : k \in DOMAIN AfterRounds} = LateValues
  BY AfterRoundsLists, ListsCount
<1>11. /\ {witness[k] : k \in DOMAIN witness} = AllValues \cup {a, b}
       /\ Len(witness) = Cardinality(AllValues \cup {a, b})
  BY <1>9, ListsCount
<1>12. SubSeq(witness, Len(witness) - 1, Len(witness)) = Tag
  <2>1. PICK n \in Nat : n = Len(normalized)
    BY <1>4, ListsAreSequences
  <2>2. normalized \in Seq(AllValues \cup {a, b}) /\ Tag \in Seq(AllValues \cup {a, b}) /\ Len(Tag) = 2
    <3>1. normalized \in Seq(AllValues) /\ Tag \in Seq({a, b})
      BY <1>4, <1>7, ListsAreSequences
    <3> QED
      BY <1>6, <3>1, SeqMonotonic
  <2>3. Len(witness) = n + 2
    <3>1. Len(normalized \o Tag) = Len(normalized) + Len(Tag)
      BY <2>2, ConcatProperties
    <3> QED
      BY <1>4, <2>1, <2>2, <3>1
  <2>4. SubSeq(witness, n + 1, n + 2) = SubSeq(Tag, (n + 1) - n, (n + 2) - n)
    <3>1. n + 1 \in n + 1 .. n + 2 /\ n + 2 \in n + 1 .. n + 2
      OBVIOUS
    <3>2. /\ n + 1 \in Len(normalized) + 1 .. Len(normalized) + Len(Tag)
          /\ n + 2 \in Len(normalized) + 1 .. Len(normalized) + Len(Tag)
      BY <2>1, <2>2, <3>1
    <3>3. SubSeq(normalized \o Tag, n + 1, n + 2)
            = SubSeq(Tag, (n + 1) - Len(normalized), (n + 2) - Len(normalized))
      BY <2>2, <3>2, SubSeqOfConcat2
    <3> QED
      BY <1>4, <2>1, <3>3
  <2>5. SubSeq(Tag, 1, 2) = Tag
    BY <2>2, SubSeqFull
  <2> QED
    BY <2>3, <2>4, <2>5
<1> QED
  BY <1>5, <1>10, <1>11, <1>12 DEF AllValues

(* Whatever the weights and however many of them, whatever the sources     *)
(* report: the witness has every value of every source once, in the order  *)
(* of the spans, and ends in the tag (`create_byte_sequence`).             *)
THEOREM ValuesReachWitness == Spec => []WitnessIsWhole
<1>1. call \in CallType /\ MixInv => WitnessIsWhole
  BY MixSafe
<1> QED
  BY <1>1, MixAlways, PTL
==============================================================================
