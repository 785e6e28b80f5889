--------------------------- MODULE WitnessPipeline ----------------------------
(***************************************************************************)
(* One derivation from the working picture to the witness: the loops of    *)
(* ten sources, then the mixing.  The sources run in parallel, and         *)
(* EntropyEngine has every order; here, where they share nothing, they run *)
(* one after the other.  What a source keeps to itself is gone when it     *)
(* returns.                                                                *)
(***************************************************************************)
EXTENDS BoxSampling, FilterWindows, MomentSpectra, SeriesLoops, StationaryWavelet, WitnessMixing

VARIABLE phase    (* of the derivation                                       *)

sourceVars == <<boxVars, blockVars, filterVars, momentVars, seriesVars, transformVars, waveletVars>>
vars == <<call, sourceVars, mixVars, phase>>

Init ==
  /\ call \in Call
  /\ BoxInit /\ BlockInit /\ FilterInit /\ MomentInit /\ SeriesInit /\ TransformInit /\ WaveletInit /\ MixInit
  /\ phase = "wtmm"

Enabled(s) == s \notin call.disabled

(* validate_config of the fractal source. *)
FractalRefuses ==
  call.detection_max \notin 2 .. 512 \/ call.fractal_max \notin 1 .. 64 \/ MomentsRefused

(* A knob that leaves no scale ends the analysis, even if its source is    *)
(* disabled.  Then the smallest picture a source takes: all of them are    *)
(* asked, and one that refuses ends the analysis too.                      *)
Refused ==
  \/ call.lacunarity_scales # {} /\ Scales = {}
  \/ Enabled("wtmm") /\ SmallerThan(4)
  \/ Enabled("lacunarity") /\ SmallerThan(1)
  \/ Enabled("multifractal") /\ SmallerThan(8)
  \/ Enabled("chaos") /\ ChaosRefuses
  \/ Enabled("quantum_density") /\ QuantumRefuses
  \/ Enabled("lattice") /\ SmallerThan(1)
  \/ Enabled("fractal_aware") /\ (SmallerThan(16) \/ FractalRefuses)

Refuse ==
  /\ phase = "wtmm" /\ depth = 0 /\ step = 0 /\ Refused
  /\ phase' = "refused"
  /\ UNCHANGED <<call, sourceVars, mixVars>>

(* The whole transform, then the ladder over it. *)
Transform ==
  /\ phase = "wtmm" /\ ~Refused /\ Enabled("wtmm")
  /\ DecomposeLevel
  /\ UNCHANGED <<call, boxVars, blockVars, filterVars, momentVars, seriesVars,
                 waveletVars, mixVars, phase>>
Wtmm ==
  /\ phase = "wtmm" /\ ~Refused /\ Enabled("wtmm") /\ TransformDone
  /\ AnalyzeStep
  /\ UNCHANGED <<call, boxVars, blockVars, filterVars, momentVars, seriesVars,
                 transformVars, mixVars, phase>>
WtmmSpectrum ==
  /\ phase = "wtmm" /\ ~Refused /\ Enabled("wtmm")
  /\ Partition
  /\ UNCHANGED <<call, boxVars, blockVars, filterVars, seriesVars, transformVars, waveletVars,
                 mixVars, phase>>
EndWtmm ==
  /\ phase = "wtmm" /\ ~Refused /\ (PartitionDone \/ ~Enabled("wtmm"))
  /\ phase' = "lacunarity"
  /\ TransformReset /\ WaveletReset /\ MomentReset
  /\ UNCHANGED <<call, boxVars, blockVars, filterVars, seriesVars, mixVars>>

Lacunarity ==
  /\ phase = "lacunarity" /\ Enabled("lacunarity")
  /\ BoxStep
  /\ UNCHANGED <<call, blockVars, filterVars, momentVars, seriesVars, transformVars,
                 waveletVars, mixVars, phase>>
EndLacunarity ==
  /\ phase = "lacunarity" /\ (BoxesDone \/ ~Enabled("lacunarity"))
  /\ phase' = "tilings"
  /\ UNCHANGED <<call, sourceVars, mixVars>>

CutPicture ==
  /\ phase = "tilings"
  /\ CutTiles
  /\ UNCHANGED <<call, boxVars, filterVars, momentVars, seriesVars, transformVars,
                 waveletVars, mixVars, phase>>
EndTilings ==
  /\ phase = "tilings" /\ TilingsDone
  /\ phase' = "filters" /\ turn' = 1 /\ tiles' = {}
  /\ UNCHANGED <<call, boxVars, block, latest, seen, filterVars, momentVars, seriesVars,
                 transformVars, waveletVars, mixVars>>

Filter ==
  /\ phase = "filters"
  /\ Slide
  /\ UNCHANGED <<call, boxVars, blockVars, momentVars, seriesVars, transformVars,
                 waveletVars, mixVars, phase>>
EndFilters ==
  /\ phase = "filters" /\ FiltersDone
  /\ phase' = "hurst" /\ filter' = 1 /\ reads' = NoReads
  /\ UNCHANGED <<call, boxVars, blockVars, momentVars, seriesVars, transformVars,
                 waveletVars, mixVars>>

Hurst ==
  /\ phase = "hurst" /\ Enabled("hurst")
  /\ HurstStep
  /\ UNCHANGED <<call, boxVars, blockVars, filterVars, momentVars, transformVars,
                 waveletVars, mixVars, phase>>
EndHurst ==
  /\ phase = "hurst" /\ (HurstDone \/ ~Enabled("hurst"))
  /\ phase' = "chaos"
  /\ SeriesReset
  /\ UNCHANGED <<call, boxVars, blockVars, filterVars, momentVars, transformVars,
                 waveletVars, mixVars>>

Chaos ==
  /\ phase = "chaos" /\ Enabled("chaos")
  /\ Iterate
  /\ UNCHANGED <<call, boxVars, blockVars, filterVars, momentVars, transformVars,
                 waveletVars, mixVars, phase>>
EndChaos ==
  /\ phase = "chaos" /\ (ChaosDone \/ ~Enabled("chaos"))
  /\ phase' = "quantum"
  /\ SeriesReset
  /\ UNCHANGED <<call, boxVars, blockVars, filterVars, momentVars, transformVars,
                 waveletVars, mixVars>>

Quantum ==
  /\ phase = "quantum" /\ Enabled("quantum_density")
  /\ BuildOperator
  /\ UNCHANGED <<call, boxVars, filterVars, momentVars, seriesVars, transformVars,
                 waveletVars, mixVars, phase>>
EndQuantum ==
  /\ phase = "quantum" /\ (QuantumDone \/ ~Enabled("quantum_density"))
  /\ phase' = "fractal" /\ block' = 0 /\ latest' = NoPixels /\ seen' = NoPixels
  /\ UNCHANGED <<call, boxVars, turn, tiles, filterVars, momentVars, seriesVars,
                 transformVars, waveletVars, mixVars>>

Fractal ==
  /\ phase = "fractal" /\ Enabled("fractal_aware")
  /\ ProbeScale
  /\ UNCHANGED <<call, boxVars, blockVars, filterVars, momentVars, seriesVars,
                 transformVars, mixVars, phase>>
EndFractal ==
  /\ phase = "fractal" /\ (AdaptiveDone \/ ~Enabled("fractal_aware"))
  /\ phase' = "spectrum"
  /\ WaveletReset
  /\ UNCHANGED <<call, boxVars, blockVars, filterVars, momentVars, seriesVars,
                 transformVars, mixVars>>

FractalSpectrum ==
  /\ phase = "spectrum" /\ Enabled("fractal_aware")
  /\ SpectrumStep
  /\ UNCHANGED <<call, boxVars, blockVars, filterVars, seriesVars, transformVars, waveletVars,
                 mixVars, phase>>
EndSpectrum ==
  /\ phase = "spectrum" /\ (SpectrumDone \/ ~Enabled("fractal_aware"))
  /\ phase' = "mix"
  /\ MomentReset
  /\ UNCHANGED <<call, boxVars, blockVars, filterVars, seriesVars, transformVars, waveletVars,
                 mixVars>>

Mix ==
  /\ phase = "mix"
  /\ MixStep
  /\ UNCHANGED <<call, sourceVars, phase>>
EndMix ==
  /\ phase = "mix" /\ MixDone
  /\ phase' = "done"
  /\ UNCHANGED <<call, sourceVars, mixVars>>

Next ==
  \/ Refuse
  \/ Transform \/ Wtmm \/ WtmmSpectrum \/ EndWtmm
  \/ Lacunarity \/ EndLacunarity
  \/ CutPicture \/ EndTilings
  \/ Filter \/ EndFilters
  \/ Hurst \/ EndHurst
  \/ Chaos \/ EndChaos
  \/ Quantum \/ EndQuantum
  \/ Fractal \/ EndFractal \/ FractalSpectrum \/ EndSpectrum
  \/ Mix \/ EndMix

Spec == Init /\ [][Next]_vars

-----------------------------------------------------------------------------
(* Every source that cuts cuts whole pieces: boxes of the picture and      *)
(* windows of the row of its pixels, none lost and none counted twice.     *)
TilesAreWhole == TilingsAreWhole /\ SeriesAreWhole

(* No pixel is taken again before its turn: not by a later quantum         *)
(* operator, not by the chaotic orbit before it has taken all the others;  *)
(* and what an operator has taken becomes a symmetric matrix.              *)
BlocksShareNoPixel == OperatorsShareNoPixel /\ OperatorsAreHermitian /\ OrbitTakesAll

(* What the two singularity spectra fit and differentiate belongs          *)
(* together: maxima with their scale, exponents with the moments beside    *)
(* them.                                                                   *)
ScalesPairUp == LevelsPairUp /\ MomentsPairUp

(* Kernels, windows and slices read where there is something to read.      *)
ReadsStayInside == ProbesStayInside /\ FiltersStayInside
==============================================================================
