---------------------------- MODULE WaveletScales -----------------------------
(***************************************************************************)
(* The scale loops of `extract_wtmm` and of the fractal source's           *)
(* `AdaptiveWTMM::analyze`.  The first maps a ladder of scales onto the    *)
(* levels of the stationary wavelet transform and keeps the maxima of each *)
(* level once; the second counts maxima at dyadic scales until the counts  *)
(* no longer change.  Coefficients are left out: a level has maxima or     *)
(* not, a count is any of a few numbers.                                   *)
(***************************************************************************)
EXTENDS SourceConfig

CONSTANT MaximaCount     (* counts of maxima a plane may have                *)
ASSUME WaveletAssumption == MaximaCount \subseteq Nat

VARIABLES
  step,              (* of the ladder                                        *)
  level,             (* of the transform, for the step before                *)
  selected_moduli,   (* per level: the level its maxima are of, 0 for none   *)
  selected_scales,
  probe,             (* index of the dyadic scale                            *)
  plateau,
  features           (* the counts so far                                    *)

waveletVars == <<step, level, selected_moduli, selected_scales, probe, plateau, features>>

WaveletInit ==
  /\ step = 0 /\ level = 0
  /\ selected_moduli = <<>> /\ selected_scales = <<>>
  /\ probe = 1 /\ plateau = 0 /\ features = <<>>

(* A source returns: what it kept to itself is gone. *)
WaveletReset ==
  /\ step' = 0 /\ level' = 0
  /\ selected_moduli' = <<>> /\ selected_scales' = <<>>
  /\ probe' = 1 /\ plateau' = 0 /\ features' = <<>>

-----------------------------------------------------------------------------
(* swt_levels: one more than the exponent of the largest scale, up to 6. *)
Levels == AtMost(AtLeast(AtLeast(Ladder.max, Ladder.min), 1) + 1, 6)

(* The scale of a step is least * (largest / least) ^ (step / (steps - 1)) *)
(* in floating point, its level one more than the whole part of its        *)
(* logarithm; at an exact power of two inside the ladder the rounding may  *)
(* come out just below.  A largest scale not above the least is raised by  *)
(* one, which is the next power of two for the least scale of one only.    *)
Largest == IF Ladder.max > Ladder.min THEN Ladder.max ELSE AtLeast(Ladder.min, 1)
LevelsOf(s) ==
  LET rise == (Largest - Ladder.min) * s
      last == Ladder.steps - 1
      exact == Ladder.min + rise \div last
      floors == IF s \in 1 .. last - 1 /\ rise > 0 /\ rise % last = 0
                  THEN {exact - 1, exact} ELSE {exact}
  IN  {AtMost(f + 1, Levels) : f \in floors}

WtmmDone == step = Ladder.steps

Maxima(l) == IF l \in call.flat THEN 0 ELSE l
Resized(s, n) == [k \in 1 .. n |-> IF k <= Len(s) THEN s[k] ELSE 0]

(* Faulty variant: the scale of a level is appended, not put in its place. *)
AnalyzeStepPushing ==
  /\ ~WtmmDone
  /\ \E l \in LevelsOf(step) :
       LET moduli == Resized(selected_moduli, AtLeast(Len(selected_moduli), l))
       IN  /\ level' = l
           /\ selected_moduli' = [moduli EXCEPT ![l] = Maxima(l)]
           /\ selected_scales' = IF moduli[l] # 0 THEN selected_scales
                                 ELSE Append(selected_scales, 2 ^ (l - 1))
  /\ step' = step + 1
  /\ UNCHANGED <<probe, plateau, features>>

(* One step: its value, and the maxima of its level unless they are there. *)
AnalyzeStep ==
  /\ ~WtmmDone
  /\ \E l \in LevelsOf(step) :
       LET moduli == Resized(selected_moduli, AtLeast(Len(selected_moduli), l))
       IN  /\ level' = l
           /\ selected_moduli' = [moduli EXCEPT ![l] = Maxima(l)]
           /\ selected_scales' = IF moduli[l] # 0 THEN selected_scales
                                 ELSE [Resized(selected_scales, l) EXCEPT ![l] = 2 ^ (l - 1)]
  /\ step' = step + 1
  /\ UNCHANGED <<probe, plateau, features>>

-----------------------------------------------------------------------------
(* scales_for: 1, 2, 4, ... up to the cap and half the shorter side. *)
Cap == AtLeast(AtMost(call.fractal_max, AtMost(Width, Height) \div 2), 1)
NumProbes == CHOOSE n \in 1 .. 16 : 2 ^ (n - 1) <= Cap /\ 2 ^ n > Cap
Probed(k) == 2 ^ (k - 1)

KernelSize(s) == LET side == 3 * s IN IF side % 2 = 0 THEN side + 1 ELSE side
Half(s) == KernelSize(s) \div 2

(* Faulty variant: the guard count_maxima had before. *)
NoInteriorOnce(s) == Half(s) + 1 >= Width \/ Half(s) + 1 >= Height

(* count_maxima looks at nothing when the kernel leaves no interior. *)
NoInterior(s) == Width < 2 * Half(s) + 3 \/ Height < 2 * Half(s) + 3
Interior(extent, s) == [from |-> Half(s) + 1, to |-> extent - Half(s) - 1]   (* to: exclusive *)

CountsAt(s) == IF NoInterior(s) THEN {0} ELSE MaximaCount \cup {0}

(* |count - p| / (p + 1) < threshold *)
Steady(p, count) ==
  100 * (IF count > p THEN count - p ELSE p - count) < call.convergence * (p + 1)

AdaptiveDone == probe > NumProbes \/ plateau >= 3

(* Faulty variant: the plateau counter is never taken back. *)
ProbeScaleKeepingPlateau ==
  /\ ~AdaptiveDone
  /\ \E count \in CountsAt(Probed(probe)) :
       /\ features' = Append(features, count)
       /\ plateau' = IF features # <<>> /\ Steady(features[Len(features)], count)
                       THEN plateau + 1 ELSE plateau
  /\ probe' = probe + 1
  /\ UNCHANGED <<step, level, selected_moduli, selected_scales>>

ProbeScale ==
  /\ ~AdaptiveDone
  /\ \E count \in CountsAt(Probed(probe)) :
       /\ features' = Append(features, count)
       /\ plateau' = IF features = <<>> THEN plateau
                     ELSE IF Steady(features[Len(features)], count) THEN plateau + 1 ELSE 0
  /\ probe' = probe + 1
  /\ UNCHANGED <<step, level, selected_moduli, selected_scales>>

-----------------------------------------------------------------------------
(* What the partition analysis pairs belongs together: the maxima kept for *)
(* a level are that level's, beside its scale, and no level that the       *)
(* ladder has visited and that has maxima is missing, also when the ladder *)
(* starts above the first level or jumps over one.                         *)
LevelsPairUp ==
  /\ Len(selected_scales) = Len(selected_moduli)
  /\ \A l \in DOMAIN selected_moduli :
       selected_moduli[l] # 0 => selected_moduli[l] = l /\ selected_scales[l] = 2 ^ (l - 1)
  /\ level # 0 => level = Len(selected_moduli) /\ selected_moduli[level] = Maxima(level)

(* Wherever count_maxima looks, cwt_modulus has written: a maximum and its *)
(* eight neighbours are at least half a kernel away from every edge, and   *)
(* no row slice is upside down (the comment on the guard in count_maxima). *)
ProbesStayInside ==
  ~AdaptiveDone =>
    LET s == Probed(probe)
    IN  ~NoInterior(s) => \A extent \in {Width, Height} :
          LET range == Interior(extent, s)
          IN  range.from < range.to /\ range.from - 1 >= Half(s) /\ range.to < extent - Half(s)

(* The search ends early only after three counts in a row that hardly      *)
(* moved, and then at once.                                                *)
StopsOnlyOnPlateau ==
  LET steady(k) == k >= 2 /\ Steady(features[k - 1], features[k])
      plateauAt(k) == steady(k) /\ steady(k - 1) /\ steady(k - 2)
  IN  /\ \A k \in 1 .. Len(features) - 1 : ~plateauAt(k)
      /\ AdaptiveDone =>
           Len(features) = NumProbes \/ plateauAt(Len(features))
==============================================================================
