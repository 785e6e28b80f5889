---------------------------- MODULE MomentSpectra -----------------------------
(***************************************************************************)
(* The singularity spectra of two sources: exponents tau over a ladder of  *)
(* moments, then f(alpha) from the slope between neighbouring exponents.   *)
(* `extract_wtmm` has five fixed moments and takes one-sided slopes at the *)
(* ends; the fractal source has the moments of its configuration, sorted,  *)
(* and keeps the inner ones.  A slope is named for what it is taken        *)
(* between, a moment is <<value, sign>> (there are two zeros).             *)
(***************************************************************************)
EXTENDS PixelBlocks, WaveletScales, Functions

VARIABLES
  pairs,         (* of extract_wtmm: each <<scale, level of the maxima>>     *)
  slopes,        (* per moment: between which of the five, <<>> for none     *)
  unmeasured,    (* moments of the fractal source still to do                *)
  tau_q,         (* those that have an exponent                              *)
  f_alpha        (* per value: previous, own and next moment                 *)

momentVars == <<pairs, slopes, unmeasured, tau_q, f_alpha>>

NotYet == << <<>> >>
QValues == {q[1] : q \in Range(call.q_values)}
MomentInit ==
  pairs = {} /\ slopes = <<>> /\ unmeasured = QValues /\ tau_q = <<>> /\ f_alpha = NotYet
MomentReset ==
  pairs' = {} /\ slopes' = <<>> /\ unmeasured' = QValues /\ tau_q' = <<>> /\ f_alpha' = NotYet

-----------------------------------------------------------------------------
Moments == 5
LevelsWithMaxima ==
  {l \in 1 .. AtMost(Len(selected_scales), Len(selected_moduli)) : selected_moduli[l] # 0}

(* Central differences, one-sided at the ends. *)
Neighbours(i, n) == <<AtLeast(i - 1, 1), AtMost(i + 1, n)>>

(* The partition functions over the levels that have maxima; neutral with  *)
(* fewer than two of them.                                                 *)
PartitionDone == slopes # <<>>
Partition ==
  /\ WtmmDone /\ ~PartitionDone
  /\ pairs' = {<<selected_scales[l], selected_moduli[l]>> : l \in LevelsWithMaxima}
  /\ slopes' = [i \in 1 .. Moments |->
                  IF Cardinality(LevelsWithMaxima) >= 2 THEN Neighbours(i, Moments) ELSE <<>>]
  /\ UNCHANGED <<unmeasured, tau_q, f_alpha>>

-----------------------------------------------------------------------------
(* validate: from 3 to 32 moments, no two with the same bits. *)
MomentsRefused ==
  \/ Len(call.q_values) \notin 3 .. 32
  \/ ~IsInjective(call.q_values)

(* least_squares: no line through fewer than two points. *)
Fits(points) == points >= 2

MomentsDone == unmeasured = {}

(* Sorted, and each value once.  tau_of_moment: a partition sum that       *)
(* overflows is not a point.                                               *)
MeasureMoment ==
  /\ \E q \in unmeasured :
       /\ \A p \in unmeasured : q <= p
       /\ unmeasured' = unmeasured \ {q}
       /\ \E points \in 0 .. Len(SpectrumSizes) :
            tau_q' = IF Fits(points) THEN Append(tau_q, q) ELSE tau_q
  /\ UNCHANGED <<pairs, slopes, f_alpha>>

(* A black picture has no measure, one below eight pixels no two scales. *)
NoMeasure ==
  /\ unmeasured = QValues /\ ~MomentsDone
  /\ unmeasured' = {}
  /\ UNCHANGED <<pairs, slopes, tau_q, f_alpha>>

SpectrumDone == f_alpha # NotYet
Legendre ==
  /\ MomentsDone /\ ~SpectrumDone
  /\ f_alpha' = [k \in 1 .. (IF Len(tau_q) < 3 THEN 0 ELSE Len(tau_q) - 2) |->
                   SubSeq(tau_q, k, k + 2)]
  /\ UNCHANGED <<pairs, slopes, unmeasured, tau_q>>

SpectrumStep == MeasureMoment \/ NoMeasure \/ Legendre

-----------------------------------------------------------------------------
(* Every slope divides by something and belongs to its moment: the wavelet *)
(* source fits over scales that differ, each beside its own maxima; its    *)
(* slopes reach to the nearest moments on both sides that are there; in    *)
(* the fractal source the moments around a value grow, whatever order,     *)
(* zeros and failed fits the ladder has, and no exponent in between is     *)
(* passed over; a spectrum is given exactly for three exponents or more.   *)
MomentsPairUp ==
  /\ \A p, r \in pairs : p[1] = 2 ^ (p[2] - 1) /\ (p[1] = r[1] => p = r)
  /\ \A i \in DOMAIN slopes : slopes[i] # <<>> =>
       /\ 1 <= slopes[i][1] /\ slopes[i][1] < slopes[i][2] /\ slopes[i][2] <= Moments
       /\ {i - 1, i + 1} \cap 1 .. Moments \subseteq {slopes[i][1], slopes[i][2]}
  /\ SpectrumDone =>
       /\ (f_alpha = <<>>) <=> (Cardinality(Range(tau_q)) < 3)
       /\ \A k \in DOMAIN f_alpha :
            LET around == f_alpha[k]
            IN  /\ around[1] < around[2] /\ around[2] < around[3]
                /\ \A q \in Range(tau_q) : q > around[1] /\ q < around[3] => q = around[2]
       /\ f_alpha # <<>> =>
            \A q \in Range(tau_q) :
              \/ \E k \in DOMAIN f_alpha : f_alpha[k][2] = q
              \/ \A p \in Range(tau_q) : p <= q
              \/ \A p \in Range(tau_q) : p >= q
==============================================================================
