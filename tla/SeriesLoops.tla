----------------------------- MODULE SeriesLoops ------------------------------
(***************************************************************************)
(* The sources that read the working picture as one long row of pixels:    *)
(* the suffixes and windows of the two Hurst estimates, and the orbit of   *)
(* the chaos source, which takes two pixels at every iteration.            *)
(***************************************************************************)
EXTENDS PixelBlocks

VARIABLES
  suffixes,      (* taken by the rescaled range: where each starts           *)
  rest,          (* the length of the next, 0 when the loop has ended        *)
  windows,       (* of the variance-time estimate, at the last width         *)
  aggregate,     (* the next width, 0 when the loop has ended                *)
  iteration,     (* of the orbit                                             *)
  taps           (* pixels taken since the first tap was last at the start   *)

seriesVars == <<suffixes, rest, windows, aggregate, iteration, taps>>

NoTaps == [x |-> {}, y |-> {}]
SeriesInit ==
  /\ suffixes = <<>> /\ rest = NumPixels
  /\ windows = {} /\ aggregate = 2
  /\ iteration = 0 /\ taps = NoTaps
SeriesReset ==
  /\ suffixes' = <<>> /\ rest' = NumPixels
  /\ windows' = {} /\ aggregate' = 2
  /\ iteration' = 0 /\ taps' = NoTaps

-----------------------------------------------------------------------------
Shortest == 64
Suffix(length) == NumPixels - length
WindowsOf(m) == {<<k * m, (k + 1) * m>> : k \in 0 .. NumPixels \div m - 1}

(* rescaled_range_hurst: halves of what is left, at the end of the row. *)
RescaleDone == rest < Shortest
Rescale ==
  /\ ~RescaleDone
  /\ suffixes' = Append(suffixes, Suffix(rest))
  /\ rest' = IF rest <= 2 * Shortest THEN 0 ELSE rest \div 2
  /\ UNCHANGED <<windows, aggregate, iteration, taps>>

(* variance_time_fit: widths double up to a quarter of the row. *)
AggregateDone == NumPixels < 8 \/ aggregate = 0 \/ aggregate > NumPixels \div 4
Aggregate ==
  /\ RescaleDone /\ ~AggregateDone
  /\ windows' = WindowsOf(aggregate)
  /\ aggregate' = IF aggregate > NumPixels \div 8 THEN 0 ELSE 2 * aggregate
  /\ UNCHANGED <<suffixes, rest, iteration, taps>>

HurstStep == Rescale \/ Aggregate
HurstDone == RescaleDone /\ AggregateDone

-----------------------------------------------------------------------------
(* validate_config of the chaos source, and a picture without a pixel. *)
MAX_ITERATIONS == 1000000
ChaosRefuses == call.iterations \notin 1 .. MAX_ITERATIONS \/ NumPixels = 0

OrbitTap(i) == (i * 31 + 17) % NumPixels

ChaosDone == iteration = call.iterations
Iterate ==
  /\ ~ChaosDone
  /\ LET before == IF iteration % NumPixels = 0 THEN NoTaps ELSE taps
     IN  taps' = [x |-> before.x \cup {iteration % NumPixels},
                  y |-> before.y \cup {OrbitTap(iteration)}]
  /\ iteration' = iteration + 1
  /\ UNCHANGED <<suffixes, rest, windows, aggregate>>

-----------------------------------------------------------------------------
(* Both Hurst estimates see whole pieces only: no suffix is shorter than   *)
(* the least length nor starts before the row, every one but the first is  *)
(* half of the one before, and a row that is long enough has one; windows  *)
(* of a width are side by side from the start, at least four, and leave    *)
(* over less than one.                                                     *)
SeriesAreWhole ==
  /\ \A k \in DOMAIN suffixes :
       /\ suffixes[k] >= 0 /\ NumPixels - suffixes[k] >= Shortest
       /\ k > 1 => NumPixels - suffixes[k] = (NumPixels - suffixes[k - 1]) \div 2
  /\ RescaleDone /\ NumPixels >= Shortest => suffixes # <<>>
  /\ windows # {} =>
       LET size == LET w == CHOOSE w \in windows : TRUE IN w[2] - w[1]
           read == UNION {w[1] .. w[2] - 1 : w \in windows}
       IN  /\ Cardinality(windows) >= 4
           /\ \A w \in windows : w[2] - w[1] = size
           /\ Cardinality(read) = Cardinality(windows) * size
           /\ read = 0 .. Cardinality(read) - 1 /\ NumPixels - Cardinality(read) < size

(* Until the first tap starts again, the orbit takes no pixel twice with   *)
(* the same tap, so that after as many iterations as there are pixels each *)
(* of them has steered both coordinates; a stride that divides the number  *)
(* of pixels is the exception (comment on PIXEL_TAP_STRIDE).               *)
OrbitTakesAll ==
  iteration > 0 =>
    LET turnLength == ((iteration - 1) % NumPixels) + 1
    IN  /\ Cardinality(taps.x) = turnLength
        /\ NumPixels % 31 # 0 => Cardinality(taps.y) = turnLength
==============================================================================
