---------------------------- MODULE WitnessMixing -----------------------------
(***************************************************************************)
(* From the profile to the witness that the key is drawn from:             *)
(* `Strategy::determine`, `ConversionPipeline::normalize` and              *)
(* `mixer::create_byte_sequence`.  A byte is named for the value it comes  *)
(* from, a signature stands for its bytes.  Entropies are whole numbers    *)
(* and weights fractions of their total: every source keeps its entropy    *)
(* finite, so there are no NaNs to sort.                                   *)
(***************************************************************************)
EXTENDS SourceConfig, FiniteSets

CONSTANTS
  EntropyBits,   (* profiles: the entropy of each of the eleven sources      *)
  OwnStrategies  (* strategies a client of create_byte_sequence puts together *)

Source == 0 .. 10
Index(s) == s - 1         (* of the s-th source of EntropySource::all        *)

VARIABLES
  strategy,      (* name, sources, weights and what the weights are parts of *)
  row,           (* of the interleaving                                      *)
  normalized,
  span,          (* spans carved so far                                      *)
  witness

mixVars == <<strategy, row, normalized, span, witness>>

NoStrategy == [name |-> "none", sources |-> <<>>, weights |-> <<>>, total |-> 1]

MixInit ==
  /\ strategy = NoStrategy /\ row = 1
  /\ normalized = <<>> /\ span = 0 /\ witness = <<>>

-----------------------------------------------------------------------------
Cumulative(ws) ==
  LET sum[k \in 0 .. Len(ws)] == IF k = 0 THEN 0 ELSE sum[k - 1] + ws[k] IN sum

(* Weights that are all there add up (`Strategy`: "summing to 1"); a client *)
(* may give fewer of them than sources.                                    *)
ASSUME MixingAssumption ==
  /\ EntropyBits \subseteq [Source -> Nat]
  /\ \A s \in OwnStrategies :
       /\ s.sources \in Seq(Source) /\ s.weights \in Seq(Nat) /\ s.total \in Nat \ {0}
       /\ LET spans == AtLeast(Len(s.sources), 1)
          IN  Len(s.weights) >= spans => Cumulative(s.weights)[spans] >= s.total

Total(bits) == Cumulative([s \in 1 .. 11 |-> bits[Index(s)]])[11]

NameFor(bits) ==
  LET total == Total(bits)
  IN  CASE total = 0 -> "Balanced"
        [] total > 0 /\ 10 * bits[0] > 4 * total -> "WtmmPrimary"
        [] total > 0 /\ 10 * bits[0] <= 4 * total /\ 10 * bits[1] > 4 * total ->
             "LacunarityPrimary"
        [] OTHER -> IF 10 * bits[5] > 3 * total THEN "TextureHeavy"
                    ELSE IF bits[6] > 5 THEN "NoiseAdaptive" ELSE "Balanced"

(* Sources by weight, ties by canonical index. *)
Before(weight, i, j) == weight[i] > weight[j] \/ (weight[i] = weight[j] /\ i < j)
Rank(weight, i) == Cardinality({j \in Source : Before(weight, j, i)})

(* Strategy::determine. *)
Determined(bits) ==
  LET total  == Total(bits)
      weight == [i \in Source |-> IF total = 0 THEN 1 ELSE bits[i]]
      ranked == [k \in 1 .. 11 |-> CHOOSE i \in Source : Rank(weight, i) = k - 1]
  IN  [name |-> NameFor(bits), sources |-> ranked,
       weights |-> [k \in 1 .. 11 |-> weight[ranked[k]]],
       total |-> IF total = 0 THEN 11 ELSE total]

Determine ==
  /\ strategy = NoStrategy
  /\ \/ \E bits \in EntropyBits : strategy' = Determined(bits)
     \/ strategy' \in OwnStrategies
  /\ UNCHANGED <<row, normalized, span, witness>>

-----------------------------------------------------------------------------
(* The four sources whose values are interleaved, and how many they have. *)
Interleaved == {"wtmm", "lacunarity", "multifractal", "texture"}
NumValues(s) ==
  IF s \in call.disabled THEN 0
  ELSE CASE s = "wtmm" -> Ladder.steps
         [] s = "lacunarity" -> Cardinality(Scales)
         [] s = "multifractal" -> call.moments
         [] s = "texture" -> call.orientations * call.frequencies
MaxIter ==
  CHOOSE n \in {NumValues(s) : s \in Interleaved} : \A s \in Interleaved : NumValues(s) <= n

Turn(s, i) == IF i <= NumValues(s) THEN << <<s, i>> >> ELSE <<>>
Row(i) ==
  Turn("wtmm", i) \o Turn("lacunarity", i) \o Turn("multifractal", i) \o Turn("texture", i)

Values(s, n) == [k \in 1 .. n |-> <<s, k>>]
AfterRounds ==
  Values("direction", 8) \o Values("orientation", call.orientations) \o Values("hurst", 3)
    \o Values("gradient", 1) \o Values("noise", 4) \o Values("chaos", 2) \o Values("quantum_density", 2)
    \o Values("lattice", 3) \o Values("fractal_aware", 4)

(* normalize: round robin as long as somebody has a value left. *)
NormalizeRow ==
  /\ strategy # NoStrategy /\ row <= MaxIter
  /\ normalized' = normalized \o Row(row)
  /\ row' = row + 1
  /\ UNCHANGED <<strategy, span, witness>>

(* Then the profiles, the scalars and the signatures. *)
NormalizeTail ==
  /\ strategy # NoStrategy /\ row = MaxIter + 1
  /\ normalized' = normalized \o AfterRounds
  /\ row' = row + 1
  /\ UNCHANGED <<strategy, span, witness>>

-----------------------------------------------------------------------------
NumSpans == AtLeast(Len(strategy.sources), 1)

(* Faulty variant: a boundary that is missing is at the beginning. *)
BoundaryOrZero(k) ==
  IF k <= Len(strategy.weights)
    THEN AtMost(Cumulative(strategy.weights)[k], strategy.total)
    ELSE 0

(* The k-th boundary: the weights up to k, at most 1; 1 if there is none.  *)
Boundary(k) ==
  IF k <= Len(strategy.weights)
    THEN AtMost(Cumulative(strategy.weights)[k], strategy.total)
    ELSE strategy.total

(* ... in bytes, rounded to the nearest.                                   *)
CutAt(k) ==
  (2 * Boundary(k) * Len(normalized) + strategy.total) \div (2 * strategy.total)

CarveSpan ==
  /\ row = MaxIter + 2 /\ span < NumSpans
  /\ LET lo == CutAt(span)
         hi == AtLeast(CutAt(span + 1), lo)
     IN  witness' = witness \o SubSeq(normalized, lo + 1, hi)
  /\ span' = span + 1
  /\ UNCHANGED <<strategy, row, normalized>>

(* The tag: the first letter of the name, which tells the names apart, and *)
(* the version.                                                            *)
Tag == << <<"name", strategy.name>>, <<"version", 1>> >>
AppendTag ==
  /\ row = MaxIter + 2 /\ span = NumSpans
  /\ witness' = witness \o Tag
  /\ span' = span + 1
  /\ UNCHANGED <<strategy, row, normalized>>

MixStep == Determine \/ NormalizeRow \/ NormalizeTail \/ CarveSpan \/ AppendTag
MixDone == strategy # NoStrategy /\ span = NumSpans + 1

-----------------------------------------------------------------------------
(* Every value of every source reaches the key exactly once: nothing is    *)
(* lost to the shorter sources of the round robin, to the rounding of a    *)
(* span or to a strategy with fewer weights than sources, and no span      *)
(* overlaps the next (mixer.rs, test: "all bytes must still be accounted   *)
(* for exactly once").  The last bytes name the strategy.                  *)
WitnessIsWhole ==
  MixDone =>
    LET due == (UNION {{s} \X (1 .. NumValues(s)) : s \in Interleaved})
                 \cup {AfterRounds[k] : k \in DOMAIN AfterRounds} \cup {Tag[1], Tag[2]}
    IN  /\ {witness[k] : k \in DOMAIN witness} = due
        /\ Len(witness) = Cardinality(due)
        /\ SubSeq(witness, Len(witness) - 1, Len(witness)) = Tag
==============================================================================
