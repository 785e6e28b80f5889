----------------------------- MODULE EntropyData -----------------------------
(***************************************************************************)
(* The data `EntropyEngine::analyze_image` works on, shared by the         *)
(* parallel engine and by the contract it has to meet: what the caller     *)
(* hands over, what one source produces, what the analysis answers.        *)
(***************************************************************************)
EXTENDS Naturals

CONSTANTS
  NumSources,   (* eleven in the code; any positive number here             *)
  Scale         (* the lacunarity box scales the knob and the detector use  *)

ASSUME NumSourcesAssumption == NumSources \in Nat \ {0}

(* A slot is the index a source closure receives: 0 is WTMM, 1 lacunarity... *)
Slot == 0 .. NumSources - 1
NoSlot == NumSources

(***************************************************************************)
(* One call of analyze_image.  `enabled` are the cfg.*_enabled flags;      *)
(* `failing` are the sources whose extractor would return Err on this      *)
(* working buffer and configuration; the last two fields are the           *)
(* lacunarity_scales knob and the scales the adaptive detector picked.     *)
(***************************************************************************)
Input == [enabled: SUBSET Slot, failing: SUBSET Slot,
          knobScales: SUBSET Scale, autoScales: SUBSET Scale \ {{}}]

(* A non-empty knob that keeps none of the detected scales is refused. *)
KnobExcludesAll(in) ==
  /\ in.knobScales # {}
  /\ in.autoScales \cap in.knobScales = {}

(* The closures that run an extractor and whose `?` therefore propagates. *)
Culprits(in) == in.enabled \cap in.failing

(* A SourceOutcome is tagged with the source that built it. *)
Value == {"none", "neutral", "features"}
Outcome == [tag: Slot \cup {NoSlot}, value: Value]
NoOutcome == [tag |-> NoSlot, value |-> "none"]
OutcomeOf(in, i) ==
  [tag |-> i, value |-> IF i \in in.enabled THEN "features" ELSE "neutral"]

NoAnswer == [kind |-> "none"]
Profile(f) == [kind |-> "ok", profile |-> f]
SourceFailed(i) == [kind |-> "err", name |-> "SourceFailed", source |-> i]
InvalidConfiguration ==
  [kind |-> "err", name |-> "InvalidConfiguration", source |-> NoSlot]
EntropyExtractionFailed ==
  [kind |-> "err", name |-> "EntropyExtractionFailed", source |-> NoSlot]
==============================================================================
