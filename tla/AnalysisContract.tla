-------------------------- MODULE AnalysisContract ---------------------------
(***************************************************************************)
(* What `analyze_image` promises its callers, with no thread in sight: one *)
(* answer, which for a sound call is the same profile every time, and for  *)
(* a call with failing sources is the error of one of them.  WHICH of them *)
(* is left open, because the code leaves it open.                          *)
(***************************************************************************)
EXTENDS EntropyData

VARIABLES input, answer

contractVars == <<input, answer>>

TheProfile(in) == Profile([i \in Slot |-> OutcomeOf(in, i).value])

Permitted(in) ==
  IF KnobExcludesAll(in) THEN {InvalidConfiguration}
  ELSE IF Culprits(in) = {} THEN {TheProfile(in)}
  ELSE {SourceFailed(i) : i \in Culprits(in)}

Init == input \in Input /\ answer = NoAnswer

Answer ==
  /\ answer = NoAnswer
  /\ answer' \in Permitted(input)
  /\ input' = input

SafetySpec == Init /\ [][Answer]_contractVars
==============================================================================
