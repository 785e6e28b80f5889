---------------------------- MODULE EntropyEngine ----------------------------
(***************************************************************************)
(* `EntropyEngine::analyze_image`: the knob check, the eleven source       *)
(* closures mapped over a rayon parallel iterator, the collection into one *)
(* `Result<Vec<SourceOutcome>>` and the fixed-order fold into a profile.   *)
(*                                                                         *)
(* Any pending closure may start at any moment, so every pool size and     *)
(* every stealing order is a subset of these behaviours.  The three steps  *)
(* after a closure has failed follow rayon's collect into a Result, as     *)
(* the code depends on it: the error goes to a shared cell taken with      *)
(* try_lock (a loser drops its error), then the iteration is told to stop. *)
(***************************************************************************)
EXTENDS EntropyData

VARIABLES
  input,        (* the call's image, flags and knobs; never changes          *)
  phase,        (* "knobs", "sources", "fold", "returned"                    *)
  task,         (* where each closure is                                     *)
  outcome,      (* the SourceOutcome each finished closure produced          *)
  full,         (* rayon's stop flag: no further closure is consumed         *)
  errorLock,    (* the closure holding the saved-error cell, or NoSlot       *)
  savedError,   (* the closure whose error was saved, or NoSlot              *)
  answer        (* what analyze_image returned                               *)

vars == <<input, phase, task, outcome, full, errorLock, savedError, answer>>

TaskState == {"pending", "running", "failed", "storing", "stopping",
              "done", "stopped", "skipped"}
Settled == {"done", "stopped", "skipped"}

Init ==
  /\ input \in Input
  /\ phase = "knobs"
  /\ task = [i \in Slot |-> "pending"]
  /\ outcome = [i \in Slot |-> NoOutcome]
  /\ full = FALSE
  /\ errorLock = NoSlot
  /\ savedError = NoSlot
  /\ answer = NoAnswer

(* The static knobs are applied before any source starts. *)
CheckKnobs ==
  /\ phase = "knobs"
  /\ IF KnobExcludesAll(input)
       THEN phase' = "returned" /\ answer' = InvalidConfiguration
       ELSE phase' = "sources" /\ UNCHANGED answer
  /\ UNCHANGED <<input, task, outcome, full, errorLock, savedError>>

-----------------------------------------------------------------------------
(* A worker takes closure i out of the iterator. *)
Consume(i) ==
  /\ phase = "sources"
  /\ task[i] = "pending"
  /\ ~full
  /\ task' = [task EXCEPT ![i] = "running"]
  /\ UNCHANGED <<input, phase, outcome, full, errorLock, savedError, answer>>

(* Faulty variant: the rest of the range is forgotten, not dropped. *)
SkipForgets(i) ==
  /\ phase = "sources" /\ task[i] = "pending" /\ full
  /\ UNCHANGED vars

(* After the stop flag is up, what is left of the range is dropped. *)
Skip(i) ==
  /\ phase = "sources"
  /\ task[i] = "pending"
  /\ full
  /\ task' = [task EXCEPT ![i] = "skipped"]
  /\ UNCHANGED <<input, phase, outcome, full, errorLock, savedError, answer>>

(* The closure ends with an outcome: its features, or the neutral result   *)
(* of a disabled source, which runs no extractor and so cannot fail.       *)
Produce(i) ==
  /\ phase = "sources"
  /\ task[i] = "running"
  /\ i \notin Culprits(input)
  /\ outcome' = [outcome EXCEPT ![i] = OutcomeOf(input, i)]
  /\ task' = [task EXCEPT ![i] = "done"]
  /\ UNCHANGED <<input, phase, full, errorLock, savedError, answer>>

(* Faulty variant: the extractor runs before the enabled flag is looked at. *)
FailEvenIfDisabled(i) ==
  /\ phase = "sources" /\ task[i] = "running" /\ i \in input.failing
  /\ task' = [task EXCEPT ![i] = "failed"]
  /\ UNCHANGED <<input, phase, outcome, full, errorLock, savedError, answer>>

Fail(i) ==
  /\ phase = "sources"
  /\ task[i] = "running"
  /\ i \in Culprits(input)
  /\ task' = [task EXCEPT ![i] = "failed"]
  /\ UNCHANGED <<input, phase, outcome, full, errorLock, savedError, answer>>

(* try_lock: the loser does not wait, its error is dropped. *)
TryLock(i) ==
  /\ phase = "sources"
  /\ task[i] = "failed"
  /\ IF errorLock = NoSlot
       THEN errorLock' = i /\ task' = [task EXCEPT ![i] = "storing"]
       ELSE UNCHANGED errorLock /\ task' = [task EXCEPT ![i] = "stopping"]
  /\ UNCHANGED <<input, phase, outcome, full, savedError, answer>>

(* Faulty variant: the cell is unlocked before the error is written. *)
StoreErrorTooLate(i) ==
  /\ phase = "sources" /\ task[i] = "storing"
  /\ errorLock' = NoSlot
  /\ task' = [task EXCEPT ![i] = "stopping"]
  /\ UNCHANGED <<input, phase, outcome, full, savedError, answer>>

(* The holder keeps an error that is already there, and unlocks. *)
StoreError(i) ==
  /\ phase = "sources"
  /\ task[i] = "storing"
  /\ savedError' = IF savedError = NoSlot THEN i ELSE savedError
  /\ errorLock' = NoSlot
  /\ task' = [task EXCEPT ![i] = "stopping"]
  /\ UNCHANGED <<input, phase, outcome, full, answer>>

RaiseFull(i) ==
  /\ phase = "sources"
  /\ task[i] = "stopping"
  /\ full' = TRUE
  /\ task' = [task EXCEPT ![i] = "stopped"]
  /\ UNCHANGED <<input, phase, outcome, errorLock, savedError, answer>>

-----------------------------------------------------------------------------
(* Faulty variant: a failing source counts even when it was disabled. *)
JoinBlamesDisabled ==
  /\ phase = "sources"
  /\ \A i \in Slot : task[i] \in Settled
  /\ IF input.failing # {}
       THEN phase' = "returned" /\ answer' = SourceFailed(savedError)
       ELSE phase' = "fold" /\ UNCHANGED answer
  /\ UNCHANGED <<input, task, outcome, full, errorLock, savedError>>

(* All closures are settled: Err if an error was saved, else the outcomes. *)
Join ==
  /\ phase = "sources"
  /\ \A i \in Slot : task[i] \in Settled
  /\ IF savedError # NoSlot
       THEN phase' = "returned" /\ answer' = SourceFailed(savedError)
       ELSE phase' = "fold" /\ UNCHANGED answer
  /\ UNCHANGED <<input, task, outcome, full, errorLock, savedError>>

(* The fold takes the outcomes in index order and checks each tag.  A      *)
(* missing outcome moves the later ones up, so that some position runs dry *)
(* or shows another source's tag.                                          *)
Fold ==
  /\ phase = "fold"
  /\ answer' = IF \A i \in Slot : outcome[i].tag = i
                 THEN Profile([i \in Slot |-> outcome[i].value])
                 ELSE EntropyExtractionFailed
  /\ phase' = "returned"
  /\ UNCHANGED <<input, task, outcome, full, errorLock, savedError>>

Closure(i) ==
  \/ Consume(i) \/ Skip(i) \/ Produce(i) \/ Fail(i)
  \/ TryLock(i) \/ StoreError(i) \/ RaiseFull(i)

Next ==
  \/ CheckKnobs
  \/ \E i \in Slot : Closure(i)
  \/ Join
  \/ Fold

(* rayon keeps running every closure it has been given, and the calling    *)
(* thread goes on once they are settled.                                   *)
Fairness == WF_vars(CheckKnobs) /\ WF_vars(Join) /\ WF_vars(Fold)
            /\ \A i \in Slot : WF_vars(Closure(i))

SafetySpec == Init /\ [][Next]_vars
Spec == SafetySpec /\ Fairness

-----------------------------------------------------------------------------
TypeOK ==
  /\ input \in Input
  /\ phase \in {"knobs", "sources", "fold", "returned"}
  /\ task \in [Slot -> TaskState]
  /\ outcome \in [Slot -> Outcome]
  /\ full \in BOOLEAN
  /\ errorLock \in Slot \cup {NoSlot}
  /\ savedError \in Slot \cup {NoSlot}
  /\ answer \in {NoAnswer, InvalidConfiguration, EntropyExtractionFailed}
                  \cup {SourceFailed(i) : i \in Slot}
                  \cup {Profile(f) : f \in [Slot -> Value]}

(* The dropped error of a closure that lost the try_lock race is never the *)
(* last trace of a failure: as soon as the stop flag is up, or a closure   *)
(* has been skipped, some other closure has saved or is about to save its  *)
(* own (analyze_image's `collect::<Result<Vec<_>>>()?`).                   *)
FailureIsNeverLost ==
  (full \/ \E i \in Slot : task[i] \in {"stopping", "stopped", "skipped"})
     => savedError # NoSlot \/ errorLock # NoSlot

(* Whatever order the closures ran in, the fold finds every outcome under  *)
(* its own index: the EntropyExtractionFailed of into_wtmm and its ten     *)
(* siblings, which the code calls logically impossible, never comes back.  *)
FoldNeverMismatches ==
  /\ phase = "fold" => \A i \in Slot : outcome[i] = OutcomeOf(input, i)
  /\ answer # EntropyExtractionFailed

Contract == INSTANCE AnalysisContract

(* Thread scheduling is invisible to the caller: every behaviour of the    *)
(* parallel engine is one of the contract, in which a call with no failing *)
(* source has exactly one answer (README: "under any thread count").       *)
ImplementsContract == Contract!SafetySpec

(* No schedule leaves analyze_image without an answer: a failing closure   *)
(* never leaves the others waiting for the error cell or the stop flag.    *)
AlwaysAnswers == <>(phase = "returned")
==============================================================================
