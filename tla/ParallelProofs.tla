--------------------------- MODULE ParallelProofs ----------------------------
(***************************************************************************)
(* The two places where rayon runs closures side by side.  For every       *)
(* number of sources and every set of scales, the parallel engine loses no *)
(* failure and answers as its contract permits; for lattices of every      *)
(* size, every update rule and number of sweeps, the row-parallel sweeps   *)
(* are the synchronous ones, and sign two moments of them.                 *)
(***************************************************************************)
EXTENDS EntropyEngine, CoupledMapLattice, SequenceTheorems, TLAPS

-----------------------------------------------------------------------------
(* EntropyEngine: the inductive invariant, in named parts. *)

(* What a task's state says about its source. *)
TaskTells ==
  \A i \in Slot :
    /\ task[i] = "done" => i \notin Culprits(input)
                           /\ outcome[i] = OutcomeOf(input, i)
    /\ task[i] \in {"failed", "storing", "stopping", "stopped"}
         => i \in Culprits(input)
    /\ task[i] = "storing" => errorLock = i

(* The error cell is held by a closure that will write it, and holds the   *)
(* error of a source that failed.                                          *)
CellTells ==
  /\ errorLock # NoSlot => task[errorLock] = "storing"
  /\ savedError # NoSlot => savedError \in Culprits(input)

(* What the phase says about the call. *)
PhaseTells ==
  /\ phase \in {"sources", "fold"} => ~KnobExcludesAll(input)
  /\ phase = "fold" => \A i \in Slot : task[i] = "done"
  /\ phase # "returned" => answer = NoAnswer
  /\ phase = "returned" => answer \in Contract!Permitted(input)

EngineInv ==
  TypeOK /\ TaskTells /\ CellTells /\ PhaseTells /\ FailureIsNeverLost

LEMMA NoSlotIsFresh == NoSlot \notin Slot
  BY NumSourcesAssumption DEF NoSlot, Slot

LEMMA OutcomesAreTyped ==
  ASSUME NEW in, NEW i \in Slot
  PROVE  OutcomeOf(in, i) \in Outcome /\ OutcomeOf(in, i).tag = i
  BY DEF OutcomeOf, Outcome, Value

(* The error answers name exactly one source each, and none is NoAnswer. *)
LEMMA ErrorsDiffer ==
  /\ \A i : SourceFailed(i) # EntropyExtractionFailed
  /\ InvalidConfiguration # EntropyExtractionFailed
  /\ \A f : Profile(f) # EntropyExtractionFailed
  BY DEF SourceFailed, EntropyExtractionFailed, InvalidConfiguration, Profile

-----------------------------------------------------------------------------
LEMMA TypeInit == Init => TypeOK
<1> SUFFICES ASSUME Init PROVE TypeOK
  OBVIOUS
<1>1. NoOutcome \in Outcome
  BY DEF NoOutcome, Outcome, Value
<1>2. task \in [Slot -> TaskState] /\ outcome \in [Slot -> Outcome]
  BY <1>1 DEF Init, TaskState
<1> QED
  BY <1>2 DEF Init, TypeOK

(* Every step keeps the types: one step of the proof per action. *)
LEMMA TypeNext == TypeOK /\ [Next]_vars => TypeOK'
<1> SUFFICES ASSUME TypeOK, [Next]_vars PROVE TypeOK'
  OBVIOUS
<1> USE DEF TypeOK, TaskState
<1>1. CASE CheckKnobs
  BY <1>1 DEF CheckKnobs
<1>2. ASSUME NEW i \in Slot, Consume(i) PROVE TypeOK'
  BY <1>2 DEF Consume
<1>3. ASSUME NEW i \in Slot, Skip(i) PROVE TypeOK'
  BY <1>3 DEF Skip
<1>4. ASSUME NEW i \in Slot, Produce(i) PROVE TypeOK'
  BY <1>4, OutcomesAreTyped DEF Produce
<1>5. ASSUME NEW i \in Slot, Fail(i) PROVE TypeOK'
  BY <1>5 DEF Fail
<1>6. ASSUME NEW i \in Slot, TryLock(i) PROVE TypeOK'
  BY <1>6 DEF TryLock
<1>7. ASSUME NEW i \in Slot, StoreError(i) PROVE TypeOK'
  BY <1>7 DEF StoreError
<1>8. ASSUME NEW i \in Slot, RaiseFull(i) PROVE TypeOK'
  BY <1>8 DEF RaiseFull
<1>9. CASE Join
  BY <1>9 DEF Join
<1>10. CASE Fold
  <2>1. [i \in Slot |-> outcome[i].value] \in [Slot -> Value]
    BY DEF Outcome
  <2>2. answer' \in {EntropyExtractionFailed}
                     \cup {Profile(f) : f \in [Slot -> Value]}
    BY <1>10, <2>1 DEF Fold
  <2> QED BY <1>10, <2>2 DEF Fold
<1>11. CASE UNCHANGED vars
  BY <1>11 DEF vars
<1> QED
  BY <1>1, <1>2, <1>3, <1>4, <1>5, <1>6, <1>7, <1>8, <1>9, <1>10, <1>11
     DEF Next, Closure

(* TypeOK of EntropyEngine holds in every reachable state, for any number  *)
(* of sources.                                                             *)
THEOREM TypeCorrect == SafetySpec => []TypeOK
  BY TypeInit, TypeNext, PTL DEF SafetySpec

-----------------------------------------------------------------------------
(* The contract's permitted answers, in the engine's own names. *)
LEMMA PermittedAnswers ==
  ASSUME NEW in
  PROVE  Contract!Permitted(in) =
           IF KnobExcludesAll(in) THEN {InvalidConfiguration}
           ELSE IF Culprits(in) = {}
                  THEN {Profile([i \in Slot |-> OutcomeOf(in, i).value])}
           ELSE {SourceFailed(i) : i \in Culprits(in)}
  BY DEF Contract!Permitted, Contract!TheProfile,
     KnobExcludesAll, Contract!KnobExcludesAll, Culprits, Contract!Culprits,
     InvalidConfiguration, Contract!InvalidConfiguration,
     Profile, Contract!Profile, SourceFailed, Contract!SourceFailed,
     OutcomeOf, Contract!OutcomeOf,
     Slot, Contract!Slot, NoSlot, Contract!NoSlot

LEMMA InvInit == Init => EngineInv
<1> SUFFICES ASSUME Init PROVE EngineInv
  OBVIOUS
<1>1. TypeOK
  BY TypeInit
<1>2. \A i \in Slot : task[i] = "pending"
  BY DEF Init
<1>3. TaskTells /\ CellTells /\ PhaseTells /\ FailureIsNeverLost
  BY <1>2 DEF Init, TaskTells, CellTells, PhaseTells, FailureIsNeverLost
<1> QED BY <1>1, <1>3 DEF EngineInv

(* What a settled set of closures with an empty cell must look like: the   *)
(* heart of the argument that a dropped error is never the only one.       *)
LEMMA SettledWithoutErrorIsDone ==
  ASSUME EngineInv, \A i \in Slot : task[i] \in Settled, savedError = NoSlot
  PROVE  \A i \in Slot : task[i] = "done"
<1>1. errorLock = NoSlot
  BY NoSlotIsFresh DEF EngineInv, TypeOK, CellTells, Settled
<1>2. \A i \in Slot : task[i] \notin {"stopped", "skipped"}
  BY <1>1 DEF EngineInv, FailureIsNeverLost
<1> QED BY <1>2 DEF Settled

LEMMA InvNext == EngineInv /\ [Next]_vars => EngineInv'
<1> SUFFICES ASSUME EngineInv, [Next]_vars PROVE EngineInv'
  OBVIOUS
<1> USE NoSlotIsFresh
<1> USE DEF EngineInv, TaskTells, CellTells, PhaseTells, FailureIsNeverLost
<1>0. TypeOK /\ TypeOK'
  BY TypeNext
<1>1. CASE CheckKnobs
  <2>1. KnobExcludesAll(input) => answer' \in Contract!Permitted(input')
    BY <1>1, PermittedAnswers DEF CheckKnobs
  <2> QED BY <1>0, <1>1, <2>1 DEF CheckKnobs, TypeOK
<1>2. ASSUME NEW i \in Slot, Consume(i) PROVE EngineInv'
  BY <1>0, <1>2 DEF Consume, TypeOK
<1>3. ASSUME NEW i \in Slot, Skip(i) PROVE EngineInv'
  BY <1>0, <1>3 DEF Skip, TypeOK
<1>4. ASSUME NEW i \in Slot, Produce(i) PROVE EngineInv'
  BY <1>0, <1>4 DEF Produce, TypeOK
<1>5. ASSUME NEW i \in Slot, Fail(i) PROVE EngineInv'
  BY <1>0, <1>5 DEF Fail, TypeOK
<1>6. ASSUME NEW i \in Slot, TryLock(i) PROVE EngineInv'
  BY <1>0, <1>6 DEF TryLock, TypeOK
<1>7. ASSUME NEW i \in Slot, StoreError(i) PROVE EngineInv'
  BY <1>0, <1>7 DEF StoreError, TypeOK
<1>8. ASSUME NEW i \in Slot, RaiseFull(i) PROVE EngineInv'
  BY <1>0, <1>8 DEF RaiseFull, TypeOK
<1>9. CASE Join
  <2>1. CASE savedError = NoSlot
    <3>1. \A i \in Slot : task[i] = "done"
      BY <1>9, <2>1, SettledWithoutErrorIsDone DEF Join
    <3> QED BY <1>0, <1>9, <2>1, <3>1 DEF Join, TypeOK
  <2>2. CASE savedError # NoSlot
    <3>1. answer' \in Contract!Permitted(input')
      BY <1>9, <2>2, PermittedAnswers DEF Join
    <3> QED BY <1>0, <1>9, <2>2, <3>1 DEF Join, TypeOK
  <2> QED BY <2>1, <2>2
<1>10. CASE Fold
  <2>1. \A i \in Slot : outcome[i] = OutcomeOf(input, i) /\ i \notin Culprits(input)
    BY <1>10 DEF Fold
  <2>2. \A i \in Slot : outcome[i].tag = i
    BY <2>1, OutcomesAreTyped
  <2>3. Culprits(input) = {}
    <3>1. input.enabled \subseteq Slot
      BY <1>0 DEF TypeOK, Input
    <3> QED BY <2>1, <3>1 DEF Culprits
  <2>4. [i \in Slot |-> outcome[i].value]
          = [i \in Slot |-> OutcomeOf(input, i).value]
    BY <2>1
  <2>5. answer' = Profile([i \in Slot |-> OutcomeOf(input, i).value])
    BY <1>10, <2>2, <2>4 DEF Fold
  <2>6. answer' \in Contract!Permitted(input')
    BY <1>10, <2>3, <2>5, PermittedAnswers DEF Fold
  <2> QED BY <1>0, <1>10, <2>6 DEF Fold, TypeOK
<1>11. CASE UNCHANGED vars
  BY <1>0, <1>11 DEF vars, TypeOK
<1> QED
  BY <1>1, <1>2, <1>3, <1>4, <1>5, <1>6, <1>7, <1>8, <1>9, <1>10, <1>11
     DEF Next, Closure

LEMMA EngineInvariant == SafetySpec => []EngineInv
  BY InvInit, InvNext, PTL DEF SafetySpec

-----------------------------------------------------------------------------
(* FailureIsNeverLost for every number of sources: a closure that loses    *)
(* the try_lock race can drop its error safely.                            *)
THEOREM NoFailureIsLost == SafetySpec => []FailureIsNeverLost
<1>1. EngineInv => FailureIsNeverLost
  BY DEF EngineInv
<1> QED BY <1>1, EngineInvariant, PTL

LEMMA PermittedIsNotAMismatch ==
  ASSUME NEW in PROVE EntropyExtractionFailed \notin Contract!Permitted(in)
  BY PermittedAnswers, ErrorsDiffer

(* FoldNeverMismatches for every number of sources: the order mismatch     *)
(* the fold guards against cannot happen.                                  *)
THEOREM FoldIsOrdered == SafetySpec => []FoldNeverMismatches
<1>1. EngineInv => FoldNeverMismatches
  <2> SUFFICES ASSUME EngineInv PROVE FoldNeverMismatches
    OBVIOUS
  <2>1. phase = "fold" => \A i \in Slot : outcome[i] = OutcomeOf(input, i)
    BY DEF EngineInv, TaskTells, PhaseTells
  <2>2. NoAnswer # EntropyExtractionFailed
    BY DEF NoAnswer, EntropyExtractionFailed
  <2>3. answer # EntropyExtractionFailed
    BY <2>2, PermittedIsNotAMismatch DEF EngineInv, PhaseTells
  <2> QED BY <2>1, <2>3 DEF FoldNeverMismatches
<1> QED BY <1>1, EngineInvariant, PTL

(* A step of the engine that answers is the contract's Answer; every other *)
(* step leaves the contract's variables alone.                             *)
LEMMA StepImplementsAnswer ==
  EngineInv /\ EngineInv' /\ [Next]_vars
    => [Contract!Answer]_(Contract!contractVars)
<1> SUFFICES ASSUME EngineInv, EngineInv', [Next]_vars
             PROVE  [Contract!Answer]_(Contract!contractVars)
  OBVIOUS
<1>1. input' = input
  BY DEF Next, Closure, vars, CheckKnobs, Consume, Skip, Produce, Fail,
     TryLock, StoreError, RaiseFull, Join, Fold
<1>2. CASE UNCHANGED answer
  BY <1>1, <1>2 DEF Contract!contractVars
<1>3. CASE answer' # answer
  <2>1. phase # "returned" /\ phase' = "returned"
    BY <1>3 DEF Next, Closure, vars, CheckKnobs, Consume, Skip, Produce, Fail,
       TryLock, StoreError, RaiseFull, Join, Fold
  <2>2. answer = Contract!NoAnswer
    BY <2>1 DEF EngineInv, PhaseTells, NoAnswer, Contract!NoAnswer
  <2>3. answer' \in Contract!Permitted(input)
    BY <1>1, <2>1 DEF EngineInv, PhaseTells
  <2> QED BY <1>1, <2>2, <2>3 DEF Contract!Answer
<1> QED BY <1>2, <1>3

LEMMA InitImplementsInit == Init => Contract!Init
  BY DEF Init, Contract!Init, NoAnswer, Contract!NoAnswer,
     Input, Contract!Input, Slot, Contract!Slot

(* ImplementsContract for every number of sources: the  *)
(* parallel engine answers what the contract permits, once, under any      *)
(* schedule and so under any thread count.                                 *)
THEOREM EngineImplementsContract == SafetySpec => ImplementsContract
<1>1. EngineInv /\ EngineInv' /\ [Next]_vars
        => [Contract!Answer]_(Contract!contractVars)
  BY StepImplementsAnswer
<1> QED
  BY <1>1, InitImplementsInit, EngineInvariant, PTL
     DEF SafetySpec, Contract!SafetySpec, ImplementsContract

-----------------------------------------------------------------------------
(* CoupledMapLattice: the inductive invariant, in named parts. *)

(* Where the loop stands. *)
LoopTells ==
  /\ stage \in {"between", "rows", "signed"} => sweeps \in 1 .. MaxSweeps
  /\ stage \in {"validate", "refused"} => sweep = 0
  /\ stage \in {"between", "rows"} => sweep <= sweeps
  /\ stage = "rows" => sweep < sweeps

(* A running sweep has overwritten, of each row, the columns before        *)
(* column[i], and nothing else.                                            *)
RowsTell ==
  stage = "rows" =>
    /\ snapshot \in Lattice
    /\ prev_bytes = Bytes(snapshot)
    /\ \A i \in Row, j \in Column :
         lattice[<<i, j>>] = IF j < column[i] THEN Updated(snapshot, i, j)
                         ELSE snapshot[<<i, j>>]

(* The buffers between sweeps, and the half-way clone. *)
BuffersTell ==
  /\ stage = "between" => prev_bytes = Bytes(lattice)
  /\ stage \in {"validate", "between"} /\ sweep <= sweeps \div 2
       => mid_state = NoLattice
  /\ stage = "rows" /\ sweep < sweeps \div 2 => mid_state = NoLattice
  /\ stage = "rows" /\ sweep = sweeps \div 2 => mid_state = snapshot

LatticeInv == LatticeTypeOK /\ LoopTells /\ RowsTell /\ BuffersTell

-----------------------------------------------------------------------------
LEMMA NeighboursOnTorus ==
  ASSUME NEW i \in Row, NEW j \in Column
  PROVE  North(i) \in Row /\ South(i) \in Row /\ West(j) \in Column /\ East(j) \in Column
  BY LatticeAssumption DEF LatticeAssumption, Row, Column, North, South, West, East

LEMMA UpdatedIsState ==
  ASSUME NEW u \in Lattice, NEW i \in Row, NEW j \in Column
  PROVE  Updated(u, i, j) \in State
  BY NeighboursOnTorus, LatticeAssumption DEF LatticeAssumption, Updated, Lattice, Site

LEMMA LatticeTypeInit == LatticeInit => LatticeTypeOK
  BY LatticeAssumption DEF LatticeAssumption, LatticeInit, LatticeTypeOK, Lattice

(* Types and the position of the loop need each other. *)
LEMMA LatticeTypeNext ==
  ASSUME LatticeInv, [LatticeNext]_latticeVars
  PROVE  LatticeTypeOK' /\ LoopTells'
<1> USE LatticeAssumption DEF LatticeAssumption, LatticeTypeOK, LoopTells
<1>1. CASE Validate
  BY <1>1 DEF LatticeInv, Validate
<1>2. CASE BeginSweep
  BY <1>2 DEF LatticeInv, BeginSweep
<1>3. ASSUME NEW i \in Row, UpdateSite(i) PROVE LatticeTypeOK' /\ LoopTells'
  <2>1. column[i] \in Column
    BY <1>3 DEF LatticeInv, UpdateSite, Column
  <2>2. Updated(snapshot, i, column[i]) \in State
    BY <1>3, <2>1, UpdatedIsState DEF LatticeInv, RowsTell, UpdateSite
  <2>3. lattice' \in Lattice
    BY <1>3, <2>1, <2>2 DEF LatticeInv, UpdateSite, Lattice, Site
  <2> QED BY <1>3, <2>3 DEF LatticeInv, UpdateSite
<1>4. CASE EndSweep
  BY <1>4 DEF LatticeInv, EndSweep
<1>5. CASE Sign
  BY <1>5 DEF LatticeInv, Sign
<1>6. CASE UNCHANGED latticeVars
  BY <1>6 DEF LatticeInv, latticeVars
<1> QED BY <1>1, <1>2, <1>3, <1>4, <1>5, <1>6 DEF LatticeNext

LEMMA LatticeInvInit == LatticeInit => LatticeInv
<1> SUFFICES ASSUME LatticeInit PROVE LatticeInv
  OBVIOUS
<1>1. LatticeTypeOK
  BY LatticeTypeInit
<1>2. LoopTells /\ RowsTell /\ BuffersTell
  BY LatticeAssumption DEF LatticeAssumption, LatticeInit, LoopTells, RowsTell, BuffersTell
<1> QED BY <1>1, <1>2 DEF LatticeInv

LEMMA Counters ==
  ASSUME LatticeTypeOK
  PROVE  sweeps \in Nat /\ sweep \in Nat /\ sweeps \div 2 \in Nat
<1>1. sweeps \in Nat /\ sweep \in Nat
  BY LatticeAssumption DEF LatticeAssumption, LatticeTypeOK
<1>2. \A n \in Nat : n \div 2 \in Nat
  OBVIOUS
<1> QED BY <1>1, <1>2

(* One site of one row is written; every other one keeps its value. *)
LEMMA RowsNext ==
  ASSUME LatticeInv, NEW r \in Row, UpdateSite(r)
  PROVE  RowsTell'
<1>1. column[r] \in Column /\ column \in [Row -> 0 .. Width] /\ Width \in Nat
  <2>1. column[r] \in 0 .. Width /\ column[r] < Width /\ Width \in Nat
    BY LatticeAssumption DEF LatticeAssumption, LatticeInv, LatticeTypeOK, UpdateSite
  <2> QED BY <2>1 DEF Column, LatticeInv, LatticeTypeOK
<1>2. lattice' = [lattice EXCEPT ![<<r, column[r]>>] = Updated(snapshot, r, column[r])]
  BY DEF UpdateSite
<1>3. column' = [column EXCEPT ![r] = @ + 1]
  BY DEF UpdateSite
<1>4. lattice \in [Site -> State]
  BY DEF LatticeInv, LatticeTypeOK, Lattice
<1>5. \A i \in Row, j \in Column :
        lattice[<<i, j>>] = IF j < column[i] THEN Updated(snapshot, i, j)
                        ELSE snapshot[<<i, j>>]
  BY DEF LatticeInv, RowsTell, UpdateSite
<1>6. ASSUME NEW i \in Row, NEW j \in Column
      PROVE  lattice'[<<i, j>>] = IF j < column'[i] THEN Updated(snapshot, i, j)
                              ELSE snapshot[<<i, j>>]
  <2>1. <<i, j>> \in Site /\ <<r, column[r]>> \in Site
    BY <1>1 DEF Site
  <2>2. CASE i = r /\ j = column[r]
    <3>1. lattice'[<<i, j>>] = Updated(snapshot, i, j)
      BY <1>2, <1>4, <2>1, <2>2
    <3>2. j < column'[i]
      BY <1>1, <1>3, <2>2 DEF Column
    <3> QED BY <3>1, <3>2
  <2>3. CASE ~(i = r /\ j = column[r])
    <3>1. lattice'[<<i, j>>] = lattice[<<i, j>>]
      BY <1>2, <1>4, <2>1, <2>3
    <3>2. (j < column'[i]) <=> (j < column[i])
      BY <1>1, <1>3, <2>3 DEF Column
    <3> QED BY <1>5, <3>1, <3>2
  <2> QED BY <2>2, <2>3
<1>7. snapshot' = snapshot /\ prev_bytes' = prev_bytes /\ stage = "rows"
  BY DEF UpdateSite
<1> QED BY <1>6, <1>7 DEF LatticeInv, RowsTell

LEMMA LatticeInvNext == LatticeInv /\ [LatticeNext]_latticeVars => LatticeInv'
<1> SUFFICES ASSUME LatticeInv, [LatticeNext]_latticeVars PROVE RowsTell' /\ BuffersTell'
  BY LatticeTypeNext DEF LatticeInv
<1>0. sweeps \in Nat /\ sweep \in Nat /\ sweeps \div 2 \in Nat
  BY Counters DEF LatticeInv
<1>1. CASE Validate
  BY <1>1 DEF LatticeInv, RowsTell, BuffersTell, Validate
<1>2. CASE BeginSweep
  <2>1. \A i \in Row, j \in Column : ~(j < column'[i])
    BY <1>2 DEF BeginSweep, Column
  <2>2. RowsTell'
    BY <1>2, <2>1 DEF LatticeInv, LatticeTypeOK, RowsTell, BuffersTell, BeginSweep
  <2>3. BuffersTell'
    BY <1>0, <1>2 DEF LatticeInv, BuffersTell, BeginSweep
  <2> QED BY <2>2, <2>3
<1>3. ASSUME NEW r \in Row, UpdateSite(r) PROVE RowsTell' /\ BuffersTell'
  <2>1. BuffersTell'
    BY <1>3 DEF LatticeInv, BuffersTell, UpdateSite
  <2> QED BY <1>3, <2>1, RowsNext
<1>4. CASE EndSweep
  <2>1. BuffersTell'
    BY <1>0, <1>4 DEF LatticeInv, BuffersTell, EndSweep
  <2> QED BY <1>4, <2>1 DEF RowsTell, EndSweep
<1>5. CASE Sign
  BY <1>5 DEF LatticeInv, RowsTell, BuffersTell, Sign
<1>6. CASE UNCHANGED latticeVars
  BY <1>6 DEF LatticeInv, RowsTell, BuffersTell, latticeVars
<1> QED BY <1>1, <1>2, <1>3, <1>4, <1>5, <1>6 DEF LatticeNext

LEMMA LatticeInvariant == LatticeSpec => []LatticeInv
  BY LatticeInvInit, LatticeInvNext, PTL DEF LatticeSpec

(* LatticeTypeOK of CoupledMapLattice, for every size and number of sweeps. *)
THEOREM LatticeTypeCorrect == LatticeSpec => []LatticeTypeOK
<1>1. LatticeInv => LatticeTypeOK
  BY DEF LatticeInv
<1> QED BY <1>1, LatticeInvariant, PTL

-----------------------------------------------------------------------------
(* Refinement: EndSweep is the abstract sweep, every other step a stutter. *)

LEMMA SiteIsPair ==
  ASSUME NEW s \in Site
  PROVE  s[1] \in Row /\ s[2] \in Column /\ s = <<s[1], s[2]>>
  BY DEF Site

(* When every row is through, the lattice is the synchronous update. *)
LEMMA SweepIsSynchronous ==
  ASSUME LatticeInv, EndSweep
  PROVE  lattice = Evolution!SweepOf(snapshot)
<1>1. \A i \in Row, j \in Column : j < column[i]
  BY LatticeAssumption DEF LatticeAssumption, EndSweep, Column
<1>2. \A i \in Row, j \in Column : lattice[<<i, j>>] = Updated(snapshot, i, j)
  BY <1>1 DEF LatticeInv, RowsTell, EndSweep
<1>3. \A s \in Site : lattice[s] = Updated(snapshot, s[1], s[2])
  BY <1>2, SiteIsPair
<1>4. lattice = [s \in Site |-> Updated(snapshot, s[1], s[2])]
  BY <1>3 DEF LatticeInv, LatticeTypeOK, Lattice
<1> QED
  BY <1>4 DEF Evolution!SweepOf, Evolution!Site, Site, Evolution!Row, Row,
     Evolution!Column, Column, Evolution!Updated, Updated, Evolution!North, North,
     Evolution!South, South, Evolution!West, West, Evolution!East, East

LEMMA SameBytes == \A u : Evolution!Bytes(u) = Bytes(u)
  BY DEF Evolution!Bytes, Bytes, Evolution!Site, Site, Evolution!Row, Row,
     Evolution!Column, Column

LEMMA StepImplementsSweep ==
  LatticeInv /\ LatticeInv' /\ [LatticeNext]_latticeVars
    => [Evolution!Sweep]_(Evolution!evolutionVars)
<1> SUFFICES ASSUME LatticeInv, LatticeInv', [LatticeNext]_latticeVars
             PROVE  [Evolution!Sweep]_(Evolution!evolutionVars)
  OBVIOUS
<1>0. sweeps \in Nat /\ sweep \in Nat /\ sweeps \div 2 \in Nat
  BY Counters DEF LatticeInv
<1>1. CASE Validate
  BY <1>1 DEF Validate, Evolution!evolutionVars
<1>2. CASE BeginSweep
  BY <1>0, <1>2 DEF BeginSweep, LatticeInv, BuffersTell, Evolution!evolutionVars,
     NoLattice, Evolution!NoLattice
<1>3. ASSUME NEW r \in Row, UpdateSite(r)
      PROVE  [Evolution!Sweep]_(Evolution!evolutionVars)
  BY <1>3 DEF UpdateSite, Evolution!evolutionVars
<1>4. CASE EndSweep
  <2>1. sweeps \in 1 .. MaxSweeps /\ sweep < sweeps
    BY <1>4 DEF EndSweep, LatticeInv, LoopTells
  <2>2. flow' = Append(flow, << Evolution!Bytes(snapshot),
                                Evolution!Bytes(Evolution!SweepOf(snapshot)) >>)
    BY <1>4, SweepIsSynchronous, SameBytes DEF EndSweep, LatticeInv, RowsTell
  <2>3. lattice' = Evolution!SweepOf(snapshot)
    BY <1>4, SweepIsSynchronous DEF EndSweep
  <2>4. mid_state' = IF sweep = sweeps \div 2 THEN snapshot ELSE mid_state
    BY <1>4 DEF EndSweep, LatticeInv, BuffersTell
  <2> QED
    BY <1>4, <2>1, <2>2, <2>3, <2>4 DEF EndSweep, Evolution!Sweep
<1>5. CASE Sign
  BY <1>5 DEF Sign, Evolution!evolutionVars
<1>6. CASE UNCHANGED latticeVars
  BY <1>6 DEF latticeVars, Evolution!evolutionVars
<1> QED BY <1>1, <1>2, <1>3, <1>4, <1>5, <1>6 DEF LatticeNext

LEMMA InitIsOfEvolution == LatticeInit => Evolution!Init
  BY DEF LatticeInit, Evolution!Init, Lattice, Evolution!Lattice, Site, Evolution!Site,
     Row, Evolution!Row, Column, Evolution!Column, NoLattice, Evolution!NoLattice

(* ImplementsEvolution for every lattice and every number of sweeps: the   *)
(* row-parallel sweeps are the documented synchronous ones, so scheduling  *)
(* cannot be seen in the key.                                              *)
THEOREM LatticeImplementsEvolution == LatticeSpec => ImplementsEvolution
<1>1. LatticeInv /\ LatticeInv' /\ [LatticeNext]_latticeVars
        => [Evolution!Sweep]_(Evolution!evolutionVars)
  BY StepImplementsSweep
<1> QED
  BY <1>1, InitIsOfEvolution, LatticeInvariant, PTL
     DEF LatticeSpec, Evolution!SafetySpec, ImplementsEvolution

-----------------------------------------------------------------------------
(* A flat image stays flat. *)
FlatInv ==
  Flat(image) => Flat(IF stage = "rows" THEN snapshot ELSE lattice)

LEMMA FlatInit == LatticeInit => FlatInv
  BY DEF LatticeInit, FlatInv

(* Over a flat lattice the update gives every site the same new state. *)
LEMMA FlatSweep ==
  ASSUME NEW u \in Lattice, Flat(u)
  PROVE  Flat(Evolution!SweepOf(u))
<1> DEFINE z == <<0, 0>>
<1>1. z \in Site
  BY LatticeAssumption DEF LatticeAssumption, Site, Row, Column
<1>2. ASSUME NEW i \in Row, NEW j \in Column
      PROVE  Updated(u, i, j) = Couple[<< u[z], u[z], u[z], u[z], u[z] >>]
  <2>1. /\ <<i, j>> \in Site /\ <<North(i), j>> \in Site /\ <<South(i), j>> \in Site
        /\ <<i, West(j)>> \in Site /\ <<i, East(j)>> \in Site
    BY NeighboursOnTorus DEF Site
  <2>2. \A s \in Site : u[s] = u[z]
    BY <1>1 DEF Flat
  <2> QED BY <2>1, <2>2 DEF Updated
<1>3. Evolution!SweepOf(u) = [s \in Site |-> Updated(u, s[1], s[2])]
  BY DEF Evolution!SweepOf, Evolution!Site, Site, Evolution!Row, Row,
     Evolution!Column, Column, Evolution!Updated, Updated, Evolution!North, North,
     Evolution!South, South, Evolution!West, West, Evolution!East, East
<1> QED BY <1>2, <1>3, SiteIsPair DEF Flat

LEMMA FlatNext == LatticeInv /\ FlatInv /\ [LatticeNext]_latticeVars => FlatInv'
<1> SUFFICES ASSUME LatticeInv, FlatInv, [LatticeNext]_latticeVars PROVE FlatInv'
  OBVIOUS
<1>1. CASE Validate
  BY <1>1 DEF Validate, FlatInv, Flat
<1>2. CASE BeginSweep
  BY <1>2 DEF BeginSweep, FlatInv, Flat
<1>3. ASSUME NEW r \in Row, UpdateSite(r) PROVE FlatInv'
  BY <1>3 DEF UpdateSite, FlatInv, Flat
<1>4. CASE EndSweep
  <2>1. Flat(image) => Flat(Evolution!SweepOf(snapshot))
    BY <1>4, FlatSweep DEF EndSweep, FlatInv, LatticeInv, RowsTell
  <2>2. lattice' = Evolution!SweepOf(snapshot) /\ image' = image /\ stage' # "rows"
    BY <1>4, SweepIsSynchronous DEF EndSweep
  <2> QED BY <2>1, <2>2 DEF FlatInv, Flat
<1>5. CASE Sign
  BY <1>5 DEF Sign, FlatInv, Flat
<1>6. CASE UNCHANGED latticeVars
  BY <1>6 DEF latticeVars, FlatInv, Flat
<1> QED BY <1>1, <1>2, <1>3, <1>4, <1>5, <1>6 DEF LatticeNext

(* FlatStaysFlat for every lattice, rule and number of sweeps. *)
THEOREM FlatImagesNeverWakeUp == LatticeSpec => []FlatStaysFlat
<1>1. FlatInv => FlatStaysFlat
  BY DEF FlatInv, FlatStaysFlat
<1> QED
  BY <1>1, FlatInit, FlatNext, LatticeInvariant, PTL DEF LatticeSpec
-----------------------------------------------------------------------------
(* What is signed.  The signature is two entries of the flow: the one the  *)
(* middle sweep left, which holds the bytes of the half-way clone, and the *)
(* last one, which holds the bytes of the lattice.                         *)
Buffer == {Bytes(u) : u \in Lattice}

FlowTells ==
  /\ flow \in Seq(Buffer \X Buffer)
  /\ Len(flow) = sweep
  /\ stage = "between" /\ sweep > 0 => flow[sweep][2] = Bytes(lattice)

MiddleTells ==
  stage \in {"between", "rows"} /\ sweep > sweeps \div 2 =>
    /\ mid_state \in Lattice
    /\ flow[sweeps \div 2 + 1][1] = Bytes(mid_state)

SigningInv == FlowTells /\ MiddleTells /\ SignsMiddleAndEnd

LEMMA SigningInit == LatticeInit => SigningInv
<1> SUFFICES ASSUME LatticeInit PROVE SigningInv
  OBVIOUS
<1>1. sweeps \div 2 \in Nat /\ sweep = 0
  BY LatticeTypeInit, Counters DEF LatticeInit
<1> QED
  BY <1>1 DEF LatticeInit, SigningInv, FlowTells, MiddleTells, SignsMiddleAndEnd

LEMMA LatticeIsSomething == NoLattice \notin Lattice
<1>1. <<0, 0>> \in Site
  BY LatticeAssumption DEF LatticeAssumption, Site, Row, Column
<1>2. \A u \in Lattice : DOMAIN u = Site
  BY DEF Lattice
<1>3. DOMAIN NoLattice = {}
  BY DEF NoLattice
<1> QED BY <1>1, <1>2, <1>3

(* A sweep appends its own two buffers, and if it is the middle one the    *)
(* first of them is the half-way clone.                                    *)
LEMMA SigningEndSweep ==
  ASSUME LatticeInv, SigningInv, EndSweep
  PROVE  SigningInv'
<1> DEFINE pair == <<prev_bytes, Bytes(lattice)>>
           half == sweeps \div 2
<1>1. sweeps \in Nat /\ sweep \in Nat /\ half \in Nat
  BY Counters DEF LatticeInv
<1>2. pair \in Buffer \X Buffer
  BY DEF LatticeInv, RowsTell, LatticeTypeOK, EndSweep, Buffer
<1>3. flow \in Seq(Buffer \X Buffer) /\ Len(flow) = sweep
  BY DEF SigningInv, FlowTells
<1>4. flow' = Append(flow, pair) /\ sweep' = sweep + 1 /\ lattice' = lattice
      /\ mid_state' = mid_state /\ sweeps' = sweeps /\ stage = "rows" /\ stage' = "between"
  BY DEF EndSweep
<1> HIDE DEF pair, half
<1>5. /\ flow' \in Seq(Buffer \X Buffer)
      /\ Len(flow') = sweep + 1
      /\ flow'[sweep + 1] = pair
      /\ \A n \in 1 .. sweep : flow'[n] = flow[n]
  BY <1>1, <1>2, <1>3, <1>4
<1>6. FlowTells'
  BY <1>1, <1>4, <1>5 DEF FlowTells, pair, Bytes
<1>7. MiddleTells'
  <2> SUFFICES ASSUME sweep + 1 > half
               PROVE  mid_state \in Lattice /\ flow'[half + 1][1] = Bytes(mid_state)
    BY <1>4 DEF MiddleTells, half, Bytes
  <2>1. CASE sweep = half
    <3>1. mid_state = snapshot /\ snapshot \in Lattice /\ prev_bytes = Bytes(snapshot)
      BY <1>4, <2>1 DEF half, LatticeInv, BuffersTell, RowsTell
    <3> QED BY <1>5, <2>1, <3>1 DEF pair
  <2>2. CASE sweep > half
    <3>1. mid_state \in Lattice /\ flow[half + 1][1] = Bytes(mid_state)
      BY <1>4, <2>2 DEF half, SigningInv, MiddleTells
    <3>2. half + 1 \in 1 .. sweep
      BY <1>1, <2>2
    <3> QED BY <1>5, <3>1, <3>2
  <2> QED BY <1>1, <2>1, <2>2
<1>8. SignsMiddleAndEnd'
  BY <1>4 DEF SignsMiddleAndEnd
<1> QED BY <1>6, <1>7, <1>8 DEF SigningInv

(* At the end sweep = sweeps is beyond the middle: the clone is there.     *)
LEMMA SigningSign ==
  ASSUME LatticeInv, SigningInv, Sign
  PROVE  SigningInv'
<1>1. sweeps \in Nat /\ sweep = sweeps /\ sweeps > 0 /\ sweeps \div 2 < sweeps
  <2>1. sweeps \in Nat /\ sweep = sweeps /\ sweeps > 0
    BY Counters DEF LatticeInv, LoopTells, Sign
  <2>2. \A n \in Nat : n > 0 => n \div 2 < n
    OBVIOUS
  <2> QED BY <2>1, <2>2
<1>2. mid_state \in Lattice /\ flow[sweeps \div 2 + 1][1] = Bytes(mid_state)
  BY <1>1 DEF SigningInv, MiddleTells, Sign
<1>3. flow[sweeps][2] = Bytes(lattice)
  BY <1>1 DEF SigningInv, FlowTells, Sign
<1>4. signature' = <<Bytes(mid_state), Bytes(lattice)>>
  BY <1>2, LatticeIsSomething DEF Sign
<1>5. flow' = flow /\ sweeps' = sweeps /\ sweep' = sweep /\ stage' = "signed"
  BY DEF Sign
<1> QED
  BY <1>2, <1>3, <1>4, <1>5 DEF SigningInv, FlowTells, MiddleTells, SignsMiddleAndEnd

LEMMA SigningNext == LatticeInv /\ SigningInv /\ [LatticeNext]_latticeVars => SigningInv'
<1> SUFFICES ASSUME LatticeInv, SigningInv, [LatticeNext]_latticeVars PROVE SigningInv'
  OBVIOUS
<1>0. sweeps \in Nat /\ sweep \in Nat /\ sweeps \div 2 \in Nat
  BY Counters DEF LatticeInv
<1> USE DEF SigningInv, FlowTells, MiddleTells, SignsMiddleAndEnd
<1>1. CASE Validate
  BY <1>0, <1>1 DEF Validate, LatticeInv, LoopTells
<1>2. CASE BeginSweep
  BY <1>0, <1>2 DEF BeginSweep
<1>3. ASSUME NEW r \in Row, UpdateSite(r) PROVE SigningInv'
  BY <1>3 DEF UpdateSite
<1>4. CASE EndSweep
  BY <1>4, SigningEndSweep
<1>5. CASE Sign
  BY <1>5, SigningSign
<1>6. CASE UNCHANGED latticeVars
  BY <1>6 DEF latticeVars, Bytes
<1> QED BY <1>1, <1>2, <1>3, <1>4, <1>5, <1>6 DEF LatticeNext

(* SignsMiddleAndEnd for every lattice, rule and number of sweeps: what is *)
(* hashed are the bytes before the middle sweep and those after the last,  *)
(* and the fallback for a missing half-way clone is never taken.           *)
THEOREM SignatureIsOfTheEvolution == LatticeSpec => []SignsMiddleAndEnd
<1>1. SigningInv => SignsMiddleAndEnd
  BY DEF SigningInv
<1> QED
  BY <1>1, SigningInit, SigningNext, LatticeInvariant, PTL DEF LatticeSpec
=============================================================================
