-------------------------- MODULE CoupledMapLattice --------------------------
(***************************************************************************)
(* `extract_coupled_map_lattice`: the configuration check, then sweeps     *)
(* whose rows are updated in parallel and in place, reading a snapshot     *)
(* taken before the sweep.  A row goes through its columns in order; rows  *)
(* interleave freely.                                                      *)
(***************************************************************************)
EXTENDS LatticeData

VARIABLES
  image,       (* the normalised pixels                                   *)
  sweeps,      (* lattice_sweeps of the configuration                      *)
  stage,       (* "validate", "between", "rows", "signed" or "refused"     *)
  sweep,       (* the loop counter                                         *)
  lattice,
  snapshot,    (* the clone the running sweep reads                        *)
  column,      (* per row: the next column of the running sweep            *)
  prev_bytes,  (* the bytes of the lattice before the running sweep        *)
  flow,        (* per sweep: the two byte buffers the divergence is over   *)
  mid_state,   (* the clone taken half-way, or NoLattice                   *)
  signature    (* the two byte buffers that are hashed, or <<>>            *)

latticeVars == <<image, sweeps, stage, sweep, lattice, snapshot, column, prev_bytes,
                 flow, mid_state, signature>>

LatticeInit ==
  /\ sweeps \in 0 .. MaxSweeps + 1
  /\ stage = "validate"
  /\ sweep = 0
  /\ image \in Lattice
  /\ lattice = image
  /\ snapshot = NoLattice
  /\ column = [i \in Row |-> 0]
  /\ prev_bytes = NoLattice
  /\ flow = <<>>
  /\ mid_state = NoLattice
  /\ signature = <<>>

(* validate_config, and the bytes of the initial lattice. *)
Validate ==
  /\ stage = "validate"
  /\ IF sweeps \in 1 .. MaxSweeps
       THEN stage' = "between" /\ prev_bytes' = Bytes(lattice)
       ELSE stage' = "refused" /\ UNCHANGED prev_bytes
  /\ UNCHANGED <<image, sweeps, sweep, lattice, snapshot, column, flow, mid_state, signature>>

(* Faulty variant: the half-way clone is taken when the sweep number is    *)
(* already advanced.                                                       *)
BeginSweepOneLate ==
  /\ stage = "between" /\ sweep < sweeps
  /\ mid_state' = IF sweep = sweeps \div 2 + 1 THEN lattice ELSE mid_state
  /\ snapshot' = lattice
  /\ column' = [i \in Row |-> 0]
  /\ stage' = "rows"
  /\ UNCHANGED <<image, sweeps, sweep, lattice, prev_bytes, flow, signature>>

(* Faulty variant: one sweep too many. *)
BeginSweepOneMore ==
  /\ stage = "between" /\ sweep <= sweeps
  /\ mid_state' = IF sweep = sweeps \div 2 THEN lattice ELSE mid_state
  /\ snapshot' = lattice
  /\ column' = [i \in Row |-> 0]
  /\ stage' = "rows"
  /\ UNCHANGED <<image, sweeps, sweep, lattice, prev_bytes, flow, signature>>

(* The half-way clone is taken before its sweep, then the snapshot. *)
BeginSweep ==
  /\ stage = "between"
  /\ sweep < sweeps
  /\ mid_state' = IF sweep = sweeps \div 2 THEN lattice ELSE mid_state
  /\ snapshot' = lattice
  /\ column' = [i \in Row |-> 0]
  /\ stage' = "rows"
  /\ UNCHANGED <<image, sweeps, sweep, lattice, prev_bytes, flow, signature>>

(* Faulty variant: neighbours are read from the lattice being written. *)
UpdateInPlace(i) ==
  /\ stage = "rows" /\ column[i] < Width
  /\ lattice' = [lattice EXCEPT ![<<i, column[i]>>] = Updated(lattice, i, column[i])]
  /\ column' = [column EXCEPT ![i] = @ + 1]
  /\ UNCHANGED <<image, sweeps, stage, sweep, snapshot, prev_bytes, flow, mid_state, signature>>

(* Row i of sweep_once computes its next site from the snapshot. *)
UpdateSite(i) ==
  /\ stage = "rows"
  /\ column[i] < Width
  /\ lattice' = [lattice EXCEPT ![<<i, column[i]>>] = Updated(snapshot, i, column[i])]
  /\ column' = [column EXCEPT ![i] = @ + 1]
  /\ UNCHANGED <<image, sweeps, stage, sweep, snapshot, prev_bytes, flow, mid_state, signature>>

(* for_each returns when every row is through. *)
EndSweep ==
  /\ stage = "rows"
  /\ \A i \in Row : column[i] = Width
  /\ flow' = Append(flow, <<prev_bytes, Bytes(lattice)>>)
  /\ prev_bytes' = Bytes(lattice)
  /\ sweep' = sweep + 1
  /\ stage' = "between"
  /\ UNCHANGED <<image, sweeps, lattice, snapshot, column, mid_state, signature>>

(* Faulty variant: the digests are over the same lattice. *)
SignFinalTwice ==
  /\ stage = "between" /\ sweep = sweeps
  /\ signature' = <<Bytes(lattice), Bytes(lattice)>>
  /\ stage' = "signed"
  /\ UNCHANGED <<image, sweeps, sweep, lattice, snapshot, column, prev_bytes, flow, mid_state>>

Sign ==
  /\ stage = "between"
  /\ sweep = sweeps
  /\ LET middle == IF mid_state = NoLattice THEN lattice ELSE mid_state
     IN  signature' = <<Bytes(middle), Bytes(lattice)>>
  /\ stage' = "signed"
  /\ UNCHANGED <<image, sweeps, sweep, lattice, snapshot, column, prev_bytes, flow, mid_state>>

LatticeNext ==
  \/ Validate \/ BeginSweep
  \/ \E i \in Row : UpdateSite(i)
  \/ EndSweep \/ Sign

LatticeSpec == LatticeInit /\ [][LatticeNext]_latticeVars

-----------------------------------------------------------------------------
LatticeTypeOK ==
  /\ image \in Lattice
  /\ sweeps \in 0 .. MaxSweeps + 1
  /\ stage \in {"validate", "between", "rows", "signed", "refused"}
  /\ sweep \in 0 .. MaxSweeps
  /\ lattice \in Lattice
  /\ snapshot \in Lattice \cup {NoLattice}
  /\ column \in [Row -> 0 .. Width]
  /\ mid_state \in Lattice \cup {NoLattice}

(* During a sweep the lattice is its snapshot to the abstract evolution,   *)
(* and the half-way clone of this very sweep has not been taken yet.       *)
Evolution == INSTANCE LatticeEvolution WITH
  lattice <- IF stage = "rows" THEN snapshot ELSE lattice,
  middle <- IF stage = "rows" /\ sweep = sweeps \div 2 THEN NoLattice ELSE mid_state

(* The rows of a sweep, in whatever order and interleaving the pool runs   *)
(* them, amount to one synchronous update of the whole torus; the half-way *)
(* clone and the buffers of every sweep's divergence are those of the      *)
(* documented evolution, so the source is the same on any machine.         *)
ImplementsEvolution == Evolution!SafetySpec

(* What is signed are two different moments: the bytes before sweep number *)
(* sweeps / 2, as that sweep's own divergence saw them, and the bytes the  *)
(* last sweep ended with.  The fallback to the final lattice never fires.  *)
SignsMiddleAndEnd ==
  stage = "signed" =>
    signature = << flow[sweeps \div 2 + 1][1], flow[sweeps][2] >>

(* A flat image never wakes up: between sweeps the lattice is as constant  *)
(* as the image was, whatever the schedule and also along the edges of the *)
(* torus (sweep_once's comment: "the constant manifold is preserved").     *)
Flat(u) == \A s, t \in Site : u[s] = u[t]
FlatStaysFlat == stage # "rows" /\ Flat(image) => Flat(lattice)
==============================================================================
