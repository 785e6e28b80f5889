-------------------------- MODULE LatticeEvolution --------------------------
(***************************************************************************)
(* The coupled map lattice as the source's documentation defines it:       *)
(* synchronous sweeps, in which every site's new state depends on its own  *)
(* and its neighbours' old ones; the lattice half-way is remembered, and   *)
(* each sweep contributes the bytes before and after it.                   *)
(***************************************************************************)
EXTENDS LatticeData

VARIABLES
  sweeps,     (* lattice_sweeps of the configuration                       *)
  sweep,      (* sweeps done                                               *)
  lattice,
  middle,     (* the lattice before sweep number sweeps / 2, or NoLattice  *)
  flow        (* per sweep: the bytes before and the bytes after           *)

evolutionVars == <<sweeps, sweep, lattice, middle, flow>>

Init ==
  /\ sweeps \in 0 .. MaxSweeps + 1
  /\ sweep = 0
  /\ lattice \in Lattice
  /\ middle = NoLattice
  /\ flow = <<>>

SweepOf(u) == [s \in Site |-> Updated(u, s[1], s[2])]

Sweep ==
  /\ sweeps \in 1 .. MaxSweeps
  /\ sweep < sweeps
  /\ middle' = IF sweep = sweeps \div 2 THEN lattice ELSE middle
  /\ lattice' = SweepOf(lattice)
  /\ flow' = Append(flow, <<Bytes(lattice), Bytes(SweepOf(lattice))>>)
  /\ sweep' = sweep + 1
  /\ sweeps' = sweeps

SafetySpec == Init /\ [][Sweep]_evolutionVars
==============================================================================
