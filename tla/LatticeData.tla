----------------------------- MODULE LatticeData -----------------------------
(***************************************************************************)
(* A torus of sites and the update rule of the coupled map lattice.  The   *)
(* floating-point arithmetic (logistic map, diffusion, rounding to a byte) *)
(* is any fixed function of the operands.                                  *)
(***************************************************************************)
EXTENDS Naturals, Sequences

CONSTANTS
  Height, Width,   (* the dimensions of the working image; it is not empty  *)
  MaxSweeps,       (* MAX_SWEEPS                                            *)
  State,           (* what one site may hold                                *)
  Couple,          (* the update: own state, north, south, west, east       *)
  Quantize         (* the byte a state is written as                        *)

ASSUME LatticeAssumption ==
  /\ Height \in Nat \ {0} /\ Width \in Nat \ {0} /\ MaxSweeps \in Nat
  /\ Couple \in [State \X State \X State \X State \X State -> State]
  /\ DOMAIN Quantize = State

Row == 0 .. Height - 1
Column == 0 .. Width - 1
Site == Row \X Column
Lattice == [Site -> State]

(* No lattice yet: None in the code. *)
NoLattice == <<>>

North(i) == (i + Height - 1) % Height
South(i) == (i + 1) % Height
West(j) == (j + Width - 1) % Width
East(j) == (j + 1) % Width

(* The new state of site <<i, j>>, from the states in u. *)
Updated(u, i, j) ==
  Couple[<< u[<<i, j>>], u[<<North(i), j>>], u[<<South(i), j>>],
            u[<<i, West(j)>>], u[<<i, East(j)>>] >>]

Bytes(u) == [s \in Site |-> Quantize[u[s]]]
==============================================================================
