------------------------ MODULE MCCoupledMapLattice --------------------------
(***************************************************************************)
(* Three rows of two columns, so that north and south differ; three states *)
(* of which two are written as the same byte; up to three sweeps, of which *)
(* the middle one is the first, the second and the second.                 *)
(***************************************************************************)
EXTENDS CoupledMapLattice

MCState == {0, 1, 2}
MCCouple == [x \in MCState \X MCState \X MCState \X MCState \X MCState |->
               (x[1] + (x[2] + x[3] + x[4] + x[5]) \div 3) % 3]
MCQuantize == [x \in MCState |-> IF x = 0 THEN 0 ELSE 255]
==============================================================================
