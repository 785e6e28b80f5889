----------------------------- MODULE MCBatchRun ------------------------------
(***************************************************************************)
(* Three names, one of which is no image; two pictures with a key and one  *)
(* that is refused.                                                        *)
(***************************************************************************)
EXTENDS BatchRun, TLC

CONSTANTS p1, p2, flat, cfg

MCRefused == {<<flat, cfg>>}
MCWitness == [x \in Photo \X Config |-> x[1]]
Directory == [files |-> <<>>, output |-> TRUE]
Listed == [files |-> <<2, 1, 2>>, output |-> FALSE]
MCRequests == {("b1" :> Directory) @@ ("b2" :> Directory), ("b1" :> Listed)}
==============================================================================
