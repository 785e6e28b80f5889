--------------------------- MODULE MCEntropyEngine ---------------------------
(***************************************************************************)
(* Three sources and two lacunarity scales: enough for two failing         *)
(* closures to race for the error cell while a third is skipped or done.   *)
(***************************************************************************)
EXTENDS EntropyEngine

MCNumSources == 3
MCScale == {4, 8}
==============================================================================
