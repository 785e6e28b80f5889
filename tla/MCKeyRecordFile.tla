--------------------------- MODULE MCKeyRecordFile ---------------------------
(***************************************************************************)
(* Two exports and one verify over two usable contents of the key image    *)
(* and one refused one, and one replacement.  The custom configuration     *)
(* changes the witness of `beach` and leaves that of `forest` alone.       *)
(***************************************************************************)
EXTENDS KeyRecordFile

CONSTANTS e1, e2, v1, beach, forest, flat, default, custom

MCRefused == {flat} \X Config
MCWitness == [x \in Photo \X Config |->
                IF x = <<beach, custom>> THEN "custom" ELSE "default"]
==============================================================================
