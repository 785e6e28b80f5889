-------------------------- MODULE MCMessageExchange --------------------------
(***************************************************************************)
(* Two kinds of scenario.  In one, two classic encryptions of the same     *)
(* user write into one message file while it is read and the clock ticks.  *)
(* In the other, one encryption and one decryption under every combination *)
(* of build, configuration and keys, with a replaced image and a bit flip. *)
(* The custom configuration changes the witness of `beach` and leaves that *)
(* of `forest` alone; `flat` has no entropy.                               *)
(***************************************************************************)
EXTENDS MessageExchange

CONSTANTS s1, s2, r1, beach, forest, flat, default, custom, alice, eve

MCRefused == {flat} \X Config
MCWitness == [x \in Photo \X Config |->
                IF x = <<beach, custom>> THEN "custom" ELSE "default"]

PlainArgs == [config |-> default, build |-> "classic", pair |-> NoPair]
Overlapping ==
  [args |-> [p \in {s1, s2, r1} |-> PlainArgs],
   photos |-> {beach}, files |-> {Absent, <<Broken>>}, edits |-> 0, ticks |-> 1, damage |-> 0]

(* That the sender never uses `eve` loses nothing, the two pairs being     *)
(* interchangeable; a classic build ignores whichever it is given.         *)
Alone(a, b) ==
  [args |-> [p \in {s1, r1} |-> IF p = s1 THEN a ELSE b],
   photos |-> Photo, files |-> {Absent}, edits |-> 1, ticks |-> 0, damage |-> 1]

MCScenario ==
  {Overlapping} \cup {Alone(a, b) : a \in {x \in Args : x.pair # eve},
                                b \in {x \in Args : x.build = "classic" => x.pair # eve}}
==============================================================================
