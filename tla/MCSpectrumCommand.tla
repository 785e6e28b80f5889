-------------------------- MODULE MCSpectrumCommand --------------------------
(***************************************************************************)
(* Three sessions, and a program that loads every document.  Messages: a   *)
(* text that fits with its message, one that only fits alone, one too      *)
(* long, a file that is no text, none; four commands make keys, seal, make *)
(* keys again and open.  Records: every kind of picture; `flat` has no     *)
(* entropy, `junk` is no picture.  Configurations: none, one without JPEG  *)
(* (and a JPEG), one of a later version, one with a key nobody knows, one  *)
(* with a null for a number.                                               *)
(***************************************************************************)
EXTENDS SpectrumCommand, TLC

CONSTANTS p1, p2

PairsAreAlike == Permutations(KeyPair)

MCVersion == {1, 2}
MCNonceLen == {12, 16}
MCUnreadable == ({"junk"} \X Settings) \cup {<<"jpeg", "no_jpeg">>}
MCRefused == MCUnreadable \cup ({"flat"} \X Settings)
MCWitness == [x \in Photo \X Settings |-> x[1]]

Plainly(names) == {c \in Command : c.name \in names /\ ~c.config}
Binary == [binary |-> TRUE]
NotLoaded == [commands |-> {}, photos |-> {}, texts |-> {}, documents |-> {},
              length |-> 0, replacements |-> 0]
Messages ==
  [commands |-> Plainly({"pq_keygen", "encrypt", "decrypt"}),
   photos |-> {"png", "jpeg"},
   texts |-> {[text |-> "letter", length |-> n] : n \in 1 .. 3} \cup {Binary, Absent},
   documents |-> {Absent}, length |-> 4, replacements |-> 1]
Records ==
  [commands |-> Plainly({"derive", "analyze", "export", "verify", "batch", "selftest"}),
   photos |-> Photo, texts |-> {Binary}, documents |-> {Absent},
   length |-> 3, replacements |-> 1]
Configurations ==
  [commands |-> Plainly({"config", "export"}) \cup
                {c \in Command : c.config /\ c.with \subseteq {"message", "output"}},
   photos |-> {"jpeg"}, texts |-> {Absent},
   documents |-> {Absent} \cup
     {[config |-> d] : d \in {[DefaultDocument EXCEPT !.keys = DeclaredKeys],
                             [DefaultDocument EXCEPT !.version = 2],
                             [DefaultDocument EXCEPT !.knob = "null"],
                             [DefaultDocument EXCEPT !.keys = @ \cup {<<Unknown>>}]}},
   length |-> 3, replacements |-> 0]
MCSession == {NotLoaded, Messages, Records, Configurations}
==============================================================================
