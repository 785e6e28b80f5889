------------------------------ MODULE FileBytes ------------------------------
(***************************************************************************)
(* What the program relies on of an ordinary file: std::fs as data.rs,     *)
(* cli.rs, bin/spectrum.rs and selftest.rs use it.  A file's content is a  *)
(* sequence of tokens (one per serialized field).  A write goes on where   *)
(* its own handle stands, whatever other handles did in the meantime, so a *)
(* file truncated by another process is padded up to that place.           *)
(***************************************************************************)
EXTENDS Naturals, Sequences

Hole == [field |-> "hole"]
Absent == <<[field |-> "absent"]>>
Empty == <<>>

(* write() of the tokens of `data` from..to at the same offsets of `content`. *)
Written(content, data, from, to) ==
  [i \in 1 .. (IF Len(content) > to THEN Len(content) ELSE to) |->
     IF i \in from .. to THEN data[i]
     ELSE IF i <= Len(content) THEN content[i]
     ELSE Hole]

(* read() by a handle that has already got `buf`: at most k more tokens. *)
ReadMore(content, buf, k) ==
  buf \o SubSeq(content, Len(buf) + 1,
                IF Len(buf) + k < Len(content) THEN Len(buf) + k ELSE Len(content))

(* read() returns nothing more: read_to_end stops here. *)
AtEnd(content, buf) == Len(buf) >= Len(content)
==============================================================================
