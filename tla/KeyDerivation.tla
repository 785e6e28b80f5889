---------------------------- MODULE KeyDerivation ----------------------------
(***************************************************************************)
(* `KeyDerivationPipeline::derive_key` as the message and record commands  *)
(* see it: one image file and one configuration go in, an error or a       *)
(* master key comes out.  Hash functions are ideal: a key is the pair of   *)
(* what was absorbed.                                                      *)
(***************************************************************************)

CONSTANTS
  Photo,     (* the byte contents an image file may have                    *)
  Config,    (* effective configurations (-C, or the default)               *)
  Refused,   (* <<content, configuration>> pairs derive_key answers with Err *)
  Witness    (* the mixed feature bytes, per content and configuration; two *)
             (* configurations may well give the same witness               *)

ASSUME DerivationAssumption ==
  /\ Refused \subseteq Photo \X Config
  /\ DOMAIN Witness = Photo \X Config

Derives(bytes, cfg) == <<bytes, cfg>> \notin Refused

(* XOF(domain, witness length, witness, SHA-256 of the exact file). *)
MasterKey(bytes, cfg) == [witness |-> Witness[bytes, cfg], file |-> bytes]

Master == {MasterKey(b, c) : b \in Photo, c \in Config}
NoMaster == [witness |-> "none"]
==============================================================================
