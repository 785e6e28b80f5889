---------------------------- MODULE ConfigLoading ----------------------------
(***************************************************************************)
(* How a configuration reaches an instance: `SpectrumConfig::from_json`    *)
(* with its walk over unknown fields, serde's conversion, the version and  *)
(* `validate`, then `SpectrumCrypto::with_config`; or with_config alone,   *)
(* for a configuration put together by a program.  A running configuration *)
(* may be saved and loaded by somebody else.                               *)
(* A JSON document is the set of paths to its keys; the elements of an     *)
(* array stand at the path of the array, as in the walk.  Of the fields    *)
(* that are plain values one per struct stands for all.  `knob` stands for *)
(* the settings that are f64 (chaos_config.a, the lists of the sources):   *)
(* in memory finite or not, in a text a number or null.  A finite number   *)
(* returns from a text as it was (serde_json with float_roundtrip).        *)
(***************************************************************************)
EXTENDS Naturals, Sequences

CONSTANTS
  Unknown,    (* a key no struct declares                                    *)
  Version,    (* values of `version` and `nonce_len` in documents            *)
  NonceLen

ASSUME ConfigAssumption ==
  /\ Unknown \notin {"entropy", "preprocessor", "symmetric", "version"}
  /\ 1 \in Version /\ 12 \in NonceLen

VARIABLES
  doc,        (* the document to load: keys, version, nonce_len, knob        *)
  pc,         (* "load", "walk", "convert", "program", "running", "refused"  *)
  agenda,     (* objects the walk has still to look into                     *)
  instance,   (* what the instance runs under                                *)
  saved       (* the document was written by a running instance              *)

vars == <<doc, pc, agenda, instance, saved>>

(* The structs: for each object its fields. *)
Objects == { <<>>, <<"entropy">>, <<"entropy", "chaos_config">>,
             <<"entropy", "quantum_density_config">>,
             <<"preprocessor">>, <<"symmetric">> }
Declared == [o \in Objects |->
  CASE o = <<>> -> {"entropy", "preprocessor", "symmetric", "version"}
    [] o = <<"entropy">> -> {"wtmm_enabled", "chaos_config", "quantum_density_config"}
    [] o = <<"entropy", "chaos_config">> -> {"iterations"}
    [] o = <<"entropy", "quantum_density_config">> -> {"hilbert_dimension"}
    [] o = <<"preprocessor">> -> {"canonical_size", "supported_formats"}
    [] o = <<"symmetric">> -> {"nonce_len"}]

DeclaredKeys == UNION {{Append(o, f) : f \in Declared[o]} : o \in Objects}

(* A JPEG entry of the format list is the one optional object: {"JPEG": q}. *)
Formats == <<"preprocessor", "supported_formats">>
JpegEntry == Append(Formats, "JPEG")

ObjectsIn(keys) == {<<>>} \cup {SubSeq(k, 1, Len(k) - 1) : k \in keys}
FieldsIn(keys, o) ==
  {k[Len(k)] : k \in {l \in keys : Len(l) = Len(o) + 1 /\ SubSeq(l, 1, Len(o)) = o}}

(* Faulty variant: a field that was added to the struct is not listed. *)
KnownBefore(o) ==
  CASE o \in {<<>>, <<"entropy", "chaos_config">>, <<"preprocessor">>, <<"symmetric">>} ->
         Declared[o]
    [] o = <<"entropy">> -> {"wtmm_enabled", "chaos_config"}
    [] OTHER -> {}

(* reject_unknown_fields: the lists, by path; an empty list is not looked  *)
(* at.                                                                     *)
Known(o) ==
  CASE o = <<>> -> {"entropy", "preprocessor", "symmetric", "version"}
    [] o = <<"entropy">> -> {"wtmm_enabled", "chaos_config", "quantum_density_config"}
    [] o = <<"entropy", "chaos_config">> -> {"iterations"}
    [] o = <<"preprocessor">> -> {"canonical_size", "supported_formats"}
    [] o = <<"symmetric">> -> {"nonce_len"}
    [] OTHER -> {}

-----------------------------------------------------------------------------
(* Documents as people write them: one key left out with all below it, one *)
(* unknown key, a JPEG entry or none.                                      *)
Below(p, k) == Len(k) >= Len(p) /\ SubSeq(k, 1, Len(p)) = p
Complete == {DeclaredKeys, DeclaredKeys \cup {JpegEntry}}
Written ==
  LET Without(keys) == {keys} \cup {{k \in keys : ~Below(p, k)} : p \in DeclaredKeys}
      With(keys) == {keys} \cup {keys \cup {Append(o, Unknown)} : o \in ObjectsIn(keys)}
  IN  UNION {With(w) : w \in UNION {Without(c) : c \in Complete}}
Document ==
  [keys : Written, version : Version, nonce_len : NonceLen, knob : {"finite", "null"}]
Nothing == [keys |-> {}, version |-> 0, nonce_len |-> 0, knob |-> "finite"]

(* What a program can put together; nothing keeps a NaN or an infinity out. *)
InMemory ==
  [keys : Complete, version : Version, nonce_len : NonceLen, knob : {"finite", "not_finite"}]

Init ==
  /\ saved = FALSE
  /\ agenda = {}
  /\ instance = Nothing
  /\ \/ doc \in Document /\ pc = "load"
     \/ doc \in InMemory /\ pc = "program"

(* serde_json parses the text. *)
Load ==
  /\ pc = "load"
  /\ agenda' = {<<>>}
  /\ pc' = "walk"
  /\ UNCHANGED <<doc, instance, saved>>

(* One object of the walk, then those inside it. *)
Visit(o) ==
  /\ pc = "walk" /\ o \in agenda
  /\ LET fields == FieldsIn(doc.keys, o)
     IN  IF Known(o) # {} /\ ~(fields \subseteq Known(o))
           THEN pc' = "refused" /\ UNCHANGED agenda
           ELSE /\ agenda' = (agenda \ {o}) \cup
                     {Append(o, f) : f \in {g \in fields : Append(o, g) \in ObjectsIn(doc.keys)}}
                /\ UNCHANGED pc
  /\ UNCHANGED <<doc, instance, saved>>
EndWalk ==
  /\ pc = "walk" /\ agenda = {}
  /\ pc' = "convert"
  /\ UNCHANGED <<doc, agenda, instance, saved>>

(* Faulty variant: nonce_len is stored, and never looked at. *)
ValidAnyNonce(d) == TRUE

(* SpectrumConfig::validate. *)
Valid(d) == d.nonce_len = 12

(* serde wants every field, a number for an f64 and no other variant of an *)
(* enum, and ignores other keys; then the version, then validate, and      *)
(* validate once more in with_config.                                      *)
Converted(d) == [d EXCEPT !.keys = @ \cap (DeclaredKeys \cup {JpegEntry})]
Converts(d) ==
  /\ DeclaredKeys \subseteq d.keys
  /\ FieldsIn(d.keys, Formats) \subseteq {"JPEG"}
  /\ d.knob # "null"
Run(d) == pc' = "running" /\ instance' = Converted(d)

Convert ==
  /\ pc = "convert"
  /\ IF Converts(doc) /\ doc.version = 1 /\ Valid(doc)
       THEN Run(doc)
       ELSE pc' = "refused" /\ UNCHANGED instance
  /\ UNCHANGED <<doc, agenda, saved>>

(* with_config on a configuration in memory. *)
WithConfig ==
  /\ pc = "program"
  /\ IF Valid(doc) THEN Run(doc) ELSE pc' = "refused" /\ UNCHANGED instance
  /\ UNCHANGED <<doc, agenda, saved>>

(* to_json: JSON has no NaN and no infinity; serde_json writes null.       *)
ToJson(d) == [d EXCEPT !.knob = IF @ = "not_finite" THEN "null" ELSE @]

(* save of the running configuration, for another process.                 *)
Save ==
  /\ pc = "running" /\ ~saved
  /\ doc' = ToJson(instance)
  /\ saved' = TRUE
  /\ pc' = "load"
  /\ UNCHANGED <<agenda, instance>>

Next == Load \/ (\E o \in agenda : Visit(o)) \/ EndWalk \/ Convert \/ WithConfig \/ Save
Spec == Init /\ [][Next]_vars

-----------------------------------------------------------------------------
(* Whichever way it came, an instance runs only under a nonce length the   *)
(* symmetric layer has, and one loaded from a document only under this     *)
(* version (lib.rs: a configuration built by a program "cannot bypass the  *)
(* checks that disk-loaded ones face").                                    *)
RunsOnlySupported ==
  pc = "running" =>
    /\ instance.nonce_len = 12
    /\ saved => instance.version = 1

(* Sender and receiver share a configuration by a file (README: both sides *)
(* need the same effective configuration).  What an instance of this       *)
(* version runs under is saved, and whoever loads that document runs under *)
(* the very same settings; refused it is only if the instance that saved   *)
(* it ran with a number JSON does not have (validate lets it run), and     *)
(* then it is never loaded as something else.                              *)
SavedConfigLoads ==
  saved /\ doc.version = 1 =>
    /\ pc = "refused" => instance.knob = "not_finite"
    /\ pc = "running" => instance = doc /\ instance.knob = "finite"

(* docs/API.md on from_json: "unknown fields at any nesting level and      *)
(* unsupported versions are rejected".                                     *)
NothingIsDropped == pc = "running" => instance.keys = doc.keys
==============================================================================
