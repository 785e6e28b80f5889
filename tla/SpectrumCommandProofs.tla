------------------------ MODULE SpectrumCommandProofs ------------------------
(***************************************************************************)
(* For any pictures, keys, texts and configuration documents, and for      *)
(* sessions of any length: an instance runs only what is supported, a      *)
(* configuration that was saved loads again as it was or not at all, and   *)
(* the exit code tells what has happened.                                  *)
(***************************************************************************)
EXTENDS SpectrumCommand, SequenceTheorems, TLAPS

everything == <<configVars, shellVars>>

-----------------------------------------------------------------------------
(* Documents as data.                                                      *)

Name ==
  {"entropy", "preprocessor", "symmetric", "version", "wtmm_enabled", "chaos_config",
   "quantum_density_config", "iterations", "hilbert_dimension", "canonical_size",
   "supported_formats", "nonce_len"}

LEMMA ObjectsAreNames ==
  /\ Objects \cup {Formats} \subseteq Seq(Name)
  /\ \A o \in Objects : Declared[o] \subseteq Name
<1>1. \A a, b \in Name : <<a, b>> \in Seq(Name)
  OBVIOUS
<1>2. Objects \subseteq Seq(Name)
  BY <1>1 DEF Name, Objects
<1>3. Formats \in Seq(Name)
  BY <1>1 DEF Name, Formats
<1>4. \A o \in Objects : Declared[o] \subseteq Name
  BY DEF Declared, Objects, Name
<1> QED BY <1>2, <1>3, <1>4

LEMMA AppendPoints ==
  ASSUME NEW S, NEW s \in Seq(S), NEW e \in S
  PROVE  /\ Len(Append(s, e)) = Len(s) + 1
         /\ Append(s, e)[Len(s) + 1] = e
         /\ SubSeq(Append(s, e), 1, Len(s)) = s
  OBVIOUS

(* A declared key lies in one object only.                                 *)
LEMMA KeyOfObject ==
  ASSUME NEW o \in Objects, NEW f \in Declared[o], NEW p \in Objects \cup {Formats},
         Len(Append(o, f)) = Len(p) + 1, SubSeq(Append(o, f), 1, Len(p)) = p
  PROVE  p = o /\ Append(o, f)[Len(Append(o, f))] = f
<1>1. o \in Seq(Name) /\ p \in Seq(Name) /\ f \in Name
  BY ObjectsAreNames
<1>2. /\ Len(Append(o, f)) = Len(o) + 1
      /\ Append(o, f)[Len(o) + 1] = f
      /\ SubSeq(Append(o, f), 1, Len(o)) = o
  BY <1>1, AppendPoints
<1>3. Len(o) = Len(p)
  <2>1. Len(o) \in Nat /\ Len(p) \in Nat
    BY <1>1, LenProperties
  <2>2. \A m, n \in Nat : m + 1 = n + 1 => m = n
    OBVIOUS
  <2>3. Len(o) + 1 = Len(p) + 1
    BY <1>2, Zenon
  <2> QED BY <2>1, <2>2, <2>3, Zenon
<1> QED BY <1>2, <1>3, Zenon

(* The walk finds nothing unknown in a complete document.                  *)
LEMMA CompleteIsKnown ==
  ASSUME NEW keys \in Complete, NEW o, Known(o) # {}
  PROVE  FieldsIn(keys, o) \subseteq Known(o)
<1>1. o \in Objects /\ Known(o) = Declared[o] /\ o # Formats
  BY DEF Known, Objects, Declared, Formats
<1>2. SUFFICES ASSUME NEW k \in keys, Len(k) = Len(o) + 1, SubSeq(k, 1, Len(o)) = o
               PROVE  k[Len(k)] \in Declared[o]
  BY <1>1 DEF FieldsIn
<1>3. CASE k \in DeclaredKeys
  <2>0. PICK p \in Objects : k \in {Append(p, f) : f \in Declared[p]}
    BY <1>3 DEF DeclaredKeys
  <2>1. PICK f \in Declared[p] : k = Append(p, f)
    BY <2>0
  <2> QED BY <1>1, <1>2, <2>1, KeyOfObject
<1>4. CASE k = JpegEntry
  <2>1. Formats \in Seq({"preprocessor", "supported_formats", "JPEG"}) /\ o \in Seq(Name)
    BY <1>1, ObjectsAreNames DEF Formats
  <2>2. Len(o) = Len(Formats) /\ SubSeq(k, 1, Len(Formats)) = Formats
    BY <1>2, <1>4, <2>1, AppendPoints DEF JpegEntry
  <2> QED BY <1>1, <1>2, <2>2
<1> QED BY <1>3, <1>4 DEF Complete

(* serde accepts it, but for a null, and drops nothing.                    *)
LEMMA CompleteConverts ==
  ASSUME NEW d, IsDocument(d), d.keys \in Complete
  PROVE  (d.knob # "null" => Converts(d)) /\ Converted(d) = d
<1>1. DeclaredKeys \subseteq d.keys /\ d.keys \subseteq DeclaredKeys \cup {JpegEntry}
  BY DEF Complete
<1>2. ASSUME NEW k \in d.keys, Len(k) = Len(Formats) + 1, SubSeq(k, 1, Len(Formats)) = Formats
      PROVE  k[Len(k)] = "JPEG"
  <2>1. CASE k \in DeclaredKeys
    <3>0. PICK p \in Objects : k \in {Append(p, f) : f \in Declared[p]}
      BY <2>1 DEF DeclaredKeys
    <3>1. PICK f \in Declared[p] : k = Append(p, f)
      BY <3>0
    <3>2. Formats = p
      BY <1>2, <3>1, KeyOfObject
    <3> QED BY <3>2 DEF Formats, Objects
  <2>2. CASE k = JpegEntry
    BY <2>2 DEF JpegEntry, Formats
  <2> QED BY <1>1, <2>1, <2>2
<1>3. FieldsIn(d.keys, Formats) \subseteq {"JPEG"}
  BY <1>2 DEF FieldsIn
<1>4. d.keys \cap (DeclaredKeys \cup {JpegEntry}) = d.keys
  BY <1>1
<1>5. Converted(d) = d
  BY <1>4 DEF Converted, IsDocument
<1> QED BY <1>1, <1>3, <1>5 DEF Converts

LEMMA ConversionCompletes ==
  ASSUME NEW d, IsDocument(d)
  PROVE  /\ IsDocument(Converted(d))
         /\ Converts(d) => Converted(d).keys \in Complete
         /\ Converted(d).version = d.version
         /\ Converted(d).nonce_len = d.nonce_len
         /\ Converted(d).knob = d.knob
<1> DEFINE c == [keys |-> d.keys \cap (DeclaredKeys \cup {JpegEntry}),
                 version |-> d.version, nonce_len |-> d.nonce_len, knob |-> d.knob]
<1>1. Converted(d) = c
  BY DEF Converted, IsDocument
<1>2. IsDocument(c)
  BY DEF IsDocument
<1>3. Converts(d) => c.keys \in Complete
  BY DEF Converts, Complete
<1> QED BY <1>1, <1>2, <1>3

(* What is saved is a document, and has a null exactly for a number that   *)
(* JSON does not have.                                                     *)
LEMMA SavedDocument ==
  ASSUME NEW d, IsDocument(d)
  PROVE  /\ IsDocument(ToJson(d))
         /\ ToJson(d).keys = d.keys /\ ToJson(d).nonce_len = d.nonce_len
         /\ ToJson(d).knob = IF d.knob = "not_finite" THEN "null" ELSE d.knob
<1> DEFINE t == [keys |-> d.keys, version |-> d.version, nonce_len |-> d.nonce_len,
                 knob |-> IF d.knob = "not_finite" THEN "null" ELSE d.knob]
<1>1. ToJson(d) = t
  BY DEF ToJson, IsDocument
<1>2. IsDocument(t)
  BY DEF IsDocument
<1> QED BY <1>1, <1>2

LEMMA DocumentsAreDocuments ==
  /\ \A d \in Document \cup InMemory : IsDocument(d)
  /\ Complete \subseteq Written
  /\ IsDocument(Nothing)
  /\ IsText(DefaultDocument) /\ IsDocument(DefaultDocument) /\ DefaultDocument.keys \in Complete
<1>1. Complete \subseteq Written
  <2>1. \A w \in Complete : w \in {w} \cup {{k \in w : ~Below(p, k)} : p \in DeclaredKeys}
    OBVIOUS
  <2> QED BY <2>1 DEF Written
<1> QED BY <1>1 DEF Document, InMemory, IsText, IsDocument, Nothing, DefaultDocument, Complete

-----------------------------------------------------------------------------
(* The inductive invariant, in named parts. *)

(* What may stand in a file: a picture is never written to, a message is a *)
(* sealed one, and a secret key was generated here.                        *)
Fits(p, c) ==
  /\ p = "image" => c = Absent \/ \E x \in Photo : c = [picture |-> x]
  /\ p = "text" => ("text" \in DOMAIN c => c.text \in Text)
  /\ p = "config" => ("config" \in DOMAIN c => IsText(c.config))
  /\ p = "message" => ("message" \in DOMAIN c => c.message \in Message)
  /\ p = "public" => c \in {Absent, Cut} \/ \E k \in KeyPair : c = [public |-> k]
  /\ p = "secret" => c \in {Absent, Cut} \/ \E k \in made : c = [secret |-> k]

FilesTell ==
  /\ session \in Session /\ build \in {"classic", "pq"} /\ made \subseteq KeyPair
  /\ files = [p \in Path |-> files[p]]
  /\ \A p \in Path : Fits(p, files[p])

(* How far the command and the loading of its configuration have come.     *)
PlaceTells ==
  /\ at \in {"library", "prompt", "start", "loading", "dispatch", "write", "content",
             "print", "end", "exit"}
  /\ at \notin {"library", "prompt"} => command \in Command
  /\ at \in {"prompt", "start"} => pc = "idle" /\ ~saved
  /\ at \in {"prompt", "start", "loading", "dispatch"} => before = files
  /\ at = "loading" /\ pc \in {"load", "walk", "convert", "running"} =>
       Is("config", "config") /\ doc = files["config"].config
  /\ at = "loading" => pc # "program" /\ command.config
  /\ at = "loading" /\ pc = "running" => instance = Converted(doc)
  /\ at \in {"dispatch", "write", "content", "print"} => pc = "running"
  /\ at \in {"dispatch", "write", "content", "print"} /\ command.config =>
       instance = Converted(before["config"].config)

(* The documents: what is loaded, what runs, and what was saved.           *)
SavedTells ==
  saved => /\ doc.keys \in Complete /\ doc.nonce_len = 12 /\ doc.knob \in {"finite", "null"}
           /\ pc \in {"load", "walk", "convert"} /\ doc.knob = "null" => instance.knob = "not_finite"
ConfigTells ==
  /\ IsDocument(doc) /\ IsDocument(instance)
  /\ pc = "program" => ~saved /\ doc.keys \in Complete /\ doc.knob \in {"finite", "not_finite"}
  /\ pc = "running" => instance.keys \in Complete
  /\ pc = "running" /\ ~saved => instance.knob \in {"finite", "not_finite"}
  /\ pc \in {"load", "walk", "convert"} => doc.knob \in {"finite", "null"}
  /\ SavedTells
  /\ RunsOnlySupported
  /\ SavedConfigLoads

(* What is still to be written, command by command.                        *)
Only(p, c) == pending = << <<p, c>> >>
PairToSealFor == IF "pq" \in command.with THEN files["public"].public ELSE M!NoPair
Sealed == M!SealedMessage(Plaintext.text, Key, PairToSealFor, 0, 0)
KeygenWrites ==
  \E k \in made :
    /\ before["secret"] # [secret |-> k]
    /\ \/ /\ pending = << <<"secret", [secret |-> k]>>, <<"public", [public |-> k]>> >>
          /\ files["secret"] \in {before["secret"], Cut} /\ files["public"] = before["public"]
       \/ Only("public", [public |-> k]) /\ files["secret"] = [secret |-> k]
Writing ==
  \/ command.name = "export" /\ Only("record", [record |-> Key])
  \/ /\ command.name = "analyze" /\ "report" \in command.with
     /\ Only("report", ReportOf(Picture, Effective))
  \/ /\ command.name = "encrypt" /\ Sealed \in Message
     /\ Only("message", [message |-> Sealed, length |-> Plaintext.length + Overhead])
  \/ command.name = "pq_keygen" /\ KeygenWrites
  \/ /\ command.name = "batch" /\ "output" \in command.with
     /\ Only("manifest", [manifest |-> IF Derivable THEN {Key} ELSE {}])
  \/ /\ command.name = "config" /\ "output" \in command.with
     /\ Only("config", [config |-> DefaultDocument])

WritesTell == at \in {"write", "content"} => status = 0 /\ Kept /\ Writing

(* Whatever happens, in every place.                                       *)
OnlyOutputs ==
  at \notin {"library", "prompt"} =>
    /\ \A p \in Path \ Outputs : files[p] = before[p]
    /\ command.name = "pq_keygen" => PairInOrder

(* What a result stands for, before and after it is printed.               *)
ZeroTells(out) ==
  status = 0 =>
    /\ Delivered
    /\ command.config => instance = Converted(before["config"].config)
    /\ command.name = "decrypt" => out = files["message"].message.encrypted_message.plaintext
TwoTells ==
  status = 2 => /\ command.name = "verify" /\ Derivable
                /\ Is("record", "record") /\ files["record"] # [record |-> Key]
OneTells == status = 1 => Kept
DecryptTells ==
  command.name = "decrypt" /\ status = 1 /\ pc = "running" /\ Derivable =>
    ~ /\ Is("message", "message") /\ Opens(files["message"].message)
      /\ files["message"].length <= Cap
ResultTells(out) ==
  status \in {0, 1, 2} /\ ZeroTells(out) /\ TwoTells /\ OneTells /\ DecryptTells

DoneTells ==
  /\ at = "print" => ResultTells(says)
  /\ at = "end" => ResultTells(printed)

CommandInv ==
  /\ FilesTell /\ PlaceTells /\ ConfigTells /\ WritesTell
  /\ OnlyOutputs /\ DoneTells /\ ExitTellsOutcome

-----------------------------------------------------------------------------
(* The loading of a configuration, by a program or by a command.           *)

LEMMA ConfigStep ==
  ASSUME ConfigTells, Next
  PROVE  ConfigTells'
<1> USE DEF ConfigTells, SavedTells, RunsOnlySupported, SavedConfigLoads
<1>1. CASE Load
  BY <1>1 DEF Load
<1>2. ASSUME NEW o \in agenda, Visit(o) PROVE ConfigTells'
  <2>1. saved => FieldsIn(doc.keys, o) \subseteq Known(o) \/ Known(o) = {}
    BY CompleteIsKnown
  <2>2. saved => pc' = pc
    BY <1>2, <2>1 DEF Visit
  <2>3. UNCHANGED <<doc, instance, saved>> /\ pc = "walk" /\ pc' \in {"walk", "refused"}
    BY <1>2 DEF Visit
  <2> QED BY <2>2, <2>3
<1>3. CASE EndWalk
  BY <1>3 DEF EndWalk
<1>4. CASE Convert
  <2> DEFINE passes == Converts(doc) /\ doc.version = 1 /\ Valid(doc)
  <2>1. UNCHANGED <<doc, saved>> /\ pc = "convert" /\ doc.knob \in {"finite", "null"}
    BY <1>4 DEF Convert
  <2>2. CASE passes
    <3>1. pc' = "running" /\ instance' = Converted(doc)
      BY <1>4, <2>2 DEF Convert, Run
    <3>2. /\ IsDocument(instance') /\ instance'.keys \in Complete
          /\ instance'.version = 1 /\ instance'.nonce_len = 12
      BY <2>2, <3>1, ConversionCompletes DEF Valid
    <3>3. instance'.knob = "finite"
      BY <2>1, <2>2, <3>1, ConversionCompletes DEF Converts
    <3>4. saved => instance' = doc
      BY <3>1, CompleteConverts
    <3> QED BY <2>1, <3>1, <3>2, <3>3, <3>4
  <2>3. CASE ~passes
    <3>1. pc' = "refused" /\ instance' = instance
      BY <1>4, <2>3 DEF Convert
    <3>2. saved => doc.version # 1 \/ doc.knob = "null"
      BY <2>3, CompleteConverts DEF Valid
    <3> QED BY <2>1, <3>1, <3>2
  <2> QED BY <2>2, <2>3
<1>5. CASE WithConfig
  <2>1. UNCHANGED <<doc, saved>> /\ pc = "program"
    BY <1>5 DEF WithConfig
  <2>2. CASE Valid(doc)
    <3>1. pc' = "running" /\ instance' = Converted(doc)
      BY <1>5, <2>2 DEF WithConfig, Run
    <3>2. Converted(doc) = doc
      BY <2>1, CompleteConverts
    <3> QED BY <2>1, <2>2, <3>1, <3>2 DEF Valid
  <2>3. CASE ~Valid(doc)
    BY <1>5, <2>1, <2>3 DEF WithConfig
  <2> QED BY <2>2, <2>3
<1>6. CASE Save
  <2>1. /\ pc = "running" /\ ~saved /\ doc' = ToJson(instance) /\ saved' = TRUE
        /\ pc' = "load" /\ instance' = instance
    BY <1>6 DEF Save
  <2>2. /\ IsDocument(doc') /\ doc'.keys = instance.keys /\ doc'.nonce_len = instance.nonce_len
        /\ doc'.knob = IF instance.knob = "not_finite" THEN "null" ELSE instance.knob
    BY <2>1, SavedDocument
  <2> QED BY <2>1, <2>2
<1> QED BY <1>1, <1>2, <1>3, <1>4, <1>5, <1>6 DEF Next

(* What every command leaves alone while it works.                         *)
LEMMA DispatchFrame ==
  ASSUME Dispatch, made \subseteq KeyPair
  PROVE  /\ at = "dispatch" /\ at' \in {"end", "print", "write"}
         /\ UNCHANGED <<doc, pc, agenda, instance, saved, session, build, files, command, before, used>>
         /\ made \subseteq made' /\ made' \subseteq KeyPair
<1> USE DEF Perform, Fail, configVars
<1>1. CASE Derive
  BY <1>1 DEF Derive
<1>2. CASE Analyze
  BY <1>2 DEF Analyze
<1>3. CASE Export
  BY <1>3 DEF Export
<1>4. CASE Verify
  BY <1>4 DEF Verify
<1>5. CASE Encrypt
  BY <1>5 DEF Encrypt
<1>6. CASE Decrypt
  BY <1>6 DEF Decrypt
<1>7. CASE PqKeygen
  BY <1>7 DEF PqKeygen, Generated
<1>8. CASE Batch
  BY <1>8 DEF Batch
<1>9. CASE RunSelftest
  BY <1>9 DEF RunSelftest
<1>10. CASE WriteConfig
  BY <1>10 DEF WriteConfig
<1> QED
  BY <1>1, <1>2, <1>3, <1>4, <1>5, <1>6, <1>7, <1>8, <1>9, <1>10 DEF Dispatch

LEMMA OptionsOf ==
  ASSUME NEW c \in Command
  PROVE  /\ "report" \in c.with => c.name = "analyze"
         /\ "output" \in c.with => c.name \in {"batch", "config"}
<1>1. PICK n \in DOMAIN Options : c \in [name : {n}, config : BOOLEAN, with : SUBSET Options[n]]
  BY DEF Command
<1>2. c.name = n /\ c.with \subseteq Options[n]
  BY <1>1
<1>3. /\ "report" \in Options[n] => n = "analyze"
      /\ "output" \in Options[n] => n \in {"batch", "config"}
  BY <1>1 DEF Options
<1> QED BY <1>2, <1>3

(* A file that is written next is an output, and what goes into it fits.   *)
LEMMA OneWrite ==
  ASSUME NEW p, NEW c, NEW q, NEW d
  PROVE  /\ << <<p, c>> >>[1][1] = p /\ << <<p, c>> >>[1][2] = c
         /\ Tail(<< <<p, c>> >>) = <<>>
         /\ << <<p, c>>, <<q, d>> >>[1][1] = p /\ << <<p, c>>, <<q, d>> >>[1][2] = c
         /\ Tail(<< <<p, c>>, <<q, d>> >>) = << <<q, d>> >>
         /\ << <<q, d>> >> # <<>>
  OBVIOUS

LEMMA WritingFits ==
  ASSUME FilesTell, Writing
  PROVE  pending[1][1] \in Path \ {"image", "text"} /\ Fits(pending[1][1], pending[1][2])
<1>1. CASE command.name = "export" /\ Only("record", [record |-> Key])
  BY <1>1, OneWrite DEF Only, Fits, Path
<1>2. CASE Only("report", ReportOf(Picture, Effective))
  BY <1>2, OneWrite DEF Only, Fits, Path
<1>3. CASE Sealed \in Message /\ Only("message", [message |-> Sealed, length |-> Plaintext.length + Overhead])
  BY <1>3, OneWrite DEF Only, Fits, Path
<1>4. CASE KeygenWrites
  <2>1. PICK k \in made :
          \/ pending = << <<"secret", [secret |-> k]>>, <<"public", [public |-> k]>> >>
          \/ Only("public", [public |-> k])
    BY <1>4 DEF KeygenWrites
  <2>2. \/ pending[1][1] = "secret" /\ pending[1][2] = [secret |-> k]
        \/ pending[1][1] = "public" /\ pending[1][2] = [public |-> k]
    BY <2>1, OneWrite DEF Only
  <2> QED BY <2>2 DEF Fits, Path, FilesTell
<1>5. CASE Only("manifest", [manifest |-> IF Derivable THEN {Key} ELSE {}])
  BY <1>5, OneWrite DEF Only, Fits, Path
<1>6. CASE Only("config", [config |-> DefaultDocument])
  BY <1>6, OneWrite, DocumentsAreDocuments DEF Only, Fits, Path
<1> QED BY <1>1, <1>2, <1>3, <1>4, <1>5, <1>6 DEF Writing

LEMMA CutFits == \A p \in Path \ {"image", "text"} : Fits(p, Cut)
  BY DEF Fits, Cut

-----------------------------------------------------------------------------
LEMMA InvInit == CommandInit => CommandInv
<1> SUFFICES ASSUME CommandInit PROVE CommandInv
  OBVIOUS
<1>1. FilesTell
  <2>1. session \in Session /\ build \in {"classic", "pq"} /\ made = {}
    BY DEF CommandInit
  <2>2. CASE files = [p \in Path |-> Absent]
    BY <2>1, <2>2 DEF FilesTell, Fits, Absent
  <2>3. ASSUME NEW p \in session.photos, NEW t \in session.texts, NEW d \in session.documents,
               files = [x \in Path |-> CASE x = "image" -> [picture |-> p]
                                         [] x = "text" -> t
                                         [] x = "config" -> d
                                         [] OTHER -> Absent]
        PROVE  FilesTell
    <3>1. p \in Photo /\ ("config" \in DOMAIN d => IsText(d.config))
      BY <2>1, CommandAssumption DEF CommandAssumption
    <3>2. "text" \in DOMAIN t => t.text \in Text
      <4> SUFFICES ASSUME "text" \in DOMAIN t
                   PROVE  t.text \in {u.text : u \in {v \in UNION {s.texts : s \in Session} : "text" \in DOMAIN v}}
        BY DEF Text
      <4>1. t \in UNION {s.texts : s \in Session}
        BY <2>1
      <4> QED BY <4>1
    <3>3. Fits("image", [picture |-> p]) /\ Fits("text", t) /\ Fits("config", d)
      BY <3>1, <3>2 DEF Fits
    <3>4. \A x \in Path \ {"image", "text", "config"} : Fits(x, Absent)
      BY DEF Fits, Absent
    <3>5. \A x \in Path : Fits(x, files[x])
      BY <2>3, <3>3, <3>4 DEF Path
    <3> QED BY <2>1, <2>3, <3>5 DEF FilesTell
  <2> QED BY <2>2, <2>3 DEF CommandInit
<1>2. PlaceTells
  BY DEF CommandInit, PlaceTells
<1>3. ConfigTells
  BY DocumentsAreDocuments
     DEF CommandInit, Init, ConfigTells, SavedTells, RunsOnlySupported, SavedConfigLoads,
         Document, InMemory
<1>4. WritesTell /\ OnlyOutputs /\ DoneTells /\ ExitTellsOutcome
  BY DEF CommandInit, WritesTell, OnlyOutputs, DoneTells, ExitTellsOutcome
<1> QED BY <1>1, <1>2, <1>3, <1>4 DEF CommandInv

LEMMA ConfigNext ==
  ASSUME CommandInv, [CommandNext]_everything
  PROVE  ConfigTells'
<1>0. ConfigTells
  BY DEF CommandInv
<1>1. CASE Library \/ LoadConfig
  BY <1>0, <1>1, ConfigStep DEF Library, LoadConfig, Next
<1>2. CASE UNCHANGED configVars
  BY <1>0, <1>2 DEF configVars, ConfigTells, SavedTells, RunsOnlySupported, SavedConfigLoads
<1>3. CASE Preflight
  <2>1. CASE UNCHANGED configVars
    BY <1>2, <2>1
  <2>2. CASE ~ UNCHANGED configVars
    <3>1. /\ pc' = "running" /\ instance' = DefaultDocument
          /\ UNCHANGED <<doc, agenda, saved>> /\ at = "start"
      BY <1>3, <2>2 DEF Preflight, configVars
    <3>2. ~saved
      BY <3>1 DEF CommandInv, PlaceTells
    <3>3. instance'.nonce_len = 12 /\ instance'.knob = "finite"
      BY <3>1 DEF DefaultDocument
    <3> QED
      BY <1>0, <3>1, <3>2, <3>3, DocumentsAreDocuments
         DEF ConfigTells, SavedTells, RunsOnlySupported, SavedConfigLoads
  <2> QED BY <2>1, <2>2
<1>4. CASE ReadConfig
  <2>1. CASE Is("config", "config")
    <3>1. /\ doc' = files["config"].config /\ pc' = "load" /\ instance' = instance
          /\ saved' => doc' = DefaultDocument
      BY <1>4, <2>1 DEF ReadConfig
    <3>2. IsDocument(doc') /\ doc'.knob \in {"finite", "null"}
      BY <2>1, <3>1 DEF CommandInv, FilesTell, Fits, Is, Path, IsText
    <3>3. DefaultDocument.nonce_len = 12 /\ DefaultDocument.knob = "finite"
      BY DEF DefaultDocument
    <3> QED
      BY <1>0, <3>1, <3>2, <3>3, DocumentsAreDocuments
         DEF ConfigTells, SavedTells, RunsOnlySupported, SavedConfigLoads
  <2>2. CASE ~Is("config", "config")
    BY <1>2, <1>4, <2>2 DEF ReadConfig, configVars
  <2> QED BY <2>1, <2>2
<1>5. CASE Prompt
  BY <1>5, DocumentsAreDocuments DEF Prompt, ConfigTells, SavedTells, RunsOnlySupported, SavedConfigLoads
<1>6. CASE Dispatch
  BY <1>2, <1>6, DispatchFrame DEF CommandInv, FilesTell, configVars
<1>7. CASE ReplacePicture \/ (\E c \in session.commands : Start(c)) \/ ConfigLoaded
           \/ Truncate \/ Fill \/ WriteFails \/ PrintOutcome \/ PrintFails \/ End \/ Kill
           \/ UNCHANGED everything
  BY <1>2, <1>7
     DEF ReplacePicture, Start, ConfigLoaded, Truncate, Fill, WriteFails, PrintOutcome, PrintFails, End,
         Kill, everything
<1> QED BY <1>1, <1>3, <1>4, <1>5, <1>6, <1>7 DEF CommandNext

LEMMA PlaceNext ==
  ASSUME CommandInv, [CommandNext]_everything
  PROVE  PlaceTells'
<1>0. PlaceTells /\ FilesTell
  BY DEF CommandInv
<1>1. CASE Library
  BY <1>0, <1>1 DEF Library, PlaceTells, shellVars
<1>2. CASE ReplacePicture
  BY <1>0, <1>2 DEF ReplacePicture, PlaceTells, configVars
<1>3. ASSUME NEW c \in session.commands, Start(c) PROVE PlaceTells'
  <2>1. c \in Command
    BY <1>0, CommandAssumption DEF CommandAssumption, FilesTell
  <2> QED BY <1>0, <1>3, <2>1 DEF Start, PlaceTells, configVars
<1>4. CASE Preflight
  BY <1>0, <1>4 DEF Preflight, PlaceTells, Fail, configVars, shell
<1>5. CASE ReadConfig
  BY <1>0, <1>5 DEF ReadConfig, PlaceTells, Fail, Is, shell
<1>6. CASE LoadConfig
  <2>1. /\ at = "loading" /\ UNCHANGED shellVars
        /\ doc' = doc
        /\ pc \in {"load", "walk", "convert"}
        /\ pc' \in {"walk", "convert", "running", "refused"}
        /\ pc' = "running" => instance' = Converted(doc)
    BY <1>6 DEF LoadConfig, Load, Visit, EndWalk, Convert, Run
  <2> QED BY <1>0, <2>1 DEF PlaceTells, shellVars, Is
<1>7. CASE ConfigLoaded
  BY <1>0, <1>7 DEF ConfigLoaded, PlaceTells, Fail, configVars, shell
<1>8. CASE Dispatch
  BY <1>0, <1>8, DispatchFrame DEF FilesTell, PlaceTells
<1>9. CASE Truncate \/ Fill
  BY <1>0, <1>9 DEF Truncate, Fill, PlaceTells, configVars, shell
<1>10. CASE WriteFails \/ PrintOutcome \/ PrintFails \/ End \/ Kill
  BY <1>0, <1>10 DEF WriteFails, PrintOutcome, PrintFails, End, Kill, Exit, Fail, PlaceTells, configVars,
                     shell
<1>11. CASE Prompt
  BY <1>0, <1>11 DEF Prompt, PlaceTells
<1>12. CASE UNCHANGED everything
  BY <1>0, <1>12 DEF everything, configVars, shellVars, PlaceTells, Is
<1> QED
  BY <1>1, <1>2, <1>3, <1>4, <1>5, <1>6, <1>7, <1>8, <1>9, <1>10, <1>11, <1>12 DEF CommandNext

LEMMA FilesNext ==
  ASSUME CommandInv, [CommandNext]_everything
  PROVE  FilesTell'
<1>0. FilesTell
  BY DEF CommandInv
<1>1. ASSUME UNCHANGED <<session, build, files, made>> PROVE FilesTell'
  BY <1>0, <1>1 DEF FilesTell, Fits
<1>2. ASSUME NEW p \in Path, NEW c, Fits(p, c), UNCHANGED <<session, build, made>>,
             files' = [files EXCEPT ![p] = c]
      PROVE  FilesTell'
  <2>1. \A x \in Path : files'[x] = IF x = p THEN c ELSE files[x]
    BY <1>0, <1>2 DEF FilesTell
  <2>2. \A x \in Path : Fits(x, files'[x])
    BY <1>0, <1>2, <2>1 DEF FilesTell
  <2>3. \A x \in Path : Fits(x, files[x])'
    BY <1>2, <2>2 DEF Fits
  <2>4. (files = [x \in Path |-> files[x]])'
    BY <1>0, <1>2 DEF FilesTell
  <2> QED BY <1>0, <1>2, <2>3, <2>4 DEF FilesTell
<1>3. CASE ReplacePicture
  <2>1. PICK c \in {[picture |-> p] : p \in session.photos} \cup {Absent} :
          files' = [files EXCEPT !["image"] = c]
    BY <1>3 DEF ReplacePicture
  <2>2. c = Absent \/ \E p \in Photo : c = [picture |-> p]
    BY <1>0, CommandAssumption DEF CommandAssumption, FilesTell
  <2>4. Fits("image", c) /\ "image" \in Path
    BY <2>2 DEF Fits, Path
  <2>3. UNCHANGED <<session, build, made>>
    BY <1>3 DEF ReplacePicture
  <2> QED BY <1>2, <2>1, <2>3, <2>4
<1>4. CASE Dispatch
  <2>1. UNCHANGED <<session, build, files>> /\ made \subseteq made' /\ made' \subseteq KeyPair
    BY <1>0, <1>4, DispatchFrame DEF FilesTell
  <2>2. ASSUME NEW p \in Path PROVE Fits(p, files[p])'
    BY <1>0, <2>1 DEF FilesTell, Fits
  <2> QED BY <1>0, <2>1, <2>2 DEF FilesTell
<1>5. CASE Truncate \/ Fill
  <2>1. Writing
    BY <1>5 DEF Truncate, Fill, CommandInv, WritesTell
  <2>2. pending[1][1] \in Path \ {"image", "text"} /\ Fits(pending[1][1], pending[1][2])
    BY <1>0, <2>1, WritingFits
  <2>3. CASE Truncate
    BY <1>2, <2>2, <2>3, CutFits DEF Truncate, shell
  <2>4. CASE Fill
    BY <1>2, <2>2, <2>4 DEF Fill, shell
  <2> QED BY <1>5, <2>3, <2>4
<1>6. CASE Library \/ (\E c \in session.commands : Start(c)) \/ Preflight \/ ReadConfig
           \/ LoadConfig \/ ConfigLoaded \/ WriteFails \/ PrintOutcome \/ PrintFails \/ End \/ Kill
           \/ Prompt \/ UNCHANGED everything
  BY <1>1, <1>6
     DEF Library, Start, Preflight, ReadConfig, LoadConfig, ConfigLoaded, WriteFails, PrintOutcome,
         PrintFails, End, Kill, Prompt, everything, shellVars, shell
<1> QED BY <1>3, <1>4, <1>5, <1>6 DEF CommandNext


-----------------------------------------------------------------------------
(* Which messages open.                                                    *)

LEMMA NoCheckFails ==
  ASSUME NEW m, NEW master, NEW b, NEW pair
  PROVE  M!VerdictOn(m, master, b, pair) = "opened"
           <=> \A i \in 1 .. 5 : M!Checks(m, master, b, pair)[i].ok
<1> DEFINE checks == M!Checks(m, master, b, pair)
           failing == {i \in DOMAIN checks : ~checks[i].ok}
           first == CHOOSE i \in failing : \A j \in failing : i <= j
           verdict == M!VerdictOn(m, master, b, pair)
<1>1. /\ DOMAIN checks = 1 .. 5
      /\ \A i \in 1 .. 5 : checks[i].error # "opened"
  BY DEF M!Checks
<1>2. verdict = IF failing = {} THEN "opened" ELSE checks[first].error
  BY DEF M!VerdictOn
<1> HIDE DEF checks, verdict
<1>3. failing # {} => first \in failing
  <2>1. failing \subseteq 1 .. 5
    BY <1>1
  <2>2. failing # {} => \E i \in failing : \A j \in failing : i <= j
    BY <2>1
  <2> QED BY <2>2
<1> HIDE DEF first
<1>4. (\A i \in 1 .. 5 : checks[i].ok) => failing = {}
  BY <1>1
<1>5. ASSUME NEW i \in 1 .. 5, ~checks[i].ok PROVE verdict # "opened"
  BY <1>1, <1>2, <1>3, <1>5
<1> QED BY <1>2, <1>4, <1>5 DEF checks, verdict

LEMMA OpensExactly ==
  ASSUME NEW m \in Message, NEW p \in Photo, NEW c \in Settings, NEW b \in {"classic", "pq"},
         NEW pair \in KeyPair \cup {M!NoPair}
  PROVE  M!VerdictOn(m, M!MasterKey(p, c), b, pair) = "opened"
           <=> /\ m.image_hash = p
               /\ IF m.ntru_ciphertext.to = M!NoPair THEN b = "pq" => pair = M!NoPair
                  ELSE b = "pq" /\ pair = m.ntru_ciphertext.to
<1> DEFINE key == M!MasterKey(p, c)
<1>1. PICK t \in Text, q \in Photo, d \in Settings, k \in KeyPair \cup {M!NoPair} :
        m = M!SealedMessage(t, M!MasterKey(q, d), k, 0, 0)
  BY DEF Message
<1>2. M!NoPair \notin KeyPair /\ m.ntru_ciphertext # Rot /\ m.encrypted_message # Rot
  BY CommandAssumption DEF CommandAssumption
<1> DEFINE secret == IF k = M!NoPair THEN M!NoSecret ELSE M!SharedSecret(k, t)
           body == M!EncryptWithSubkey(t, M!Subkey("enc", M!MasterKey(q, d), secret))
           theirs == IF M!IsHybrid(m) THEN M!Decapsulated(pair, m.ntru_ciphertext) ELSE M!NoSecret
<1>3. /\ m.image_hash = q /\ m.timestamp = 0
      /\ m.ntru_ciphertext = IF k = M!NoPair THEN M!NoCiphertext ELSE M!Encapsulated(k, t)
      /\ m.encrypted_message = body
      /\ m.signature = M!Tag(M!Subkey("mac", M!MasterKey(q, d), secret), body, q, 0)
  BY <1>1 DEF M!SealedMessage, M!NewMessage, M!MasterKey
<1>4. m.ntru_ciphertext.to = k /\ (M!IsHybrid(m) <=> k # M!NoPair)
  BY <1>3 DEF M!NoCiphertext, M!Encapsulated, M!IsHybrid
<1>5. key.file = p
  BY DEF M!MasterKey
<1>6. p = q => key = M!MasterKey(q, d)
  BY CommandAssumption DEF CommandAssumption, M!MasterKey
<1>7. M!Authentic(m, key, theirs) \in BOOLEAN /\ M!Decrypts(m, key, theirs) \in BOOLEAN
      /\ M!IsHybrid(m) \in BOOLEAN
  BY DEF M!Authentic, M!Verifies, M!Decrypts, M!DecryptsWithSubkey, M!IsHybrid
<1>8. M!VerdictOn(m, key, b, pair) = "opened"
        <=> /\ m.image_hash = key.file
            /\ b = "classic" => ~M!IsHybrid(m)
            /\ b = "pq" => (M!IsHybrid(m) <=> pair # M!NoPair)
            /\ M!Authentic(m, key, theirs)
            /\ M!Decrypts(m, key, theirs)
  <2> HIDE DEF key
  <2>1. M!Checks(m, key, b, pair) =
          << [ok |-> m.image_hash = key.file, error |-> "ImageMismatch"],
             [ok |-> b = "classic" => ~M!IsHybrid(m), error |-> "PqLayerUnavailable"],
             [ok |-> b = "pq" => (M!IsHybrid(m) <=> pair # M!NoPair), error |-> "MalformedMessage"],
             [ok |-> M!Authentic(m, key, theirs), error |-> "VerificationFailed"],
             [ok |-> M!Decrypts(m, key, theirs), error |-> "DecryptionFailed"] >>
    BY Zenon DEF M!Checks
  <2> DEFINE checks == M!Checks(m, key, b, pair)
  <2>2. M!VerdictOn(m, key, b, pair) = "opened" <=> \A i \in 1 .. 5 : checks[i].ok
    BY NoCheckFails
  <2> HIDE DEF theirs
  <2>3. /\ checks[1].ok = (m.image_hash = key.file)
        /\ checks[2].ok = (b = "classic" => ~M!IsHybrid(m))
        /\ checks[3].ok = (b = "pq" => (M!IsHybrid(m) <=> pair # M!NoPair))
        /\ checks[4].ok = M!Authentic(m, key, theirs)
        /\ checks[5].ok = M!Decrypts(m, key, theirs)
    BY <2>1
  <2> HIDE DEF checks
  <2>4. (\A i \in 1 .. 5 : checks[i].ok)
          <=> checks[1].ok /\ checks[2].ok /\ checks[3].ok /\ checks[4].ok /\ checks[5].ok
    <3>1. 1 .. 5 = {1, 2, 3, 4, 5}
      OBVIOUS
    <3> QED BY <3>1
  <2> QED BY <1>7, <2>2, <2>3, <2>4
<1>9. ASSUME p = q, IF k = M!NoPair THEN b = "pq" => pair = M!NoPair ELSE b = "pq" /\ pair = k
      PROVE  M!Authentic(m, key, theirs) /\ M!Decrypts(m, key, theirs)
  <2>1. theirs = secret
    BY <1>2, <1>3, <1>4, <1>9 DEF M!Decapsulated, M!Encapsulated
  <2>2. key = M!MasterKey(q, d)
    BY <1>6, <1>9
  <2> HIDE DEF theirs, secret, key
  <2>3. M!Authentic(m, key, theirs)
    BY <1>3, <2>1, <2>2 DEF M!Authentic, M!Verifies
  <2>4. body.key = M!Subkey("enc", key, theirs)
    BY <2>1, <2>2 DEF M!EncryptWithSubkey
  <2> QED BY <1>2, <1>3, <2>3, <2>4 DEF M!Decrypts, M!DecryptsWithSubkey
<1>10. ASSUME k # M!NoPair, M!Authentic(m, key, theirs)
       PROVE  pair = k
  <2>1. M!Subkey("mac", key, theirs) = M!Subkey("mac", M!MasterKey(q, d), secret)
    <3> HIDE DEF key, theirs, secret, body
    <3> QED BY <1>3, <1>10 DEF M!Authentic, M!Verifies, M!Tag
  <2>2. theirs = IF pair = k THEN M!SharedSecret(k, t)
                 ELSE [pair |-> pair, by |-> "implicit_rejection"]
    BY <1>2, <1>3, <1>4, <1>10 DEF M!Decapsulated, M!Encapsulated
  <2>3. secret = M!SharedSecret(k, t) /\ secret # M!NoSecret /\ secret.pair = k
    BY <1>10 DEF M!SharedSecret, M!NoSecret
  <2>4. M!Subkey("mac", M!MasterKey(q, d), secret).secret = secret
    BY <2>3 DEF M!Subkey, M!ExpandHybridKeys, M!ExpandKey
  <2>5. M!Subkey("mac", key, theirs).secret = theirs
    BY DEF M!Subkey, M!ExpandHybridKeys, M!ExpandKey
  <2>6. theirs.pair = k
    BY <2>1, <2>3, <2>4, <2>5
  <2> QED BY <2>2, <2>6
<1> HIDE DEF theirs, key
<1>11. M!VerdictOn(m, key, b, pair) = "opened"
         <=> /\ p = q
             /\ IF k = M!NoPair THEN b = "pq" => pair = M!NoPair ELSE b = "pq" /\ pair = k
  BY <1>2, <1>3, <1>4, <1>5, <1>8, <1>9, <1>10
<1> QED BY <1>3, <1>4, <1>11 DEF key


(* A record in a file is what its field says.                              *)
LEMMA Contents ==
  /\ DOMAIN Absent = {"absent"} /\ DOMAIN Cut = {"cut"}
  /\ \A x : DOMAIN [picture |-> x] = {"picture"} /\ [picture |-> x].picture = x
  /\ \A k : DOMAIN [public |-> k] = {"public"} /\ [public |-> k].public = k
  /\ \A k : DOMAIN [secret |-> k] = {"secret"} /\ [secret |-> k].secret = k
  BY DEF Absent, Cut

LEMMA KeysInFiles ==
  ASSUME FilesTell
  PROVE  /\ Is("image", "picture") => Picture \in Photo
         /\ Is("public", "public") => files["public"].public \in KeyPair
         /\ Is("secret", "secret") => /\ files["secret"] = [secret |-> files["secret"].secret]
                                      /\ files["secret"].secret \in made
         /\ ~Is("secret", "length")
         /\ \A k : files["secret"] = [secret |-> k] =>
              Is("secret", "secret") /\ files["secret"].secret = k /\ files["secret"] # Absent
<1>1. /\ files["image"] = Absent \/ \E x \in Photo : files["image"] = [picture |-> x]
      /\ files["public"] \in {Absent, Cut} \/ \E k \in KeyPair : files["public"] = [public |-> k]
      /\ files["secret"] \in {Absent, Cut} \/ \E k \in made : files["secret"] = [secret |-> k]
  BY DEF FilesTell, Fits, Path
<1>2. ASSUME Is("image", "picture") PROVE Picture \in Photo
  <2>1. files["image"] # Absent
    BY <1>2, Contents DEF Is
  <2>2. PICK x \in Photo : files["image"] = [picture |-> x]
    BY <1>1, <2>1
  <2>3. Picture = x
    BY <2>2, Contents DEF Picture
  <2> QED BY <2>3
<1>3. ASSUME Is("public", "public") PROVE files["public"].public \in KeyPair
  <2>1. files["public"] \notin {Absent, Cut}
    BY <1>3, Contents DEF Is
  <2>2. PICK k \in KeyPair : files["public"] = [public |-> k]
    BY <1>1, <2>1
  <2>3. files["public"].public = k
    BY <2>2, Contents
  <2> QED BY <2>3
<1>4. ASSUME Is("secret", "secret")
      PROVE  /\ files["secret"] = [secret |-> files["secret"].secret]
             /\ files["secret"].secret \in made
  <2>1. files["secret"] \notin {Absent, Cut}
    BY <1>4, Contents DEF Is
  <2>2. PICK k \in made : files["secret"] = [secret |-> k]
    BY <1>1, <2>1
  <2>3. files["secret"].secret = k
    BY <2>2, Contents
  <2> QED BY <2>2, <2>3
<1>5. ~Is("secret", "length")
  <2>1. DOMAIN files["secret"] \in {{"absent"}, {"cut"}, {"secret"}}
    BY <1>1, Contents
  <2> QED BY <2>1 DEF Is
<1>6. ASSUME NEW k, files["secret"] = [secret |-> k]
      PROVE  Is("secret", "secret") /\ files["secret"].secret = k /\ files["secret"] # Absent
  <2>1. DOMAIN files["secret"] = {"secret"} /\ files["secret"].secret = k
    BY <1>6, Contents
  <2>2. files["secret"] # Absent
    BY <2>1, Contents
  <2> QED BY <2>1, <2>2 DEF Is
<1> QED BY <1>2, <1>3, <1>4, <1>5, <1>6

(* What decrypt asks for is what the message is for.                       *)
DecryptPair ==
  IF "pq" \in command.with /\ Is("secret", "secret") THEN files["secret"].secret ELSE M!NoPair
BringsSecret ==
  "pq" \in command.with => InReach("secret") /\ (build = "pq" => Is("secret", "secret"))

LEMMA DecryptOpens ==
  ASSUME FilesTell, Derivable, Is("message", "message")
  PROVE  BringsSecret /\ M!VerdictOn(files["message"].message, Key, build, DecryptPair) = "opened"
           <=> Opens(files["message"].message)
<1> DEFINE m == files["message"].message
           pq == "pq" \in command.with
<1>1. m \in Message /\ build \in {"classic", "pq"}
  BY DEF FilesTell, Fits, Is, Path
<1>2. Picture \in Photo /\ Effective \in Settings
  BY KeysInFiles DEF Derivable, Effective, Settings
<1>3. made \subseteq KeyPair
  BY DEF FilesTell
<1>4. /\ Is("secret", "secret") => files["secret"] = [secret |-> files["secret"].secret]
                                   /\ files["secret"].secret \in KeyPair
      /\ ~Is("secret", "length")
      /\ \A k : files["secret"] = [secret |-> k] =>
           Is("secret", "secret") /\ files["secret"].secret = k /\ files["secret"] # Absent
  BY <1>3, KeysInFiles
<1>5. DecryptPair \in KeyPair \cup {M!NoPair} /\ M!NoPair \notin KeyPair
  BY <1>4, CommandAssumption DEF CommandAssumption, DecryptPair
<1>6. M!VerdictOn(m, Key, build, DecryptPair) = "opened"
        <=> /\ m.image_hash = Picture
            /\ IF m.ntru_ciphertext.to = M!NoPair THEN build = "pq" => DecryptPair = M!NoPair
               ELSE build = "pq" /\ DecryptPair = m.ntru_ciphertext.to
  BY <1>1, <1>2, <1>5, OpensExactly DEF Key
<1>7. BringsSecret <=> (pq => files["secret"] # Absent /\ (build = "pq" => Is("secret", "secret")))
  BY <1>4 DEF BringsSecret, InReach
<1>8. Opens(m)
        <=> /\ m.image_hash = Picture
            /\ pq => files["secret"] # Absent
            /\ IF m.ntru_ciphertext.to = M!NoPair THEN build = "pq" => ~pq
               ELSE build = "pq" /\ pq /\ files["secret"] = [secret |-> m.ntru_ciphertext.to]
  BY DEF Opens
<1>9. DecryptPair = IF pq /\ Is("secret", "secret") THEN files["secret"].secret ELSE M!NoPair
  BY DEF DecryptPair
<1> HIDE DEF m, pq
<1> QED
  <2>1. CASE m.ntru_ciphertext.to = M!NoPair
    BY <1>4, <1>5, <1>6, <1>7, <1>8, <1>9, <2>1 DEF m, pq
  <2>2. CASE m.ntru_ciphertext.to # M!NoPair
    BY <1>4, <1>5, <1>6, <1>7, <1>8, <1>9, <2>2 DEF m, pq
  <2> QED BY <2>1, <2>2

-----------------------------------------------------------------------------
(* The writing of the files.                                               *)

LEMMA ReadsSame ==
  ASSUME instance' = instance, files'["image"] = files["image"]
  PROVE  Picture' = Picture /\ Effective' = Effective /\ Key' = Key /\ (Derivable' <=> Derivable)
  BY DEF Picture, Effective, Key, Derivable, Is

LEMMA SealsSame ==
  ASSUME instance' = instance, command' = command, files'["image"] = files["image"],
         files'["text"] = files["text"], files'["public"] = files["public"]
  PROVE  Plaintext' = Plaintext /\ PairToSealFor' = PairToSealFor /\ Sealed' = Sealed
<1>1. Plaintext' = Plaintext /\ PairToSealFor' = PairToSealFor
  BY DEF Plaintext, PairToSealFor
<1> QED BY <1>1, ReadsSame DEF Sealed

LEMMA SealsMessages ==
  ASSUME FilesTell, Derivable,
         "message" \notin command.with => Is("text", "text"),
         "pq" \in command.with => Is("public", "public")
  PROVE  Sealed \in Message
<1>1. Picture \in Photo /\ Effective \in Settings
  BY KeysInFiles DEF Derivable, Effective, Settings
<1>2. Plaintext.text \in Text
  <2>1. CASE "message" \in command.with
    BY <2>1 DEF Plaintext, Text
  <2>2. CASE "message" \notin command.with
    BY <2>2 DEF Plaintext, FilesTell, Fits, Is, Path
  <2> QED BY <2>1, <2>2
<1>3. PairToSealFor \in KeyPair \cup {M!NoPair}
  <2>1. CASE "pq" \in command.with
    BY <2>1, KeysInFiles DEF PairToSealFor
  <2>2. CASE "pq" \notin command.with
    BY <2>2 DEF PairToSealFor
  <2> QED BY <2>1, <2>2
<1> QED BY <1>1, <1>2, <1>3 DEF Sealed, Key, Message

(* A command that goes on to write has its output ready.                   *)
LEMMA DispatchWrites ==
  ASSUME CommandInv, Dispatch, at' = "write"
  PROVE  status' = 0 /\ Kept' /\ Writing'
<1>0. /\ at = "dispatch" /\ made \subseteq made' /\ made' \subseteq KeyPair
      /\ UNCHANGED <<instance, session, build, files, command, before>>
  BY DispatchFrame DEF CommandInv, FilesTell
<1>1. Kept'
  BY <1>0 DEF CommandInv, PlaceTells, Kept, FilesTell
<1>2. Picture' = Picture /\ Effective' = Effective /\ Key' = Key /\ (Derivable' <=> Derivable)
  BY <1>0, ReadsSame
<1>3. Plaintext' = Plaintext /\ PairToSealFor' = PairToSealFor /\ Sealed' = Sealed
  BY <1>0, SealsSame
<1> USE DEF Perform, Fail
<1>4. CASE Derive \/ Verify \/ Decrypt \/ RunSelftest
  BY <1>4 DEF Derive, Verify, Decrypt, RunSelftest
<1>5. CASE Analyze
  <2>1. command.name = "analyze" /\ "report" \in command.with /\ status' = 0
        /\ pending' = << <<"report", ReportOf(Picture, Effective)>> >>
    BY <1>5 DEF Analyze, If
  <2> QED BY <1>0, <1>1, <1>2, <2>1 DEF Writing, Only, ReportOf
<1>6. CASE Export
  <2>1. command.name = "export" /\ status' = 0 /\ pending' = << <<"record", [record |-> Key]>> >>
    BY <1>6 DEF Export
  <2> QED BY <1>0, <1>1, <1>2, <2>1 DEF Writing, Only
<1>7. CASE Encrypt
  <2>1. /\ command.name = "encrypt" /\ status' = 0
        /\ pending' = << <<"message", [message |-> Sealed, length |-> Plaintext.length + Overhead]>> >>
    BY <1>7 DEF Encrypt, Sealed, PairToSealFor
  <2>2. /\ Derivable
        /\ "message" \notin command.with => Is("text", "text")
        /\ "pq" \in command.with => Is("public", "public")
    BY <1>7 DEF Encrypt
  <2>3. Sealed \in Message
    BY <2>2, SealsMessages DEF CommandInv
  <2> QED BY <1>0, <1>1, <1>3, <2>1, <2>3 DEF Writing, Only
<1>8. CASE PqKeygen
  <2>1. PICK k \in Generated :
          /\ command.name = "pq_keygen" /\ KeygenAvailable /\ status' = 0
          /\ pending' = << <<"secret", [secret |-> k]>>, <<"public", [public |-> k]>> >>
          /\ made' = made \cup {k}
    BY <1>8 DEF PqKeygen
  <2>2. k \in made' /\ k \notin made
    BY <2>1 DEF Generated
  <2>3. before = files /\ FilesTell
    BY <1>0 DEF CommandInv, PlaceTells
  <2>4. before["secret"] # [secret |-> k]
        /\ files'["secret"] = before'["secret"] /\ files'["public"] = before'["public"]
    BY <1>0, <2>2, <2>3, KeysInFiles
  <2> QED BY <1>0, <1>1, <2>1, <2>2, <2>4 DEF Writing, KeygenWrites
<1>9. CASE Batch
  <2>1. command.name = "batch" /\ "output" \in command.with /\ status' = 0
        /\ pending' = << <<"manifest", [manifest |-> IF Derivable THEN {Key} ELSE {}]>> >>
    BY <1>9 DEF Batch, If
  <2> QED BY <1>0, <1>1, <1>2, <2>1 DEF Writing, Only
<1>10. CASE WriteConfig
  <2>1. command.name = "config" /\ "output" \in command.with /\ status' = 0
        /\ pending' = << <<"config", [config |-> DefaultDocument]>> >>
    BY <1>10 DEF WriteConfig, If
  <2> QED BY <1>0, <1>1, <2>1 DEF Writing, Only
<1> QED BY <1>4, <1>5, <1>6, <1>7, <1>8, <1>9, <1>10 DEF Dispatch


(* The file that is next to be written, and what remains after it.         *)
LEMMA WritingGoesOn ==
  ASSUME CommandInv, Truncate \/ Fill, at' \in {"write", "content"}
  PROVE  status' = 0 /\ Kept' /\ Writing'
<1>0. /\ FilesTell /\ Writing /\ Kept /\ status = 0
      /\ UNCHANGED <<instance, command, status, before, made>>
  BY DEF CommandInv, WritesTell, Truncate, Fill, configVars, shell
<1> DEFINE p == pending[1][1]
<1>1. p \in Path \ {"image", "text"}
  BY <1>0, WritingFits
<1>2. DOMAIN files = Path
  BY <1>0 DEF FilesTell
<1>3. CASE Truncate
  <2>1. files' = [files EXCEPT ![p] = Cut] /\ pending' = pending
    BY <1>3 DEF Truncate
  <2> HIDE DEF p
  <2>2. \A x \in Path : files'[x] = IF x = p THEN Cut ELSE files[x]
    BY <1>1, <1>2, <2>1
  <2>3. Kept'
    BY <1>0, <2>2 DEF Kept
  <2>4. files'["image"] = files["image"] /\ files'["text"] = files["text"]
    BY <1>1, <2>2 DEF Path
  <2>5. Picture' = Picture /\ Effective' = Effective /\ Key' = Key /\ (Derivable' <=> Derivable)
    BY <1>0, <2>4, ReadsSame
  <2>6. CASE command.name = "encrypt" /\ Sealed \in Message
             /\ Only("message", [message |-> Sealed, length |-> Plaintext.length + Overhead])
    <3>1. p = "message"
      BY <2>6, OneWrite DEF Only, p
    <3>2. files'["public"] = files["public"]
      BY <2>2, <3>1 DEF Path
    <3>3. Plaintext' = Plaintext /\ Sealed' = Sealed
      BY <1>0, <2>4, <3>2, SealsSame
    <3> QED BY <1>0, <2>1, <2>3, <2>6, <3>3 DEF Writing, Only
  <2>7. CASE command.name = "pq_keygen" /\ KeygenWrites
    <3>1. PICK k \in made :
            /\ before["secret"] # [secret |-> k]
            /\ \/ /\ pending = << <<"secret", [secret |-> k]>>, <<"public", [public |-> k]>> >>
                  /\ files["secret"] \in {before["secret"], Cut}
                  /\ files["public"] = before["public"]
               \/ Only("public", [public |-> k]) /\ files["secret"] = [secret |-> k]
      BY <2>7 DEF KeygenWrites
    <3>2. Only("public", [public |-> k]) => files'["secret"] = files["secret"]
      <4> SUFFICES ASSUME Only("public", [public |-> k]) PROVE p # "secret"
        BY <2>2 DEF Path
      <4> QED BY OneWrite DEF Only, p
    <3>3. pending = << <<"secret", [secret |-> k]>>, <<"public", [public |-> k]>> >> =>
            files'["secret"] = Cut /\ files'["public"] = files["public"]
      <4> SUFFICES ASSUME pending = << <<"secret", [secret |-> k]>>, <<"public", [public |-> k]>> >>
                   PROVE  p = "secret"
        BY <2>2 DEF Path
      <4> QED BY OneWrite DEF p
    <3>4. KeygenWrites'
      BY <1>0, <2>1, <3>1, <3>2, <3>3 DEF KeygenWrites, Only
    <3> QED BY <1>0, <2>3, <2>7, <3>4 DEF Writing
  <2>8. CASE command.name \notin {"encrypt", "pq_keygen"}
    BY <1>0, <2>1, <2>3, <2>5, <2>8 DEF Writing, Only, ReportOf
  <2> QED BY <1>0, <2>6, <2>7, <2>8 DEF Writing
<1>4. CASE Fill
  <2>1. /\ files' = [files EXCEPT ![p] = pending[1][2]]
        /\ pending' = Tail(pending) /\ pending' # <<>>
    BY <1>4 DEF Fill
  <2>2. ASSUME NEW x, NEW c, Only(x, c) PROVE FALSE
    BY <2>1, <2>2, OneWrite DEF Only
  <2>3. command.name = "pq_keygen" /\ KeygenWrites
    BY <1>0, <2>2 DEF Writing
  <2>4. PICK k \in made :
          /\ before["secret"] # [secret |-> k]
          /\ pending = << <<"secret", [secret |-> k]>>, <<"public", [public |-> k]>> >>
    BY <2>2, <2>3 DEF KeygenWrites
  <2>5. /\ p = "secret" /\ pending[1][2] = [secret |-> k]
        /\ pending' = << <<"public", [public |-> k]>> >>
    BY <2>1, <2>4, OneWrite
  <2>6. \A x \in Path : files'[x] = IF x = "secret" THEN [secret |-> k] ELSE files[x]
    BY <1>2, <2>1, <2>5
  <2>7. Kept'
    BY <1>0, <2>3, <2>6 DEF Kept
  <2>8. KeygenWrites'
    BY <1>0, <2>4, <2>5, <2>6 DEF KeygenWrites, Only, Path
  <2> QED BY <1>0, <2>3, <2>7, <2>8 DEF Writing
<1> QED BY <1>3, <1>4

LEMMA WritesNext ==
  ASSUME CommandInv, [CommandNext]_everything
  PROVE  WritesTell'
<1>1. CASE Dispatch
  <2>1. at' # "content"
    BY <1>1, DispatchFrame DEF CommandInv, FilesTell
  <2> QED BY <1>1, <2>1, DispatchWrites DEF WritesTell
<1>2. CASE Truncate \/ Fill
  BY <1>2, WritingGoesOn DEF WritesTell
<1>3. CASE Library \/ ReplacePicture \/ (\E c \in session.commands : Start(c)) \/ Preflight
           \/ ReadConfig \/ LoadConfig \/ ConfigLoaded \/ WriteFails \/ PrintOutcome \/ PrintFails
           \/ End \/ Kill \/ Prompt
  <2>1. at' \notin {"write", "content"}
    BY <1>3
       DEF Library, ReplacePicture, Start, Preflight, ReadConfig, LoadConfig, ConfigLoaded,
           WriteFails, PrintOutcome, PrintFails, End, Kill, Prompt, Exit, Fail, shellVars
  <2> QED BY <2>1 DEF WritesTell
<1>4. CASE UNCHANGED everything
  <2>1. UNCHANGED <<instance, files, at, command, pending, status, before, made>>
    BY <1>4 DEF everything, configVars, shellVars
  <2>2. Plaintext' = Plaintext /\ Sealed' = Sealed
    BY <2>1, SealsSame
  <2>3. Picture' = Picture /\ Effective' = Effective /\ Key' = Key /\ (Derivable' <=> Derivable)
    BY <2>1, ReadsSame
  <2>4. WritesTell
    BY DEF CommandInv
  <2> QED
    BY <2>1, <2>2, <2>3, <2>4 DEF WritesTell, Kept, Writing, KeygenWrites, Only, ReportOf
<1> QED BY <1>1, <1>2, <1>3, <1>4 DEF CommandNext

-----------------------------------------------------------------------------
(* Where neither the files nor what the command reads changes.             *)
LEMMA ResultSame ==
  ASSUME UNCHANGED <<instance, build, files, command, before>>
  PROVE  /\ (Delivered' <=> Delivered) /\ (Kept' <=> Kept) /\ (PairInOrder' <=> PairInOrder)
         /\ Outputs' = Outputs /\ Key' = Key /\ (Derivable' <=> Derivable)
         /\ \A x : Opens(x)' <=> Opens(x)
<1>1. Picture' = Picture /\ Effective' = Effective /\ Key' = Key /\ (Derivable' <=> Derivable)
  BY ReadsSame
<1>2. Plaintext' = Plaintext
  BY SealsSame
<1>3. \A x : Opens(x)' <=> Opens(x)
  BY <1>1 DEF Opens
<1>4. Delivered' <=> Delivered
  BY <1>1, <1>2, <1>3 DEF Delivered, Is, ReportOf
<1> QED BY <1>1, <1>3, <1>4 DEF Kept, PairInOrder, Outputs

(* What is written next is an output.                                      *)
LEMMA WritingOutputs ==
  ASSUME Writing, command \in Command
  PROVE  pending[1][1] \in Outputs
<1>1. CASE command.name = "export" /\ Only("record", [record |-> Key])
  <2>1. pending[1][1] = "record"
    BY <1>1, OneWrite DEF Only
  <2>2. Outputs = {"record"}
    BY <1>1, OptionsOf DEF Outputs
  <2> QED BY <2>1, <2>2
<1>2. CASE command.name = "analyze" /\ "report" \in command.with
           /\ Only("report", ReportOf(Picture, Effective))
  BY <1>2, OneWrite DEF Only, Outputs
<1>3. CASE command.name = "encrypt"
           /\ Only("message", [message |-> Sealed, length |-> Plaintext.length + Overhead])
  <2>1. pending[1][1] = "message"
    BY <1>3, OneWrite DEF Only
  <2>2. Outputs = {"message"}
    BY <1>3, OptionsOf DEF Outputs
  <2> QED BY <2>1, <2>2
<1>4. CASE command.name = "pq_keygen" /\ KeygenWrites
  <2>1. PICK k \in made :
          \/ pending = << <<"secret", [secret |-> k]>>, <<"public", [public |-> k]>> >>
          \/ Only("public", [public |-> k])
    BY <1>4 DEF KeygenWrites
  <2>2. pending[1][1] \in {"secret", "public"}
    BY <2>1, OneWrite DEF Only
  <2>3. Outputs = {"secret", "public"}
    BY <1>4, OptionsOf DEF Outputs
  <2> QED BY <2>2, <2>3
<1>5. CASE command.name = "batch" /\ "output" \in command.with
           /\ Only("manifest", [manifest |-> IF Derivable THEN {Key} ELSE {}])
  BY <1>5, OneWrite, OptionsOf DEF Only, Outputs
<1>6. CASE command.name = "config" /\ "output" \in command.with
           /\ Only("config", [config |-> DefaultDocument])
  BY <1>6, OneWrite, OptionsOf DEF Only, Outputs
<1> QED BY <1>1, <1>2, <1>3, <1>4, <1>5, <1>6 DEF Writing

(* A key pair is written in its order.                                     *)
LEMMA PairStays ==
  ASSUME CommandInv, Truncate \/ Fill, command.name = "pq_keygen"
  PROVE  PairInOrder'
<1>0. /\ FilesTell /\ Kept /\ KeygenWrites /\ UNCHANGED <<command, before, made>>
  BY DEF CommandInv, WritesTell, Writing, Truncate, Fill, shell
<1>1. DOMAIN files = Path /\ made \subseteq KeyPair
  BY <1>0 DEF FilesTell
<1>2. PICK k \in made :
        /\ before["secret"] # [secret |-> k]
        /\ \/ /\ pending = << <<"secret", [secret |-> k]>>, <<"public", [public |-> k]>> >>
              /\ files["secret"] \in {before["secret"], Cut} /\ files["public"] = before["public"]
           \/ Only("public", [public |-> k]) /\ files["secret"] = [secret |-> k]
  BY <1>0 DEF KeygenWrites
<1>3. CASE /\ pending = << <<"secret", [secret |-> k]>>, <<"public", [public |-> k]>> >>
           /\ files["secret"] \in {before["secret"], Cut} /\ files["public"] = before["public"]
  <2>1. pending[1][1] = "secret" /\ pending[1][2] = [secret |-> k]
    BY <1>3, OneWrite
  <2>2. \/ files' = [files EXCEPT !["secret"] = Cut]
        \/ files' = [files EXCEPT !["secret"] = [secret |-> k]]
    BY <2>1 DEF Truncate, Fill
  <2>3. files'["public"] = before["public"] /\ files'["secret"] \in {Cut, [secret |-> k]}
    BY <1>1, <1>3, <2>2 DEF Path
  <2> QED BY <1>0, <1>1, <1>2, <2>3 DEF PairInOrder
<1>4. CASE Only("public", [public |-> k]) /\ files["secret"] = [secret |-> k]
  <2>1. pending[1][1] = "public" /\ pending[1][2] = [public |-> k]
    BY <1>4, OneWrite DEF Only
  <2>2. \/ files' = [files EXCEPT !["public"] = Cut]
        \/ files' = [files EXCEPT !["public"] = [public |-> k]]
    BY <2>1 DEF Truncate, Fill
  <2>3. files'["secret"] = [secret |-> k] /\ files'["public"] \in {Cut, [public |-> k]}
    BY <1>1, <1>4, <2>2 DEF Path
  <2> QED BY <1>0, <1>1, <1>2, <2>3 DEF PairInOrder
<1> QED BY <1>2, <1>3, <1>4

LEMMA OutputsNext ==
  ASSUME CommandInv, [CommandNext]_everything
  PROVE  OnlyOutputs'
<1>0. PlaceTells /\ FilesTell /\ OnlyOutputs
  BY DEF CommandInv
<1>1. ASSUME UNCHANGED <<files, command, before>>, at \notin {"library", "prompt"}
      PROVE  OnlyOutputs'
  BY <1>0, <1>1 DEF OnlyOutputs, Outputs, PairInOrder
<1>2. CASE Library \/ ReplacePicture \/ Prompt
  BY <1>0, <1>2 DEF Library, ReplacePicture, Prompt, OnlyOutputs, shellVars
<1>3. ASSUME NEW c \in session.commands, Start(c) PROVE OnlyOutputs'
  <2>1. before' = before /\ files' = files /\ before = files
    BY <1>0, <1>3 DEF Start, PlaceTells
  <2> QED BY <2>1 DEF OnlyOutputs, PairInOrder
<1>4. CASE Dispatch
  BY <1>1, <1>4, DispatchFrame DEF CommandInv, FilesTell
<1>5. CASE Truncate \/ Fill
  <2>1. /\ Writing /\ command \in Command /\ at \notin {"library", "prompt"}
        /\ UNCHANGED <<command, before>>
    BY <1>0, <1>5 DEF CommandInv, WritesTell, PlaceTells, Truncate, Fill, shell
  <2>2. pending[1][1] \in Outputs
    BY <2>1, WritingOutputs
  <2>3. \A q \in Path : q # pending[1][1] => files'[q] = files[q]
    <3>1. DOMAIN files = Path
      BY <1>0 DEF FilesTell
    <3> QED BY <1>5, <3>1 DEF Truncate, Fill
  <2>4. Outputs' = Outputs
    BY <2>1 DEF Outputs
  <2>5. \A q \in Path \ Outputs : files'[q] = before[q]
    BY <1>0, <2>1, <2>2, <2>3 DEF OnlyOutputs
  <2> QED BY <1>5, <2>1, <2>4, <2>5, PairStays DEF OnlyOutputs
<1>6. CASE Preflight \/ ReadConfig \/ LoadConfig \/ ConfigLoaded \/ WriteFails \/ PrintOutcome
           \/ PrintFails \/ End \/ Kill
  <2>1. UNCHANGED <<files, command, before>> /\ at \notin {"library", "prompt"}
    BY <1>6
       DEF Preflight, ReadConfig, LoadConfig, ConfigLoaded, WriteFails, PrintOutcome, PrintFails, End,
           Kill, shellVars, shell
  <2> QED BY <1>1, <2>1
<1>7. CASE UNCHANGED everything
  BY <1>0, <1>7 DEF everything, shellVars, OnlyOutputs, Outputs, PairInOrder
<1> QED BY <1>2, <1>3, <1>4, <1>5, <1>6, <1>7 DEF CommandNext

-----------------------------------------------------------------------------
(* The result of a command.                                                *)

(* A command that writes nothing: an error, or only something to say.      *)
LEMMA DispatchResults ==
  ASSUME CommandInv, Dispatch, at' \in {"print", "end"}
  PROVE  DoneTells'
<1>0. /\ at = "dispatch" /\ before = files /\ FilesTell /\ command \in Command
      /\ UNCHANGED <<pc, instance, build, files, command, before>>
      /\ command.config => instance = Converted(before["config"].config)
  BY DispatchFrame DEF CommandInv, FilesTell, PlaceTells
<1>1. Kept' /\ OneTells'
  BY <1>0 DEF OneTells, Kept, FilesTell
<1>2. Key' = Key /\ (Derivable' <=> Derivable) /\ \A x : Opens(x)' <=> Opens(x)
  BY <1>0, ResultSame
<1>3. ASSUME command.name \in {"derive", "analyze", "batch", "selftest", "config"},
             "report" \notin command.with, "output" \notin command.with
      PROVE  Delivered'
  BY <1>0, <1>3 DEF Delivered
<1>4. ASSUME status' = 0 => at' = "print" /\ Delivered', status' \in {0, 1},
             command.name # "decrypt"
      PROVE  DoneTells'
  BY <1>0, <1>1, <1>4 DEF DoneTells, ResultTells, ZeroTells, TwoTells, DecryptTells
<1> USE DEF Perform, Fail
<1>5. CASE Derive
  <2>1. command.name = "derive" /\ (status' = 1 \/ (status' = 0 /\ at' = "print"))
    BY <1>5 DEF Derive
  <2> QED BY <1>0, <1>3, <1>4, <2>1, OptionsOf
<1>6. CASE RunSelftest
  <2>1. command.name = "selftest" /\ (status' = 1 \/ (status' = 0 /\ at' = "print"))
    BY <1>6 DEF RunSelftest
  <2> QED BY <1>0, <1>3, <1>4, <2>1, OptionsOf
<1>7. CASE Analyze
  <2>1. /\ command.name = "analyze"
        /\ status' = 1 \/ (status' = 0 /\ at' = "print" /\ "report" \notin command.with)
    BY <1>7 DEF Analyze, If
  <2> QED BY <1>0, <1>3, <1>4, <2>1, OptionsOf
<1>8. CASE Export
  <2>1. command.name = "export" /\ status' = 1
    BY <1>8 DEF Export
  <2> QED BY <1>4, <2>1
<1>9. CASE Encrypt
  <2>1. command.name = "encrypt" /\ status' = 1
    BY <1>9 DEF Encrypt
  <2> QED BY <1>4, <2>1
<1>10. CASE PqKeygen
  <2>1. command.name = "pq_keygen" /\ status' = 1
    BY <1>10 DEF PqKeygen
  <2> QED BY <1>4, <2>1
<1>11. CASE Batch
  <2>1. /\ command.name = "batch"
        /\ status' = 1 \/ (status' = 0 /\ at' = "print" /\ "output" \notin command.with)
    BY <1>11 DEF Batch, If
  <2> QED BY <1>0, <1>3, <1>4, <2>1, OptionsOf
<1>12. CASE WriteConfig
  <2>1. /\ command.name = "config"
        /\ status' = 1 \/ (status' = 0 /\ at' = "print" /\ "output" \notin command.with)
    BY <1>12 DEF WriteConfig, If
  <2> QED BY <1>0, <1>3, <1>4, <2>1, OptionsOf
<1>13. CASE Verify
  <2>1. command.name = "verify"
    BY <1>13 DEF Verify
  <2>2. \/ status' = 1
        \/ /\ Derivable /\ Is("record", "record") /\ at' = "print"
           /\ status' = IF files["record"] = [record |-> Key] THEN 0 ELSE 2
    BY <1>13 DEF Verify
  <2>3. status' = 0 => at' = "print" /\ Delivered'
    BY <1>0, <1>2, <2>1, <2>2, OptionsOf DEF Delivered
  <2>4. TwoTells' /\ status' \in {0, 1, 2}
    BY <1>0, <1>2, <2>1, <2>2 DEF TwoTells, Is
  <2> QED
    BY <1>0, <1>1, <2>1, <2>3, <2>4 DEF DoneTells, ResultTells, ZeroTells, DecryptTells
<1>14. CASE Decrypt
  <2> DEFINE m == files["message"].message
             reads == InReach("message") /\ Is("message", "message")
             opened == BringsSecret /\ M!VerdictOn(m, Key, build, DecryptPair) = "opened"
             ok == reads /\ Derivable /\ opened
  <2>1. command.name = "decrypt"
    BY <1>14 DEF Decrypt
  <2>2. IF ok THEN status' = 0 /\ at' = "print" /\ says' = m.encrypted_message.plaintext
        ELSE status' = 1
    BY <1>14 DEF Decrypt, BringsSecret, DecryptPair
  <2>3. Derivable /\ Is("message", "message") => (opened <=> Opens(m))
    BY <1>0, DecryptOpens
  <2>4. Is("message", "message") /\ files["message"].length <= Cap => InReach("message")
    BY Contents DEF Is, InReach
  <2> HIDE DEF opened
  <2>5. (\A x : Opens(x)' <=> Opens(x)) /\ (Is("message", "message")' <=> Is("message", "message"))
    BY <1>0, <1>2 DEF Is
  <2>6. status' = 0 => Delivered'
    BY <1>0, <2>1, <2>2, <2>3, <2>5, OptionsOf DEF Delivered
  <2>7. DecryptTells'
    BY <1>0, <1>2, <2>2, <2>3, <2>4, <2>5 DEF DecryptTells
  <2>8. TwoTells' /\ status' \in {0, 1}
    BY <2>2 DEF TwoTells
  <2>9. at' = "print" => ZeroTells(says)'
    BY <1>0, <2>2, <2>6 DEF ZeroTells
  <2>10. at' = "end" => ZeroTells(printed)'
    BY <2>2 DEF ZeroTells
  <2> QED BY <1>1, <2>7, <2>8, <2>9, <2>10 DEF DoneTells, ResultTells
<1> QED
  BY <1>5, <1>6, <1>7, <1>8, <1>9, <1>10, <1>11, <1>12, <1>13, <1>14 DEF Dispatch

(* The last file is there.                                                 *)
LEMMA FillResults ==
  ASSUME CommandInv, Fill, at' = "print"
  PROVE  DoneTells'
<1>0. /\ FilesTell /\ Writing /\ status' = 0 /\ command \in Command /\ pending' = <<>>
      /\ UNCHANGED <<instance, command, before, made>>
      /\ command.config => instance = Converted(before["config"].config)
  BY DEF CommandInv, WritesTell, PlaceTells, Fill, configVars, shell
<1> DEFINE p == pending[1][1]
<1>1. p \in Path \ {"image", "text"}
  BY <1>0, WritingFits
<1>2. DOMAIN files = Path /\ made \subseteq KeyPair
  BY <1>0 DEF FilesTell
<1>3. files' = [files EXCEPT ![p] = pending[1][2]] /\ Tail(pending) = <<>>
  BY <1>0 DEF Fill
<1>4. \A x \in Path : files'[x] = IF x = p THEN pending[1][2] ELSE files[x]
  <2> HIDE DEF p
  <2> QED BY <1>1, <1>2, <1>3
<1>5. ASSUME NEW x \in Path, NEW c, Only(x, c)
      PROVE  /\ p = x /\ files'[x] = c
             /\ \A y \in Path : y # x => files'[y] = files[y]
  <2>1. p = x /\ pending[1][2] = c
    BY <1>5, OneWrite DEF Only
  <2> HIDE DEF p
  <2> QED BY <1>4, <2>1
<1>6. files'["image"] = files["image"] /\ files'["text"] = files["text"]
  <2> HIDE DEF p
  <2> QED BY <1>1, <1>4 DEF Path
<1>7. Picture' = Picture /\ Effective' = Effective /\ Key' = Key /\ (Derivable' <=> Derivable)
  BY <1>0, <1>6, ReadsSame
<1> HIDE DEF p
<1>8. Delivered'
  <2>1. CASE command.name = "export" /\ Only("record", [record |-> Key])
    <3>1. files'["record"] = [record |-> Key]
      BY <1>5, <2>1 DEF Path
    <3> QED BY <1>0, <1>7, <2>1, <3>1, OptionsOf DEF Delivered
  <2>2. CASE /\ command.name = "analyze" /\ "report" \in command.with
             /\ Only("report", ReportOf(Picture, Effective))
    <3>1. files'["report"] = ReportOf(Picture, Effective)
      BY <1>5, <2>2 DEF Path
    <3> QED BY <1>0, <1>7, <2>2, <3>1 DEF Delivered, ReportOf
  <2>3. CASE command.name = "encrypt"
             /\ Only("message", [message |-> Sealed, length |-> Plaintext.length + Overhead])
    <3>1. files'["message"] = [message |-> Sealed, length |-> Plaintext.length + Overhead]
          /\ files'["public"] = files["public"]
      BY <1>5, <2>3 DEF Path
    <3>2. Is("message", "message")' /\ files'["message"].message = Sealed
      BY <3>1 DEF Is
    <3>3. Plaintext' = Plaintext /\ PairToSealFor' = PairToSealFor
      BY <1>0, <1>6, <3>1, SealsSame
    <3>4. /\ Sealed.encrypted_message.plaintext = Plaintext.text
          /\ Sealed.image_hash = Picture
          /\ Sealed.ntru_ciphertext.to = PairToSealFor
      <4>1. /\ Sealed.encrypted_message.plaintext = Plaintext.text
            /\ Sealed.image_hash = Picture
        BY DEF Sealed, Key, M!MasterKey, M!SealedMessage, M!NewMessage, M!EncryptWithSubkey
      <4>2. Sealed.ntru_ciphertext = IF PairToSealFor = M!NoPair THEN M!NoCiphertext
                                     ELSE M!Encapsulated(PairToSealFor, Plaintext.text)
        BY DEF Sealed, M!SealedMessage, M!NewMessage
      <4>3. Sealed.ntru_ciphertext.to = PairToSealFor
        BY <4>2 DEF M!NoCiphertext, M!Encapsulated
      <4> QED BY <4>1, <4>3
    <3>5. PairToSealFor' = IF "pq" \in command'.with THEN files'["public"].public ELSE M!NoPair
      BY DEF PairToSealFor
    <3> QED BY <1>0, <1>7, <2>3, <3>2, <3>3, <3>4, <3>5, OptionsOf DEF Delivered
  <2>4. CASE command.name = "pq_keygen" /\ KeygenWrites
    <3>1. PICK k \in made :
            \/ pending = << <<"secret", [secret |-> k]>>, <<"public", [public |-> k]>> >>
            \/ /\ Only("public", [public |-> k]) /\ files["secret"] = [secret |-> k]
               /\ before["secret"] # [secret |-> k]
      BY <2>4 DEF KeygenWrites
    <3>2. /\ Only("public", [public |-> k]) /\ files["secret"] = [secret |-> k]
          /\ before["secret"] # [secret |-> k]
      <4> SUFFICES ASSUME pending = << <<"secret", [secret |-> k]>>, <<"public", [public |-> k]>> >>
                   PROVE  FALSE
        BY <3>1
      <4>1. Tail(pending) # <<>>
        BY OneWrite
      <4> QED BY <1>3, <4>1
    <3>3. files'["public"] = [public |-> k] /\ files'["secret"] = [secret |-> k]
      BY <1>5, <3>2 DEF Path
    <3> QED BY <1>0, <1>2, <2>4, <3>2, <3>3, OptionsOf DEF Delivered
  <2>5. CASE /\ command.name = "batch" /\ "output" \in command.with
             /\ Only("manifest", [manifest |-> IF Derivable THEN {Key} ELSE {}])
    <3>1. files'["manifest"] = [manifest |-> IF Derivable THEN {Key} ELSE {}]
      BY <1>5, <2>5 DEF Path
    <3> QED BY <1>0, <1>7, <2>5, <3>1, OptionsOf DEF Delivered
  <2>6. CASE /\ command.name = "config" /\ "output" \in command.with
             /\ Only("config", [config |-> DefaultDocument])
    <3>1. files'["config"] = [config |-> DefaultDocument]
      BY <1>5, <2>6 DEF Path
    <3> QED BY <1>0, <2>6, <3>1, OptionsOf DEF Delivered
  <2> QED BY <1>0, <2>1, <2>2, <2>3, <2>4, <2>5, <2>6 DEF Writing
<1>9. command.name # "decrypt"
  BY <1>0 DEF Writing
<1> QED
  BY <1>0, <1>8, <1>9
     DEF DoneTells, ResultTells, ZeroTells, TwoTells, OneTells, DecryptTells

LEMMA DoneNext ==
  ASSUME CommandInv, [CommandNext]_everything
  PROVE  DoneTells'
<1>0. PlaceTells /\ FilesTell /\ DoneTells
  BY DEF CommandInv
<1>1. ASSUME status' = 1, at' # "print", Kept', command.name # "decrypt" \/ pc' # "running",
             command' = command
      PROVE  DoneTells'
  BY <1>1 DEF DoneTells, ResultTells, ZeroTells, TwoTells, OneTells, DecryptTells
<1>2. ASSUME before = files, files' = files, before' = before PROVE Kept'
  BY <1>0, <1>2 DEF Kept, FilesTell
<1>3. ASSUME at' \notin {"print", "end"} PROVE DoneTells'
  BY <1>3 DEF DoneTells
<1>4. CASE Preflight \/ ReadConfig \/ ConfigLoaded
  <2>1. SUFFICES ASSUME at' = "end" PROVE DoneTells'
    BY <1>3, <1>4 DEF Preflight, ReadConfig, ConfigLoaded, Fail
  <2>2. /\ status' = 1 /\ pc' # "running" /\ UNCHANGED <<files, before, command>>
        /\ before = files
    BY <1>0, <1>4, <2>1 DEF Preflight, ReadConfig, ConfigLoaded, PlaceTells, Fail, configVars, shell
  <2> QED BY <1>1, <1>2, <2>1, <2>2
<1>5. CASE Dispatch
  BY <1>3, <1>5, DispatchResults
<1>6. CASE Fill
  <2>1. at' # "end"
    BY <1>6 DEF Fill
  <2> QED BY <1>3, <1>6, <2>1, FillResults
<1>7. CASE WriteFails
  <2>1. status' = 1 /\ at' = "end" /\ UNCHANGED <<files, before, command>> /\ Kept /\ Writing
    BY <1>7 DEF WriteFails, Fail, CommandInv, WritesTell, shell
  <2>2. command.name # "decrypt"
    BY <2>1 DEF Writing
  <2>3. Kept'
    BY <2>1 DEF Kept
  <2> QED BY <1>1, <2>1, <2>2, <2>3
<1>8. CASE PrintOutcome
  <2>1. /\ at = "print" /\ at' = "end" /\ printed' = says
        /\ UNCHANGED <<pc, instance, build, files, command, status, before>>
    BY <1>8 DEF PrintOutcome, configVars, shell
  <2>2. ResultTells(says)
    BY <1>0, <2>1 DEF DoneTells
  <2>3. ResultTells(printed)'
    BY <2>1, <2>2, ResultSame
       DEF ResultTells, ZeroTells, TwoTells, OneTells, DecryptTells, Is
  <2> QED BY <2>1, <2>3 DEF DoneTells
<1>9. CASE Library \/ ReplacePicture \/ (\E c \in session.commands : Start(c))
           \/ LoadConfig \/ Truncate \/ PrintFails \/ End \/ Kill \/ Prompt
  <2>1. at' \notin {"print", "end"}
    BY <1>9
       DEF Library, ReplacePicture, Start, LoadConfig, Truncate, PrintFails, End, Kill, Prompt,
           Exit, shellVars
  <2> QED BY <1>3, <2>1
<1>10. CASE UNCHANGED everything
  <2>1. UNCHANGED <<pc, instance, build, files, at, command, says, status, printed, before>>
    BY <1>10 DEF everything, configVars, shellVars
  <2> QED
    BY <1>0, <2>1, ResultSame
       DEF DoneTells, ResultTells, ZeroTells, TwoTells, OneTells, DecryptTells, Is
<1> QED
  BY <1>4, <1>5, <1>6, <1>7, <1>8, <1>9, <1>10 DEF CommandNext

(* The exit code, in its parts.                                            *)
CodeTells ==
  /\ ZeroTells(printed) /\ TwoTells /\ OneTells /\ DecryptTells
  /\ status \notin {0, 1, 2} => Kept \/ Delivered

LEMMA ExitParts == (at = "exit" => CodeTells)' /\ OnlyOutputs' => ExitTellsOutcome'
  BY DEF ExitTellsOutcome, CodeTells, OnlyOutputs, ZeroTells, TwoTells, OneTells, DecryptTells

(* What a process that goes away too early leaves behind.                  *)
LEMMA CutShort ==
  ASSUME CommandInv,
         at \in {"start", "loading", "dispatch", "write", "content", "print", "end"}
  PROVE  Kept \/ Delivered
<1>0. PlaceTells /\ FilesTell
  BY DEF CommandInv
<1>1. CASE at \in {"write", "content"}
  BY <1>1 DEF CommandInv, WritesTell
<1>2. CASE at \in {"start", "loading", "dispatch"}
  BY <1>0, <1>2 DEF PlaceTells, Kept
<1>3. CASE at \in {"print", "end"}
  <2>1. PICK out : ResultTells(out)
    BY <1>3 DEF CommandInv, DoneTells
  <2>2. CASE status = 0
    BY <2>1, <2>2 DEF ResultTells, ZeroTells
  <2>3. CASE status = 1
    BY <2>1, <2>3 DEF ResultTells, OneTells
  <2>4. CASE status = 2
    <3>1. command.name = "verify" /\ command \in Command
      BY <1>0, <1>3, <2>1, <2>4 DEF ResultTells, TwoTells, PlaceTells
    <3>2. Outputs = {}
      BY <3>1, OptionsOf DEF Outputs
    <3> QED BY <1>3, <3>2 DEF CommandInv, OnlyOutputs, Kept
  <2> QED BY <2>1, <2>2, <2>3, <2>4 DEF ResultTells
<1> QED BY <1>1, <1>2, <1>3

LEMMA ExitNext ==
  ASSUME CommandInv, [CommandNext]_everything
  PROVE  ExitTellsOutcome'
<1> SUFFICES ASSUME at' = "exit" PROVE CodeTells'
  BY ExitParts, OutputsNext
<1>0. PlaceTells /\ FilesTell
  BY DEF CommandInv
<1>1. CASE PrintFails \/ Kill
  <2>1. /\ status' \notin {0, 1, 2}
        /\ UNCHANGED <<instance, build, files, command, before>>
        /\ at \in {"start", "loading", "dispatch", "write", "content", "print", "end"}
    BY <1>1 DEF PrintFails, Kill, Exit, Killed, Panicked, configVars, shell
  <2>2. Kept' \/ Delivered'
    BY <2>1, CutShort, ResultSame
  <2> QED BY <2>1, <2>2 DEF CodeTells, ZeroTells, TwoTells, OneTells, DecryptTells
<1>2. CASE End
  <2>1. /\ at = "end"
        /\ (status' = status) \/ (status = 1 /\ status' = 101)
        /\ UNCHANGED <<pc, instance, build, files, command, printed, before>>
    BY <1>2 DEF End, Exit, Panicked, configVars, shell
  <2>2. ResultTells(printed)
    BY <2>1 DEF CommandInv, DoneTells
  <2>3. CASE status' = status
    BY <2>1, <2>2, <2>3, ResultSame
       DEF ResultTells, CodeTells, ZeroTells, TwoTells, OneTells, DecryptTells, Is
  <2>4. CASE status = 1 /\ status' = 101
    BY <2>1, <2>2, <2>4, ResultSame
       DEF ResultTells, CodeTells, ZeroTells, TwoTells, OneTells, DecryptTells
  <2> QED BY <2>1, <2>3, <2>4
<1>3. CASE Dispatch
  BY <1>3, DispatchFrame DEF CommandInv, FilesTell
<1>4. CASE Library \/ ReplacePicture \/ (\E c \in session.commands : Start(c)) \/ Preflight
           \/ ReadConfig \/ LoadConfig \/ ConfigLoaded \/ Truncate \/ Fill \/ WriteFails
           \/ PrintOutcome \/ Prompt
  <2>1. at' # "exit"
    BY <1>0, <1>4
       DEF PlaceTells, Library, ReplacePicture, Start, Preflight, ReadConfig, LoadConfig,
           ConfigLoaded, Truncate, Fill, WriteFails, PrintOutcome, Prompt, Fail, shellVars
  <2> QED BY <2>1
<1>5. CASE UNCHANGED everything
  <2>1. /\ UNCHANGED <<pc, instance, build, files, at, command, status, printed, before>>
        /\ ExitTellsOutcome /\ at = "exit"
    BY <1>5 DEF CommandInv, everything, configVars, shellVars
  <2>2. CodeTells
    BY <2>1 DEF ExitTellsOutcome, CodeTells, ZeroTells, TwoTells, OneTells, DecryptTells
  <2> QED
    BY <2>1, <2>2, ResultSame
       DEF CodeTells, ZeroTells, TwoTells, OneTells, DecryptTells, Is
<1> QED BY <1>1, <1>2, <1>3, <1>4, <1>5 DEF CommandNext

-----------------------------------------------------------------------------
LEMMA CommandInvariant == CommandSpec => []CommandInv
<1>1. CommandInv /\ [CommandNext]_everything => CommandInv'
  BY FilesNext, PlaceNext, ConfigNext, WritesNext, OutputsNext, DoneNext, ExitNext
     DEF CommandInv
<1> QED BY <1>1, InvInit, PTL DEF CommandSpec, everything

(* RunsOnlySupported for every document and every way to an instance: a    *)
(* program's configuration, a document it loads, and the -C option of any  *)
(* command.                                                                *)
THEOREM OnlySupportedRuns == CommandSpec => []RunsOnlySupported
<1>1. CommandInv => RunsOnlySupported
  BY DEF CommandInv, ConfigTells
<1> QED BY <1>1, CommandInvariant, PTL

(* SavedConfigLoads for every document: what an instance saved, or the     *)
(* config command wrote, is loaded whole, key by key and number by number, *)
(* or refused because the instance ran with a number JSON does not have.   *)
THEOREM SavedLoads == CommandSpec => []SavedConfigLoads
<1>1. CommandInv => SavedConfigLoads
  BY DEF CommandInv, ConfigTells
<1> QED BY <1>1, CommandInvariant, PTL

(* ExitTellsOutcome for any pictures, texts, key pairs and sessions: exit  *)
(* code 0 stands for whole outputs of this very command, 2 for a record of *)
(* another picture, 1 leaves no other whole file behind, and a process     *)
(* that was killed or could not print has either done all that a 0 stands  *)
(* for or left no other whole file behind.                                 *)
THEOREM ExitCodeIsHonest == CommandSpec => []ExitTellsOutcome
<1>1. CommandInv => ExitTellsOutcome
  BY DEF CommandInv
<1> QED BY <1>1, CommandInvariant, PTL
=============================================================================
