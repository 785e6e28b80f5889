---------------------------- MODULE KeyRecordFile ----------------------------
(***************************************************************************)
(* `spectrum export` and `spectrum verify` running against one key image   *)
(* and one .frk record: KeyRecord::save through write_secret_file,         *)
(* KeyRecord::load through read_capped, and the two commands around them.  *)
(* Processes interleave at every system call; an export may be interrupted *)
(* anywhere (killed, or the disk full); the key image may be replaced      *)
(* between two commands or in the middle of one.                           *)
(***************************************************************************)
EXTENDS FileBytes, KeyDerivation

CONSTANTS
  Exporter,     (* export processes, each run once                           *)
  Verifier,     (* verify processes, each run once                           *)
  MaxEdits      (* bound: how often the key image is replaced                *)

ASSUME KeyRecordAssumption ==
  /\ Exporter \cap Verifier = {}
  /\ MaxEdits \in Nat

VARIABLES
  photo,        (* current bytes of the key image                            *)
  edits,        (* replacements so far                                       *)
  file,         (* content of the .frk path                                  *)
  mode,         (* its permissions: "wide" (umask default) or "owner" (0600) *)
  pc,           (* where each process is                                     *)
  config,       (* the configuration each process runs under                 *)
  record,       (* export: the record being saved; verify: the one loaded    *)
  offset,       (* export: tokens written through its handle                 *)
  buffer,       (* verify: tokens read so far                                *)
  derived       (* verify: the record derived from the image it read         *)

vars == <<photo, edits, file, mode, pc, config, record, offset, buffer, derived>>

Process == Exporter \cup Verifier

(* The record cmd_export builds and cmd_verify compares against. *)
DerivedRecord(bytes, cfg) == [key |-> MasterKey(bytes, cfg), hash |-> bytes]
Record == {DerivedRecord(x[1], x[2]) : x \in (Photo \X Config) \ Refused}
NoRecord == [key |-> NoMaster]

-----------------------------------------------------------------------------
(* The on-disk layout: magic, key length, key, image hash, checksum.  The  *)
(* checksum is a digest of everything before it.                           *)
Checksum(body) == [field |-> "checksum", of |-> body]
Body(r) == << [field |-> "magic"], [field |-> "key_len"],
              [field |-> "key", of |-> r.key], [field |-> "hash", of |-> r.hash] >>
Serialized(r) == Append(Body(r), Checksum(Body(r)))
RecordLen == 5

(* Faulty variant: length and layout are checked, the checksum is not. *)
LoadsUnchecked(data) ==
  /\ Len(data) = RecordLen
  /\ data[1].field = "magic" /\ data[2].field = "key_len"
  /\ data[3].field = "key" /\ data[4].field = "hash"

(* KeyRecord::load accepts: every rejection is the same MalformedMessage.  *)
Loads(data) ==
  /\ Len(data) >= 1
  /\ data[Len(data)] = Checksum(SubSeq(data, 1, Len(data) - 1))
  /\ Len(data) = RecordLen
  /\ data[1].field = "magic" /\ data[2].field = "key_len"
  /\ data[3].field = "key" /\ data[4].field = "hash"
Loaded(data) == [key |-> data[3].of, hash |-> data[4].of]

-----------------------------------------------------------------------------
(* The record path is fresh, or holds some other file with wide mode. *)
Init ==
  /\ photo \in Photo
  /\ edits = 0
  /\ file \in {Absent, <<Hole>>}
  /\ mode = "wide"
  /\ pc = [p \in Process |-> "start"]
  /\ config \in [Process -> Config]
  /\ record = [p \in Process |-> NoRecord]
  /\ offset = [e \in Exporter |-> 0]
  /\ buffer = [v \in Verifier |-> Empty]
  /\ derived = [v \in Verifier |-> NoRecord]

Goto(p, next) == pc' = [pc EXCEPT ![p] = next]

(* The user replaces the key image. *)
EditPhoto ==
  /\ edits < MaxEdits
  /\ \E b \in Photo \ {photo} : photo' = b
  /\ edits' = edits + 1
  /\ UNCHANGED <<file, mode, pc, config, record, offset, buffer, derived>>

-----------------------------------------------------------------------------
(* cmd_export: derive first, so that a refused image writes nothing. *)
ExportDerive(e) ==
  /\ pc[e] = "start"
  /\ IF Derives(photo, config[e])
       THEN /\ Goto(e, "create")
            /\ record' = [record EXCEPT ![e] = DerivedRecord(photo, config[e])]
       ELSE Goto(e, "failed") /\ UNCHANGED record
  /\ UNCHANGED <<photo, edits, file, mode, config, offset, buffer, derived>>

(* Faulty variant: the mode is given at creation only, as                  *)
(* OpenOptions::mode would.                                                *)
CreateWithMode(e) ==
  /\ pc[e] = "create"
  /\ file' = Empty
  /\ mode' = IF file = Absent THEN "owner" ELSE mode
  /\ Goto(e, "write")
  /\ UNCHANGED <<photo, edits, config, record, offset, buffer, derived>>

(* File::create: truncates; keeps the mode of a file that was there. *)
Create(e) ==
  /\ pc[e] = "create"
  /\ file' = Empty
  /\ mode' = IF file = Absent THEN "wide" ELSE mode
  /\ Goto(e, "chmod")
  /\ UNCHANGED <<photo, edits, config, record, offset, buffer, derived>>

SetPermissions(e) ==
  /\ pc[e] = "chmod"
  /\ mode' = "owner"
  /\ Goto(e, "write")
  /\ UNCHANGED <<photo, edits, file, config, record, offset, buffer, derived>>

(* Faulty variant: the file is opened for appending. *)
WriteAppending(e) ==
  /\ pc[e] = "write"
  /\ \E to \in offset[e] + 1 .. RecordLen :
       /\ file' = file \o SubSeq(Serialized(record[e]), offset[e] + 1, to)
       /\ offset' = [offset EXCEPT ![e] = to]
       /\ Goto(e, IF to = RecordLen THEN "done" ELSE "write")
  /\ UNCHANGED <<photo, edits, mode, config, record, buffer, derived>>

(* write_all: one write call at a time, each of any length. *)
Write(e) ==
  /\ pc[e] = "write"
  /\ \E to \in offset[e] + 1 .. RecordLen :
       /\ file' = Written(file, Serialized(record[e]), offset[e] + 1, to)
       /\ offset' = [offset EXCEPT ![e] = to]
       /\ Goto(e, IF to = RecordLen THEN "done" ELSE "write")
  /\ UNCHANGED <<photo, edits, mode, config, record, buffer, derived>>

(* The process is killed, or a system call of write_secret_file fails. *)
Interrupt(e) ==
  /\ pc[e] \in {"create", "chmod", "write"}
  /\ Goto(e, "failed")
  /\ UNCHANGED <<photo, edits, file, mode, config, record, offset, buffer, derived>>

-----------------------------------------------------------------------------
(* cmd_verify: KeyRecord::load comes before the derivation. *)
Open(v) ==
  /\ pc[v] = "start"
  /\ Goto(v, IF file = Absent THEN "failed" ELSE "read")
  /\ UNCHANGED <<photo, edits, file, mode, config, record, offset, buffer, derived>>

Read(v) ==
  /\ pc[v] = "read"
  /\ ~AtEnd(file, buffer[v])
  /\ \E k \in 1 .. RecordLen : buffer' = [buffer EXCEPT ![v] = ReadMore(file, @, k)]
  /\ UNCHANGED <<photo, edits, file, mode, pc, config, record, offset, derived>>

Load(v) ==
  /\ pc[v] = "read"
  /\ AtEnd(file, buffer[v])
  /\ IF Loads(buffer[v])
       THEN Goto(v, "derive") /\ record' = [record EXCEPT ![v] = Loaded(buffer[v])]
       ELSE Goto(v, "malformed") /\ UNCHANGED record
  /\ UNCHANGED <<photo, edits, file, mode, config, offset, buffer, derived>>

VerifyDerive(v) ==
  /\ pc[v] = "derive"
  /\ IF Derives(photo, config[v])
       THEN /\ Goto(v, "compare")
            /\ derived' = [derived EXCEPT ![v] = DerivedRecord(photo, config[v])]
       ELSE Goto(v, "failed") /\ UNCHANGED derived
  /\ UNCHANGED <<photo, edits, file, mode, config, record, offset, buffer>>

(* Faulty variant: only the image hash is compared. *)
CompareHashOnly(v) ==
  /\ pc[v] = "compare"
  /\ Goto(v, IF derived[v].hash = record[v].hash THEN "verified" ELSE "mismatch")
  /\ UNCHANGED <<photo, edits, file, mode, config, record, offset, buffer, derived>>

(* VERIFIED needs both the key and the image hash to agree. *)
Compare(v) ==
  /\ pc[v] = "compare"
  /\ LET matchesKey  == derived[v].key = record[v].key
         matchesHash == derived[v].hash = record[v].hash
     IN  Goto(v, IF matchesKey /\ matchesHash THEN "verified" ELSE "mismatch")
  /\ UNCHANGED <<photo, edits, file, mode, config, record, offset, buffer, derived>>

Export(e) == ExportDerive(e) \/ Create(e) \/ SetPermissions(e) \/ Write(e)
Verify(v) == Open(v) \/ Read(v) \/ Load(v) \/ VerifyDerive(v) \/ Compare(v)

Next ==
  \/ EditPhoto
  \/ \E e \in Exporter : Export(e) \/ Interrupt(e)
  \/ \E v \in Verifier : Verify(v)

Spec == Init /\ [][Next]_vars

-----------------------------------------------------------------------------
ExporterState == {"start", "create", "chmod", "write", "done", "failed"}
VerifierState == {"start", "read", "malformed", "derive", "compare",
                  "verified", "mismatch", "failed"}
TypeOK ==
  /\ photo \in Photo
  /\ edits \in 0 .. MaxEdits
  /\ mode \in {"wide", "owner"}
  /\ \A e \in Exporter : pc[e] \in ExporterState
  /\ \A v \in Verifier : pc[v] \in VerifierState
  /\ config \in [Process -> Config]
  /\ record \in [Process -> Record \cup {NoRecord}]
  /\ offset \in [Exporter -> 0 .. RecordLen]
  /\ derived \in [Verifier -> Record \cup {NoRecord}]

(* No byte of a key is ever in a file others may read, whoever wrote it    *)
(* and whatever was at the path before (write_secret_file sets the mode    *)
(* before the content, data.rs).                                           *)
SecretsStayPrivate ==
  (\E i \in 1 .. Len(file) : file[i].field = "key") => mode = "owner"

(* However the writes of two exports, a truncation and a reader interleave *)
(* and wherever an export is cut off, what load accepts is one whole       *)
(* record of one export: torn and mixed files fail the checksum.           *)
LoadedRecordWasExported ==
  \A v \in Verifier :
    record[v] # NoRecord => \E e \in Exporter : record[v] = record[e]

(* cmd_verify answers VERIFIED exactly when the image it read has the very *)
(* bytes some export read and both configurations draw the same witness    *)
(* from them; whatever happened to image and record in between.            *)
VerdictIsExact ==
  \A v \in Verifier :
    pc[v] \in {"verified", "mismatch"} =>
      ( pc[v] = "verified" <=>
          LET bytes == derived[v].hash
          IN  \E e \in Exporter :
                /\ record[e] = record[v] /\ record[e].hash = bytes
                /\ Witness[bytes, config[e]] = Witness[bytes, config[v]] )

(* Exports that run at the same time and derive the same record leave that *)
(* record behind, complete, whatever order their truncations and writes    *)
(* take: re-running export is idempotent even against itself.              *)
ConcurrentExportsConverge ==
  \A r \in Record :
    (\A e \in Exporter : pc[e] = "done" /\ record[e] = r) => file = Serialized(r)
==============================================================================
