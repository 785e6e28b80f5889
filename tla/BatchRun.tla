------------------------------- MODULE BatchRun ------------------------------
(***************************************************************************)
(* `spectrum batch` (cmd_batch, collect_images) over a folder of pictures  *)
(* that changes under it, its manifest written by `BatchManifest::save`,   *)
(* and `BatchManifest::load` reading that manifest.  A JSON document is    *)
(* what stands between its braces: it parses when it is closed, nothing is *)
(* missing and nothing follows.                                            *)
(***************************************************************************)
EXTENDS FileBytes, KeyDerivation, FiniteSets, Integers, Functions

CONSTANTS
  Name,        (* names in the folder, ordered as their strings are          *)
  ImageName,   (* those with one of the seven extensions                     *)
  Batch,       (* batch processes, each run once                             *)
  Requests,    (* the batches that are run, with their arguments: files      *)
               (* (<<>> stands for the folder) and whether there is an output *)
  MaxEdits     (* bound: changes to the folder                               *)

ASSUME BatchAssumption ==
  /\ Name \subseteq Int /\ IsFiniteSet(Name) /\ ImageName \subseteq Name
  /\ \A r \in Requests : DOMAIN r \subseteq Batch
       /\ \A b \in DOMAIN r : r[b].files \in Seq(Name) /\ r[b].output \in BOOLEAN
  /\ MaxEdits \in Nat

VARIABLES
  folder,      (* bytes of each name, or NoPhoto                             *)
  edits,
  touched,     (* history: names changed since each batch started            *)
  file, mode,  (* the manifest path, as in KeyRecordFile                     *)
  pc,          (* "list", "derive", "create", "chmod", "write" and the ends  *)
  request,     (* the arguments of each batch                                *)
  seen,        (* names read_dir has returned                                *)
  paths,
  entries,
  offset,      (* tokens written through the handle of the manifest          *)
  overlapped,  (* history: the manifest was truncated while another batch    *)
               (* wrote it or somebody read it                               *)
  reading,     (* the reader: "yes", "rejected" or "loaded"                  *)
  buffer,      (* what it has read                                           *)
  loaded       (* the entries it has accepted                                *)

disk == <<folder, edits, touched, file, mode, overlapped>>
work == <<request, seen, paths, entries, offset>>
reader == <<reading, buffer, loaded>>
vars == <<disk, pc, work, reader>>

CONSTANT TheConfig     (* the one -C of all batches                          *)

NoPhoto == "no photo"

(* The two constructors of BatchEntry; the error text stands for itself. *)
Success(n, bytes) ==
  [image |-> n, key |-> MasterKey(bytes, TheConfig), image_hash |-> bytes, error |-> ""]
Failure(n) == [image |-> n, key |-> NoMaster, image_hash |-> NoPhoto, error |-> "error"]
EntryFor(n, bytes) ==
  IF bytes # NoPhoto /\ Derives(bytes, TheConfig) THEN Success(n, bytes) ELSE Failure(n)

(* to_json, and what from_json accepts. *)
Open == [field |-> "open"]
Close == [field |-> "close"]
Element(e) == [field |-> "entry", of |-> e]
Json(es) == <<Open>> \o [k \in DOMAIN es |-> Element(es[k])] \o <<Close>>

(* Faulty variant: a document that is not closed is taken as it is. *)
ParsesLeniently(data) ==
  /\ Len(data) >= 2 /\ data[1] = Open
  /\ \A k \in 2 .. Len(data) - 1 : data[k].field = "entry"

Parses(data) ==
  /\ Len(data) >= 2
  /\ data[1] = Open /\ data[Len(data)] = Close
  /\ \A k \in 2 .. Len(data) - 1 : data[k].field = "entry"
Parsed(data) == [k \in 1 .. Len(data) - 2 |-> data[k + 1].of]

-----------------------------------------------------------------------------
Init ==
  /\ folder \in [Name -> Photo \cup {NoPhoto}]
  /\ edits = 0
  /\ touched = [b \in Batch |-> {}]
  /\ file = Absent /\ mode = "wide"
  /\ request \in Requests
  /\ pc = [b \in Batch |-> IF b \in DOMAIN request THEN "start" ELSE "killed"]
  /\ seen = [b \in Batch |-> {}]
  /\ paths = [b \in Batch |-> <<>>]
  /\ entries = [b \in Batch |-> <<>>]
  /\ offset = [b \in Batch |-> 0]
  /\ overlapped = FALSE
  /\ buffer = Empty
  /\ reading = "yes"
  /\ loaded = <<>>

Goto(b, next) == pc' = [pc EXCEPT ![b] = next]
Stopped == {"done", "empty", "aborted", "killed"}
Writing == {"chmod", "write"}

(* Pictures are added, replaced and removed. *)
EditFolder ==
  /\ edits < MaxEdits
  /\ \E n \in Name, x \in Photo \cup {NoPhoto} :
       /\ x # folder[n]
       /\ folder' = [folder EXCEPT ![n] = x]
       /\ touched' = [b \in Batch |-> IF pc[b] = "start" THEN {} ELSE touched[b] \cup {n}]
  /\ edits' = edits + 1
  /\ UNCHANGED <<file, mode, overlapped, pc, work, reader>>

-----------------------------------------------------------------------------
(* The paths named on the command line are taken as they are. *)
Start(b) ==
  /\ pc[b] = "start"
  /\ paths' = [paths EXCEPT ![b] = request[b].files]
  /\ Goto(b, IF request[b].files = <<>> THEN "list" ELSE "derive")
  /\ UNCHANGED <<disk, request, seen, entries, offset, reader>>

(* read_dir returns names in the order of the file system, and each of     *)
(* those that stay there; collect_images asks is_file as it goes.          *)
ListEntry(b) ==
  /\ pc[b] = "list"
  /\ \E n \in Name \ seen[b] :
       /\ seen' = [seen EXCEPT ![b] = @ \cup {n}]
       /\ paths' = [paths EXCEPT ![b] =
                      IF folder[n] # NoPhoto /\ n \in ImageName THEN Append(@, n) ELSE @]
  /\ UNCHANGED <<disk, pc, request, entries, offset, reader>>

(* Sorted; a folder without images is an error. *)
EndListing(b) ==
  /\ pc[b] = "list" /\ seen[b] = Name
  /\ \E place \in Bijection(DOMAIN paths[b], DOMAIN paths[b]) :
       /\ \A k, l \in DOMAIN paths[b] : k < l => paths[b][place[k]] <= paths[b][place[l]]
       /\ paths' = [paths EXCEPT ![b] = [k \in DOMAIN paths[b] |-> paths[b][place[k]]]]
  /\ Goto(b, IF paths[b] = <<>> THEN "empty" ELSE "derive")
  /\ UNCHANGED <<disk, request, seen, entries, offset, reader>>

Current(b) == paths[b][Len(entries[b]) + 1]
Pending(b) == pc[b] = "derive" /\ Len(entries[b]) < Len(paths[b])

(* Faulty variant: an image that cannot be derived is left out. *)
DeriveOrDrop(b) ==
  /\ Pending(b)
  /\ LET e == EntryFor(Current(b), folder[Current(b)])
     IN  IF e.error = ""
           THEN entries' = [entries EXCEPT ![b] = Append(@, e)] /\ UNCHANGED paths
         ELSE /\ paths' = [paths EXCEPT ![b] = SelectSeq(@, LAMBDA n : n # Current(b))]
              /\ UNCHANGED entries
  /\ UNCHANGED <<disk, pc, request, seen, offset, reader>>

(* derive_key_safe on the next path, whatever is there now. *)
Derive(b) ==
  /\ Pending(b)
  /\ entries' = [entries EXCEPT ![b] =
                   Append(@, EntryFor(Current(b), folder[Current(b)]))]
  /\ UNCHANGED <<disk, pc, request, seen, paths, offset, reader>>

EndDerive(b) ==
  /\ pc[b] = "derive" /\ Len(entries[b]) = Len(paths[b])
  /\ Goto(b, IF request[b].output THEN "create" ELSE "done")
  /\ UNCHANGED <<disk, work, reader>>

(* write_secret_file, as in KeyRecordFile. *)
Create(b) ==
  /\ pc[b] = "create"
  /\ file' = Empty
  /\ mode' = IF file = Absent THEN "wide" ELSE mode
  /\ overlapped' = (overlapped \/ (\E c \in Batch : pc[c] \in Writing)
                    \/ (reading = "yes" /\ buffer # Empty))
  /\ Goto(b, "chmod")
  /\ UNCHANGED <<folder, edits, touched, work, reader>>

SetPermissions(b) ==
  /\ pc[b] = "chmod"
  /\ mode' = "owner"
  /\ Goto(b, "write")
  /\ UNCHANGED <<folder, edits, touched, file, overlapped, work, reader>>

Write(b) ==
  /\ pc[b] = "write"
  /\ LET json == Json(entries[b])
     IN  \E to \in offset[b] + 1 .. Len(json) :
           /\ file' = Written(file, json, offset[b] + 1, to)
           /\ offset' = [offset EXCEPT ![b] = to]
           /\ Goto(b, IF to = Len(json) THEN "done" ELSE "write")
  /\ UNCHANGED <<folder, edits, touched, mode, overlapped,
                 request, seen, paths, entries, reader>>

(* Killed, or a system call fails; nothing of the keys derived so far has  *)
(* been written before the end.                                            *)
Interrupt(b) ==
  /\ pc[b] \notin {"start"} \cup Stopped
  /\ Goto(b, "killed")
  /\ UNCHANGED <<disk, work, reader>>

-----------------------------------------------------------------------------
(* BatchManifest::load: read_capped, then from_json. *)
Read ==
  /\ reading = "yes" /\ file # Absent /\ ~AtEnd(file, buffer)
  /\ \E k \in 1 .. Len(file) : buffer' = ReadMore(file, buffer, k)
  /\ UNCHANGED <<disk, pc, work, reading, loaded>>

Load ==
  /\ reading = "yes" /\ file # Absent /\ AtEnd(file, buffer)
  /\ IF Parses(buffer)
       THEN reading' = "loaded" /\ loaded' = Parsed(buffer)
       ELSE reading' = "rejected" /\ UNCHANGED loaded
  /\ UNCHANGED <<disk, pc, work, buffer>>

Command(b) ==
  \/ Start(b) \/ ListEntry(b) \/ EndListing(b) \/ Derive(b) \/ EndDerive(b)
  \/ Create(b) \/ SetPermissions(b) \/ Write(b)

Next ==
  \/ EditFolder \/ Read \/ Load
  \/ \E b \in Batch : Command(b) \/ Interrupt(b)

Spec == Init /\ [][Next]_vars

-----------------------------------------------------------------------------
(* The manifest answers for every picture it was asked for: in request     *)
(* order for --files, once per picture of the folder in name order         *)
(* otherwise; a picture nobody touched meanwhile has the entry its bytes   *)
(* deserve, be it a key or an error (cli.rs: failures "are recorded in the *)
(* manifest rather than aborting the run").  So two runs over a folder     *)
(* nobody touched agree entry by entry ("re-running a batch for the same   *)
(* files reproduces the same keys").                                       *)
ManifestIsComplete ==
  \A b \in Batch : pc[b] \in {"create"} \cup Writing \cup {"done"} =>
    LET image(k) == entries[b][k].image
        asked == request[b].files
    IN  /\ IF asked # <<>>
             THEN [k \in DOMAIN entries[b] |-> image(k)] = asked
           ELSE /\ \A k, l \in DOMAIN entries[b] : k < l => image(k) < image(l)
                /\ \A n \in ImageName \ touched[b] :
                     folder[n] # NoPhoto => \E k \in DOMAIN entries[b] : image(k) = n
        /\ \A k \in DOMAIN entries[b] :
             image(k) \notin touched[b] => entries[b][k] = EntryFor(image(k), folder[image(k)])

(* As long as the manifest is not truncated under a writer or a reader,    *)
(* what loads is all one batch had to say, also when it is read while      *)
(* being written or a batch was killed at any point.                       *)
LoadedManifestIsWhole ==
  ~overlapped /\ reading = "loaded" =>
    \E b \in Batch : loaded = entries[b] /\ Len(entries[b]) = Len(paths[b])
==============================================================================
