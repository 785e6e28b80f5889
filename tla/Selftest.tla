------------------------------- MODULE Selftest -------------------------------
(***************************************************************************)
(* `spectrum selftest`: seven checks of the engine in memory and, with     *)
(* --with-fs, one on the file system: a key image is saved under a fixed   *)
(* name in the temp directory, used for one encryption and one decryption, *)
(* and removed.  Several runs may share the directory.                     *)
(*                                                                         *)
(* What the engine answers is given, and the same for every run.  Every    *)
(* run writes the same picture.  A run writes through the handle it        *)
(* opened, also after somebody unlinked the path; encrypt and decrypt      *)
(* open the path anew, and take in a file this small with one read.        *)
(***************************************************************************)
EXTENDS FileBytes

CONSTANTS
  Run,        (* runs of the self-test; also name the files they create *)
  Dir,        (* temp directories                                       *)
  Nothing,    (* no file                                                *)
  Leftover,   (* the file an earlier, killed run left behind            *)
  Engine      (* engines: two answers to each check                     *)

(* The checks in memory.  An answer is a good one, this or that, a bad one *)
(* (an entropy that is negative or no number, a picture that does not come *)
(* back) or an error.                                                      *)
Checks == {"analysis_determinism", "all_sources_contribute", "key_stability",
           "distinct_images_distinct_keys", "single_pixel_sensitivity",
           "wavelet_reconstruction", "sniffer_rejects_mislabeled"}
Answer == {"this", "that", "bad", "error"}

ASSUME SelftestAssumption ==
  /\ {Nothing, Leftover} \cap Run = {} /\ Nothing # Leftover
  /\ Engine \subseteq [Checks -> Answer \X Answer]

VARIABLES
  answers,      (* of the engine under test                                *)
  with_fs,      (* the runs that were asked for the file-system check      *)
  broken,       (* the checks in memory that failed, for each run          *)
  dir,          (* the temp directory of each run                          *)
  path,         (* the file the fixed name refers to, in each directory    *)
  content,      (* the bytes of each file                                  *)
  pc,           (* where each run is, in the end its result                *)
  handle,       (* the file each run is writing                            *)
  offset,       (* what it has written of it                               *)
  overlapped,   (* history: another run was under way in the directory     *)
  refused       (* history: the calls the file system refused each run     *)

files == <<dir, path, content, handle, offset, overlapped, refused>>
battery == <<answers, with_fs, broken>>
vars == <<battery, files, pc>>

Inode == Run \cup {Leftover}

(* The 128x128 picture as a PNG: header and pixel data, say. *)
Picture == << [part |-> "header"], [part |-> "pixels"] >>

Init ==
  /\ answers \in Engine /\ with_fs \in SUBSET Run
  /\ broken = [r \in Run |-> {}]
  /\ dir \in [Run -> Dir]
  /\ path \in [Dir -> {Nothing, Leftover}]
  /\ \A d, e \in Dir : path[d] = Leftover /\ path[e] = Leftover => d = e
  /\ content \in [Inode -> {Empty, SubSeq(Picture, 1, 1), Picture}]
  /\ \A r \in Run : content[r] = Empty
  /\ pc = [r \in Run |-> "battery"]
  /\ handle = [r \in Run |-> Nothing]
  /\ offset = [r \in Run |-> 0]
  /\ overlapped = [r \in Run |-> FALSE]
  /\ refused = [r \in Run |-> {}]

(* Where a run stands when it is about to remove its file, and its result. *)
Outcome == [remove_passed |-> "passed", remove_failed |-> "failed",
            remove_aborted |-> "aborted"]
UnderWay == {"write", "encrypt", "decrypt"} \cup DOMAIN Outcome
Goto(r, next) == pc' = [pc EXCEPT ![r] = next]

(* What derive_key finds under the name: a picture it can decode? *)
Decodes(r) == path[dir[r]] # Nothing /\ content[path[dir[r]]] = Picture

-----------------------------------------------------------------------------
Asked(check) == answers[check]
Errs(check) == \E n \in {1, 2} : Asked(check)[n] = "error"
SameTwice(check) == ~Errs(check) /\ Asked(check)[1] = Asked(check)[2]
Differ(check) == ~Errs(check) /\ Asked(check)[1] # Asked(check)[2]
Good(check) == Asked(check)[1] \notin {"bad", "error"}

check_analysis_determinism == SameTwice("analysis_determinism")
check_all_sources_contribute == Good("all_sources_contribute")
check_key_stability == SameTwice("key_stability")
check_distinct_images_distinct_keys == Differ("distinct_images_distinct_keys")
check_single_pixel_sensitivity == Differ("single_pixel_sensitivity")
check_wavelet_reconstruction == Good("wavelet_reconstruction")
check_sniffer_rejects_mislabeled == Asked("sniffer_rejects_mislabeled")[1] = "error"

Passes(check) ==
  CASE check = "analysis_determinism" -> check_analysis_determinism
    [] check = "all_sources_contribute" -> check_all_sources_contribute
    [] check = "key_stability" -> check_key_stability
    [] check = "distinct_images_distinct_keys" -> check_distinct_images_distinct_keys
    [] check = "single_pixel_sensitivity" -> check_single_pixel_sensitivity
    [] check = "wavelet_reconstruction" -> check_wavelet_reconstruction
    [] check = "sniffer_rejects_mislabeled" -> check_sniffer_rejects_mislabeled

(* run_selftest: all of them, then the file system if it was asked for. *)
Battery(r) ==
  /\ pc[r] = "battery"
  /\ broken' = [broken EXCEPT ![r] = {c \in Checks : ~Passes(c)}]
  /\ Goto(r, IF r \in with_fs THEN "start" ELSE "passed")
  /\ UNCHANGED <<answers, with_fs, files>>

-----------------------------------------------------------------------------
(* Faulty variant: a file that is there already is an error. *)
CreateNew(r) ==
  /\ pc[r] = "start"
  /\ IF path[dir[r]] = Nothing
       THEN /\ path' = [path EXCEPT ![dir[r]] = r]
            /\ handle' = [handle EXCEPT ![r] = r]
            /\ Goto(r, "write")
       ELSE Goto(r, "aborted") /\ UNCHANGED <<path, handle>>
  /\ UNCHANGED <<battery, dir, content, offset, overlapped, refused>>

(* rgb.save: File::create opens what is there and truncates it, or creates *)
(* the file.                                                               *)
Create(r) ==
  /\ pc[r] = "start"
  /\ LET d     == dir[r]
         f     == IF path[d] = Nothing THEN r ELSE path[d]
         other == {q \in Run : dir[q] = d /\ pc[q] \in UnderWay}
     IN  /\ path' = [path EXCEPT ![d] = f]
         /\ content' = [content EXCEPT ![f] = Empty]
         /\ handle' = [handle EXCEPT ![r] = f]
         /\ overlapped' = [q \in Run |-> \/ overlapped[q]
                                         \/ q \in other
                                         \/ q = r /\ other # {}]
  /\ Goto(r, "write")
  /\ UNCHANGED <<battery, dir, offset, refused>>

(* The encoder writes until everything is out. *)
Write(r) ==
  /\ pc[r] = "write"
  /\ \E to \in offset[r] + 1 .. Len(Picture) :
       /\ content' = [content EXCEPT ![handle[r]] =
                        Written(@, Picture, offset[r] + 1, to)]
       /\ offset' = [offset EXCEPT ![r] = to]
       /\ Goto(r, IF to = Len(Picture) THEN "encrypt" ELSE "write")
  /\ UNCHANGED <<battery, dir, path, handle, overlapped, refused>>

(* rgb.save fails: no file can be created, or the disk is full.  The error *)
(* leaves through `?`, before any removal, so that what was written stays. *)
(* What the encoder's buffer holds in the end is flushed when it is        *)
(* dropped, which reports nothing: then the self-test carries on.          *)
SaveFails(r) ==
  /\ pc[r] \in {"start", "write"}
  /\ \/ Goto(r, "unsaved")
     \/ pc[r] = "write" /\ Goto(r, "encrypt")
  /\ refused' = [refused EXCEPT ![r] = @ \cup {"save"}]
  /\ UNCHANGED <<battery, dir, path, content, handle, offset, overlapped>>

(* encrypt_message_safe: its error leaves the closure through `?`. *)
Encrypt(r) ==
  /\ pc[r] = "encrypt"
  /\ Goto(r, IF Decodes(r) /\ ~Errs("key_stability") THEN "decrypt" ELSE "remove_aborted")
  /\ UNCHANGED <<battery, files>>

(* decrypt_message_safe: its error is a failed check. *)
Decrypt(r) ==
  /\ pc[r] = "decrypt"
  /\ Goto(r, IF Decodes(r) /\ check_key_stability THEN "remove_passed" ELSE "remove_failed")
  /\ UNCHANGED <<battery, files>>

(* Faulty variant: a run removes only a file it has created itself. *)
RemoveIfCreated(r) ==
  /\ pc[r] \in DOMAIN Outcome /\ Goto(r, Outcome[pc[r]])
  /\ path' = IF handle[r] # r THEN path ELSE [path EXCEPT ![dir[r]] = Nothing]
  /\ UNCHANGED <<battery, dir, content, handle, offset, overlapped, refused>>

(* The file is to be removed whatever the outcome was; that it could not   *)
(* be is ignored.  An error of the outcome then ends the whole self-test.  *)
Remove(r) ==
  /\ pc[r] \in DOMAIN Outcome /\ Goto(r, Outcome[pc[r]])
  /\ \/ path' = [path EXCEPT ![dir[r]] = Nothing] /\ UNCHANGED refused
     \/ refused' = [refused EXCEPT ![r] = @ \cup {"remove"}] /\ UNCHANGED path
  /\ UNCHANGED <<battery, dir, content, handle, offset, overlapped>>

(* Killed from outside.  Before the file is opened this leaves no trace.   *)
Interrupt(r) ==
  /\ pc[r] \in UnderWay
  /\ Goto(r, "killed")
  /\ UNCHANGED <<battery, files>>

Check(r) == \/ Battery(r) \/ Create(r) \/ Write(r) \/ SaveFails(r)
            \/ Encrypt(r) \/ Decrypt(r) \/ Remove(r)

Next == \E r \in Run : Check(r) \/ Interrupt(r)

Spec == Init /\ [][Next]_vars

-----------------------------------------------------------------------------
Result == {"passed", "failed", "aborted", "unsaved", "killed"}

(* run_selftest's error and a failed check end the command alike. *)
Exit(r) == IF pc[r] = "passed" /\ broken[r] = {} THEN 0 ELSE 1

(* What the command promises of an engine that passes. *)
Sound ==
  /\ \A c \in {"analysis_determinism", "key_stability"} :
       Asked(c) \in {<<a, a>> : a \in Answer \ {"error"}}
  /\ \A c \in {"distinct_images_distinct_keys", "single_pixel_sensitivity"} :
       Asked(c)[1] # Asked(c)[2] /\ "error" \notin {Asked(c)[1], Asked(c)[2]}
  /\ \A c \in {"all_sources_contribute", "wavelet_reconstruction"} :
       Asked(c)[1] \in {"this", "that"}
  /\ Asked("sniffer_rejects_mislabeled")[1] = "error"

(* The gate is fair: a sound engine passes in a run that had the directory *)
(* to itself and could save its picture, whatever earlier runs have left   *)
(* there, and an engine that breaks one promise passes in no run, however  *)
(* the runs overlap and whatever the file system refused.                  *)
GateIsFair ==
  \A r \in Run : pc[r] \in Result \ {"killed"} =>
    /\ Exit(r) = 0 => Sound
    /\ Sound /\ ~overlapped[r] /\ "save" \notin refused[r] => Exit(r) = 0

(* Once all runs of a directory have ended by themselves a key image is    *)
(* left there only if one of them came out of a failed save, with exit     *)
(* code 1, or a removal was refused, which no exit code tells; however the *)
(* runs overlapped, whatever else they reported, and whatever was there    *)
(* before.                                                                 *)
CleansUp ==
  \A d \in Dir :
    LET here == {r \in with_fs : dir[r] = d}
    IN  here # {} /\ (\A r \in here : pc[r] \in Result \ {"killed"}) =>
          \/ path[d] = Nothing
          \/ \E r \in here : pc[r] = "unsaved" \/ "remove" \in refused[r]
==============================================================================
