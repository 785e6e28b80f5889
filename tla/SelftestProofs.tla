---------------------------- MODULE SelftestProofs ----------------------------
(***************************************************************************)
(* For any number of self-tests over any temp directories and any engine:  *)
(* the gate is fair, and runs that end by themselves clean up as far as    *)
(* the file system lets them.                                              *)
(***************************************************************************)
EXTENDS Selftest, SequenceTheorems, TLAPS

-----------------------------------------------------------------------------
(* A function on 1 .. n is a sequence of length n. *)
LEMMA FunctionLength ==
  ASSUME NEW S, NEW n \in Nat, NEW f \in [1 .. n -> S]
  PROVE  f \in Seq(S) /\ Len(f) = n
  OBVIOUS

-----------------------------------------------------------------------------
(* The inductive invariant, in named parts. *)

State == {"battery", "start"} \cup UnderWay \cup Result
File == Inode \cup {Nothing}

TypeOK ==
  /\ answers \in [Checks -> Answer \X Answer]
  /\ with_fs \subseteq Run
  /\ broken \in [Run -> SUBSET Checks]
  /\ dir \in [Run -> Dir]
  /\ path \in [Dir -> File]
  /\ content = [f \in Inode |-> content[f]]
  /\ pc \in [Run -> State]
  /\ handle \in [Run -> File]
  /\ offset \in [Run -> 0 .. 2]
  /\ overlapped \in [Run -> BOOLEAN]
  /\ refused \in [Run -> SUBSET {"save", "remove"}]

(* The checks in memory that this engine fails. *)
Refuted == {c \in Checks : ~Passes(c)}

(* What a run has done by the time it stands where it stands. *)
RunsTell ==
  \A r \in Run :
    /\ pc[r] # "battery" => broken[r] = Refuted
    /\ pc[r] \notin {"battery", "passed"} => r \in with_fs
    /\ pc[r] \in {"battery", "start"} => offset[r] = 0
    /\ pc[r] \in {"encrypt", "decrypt"} => offset[r] = 2 \/ "save" \in refused[r]
    /\ pc[r] = "unsaved" => "save" \in refused[r]
    /\ pc[r] \in UnderWay => handle[r] # Nothing

(* No file is in two directories: not under the name, not through a handle *)
(* of a run that works in another directory.                               *)
FilesApart ==
  /\ \A d, e \in Dir : path[d] = path[e] /\ path[d] # Nothing => d = e
  /\ \A d \in Dir : path[d] \in Run => dir[path[d]] = d
  /\ \A r \in Run : handle[r] \in Run => dir[handle[r]] = dir[r]
  /\ \A r \in Run, d \in Dir : handle[r] = Leftover /\ path[d] = Leftover => dir[r] = d
  /\ \A r, q \in Run : handle[r] = Leftover /\ handle[q] = Leftover => dir[r] = dir[q]

(* The first n tokens of the picture. *)
Begun(n) == [i \in 1 .. n |-> Picture[i]]

(* A run that nobody overlapped finds under the name what it has written.  *)
AloneItFinds ==
  \A r \in Run : pc[r] \in UnderWay /\ ~overlapped[r] =>
    /\ \A q \in Run \ {r} : dir[q] = dir[r] => pc[q] \notin UnderWay
    /\ pc[r] \in {"write", "encrypt", "decrypt"} =>
         path[dir[r]] = handle[r] /\ content[handle[r]] = Begun(offset[r])

(* Only an unsound engine, somebody in the same directory, or a refused    *)
(* save makes a run fail.                                                  *)
Failing == {"remove_failed", "remove_aborted", "failed", "aborted"}
FailuresTell ==
  \A r \in Run : pc[r] \in Failing => ~Sound \/ overlapped[r] \/ "save" \in refused[r]

SelftestInv == TypeOK /\ RunsTell /\ FilesApart /\ AloneItFinds /\ FailuresTell /\ CleansUp

-----------------------------------------------------------------------------
(* The engine: it is sound exactly if it passes every check in memory, and *)
(* it answers the same throughout.                                         *)

LEMMA SoundPasses ==
  ASSUME TypeOK
  PROVE  Sound <=> Refuted = {}
<1>1. \A c \in Checks : answers[c][1] \in Answer /\ answers[c][2] \in Answer
                       /\ answers[c] = <<answers[c][1], answers[c][2]>>
  BY DEF TypeOK
<1>2. \A c \in {"analysis_determinism", "key_stability"} :
        Asked(c) \in {<<a, a>> : a \in Answer \ {"error"}} <=> SameTwice(c)
  BY <1>1 DEF Asked, SameTwice, Errs, Checks
<1>3. \A c \in {"distinct_images_distinct_keys", "single_pixel_sensitivity"} :
        (Asked(c)[1] # Asked(c)[2] /\ "error" \notin {Asked(c)[1], Asked(c)[2]}) <=> Differ(c)
  BY <1>1 DEF Asked, Differ, Errs, Checks
<1>4. \A c \in {"all_sources_contribute", "wavelet_reconstruction"} :
        Asked(c)[1] \in {"this", "that"} <=> Good(c)
  BY <1>1 DEF Asked, Good, Checks, Answer
<1>5. Refuted = {} <=> \A c \in Checks : Passes(c)
  BY DEF Refuted
<1>6. (\A c \in Checks : Passes(c)) <=>
        /\ SameTwice("analysis_determinism") /\ SameTwice("key_stability")
        /\ Differ("distinct_images_distinct_keys") /\ Differ("single_pixel_sensitivity")
        /\ Good("all_sources_contribute") /\ Good("wavelet_reconstruction")
        /\ Asked("sniffer_rejects_mislabeled")[1] = "error"
  BY DEF Checks, Passes, check_analysis_determinism, check_all_sources_contribute,
         check_key_stability, check_distinct_images_distinct_keys,
         check_single_pixel_sensitivity, check_wavelet_reconstruction,
         check_sniffer_rejects_mislabeled
<1> QED BY <1>2, <1>3, <1>4, <1>5, <1>6 DEF Sound

LEMMA EngineStays ==
  ASSUME UNCHANGED answers
  PROVE  (Sound' <=> Sound) /\ Refuted' = Refuted
  BY DEF Sound, Asked, Refuted, Passes, Errs, SameTwice, Differ, Good,
         check_analysis_determinism, check_all_sources_contribute, check_key_stability,
         check_distinct_images_distinct_keys, check_single_pixel_sensitivity,
         check_wavelet_reconstruction, check_sniffer_rejects_mislabeled

-----------------------------------------------------------------------------
(* The picture as it is written. *)

LEMMA PictureLength == Len(Picture) = 2 /\ Picture = [i \in 1 .. 2 |-> Picture[i]]
  BY DEF Picture

LEMMA BegunLength ==
  ASSUME NEW n \in 0 .. 2
  PROVE  Len(Begun(n)) = n
<1>1. \A i \in 1 .. n : Picture[i] \in {Picture[1], Picture[2]}
  OBVIOUS
<1>2. n \in Nat /\ Begun(n) \in [1 .. n -> {Picture[1], Picture[2]}]
  BY <1>1 DEF Begun
<1> HIDE DEF Begun
<1> QED BY <1>2, FunctionLength

(* One write call carries on where the last one stopped. *)
LEMMA WritesOn ==
  ASSUME NEW n \in 0 .. 2, NEW to \in n + 1 .. 2
  PROVE  Written(Begun(n), Picture, n + 1, to) = Begun(to)
<1>1. Len(Begun(n)) = n /\ to \in 1 .. 2 /\ ~(n > to)
  <2>1. to \in 1 .. 2 /\ ~(n > to)
    OBVIOUS
  <2> QED BY <2>1, BegunLength
<1>2. Written(Begun(n), Picture, n + 1, to) =
        [i \in 1 .. to |-> IF i \in n + 1 .. to THEN Picture[i]
                           ELSE IF i <= n THEN Begun(n)[i] ELSE Hole]
  BY <1>1 DEF Written
<1>3. \A i \in 1 .. to : (IF i \in n + 1 .. to THEN Picture[i]
                           ELSE IF i <= n THEN Begun(n)[i] ELSE Hole) = Picture[i]
  BY <1>1 DEF Begun
<1> QED BY <1>2, <1>3 DEF Begun

LEMMA BegunEnds == Begun(0) = Empty /\ Begun(2) = Picture
<1>1. Begun(2) = Picture
  BY PictureLength DEF Begun
<1>2. Begun(0) = Empty
  BY DEF Begun, Empty
<1> QED BY <1>1, <1>2

-----------------------------------------------------------------------------
(* The invariant holds at first, and every step of a run keeps it. *)

LEMMA InvInit == Init => SelftestInv
<1> SUFFICES ASSUME Init PROVE SelftestInv
  OBVIOUS
<1>1. TypeOK
  BY SelftestAssumption DEF SelftestAssumption, Init, TypeOK, State, File, Inode
<1>2. RunsTell
  BY DEF Init, RunsTell, UnderWay, Outcome
<1>3. FilesApart
  BY SelftestAssumption DEF SelftestAssumption, Init, FilesApart
<1>4. AloneItFinds
  BY DEF Init, AloneItFinds, UnderWay, Outcome
<1>5. FailuresTell
  BY DEF Init, FailuresTell, Failing
<1>6. CleansUp
  BY DEF Init, CleansUp, Result
<1> QED BY <1>1, <1>2, <1>3, <1>4, <1>5, <1>6 DEF SelftestInv

LEMMA BatteryStep ==
  ASSUME SelftestInv, NEW r \in Run, Battery(r)
  PROVE  SelftestInv'
<1> DEFINE next == IF r \in with_fs THEN "start" ELSE "passed"
<1>0. /\ TypeOK /\ RunsTell /\ FilesApart /\ AloneItFinds /\ FailuresTell /\ CleansUp
      /\ pc[r] = "battery" /\ pc' = [pc EXCEPT ![r] = next]
      /\ broken' = [broken EXCEPT ![r] = Refuted]
      /\ UNCHANGED <<answers, with_fs, dir, path, content, handle, offset, overlapped, refused>>
      /\ (Sound' <=> Sound) /\ Refuted' = Refuted /\ Refuted \subseteq Checks
  BY EngineStays DEF SelftestInv, Battery, Goto, Refuted, files
<1>1. TypeOK'
  BY <1>0 DEF TypeOK, State, Result
<1>2. RunsTell'
  BY <1>0 DEF TypeOK, RunsTell, UnderWay, Outcome
<1>3. FilesApart'
  BY <1>0 DEF FilesApart
<1>4. AloneItFinds'
  BY <1>0 DEF TypeOK, AloneItFinds, UnderWay, Outcome, Begun
<1>5. FailuresTell'
  BY <1>0 DEF TypeOK, FailuresTell, Failing
<1>6. CleansUp'
  BY <1>0 DEF TypeOK, CleansUp, Result
<1> QED BY <1>1, <1>2, <1>3, <1>4, <1>5, <1>6 DEF SelftestInv

(* Whoever opens the file overlaps with everybody who has it open.         *)
LEMMA CreateStep ==
  ASSUME SelftestInv, NEW r \in Run, Create(r)
  PROVE  SelftestInv'
<1> DEFINE d == dir[r]
           f == IF path[d] = Nothing THEN r ELSE path[d]
           other == {q \in Run : dir[q] = d /\ pc[q] \in UnderWay}
<1>0. /\ TypeOK /\ RunsTell /\ FilesApart /\ AloneItFinds /\ FailuresTell /\ CleansUp
      /\ pc[r] = "start" /\ pc' = [pc EXCEPT ![r] = "write"]
      /\ path' = [path EXCEPT ![d] = f]
      /\ content' = [content EXCEPT ![f] = Empty]
      /\ handle' = [handle EXCEPT ![r] = f]
      /\ overlapped' = [q \in Run |-> overlapped[q] \/ q \in other \/ (q = r /\ other # {})]
      /\ UNCHANGED <<answers, with_fs, broken, dir, offset, refused>>
      /\ (Sound' <=> Sound) /\ Refuted' = Refuted
  BY EngineStays DEF SelftestInv, Create, Goto, battery
<1>a. d \in Dir /\ f \in Inode /\ f # Nothing /\ Nothing # Leftover /\ Leftover \notin Run
  BY <1>0, SelftestAssumption DEF TypeOK, SelftestAssumption, Inode, File
<1>1. TypeOK'
  BY <1>0, <1>a DEF TypeOK, State, UnderWay, File
<1>2. RunsTell'
  BY <1>0, <1>a DEF TypeOK, RunsTell, UnderWay, Outcome
<1>3. FilesApart'
  BY <1>0, <1>a DEF TypeOK, FilesApart
<1>4. AloneItFinds'
  <2> SUFFICES ASSUME NEW q \in Run, pc'[q] \in UnderWay, ~overlapped'[q]
               PROVE  /\ \A s \in Run \ {q} : dir[s] = dir[q] => pc'[s] \notin UnderWay
                      /\ pc'[q] \in {"write", "encrypt", "decrypt"} =>
                           /\ path'[dir[q]] = handle'[q]
                           /\ content'[handle'[q]] = Begun(offset[q])
    BY <1>0 DEF AloneItFinds, Begun
  <2>1. CASE q = r
    <3>1. other = {}
      BY <1>0, <2>1
    <3>2. \A s \in Run \ {r} : dir[s] = d => pc'[s] \notin UnderWay
      BY <1>0, <3>1 DEF TypeOK
    <3>3. path'[d] = f /\ handle'[r] = f /\ content'[f] = Begun(offset[r])
      BY <1>0, <1>a, BegunEnds DEF TypeOK, RunsTell
    <3> QED BY <2>1, <3>2, <3>3
  <2>2. CASE q # r
    <3>1. pc[q] \in UnderWay /\ q \notin other /\ ~overlapped[q] /\ pc'[q] = pc[q]
          /\ handle'[q] = handle[q]
      BY <1>0, <2>2 DEF TypeOK
    <3>2. dir[q] # d
      BY <3>1
    <3>3. path'[dir[q]] = path[dir[q]]
      BY <1>0, <1>a, <3>2 DEF TypeOK
    <3>4. \A s \in Run \ {q} : dir[s] = dir[q] => pc'[s] \notin UnderWay
      BY <1>0, <3>1, <3>2 DEF TypeOK, AloneItFinds
    <3>5. handle[q] \in Inode /\ handle[q] # f
      <4>1. handle[q] \in Inode
        BY <1>0, <3>1 DEF TypeOK, RunsTell, File
      <4>2. CASE path[d] = Nothing
        BY <1>0, <3>2, <4>1, <4>2, <1>a DEF FilesApart
      <4>3. CASE path[d] # Nothing
        BY <1>0, <3>2, <4>1, <4>3, <1>a DEF FilesApart, Inode
      <4> QED BY <4>1, <4>2, <4>3
    <3>6. content'[handle[q]] = content[handle[q]]
      BY <1>0, <1>a, <3>5 DEF TypeOK
    <3> QED BY <1>0, <3>1, <3>3, <3>4, <3>6 DEF AloneItFinds
  <2> QED BY <2>1, <2>2
<1>5. FailuresTell'
  BY <1>0 DEF TypeOK, FailuresTell, Failing
<1>6. CleansUp'
  BY <1>0 DEF TypeOK, RunsTell, CleansUp, Result
<1> QED BY <1>1, <1>2, <1>3, <1>4, <1>5, <1>6 DEF SelftestInv

LEMMA WriteStep ==
  ASSUME SelftestInv, NEW r \in Run, Write(r)
  PROVE  SelftestInv'
<1>0. /\ TypeOK /\ RunsTell /\ FilesApart /\ AloneItFinds /\ FailuresTell /\ CleansUp
      /\ pc[r] = "write"
      /\ UNCHANGED <<answers, with_fs, broken, dir, path, handle, overlapped, refused>>
      /\ (Sound' <=> Sound) /\ Refuted' = Refuted
  BY EngineStays DEF SelftestInv, Write, battery
<1>a. PICK to \in offset[r] + 1 .. 2 :
        /\ content' = [content EXCEPT ![handle[r]] =
                         Written(@, Picture, offset[r] + 1, to)]
        /\ offset' = [offset EXCEPT ![r] = to]
        /\ pc' = [pc EXCEPT ![r] = IF to = 2 THEN "encrypt" ELSE "write"]
  BY PictureLength DEF Write, Goto
<1>b. to \in 1 .. 2 /\ offset[r] \in 0 .. 2 /\ handle[r] \in Inode
  BY <1>0, <1>a DEF TypeOK, RunsTell, UnderWay, File
<1>c. content' = [content EXCEPT ![handle[r]] = content'[handle[r]]]
  BY <1>0, <1>a, <1>b DEF TypeOK
<1>1. TypeOK'
  <2>1. content' = [x \in Inode |-> content'[x]]
    BY <1>0, <1>b, <1>c DEF TypeOK
  <2>2. offset' \in [Run -> 0 .. 2] /\ pc' \in [Run -> State]
    BY <1>0, <1>a, <1>b DEF TypeOK, State, UnderWay
  <2> QED BY <1>0, <2>1, <2>2 DEF TypeOK
<1>2. RunsTell'
  BY <1>0, <1>a, <1>b DEF TypeOK, RunsTell, UnderWay, Outcome
<1>3. FilesApart'
  BY <1>0 DEF FilesApart
<1>4. AloneItFinds'
  <2> SUFFICES ASSUME NEW q \in Run, pc'[q] \in UnderWay, ~overlapped[q]
               PROVE  /\ \A s \in Run \ {q} : dir[s] = dir[q] => pc'[s] \notin UnderWay
                      /\ pc'[q] \in {"write", "encrypt", "decrypt"} =>
                           /\ path[dir[q]] = handle[q]
                           /\ content'[handle[q]] = Begun(offset'[q])
    BY <1>0 DEF AloneItFinds, Begun
  <2>1. pc[q] \in UnderWay /\ pc[r] \in UnderWay
    BY <1>0, <1>a DEF TypeOK, UnderWay
  <2>2. \A s \in Run \ {q} : dir[s] = dir[q] => pc'[s] \notin UnderWay
    BY <1>0, <1>a, <2>1 DEF TypeOK, AloneItFinds
  <2>3. CASE q = r
    <3>1. path[dir[q]] = handle[q] /\ content[handle[q]] = Begun(offset[q])
      BY <1>0, <2>1, <2>3 DEF AloneItFinds
    <3>2. content'[handle[r]] = Written(content[handle[r]], Picture, offset[r] + 1, to)
      BY <1>0, <1>a, <1>b DEF TypeOK
    <3>3. content'[handle[r]] = Begun(to) /\ offset'[r] = to
      BY <1>0, <1>a, <1>b, <2>3, <3>1, <3>2, WritesOn DEF TypeOK
    <3> QED BY <2>2, <2>3, <3>1, <3>3
  <2>4. CASE q # r
    <3>1. dir[q] # dir[r] /\ pc'[q] = pc[q] /\ offset'[q] = offset[q]
      BY <1>0, <1>a, <2>1, <2>4 DEF TypeOK, AloneItFinds
    <3>2. handle[q] # handle[r]
      BY <1>0, <1>b, <3>1 DEF FilesApart, Inode
    <3>3. content'[handle[q]] = content[handle[q]]
      <4>1. handle[q] \in Inode
        BY <1>0, <2>1 DEF TypeOK, RunsTell, File
      <4> QED BY <1>0, <1>c, <3>2, <4>1 DEF TypeOK
    <3> QED BY <1>0, <2>1, <2>2, <3>1, <3>3 DEF AloneItFinds
  <2> QED BY <2>3, <2>4
<1>5. FailuresTell'
  BY <1>0, <1>a DEF TypeOK, FailuresTell, Failing
<1>6. CleansUp'
  BY <1>0, <1>a DEF TypeOK, CleansUp, Result
<1> QED BY <1>1, <1>2, <1>3, <1>4, <1>5, <1>6 DEF SelftestInv

(* Encrypting, decrypting and being killed move one run and nothing else.  *)
LEMMA MoveStep ==
  ASSUME SelftestInv, NEW r \in Run, Encrypt(r) \/ Decrypt(r) \/ Interrupt(r)
  PROVE  SelftestInv'
<1>0. /\ TypeOK /\ RunsTell /\ FilesApart /\ AloneItFinds /\ FailuresTell /\ CleansUp
      /\ UNCHANGED <<answers, with_fs, broken>>
      /\ UNCHANGED <<dir, path, content, handle, offset, overlapped, refused>>
      /\ (Sound' <=> Sound) /\ Refuted' = Refuted
  BY EngineStays DEF SelftestInv, Encrypt, Decrypt, Interrupt, files, battery
<1>1. pc[r] \in UnderWay
  BY DEF Encrypt, Decrypt, Interrupt, UnderWay
<1>2. PICK next \in {"decrypt", "remove_passed", "remove_failed", "remove_aborted", "killed"} :
        /\ pc' = [pc EXCEPT ![r] = next]
        /\ next = "decrypt" => pc[r] = "encrypt"
        /\ next \in {"remove_failed", "remove_aborted"} =>
             ~Sound \/ overlapped[r] \/ "save" \in refused[r]
  <2>1. CASE Interrupt(r)
    BY <2>1 DEF Interrupt, Goto
  <2>2. ASSUME pc[r] \in {"encrypt", "decrypt"}, ~overlapped[r], "save" \notin refused[r]
        PROVE  Decodes(r)
    <3>1. path[dir[r]] = handle[r] /\ handle[r] # Nothing /\ content[handle[r]] = Begun(2)
      BY <1>0, <1>1, <2>2 DEF AloneItFinds, RunsTell
    <3> QED BY <3>1, BegunEnds DEF Decodes
  <2>3. Sound => ~Errs("key_stability") /\ check_key_stability
    <3>1. "key_stability" \in Checks
      BY DEF Checks
    <3>2. Passes("key_stability") <=> check_key_stability
      BY DEF Passes
    <3>3. Sound => check_key_stability
      BY <1>0, <3>1, <3>2, SoundPasses DEF Refuted
    <3> QED BY <3>3 DEF check_key_stability, SameTwice
  <2>4. CASE Encrypt(r)
    BY <2>2, <2>3, <2>4 DEF Encrypt, Goto
  <2>5. CASE Decrypt(r)
    BY <2>2, <2>3, <2>5 DEF Decrypt, Goto
  <2> QED BY <2>1, <2>4, <2>5
<1>3. TypeOK'
  BY <1>0, <1>2 DEF TypeOK, State, UnderWay, Outcome, Result
<1>4. RunsTell'
  BY <1>0, <1>1, <1>2 DEF TypeOK, RunsTell, UnderWay, Outcome
<1>5. FilesApart'
  BY <1>0 DEF FilesApart
<1>6. AloneItFinds'
  BY <1>0, <1>1, <1>2 DEF TypeOK, AloneItFinds, UnderWay, Outcome, Begun
<1>7. FailuresTell'
  BY <1>0, <1>2 DEF TypeOK, FailuresTell, Failing
<1>8. CleansUp'
  BY <1>0, <1>1, <1>2 DEF TypeOK, CleansUp, Result, RunsTell, UnderWay, Outcome
<1> QED BY <1>3, <1>4, <1>5, <1>6, <1>7, <1>8 DEF SelftestInv

(* A failed save ends the run, or lets it go on with what it has written.  *)
LEMMA SaveFailsStep ==
  ASSUME SelftestInv, NEW r \in Run, SaveFails(r)
  PROVE  SelftestInv'
<1>0. /\ TypeOK /\ RunsTell /\ FilesApart /\ AloneItFinds /\ FailuresTell /\ CleansUp
      /\ refused' = [refused EXCEPT ![r] = @ \cup {"save"}]
      /\ UNCHANGED <<answers, with_fs, broken, dir, path, content, handle, offset, overlapped>>
      /\ (Sound' <=> Sound) /\ Refuted' = Refuted
  BY EngineStays DEF SelftestInv, SaveFails, battery
<1>1. pc[r] \in {"start", "write"}
  BY DEF SaveFails
<1>2. PICK next \in {"unsaved", "encrypt"} :
        /\ pc' = [pc EXCEPT ![r] = next]
        /\ next = "encrypt" => pc[r] = "write"
  BY DEF SaveFails, Goto
<1>3. TypeOK'
  BY <1>0, <1>2 DEF TypeOK, State, UnderWay, Result
<1>4. RunsTell'
  BY <1>0, <1>1, <1>2 DEF TypeOK, RunsTell, UnderWay, Outcome
<1>5. FilesApart'
  BY <1>0 DEF FilesApart
<1>6. AloneItFinds'
  BY <1>0, <1>1, <1>2 DEF TypeOK, AloneItFinds, UnderWay, Outcome, Begun
<1>7. FailuresTell'
  BY <1>0, <1>2 DEF TypeOK, FailuresTell, Failing
<1>8. CleansUp'
  BY <1>0, <1>1, <1>2 DEF TypeOK, CleansUp, Result, RunsTell, UnderWay, Outcome
<1> QED BY <1>3, <1>4, <1>5, <1>6, <1>7, <1>8 DEF SelftestInv

(* A removal takes the name from everybody in the directory; a run that    *)
(* nobody overlapped is alone in it.  A refused one is on record.          *)
LEMMA RemoveStep ==
  ASSUME SelftestInv, NEW r \in Run, Remove(r)
  PROVE  SelftestInv'
<1> DEFINE d == dir[r]
<1>0. /\ TypeOK /\ RunsTell /\ FilesApart /\ AloneItFinds /\ FailuresTell /\ CleansUp
      /\ \/ path' = [path EXCEPT ![d] = Nothing] /\ refused' = refused
         \/ path' = path /\ refused' = [refused EXCEPT ![r] = @ \cup {"remove"}]
      /\ UNCHANGED <<answers, with_fs, broken, dir, content, handle, offset, overlapped>>
      /\ (Sound' <=> Sound) /\ Refuted' = Refuted
  BY EngineStays DEF SelftestInv, Remove, battery
<1>1. pc[r] \in UnderWay
  BY DEF Remove, UnderWay
<1>2. PICK next \in {"passed", "failed", "aborted"} :
        /\ pc' = [pc EXCEPT ![r] = next]
        /\ next \in {"failed", "aborted"} => pc[r] \in {"remove_failed", "remove_aborted"}
  <2>1. /\ DOMAIN Outcome = {"remove_passed", "remove_failed", "remove_aborted"}
        /\ Outcome["remove_passed"] = "passed" /\ Outcome["remove_failed"] = "failed"
        /\ Outcome["remove_aborted"] = "aborted"
    BY DEF Outcome
  <2>2. pc[r] \in {"remove_passed", "remove_failed", "remove_aborted"}
        /\ pc' = [pc EXCEPT ![r] = Outcome[pc[r]]]
    BY <2>1 DEF Remove, Goto
  <2> QED BY <2>1, <2>2
<1>3. TypeOK'
  BY <1>0, <1>2 DEF TypeOK, State, Result, File
<1>4. RunsTell'
  BY <1>0, <1>1, <1>2 DEF TypeOK, RunsTell, UnderWay, Outcome
<1>5. FilesApart'
  BY <1>0, SelftestAssumption DEF TypeOK, FilesApart, SelftestAssumption
<1>6. AloneItFinds'
  <2> SUFFICES ASSUME NEW q \in Run, pc'[q] \in UnderWay, ~overlapped[q]
               PROVE  /\ \A s \in Run \ {q} : dir[s] = dir[q] => pc'[s] \notin UnderWay
                      /\ pc'[q] \in {"write", "encrypt", "decrypt"} =>
                           path'[dir[q]] = handle[q] /\ content[handle[q]] = Begun(offset[q])
    BY <1>0 DEF AloneItFinds, Begun
  <2>1. q # r /\ pc'[q] = pc[q]
    BY <1>0, <1>2 DEF TypeOK, UnderWay, Outcome
  <2>2. dir[q] # d
    BY <1>0, <1>1, <2>1 DEF AloneItFinds
  <2>3. path'[dir[q]] = path[dir[q]]
    BY <1>0, <2>2 DEF TypeOK
  <2>4. \A s \in Run \ {q} : dir[s] = dir[q] => pc'[s] \notin UnderWay
    BY <1>0, <1>2, <2>1, <2>2 DEF TypeOK, AloneItFinds
  <2> QED BY <1>0, <2>1, <2>3, <2>4 DEF AloneItFinds
<1>7. FailuresTell'
  BY <1>0, <1>2 DEF TypeOK, FailuresTell, Failing
<1>8. CleansUp'
  BY <1>0, <1>1, <1>2 DEF TypeOK, CleansUp, Result, UnderWay, Outcome
<1> QED BY <1>3, <1>4, <1>5, <1>6, <1>7, <1>8 DEF SelftestInv

LEMMA InvNext == SelftestInv /\ [Next]_vars => SelftestInv'
<1> SUFFICES ASSUME SelftestInv, [Next]_vars PROVE SelftestInv'
  OBVIOUS
<1>1. CASE UNCHANGED vars
  <2>1. (Sound' <=> Sound) /\ Refuted' = Refuted
    BY <1>1, EngineStays DEF vars, battery
  <2> USE <1>1 DEF vars, files, battery
  <2>2. TypeOK' /\ FilesApart'
    BY DEF SelftestInv, TypeOK, FilesApart
  <2>3. RunsTell' /\ FailuresTell'
    BY <2>1 DEF SelftestInv, RunsTell, FailuresTell
  <2>4. AloneItFinds' /\ CleansUp'
    BY DEF SelftestInv, AloneItFinds, CleansUp, Begun
  <2> QED BY <2>2, <2>3, <2>4 DEF SelftestInv
<1>2. CASE Next
  BY <1>2, BatteryStep, CreateStep, WriteStep, SaveFailsStep, MoveStep, RemoveStep
      DEF Next, Check
<1> QED BY <1>1, <1>2

LEMMA InvHolds == Spec => []SelftestInv
  BY InvInit, InvNext, PTL DEF Spec

-----------------------------------------------------------------------------
(* Results. *)

(* Exit code 0 means a sound engine, however runs overlap in the temp      *)
(* directories and whatever the file system refuses; and a sound engine    *)
(* gets it in every run that had its directory to itself and could save    *)
(* its picture, whatever earlier runs left there.                          *)
THEOREM GateHolds == Spec => []GateIsFair
<1>1. SelftestInv => GateIsFair
  <2> SUFFICES ASSUME SelftestInv, NEW r \in Run, pc[r] \in Result \ {"killed"}
               PROVE  /\ Exit(r) = 0 => Sound
                      /\ Sound /\ ~overlapped[r] /\ "save" \notin refused[r] => Exit(r) = 0
    BY DEF GateIsFair
  <2>1. broken[r] = Refuted /\ (Sound <=> Refuted = {})
    BY SoundPasses DEF SelftestInv, RunsTell, Result
  <2>2. pc[r] # "passed" => ~Sound \/ overlapped[r] \/ "save" \in refused[r]
    BY DEF SelftestInv, RunsTell, FailuresTell, Failing, Result
  <2>3. Exit(r) = 0 <=> pc[r] = "passed" /\ broken[r] = {}
    BY DEF Exit
  <2> QED BY <2>1, <2>2, <2>3
<1> QED BY <1>1, InvHolds, PTL

(* When all runs of a directory have ended by themselves, a key image is   *)
(* left there only if one of them came out of a failed save (exit code 1), *)
(* or the file system refused one of them the removal.                     *)
THEOREM NoKeyImageStays == Spec => []CleansUp
<1>1. SelftestInv => CleansUp
  BY DEF SelftestInv
<1> QED BY <1>1, InvHolds, PTL
===============================================================================
