--------------------------- MODULE SpectrumCommand ---------------------------
(***************************************************************************)
(* The `spectrum` program (bin/spectrum.rs, cli.rs) as its exit codes show *)
(* it: one user runs command after command in one folder.  Each command    *)
(* checks that the files it will read are there, loads the -C document     *)
(* (ConfigLoading), does its work, and rewrites its output files in place, *)
(* each truncated first, and then prints; it may be killed at any point,   *)
(* the system may refuse a write, and stdout or stderr may be closed.      *)
(* Between two commands the user puts another picture in place.            *)
(*                                                                         *)
(* A file has one field that names what it is; the options of a command    *)
(* name distinct paths.  The other user of the library is a program that   *)
(* loads and saves configurations (at = "library").                        *)
(***************************************************************************)
EXTENDS ConfigLoading

CONSTANTS
  Photo, Refused, Unreadable, Witness, KeyPair, Rot,
                     (* as KeyDerivation and SpectrumMessage have them; what   *)
                     (* cannot be read at all is refused too                   *)
  Cap, Overhead,     (* MAX_INPUT_FILE_BYTES; what a message adds to its text  *)
  Session            (* what a user may do: the commands; what the key image,  *)
                     (* the --input-file and the -C path may hold; and the     *)
                     (* bounds: length, commands run; replacements of the image *)

Settings == {"any_format", "no_jpeg"}

M == INSTANCE SpectrumMessage WITH Config <- Settings

Path == {"config", "image", "text", "message", "record", "public", "secret",
         "report", "manifest"}
Absent == [absent |-> TRUE]
Cut == [cut |-> TRUE]

Options ==
  [ derive |-> {}, analyze |-> {"report"}, export |-> {}, verify |-> {},
    encrypt |-> {"message", "input_file", "pq"}, decrypt |-> {"pq"}, pq_keygen |-> {},
    batch |-> {"files", "output"}, selftest |-> {}, config |-> {"output"} ]
Command == UNION {[name : {n}, config : BOOLEAN, with : SUBSET Options[n]] : n \in DOMAIN Options}

OnTheCommandLine == [text |-> "typed", length |-> 0]

(* The texts a user has, and the messages that can ever be sealed here.    *)
Text == {OnTheCommandLine.text} \cup
  {t.text : t \in {u \in UNION {s.texts : s \in Session} : "text" \in DOMAIN u}}
Message ==
  {M!SealedMessage(t, M!MasterKey(p, c), k, 0, 0) :
     t \in Text, p \in Photo, c \in Settings, k \in KeyPair \cup {M!NoPair}}
IsDocument(d) ==
  d = [keys |-> d.keys, version |-> d.version, nonce_len |-> d.nonce_len, knob |-> d.knob]
IsText(d) == IsDocument(d) /\ d.knob \in {"finite", "null"}

(* The list of formats lets a picture in or keeps it out; it has no part   *)
(* in the witness.                                                         *)
ASSUME CommandAssumption ==
  /\ Unreadable \subseteq Refused
  /\ Cap \in Nat /\ Overhead \in Nat \ {0}
  /\ \A s \in Session :
       /\ s.length \in Nat /\ s.replacements \in Nat
       /\ s.commands \subseteq Command /\ s.photos \subseteq Photo
       /\ \A d \in s.documents : "config" \in DOMAIN d => IsText(d.config)
  /\ M!NoPair \notin KeyPair
  /\ \A p \in Photo, c, d \in Settings : Witness[p, c] = Witness[p, d]
  /\ \A m \in Message : Rot \notin {m.ntru_ciphertext, m.encrypted_message}

VARIABLES
  session,    (* what the user may do                                        *)
  build,      (* "classic", or "pq": the cargo feature                       *)
  files,      (* path |-> content                                            *)
  at,         (* "library", "prompt", "start", "loading", "dispatch",        *)
              (* "write", "content", "print", "end", "exit"                  *)
  command,    (* name, whether -C is given, options                          *)
  pending,    (* <<path, content>> to be written yet                         *)
  says,       (* what it prints when they are written                        *)
  status,     (* the exit code to be                                         *)
  printed,    (* what is on stdout                                           *)
  before,     (* `files` when the command was started                        *)
  made,       (* key pairs generated so far                                  *)
  used        (* commands started and pictures replaced so far               *)

configVars == <<doc, pc, agenda, instance, saved>>
shell == <<session, build, command, before, made, used>>
shellVars ==
  <<session, build, files, at, command, pending, says, status, printed, before, made, used>>

Is(path, kind) == kind \in DOMAIN files[path]

NoCommand == [name |-> "none", config |-> FALSE, with |-> {}]
Killed == 137      (* what the shell shows for SIGKILL                     *)
Panicked == 101    (* println! and eprintln! panic when they cannot write  *)

DefaultDocument == [keys |-> DeclaredKeys \cup {JpegEntry}, version |-> 1, nonce_len |-> 12,
                    knob |-> "finite"]

CommandInit ==
  /\ command = NoCommand /\ pending = <<>> /\ status = 0
  /\ says = "nothing" /\ printed = "nothing"
  /\ made = {} /\ used = [commands |-> 0, replacements |-> 0]
  /\ build \in {"classic", "pq"} /\ session \in Session
  /\ \/ /\ Init
        /\ at = "library" /\ build = "classic" /\ session.commands = {}
        /\ files = [p \in Path |-> Absent]
     \/ /\ doc = Nothing /\ pc = "idle" /\ agenda = {} /\ instance = Nothing /\ saved = FALSE
        /\ at = "prompt"
        /\ \E p \in session.photos, t \in session.texts, d \in session.documents :
             files = [x \in Path |-> CASE x = "image" -> [picture |-> p]
                                       [] x = "text" -> t
                                       [] x = "config" -> d
                                       [] OTHER -> Absent]
  /\ before = files

(* A program links the library. *)
Library == at = "library" /\ Next /\ UNCHANGED shellVars

-----------------------------------------------------------------------------
(* Between two commands. *)
ReplacePicture ==
  /\ at = "prompt" /\ used.replacements < session.replacements
  /\ \E c \in {[picture |-> p] : p \in session.photos} \cup {Absent} :
       files' = [files EXCEPT !["image"] = c]
  /\ before' = files'
  /\ used' = [used EXCEPT !.replacements = @ + 1]
  /\ UNCHANGED <<configVars, session, build, at, command, pending, says, status, printed, made>>

Start(c) ==
  /\ at = "prompt" /\ used.commands < session.length
  /\ at' = "start" /\ command' = c
  /\ used' = [used EXCEPT !.commands = @ + 1]
  /\ UNCHANGED <<configVars, session, build, files, pending, says, status, printed, before, made>>

Exit(code) == at' = "exit" /\ status' = code
Fail == at' = "end" /\ status' = 1          (* the command returns an error *)

(* command_key_image, command_input_file and --config must be files. *)
Needed(c) ==
  (IF c.name \in {"derive", "analyze", "export", "verify", "encrypt", "decrypt"}
     THEN {"image"} ELSE {})
  \cup (IF c.name = "decrypt" THEN {"message"} ELSE {})
  \cup (IF "input_file" \in c.with THEN {"text"} ELSE {})
  \cup (IF c.config THEN {"config"} ELSE {})

Missing(c) == \E p \in Needed(c) : files[p] = Absent

Preflight ==
  /\ at = "start"
  /\ \/ Missing(command) /\ Fail /\ UNCHANGED configVars
     \/ ~Missing(command) /\ command.config
        /\ at' = "loading" /\ UNCHANGED <<configVars, status>>
     \/ ~Missing(command) /\ ~command.config
        /\ at' = "dispatch" /\ UNCHANGED status
        /\ pc' = "running" /\ instance' = DefaultDocument
        /\ UNCHANGED <<doc, agenda, saved>>
  /\ UNCHANGED <<shell, files, pending, says, printed>>

(* SpectrumConfig::load of the -C document, which may be no JSON at all;   *)
(* the walk and the conversion are ConfigLoading's.                        *)
ReadConfig ==
  /\ at = "loading" /\ pc = "idle"
  /\ IF Is("config", "config")
       THEN /\ doc' = files["config"].config
            /\ saved' = (doc' = DefaultDocument)
            /\ pc' = "load"
            /\ UNCHANGED <<at, status>>
       ELSE Fail /\ UNCHANGED <<doc, saved, pc>>
  /\ UNCHANGED <<agenda, instance, shell, files, pending, says, printed>>

LoadConfig ==
  /\ at = "loading"
  /\ Load \/ (\E o \in agenda : Visit(o)) \/ EndWalk \/ Convert
  /\ UNCHANGED shellVars

ConfigLoaded ==
  /\ at = "loading" /\ pc \in {"running", "refused"}
  /\ IF pc = "refused" THEN Fail ELSE at' = "dispatch" /\ UNCHANGED status
  /\ UNCHANGED <<configVars, shell, files, pending, says, printed>>

-----------------------------------------------------------------------------
(* The picture and the settings of this command; read_capped. *)
Effective == IF JpegEntry \in instance.keys THEN "any_format" ELSE "no_jpeg"
Picture == files["image"].picture
Derivable ==
  Is("image", "picture") /\ <<Picture, Effective>> \notin Refused
Key == M!MasterKey(Picture, Effective)
InReach(path) ==
  /\ files[path] # Absent
  /\ Is(path, "length") => files[path].length <= Cap

(* What a command comes to: an error, or files to write, exit code, output; *)
(* "report" stands for every output but a plaintext.                        *)
Perform(name, ok, writes, code, out) ==
  /\ at = "dispatch" /\ command.name = name
  /\ IF ok THEN /\ pending' = writes
                /\ status' = code
                /\ says' = out
                /\ at' = IF writes = <<>> THEN "print" ELSE "write"
           ELSE Fail /\ UNCHANGED <<pending, says>>
  /\ UNCHANGED <<configVars, session, build, files, command, printed, before, used>>
If(option, write) == IF option \in command.with THEN <<write>> ELSE <<>>

Derive == Perform("derive", Derivable, <<>>, 0, "report") /\ UNCHANGED made

(* AnalysisReport::from_analysis: of the picture, without the key. *)
ReportOf(picture, settings) == [report |-> picture, analysed |-> settings]
Analyze ==
  /\ Perform("analyze",
       Is("image", "picture") /\ <<Picture, Effective>> \notin Unreadable,
       If("report", <<"report", ReportOf(Picture, Effective)>>), 0, "report")
  /\ UNCHANGED made

Export ==
  /\ Perform("export", Derivable, << <<"record", [record |-> Key]>> >>, 0, "report")
  /\ UNCHANGED made

(* exit(2) is for a record that was read and belongs to another picture. *)
Verify ==
  /\ Perform("verify", InReach("record") /\ Is("record", "record") /\ Derivable,
       <<>>, IF files["record"] = [record |-> Key] THEN 0 ELSE 2, "report")
  /\ UNCHANGED made

(* --message or --input-file, not both; the file must be UTF-8.  The time  *)
(* of sealing is left to MessageExchange.                                  *)
Plaintext == IF "message" \in command.with THEN OnTheCommandLine ELSE files["text"]
Encrypt ==
  /\ LET pq == "pq" \in command.with
         ok == /\ "message" \in command.with <=> "input_file" \notin command.with
               /\ "input_file" \in command.with => InReach("text") /\ Is("text", "text")
               /\ pq => build = "pq" /\ InReach("public") /\ Is("public", "public")
               /\ Derivable
         sealed == M!SealedMessage(Plaintext.text, Key,
                     IF pq THEN files["public"].public ELSE M!NoPair, 0, 0)
     IN  Perform("encrypt", ok,
           << <<"message", [message |-> sealed, length |-> Plaintext.length + Overhead]>> >>,
           0, "report")
  /\ UNCHANGED made

(* A classic build reads the secret key and does not use it. *)
Decrypt ==
  /\ LET pq == "pq" \in command.with
         m == files["message"].message
         pair == IF pq /\ Is("secret", "secret") THEN files["secret"].secret ELSE M!NoPair
         ok == /\ InReach("message") /\ Is("message", "message")
               /\ pq => InReach("secret") /\ (build = "pq" => Is("secret", "secret"))
               /\ Derivable
               /\ M!VerdictOn(m, Key, build, pair) = "opened"
     IN  Perform("decrypt", ok, <<>>, 0, m.encrypted_message.plaintext)
  /\ UNCHANGED made

(* ntru_generate_keypair: a pair nobody has had before. *)
Generated == KeyPair \ made
KeygenAvailable == build = "pq"

(* The secret key first, through write_secret_file. *)
PqKeygen ==
  \E pair \in Generated :
    /\ Perform("pq_keygen", KeygenAvailable,
         << <<"secret", [secret |-> pair]>>, <<"public", [public |-> pair]>> >>, 0, "report")
    /\ made' = IF KeygenAvailable THEN made \cup {pair} ELSE made

(* One picture, from the folder or from --files; what fails is an entry.  *)
Batch ==
  /\ Perform("batch", "files" \in command.with \/ files["image"] # Absent,
       If("output", <<"manifest", [manifest |-> IF Derivable THEN {Key} ELSE {}]>>),
       0, "report")
  /\ UNCHANGED made

(* Selftest.tla says when the battery passes; it may also end in an error. *)
RunSelftest ==
  /\ \E ended \in BOOLEAN, code \in {0, 1} : Perform("selftest", ended, <<>>, code, "report")
  /\ UNCHANGED made

(* The default document, whatever -C says. *)
WriteConfig ==
  /\ Perform("config", TRUE, If("output", <<"config", [config |-> DefaultDocument]>>),
       0, "report")
  /\ UNCHANGED made

Dispatch ==
  \/ Derive \/ Analyze \/ Export \/ Verify \/ Encrypt \/ Decrypt
  \/ PqKeygen \/ Batch \/ RunSelftest \/ WriteConfig

-----------------------------------------------------------------------------
(* Every output is truncated, then filled: fs::write, write_secret_file.   *)
(* analyze has printed its analysis before it opens the report.            *)
Truncate ==
  /\ at = "write"
  /\ files' = [files EXCEPT ![pending[1][1]] = Cut]
  /\ at' = "content"
  /\ UNCHANGED <<configVars, shell, pending, says, status, printed>>

Fill ==
  /\ at = "content"
  /\ files' = [files EXCEPT ![pending[1][1]] = pending[1][2]]
  /\ pending' = Tail(pending)
  /\ at' = IF pending' = <<>> THEN "print" ELSE "write"
  /\ UNCHANGED <<configVars, shell, says, status, printed>>

(* Faulty variant: an output that cannot be written is passed over. *)
PassOver ==
  /\ at \in {"write", "content"}
  /\ pending' = Tail(pending)
  /\ at' = IF pending' = <<>> THEN "print" ELSE "write"
  /\ UNCHANGED <<configVars, shell, files, says, status, printed>>

(* The system refuses to open, or to take the content. *)
WriteFails ==
  /\ at \in {"write", "content"}
  /\ Fail
  /\ UNCHANGED <<configVars, shell, files, pending, says, printed>>

(* Then the command tells what it did.                                     *)
PrintOutcome ==
  /\ at = "print"
  /\ printed' = says
  /\ at' = "end"
  /\ UNCHANGED <<configVars, shell, files, pending, says, status>>

(* println! on a stdout that takes nothing panics; the files are written.  *)
PrintFails ==
  /\ at = "print" \/ (at = "write" /\ command.name = "analyze")
  /\ Exit(Panicked)
  /\ UNCHANGED <<configVars, shell, files, pending, says, printed>>

(* main: an error is told on stderr, and eprintln! panics where that takes *)
(* nothing; a verdict against the record exits with 2.                     *)
End ==
  /\ at = "end"
  /\ \E code \in IF status = 1 THEN {1, Panicked} ELSE {status} : Exit(code)
  /\ UNCHANGED <<configVars, shell, files, pending, says, printed>>

(* From outside, as long as the process is there.                          *)
Kill ==
  /\ at \in {"start", "loading", "dispatch", "write", "content", "print", "end"}
  /\ Exit(Killed)
  /\ UNCHANGED <<configVars, shell, files, pending, says, printed>>

Prompt ==
  /\ at = "exit"
  /\ at' = "prompt" /\ command' = NoCommand /\ pending' = <<>>
  /\ status' = 0 /\ says' = "nothing" /\ printed' = "nothing" /\ before' = files
  /\ doc' = Nothing /\ pc' = "idle" /\ agenda' = {} /\ instance' = Nothing /\ saved' = FALSE
  /\ UNCHANGED <<session, build, files, made, used>>

CommandNext ==
  \/ Library \/ ReplacePicture \/ (\E c \in session.commands : Start(c))
  \/ Preflight \/ ReadConfig \/ LoadConfig \/ ConfigLoaded
  \/ Dispatch \/ Truncate \/ Fill \/ WriteFails \/ PrintOutcome \/ PrintFails
  \/ End \/ Kill \/ Prompt

CommandSpec == CommandInit /\ [][CommandNext]_<<configVars, shellVars>>

-----------------------------------------------------------------------------
(* Whose message opens here and now (README: both the exact key image and, *)
(* for a hybrid message, the secret key; the other way round it is an      *)
(* error to bring a key, on a build that looks at it).                     *)
Opens(m) ==
  LET brings == "pq" \in command.with
      pair == m.ntru_ciphertext.to
  IN  /\ m.image_hash = Picture
      /\ brings => files["secret"] # Absent
      /\ IF pair = M!NoPair THEN build = "pq" => ~brings
                          ELSE build = "pq" /\ brings /\ files["secret"] = [secret |-> pair]

(* What a command that succeeds has brought about, command by command.     *)
Delivered ==
  CASE command.name = "export" -> files["record"] = [record |-> Key]
    [] command.name = "verify" -> files["record"] = [record |-> Key]
    [] command.name = "encrypt" ->
         /\ Is("message", "message")
         /\ LET m == files["message"].message
            IN  /\ m.encrypted_message.plaintext = Plaintext.text
                /\ m.image_hash = Picture
                /\ m.ntru_ciphertext.to =
                     IF "pq" \in command.with THEN files["public"].public ELSE M!NoPair
    [] command.name = "decrypt" ->
         Is("message", "message") /\ Opens(files["message"].message)
    [] command.name = "pq_keygen" ->
         \E k \in KeyPair : /\ files["secret"] = [secret |-> k]
                            /\ files["public"] = [public |-> k]
                            /\ before["secret"] # [secret |-> k]
    [] "report" \in command.with -> files["report"] = ReportOf(Picture, Effective)
    [] command.name = "batch" /\ "output" \in command.with ->
         files["manifest"] = [manifest |-> IF Derivable THEN {Key} ELSE {}]
    [] command.name = "config" /\ "output" \in command.with ->
         files["config"] = [config |-> DefaultDocument]
    [] OTHER -> TRUE

(* The files a command is there to write. *)
Outputs ==
  CASE command.name = "export" -> {"record"}
    [] command.name = "encrypt" -> {"message"}
    [] command.name = "pq_keygen" -> {"secret", "public"}
    [] "report" \in command.with -> {"report"}
    [] command.name = "batch" /\ "output" \in command.with -> {"manifest"}
    [] command.name = "config" /\ "output" \in command.with -> {"config"}
    [] OTHER -> {}

(* The public key is touched only when its own, new secret key is in place. *)
PairInOrder ==
  \/ files["secret"] \in {before["secret"], Cut} /\ files["public"] = before["public"]
  \/ \E k \in KeyPair : /\ files["secret"] = [secret |-> k] /\ before["secret"] # [secret |-> k]
                        /\ files["public"] \in {before["public"], Cut, [public |-> k]}

(* Every file is as it was or was cut off; the secret key of a pq-keygen   *)
(* may be the new one already, see PairInOrder.                            *)
Kept ==
  \A p \in Path \ (IF command.name = "pq_keygen" THEN {"secret"} ELSE {}) :
    files[p] \in {before[p], Cut}

(* The exit code tells what has happened, whatever commands, kills, full   *)
(* disks, closed outputs and replaced pictures came before.  0: every file *)
(* the command is for is there, whole, and of the picture, text and keys   *)
(* of this very command, under the configuration that was asked for, and a *)
(* plaintext is on stdout.  2: the record was good and belongs to another  *)
(* picture, and nothing else gives a 2.  1: no file has become another     *)
(* whole one.  A process that is killed or cannot print ends with 137 or   *)
(* 101, beside files that are cut off or as they were, or, since it prints *)
(* after it has written, beside just what a 0 stands for.  Whatever the    *)
(* code, a command writes only its own outputs, a new public key only      *)
(* stands beside its own secret key, and decrypt reports an error only on  *)
(* a message that is damaged, too long or not for these factors.           *)
ExitTellsOutcome ==
  at = "exit" =>
    /\ \A p \in Path \ Outputs : files[p] = before[p]
    /\ command.name = "pq_keygen" => PairInOrder
    /\ status = 0 =>
         /\ Delivered
         /\ command.config => instance = Converted(before["config"].config)
         /\ command.name = "decrypt" =>
              printed = files["message"].message.encrypted_message.plaintext
    /\ status = 2 => /\ command.name = "verify" /\ Derivable
                     /\ Is("record", "record") /\ files["record"] # [record |-> Key]
    /\ status = 1 => Kept
    /\ status \notin {0, 1, 2} => Kept \/ Delivered
    /\ command.name = "decrypt" /\ status = 1 /\ pc = "running" /\ Derivable =>
         ~ /\ Is("message", "message") /\ Opens(files["message"].message)
           /\ files["message"].length <= Cap
==============================================================================
