--------------------------- MODULE MessageExchange ---------------------------
(***************************************************************************)
(* `spectrum encrypt` and `spectrum decrypt` against one key image and one *)
(* message path: encrypt_message_with_pq, the file write, read_capped,     *)
(* deserialize and decrypt_message_with_pq.  Commands interleave at every  *)
(* system call and clock reading; an encryption may be interrupted; the    *)
(* image may be replaced and the stored message damaged at any time.       *)
(*                                                                         *)
(* A run's messages are all classic or all hybrid and carry payloads of    *)
(* one length, so that the fields of two messages lie at the same offsets. *)
(* The replay guard of decryption.rs only logs and is left out.            *)
(***************************************************************************)
EXTENDS SpectrumMessage

CONSTANTS
  Sender,        (* encrypt commands, each run once; also name their payload *)
  Receiver,      (* decrypt commands, each run once                          *)
  Scenario,      (* who is called with which config, build and key pair (a   *)
                 (* receiver's is the secret one); photos and files, what    *)
                 (* the image and the message path may hold at first; and    *)
                 (* the bounds: edits, replacements of the key image; ticks, *)
                 (* seconds the clock advances; damage, bit flips in the     *)
                 (* stored message                                           *)
  Nobody         (* nothing was printed                                      *)

Build == {"classic", "pq"}
Args == [config : Config, build : Build, pair : KeyPair \cup {NoPair}]

NoPhoto == "no_photo"
NoTime == Nobody

(* What can be told from nothing, and from a damaged field.                *)
Factors == [master : Master, pair : KeyPair \cup {NoPair}]
Secrets ==
  {NoSecret} \cup {SharedSecret(x[1], x[2]) : x \in KeyPair \X (Sender \cup {"implicit_rejection"})}
Subkeys == {Subkey(x[1], x[2], x[3]) : x \in {"enc", "mac"} \X Master \X Secrets}
Bodies == [key : Subkeys, plaintext : Sender]
Tags == [key : Subkeys, body : Bodies \cup {Rot}, hash : Photo, time : Nat \cup {Rot}]

ASSUME ExchangeAssumption ==
  /\ Sender \cap Receiver = {} /\ Nobody \notin Sender \cup Factors
  /\ NoPair \notin KeyPair /\ NoPhoto \notin Photo /\ "implicit_rejection" \notin Sender
  /\ Rot \notin Bodies /\ Rot \notin Tags
  /\ \A pair \in KeyPair, s \in Sender : Rot # Encapsulated(pair, s)
  /\ \A c \in Scenario :
       /\ DOMAIN c.args \subseteq Sender \cup Receiver
       /\ \A p \in DOMAIN c.args : c.args[p] \in Args
       /\ c.photos \subseteq Photo /\ c.files \subseteq {Absent, <<Broken>>}
       /\ c.edits \in Nat /\ c.ticks \in Nat /\ c.damage \in Nat

VARIABLES
  photo,      (* current bytes of the key image                     *)
  edits,      (* replacements so far                                *)
  clock,      (* current_timestamp()                                *)
  file,       (* content of the message path                        *)
  damage,     (* bit flips so far                                   *)
  pc,         (* where each command is, in the end its verdict      *)
  scenario,   (* what each command was called with, and the bounds  *)
  seen,       (* the image bytes each command derived its key from  *)
  time,       (* sender: the timestamp its MAC covers               *)
  message,    (* sender: what it sealed; receiver: what it parsed   *)
  offset,     (* sender: tokens written                             *)
  buffer,     (* receiver: tokens read                              *)
  opened      (* receiver: whose plaintext it printed               *)

world == <<photo, edits, clock, file, damage>>
vars == <<photo, edits, clock, file, damage, pc, scenario, seen, time, message,
          offset, buffer, opened>>

Process == Sender \cup Receiver
args == scenario.args
Called == DOMAIN args

Hybrid == \A s \in Sender \cap Called : args[s].pair # NoPair

Init ==
  /\ edits = 0
  /\ clock = 0
  /\ damage = 0
  /\ scenario \in Scenario
  /\ photo \in scenario.photos
  /\ file \in scenario.files
  /\ pc = [p \in Process |-> IF p \in Called THEN "start" ELSE "failed"]
  /\ \A s, t \in Sender \cap Called : args[s].pair = NoPair <=> args[t].pair = NoPair
  /\ seen = [p \in Process |-> NoPhoto]
  /\ time = [s \in Sender |-> NoTime]
  /\ message = [p \in Process |-> NoMessage]
  /\ offset = [s \in Sender |-> 0]
  /\ buffer = [r \in Receiver |-> Empty]
  /\ opened = [r \in Receiver |-> Nobody]

Goto(p, next) == pc' = [pc EXCEPT ![p] = next]

(* Faulty variant: every command derives under the default configuration,  *)
(* as encrypt_message once did.                                            *)
MasterIgnoringConfig(p) == MasterKey(seen[p], CHOOSE c \in Config : TRUE)

(* The key command p works with. *)
MasterOf(p) == MasterKey(seen[p], args[p].config)

-----------------------------------------------------------------------------
(* The world around the commands. *)
EditPhoto ==
  /\ edits < scenario.edits
  /\ \E b \in Photo \ {photo} : photo' = b
  /\ edits' = edits + 1
  /\ UNCHANGED <<clock, file, damage, pc, scenario, seen, time, message, offset, buffer, opened>>

Tick ==
  /\ clock < scenario.ticks
  /\ clock' = clock + 1
  /\ UNCHANGED <<photo, edits, file, damage, pc, scenario, seen, time, message, offset, buffer, opened>>

Damage ==
  /\ damage < scenario.damage
  /\ file # Absent
  /\ \E i \in 1 .. Len(file) : \E token \in DamagedForms(file[i]) :
       file' = [file EXCEPT ![i] = token]
  /\ damage' = damage + 1
  /\ UNCHANGED <<photo, edits, clock, pc, scenario, seen, time, message, offset, buffer, opened>>

-----------------------------------------------------------------------------
(* A classic build refuses a public key before it touches the image. *)
RefusePublicKey(s) ==
  /\ pc[s] = "start"
  /\ args[s].build = "classic" /\ args[s].pair # NoPair
  /\ Goto(s, "PqLayerUnavailable")
  /\ UNCHANGED <<world, scenario, seen, time, message, offset, buffer, opened>>

(* derive_key reads the image once: the key and the hash come from the     *)
(* same bytes.                                                             *)
Derive(p) ==
  /\ \/ p \in Sender /\ pc[p] = "start"
        /\ ~(args[p].build = "classic" /\ args[p].pair # NoPair)
     \/ p \in Receiver /\ pc[p] = "derive"
  /\ IF Derives(photo, args[p].config)
       THEN Goto(p, "derived") /\ seen' = [seen EXCEPT ![p] = photo]
       ELSE Goto(p, "failed") /\ UNCHANGED seen
  /\ UNCHANGED <<world, scenario, time, message, offset, buffer, opened>>

(* Encapsulation, encryption, one clock reading, the MAC. *)
Authenticate(s) ==
  /\ pc[s] = "derived"
  /\ time' = [time EXCEPT ![s] = clock]
  /\ Goto(s, "assemble")
  /\ UNCHANGED <<world, scenario, seen, message, offset, buffer, opened>>

(* SpectrumMessage::new with the timestamp the MAC covers. *)
Assemble(s) ==
  /\ pc[s] = "assemble"
  /\ message' = [message EXCEPT ![s] =
       SealedMessage(s, MasterOf(s), args[s].pair, time[s], time[s])]
  /\ Goto(s, "create")
  /\ UNCHANGED <<world, scenario, seen, time, offset, buffer, opened>>

(* fs::write: create or truncate, then write calls of any length. *)
Create(s) ==
  /\ pc[s] = "create"
  /\ file' = Empty
  /\ Goto(s, "write")
  /\ UNCHANGED <<photo, edits, clock, damage, scenario, seen, time, message, offset, buffer, opened>>

Write(s) ==
  /\ pc[s] = "write"
  /\ \E to \in offset[s] + 1 .. MessageLen :
       /\ file' = Written(file, Serialized(message[s]), offset[s] + 1, to)
       /\ offset' = [offset EXCEPT ![s] = to]
       /\ Goto(s, IF to = MessageLen THEN "done" ELSE "write")
  /\ UNCHANGED <<photo, edits, clock, damage, scenario, seen, time, message, buffer, opened>>

(* The process is killed, or a system call of fs::write fails. *)
Interrupt(s) ==
  /\ pc[s] \in {"create", "write"}
  /\ Goto(s, "failed")
  /\ UNCHANGED <<world, scenario, seen, time, message, offset, buffer, opened>>

-----------------------------------------------------------------------------
(* cmd_decrypt reads and parses the message before it looks at the image. *)
Open(r) ==
  /\ pc[r] = "start"
  /\ Goto(r, IF file = Absent THEN "failed" ELSE "read")
  /\ UNCHANGED <<world, scenario, seen, time, message, offset, buffer, opened>>

Read(r) ==
  /\ pc[r] = "read"
  /\ ~AtEnd(file, buffer[r])
  /\ \E k \in 1 .. MessageLen : buffer' = [buffer EXCEPT ![r] = ReadMore(file, @, k)]
  /\ UNCHANGED <<world, pc, scenario, seen, time, message, offset, opened>>

Parse(r) ==
  /\ pc[r] = "read"
  /\ AtEnd(file, buffer[r])
  /\ IF Parses(buffer[r], Hybrid)
       THEN Goto(r, "derive") /\ message' = [message EXCEPT ![r] = Parsed(buffer[r])]
       ELSE Goto(r, "MalformedMessage") /\ UNCHANGED message
  /\ UNCHANGED <<world, scenario, seen, time, offset, buffer, opened>>

(* The checks of decrypt_message_with_pq; they touch nothing shared. *)
Decrypt(r) ==
  /\ pc[r] = "derived"
  /\ LET verdict == VerdictOn(message[r], MasterOf(r), args[r].build, args[r].pair)
     IN  /\ Goto(r, verdict)
         /\ opened' = IF verdict = "opened"
                        THEN [opened EXCEPT ![r] = message[r].encrypted_message.plaintext]
                        ELSE opened
  /\ UNCHANGED <<world, scenario, seen, time, message, offset, buffer>>

Encryption(s) ==
  RefusePublicKey(s) \/ Derive(s) \/ Authenticate(s) \/ Assemble(s) \/ Create(s) \/ Write(s)
Decryption(r) == Open(r) \/ Read(r) \/ Parse(r) \/ Derive(r) \/ Decrypt(r)

Next ==
  \/ EditPhoto \/ Tick \/ Damage
  \/ \E s \in Sender : Encryption(s) \/ Interrupt(s)
  \/ \E r \in Receiver : Decryption(r)

Spec == Init /\ [][Next]_vars

-----------------------------------------------------------------------------
SenderEnd == {"done", "failed", "PqLayerUnavailable"}
SenderState == {"start", "derived", "assemble", "create", "write"} \cup SenderEnd
ReceiverEnd == {"opened", "failed", "MalformedMessage", "ImageMismatch",
                "PqLayerUnavailable", "VerificationFailed", "DecryptionFailed"}
ReceiverState == {"start", "read", "derive", "derived"} \cup ReceiverEnd

(* The images behind the commands' keys are images derive_key accepts. *)
TypeOK ==
  /\ photo \in Photo
  /\ scenario \in Scenario
  /\ edits \in 0 .. scenario.edits /\ clock \in 0 .. scenario.ticks
  /\ damage \in 0 .. scenario.damage
  /\ \A s \in Sender : pc[s] \in SenderState
  /\ \A r \in Receiver : pc[r] \in ReceiverState
  /\ \A p \in Process : \/ seen[p] = NoPhoto
                        \/ /\ p \in Called /\ seen[p] \in Photo
                           /\ Derives(seen[p], args[p].config)
  /\ time \in [Sender -> (0 .. clock) \cup {NoTime}]
  /\ offset \in [Sender -> 0 .. MessageLen]
  /\ opened \in [Receiver -> Sender \cup {Nobody}]

(* What it takes to read s's plaintext: the message as s sealed it, an     *)
(* image with the very bytes s used, a configuration that draws the same   *)
(* witness from them, and the one matching secret key for a hybrid         *)
(* message on a build that knows them; a pq build takes none for a classic *)
(* one, a classic build does not look.                                     *)
Entitled(r, s) ==
  /\ message[r] # NoMessage /\ message[r] = message[s]
  /\ seen[r] # NoPhoto /\ seen[r] = seen[s]
  /\ Witness[seen[r], args[r].config] = Witness[seen[s], args[s].config]
  /\ IF args[s].pair = NoPair
       THEN args[r].build = "pq" => args[r].pair = NoPair
       ELSE args[r].build = "pq" /\ args[r].pair = args[s].pair

(* A decrypt that has ended printed a plaintext exactly if it was entitled *)
(* to that one: nothing that a crash, a torn write, two encryptions into   *)
(* one file, a bit flip, a replaced image or a wrong configuration left    *)
(* behind opens, and what was sealed and kept intact always does, whatever *)
(* the clock did meanwhile (encryption.rs on its single timestamp).        *)
OpensExactlyWhenEntitled ==
  \A r \in Receiver : pc[r] \in ReceiverEnd =>
    \A s \in Sender : opened[r] = s <=> Entitled(r, s)

(* decryption.rs verifies "before touching the ciphertext": no message     *)
(* that passes the MAC is ever turned away by AES-GCM, so every damaged or *)
(* foreign ciphertext has been refused by then.                            *)
MacSpeaksFirst == \A r \in Receiver : pc[r] # "DecryptionFailed"

(* The exchange refines the abstract one: a letter is sealed when its      *)
(* container is assembled, factors are shown when the key is derived.      *)
FactorsOf(p) ==
  [ master |-> MasterKey(seen[p], args[p].config),
    pair |-> IF p \in Receiver /\ args[p].build = "classic" THEN NoPair
             ELSE args[p].pair ]
Exchange == INSTANCE SealedExchange WITH
  Factors <- Factors,
  Nothing <- Nobody,
  letters <- [s \in Sender |-> IF message[s] = NoMessage THEN Nobody ELSE FactorsOf(s)],
  shown   <- [r \in Receiver |-> IF seen[r] = NoPhoto THEN Nobody ELSE FactorsOf(r)]

(* decrypt hands out no plaintext but that of a message sealed earlier     *)
(* under the very factors this decrypt has presented, and only one.        *)
ImplementsExchange == Exchange!Spec
==============================================================================
