--------------------------- MODULE SpectrumMessage ---------------------------
(***************************************************************************)
(* The message container and its cryptography as data: how a message is    *)
(* sealed from a master key and an optional NTRU-Prime secret, laid out on *)
(* disk, parsed back, and what decrypt_message_with_pq checks, in order.   *)
(* Primitives are ideal: a MAC tag or a ciphertext is the term of what     *)
(* went in.                                                                *)
(***************************************************************************)
EXTENDS KeyDerivation, FileBytes

CONSTANTS
  KeyPair,   (* NTRU-Prime key pairs                       *)
  Rot        (* the value of a field damaged or zeroed     *)

NoPair == "no_pair"

(* Faulty variant: the hybrid subkeys expand the master key alone. *)
SubkeyOfMaster(label, master, secret) == [label |-> label, master |-> master]

(* HKDF subkeys: classic mode expands the master key, hybrid mode master   *)
(* and shared secret; encryption and MAC differ in their label.            *)
NoSecret == [pair |-> NoPair]
ExpandKey(label, master) == [label |-> label, master |-> master, secret |-> NoSecret]
ExpandHybridKeys(label, master, secret) ==
  [ExpandKey(label, master) EXCEPT !.secret = secret]
Subkey(label, master, secret) ==
  IF secret = NoSecret THEN ExpandKey(label, master)
                       ELSE ExpandHybridKeys(label, master, secret)

(* ntru_encapsulate: a fresh secret per message, named here by its sender. *)
SharedSecret(pair, s) == [pair |-> pair, by |-> s]
NoCiphertext == [to |-> NoPair]
Encapsulated(pair, s) == [to |-> pair, secret |-> SharedSecret(pair, s)]

(* ntru_decapsulate never fails on well-sized input: another secret key or *)
(* a damaged ciphertext yields an unrelated secret.                        *)
Decapsulated(pair, ct) ==
  IF ct # Rot /\ ct.to = pair THEN ct.secret
  ELSE [pair |-> pair, by |-> "implicit_rejection"]

(* AES-GCM under a subkey. *)
EncryptWithSubkey(s, key) == [key |-> key, plaintext |-> s]

(* Faulty variant: the ciphertext is left out of the MAC input. *)
TagWithoutBody(key, body, hash, time) == [key |-> key, hash |-> hash, time |-> time]

(* The authenticator over ciphertext, image hash and timestamp. *)
Tag(key, body, hash, time) ==
  [key |-> key, body |-> body, hash |-> hash, time |-> time]

(* SpectrumMessage::new. *)
NewMessage(time, hash, ciphertext, tag, body) ==
  [ timestamp |-> time, image_hash |-> hash, ntru_ciphertext |-> ciphertext,
    signature |-> tag, encrypted_message |-> body ]

(* The message of sender s; `pair` is NoPair in classic mode, `tagged` the *)
(* time the MAC covers, `stored` the one the container shows.              *)
SealedMessage(s, master, pair, tagged, stored) ==
  LET secret == IF pair = NoPair THEN NoSecret ELSE SharedSecret(pair, s)
      body   == EncryptWithSubkey(s, Subkey("enc", master, secret))
      tag    == Tag(Subkey("mac", master, secret), body, master.file, tagged)
  IN  NewMessage(stored, master.file,
                 IF pair = NoPair THEN NoCiphertext ELSE Encapsulated(pair, s), tag, body)
NoMessage == [timestamp |-> "none"]
IsHybrid(m) == m.ntru_ciphertext # NoCiphertext

-----------------------------------------------------------------------------
(* serialize: version, timestamp and hash at fixed width, then three       *)
(* length-prefixed fields.                                                 *)
MESSAGE_VERSION == "v1"
Token(name, value) == [field |-> name, of |-> value]
Serialized(m) ==
  << Token("version", MESSAGE_VERSION), Token("timestamp", m.timestamp),
     Token("hash", m.image_hash), Token("ntru", m.ntru_ciphertext),
     Token("signature", m.signature), Token("body", m.encrypted_message) >>
MessageLen == 6

(* A length prefix that no longer adds up with what follows. *)
Broken == [field |-> "broken"]

(* deserialize: every field there in full, our version, nothing after.  A  *)
(* hole is zero bytes: no version, a wrong timestamp or hash, an empty     *)
(* field; only a classic message may have an empty `ntru` field.           *)
Parses(data, hybrid) ==
  /\ Len(data) = MessageLen
  /\ \A i \in 1 .. MessageLen : data[i] # Broken
  /\ \A i \in {1, 5, 6} \cup (IF hybrid THEN {4} ELSE {}) : data[i] # Hole
  /\ data[1].of = MESSAGE_VERSION
Parsed(data) ==
  LET value(i, zero) == IF data[i] = Hole THEN zero ELSE data[i].of
  IN  [ timestamp |-> value(2, Rot), image_hash |-> value(3, Rot),
        ntru_ciphertext |-> value(4, NoCiphertext),
        signature |-> data[5].of, encrypted_message |-> data[6].of ]

(* One bit of the token flips: in the value, or in its length prefix (the  *)
(* `ntru` field of a classic message has nothing but a prefix).            *)
DamagedForms(token) ==
  CASE token \in {Hole, Broken} -> {Broken}
    [] token.field \in {"version", "timestamp", "hash"} -> {Token(token.field, Rot)}
    [] token.field = "ntru" /\ token.of = NoCiphertext -> {Broken}
    [] OTHER -> {Token(token.field, Rot), Broken}

-----------------------------------------------------------------------------
(* The MAC, and the AES-GCM tag, under a master key and a secret. *)
Verifies(key, m) == m.signature = Tag(key, m.encrypted_message, m.image_hash, m.timestamp)
Authentic(m, master, secret) == Verifies(Subkey("mac", master, secret), m)
DecryptsWithSubkey(key, body) == body # Rot /\ body.key = key
Decrypts(m, master, secret) ==
  DecryptsWithSubkey(Subkey("enc", master, secret), m.encrypted_message)

(* decrypt_message_with_pq after the key is derived: its checks in order.  *)
(* A classic build looks at no secret key; a pq build wants one exactly    *)
(* for a hybrid message.                                                   *)
Checks(m, master, build, pair) ==
  LET secret == IF IsHybrid(m) THEN Decapsulated(pair, m.ntru_ciphertext) ELSE NoSecret
  IN  << [ok |-> m.image_hash = master.file, error |-> "ImageMismatch"],
         [ok |-> build = "classic" => ~IsHybrid(m), error |-> "PqLayerUnavailable"],
         [ok |-> build = "pq" => (IsHybrid(m) <=> pair # NoPair),
          error |-> "MalformedMessage"],
         [ok |-> Authentic(m, master, secret), error |-> "VerificationFailed"],
         [ok |-> Decrypts(m, master, secret), error |-> "DecryptionFailed"] >>

(* The first failing check is the error; with none, the message opens. *)
VerdictOn(m, master, build, pair) ==
  LET checks == Checks(m, master, build, pair)
      failing == {i \in DOMAIN checks : ~checks[i].ok}
  IN  IF failing = {} THEN "opened"
      ELSE checks[CHOOSE i \in failing : \A j \in failing : i <= j].error
==============================================================================
