------------------------ MODULE MessageExchangeProofs ------------------------
(***************************************************************************)
(* For any number of encryptions and decryptions around one message path,  *)
(* any images, configurations, builds and key pairs: a decryption opens    *)
(* exactly the message it is entitled to, nothing that passes the MAC is   *)
(* turned away by AES-GCM, and the exchange implements SealedExchange.     *)
(***************************************************************************)
EXTENDS MessageExchange, SequenceTheorems, TLAPS

-----------------------------------------------------------------------------
(* One write call: the tokens it covers, those beside them, and holes. *)
Covers(w, content, data, from, to) ==
  /\ Len(w) = IF Len(content) > to THEN Len(content) ELSE to
  /\ \A i \in 1 .. Len(w) :
       w[i] = IF i \in from .. to THEN data[i]
              ELSE IF i <= Len(content) THEN content[i] ELSE Hole
LEMMA WrittenProperties ==
  ASSUME NEW S, Hole \in S, NEW content \in Seq(S), NEW data \in Seq(S),
         NEW from \in 1 .. Len(data), NEW to \in from .. Len(data)
  PROVE  /\ Written(content, data, from, to) \in Seq(S)
         /\ Covers(Written(content, data, from, to), content, data, from, to)
<1> DEFINE n == IF Len(content) > to THEN Len(content) ELSE to
           w == Written(content, data, from, to)
<1>1. w \in [1 .. n -> S] /\ n \in Nat
  BY DEF Written
<1>2. w \in Seq(S) /\ Len(w) = n
  <2> HIDE DEF n, w
  <2> QED BY <1>1
<1> QED BY <1>2 DEF Written, Covers

(* One read call keeps every token at its place. *)
Continues(more, content, buf, k) ==
  /\ Len(more) \in Nat /\ Len(more) <= Len(content)
  /\ Len(more) >= Len(buf) /\ Len(more) <= Len(buf) + k
  /\ \A i \in 1 .. Len(more) : more[i] = IF i <= Len(buf) THEN buf[i] ELSE content[i]
LEMMA ReadMoreProperties ==
  ASSUME NEW S, NEW content \in Seq(S), NEW buf \in Seq(S), NEW k \in Nat,
         Len(buf) < Len(content)
  PROVE  /\ ReadMore(content, buf, k) \in Seq(S)
         /\ Continues(ReadMore(content, buf, k), content, buf, k)
  BY DEF ReadMore, Continues

-----------------------------------------------------------------------------
(* The inductive invariant, in named parts. *)

SealedMessages ==
  {SealedMessage(x[1], x[2], x[3], x[4], x[4]) :
     x \in Sender \X Master \X (KeyPair \cup {NoPair}) \X Nat}
FieldName == <<"version", "timestamp", "hash", "ntru", "signature", "body">>
AnyToken ==
  {Hole, Broken, Absent[1]}
    \cup {Token(FieldName[i], Rot) : i \in 1 .. MessageLen}
    \cup {Serialized(x[1])[x[2]] : x \in SealedMessages \X (1 .. MessageLen)}

StoresTell ==
  /\ pc \in [Process -> SenderState \cup ReceiverState]
  /\ seen \in [Process -> Photo \cup {NoPhoto}]
  /\ message = [p \in Process |-> message[p]]
  /\ file \in Seq(AnyToken) /\ Len(file) <= MessageLen
  /\ buffer \in [Receiver -> Seq(AnyToken)]
  /\ \A r \in Receiver : Len(buffer[r]) <= MessageLen
  /\ \A p \in Process : pc[p] # "failed" => p \in Called

(* What a sender has by the time it stands where it stands; a sealed       *)
(* message shows the key, the pair and the time it was sealed with.        *)
SealedBy(s, m) ==
  /\ s \in Called /\ seen[s] \in Photo /\ time[s] \in Nat
  /\ m = SealedMessage(s, MasterOf(s), args[s].pair, time[s], time[s])
SendersTell ==
  \A s \in Sender :
    /\ pc[s] \in {"start", "derived", "assemble"} => message[s] = NoMessage
    /\ pc[s] \in {"derived", "assemble"} => seen[s] \in Photo
    /\ pc[s] = "assemble" => time[s] \in Nat
    /\ pc[s] \in {"create", "write"} => message[s] # NoMessage
    /\ pc[s] = "write" => file # Absent
    /\ message[s] # NoMessage => SealedBy(s, message[s])

(* Every token stands where its sender has put it, whole or damaged; so    *)
(* each field a receiver has parsed is some sealed message's, or rotten.   *)
TokenAt(t, i) ==
  \/ t \in {Hole, Broken, Token(FieldName[i], Rot)}
  \/ \E s \in Sender : message[s] # NoMessage /\ t = Serialized(message[s])[i]
TokensTell ==
  /\ file = Absent \/ \A i \in 1 .. Len(file) : TokenAt(file[i], i)
  /\ \A r \in Receiver : \A i \in 1 .. Len(buffer[r]) : TokenAt(buffer[r][i], i)

Provenance(m) ==
  /\ m = NewMessage(m.timestamp, m.image_hash, m.ntru_ciphertext, m.signature, m.encrypted_message)
  /\ \/ m.timestamp = Rot
     \/ \E s \in Sender : message[s] # NoMessage /\ m.timestamp = message[s].timestamp
  /\ \/ m.ntru_ciphertext \in {Rot, NoCiphertext}
     \/ \E s \in Sender : message[s] # NoMessage /\ m.ntru_ciphertext = message[s].ntru_ciphertext
  /\ \/ m.signature = Rot
     \/ \E s \in Sender : message[s] # NoMessage /\ m.signature = message[s].signature
  /\ \/ m.encrypted_message = Rot
     \/ \E s \in Sender : message[s] # NoMessage /\ m.encrypted_message = message[s].encrypted_message
ReceiversTell ==
  \A r \in Receiver :
    /\ pc[r] \in {"start", "read"} => message[r] = NoMessage
    /\ pc[r] \in {"start", "read", "derive"} => seen[r] = NoPhoto
    /\ pc[r] \in {"start", "read", "derive", "derived"} => opened[r] = Nobody
    /\ pc[r] = "read" => file # Absent
    /\ pc[r] \in {"derive", "derived"} => message[r] # NoMessage
    /\ pc[r] = "derived" => seen[r] \in Photo
    /\ message[r] # NoMessage => Provenance(message[r])

ExchangeInv ==
  /\ TypeOK /\ StoresTell /\ SendersTell /\ TokensTell /\ ReceiversTell
  /\ OpensExactlyWhenEntitled /\ MacSpeaksFirst

-----------------------------------------------------------------------------
(* Lemmas about keys, messages and their layout. *)

LEMMA SubkeyShape ==
  ASSUME NEW label, NEW master, NEW secret
  PROVE  Subkey(label, master, secret) = [label |-> label, master |-> master, secret |-> secret]
  BY DEF Subkey, ExpandKey, ExpandHybridKeys

SecretOf(pair, s) == IF pair = NoPair THEN NoSecret ELSE SharedSecret(pair, s)

(* Secrets of two messages, or of two key pairs, differ; none is absent. *)
LEMMA SecretsDiffer ==
  ASSUME NEW pair, NEW s, NEW other, NEW t
  PROVE  /\ SharedSecret(pair, s) # NoSecret
         /\ SharedSecret(pair, s) = SharedSecret(other, t) => pair = other /\ s = t
<1>1. /\ SharedSecret(pair, s).pair = pair /\ SharedSecret(pair, s).by = s
      /\ SharedSecret(other, t).pair = other /\ SharedSecret(other, t).by = t
  BY DEF SharedSecret
<1>2. DOMAIN SharedSecret(pair, s) # DOMAIN NoSecret
  BY DEF SharedSecret, NoSecret
<1> QED BY <1>1, <1>2

IsSealed(m, s, master, pair, t) ==
  /\ m = NewMessage(m.timestamp, m.image_hash, m.ntru_ciphertext, m.signature, m.encrypted_message)
  /\ m.timestamp = t
  /\ m.image_hash = master.file
  /\ m.ntru_ciphertext = IF pair = NoPair THEN NoCiphertext ELSE Encapsulated(pair, s)
  /\ m.encrypted_message = [key |-> Subkey("enc", master, SecretOf(pair, s)), plaintext |-> s]
  /\ m.signature = Tag(Subkey("mac", master, SecretOf(pair, s)), m.encrypted_message, master.file, t)
  /\ m # NoMessage

LEMMA NewIsMessage ==
  ASSUME NEW stamp, NEW hash, NEW ciphertext, NEW tag, NEW body
  PROVE  NewMessage(stamp, hash, ciphertext, tag, body) # NoMessage
<1>1. DOMAIN NewMessage(stamp, hash, ciphertext, tag, body) # DOMAIN NoMessage
  BY DEF NewMessage, NoMessage
<1> QED BY <1>1

LEMMA SealedShape ==
  ASSUME NEW s, NEW master, NEW pair, NEW t
  PROVE  IsSealed(SealedMessage(s, master, pair, t, t), s, master, pair, t)
<1> DEFINE secret == SecretOf(pair, s)
           body == EncryptWithSubkey(s, Subkey("enc", master, secret))
           tag == Tag(Subkey("mac", master, secret), body, master.file, t)
           ct == IF pair = NoPair THEN NoCiphertext ELSE Encapsulated(pair, s)
           m == NewMessage(t, master.file, ct, tag, body)
<1>1. SealedMessage(s, master, pair, t, t) = m
  BY DEF SealedMessage, SecretOf
<1> HIDE DEF secret, tag, ct
<1>2. m # NoMessage
  BY NewIsMessage
<1>3. /\ m.timestamp = t /\ m.image_hash = master.file /\ m.ntru_ciphertext = ct
      /\ m.signature = tag /\ m.encrypted_message = body
  BY DEF NewMessage
<1> HIDE DEF m
<1>4. /\ m = NewMessage(m.timestamp, m.image_hash, m.ntru_ciphertext, m.signature, m.encrypted_message)
  BY <1>3 DEF m
<1> QED BY <1>1, <1>2, <1>3, <1>4 DEF IsSealed, secret, tag, ct, EncryptWithSubkey

LEMMA SealedBody ==
  ASSUME NEW m, NEW s, NEW master, NEW pair, NEW t, IsSealed(m, s, master, pair, t)
  PROVE  /\ m.encrypted_message.key = Subkey("enc", master, SecretOf(pair, s))
         /\ m.encrypted_message.plaintext = s
         /\ \A keys : Subkey("enc", master, SecretOf(pair, s)) \in keys /\ s \in Sender
              => m.encrypted_message \in [key : keys, plaintext : Sender]
<1> DEFINE key == Subkey("enc", master, SecretOf(pair, s))
           body == m.encrypted_message
<1>1. body = [key |-> key, plaintext |-> s]
  BY DEF IsSealed
<1> HIDE DEF key, body
<1>2. /\ body.key = key /\ body.plaintext = s
      /\ \A keys : key \in keys /\ s \in Sender => body \in [key : keys, plaintext : Sender]
  BY <1>1
<1> QED BY <1>2 DEF key, body

LEMMA MasterShape ==
  ASSUME NEW bytes \in Photo, NEW cfg \in Config
  PROVE  /\ MasterKey(bytes, cfg) \in Master
         /\ MasterKey(bytes, cfg).file = bytes /\ MasterKey(bytes, cfg).witness = Witness[bytes, cfg]
         /\ MasterKey(bytes, cfg) = [witness |-> Witness[bytes, cfg], file |-> bytes]
<1>1. MasterKey(bytes, cfg) \in Master
  BY DEF Master
<1> QED BY <1>1 DEF MasterKey

(* The first failing check decides. *)
Ok(i, m, master, build, pair) == Checks(m, master, build, pair)[i].ok
LEMMA FirstFailureDecides ==
  ASSUME NEW m, NEW master, NEW build, NEW pair
  PROVE  LET verdict == VerdictOn(m, master, build, pair)
             passes(i) == Ok(i, m, master, build, pair)
         IN  /\ (\A i \in 1 .. 5 : passes(i)) => verdict = "opened"
             /\ (\E i \in 1 .. 4 : ~passes(i))
                  => verdict \in {"ImageMismatch", "PqLayerUnavailable", "MalformedMessage",
                                  "VerificationFailed"}
             /\ verdict \in ReceiverEnd
<1> DEFINE checks == Checks(m, master, build, pair)
           failing == {i \in DOMAIN checks : ~checks[i].ok}
           first == CHOOSE i \in failing : \A j \in failing : i <= j
           verdict == VerdictOn(m, master, build, pair)
<1>1. /\ DOMAIN checks = 1 .. 5
      /\ checks[1].error = "ImageMismatch" /\ checks[2].error = "PqLayerUnavailable"
      /\ checks[3].error = "MalformedMessage" /\ checks[4].error = "VerificationFailed"
      /\ checks[5].error = "DecryptionFailed"
  BY DEF Checks
<1>2. verdict = IF failing = {} THEN "opened" ELSE checks[first].error
  BY DEF VerdictOn
<1>3. \A i \in 1 .. 5 : Ok(i, m, master, build, pair) = checks[i].ok
  BY DEF Ok
<1> HIDE DEF checks, verdict
<1>4. failing # {} => first \in failing /\ \A j \in failing : first <= j
  <2> SUFFICES ASSUME failing # {} PROVE \E i \in failing : \A j \in failing : i <= j
    OBVIOUS
  <2>1. failing \subseteq {1, 2, 3, 4, 5}
    BY <1>1
  <2>2. CASE 1 \in failing
    BY <2>1, <2>2
  <2>3. CASE 1 \notin failing /\ 2 \in failing
    BY <2>1, <2>3
  <2>4. CASE 1 \notin failing /\ 2 \notin failing /\ 3 \in failing
    BY <2>1, <2>4
  <2>5. CASE 1 \notin failing /\ 2 \notin failing /\ 3 \notin failing /\ 4 \in failing
    BY <2>1, <2>5
  <2>6. CASE 1 \notin failing /\ 2 \notin failing /\ 3 \notin failing /\ 4 \notin failing
    BY <2>1, <2>6
  <2> QED BY <2>2, <2>3, <2>4, <2>5, <2>6
<1> HIDE DEF first
<1>5. (\A i \in 1 .. 5 : Ok(i, m, master, build, pair)) => verdict = "opened"
  BY <1>1, <1>2, <1>3
<1>6. ASSUME NEW i \in 1 .. 4, ~Ok(i, m, master, build, pair)
      PROVE  first \in 1 .. 4 /\ verdict = checks[first].error
  <2>1. i \in failing
    BY <1>1, <1>3, <1>6
  <2>2. first \in failing /\ first <= i
    BY <1>4, <2>1
  <2> QED BY <1>1, <1>2, <2>1, <2>2
<1>7. failing # {} => first \in {1, 2, 3, 4, 5}
  BY <1>1, <1>4
<1>8. \A i \in 1 .. 4 : i \in {1, 2, 3, 4}
  OBVIOUS
<1>9. verdict \in ReceiverEnd
  BY <1>1, <1>2, <1>7 DEF ReceiverEnd
<1> QED BY <1>1, <1>5, <1>6, <1>8, <1>9 DEF verdict

-----------------------------------------------------------------------------
(* What the checks tell a receiver about the senders. *)

(* A sealed message, with its parts in their sets. *)
LEMMA SealedParts ==
  ASSUME TypeOK, SendersTell, NEW s \in Sender, message[s] # NoMessage
  PROVE  /\ IsSealed(message[s], s, MasterOf(s), args[s].pair, time[s])
         /\ s \in Called /\ args[s] \in Args /\ seen[s] \in Photo /\ time[s] \in Nat
         /\ MasterOf(s) \in Master /\ MasterOf(s).file = seen[s]
         /\ MasterOf(s).witness = Witness[seen[s], args[s].config]
<1>1. SealedBy(s, message[s])
  BY DEF SendersTell
<1>2. args[s] \in Args
  BY <1>1, ExchangeAssumption DEF SealedBy, TypeOK, Called, args, ExchangeAssumption
<1>3. args[s].config \in Config /\ seen[s] \in Photo
  BY <1>1, <1>2 DEF Args, SealedBy
<1>4. /\ MasterOf(s) \in Master /\ MasterOf(s).file = seen[s]
      /\ MasterOf(s).witness = Witness[seen[s], args[s].config]
  BY <1>3, MasterShape DEF MasterOf
<1>5. message[s] = SealedMessage(s, MasterOf(s), args[s].pair, time[s], time[s])
  BY <1>1 DEF SealedBy
<1>6. IsSealed(message[s], s, MasterOf(s), args[s].pair, time[s])
  <2> DEFINE master == MasterOf(s)  pair == args[s].pair  t == time[s]
  <2>1. IsSealed(SealedMessage(s, master, pair, t, t), s, master, pair, t)
    BY SealedShape
  <2> QED BY <1>5, <2>1
<1> QED BY <1>1, <1>2, <1>3, <1>4, <1>6 DEF SealedBy

LEMMA SubkeysAre ==
  ASSUME NEW label \in {"enc", "mac"}, NEW master \in Master, NEW secret \in Secrets
  PROVE  Subkey(label, master, secret) \in Subkeys
<1>1. /\ <<label, master, secret>> \in {"enc", "mac"} \X Master \X Secrets
      /\ Subkey(label, master, secret) =
           Subkey(<<label, master, secret>>[1], <<label, master, secret>>[2],
                  <<label, master, secret>>[3])
  OBVIOUS
<1> QED BY <1>1 DEF Subkeys

LEMMA SecretsAre ==
  /\ NoSecret \in Secrets
  /\ \A pair \in KeyPair, s \in Sender \cup {"implicit_rejection"} :
       SharedSecret(pair, s) \in Secrets
<1>1. ASSUME NEW pair \in KeyPair, NEW s \in Sender \cup {"implicit_rejection"}
      PROVE  SharedSecret(pair, s) \in Secrets
  <2>1. /\ <<pair, s>> \in KeyPair \X (Sender \cup {"implicit_rejection"})
        /\ SharedSecret(pair, s) = SharedSecret(<<pair, s>>[1], <<pair, s>>[2])
    OBVIOUS
  <2> QED BY <2>1 DEF Secrets
<1> QED BY <1>1 DEF Secrets

(* The secret a receiver works with, and where it comes from. *)
SecretFor(r) ==
  IF IsHybrid(message[r]) THEN Decapsulated(args[r].pair, message[r].ntru_ciphertext) ELSE NoSecret
Passes(r, i) == Ok(i, message[r], MasterOf(r), args[r].build, args[r].pair)

LEMMA ChecksAre ==
  ASSUME NEW r
  PROVE  LET m == message[r]
         IN  /\ Passes(r, 1) <=> m.image_hash = MasterOf(r).file
             /\ Passes(r, 2) <=> (args[r].build = "classic" => ~IsHybrid(m))
             /\ Passes(r, 3) <=>
                  (args[r].build = "pq" => (IsHybrid(m) <=> args[r].pair # NoPair))
             /\ Passes(r, 4) <=>
                  m.signature = Tag(Subkey("mac", MasterOf(r), SecretFor(r)),
                                    m.encrypted_message, m.image_hash, m.timestamp)
             /\ Passes(r, 5) <=>
                  /\ m.encrypted_message # Rot
                  /\ m.encrypted_message.key = Subkey("enc", MasterOf(r), SecretFor(r))
  BY DEF Passes, Ok, Checks, Authentic, Verifies, Decrypts, DecryptsWithSubkey, SecretFor

(* Whoever has a message and an image has everything in its set. *)
Equipped(r) ==
  /\ r \in Called /\ message[r] # NoMessage /\ seen[r] \in Photo /\ Provenance(message[r])
LEMMA ReceiverParts ==
  ASSUME TypeOK, NEW r \in Receiver, Equipped(r)
  PROVE  /\ args[r] \in Args
         /\ MasterOf(r) \in Master /\ MasterOf(r).file = seen[r]
         /\ MasterOf(r).witness = Witness[seen[r], args[r].config]
<1>1. args[r] \in Args
  BY ExchangeAssumption DEF Equipped, TypeOK, Called, args, ExchangeAssumption
<1>2. args[r].config \in Config /\ seen[r] \in Photo
  BY <1>1 DEF Args, Equipped
<1> QED BY <1>1, <1>2, MasterShape DEF MasterOf

LEMMA SecretIsKnown ==
  ASSUME TypeOK, SendersTell, NEW r \in Receiver, Equipped(r), Passes(r, 2), Passes(r, 3)
  PROVE  /\ SecretFor(r) \in Secrets
         /\ ~IsHybrid(message[r]) => SecretFor(r) = NoSecret
         /\ IsHybrid(message[r]) =>
              /\ args[r].build = "pq" /\ args[r].pair \in KeyPair
              /\ \/ SecretFor(r) = SharedSecret(args[r].pair, "implicit_rejection")
                 \/ \E s \in Sender :
                      /\ message[s] # NoMessage
                      /\ message[r].ntru_ciphertext = message[s].ntru_ciphertext
                      /\ args[s].pair = args[r].pair
                      /\ SecretFor(r) = SharedSecret(args[s].pair, s)
<1> DEFINE ct == message[r].ntru_ciphertext
<1>1. CASE ~IsHybrid(message[r])
  BY <1>1, SecretsAre DEF SecretFor
<1>2. CASE IsHybrid(message[r])
  <2>1. args[r].build = "pq" /\ args[r].pair \in KeyPair /\ ct # NoCiphertext
    <3>1. args[r].build \in {"classic", "pq"} /\ args[r].pair \in KeyPair \cup {NoPair}
      BY ReceiverParts DEF Args, Build
    <3> QED BY <1>2, <3>1, ChecksAre DEF IsHybrid
  <2>2. SecretFor(r) = IF ct # Rot /\ ct.to = args[r].pair THEN ct.secret
                       ELSE SharedSecret(args[r].pair, "implicit_rejection")
    BY <1>2 DEF SecretFor, Decapsulated, SharedSecret
  <2>3. CASE ct # Rot /\ ct.to = args[r].pair
    <3>1. PICK s \in Sender : message[s] # NoMessage /\ ct = message[s].ntru_ciphertext
      BY <2>1, <2>3 DEF Equipped, Provenance
    <3>2. ct = Encapsulated(args[s].pair, s) /\ args[s].pair # NoPair /\ args[s] \in Args
      BY <2>1, <3>1, SealedParts DEF IsSealed
    <3>3. ct.to = args[s].pair /\ ct.secret = SharedSecret(args[s].pair, s)
      BY <3>2 DEF Encapsulated
    <3> QED BY <1>2, <2>1, <2>2, <2>3, <3>1, <3>3, SecretsAre
  <2>4. CASE ~(ct # Rot /\ ct.to = args[r].pair)
    BY <1>2, <2>1, <2>2, <2>4, SecretsAre
  <2> QED BY <2>3, <2>4
<1> QED BY <1>1, <1>2

(* A message that passes the first four checks is one sender's, field for  *)
(* field, under this receiver's key and secret.                            *)
Matches(r, s) ==
  /\ message[s] # NoMessage /\ message[r] = message[s]
  /\ MasterOf(r) = MasterOf(s) /\ SecretFor(r) = SecretOf(args[s].pair, s)
LEMMA MacBinds ==
  ASSUME TypeOK, SendersTell, NEW r \in Receiver, Equipped(r),
         \A i \in 1 .. 4 : Passes(r, i)
  PROVE  \E s \in Sender : Matches(r, s) /\ Entitled(r, s) /\ Passes(r, 5)
<1> DEFINE m == message[r]
           key == Subkey("mac", MasterOf(r), SecretFor(r))
<1>1. /\ Passes(r, 1) /\ Passes(r, 2) /\ Passes(r, 3) /\ Passes(r, 4)
  OBVIOUS
<1>2. /\ MasterOf(r) \in Master /\ SecretFor(r) \in Secrets /\ m.image_hash \in Photo
      /\ m.signature = Tag(key, m.encrypted_message, m.image_hash, m.timestamp)
      /\ m.image_hash = MasterOf(r).file
  BY <1>1, ChecksAre, SecretIsKnown, ReceiverParts DEF Equipped
<1>3. m.timestamp \in Nat \cup {Rot} /\ m.encrypted_message \in Bodies \cup {Rot}
  <2>1. ASSUME NEW s \in Sender, message[s] # NoMessage
        PROVE  message[s].timestamp \in Nat /\ message[s].encrypted_message \in Bodies
    <3>1. /\ IsSealed(message[s], s, MasterOf(s), args[s].pair, time[s])
          /\ time[s] \in Nat /\ MasterOf(s) \in Master /\ args[s] \in Args
      BY <2>1, SealedParts
    <3>2. SecretOf(args[s].pair, s) \in Secrets
      BY <3>1, SecretsAre DEF SecretOf, Args
    <3>3. Subkey("enc", MasterOf(s), SecretOf(args[s].pair, s)) \in Subkeys
      BY <3>1, <3>2, SubkeysAre
    <3> QED BY <3>1, <3>3 DEF IsSealed, Bodies
  <2> QED BY <2>1 DEF Equipped, Provenance
<1>4. m.signature # Rot
  <2>1. key \in Subkeys
    BY <1>2, SubkeysAre
  <2>2. Tag(key, m.encrypted_message, m.image_hash, m.timestamp) \in Tags
    BY <1>2, <1>3, <2>1 DEF Tag, Tags
  <2> QED BY <1>2, <2>2, ExchangeAssumption DEF ExchangeAssumption
<1>5. PICK s \in Sender : message[s] # NoMessage /\ m.signature = message[s].signature
  BY <1>4 DEF Equipped, Provenance
<1> DEFINE n == message[s]
           secret == SecretOf(args[s].pair, s)
<1>6. /\ IsSealed(n, s, MasterOf(s), args[s].pair, time[s])
      /\ args[s] \in Args /\ MasterOf(s).file = seen[s] /\ seen[s] \in Photo
      /\ MasterOf(s).witness = Witness[seen[s], args[s].config]
  BY <1>5, SealedParts
<1>7. /\ m.encrypted_message = n.encrypted_message
      /\ m.image_hash = n.image_hash /\ m.timestamp = n.timestamp
      /\ MasterOf(r) = MasterOf(s) /\ SecretFor(r) = secret
  <2>1. Tag(key, m.encrypted_message, m.image_hash, m.timestamp)
          = Tag(Subkey("mac", MasterOf(s), secret), n.encrypted_message, n.image_hash, n.timestamp)
    BY <1>2, <1>5, <1>6 DEF IsSealed
  <2>2. /\ key = Subkey("mac", MasterOf(s), secret)
        /\ m.encrypted_message = n.encrypted_message
        /\ m.image_hash = n.image_hash /\ m.timestamp = n.timestamp
    <3> HIDE DEF key, secret, m, n
    <3> QED BY <2>1 DEF Tag
  <2>3. [label |-> "mac", master |-> MasterOf(r), secret |-> SecretFor(r)]
          = [label |-> "mac", master |-> MasterOf(s), secret |-> secret]
    BY <2>2, SubkeyShape
  <2> HIDE DEF secret, m, n
  <2> QED BY <2>2, <2>3
<1>8. /\ m.ntru_ciphertext = n.ntru_ciphertext
      /\ IF args[s].pair = NoPair THEN ~IsHybrid(m)
         ELSE IsHybrid(m) /\ args[r].build = "pq" /\ args[r].pair = args[s].pair
  <2>1. CASE ~IsHybrid(m)
    <3>1. secret = NoSecret
      BY <1>1, <1>7, <2>1, SecretIsKnown
    <3>2. args[s].pair = NoPair
      BY <3>1, SecretsDiffer DEF SecretOf
    <3> QED BY <1>6, <2>1, <3>2 DEF IsHybrid, IsSealed
  <2>2. CASE IsHybrid(m)
    <3>1. SecretFor(r) # NoSecret
      BY <1>1, <2>2, SecretIsKnown, SecretsDiffer
    <3>2. args[s].pair # NoPair /\ SecretFor(r) = SharedSecret(args[s].pair, s)
      BY <1>7, <3>1 DEF SecretOf
    <3>3. SecretFor(r) # SharedSecret(args[r].pair, "implicit_rejection")
      BY <3>2, SecretsDiffer, ExchangeAssumption DEF ExchangeAssumption
    <3>4. PICK t \in Sender :
            /\ message[t] # NoMessage /\ m.ntru_ciphertext = message[t].ntru_ciphertext
            /\ args[t].pair = args[r].pair
            /\ SecretFor(r) = SharedSecret(args[t].pair, t)
      BY <1>1, <2>2, <3>3, SecretIsKnown
    <3>5. t = s
      <4>1. SharedSecret(args[t].pair, t) = SharedSecret(args[s].pair, s)
        BY <3>2, <3>4
      <4> QED BY <4>1, SecretsDiffer
    <3> QED BY <1>1, <2>2, <3>2, <3>4, <3>5, SecretIsKnown
  <2> QED BY <2>1, <2>2
<1>9. m = n
  <2>1. m = NewMessage(m.timestamp, m.image_hash, m.ntru_ciphertext, m.signature, m.encrypted_message)
    BY DEF Equipped, Provenance
  <2>2. n = NewMessage(n.timestamp, n.image_hash, n.ntru_ciphertext, n.signature, n.encrypted_message)
    BY <1>6 DEF IsSealed
  <2>3. /\ m.timestamp = n.timestamp /\ m.image_hash = n.image_hash
        /\ m.ntru_ciphertext = n.ntru_ciphertext /\ m.signature = n.signature
        /\ m.encrypted_message = n.encrypted_message
    BY <1>5, <1>7, <1>8
  <2> HIDE DEF m, n
  <2> QED BY <2>1, <2>2, <2>3
<1>10. Matches(r, s)
  BY <1>5, <1>7, <1>9 DEF Matches
<1>11. Entitled(r, s)
  <2>1. seen[r] = seen[s] /\ seen[r] # NoPhoto
    BY <1>6, <1>7, ReceiverParts, ExchangeAssumption DEF ExchangeAssumption
  <2>2. Witness[seen[r], args[r].config] = Witness[seen[s], args[s].config]
    BY <1>6, <1>7, ReceiverParts
  <2>3. IF args[s].pair = NoPair THEN args[r].build = "pq" => args[r].pair = NoPair
        ELSE args[r].build = "pq" /\ args[r].pair = args[s].pair
    BY <1>1, <1>8, ChecksAre
  <2> QED BY <1>5, <1>9, <2>1, <2>2, <2>3 DEF Entitled, Equipped
<1>12. Passes(r, 5)
  <2>1. n.encrypted_message.key = Subkey("enc", MasterOf(r), SecretFor(r))
    <3>1. n.encrypted_message.key = Subkey("enc", MasterOf(s), secret)
      BY <1>6, SealedBody
    <3> HIDE DEF secret, n
    <3> QED BY <1>7, <3>1
  <2>2. n.encrypted_message \in Bodies
    <3>1. SecretOf(args[s].pair, s) \in Secrets /\ MasterOf(s) \in Master
      BY <1>2, <1>7
    <3>2. Subkey("enc", MasterOf(s), SecretOf(args[s].pair, s)) \in Subkeys
      BY <3>1, SubkeysAre
    <3> QED BY <1>6, <3>2, SealedBody DEF Bodies
  <2> QED BY <1>7, <2>1, <2>2, ChecksAre, ExchangeAssumption DEF ExchangeAssumption
<1> QED BY <1>10, <1>11, <1>12

(* And whoever is entitled passes all five. *)
LEMMA EntitledPasses ==
  ASSUME TypeOK, SendersTell, NEW r \in Receiver, Equipped(r),
         NEW s \in Sender, Entitled(r, s)
  PROVE  (\A i \in 1 .. 5 : Passes(r, i)) /\ message[r].encrypted_message.plaintext = s
<1> DEFINE m == message[r]
           pair == args[s].pair
           secret == SecretOf(pair, s)
<1>1. m = message[s] /\ message[s] # NoMessage
  BY DEF Entitled
<1>2. /\ IsSealed(m, s, MasterOf(s), pair, time[s])
      /\ args[s] \in Args /\ MasterOf(s).file = seen[s] /\ MasterOf(s) \in Master
      /\ MasterOf(s).witness = Witness[seen[s], args[s].config]
  BY <1>1, SealedParts
<1>3. MasterOf(r) = MasterOf(s)
  BY DEF Entitled, MasterOf, MasterKey
<1>4. IsHybrid(m) <=> pair # NoPair
  <2>1. DOMAIN Encapsulated(pair, s) # DOMAIN NoCiphertext
    BY DEF Encapsulated, NoCiphertext
  <2>2. Encapsulated(pair, s) # NoCiphertext
    BY <2>1
  <2> QED BY <1>2, <2>2 DEF IsSealed, IsHybrid
<1>5. SecretFor(r) = secret
  <2>1. CASE pair = NoPair
    BY <1>4, <2>1 DEF SecretFor, SecretOf
  <2>2. CASE pair # NoPair
    <3>1. m.ntru_ciphertext = Encapsulated(pair, s) /\ args[r].pair = pair /\ pair \in KeyPair
      BY <1>2, <2>2 DEF IsSealed, Entitled, Args
    <3>2. Encapsulated(pair, s) # Rot
      BY <3>1, ExchangeAssumption DEF ExchangeAssumption
    <3>3. Encapsulated(pair, s).to = pair /\ Encapsulated(pair, s).secret = SharedSecret(pair, s)
      BY DEF Encapsulated
    <3> QED BY <1>4, <2>2, <3>1, <3>2, <3>3 DEF SecretFor, SecretOf, Decapsulated
  <2> QED BY <2>1, <2>2
<1>6. args[r].build \in {"classic", "pq"}
  BY ReceiverParts DEF Args, Build
<1>7. Passes(r, 1) /\ Passes(r, 2) /\ Passes(r, 3) /\ Passes(r, 4)
  <2>1. Passes(r, 1)
    BY <1>2, <1>3, ChecksAre DEF IsSealed
  <2>2. Passes(r, 2) /\ Passes(r, 3)
    BY <1>4, <1>6, ChecksAre DEF Entitled
  <2>3. Passes(r, 4)
    BY <1>2, <1>3, <1>5, ChecksAre DEF IsSealed
  <2> QED BY <2>1, <2>2, <2>3
<1>8. \A i \in 1 .. 4 : Passes(r, i)
  <2>1. \A i \in 1 .. 4 : i \in {1, 2, 3, 4}
    OBVIOUS
  <2> QED BY <1>7, <2>1
<1>9. Passes(r, 5)
  BY <1>8, MacBinds
<1>10. m.encrypted_message.plaintext = s
  BY <1>2, SealedBody
<1>11. \A i \in 1 .. 5 : i \in 1 .. 4 \/ i = 5
  OBVIOUS
<1> QED BY <1>8, <1>9, <1>10, <1>11

-----------------------------------------------------------------------------
(* Tokens of the file, and what a receiver makes of them. *)

LEMMA SerializedShape ==
  ASSUME NEW m
  PROVE  /\ DOMAIN Serialized(m) = 1 .. 6 /\ Len(Serialized(m)) = 6
         /\ Serialized(m)[1] = Token("version", MESSAGE_VERSION)
         /\ Serialized(m)[2] = Token("timestamp", m.timestamp)
         /\ Serialized(m)[3] = Token("hash", m.image_hash)
         /\ Serialized(m)[4] = Token("ntru", m.ntru_ciphertext)
         /\ Serialized(m)[5] = Token("signature", m.signature)
         /\ Serialized(m)[6] = Token("body", m.encrypted_message)
         /\ Serialized(m) = [i \in 1 .. 6 |-> Serialized(m)[i]]
  BY DEF Serialized

LEMMA SpecialTokens ==
  /\ Hole \in AnyToken /\ Broken \in AnyToken /\ Absent[1] \in AnyToken
  /\ \A i \in 1 .. MessageLen : Token(FieldName[i], Rot) \in AnyToken
<1> DEFINE Sealed == {Serialized(x[1])[x[2]] : x \in SealedMessages \X (1 .. MessageLen)}
           Damaged == {Token(FieldName[i], Rot) : i \in 1 .. MessageLen}
<1>1. AnyToken = {Hole, Broken, Absent[1]} \cup Damaged \cup Sealed
  BY DEF AnyToken
<1> HIDE DEF Sealed
<1> QED BY <1>1

LEMMA SealedTokens ==
  ASSUME NEW m \in SealedMessages
  PROVE  /\ \A i \in 1 .. MessageLen : Serialized(m)[i] \in AnyToken
         /\ Serialized(m) \in Seq(AnyToken) /\ Len(Serialized(m)) = MessageLen
<1>1. ASSUME NEW i \in 1 .. MessageLen PROVE Serialized(m)[i] \in AnyToken
  <2>1. /\ <<m, i>> \in SealedMessages \X (1 .. MessageLen)
        /\ Serialized(m)[i] = Serialized(<<m, i>>[1])[<<m, i>>[2]]
    OBVIOUS
  <2> DEFINE Sealed == {Serialized(x[1])[x[2]] : x \in SealedMessages \X (1 .. MessageLen)}
  <2>2. Serialized(m)[i] \in Sealed
    BY <2>1
  <2> HIDE DEF Sealed
  <2> QED BY <2>2 DEF AnyToken, Sealed
<1>2. /\ Serialized(m) = [i \in 1 .. 6 |-> Serialized(m)[i]] /\ Len(Serialized(m)) = 6
  BY SerializedShape
<1>3. Serialized(m) \in [1 .. 6 -> AnyToken]
  BY <1>1, <1>2 DEF MessageLen
<1> QED BY <1>1, <1>2, <1>3, SeqDef DEF MessageLen

LEMMA SealedIsSealed ==
  ASSUME TypeOK, SendersTell, NEW s \in Sender, message[s] # NoMessage
  PROVE  message[s] \in SealedMessages
<1> DEFINE x == <<s, MasterOf(s), args[s].pair, time[s]>>
<1>1. /\ MasterOf(s) \in Master /\ args[s].pair \in KeyPair \cup {NoPair} /\ time[s] \in Nat
  BY SealedParts DEF Args
<1>2. x \in Sender \X Master \X (KeyPair \cup {NoPair}) \X Nat
  BY <1>1
<1>3. message[s] = SealedMessage(x[1], x[2], x[3], x[4], x[4])
  BY DEF SendersTell, SealedBy
<1> QED BY <1>2, <1>3 DEF SealedMessages

(* What kind of token stands where; none is that of an absent file. *)
LEMMA TokenKinds ==
  ASSUME NEW i \in 1 .. MessageLen, NEW t, TokenAt(t, i)
  PROVE  /\ t \in {Hole, Broken} \/ t = Token(FieldName[i], t.of)
         /\ t # Absent[1]
         /\ t \notin {Hole, Broken} =>
              /\ t.field = FieldName[i]
              /\ t.of = Rot \/ \E s \in Sender : message[s] # NoMessage
                                                   /\ t = Serialized(message[s])[i]
<1>1. i \in {1, 2, 3, 4, 5, 6}
  BY DEF MessageLen
<1>2. /\ \A n, v : Token(n, v).field = n /\ Token(n, v).of = v
      /\ Hole.field = "hole" /\ Broken.field = "broken" /\ Absent[1].field = "absent"
  BY DEF Token, Hole, Broken, Absent
<1>3. /\ FieldName[1] = "version" /\ FieldName[2] = "timestamp" /\ FieldName[3] = "hash"
      /\ FieldName[4] = "ntru" /\ FieldName[5] = "signature" /\ FieldName[6] = "body"
  BY DEF FieldName
<1>4. FieldName[i] \notin {"hole", "broken", "absent"}
  BY <1>1, <1>3
<1>5. ASSUME NEW s \in Sender, message[s] # NoMessage, t = Serialized(message[s])[i]
      PROVE  t = Token(FieldName[i], t.of)
  <2>1. \E v : t = Token(FieldName[i], v)
    BY <1>1, <1>3, <1>5, SerializedShape
  <2> QED BY <1>2, <2>1
<1>6. CASE t \in {Hole, Broken}
  BY <1>2, <1>6
<1>7. CASE t = Token(FieldName[i], Rot)
  BY <1>2, <1>4, <1>7
<1>8. CASE t \notin {Hole, Broken, Token(FieldName[i], Rot)}
  <2>1. PICK s \in Sender : message[s] # NoMessage /\ t = Serialized(message[s])[i]
    BY <1>8 DEF TokenAt
  <2>2. t = Token(FieldName[i], t.of)
    BY <1>5, <2>1
  <2> QED BY <1>2, <1>4, <1>8, <2>1, <2>2
<1> QED BY <1>6, <1>7, <1>8

LEMMA DamageRots ==
  ASSUME NEW i \in 1 .. MessageLen, NEW t, TokenAt(t, i), NEW u \in DamagedForms(t)
  PROVE  u \in {Broken, Token(FieldName[i], Rot)}
<1>1. t \in {Hole, Broken} \/ (t \notin {Hole, Broken} /\ t.field = FieldName[i])
  BY TokenKinds
<1>2. /\ Hole.field = "hole" /\ Broken.field = "broken"
  BY DEF Hole, Broken
<1> QED BY <1>1, <1>2 DEF DamagedForms

LEMMA ParsedHasProvenance ==
  ASSUME NEW data, NEW hybrid, Parses(data, hybrid), \A i \in 1 .. Len(data) : TokenAt(data[i], i)
  PROVE  Provenance(Parsed(data)) /\ Parsed(data) # NoMessage
<1> DEFINE m == Parsed(data)
           From(v, i) == v = Rot \/ \E s \in Sender :
                           message[s] # NoMessage /\ v = Serialized(message[s])[i].of
<1>1. ASSUME NEW i \in 1 .. MessageLen, data[i] # Hole
      PROVE  From(data[i].of, i)
  <2>1. TokenAt(data[i], i) /\ data[i] # Broken
    BY DEF Parses
  <2> QED BY <1>1, <2>1, TokenKinds
<1>2. data[5] # Hole /\ data[6] # Hole
  BY DEF Parses
<1>3. 2 \in 1 .. MessageLen /\ 4 \in 1 .. MessageLen /\ 5 \in 1 .. MessageLen /\ 6 \in 1 .. MessageLen
  BY DEF MessageLen
<1>4. /\ m = NewMessage(m.timestamp, m.image_hash, m.ntru_ciphertext, m.signature, m.encrypted_message)
      /\ m.timestamp = Rot \/ (data[2] # Hole /\ m.timestamp = data[2].of)
      /\ m.ntru_ciphertext = NoCiphertext \/ (data[4] # Hole /\ m.ntru_ciphertext = data[4].of)
      /\ m.signature = data[5].of /\ m.encrypted_message = data[6].of
  BY DEF Parsed, NewMessage
<1> HIDE DEF m
<1>5. m # NoMessage
  BY <1>4, NewIsMessage
<1>6. \A s \in Sender :
        /\ Serialized(message[s])[2].of = message[s].timestamp
        /\ Serialized(message[s])[4].of = message[s].ntru_ciphertext
        /\ Serialized(message[s])[5].of = message[s].signature
        /\ Serialized(message[s])[6].of = message[s].encrypted_message
  <2> TAKE s \in Sender
  <2> DEFINE n == message[s]
  <2>1. \A f, v : Token(f, v).of = v
    BY DEF Token
  <2> HIDE DEF n
  <2>2. /\ Serialized(n)[2] = Token("timestamp", n.timestamp)
        /\ Serialized(n)[4] = Token("ntru", n.ntru_ciphertext)
        /\ Serialized(n)[5] = Token("signature", n.signature)
        /\ Serialized(n)[6] = Token("body", n.encrypted_message)
    BY SerializedShape
  <2>3. /\ Serialized(n)[2].of = n.timestamp /\ Serialized(n)[4].of = n.ntru_ciphertext
        /\ Serialized(n)[5].of = n.signature /\ Serialized(n)[6].of = n.encrypted_message
    BY <2>1, <2>2
  <2> QED BY <2>3 DEF n
<1>7. m.timestamp = Rot \/ From(m.timestamp, 2)
  BY <1>1, <1>3, <1>4
<1>8. m.ntru_ciphertext = NoCiphertext \/ From(m.ntru_ciphertext, 4)
  BY <1>1, <1>3, <1>4
<1>9. From(m.signature, 5) /\ From(m.encrypted_message, 6)
  BY <1>1, <1>2, <1>3, <1>4
<1>10. Provenance(m)
  BY <1>4, <1>6, <1>7, <1>8, <1>9 DEF Provenance
<1> QED BY <1>5, <1>10 DEF m

-----------------------------------------------------------------------------
(* The invariant holds at first. *)

LEMMA ScenarioParts ==
  ASSUME scenario \in Scenario
  PROVE  /\ Called \subseteq Process /\ \A p \in Called : args[p] \in Args
         /\ scenario.photos \subseteq Photo /\ scenario.files \subseteq {Absent, <<Broken>>}
         /\ scenario.edits \in Nat /\ scenario.ticks \in Nat /\ scenario.damage \in Nat
         /\ Sender \cap Receiver = {} /\ Nobody \notin Sender
  BY ExchangeAssumption DEF ExchangeAssumption, Called, args, Process

LEMMA InvInit == Init => ExchangeInv
<1> SUFFICES ASSUME Init PROVE ExchangeInv
  OBVIOUS
<1>0. scenario \in Scenario
  BY DEF Init
<1>1. TypeOK
  BY <1>0, ScenarioParts DEF Init, TypeOK, Process, SenderState, ReceiverState, SenderEnd,
     ReceiverEnd, MessageLen
<1>2. /\ file \in Seq(AnyToken) /\ Len(file) = 1
      /\ file = Absent \/ \A i \in 1 .. Len(file) : TokenAt(file[i], i)
  <2>1. Broken \in AnyToken /\ Absent[1] \in AnyToken
    BY SpecialTokens
  <2>2. CASE file = Absent
    BY <2>1, <2>2 DEF Absent
  <2>3. CASE file = <<Broken>>
    BY <2>1, <2>3 DEF TokenAt
  <2> QED BY <1>0, <2>2, <2>3, ScenarioParts DEF Init
<1>3. \A r \in Receiver : buffer[r] \in Seq(AnyToken) /\ Len(buffer[r]) = 0
  BY EmptySeq DEF Init, Empty
<1>4. StoresTell
  <2>1. buffer \in [Receiver -> Seq(AnyToken)]
    BY <1>3 DEF Init
  <2> QED BY <1>2, <1>3, <2>1
      DEF Init, StoresTell, SenderState, SenderEnd, ReceiverState, ReceiverEnd, MessageLen
<1>5. SendersTell
  BY DEF Init, SendersTell, Process
<1>6. TokensTell
  BY <1>2, <1>3 DEF TokensTell
<1>7. ReceiversTell
  BY DEF Init, ReceiversTell, Process
<1>8. OpensExactlyWhenEntitled /\ MacSpeaksFirst
  BY <1>0, ScenarioParts DEF Init, OpensExactlyWhenEntitled, MacSpeaksFirst, Entitled, Process
<1> QED BY <1>1, <1>4, <1>5, <1>6, <1>7, <1>8 DEF ExchangeInv

-----------------------------------------------------------------------------
(* What a step leaves alone. *)

LEMMA ScenarioStays ==
  ASSUME [Next]_vars
  PROVE  scenario' = scenario /\ args' = args /\ Called' = Called
<1>1. scenario' = scenario
  BY DEF Next, vars, EditPhoto, Tick, Damage, Encryption, Decryption, Interrupt, RefusePublicKey,
     Derive, Authenticate, Assemble, Create, Write, Open, Read, Parse, Decrypt
<1> QED BY <1>1 DEF args, Called

(* A message, once sealed, stays, and what it was sealed with too. *)
LEMMA SealedStays ==
  ASSUME ExchangeInv, [Next]_vars, NEW s \in Sender, message[s] # NoMessage
  PROVE  message'[s] = message[s] /\ seen'[s] = seen[s] /\ time'[s] = time[s]
<1>0. /\ pc[s] \notin {"start", "derived", "assemble"} /\ s \in Process /\ s \notin Receiver
      /\ message = [p \in Process |-> message[p]]
      /\ seen \in [Process -> Photo \cup {NoPhoto}]
      /\ DOMAIN time = Sender
  BY ScenarioParts DEF ExchangeInv, SendersTell, StoresTell, TypeOK, Process
<1>1. CASE UNCHANGED <<message, seen, time>>
  BY <1>1
<1>2. ASSUME NEW p \in Process, Derive(p)
      PROVE  message'[s] = message[s] /\ seen'[s] = seen[s] /\ time'[s] = time[s]
  BY <1>0, <1>2 DEF Derive, Goto
<1>3. ASSUME NEW p \in Sender, Authenticate(p) \/ Assemble(p)
      PROVE  message'[s] = message[s] /\ seen'[s] = seen[s] /\ time'[s] = time[s]
  BY <1>0, <1>3 DEF Authenticate, Assemble
<1>4. ASSUME NEW r \in Receiver, Parse(r)
      PROVE  message'[s] = message[s] /\ seen'[s] = seen[s] /\ time'[s] = time[s]
  BY <1>0, <1>4 DEF Parse
<1>5. ASSUME NEW p \in Sender, Encryption(p) \/ Interrupt(p)
      PROVE  \/ UNCHANGED <<message, seen, time>>
             \/ Derive(p) \/ Authenticate(p) \/ Assemble(p)
  BY <1>5 DEF Encryption, Interrupt, RefusePublicKey, Create, Write
<1>6. ASSUME NEW r \in Receiver, Decryption(r)
      PROVE  \/ UNCHANGED <<message, seen, time>> \/ Derive(r) \/ Parse(r)
  BY <1>6 DEF Decryption, Open, Read, Decrypt
<1>7. CASE EditPhoto \/ Tick \/ Damage \/ UNCHANGED vars
  BY <1>1, <1>7 DEF EditPhoto, Tick, Damage, vars
<1> QED BY <1>1, <1>2, <1>3, <1>4, <1>5, <1>6, <1>7 DEF Next, Process

LEMMA ProvenanceStays ==
  ASSUME ExchangeInv, [Next]_vars
  PROVE  /\ \A m : Provenance(m) => Provenance(m)'
         /\ \A t, i : TokenAt(t, i) => TokenAt(t, i)'
         /\ \A s \in Sender : message[s] # NoMessage => SealedBy(s, message[s])'
<1>1. \A s \in Sender : message[s] # NoMessage =>
        message'[s] = message[s] /\ seen'[s] = seen[s] /\ time'[s] = time[s]
  BY SealedStays
<1>2. \A m : Provenance(m) => Provenance(m)'
  BY <1>1 DEF Provenance
<1>3. \A t, i : TokenAt(t, i) => TokenAt(t, i)'
  BY <1>1 DEF TokenAt
<1>4. \A s \in Sender : message[s] # NoMessage => SealedBy(s, message[s])'
  BY <1>1, ScenarioStays DEF ExchangeInv, SendersTell, SealedBy, MasterOf
<1> QED BY <1>2, <1>3, <1>4

-----------------------------------------------------------------------------
(* Tokens keep their places: in the file, in a buffer, from one to the     *)
(* other.                                                                  *)

FileIsThere ==
  file \in Seq(AnyToken) /\ Len(file) <= MessageLen /\ \A i \in 1 .. Len(file) : TokenAt(file[i], i)
FileTells == file = Absent \/ \A i \in 1 .. Len(file) : TokenAt(file[i], i)
BufferTells(r) ==
  buffer[r] \in Seq(AnyToken) /\ Len(buffer[r]) <= MessageLen
  /\ \A i \in 1 .. Len(buffer[r]) : TokenAt(buffer[r][i], i)

LEMMA TokensAreThere ==
  ASSUME file \in Seq(AnyToken), \A i \in 1 .. Len(file) : TokenAt(file[i], i)
  PROVE  file # Absent
<1> SUFFICES ASSUME file = Absent PROVE FALSE
  OBVIOUS
<1>1. Len(file) = 1 /\ file[1] = Absent[1]
  BY DEF Absent
<1>2. TokenAt(Absent[1], 1)
  BY <1>1
<1>3. 1 \in 1 .. MessageLen
  BY DEF MessageLen
<1> QED BY <1>2, <1>3, TokenKinds

LEMMA DamageStep ==
  ASSUME ExchangeInv, Damage
  PROVE  FileIsThere'
<1>1. PICK i \in 1 .. Len(file) : \E token \in DamagedForms(file[i]) :
        file' = [file EXCEPT ![i] = token]
  BY DEF Damage
<1>2. PICK token \in DamagedForms(file[i]) : file' = [file EXCEPT ![i] = token]
  BY <1>1
<1>3. /\ file \in Seq(AnyToken) /\ Len(file) \in Nat /\ Len(file) <= MessageLen
      /\ \A j \in 1 .. Len(file) : TokenAt(file[j], j)
      /\ i \in 1 .. MessageLen
  <2>1. file \in Seq(AnyToken) /\ Len(file) <= MessageLen /\ Len(file) \in Nat
    BY LenProperties DEF ExchangeInv, StoresTell
  <2> QED BY <2>1 DEF ExchangeInv, TokensTell, Damage, MessageLen
<1>4. token \in {Broken, Token(FieldName[i], Rot)}
  BY <1>3, DamageRots
<1>5. token \in AnyToken /\ TokenAt(token, i)
  BY <1>3, <1>4, SpecialTokens DEF TokenAt
<1>6. /\ file' \in Seq(AnyToken) /\ Len(file') = Len(file)
      /\ \A j \in 1 .. Len(file) : file'[j] = IF j = i THEN token ELSE file[j]
  BY <1>2, <1>3, <1>5, ExceptSeq
<1>7. \A j \in 1 .. Len(file') : TokenAt(file'[j], j)
  BY <1>3, <1>5, <1>6
<1>8. UNCHANGED message
  BY DEF Damage
<1>9. \A u, j : TokenAt(u, j) => TokenAt(u, j)'
  BY <1>8 DEF TokenAt
<1> QED BY <1>3, <1>6, <1>7, <1>9 DEF FileIsThere

LEMMA WriteStep ==
  ASSUME ExchangeInv, NEW s \in Sender, Write(s)
  PROVE  FileIsThere'
<1>1. PICK to \in offset[s] + 1 .. MessageLen :
        file' = Written(file, Serialized(message[s]), offset[s] + 1, to)
  BY DEF Write
<1> DEFINE from == offset[s] + 1
           data == Serialized(message[s])
           w == file'
<1>2. /\ file \in Seq(AnyToken) /\ Len(file) \in Nat /\ Len(file) <= MessageLen
      /\ \A j \in 1 .. Len(file) : TokenAt(file[j], j)
      /\ offset[s] \in Nat /\ to \in Nat /\ message[s] # NoMessage
  <2>1. file \in Seq(AnyToken) /\ Len(file) <= MessageLen /\ Len(file) \in Nat
    BY LenProperties DEF ExchangeInv, StoresTell
  <2>2. offset[s] \in Nat /\ to \in Nat
    BY DEF ExchangeInv, TypeOK, MessageLen
  <2> QED BY <2>1, <2>2 DEF ExchangeInv, TokensTell, SendersTell, Write
<1>3. data \in Seq(AnyToken) /\ Len(data) = MessageLen
  BY <1>2, SealedIsSealed, SealedTokens DEF ExchangeInv
<1>4. \A i \in 1 .. MessageLen : TokenAt(data[i], i)
  BY <1>2 DEF TokenAt
<1>5. /\ from \in 1 .. Len(data) /\ to \in from .. Len(data)
      /\ w = Written(file, data, from, to)
  BY <1>1, <1>2, <1>3 DEF MessageLen
<1> HIDE DEF from, data, w
<1>6. w \in Seq(AnyToken) /\ Covers(w, file, data, from, to)
  BY <1>2, <1>3, <1>5, SpecialTokens, WrittenProperties
<1>7. to <= MessageLen /\ from >= 1 /\ from \in Nat
  BY <1>2, <1>3, <1>5 DEF MessageLen, from
<1>8. Len(w) <= MessageLen
  BY <1>2, <1>6, <1>7 DEF Covers, MessageLen
<1>9. ASSUME NEW i \in 1 .. Len(w) PROVE TokenAt(w[i], i)
  <2>1. CASE i \in from .. to
    <3>1. w[i] = data[i] /\ i \in 1 .. MessageLen
      BY <1>2, <1>6, <1>7, <2>1 DEF Covers, MessageLen
    <3> QED BY <1>4, <3>1
  <2>2. CASE i \notin from .. to /\ i <= Len(file)
    <3>1. w[i] = file[i] /\ i \in 1 .. Len(file)
      BY <1>2, <1>6, <2>2 DEF Covers
    <3> QED BY <1>2, <3>1
  <2>3. CASE i \notin from .. to /\ ~(i <= Len(file))
    <3>1. w[i] = Hole
      BY <1>6, <2>3 DEF Covers
    <3> QED BY <3>1 DEF TokenAt
  <2> QED BY <2>1, <2>2, <2>3
<1>10. UNCHANGED message
  BY DEF Write
<1>11. \A u, j : TokenAt(u, j) => TokenAt(u, j)'
  BY <1>10 DEF TokenAt
<1> QED BY <1>6, <1>8, <1>9, <1>11 DEF FileIsThere, w

LEMMA ReadStep ==
  ASSUME ExchangeInv, NEW r \in Receiver, Read(r)
  PROVE  buffer' = [buffer EXCEPT ![r] = buffer'[r]] /\ BufferTells(r)'
<1>1. PICK k \in 1 .. MessageLen : buffer' = [buffer EXCEPT ![r] = ReadMore(file, @, k)]
  BY DEF Read
<1> DEFINE buf == buffer[r]
           more == ReadMore(file, buf, k)
<1>2. /\ file \in Seq(AnyToken) /\ Len(file) \in Nat /\ Len(file) <= MessageLen
      /\ buf \in Seq(AnyToken) /\ Len(buf) \in Nat /\ k \in Nat /\ Len(buf) < Len(file)
      /\ buffer \in [Receiver -> Seq(AnyToken)]
  <2>1. file \in Seq(AnyToken) /\ Len(file) <= MessageLen /\ buffer \in [Receiver -> Seq(AnyToken)]
    BY DEF ExchangeInv, StoresTell
  <2>2. Len(file) \in Nat /\ buf \in Seq(AnyToken) /\ Len(buf) \in Nat
    BY <2>1, LenProperties
  <2> QED BY <2>1, <2>2 DEF Read, AtEnd, MessageLen
<1>3. /\ \A j \in 1 .. Len(file) : TokenAt(file[j], j)
      /\ \A j \in 1 .. Len(buf) : TokenAt(buf[j], j)
  BY DEF ExchangeInv, TokensTell, ReceiversTell, Read
<1>4. more \in Seq(AnyToken) /\ Continues(more, file, buf, k)
  BY <1>2, ReadMoreProperties
<1> HIDE DEF more
<1>5. buffer'[r] = more /\ buffer' = [buffer EXCEPT ![r] = buffer'[r]]
  BY <1>1, <1>2 DEF more
<1>6. Len(more) <= MessageLen
  BY <1>2, <1>4 DEF Continues, MessageLen
<1>7. ASSUME NEW i \in 1 .. Len(more) PROVE TokenAt(more[i], i)
  <2>1. CASE i <= Len(buf)
    <3>1. more[i] = buf[i] /\ i \in 1 .. Len(buf)
      BY <1>2, <1>4, <2>1 DEF Continues
    <3> QED BY <1>3, <3>1
  <2>2. CASE ~(i <= Len(buf))
    <3>1. more[i] = file[i] /\ i \in 1 .. Len(file)
      BY <1>2, <1>4, <2>2 DEF Continues
    <3> QED BY <1>3, <3>1
  <2> QED BY <2>1, <2>2
<1>8. UNCHANGED message
  BY DEF Read
<1> QED BY <1>4, <1>5, <1>6, <1>7, <1>8 DEF TokenAt, BufferTells

LEMMA TokensNext ==
  ASSUME ExchangeInv, [Next]_vars
  PROVE  /\ TokensTell' /\ file' \in Seq(AnyToken) /\ Len(file') <= MessageLen
         /\ buffer' \in [Receiver -> Seq(AnyToken)]
         /\ \A r \in Receiver : Len(buffer'[r]) <= MessageLen
         /\ file # Absent => file' # Absent
<1> DEFINE FileGoal == /\ file' \in Seq(AnyToken) /\ Len(file') <= MessageLen /\ FileTells'
                       /\ file # Absent => file' # Absent
           BufferGoal == buffer' \in [Receiver -> Seq(AnyToken)]
                         /\ \A r \in Receiver : BufferTells(r)'
<1>0. /\ file \in Seq(AnyToken) /\ Len(file) <= MessageLen /\ FileTells
      /\ buffer \in [Receiver -> Seq(AnyToken)] /\ \A r \in Receiver : BufferTells(r)
  BY DEF ExchangeInv, StoresTell, TokensTell, FileTells, BufferTells
<1>1. \A t, i : TokenAt(t, i) => TokenAt(t, i)'
  BY ProvenanceStays
<1>2. UNCHANGED file => FileGoal
  BY <1>0, <1>1 DEF FileTells
<1>3. UNCHANGED buffer => BufferGoal
  BY <1>0, <1>1 DEF BufferTells
<1>4. file' = Empty => FileGoal
  <2> SUFFICES ASSUME file' = Empty PROVE FileGoal
    OBVIOUS
  <2>1. file' \in Seq(AnyToken) /\ Len(file') = 0 /\ Len(Absent) = 1
    BY EmptySeq DEF Empty, Absent
  <2> QED BY <2>1 DEF FileTells, MessageLen
<1>5. FileIsThere' => FileGoal
  <2> SUFFICES ASSUME FileIsThere' PROVE FileGoal
    OBVIOUS
  <2>1. file' # Absent
    <3> SUFFICES ASSUME file' = Absent PROVE FALSE
      OBVIOUS
    <3>1. Len(file') = 1 /\ file'[1] = Absent[1]
      BY DEF Absent
    <3>2. TokenAt(Absent[1], 1)'
      BY <3>1 DEF FileIsThere
    <3>3. /\ Absent[1].field = "absent" /\ Hole.field = "hole" /\ Broken.field = "broken"
          /\ Token(FieldName[1], Rot).field = "version"
      BY DEF Absent, Hole, Broken, Token, FieldName
    <3>4. PICK s \in Sender : Absent[1] = Serialized(message'[s])[1]
      BY <3>2, <3>3 DEF TokenAt
    <3>5. Serialized(message'[s])[1] = Token("version", MESSAGE_VERSION)
      BY SerializedShape
    <3>6. Token("version", MESSAGE_VERSION).field = "version"
      BY DEF Token
    <3> QED BY <3>3, <3>4, <3>5, <3>6
  <2> QED BY <2>1 DEF FileIsThere, FileTells
<1>6. ASSUME NEW r \in Receiver, Read(r) PROVE BufferGoal
  <2>1. /\ buffer' = [buffer EXCEPT ![r] = buffer'[r]] /\ BufferTells(r)'
    BY <1>6, ReadStep
  <2>2. \A q \in Receiver : q # r => buffer'[q] = buffer[q]
    BY <1>0, <2>1
  <2>3. \A q \in Receiver : q # r => BufferTells(q)'
    BY <1>0, <1>1, <2>2 DEF BufferTells
  <2>4. buffer' \in [Receiver -> Seq(AnyToken)]
    BY <1>0, <2>1 DEF BufferTells
  <2> QED BY <2>1, <2>3, <2>4
<1>7. ASSUME UNCHANGED <<file, buffer>> PROVE FileGoal /\ BufferGoal
  BY <1>2, <1>3, <1>7
<1>8. ASSUME Damage PROVE FileGoal /\ BufferGoal
  <2>1. UNCHANGED buffer
    BY <1>8 DEF Damage
  <2> QED BY <1>3, <1>5, <1>8, <2>1, DamageStep
<1>9. ASSUME NEW s \in Sender, Write(s) PROVE FileGoal /\ BufferGoal
  <2>1. UNCHANGED buffer
    BY <1>9 DEF Write
  <2> QED BY <1>3, <1>5, <1>9, <2>1, WriteStep
<1>10. ASSUME NEW s \in Sender, Create(s) PROVE FileGoal /\ BufferGoal
  <2>1. file' = Empty /\ UNCHANGED buffer
    BY <1>10 DEF Create
  <2> QED BY <1>3, <1>4, <2>1
<1>11. ASSUME NEW r \in Receiver, Read(r) PROVE FileGoal
  <2>1. UNCHANGED file
    BY <1>11 DEF Read, world
  <2> QED BY <1>2, <2>1
<1>12. ASSUME NEW s \in Sender, Encryption(s) \/ Interrupt(s)
       PROVE  UNCHANGED <<file, buffer>> \/ Create(s) \/ Write(s)
  BY <1>12 DEF Encryption, Interrupt, RefusePublicKey, Derive, Authenticate, Assemble, world
<1>13. ASSUME NEW r \in Receiver, Decryption(r)
       PROVE  UNCHANGED <<file, buffer>> \/ Read(r)
  BY <1>13 DEF Decryption, Open, Parse, Derive, Decrypt, world
<1>14. ASSUME EditPhoto \/ Tick \/ UNCHANGED vars PROVE UNCHANGED <<file, buffer>>
  BY <1>14 DEF EditPhoto, Tick, vars
<1> HIDE DEF FileGoal, BufferGoal
<1>15. FileGoal /\ BufferGoal
  BY <1>6, <1>7, <1>8, <1>9, <1>10, <1>11, <1>12, <1>13, <1>14 DEF Next
<1> QED BY <1>15 DEF FileGoal, BufferGoal, FileTells, BufferTells, TokensTell

-----------------------------------------------------------------------------
(* Types, and what each command knows. *)

ControlTells ==
  /\ pc \in [Process -> SenderState \cup ReceiverState]
  /\ \A s \in Sender : pc[s] \in SenderState
  /\ \A r \in Receiver : pc[r] \in ReceiverState
  /\ \A p \in Process : pc[p] # "failed" => p \in Called
ImagesTell ==
  /\ seen \in [Process -> Photo \cup {NoPhoto}]
  /\ \A p \in Process : \/ seen[p] = NoPhoto
                        \/ /\ p \in Called /\ seen[p] \in Photo
                           /\ Derives(seen[p], args[p].config)

LEMMA ControlNext == ASSUME ExchangeInv, [Next]_vars PROVE ControlTells'
<1>0. /\ ControlTells /\ Process = Sender \cup Receiver
      /\ \A s \in Sender, r \in Receiver : s # r
  BY ScenarioParts DEF ExchangeInv, TypeOK, StoresTell, ControlTells, Process
<1>1. Called' = Called
  BY ScenarioStays
<1>2. ASSUME UNCHANGED pc PROVE ControlTells'
  BY <1>0, <1>1, <1>2 DEF ControlTells
<1>3. ASSUME NEW p \in Process, NEW next, Goto(p, next), pc[p] # "failed",
             p \in Sender => next \in SenderState, p \in Receiver => next \in ReceiverState
      PROVE  ControlTells'
  BY <1>0, <1>1, <1>3 DEF ControlTells, Goto
<1> USE DEF SenderState, SenderEnd, ReceiverState, ReceiverEnd
<1>4. ASSUME NEW p \in Process, Derive(p) PROVE ControlTells'
  <2>1. pc[p] # "failed" /\ (Goto(p, "derived") \/ Goto(p, "failed"))
    BY <1>4 DEF Derive
  <2> QED BY <1>3, <2>1
<1>5. ASSUME NEW s \in Sender, Encryption(s) \/ Interrupt(s) PROVE ControlTells'
  <2>1. s \in Process /\ s \notin Receiver
    BY <1>0
  <2>2. CASE Derive(s)
    BY <1>4, <2>1, <2>2
  <2>3. CASE ~Derive(s)
    <3>1. pc[s] # "failed" /\ \E next \in SenderState : Goto(s, next)
      BY <1>5, <2>3
      DEF Encryption, Interrupt, RefusePublicKey, Authenticate, Assemble, Create, Write
    <3> QED BY <1>3, <2>1, <3>1
  <2> QED BY <2>2, <2>3
<1>6. ASSUME NEW r \in Receiver, Decryption(r) PROVE ControlTells'
  <2>1. r \in Process /\ r \notin Sender
    BY <1>0
  <2>2. CASE Derive(r)
    BY <1>4, <2>1, <2>2
  <2>3. CASE Read(r)
    BY <1>2, <2>3 DEF Read
  <2>4. CASE Decrypt(r)
    <3>1. pc[r] # "failed" /\ Goto(r, VerdictOn(message[r], MasterOf(r), args[r].build, args[r].pair))
      BY <2>4 DEF Decrypt
    <3>2. VerdictOn(message[r], MasterOf(r), args[r].build, args[r].pair) \in ReceiverState
      BY FirstFailureDecides
    <3> QED BY <1>3, <2>1, <3>1, <3>2
  <2>5. CASE Open(r) \/ Parse(r)
    <3>1. pc[r] # "failed" /\ \E next \in ReceiverState : Goto(r, next)
      BY <2>5 DEF Open, Parse
    <3> QED BY <1>3, <2>1, <3>1
  <2> QED BY <1>6, <2>2, <2>3, <2>4, <2>5 DEF Decryption
<1>7. ASSUME EditPhoto \/ Tick \/ Damage \/ UNCHANGED vars PROVE UNCHANGED pc
  BY <1>7 DEF EditPhoto, Tick, Damage, vars
<1> QED BY <1>2, <1>5, <1>6, <1>7 DEF Next

LEMMA ImagesNext == ASSUME ExchangeInv, [Next]_vars PROVE ImagesTell'
<1>0. ImagesTell
  BY DEF ExchangeInv, TypeOK, StoresTell, ImagesTell
<1>1. Called' = Called /\ args' = args
  BY ScenarioStays
<1>2. ASSUME UNCHANGED seen PROVE ImagesTell'
  BY <1>0, <1>1, <1>2 DEF ImagesTell
<1>3. ASSUME NEW p \in Process, Derive(p) PROVE ImagesTell'
  <2>1. CASE Derives(photo, args[p].config)
    <3>1. seen' = [seen EXCEPT ![p] = photo] /\ photo \in Photo /\ p \in Called
      BY <1>3, <2>1 DEF Derive, ExchangeInv, TypeOK, StoresTell
    <3> QED BY <1>0, <1>1, <2>1, <3>1 DEF ImagesTell
  <2>2. CASE ~Derives(photo, args[p].config)
    BY <1>2, <1>3, <2>2 DEF Derive
  <2> QED BY <2>1, <2>2
<1>4. ASSUME NEW s \in Sender, Encryption(s) \/ Interrupt(s)
      PROVE  UNCHANGED seen \/ Derive(s)
  BY <1>4 DEF Encryption, Interrupt, RefusePublicKey, Authenticate, Assemble, Create, Write
<1>5. ASSUME NEW r \in Receiver, Decryption(r) PROVE UNCHANGED seen \/ Derive(r)
  BY <1>5 DEF Decryption, Open, Read, Parse, Decrypt
<1>6. ASSUME EditPhoto \/ Tick \/ Damage \/ UNCHANGED vars PROVE UNCHANGED seen
  BY <1>6 DEF EditPhoto, Tick, Damage, vars
<1> QED BY <1>2, <1>3, <1>4, <1>5, <1>6 DEF Next, Process

LEMMA TypesNext == ASSUME ExchangeInv, [Next]_vars PROVE TypeOK' /\ StoresTell'
<1> DEFINE Message == message = [p \in Process |-> message[p]]
           World == /\ photo \in Photo /\ scenario \in Scenario
                    /\ edits \in 0 .. scenario.edits /\ clock \in 0 .. scenario.ticks
                    /\ damage \in 0 .. scenario.damage
                    /\ time \in [Sender -> (0 .. clock) \cup {NoTime}]
                    /\ offset \in [Sender -> 0 .. MessageLen]
                    /\ opened \in [Receiver -> Sender \cup {Nobody}]
           Goal == World' /\ Message'
<1>0. World /\ Message
  BY DEF ExchangeInv, TypeOK, StoresTell
<1>1. /\ scenario.edits \in Nat /\ scenario.ticks \in Nat /\ scenario.damage \in Nat
  BY <1>0, ScenarioParts
<1>2. ASSUME EditPhoto PROVE Goal
  BY <1>0, <1>1, <1>2 DEF EditPhoto
<1>3. ASSUME Tick PROVE Goal
  BY <1>0, <1>1, <1>3 DEF Tick
<1>4. ASSUME Damage PROVE Goal
  BY <1>0, <1>1, <1>4 DEF Damage
<1>5. ASSUME NEW s \in Sender, Authenticate(s) PROVE Goal
  BY <1>0, <1>1, <1>5 DEF Authenticate, world
<1>6. ASSUME NEW s \in Sender, Assemble(s) PROVE Goal
  BY <1>0, <1>6 DEF Assemble, world
<1>7. ASSUME NEW s \in Sender, Write(s) PROVE Goal
  <2>1. PICK to \in offset[s] + 1 .. MessageLen : offset' = [offset EXCEPT ![s] = to]
    BY <1>7 DEF Write
  <2>2. to \in 0 .. MessageLen
    BY <1>0, <2>1 DEF MessageLen
  <2> QED BY <1>0, <1>7, <2>1, <2>2 DEF Write
<1>8. ASSUME NEW r \in Receiver, Parse(r) PROVE Goal
  BY <1>0, <1>8 DEF Parse, world
<1>9. ASSUME NEW r \in Receiver, Decrypt(r) PROVE Goal
  <2> DEFINE verdict == VerdictOn(message[r], MasterOf(r), args[r].build, args[r].pair)
             plaintext == message[r].encrypted_message.plaintext
  <2>1. UNCHANGED <<photo, edits, clock, damage, scenario, time, message, offset>>
    BY <1>9 DEF Decrypt, world
  <2>2. opened' = IF verdict = "opened" THEN [opened EXCEPT ![r] = plaintext] ELSE opened
    BY <1>9 DEF Decrypt
  <2>3. verdict = "opened" => plaintext \in Sender
    <3> SUFFICES ASSUME verdict = "opened" PROVE plaintext \in Sender
      OBVIOUS
    <3>1. Equipped(r) /\ TypeOK /\ SendersTell
      BY <1>9 DEF ExchangeInv, ReceiversTell, StoresTell, Decrypt, Equipped, Process
    <3>2. \A i \in 1 .. 4 : Passes(r, i)
      BY FirstFailureDecides DEF Passes
    <3>3. PICK s \in Sender : Entitled(r, s)
      BY <3>1, <3>2, MacBinds
    <3> QED BY <3>1, <3>3, EntitledPasses
  <2> HIDE DEF verdict, plaintext
  <2>4. opened' \in [Receiver -> Sender \cup {Nobody}]
    BY <1>0, <2>2, <2>3
  <2> QED BY <1>0, <2>1, <2>4
<1>10. ASSUME UNCHANGED <<photo, edits, clock, damage, scenario, time, message, offset, opened>>
       PROVE Goal
  BY <1>0, <1>10
<1>11. ASSUME NEW s \in Sender, Encryption(s) \/ Interrupt(s)
       PROVE  \/ UNCHANGED <<photo, edits, clock, damage, scenario, time, message, offset, opened>>
              \/ Authenticate(s) \/ Assemble(s) \/ Write(s)
  BY <1>11 DEF Encryption, Interrupt, RefusePublicKey, Derive, Create, world
<1>12. ASSUME NEW r \in Receiver, Decryption(r)
       PROVE  \/ UNCHANGED <<photo, edits, clock, damage, scenario, time, message, offset, opened>>
              \/ Parse(r) \/ Decrypt(r)
  BY <1>12 DEF Decryption, Derive, Open, Read, world
<1>13. ASSUME UNCHANGED vars
       PROVE  UNCHANGED <<photo, edits, clock, damage, scenario, time, message, offset, opened>>
  BY <1>13 DEF vars
<1> HIDE DEF Goal
<1>14. Goal
  BY <1>2, <1>3, <1>4, <1>5, <1>6, <1>7, <1>8, <1>9, <1>10, <1>11, <1>12, <1>13 DEF Next
<1> QED BY <1>14, ControlNext, ImagesNext, TokensNext
        DEF Goal, TypeOK, StoresTell, ControlTells, ImagesTell

LEMMA SendersNext == ASSUME ExchangeInv, [Next]_vars PROVE SendersTell'
<1> SUFFICES ASSUME NEW s \in Sender
    PROVE /\ pc'[s] \in {"start", "derived", "assemble"} => message'[s] = NoMessage
          /\ pc'[s] \in {"derived", "assemble"} => seen'[s] \in Photo
          /\ pc'[s] = "assemble" => time'[s] \in Nat
          /\ pc'[s] \in {"create", "write"} => message'[s] # NoMessage
          /\ pc'[s] = "write" => file' # Absent
          /\ message'[s] # NoMessage => SealedBy(s, message[s])'
  BY DEF SendersTell
<1> DEFINE Goal == /\ pc'[s] \in {"start", "derived", "assemble"} => message'[s] = NoMessage
                   /\ pc'[s] \in {"derived", "assemble"} => seen'[s] \in Photo
                   /\ pc'[s] = "assemble" => time'[s] \in Nat
                   /\ pc'[s] \in {"create", "write"} => message'[s] # NoMessage
                   /\ pc'[s] = "write" => file' # Absent
                   /\ message'[s] # NoMessage => SealedBy(s, message[s])'
<1>0. /\ pc[s] \in {"start", "derived", "assemble"} => message[s] = NoMessage
      /\ pc[s] \in {"derived", "assemble"} => seen[s] \in Photo
      /\ pc[s] = "assemble" => time[s] \in Nat
      /\ pc[s] \in {"create", "write"} => message[s] # NoMessage
      /\ pc[s] = "write" => file # Absent
      /\ message[s] # NoMessage => SealedBy(s, message[s])'
      /\ s \in Process /\ s \notin Receiver
  BY ScenarioParts, ProvenanceStays
  DEF ExchangeInv, SendersTell, Process, TypeOK
<1>f. file # Absent => file' # Absent
  BY TokensNext
<1>t. /\ pc \in [Process -> SenderState \cup ReceiverState]
      /\ seen \in [Process -> Photo \cup {NoPhoto}] /\ message = [p \in Process |-> message[p]]
      /\ DOMAIN time = Sender /\ clock \in Nat /\ photo \in Photo
      /\ \A p \in Process : pc[p] # "failed" => p \in Called
  BY ScenarioParts DEF ExchangeInv, StoresTell, TypeOK
<1>1. ASSUME pc'[s] = pc[s] /\ message'[s] = message[s] /\ seen'[s] = seen[s] /\ time'[s] = time[s]
      PROVE  Goal
  BY <1>0, <1>f, <1>1
<1>2. ASSUME NEW p \in Process, p # s, \E next : Goto(p, next)
      PROVE  pc'[s] = pc[s]
  BY <1>t, <1>2, <1>0 DEF Goto
<1>3. ASSUME Derive(s) PROVE Goal
  <2>1. pc[s] = "start" /\ UNCHANGED message
    BY <1>0, <1>3 DEF Derive
  <2>2. message'[s] = NoMessage
    BY <1>0, <2>1
  <2>3. (pc'[s] = "derived" /\ seen'[s] = photo) \/ pc'[s] = "failed"
    BY <1>0, <1>t, <1>3 DEF Derive, Goto
  <2> QED BY <1>t, <2>2, <2>3
<1>4. ASSUME Authenticate(s) PROVE Goal
  BY <1>0, <1>t, <1>4 DEF Authenticate, Goto
<1>5. ASSUME Assemble(s) PROVE Goal
  <2> DEFINE m == SealedMessage(s, MasterOf(s), args[s].pair, time[s], time[s])
  <2>1. m # NoMessage
    <3> DEFINE master == MasterOf(s)  pair == args[s].pair  t == time[s]
    <3>1. IsSealed(SealedMessage(s, master, pair, t, t), s, master, pair, t)
      BY SealedShape
    <3> QED BY <3>1 DEF IsSealed
  <2>2. /\ message' = [message EXCEPT ![s] = m] /\ pc' = [pc EXCEPT ![s] = "create"]
        /\ UNCHANGED <<seen, time>> /\ pc[s] = "assemble"
    BY <1>5 DEF Assemble, Goto
  <2>3. message'[s] = m /\ pc'[s] = "create"
    <3> HIDE DEF m
    <3>1. s \in DOMAIN message /\ s \in DOMAIN pc
      BY <1>0, <1>t
    <3> QED BY <2>2, <3>1
  <2>4. s \in Called' /\ seen'[s] \in Photo /\ time'[s] \in Nat
    <3>1. s \in Called
      BY <1>0, <1>t, <2>2
    <3>2. Called' = Called
      BY ScenarioStays
    <3> QED BY <1>0, <2>2, <3>1, <3>2
  <2>5. m = SealedMessage(s, MasterOf(s), args[s].pair, time[s], time[s])'
    BY <2>2, ScenarioStays DEF MasterOf
  <2> HIDE DEF m
  <2> QED BY <2>1, <2>3, <2>4, <2>5 DEF SealedBy
<1>6. ASSUME Create(s) PROVE Goal
  <2>1. file' # Absent
    BY <1>6 DEF Create, Empty, Absent
  <2> QED BY <1>0, <1>t, <1>6, <2>1 DEF Create, Goto
<1>7. ASSUME Write(s) PROVE Goal
  BY <1>0, <1>f, <1>t, <1>7 DEF Write, Goto
<1>8. ASSUME RefusePublicKey(s) \/ Interrupt(s) PROVE Goal
  <2>1. pc'[s] \in {"PqLayerUnavailable", "failed"}
    BY <1>0, <1>t, <1>8 DEF RefusePublicKey, Interrupt, Goto
  <2>2. UNCHANGED <<message, seen, time>>
    BY <1>8 DEF RefusePublicKey, Interrupt
  <2> QED BY <1>0, <2>1, <2>2
<1>9. ASSUME NEW p \in Process, p # s, Derive(p) PROVE Goal
  <2>1. \E next : Goto(p, next)
    BY <1>9 DEF Derive
  <2>2. UNCHANGED <<message, time>> /\ seen'[s] = seen[s]
    BY <1>0, <1>t, <1>9 DEF Derive
  <2>3. pc'[s] = pc[s]
    BY <1>2, <1>9, <2>1
  <2> QED BY <1>1, <2>2, <2>3
<1>10. ASSUME NEW p \in Sender, p # s, Encryption(p) \/ Interrupt(p), ~Derive(p) PROVE Goal
  <2>1. \E next : Goto(p, next)
    BY <1>10 DEF Encryption, Interrupt, RefusePublicKey, Authenticate, Assemble, Create, Write
  <2>2. p \in Process /\ pc'[s] = pc[s]
    BY <1>2, <1>10, <2>1 DEF Process
  <2>3. UNCHANGED seen
    BY <1>10 DEF Encryption, Interrupt, RefusePublicKey, Authenticate, Assemble, Create, Write
  <2>4. time'[s] = time[s]
    BY <1>t, <1>10
    DEF Encryption, Interrupt, RefusePublicKey, Authenticate, Assemble, Create, Write
  <2>5. message'[s] = message[s]
    <3>1. CASE Assemble(p)
      <4>1. \E m : message' = [message EXCEPT ![p] = m]
        BY <3>1 DEF Assemble
      <4> QED BY <1>0, <1>t, <1>10, <4>1
    <3> QED BY <1>10, <3>1
            DEF Encryption, Interrupt, RefusePublicKey, Authenticate, Create, Write
  <2> QED BY <1>1, <2>2, <2>3, <2>4, <2>5
<1>11. ASSUME NEW r \in Receiver, Decryption(r), ~Derive(r) PROVE Goal
  <2>1. UNCHANGED pc \/ \E next : Goto(r, next)
    BY <1>11 DEF Decryption, Open, Read, Parse, Decrypt
  <2>2. r \in Process /\ r # s
    BY <1>0 DEF Process
  <2>3. pc'[s] = pc[s]
    BY <1>2, <2>1, <2>2
  <2>4. UNCHANGED <<seen, time>>
    BY <1>11 DEF Decryption, Open, Read, Parse, Decrypt
  <2>5. message'[s] = message[s]
    <3>1. UNCHANGED message \/ \E m : message' = [message EXCEPT ![r] = m]
      BY <1>11 DEF Decryption, Open, Read, Parse, Decrypt
    <3> QED BY <1>0, <1>t, <2>2, <3>1
  <2> QED BY <1>1, <2>3, <2>4, <2>5
<1>12. ASSUME EditPhoto \/ Tick \/ Damage \/ UNCHANGED vars PROVE Goal
  BY <1>1, <1>12 DEF EditPhoto, Tick, Damage, vars
<1> HIDE DEF Goal
<1>13. ASSUME NEW p \in Sender, Encryption(p) \/ Interrupt(p) PROVE Goal
  BY <1>3, <1>4, <1>5, <1>6, <1>7, <1>8, <1>9, <1>10, <1>13 DEF Encryption, Process
<1>14. ASSUME NEW r \in Receiver, Decryption(r) PROVE Goal
  <2>1. r \in Process /\ r # s
    BY <1>0 DEF Process
  <2> QED BY <1>9, <1>11, <1>14, <2>1
<1>15. Goal
  BY <1>12, <1>13, <1>14 DEF Next
<1> QED BY <1>15 DEF Goal

-----------------------------------------------------------------------------
(* What each receiver knows, and what it has opened. *)

(* What happens to receiver r in a step that is not its own: nothing. *)
Rests(r) ==
  /\ pc'[r] = pc[r] /\ message'[r] = message[r]
  /\ seen'[r] = seen[r] /\ opened'[r] = opened[r]
LEMMA OthersRest ==
  ASSUME ExchangeInv, [Next]_vars, NEW r \in Receiver
  PROVE  Rests(r) \/ Decryption(r)
<1>0. /\ r \in Process /\ r \notin Sender /\ pc \in [Process -> SenderState \cup ReceiverState]
      /\ seen \in [Process -> Photo \cup {NoPhoto}] /\ message = [p \in Process |-> message[p]]
      /\ DOMAIN opened = Receiver
  BY ScenarioParts DEF ExchangeInv, StoresTell, TypeOK, Process
<1>1. ASSUME NEW p, p # r,
             UNCHANGED pc \/ \E x : pc' = [pc EXCEPT ![p] = x],
             UNCHANGED seen \/ \E x : seen' = [seen EXCEPT ![p] = x],
             UNCHANGED message \/ \E x : message' = [message EXCEPT ![p] = x],
             UNCHANGED opened \/ \E x : opened' = [opened EXCEPT ![p] = x]
      PROVE  Rests(r)
  <2>1. pc'[r] = pc[r]
    BY <1>0, <1>1
  <2>2. seen'[r] = seen[r]
    BY <1>0, <1>1
  <2>3. message'[r] = message[r]
    BY <1>0, <1>1
  <2>4. opened'[r] = opened[r]
    BY <1>0, <1>1
  <2> QED BY <2>1, <2>2, <2>3, <2>4 DEF Rests
<1>2. ASSUME EditPhoto \/ Tick \/ Damage \/ UNCHANGED vars PROVE Rests(r)
  BY <1>2 DEF EditPhoto, Tick, Damage, vars, Rests
<1>3. ASSUME NEW s \in Sender, Encryption(s) \/ Interrupt(s) PROVE Rests(r)
  <2>1. UNCHANGED pc \/ \E x : pc' = [pc EXCEPT ![s] = x]
    BY <1>3 DEF Encryption, Interrupt, RefusePublicKey, Derive, Authenticate, Assemble, Create,
       Write, Goto
  <2>2. UNCHANGED seen \/ \E x : seen' = [seen EXCEPT ![s] = x]
    BY <1>3 DEF Encryption, Interrupt, RefusePublicKey, Derive, Authenticate, Assemble, Create,
       Write
  <2>3. UNCHANGED message \/ \E x : message' = [message EXCEPT ![s] = x]
    BY <1>3 DEF Encryption, Interrupt, RefusePublicKey, Derive, Authenticate, Assemble, Create,
       Write
  <2>4. UNCHANGED opened
    BY <1>3 DEF Encryption, Interrupt, RefusePublicKey, Derive, Authenticate, Assemble, Create,
       Write
  <2> QED BY <1>0, <1>1, <2>1, <2>2, <2>3, <2>4
<1>4. ASSUME NEW q \in Receiver, q # r, Decryption(q) PROVE Rests(r)
  <2>1. UNCHANGED pc \/ \E x : pc' = [pc EXCEPT ![q] = x]
    BY <1>4 DEF Decryption, Open, Read, Parse, Derive, Decrypt, Goto
  <2>2. UNCHANGED seen \/ \E x : seen' = [seen EXCEPT ![q] = x]
    BY <1>4 DEF Decryption, Open, Read, Parse, Derive, Decrypt
  <2>3. UNCHANGED message \/ \E x : message' = [message EXCEPT ![q] = x]
    BY <1>4 DEF Decryption, Open, Read, Parse, Derive, Decrypt
  <2>4. UNCHANGED opened \/ \E x : opened' = [opened EXCEPT ![q] = x]
    BY <1>4 DEF Decryption, Open, Read, Parse, Derive, Decrypt
  <2> QED BY <1>1, <1>4, <2>1, <2>2, <2>3, <2>4
<1> QED BY <1>2, <1>3, <1>4 DEF Next

LEMMA ReceiversNext == ASSUME ExchangeInv, [Next]_vars PROVE ReceiversTell'
<1> SUFFICES ASSUME NEW r \in Receiver
    PROVE /\ pc'[r] \in {"start", "read"} => message'[r] = NoMessage
          /\ pc'[r] \in {"start", "read", "derive"} => seen'[r] = NoPhoto
          /\ pc'[r] \in {"start", "read", "derive", "derived"} => opened'[r] = Nobody
          /\ pc'[r] = "read" => file' # Absent
          /\ pc'[r] \in {"derive", "derived"} => message'[r] # NoMessage
          /\ pc'[r] = "derived" => seen'[r] \in Photo
          /\ message'[r] # NoMessage => Provenance(message[r])'
  BY DEF ReceiversTell
<1> DEFINE Goal == /\ pc'[r] \in {"start", "read"} => message'[r] = NoMessage
                   /\ pc'[r] \in {"start", "read", "derive"} => seen'[r] = NoPhoto
                   /\ pc'[r] \in {"start", "read", "derive", "derived"} => opened'[r] = Nobody
                   /\ pc'[r] = "read" => file' # Absent
                   /\ pc'[r] \in {"derive", "derived"} => message'[r] # NoMessage
                   /\ pc'[r] = "derived" => seen'[r] \in Photo
                   /\ message'[r] # NoMessage => Provenance(message[r])'
<1>0. /\ pc[r] \in {"start", "read"} => message[r] = NoMessage
      /\ pc[r] \in {"start", "read", "derive"} => seen[r] = NoPhoto
      /\ pc[r] \in {"start", "read", "derive", "derived"} => opened[r] = Nobody
      /\ pc[r] = "read" => file # Absent
      /\ pc[r] \in {"derive", "derived"} => message[r] # NoMessage
      /\ pc[r] = "derived" => seen[r] \in Photo
      /\ message[r] # NoMessage => Provenance(message[r])
  BY DEF ExchangeInv, ReceiversTell
<1>f. file # Absent => file' # Absent
  BY TokensNext
<1>p. \A m : Provenance(m) => Provenance(m)'
  BY ProvenanceStays
<1>t. /\ r \in Process /\ r \notin Sender
      /\ pc \in [Process -> SenderState \cup ReceiverState]
      /\ seen \in [Process -> Photo \cup {NoPhoto}] /\ message = [p \in Process |-> message[p]]
      /\ photo \in Photo
  BY ScenarioParts DEF ExchangeInv, StoresTell, TypeOK, Process
<1>1. ASSUME Rests(r) PROVE Goal
  <2>1. message'[r] # NoMessage => Provenance(message[r])'
    <3> DEFINE m == message[r]
    <3>1. Provenance(m) => Provenance(m)'
      <4> SUFFICES ASSUME Provenance(m) PROVE Provenance(m)'
        OBVIOUS
      <4>1. PICK n : n = m
        OBVIOUS
      <4>2. Provenance(n) => Provenance(n)'
        BY <1>p
      <4>3. m' = n
        BY <1>1, <4>1 DEF Rests
      <4> QED BY <4>1, <4>2, <4>3 DEF Provenance
    <3> QED BY <1>0, <1>1, <3>1 DEF Rests
  <2> QED BY <1>0, <1>1, <1>f, <2>1 DEF Rests
<1>2. ASSUME UNCHANGED message PROVE message'[r] # NoMessage => Provenance(message[r])'
  BY <1>0, <1>2, <1>p DEF Provenance
<1>3. ASSUME Open(r) PROVE Goal
  <2>1. /\ pc[r] = "start" /\ pc'[r] = IF file = Absent THEN "failed" ELSE "read"
        /\ UNCHANGED <<file, message, seen, opened>>
    BY <1>t, <1>3 DEF Open, Goto, world
  <2> QED BY <1>0, <1>2, <2>1
<1>4. ASSUME Read(r) PROVE Goal
  <2>1. UNCHANGED <<file, pc, message, seen, opened>>
    BY <1>4 DEF Read, world
  <2> QED BY <1>0, <1>2, <2>1
<1>5. ASSUME Parse(r) PROVE Goal
  <2>1. pc[r] = "read" /\ UNCHANGED <<seen, opened>>
    BY <1>5 DEF Parse
  <2>2. CASE Parses(buffer[r], Hybrid)
    <3> DEFINE m == Parsed(buffer[r])
    <3>1. Provenance(m) /\ m # NoMessage
      BY <2>2, ParsedHasProvenance DEF ExchangeInv, TokensTell
    <3>2. message' = [message EXCEPT ![r] = m] /\ pc' = [pc EXCEPT ![r] = "derive"]
      BY <1>5, <2>2 DEF Parse, Goto
    <3> HIDE DEF m
    <3>3. message'[r] = m /\ pc'[r] = "derive"
      BY <1>t, <3>2
    <3>4. Provenance(message[r])'
      <4>1. PICK n : n = m
        OBVIOUS
      <4>2. Provenance(n)'
        BY <1>p, <3>1, <4>1
      <4>3. message'[r] = n
        BY <3>3, <4>1
      <4> QED BY <4>2, <4>3 DEF Provenance
    <3> QED BY <1>0, <2>1, <3>1, <3>3, <3>4
  <2>3. CASE ~Parses(buffer[r], Hybrid)
    <3>1. pc'[r] = "MalformedMessage" /\ UNCHANGED message
      BY <1>t, <1>5, <2>3 DEF Parse, Goto
    <3> QED BY <1>2, <2>1, <3>1
  <2> QED BY <2>2, <2>3
<1>6. ASSUME Derive(r) PROVE Goal
  <2>1. pc[r] = "derive" /\ UNCHANGED <<message, opened>>
    BY <1>t, <1>6 DEF Derive
  <2>2. (pc'[r] = "derived" /\ seen'[r] = photo) \/ pc'[r] = "failed"
    BY <1>t, <1>6 DEF Derive, Goto
  <2> QED BY <1>0, <1>2, <1>t, <2>1, <2>2
<1>7. ASSUME Decrypt(r) PROVE Goal
  <2>1. pc'[r] \in ReceiverEnd /\ UNCHANGED message
    BY <1>t, <1>7, FirstFailureDecides DEF Decrypt, Goto
  <2> QED BY <1>2, <2>1 DEF ReceiverEnd
<1> HIDE DEF Goal
<1>8. Goal
  BY <1>1, <1>3, <1>4, <1>5, <1>6, <1>7, OthersRest DEF Decryption
<1> QED BY <1>8 DEF Goal

(* A message fresh from its sender is none that somebody has received:     *)
(* its plaintext is nobody else's.                                         *)
LEMMA FreshIsForeign ==
  ASSUME ExchangeInv, [Next]_vars, NEW s \in Sender, message[s] = NoMessage,
         message'[s] # NoMessage, NEW m, Provenance(m)
  PROVE  message'[s] # m
<1>1. SealedBy(s, message[s])' /\ TypeOK'
  BY SendersNext, TypesNext DEF SendersTell
<1> DEFINE n == message'[s]
           master == MasterOf(s)'
           pair == args'[s].pair
           t == time'[s]
<1>2. n = SealedMessage(s, master, pair, t, t)
  BY <1>1 DEF SealedBy
<1>3. IsSealed(SealedMessage(s, master, pair, t, t), s, master, pair, t)
  BY SealedShape
<1>4. master \in Master /\ pair \in KeyPair \cup {NoPair}
  <2>1. s \in Called' /\ seen'[s] \in Photo /\ scenario' \in Scenario
    BY <1>1 DEF SealedBy, TypeOK
  <2>2. args'[s] \in Args
    BY <2>1, ExchangeAssumption DEF ExchangeAssumption, Called, args
  <2> QED BY <2>1, <2>2, MasterShape DEF MasterOf, Args
<1> HIDE DEF n, master, pair, t
<1>5. IsSealed(n, s, master, pair, t)
  BY <1>2, <1>3
<1>6. n.encrypted_message.plaintext = s /\ n.encrypted_message \in Bodies
  <2>1. SecretOf(pair, s) \in Secrets
    BY <1>4, SecretsAre DEF SecretOf
  <2>2. Subkey("enc", master, SecretOf(pair, s)) \in Subkeys
    BY <1>4, <2>1, SubkeysAre
  <2> QED BY <1>5, <2>2, SealedBody DEF Bodies
<1>7. ASSUME NEW u \in Sender, message[u] # NoMessage
      PROVE  message[u].encrypted_message.plaintext = u
  BY <1>7, SealedParts, SealedBody DEF ExchangeInv
<1>8. n.encrypted_message # m.encrypted_message
  <2>1. CASE m.encrypted_message = Rot
    BY <1>6, <2>1, ExchangeAssumption DEF ExchangeAssumption
  <2>2. CASE m.encrypted_message # Rot
    <3>1. PICK u \in Sender : message[u] # NoMessage
                              /\ m.encrypted_message = message[u].encrypted_message
      BY <2>2 DEF Provenance
    <3>2. u # s
      BY <3>1
    <3> QED BY <1>6, <1>7, <3>1, <3>2
  <2> QED BY <2>1, <2>2
<1> QED BY <1>8 DEF n

LEMMA EntitlementStays ==
  ASSUME ExchangeInv, [Next]_vars, NEW r \in Receiver, NEW s \in Sender, Rests(r)
  PROVE  Entitled(r, s)' <=> Entitled(r, s)
<1>1. args' = args
  BY ScenarioStays
<1>2. CASE message[s] # NoMessage
  BY <1>1, <1>2, SealedStays DEF Rests, Entitled
<1>3. CASE message[s] = NoMessage
  <2>1. ~Entitled(r, s)
    BY <1>3 DEF Entitled
  <2>2. ASSUME Entitled(r, s)' PROVE FALSE
    <3>1. message[r] # NoMessage /\ message'[s] = message[r] /\ message'[s] # NoMessage
      BY <2>2 DEF Entitled, Rests
    <3>2. Provenance(message[r])
      BY <3>1 DEF ExchangeInv, ReceiversTell
    <3> DEFINE m == message[r]
    <3>3. Provenance(m) /\ message'[s] = m
      BY <3>1, <3>2
    <3> HIDE DEF m
    <3> QED BY <1>3, <3>1, <3>3, FreshIsForeign
  <2> QED BY <2>1, <2>2
<1> QED BY <1>2, <1>3

LEMMA OpensNext ==
  ASSUME ExchangeInv, [Next]_vars
  PROVE  OpensExactlyWhenEntitled' /\ MacSpeaksFirst'
<1> SUFFICES ASSUME NEW r \in Receiver
             PROVE  /\ pc'[r] \in ReceiverEnd =>
                         \A s \in Sender : opened'[r] = s <=> Entitled(r, s)'
                    /\ pc'[r] # "DecryptionFailed"
  BY DEF OpensExactlyWhenEntitled, MacSpeaksFirst
<1> DEFINE Goal == /\ pc'[r] \in ReceiverEnd =>
                        \A s \in Sender : opened'[r] = s <=> Entitled(r, s)'
                   /\ pc'[r] # "DecryptionFailed"
<1>t. /\ r \in Process /\ r \notin Sender /\ Nobody \notin Sender
      /\ pc \in [Process -> SenderState \cup ReceiverState]
      /\ seen \in [Process -> Photo \cup {NoPhoto}]
      /\ opened \in [Receiver -> Sender \cup {Nobody}]
  BY ScenarioParts DEF ExchangeInv, StoresTell, TypeOK, Process
<1>0. /\ pc[r] \in ReceiverEnd => \A s \in Sender : opened[r] = s <=> Entitled(r, s)
      /\ pc[r] # "DecryptionFailed"
      /\ pc[r] \in {"start", "read"} => message[r] = NoMessage
      /\ pc[r] \in {"start", "read", "derive"} => seen[r] = NoPhoto
      /\ pc[r] \in {"start", "read", "derive", "derived"} => opened[r] = Nobody
  BY DEF ExchangeInv, OpensExactlyWhenEntitled, MacSpeaksFirst, ReceiversTell
<1>1. ASSUME Rests(r) PROVE Goal
  BY <1>0, <1>1, EntitlementStays DEF Rests
<1>2. ASSUME message'[r] = NoMessage \/ seen'[r] = NoPhoto, opened'[r] = Nobody,
             pc'[r] # "DecryptionFailed"
      PROVE  Goal
  BY <1>t, <1>2 DEF Entitled
<1>3. ASSUME Open(r) \/ Read(r) PROVE Goal
  <2>1. /\ UNCHANGED <<message, seen, opened>> /\ pc[r] \in {"start", "read"}
        /\ pc'[r] \in {"failed", "read"}
    BY <1>t, <1>3 DEF Open, Read, Goto
  <2> QED BY <1>0, <1>2, <2>1
<1>4. ASSUME Parse(r) PROVE Goal
  <2>1. pc[r] = "read" /\ UNCHANGED <<seen, opened>> /\ pc'[r] \in {"derive", "MalformedMessage"}
    BY <1>t, <1>4 DEF Parse, Goto
  <2> QED BY <1>0, <1>2, <2>1
<1>5. ASSUME Derive(r) PROVE Goal
  <2>1. pc[r] = "derive" /\ UNCHANGED opened
    BY <1>t, <1>5 DEF Derive
  <2>2. pc'[r] = "derived" \/ (pc'[r] = "failed" /\ UNCHANGED seen)
    BY <1>t, <1>5 DEF Derive, Goto
  <2> QED BY <1>0, <1>2, <2>1, <2>2 DEF ReceiverEnd
<1>6. ASSUME Decrypt(r) PROVE Goal
  <2> DEFINE verdict == VerdictOn(message[r], MasterOf(r), args[r].build, args[r].pair)
             plaintext == message[r].encrypted_message.plaintext
  <2>1. Equipped(r) /\ TypeOK /\ SendersTell /\ opened[r] = Nobody
    BY <1>0, <1>6 DEF ExchangeInv, ReceiversTell, StoresTell, Decrypt, Equipped, Process
  <2>2. /\ UNCHANGED <<message, seen, scenario>> /\ pc'[r] = verdict
        /\ opened'[r] = IF verdict = "opened" THEN plaintext ELSE opened[r]
    BY <1>t, <1>6 DEF Decrypt, Goto
  <2>3. \A s \in Sender : Entitled(r, s)' <=> Entitled(r, s)
    BY <2>2 DEF Entitled, args
  <2>4. CASE \A i \in 1 .. 4 : Passes(r, i)
    <3>1. PICK s \in Sender : Entitled(r, s) /\ Passes(r, 5)
      BY <2>1, <2>4, MacBinds
    <3>2. \A i \in 1 .. 5 : Passes(r, i)
      BY <2>1, <3>1, EntitledPasses
    <3>3. verdict = "opened"
      BY <3>2, FirstFailureDecides DEF Passes
    <3>4. \A u \in Sender : Entitled(r, u) => plaintext = u
      BY <2>1, EntitledPasses
    <3> HIDE DEF verdict, plaintext
    <3>5. \A u \in Sender : opened'[r] = u <=> Entitled(r, u)
      BY <2>2, <3>1, <3>3, <3>4
    <3> QED BY <2>2, <2>3, <3>3, <3>5
  <2>5. CASE ~\A i \in 1 .. 4 : Passes(r, i)
    <3>1. verdict \in {"ImageMismatch", "PqLayerUnavailable", "MalformedMessage",
                       "VerificationFailed"}
      BY <2>5, FirstFailureDecides DEF Passes
    <3>2. \A s \in Sender : ~Entitled(r, s)
      <4> SUFFICES ASSUME NEW s \in Sender, Entitled(r, s) PROVE FALSE
        OBVIOUS
      <4>1. \A i \in 1 .. 5 : Passes(r, i)
        BY <2>1, EntitledPasses
      <4>2. \A i \in 1 .. 4 : i \in 1 .. 5
        OBVIOUS
      <4> QED BY <2>5, <4>1, <4>2
    <3> HIDE DEF verdict, plaintext
    <3> QED BY <1>t, <2>1, <2>2, <2>3, <3>1, <3>2
  <2> QED BY <2>4, <2>5
<1> HIDE DEF Goal
<1>7. Goal
  BY <1>1, <1>3, <1>4, <1>5, <1>6, OthersRest DEF Decryption
<1> QED BY <1>7 DEF Goal

-----------------------------------------------------------------------------
(* The theorems. *)

LEMMA InvNext == ExchangeInv /\ [Next]_vars => ExchangeInv'
<1> SUFFICES ASSUME ExchangeInv, [Next]_vars PROVE ExchangeInv'
  OBVIOUS
<1> QED BY TypesNext, SendersNext, TokensNext, ReceiversNext, OpensNext DEF ExchangeInv

LEMMA InvAlways == Spec => []ExchangeInv
<1> QED BY InvInit, InvNext, PTL DEF Spec

(* A command works with an image derive_key accepts under its              *)
(* configuration; times, offsets and verdicts stay in their ranges.        *)
THEOREM TypeCorrect == Spec => []TypeOK
<1>1. ExchangeInv => TypeOK
  BY DEF ExchangeInv
<1> QED BY InvAlways, <1>1, PTL

(* decrypt prints a plaintext exactly when the message is intact and the   *)
(* image, the configuration's witness, the key pair and the build are      *)
(* those it was sealed with.                                               *)
THEOREM OpensExactly == Spec => []OpensExactlyWhenEntitled
<1>1. ExchangeInv => OpensExactlyWhenEntitled
  BY DEF ExchangeInv
<1> QED BY InvAlways, <1>1, PTL

(* What passes the MAC is never turned away by AES-GCM. *)
THEOREM MacFirst == Spec => []MacSpeaksFirst
<1>1. ExchangeInv => MacSpeaksFirst
  BY DEF ExchangeInv
<1> QED BY InvAlways, <1>1, PTL

-----------------------------------------------------------------------------
(* The exchange implements the abstract one. *)

Letters == [s \in Sender |-> IF message[s] = NoMessage THEN Nobody ELSE FactorsOf(s)]
Shown == [r \in Receiver |-> IF seen[r] = NoPhoto THEN Nobody ELSE FactorsOf(r)]

LEMMA FactorsAre ==
  ASSUME TypeOK, NEW p \in Process, seen[p] # NoPhoto
  PROVE  FactorsOf(p) \in Factors /\ FactorsOf(p) # Nobody
<1>1. p \in Called /\ seen[p] \in Photo /\ args[p] \in Args
  BY ScenarioParts DEF TypeOK
<1>2. MasterKey(seen[p], args[p].config) \in Master
  BY <1>1, MasterShape DEF Args
<1>3. FactorsOf(p) \in Factors
  BY <1>1, <1>2 DEF FactorsOf, Factors, Args
<1> QED BY <1>3, ExchangeAssumption DEF ExchangeAssumption

(* What a sealed message was sealed under, and who may open it. *)
LEMMA EntitledShows ==
  ASSUME ExchangeInv, NEW r \in Receiver, NEW s \in Sender, Entitled(r, s)
  PROVE  Letters[s] = Shown[r] /\ Shown[r] # Nobody
<1>1. message[s] # NoMessage /\ seen[r] # NoPhoto /\ r \in Process /\ s \notin Receiver
  BY ScenarioParts DEF Entitled, ExchangeInv, TypeOK, Process
<1>2. MasterKey(seen[r], args[r].config) = MasterKey(seen[s], args[s].config)
  BY DEF Entitled, MasterKey
<1>3. (IF args[r].build = "classic" THEN NoPair ELSE args[r].pair) = args[s].pair
  <2>1. args[r] \in Args
    BY <1>1, ScenarioParts DEF ExchangeInv, TypeOK
  <2> QED BY <2>1 DEF Entitled, Args, Build
<1>4. FactorsOf(r) = FactorsOf(s)
  BY <1>1, <1>2, <1>3 DEF FactorsOf
<1> QED BY <1>1, <1>4, FactorsAre DEF Letters, Shown, ExchangeInv

LEMMA LettersStay ==
  ASSUME ExchangeInv, [Next]_vars, NEW s \in Sender, message'[s] = message[s]
  PROVE  Letters'[s] = Letters[s]
<1>1. args' = args
  BY ScenarioStays
<1>2. message[s] # NoMessage => seen'[s] = seen[s]
  BY SealedStays
<1> QED BY <1>1, <1>2 DEF Letters, FactorsOf

LEMMA InitRefines == Init => Exchange!Init
<1> SUFFICES ASSUME Init PROVE Exchange!Init
  OBVIOUS
<1>1. Letters = [s \in Sender |-> Nobody] /\ Shown = [r \in Receiver |-> Nobody]
  BY DEF Init, Letters, Shown, Process
<1>2. opened = [r \in Receiver |-> Nobody]
  BY DEF Init
<1> QED BY <1>1, <1>2 DEF Exchange!Init, Letters, Shown

LEMMA StepRefines ==
  ASSUME ExchangeInv, ExchangeInv', [Next]_vars
  PROVE  [Exchange!Next]_Exchange!exchangeVars
<1> DEFINE Stutter == Letters' = Letters /\ Shown' = Shown /\ opened' = opened
           Goal == [Exchange!Next]_Exchange!exchangeVars
<1>1. ASSUME Stutter PROVE Goal
  BY <1>1 DEF Exchange!exchangeVars, Letters, Shown
<1>2. args' = args
  BY ScenarioStays
<1>t. /\ \A s \in Sender, r \in Receiver : s # r
      /\ message = [p \in Process |-> message[p]] /\ seen \in [Process -> Photo \cup {NoPhoto}]
      /\ opened \in [Receiver -> Sender \cup {Nobody}]
      /\ Process = Sender \cup Receiver
  BY ScenarioParts DEF ExchangeInv, TypeOK, StoresTell, Process
<1>3. ASSUME \A s \in Sender : message'[s] = message[s] PROVE Letters' = Letters
  <2>1. \A s \in Sender : Letters'[s] = Letters[s]
    BY <1>3, LettersStay
  <2> QED BY <2>1 DEF Letters
<1>4. ASSUME \A r \in Receiver : seen'[r] = seen[r] PROVE Shown' = Shown
  BY <1>2, <1>4 DEF Shown, FactorsOf
<1>5. ASSUME NEW s \in Sender, Assemble(s) PROVE Goal
  <2>1. message[s] = NoMessage /\ seen[s] \in Photo /\ seen[s] # NoPhoto
    BY <1>5, ExchangeAssumption DEF Assemble, ExchangeInv, SendersTell, ExchangeAssumption
  <2>2. PICK f \in Factors : f = FactorsOf(s)
    BY <1>t, <2>1, FactorsAre DEF ExchangeInv
  <2>3. /\ \E m : message' = [message EXCEPT ![s] = m]
        /\ UNCHANGED <<seen, opened>> /\ pc'[s] = "create"
    <3>1. pc' = [pc EXCEPT ![s] = "create"] /\ s \in DOMAIN pc
      BY <1>5, <1>t DEF Assemble, Goto, ExchangeInv, StoresTell
    <3> QED BY <1>5, <3>1 DEF Assemble
  <2>4. message'[s] # NoMessage
    BY <2>3 DEF ExchangeInv, SendersTell
  <2>5. Letters[s] = Nobody /\ Letters' = [Letters EXCEPT ![s] = f]
    <3>1. Letters[s] = Nobody
      BY <2>1 DEF Letters
    <3>2. Letters'[s] = f
      BY <1>2, <2>2, <2>3, <2>4 DEF Letters, FactorsOf
    <3>3. \A u \in Sender : u # s => Letters'[u] = Letters[u]
      <4>1. \A u \in Sender : u # s => message'[u] = message[u]
        BY <1>t, <2>3
      <4> QED BY <4>1, LettersStay
    <3>4. Letters' = [u \in Sender |-> Letters'[u]] /\ Letters = [u \in Sender |-> Letters[u]]
      BY DEF Letters
    <3> QED BY <3>1, <3>2, <3>3, <3>4
  <2>6. Shown' = Shown
    BY <1>4, <2>3
  <2>7. Exchange!Seal(s, f)
    BY <2>3, <2>5, <2>6 DEF Exchange!Seal, Letters, Shown
  <2>8. \E x \in Sender, g \in Factors : Exchange!Seal(x, g)
    BY <2>2, <2>7
  <2>9. Exchange!Next
    BY <2>8 DEF Exchange!Next
  <2> QED BY <2>9
<1>6. ASSUME NEW r \in Receiver, Derive(r) PROVE Goal
  <2>1. pc[r] = "derive" /\ UNCHANGED <<message, opened>> /\ seen[r] = NoPhoto
    BY <1>6, <1>t DEF Derive, ExchangeInv, ReceiversTell
  <2>2. Letters' = Letters
    BY <1>3, <2>1
  <2>3. CASE UNCHANGED seen
    BY <1>1, <1>4, <2>1, <2>2, <2>3
  <2>4. CASE seen' = [seen EXCEPT ![r] = photo]
    <3>1. seen'[r] = photo /\ photo \in Photo /\ photo # NoPhoto
      BY <1>t, <2>4, ExchangeAssumption DEF ExchangeAssumption, ExchangeInv, TypeOK
    <3>2. PICK f \in Factors : f = FactorsOf(r)'
      <4>1. r \in Called' /\ args'[r] \in Args
        <5>1. r \in Called
          BY <2>1, <1>t DEF ExchangeInv, StoresTell
        <5>2. args[r] \in Args /\ Called' = Called
          BY <5>1, ScenarioParts, ScenarioStays DEF ExchangeInv, TypeOK
        <5> QED BY <1>2, <5>1, <5>2
      <4>2. MasterKey(seen'[r], args'[r].config) \in Master
        BY <3>1, <4>1, MasterShape DEF Args
      <4>3. FactorsOf(r)' \in Factors
        BY <4>1, <4>2 DEF FactorsOf, Factors, Args
      <4> QED BY <4>3
    <3>3. Shown[r] = Nobody /\ Shown' = [Shown EXCEPT ![r] = f]
      <4>1. Shown[r] = Nobody
        BY <2>1 DEF Shown
      <4>2. Shown'[r] = f
        BY <3>1, <3>2 DEF Shown
      <4>3. \A q \in Receiver : q # r => Shown'[q] = Shown[q]
        BY <1>2, <1>t, <2>4 DEF Shown, FactorsOf
      <4>4. Shown' = [q \in Receiver |-> Shown'[q]] /\ Shown = [q \in Receiver |-> Shown[q]]
        BY DEF Shown
      <4> QED BY <4>1, <4>2, <4>3, <4>4
    <3>4. Exchange!Show(r, f)
      BY <2>1, <2>2, <3>3 DEF Exchange!Show, Letters, Shown
    <3>5. \E x \in Receiver, g \in Factors : Exchange!Show(x, g)
      BY <3>2, <3>4
    <3>6. Exchange!Next
      BY <3>5 DEF Exchange!Next
    <3> QED BY <3>6
  <2> QED BY <1>6, <2>3, <2>4 DEF Derive
<1>7. ASSUME NEW r \in Receiver, Decrypt(r) PROVE Goal
  <2>1. UNCHANGED <<message, seen>> /\ pc[r] = "derived"
    BY <1>7 DEF Decrypt
  <2>2. Letters' = Letters /\ Shown' = Shown
    BY <1>3, <1>4, <2>1
  <2>3. CASE UNCHANGED opened
    BY <1>1, <2>2, <2>3
  <2>4. CASE ~UNCHANGED opened
    <3>1. PICK s : opened' = [opened EXCEPT ![r] = s]
      BY <1>7, <2>4 DEF Decrypt
    <3>2. opened'[r] = s /\ opened[r] = Nobody
      BY <1>t, <2>1, <3>1 DEF ExchangeInv, ReceiversTell
    <3>3. s \in Sender /\ pc'[r] \in ReceiverEnd
      <4>1. opened' \in [Receiver -> Sender \cup {Nobody}]
        BY DEF ExchangeInv, TypeOK
      <4>2. s # Nobody
        BY <1>t, <2>4, <3>1, <3>2
      <4>3. pc'[r] \in ReceiverEnd
        <5>1. pc'[r] = VerdictOn(message[r], MasterOf(r), args[r].build, args[r].pair)
          BY <1>7, <1>t DEF Decrypt, Goto, ExchangeInv, StoresTell
        <5> QED BY <5>1, FirstFailureDecides
      <4> QED BY <3>2, <4>1, <4>2, <4>3
    <3>4. Entitled(r, s)'
      BY <3>2, <3>3 DEF ExchangeInv, OpensExactlyWhenEntitled
    <3>5. Entitled(r, s)
      BY <1>2, <2>1, <3>4 DEF Entitled
    <3>6. Letters[s] = Shown[r] /\ Shown[r] # Nobody
      BY <3>3, <3>5, EntitledShows
    <3>7. Exchange!Open(r, s)
      BY <2>2, <3>1, <3>2, <3>6 DEF Exchange!Open, Letters, Shown
    <3> QED BY <3>3, <3>7 DEF Exchange!Next
  <2> QED BY <2>3, <2>4
<1>8. ASSUME NEW s \in Sender, Encryption(s) \/ Interrupt(s), ~Assemble(s) PROVE Goal
  <2>1. UNCHANGED <<message, opened>>
    BY <1>8 DEF Encryption, Interrupt, RefusePublicKey, Derive, Authenticate, Create, Write
  <2>2. UNCHANGED seen \/ \E x : seen' = [seen EXCEPT ![s] = x]
    BY <1>8 DEF Encryption, Interrupt, RefusePublicKey, Derive, Authenticate, Create, Write
  <2>3. \A r \in Receiver : seen'[r] = seen[r]
    BY <1>t, <2>2
  <2> QED BY <1>1, <1>3, <1>4, <2>1, <2>3
<1>9. ASSUME NEW r \in Receiver, Open(r) \/ Read(r) \/ Parse(r) PROVE Goal
  <2>1. UNCHANGED <<seen, opened>>
    BY <1>9 DEF Open, Read, Parse
  <2>2. UNCHANGED message \/ \E x : message' = [message EXCEPT ![r] = x]
    BY <1>9 DEF Open, Read, Parse
  <2>3. \A s \in Sender : message'[s] = message[s]
    BY <1>t, <2>2
  <2> QED BY <1>1, <1>3, <1>4, <2>1, <2>3
<1>10. ASSUME EditPhoto \/ Tick \/ Damage \/ UNCHANGED vars PROVE Goal
  <2>1. UNCHANGED <<message, seen, opened>>
    BY <1>10 DEF EditPhoto, Tick, Damage, vars
  <2> QED BY <1>1, <1>3, <1>4, <2>1
<1> HIDE DEF Goal
<1>11. Goal
  BY <1>5, <1>6, <1>7, <1>8, <1>9, <1>10 DEF Next, Decryption
<1> QED BY <1>11 DEF Goal

(* Without its files, clocks, builds and errors, the exchange hands out no *)
(* plaintext but that of a message sealed earlier under the very factors   *)
(* the receiver has presented, and one at most.                            *)
THEOREM ExchangeIsSealed == Spec => ImplementsExchange
<1>1. ExchangeInv /\ ExchangeInv' /\ [Next]_vars => [Exchange!Next]_Exchange!exchangeVars
  BY StepRefines
<1> QED BY InvAlways, InitRefines, <1>1, PTL DEF Spec, ImplementsExchange, Exchange!Spec
=============================================================================
