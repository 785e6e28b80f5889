------------------------ MODULE KeyRecordFileProofs -------------------------
(***************************************************************************)
(* For any number of exports and verifies of one record file, any images   *)
(* and configurations: key bytes stay private, what load accepts is one    *)
(* whole exported record, the verdict is exact, and concurrent exports of  *)
(* one record leave it behind complete.                                    *)
(***************************************************************************)
EXTENDS KeyRecordFile, SequenceTheorems, TLAPS

-----------------------------------------------------------------------------
(* One write call: the tokens it covers, those beside them, and holes. *)
Covers(w, content, data, from, to) ==
  /\ Len(w) = IF Len(content) > to THEN Len(content) ELSE to
  /\ \A i \in 1 .. Len(w) :
       w[i] = IF i \in from .. to THEN data[i]
              ELSE IF i <= Len(content) THEN content[i] ELSE Hole
LEMMA WrittenProperties ==
  ASSUME NEW S, Hole \in S, NEW content \in Seq(S), NEW data \in Seq(S),
         NEW from \in 1 .. Len(data), NEW to \in from .. Len(data)
  PROVE  /\ Written(content, data, from, to) \in Seq(S)
         /\ Covers(Written(content, data, from, to), content, data, from, to)
<1> DEFINE n == IF Len(content) > to THEN Len(content) ELSE to
           w == Written(content, data, from, to)
<1>1. w \in [1 .. n -> S] /\ n \in Nat
  BY DEF Written
<1>2. w \in Seq(S) /\ Len(w) = n
  <2> HIDE DEF n, w
  <2> QED BY <1>1
<1> QED BY <1>2 DEF Written, Covers

(* One read call keeps every token at its place. *)
Continues(more, content, buf, k) ==
  /\ Len(more) \in Nat /\ Len(more) <= Len(content)
  /\ Len(more) >= Len(buf) /\ Len(more) <= Len(buf) + k
  /\ \A i \in 1 .. Len(more) : more[i] = IF i <= Len(buf) THEN buf[i] ELSE content[i]
LEMMA ReadMoreProperties ==
  ASSUME NEW S, NEW content \in Seq(S), NEW buf \in Seq(S), NEW k \in Nat,
         Len(buf) < Len(content)
  PROVE  /\ ReadMore(content, buf, k) \in Seq(S)
         /\ Continues(ReadMore(content, buf, k), content, buf, k)
  BY DEF ReadMore, Continues

-----------------------------------------------------------------------------
(* The inductive invariant, in named parts. *)

Token == {Hole, Absent[1]} \cup {Serialized(r)[i] : r \in Record, i \in 1 .. RecordLen}

ContentsTell ==
  /\ pc \in [Process -> ExporterState \cup VerifierState]
  /\ file \in Seq(Token) /\ Len(file) <= RecordLen
  /\ buffer \in [Verifier -> Seq(Token)]

(* What a process has derived or loaded by the time it stands where it     *)
(* stands.                                                                 *)
ExportsTell ==
  \A e \in Exporter :
    /\ pc[e] = "start" => record[e] = NoRecord
    /\ pc[e] \in {"create", "chmod", "write", "done"} => record[e] \in Record
    /\ pc[e] \in {"start", "create", "chmod"} => offset[e] = 0
    /\ record[e] # NoRecord => record[e] = DerivedRecord(record[e].hash, config[e])
VerifiesTell ==
  \A v \in Verifier :
    /\ pc[v] \in {"derive", "compare", "verified", "mismatch"} => record[v] \in Record
    /\ pc[v] \in {"compare", "verified", "mismatch"}
         => derived[v] = DerivedRecord(derived[v].hash, config[v])
    /\ pc[v] \in {"verified", "mismatch"}
         => (pc[v] = "verified" <=> derived[v] = record[v])

(* A token stands where some export has put it, whatever became of the     *)
(* rest of that export: in the file, and in what has been read of it.      *)
TokenAt(t, i) ==
  \/ t \in {Hole, Absent[1]}
  \/ i \in 1 .. RecordLen /\ \E e \in Exporter : record[e] \in Record /\ t = Serialized(record[e])[i]
TokensTell ==
  /\ \A i \in 1 .. Len(file) : TokenAt(file[i], i)
  /\ \A v \in Verifier : \A i \in 1 .. Len(buffer[v]) : TokenAt(buffer[v][i], i)

(* Nobody writes before the file is the owner's, and from the first        *)
(* truncation on nobody finds the path absent and widens the mode again.   *)
ModeTells ==
  \A e \in Exporter :
    /\ pc[e] \in {"chmod", "write"} => file # Absent
    /\ pc[e] = "write" => mode = "owner"

(* If all exports that have derived a record have derived r: a token of r  *)
(* is in the file, or somebody has still to write it.                      *)
Owes(e, i) ==
  \/ pc[e] \in {"start", "create", "chmod"}
  \/ pc[e] = "write" /\ offset[e] < i
AllExport(r) == \A e \in Exporter : pc[e] # "failed" /\ record[e] \in {NoRecord, r}
Stands(r, i) == i \in 1 .. Len(file) /\ file[i] = Serialized(r)[i]
WritesTell ==
  Exporter # {} =>
    \A r \in Record : AllExport(r) =>
      \A i \in 1 .. RecordLen : Stands(r, i) \/ \E e \in Exporter : Owes(e, i)

(* What a verify has loaded is the whole record of one export. *)
LoadsTell ==
  \A v \in Verifier :
    record[v] # NoRecord => \E e \in Exporter : record[e] \in Record /\ record[v] = record[e]

KeyRecordInv ==
  /\ TypeOK /\ ContentsTell /\ ExportsTell /\ VerifiesTell /\ TokensTell
  /\ LoadsTell /\ ModeTells /\ SecretsStayPrivate /\ WritesTell

-----------------------------------------------------------------------------
(* Lemmas about records, their layout, and the calls of FileBytes. *)

LEMMA NoRecordIsNone == NoRecord \notin Record
<1> SUFFICES ASSUME NoRecord \in Record PROVE FALSE
  OBVIOUS
<1>1. PICK x \in (Photo \X Config) \ Refused : NoRecord = DerivedRecord(x[1], x[2])
  BY DEF Record
<1>2. DOMAIN NoRecord # DOMAIN DerivedRecord(x[1], x[2])
  BY DEF NoRecord, DerivedRecord
<1> QED BY <1>1, <1>2

LEMMA DerivedIsRecord ==
  ASSUME NEW bytes \in Photo, NEW cfg \in Config, Derives(bytes, cfg)
  PROVE  /\ DerivedRecord(bytes, cfg) \in Record
         /\ DerivedRecord(bytes, cfg).hash = bytes
<1>1. <<bytes, cfg>> \in (Photo \X Config) \ Refused
  BY DEF Derives
<1>2. DerivedRecord(<<bytes, cfg>>[1], <<bytes, cfg>>[2]) = DerivedRecord(bytes, cfg)
  OBVIOUS
<1> QED BY <1>1, <1>2 DEF Record, DerivedRecord

LEMMA BodyShape ==
  ASSUME NEW r
  PROVE  /\ Body(r) \in Seq({Body(r)[i] : i \in 1 .. 4}) /\ Len(Body(r)) = 4
         /\ Body(r)[1] = [field |-> "magic"]
         /\ Body(r)[2] = [field |-> "key_len"]
         /\ Body(r)[3] = [field |-> "key", of |-> r.key]
         /\ Body(r)[4] = [field |-> "hash", of |-> r.hash]
  BY DEF Body

LEMMA SerializedShape ==
  ASSUME NEW r
  PROVE  /\ DOMAIN Serialized(r) = 1 .. 5 /\ Len(Serialized(r)) = 5
         /\ Serialized(r)[1] = [field |-> "magic"]
         /\ Serialized(r)[2] = [field |-> "key_len"]
         /\ Serialized(r)[3] = [field |-> "key", of |-> r.key]
         /\ Serialized(r)[4] = [field |-> "hash", of |-> r.hash]
         /\ Serialized(r)[5] = Checksum(Body(r))
<1>1. PICK S : Body(r) \in Seq(S) /\ Checksum(Body(r)) \in S
  <2> DEFINE S == {Body(r)[i] : i \in 1 .. 4} \cup {Checksum(Body(r))}
  <2>1. Body(r) \in Seq(S)
    BY DEF Body
  <2> QED BY <2>1
<1>2. Len(Body(r)) = 4
  BY BodyShape
<1>3. Serialized(r) = Append(Body(r), Checksum(Body(r)))
  BY DEF Serialized
<1>4. /\ Serialized(r) \in Seq(S)
      /\ Len(Serialized(r)) = Len(Body(r)) + 1
      /\ \A i \in 1 .. Len(Body(r)) : Serialized(r)[i] = Body(r)[i]
      /\ Serialized(r)[Len(Body(r)) + 1] = Checksum(Body(r))
  BY <1>1, <1>3, AppendProperties
<1>5. Len(Serialized(r)) = 5 /\ DOMAIN Serialized(r) = 1 .. 5
  BY <1>2, <1>4, LenProperties
<1>6. /\ Serialized(r)[1] = Body(r)[1] /\ Serialized(r)[2] = Body(r)[2]
      /\ Serialized(r)[3] = Body(r)[3] /\ Serialized(r)[4] = Body(r)[4]
      /\ Serialized(r)[5] = Checksum(Body(r))
  BY <1>2, <1>4
<1> QED BY <1>5, <1>6, BodyShape

LEMMA HoleIsToken == Hole \in Token /\ Absent[1] \in Token
<1> DEFINE Others == {Serialized(r)[i] : r \in Record, i \in 1 .. RecordLen}
<1>1. Token = {Hole, Absent[1]} \cup Others
  BY DEF Token
<1> HIDE DEF Others
<1> QED BY <1>1

LEMMA RecordTokens ==
  ASSUME NEW r \in Record, NEW i \in 1 .. RecordLen
  PROVE  /\ Serialized(r)[i] \in Token
         /\ Serialized(r)[i] \notin {Hole, Absent[1]}
         /\ Serialized(r)[i].field = "key" => i = 3
         /\ Serialized(r)[i].field = "checksum" => i = 5
<1>1. /\ Serialized(r)[1].field = "magic" /\ Serialized(r)[2].field = "key_len"
      /\ Serialized(r)[3].field = "key" /\ Serialized(r)[4].field = "hash"
      /\ Serialized(r)[5].field = "checksum"
  <2>1. /\ Serialized(r)[1] = [field |-> "magic"] /\ Serialized(r)[2] = [field |-> "key_len"]
        /\ Serialized(r)[3] = [field |-> "key", of |-> r.key]
        /\ Serialized(r)[4] = [field |-> "hash", of |-> r.hash]
        /\ Serialized(r)[5] = Checksum(Body(r))
    BY SerializedShape
  <2>2. Checksum(Body(r)).field = "checksum"
    BY DEF Checksum
  <2> QED BY <2>1, <2>2
<1>2. i \in {1, 2, 3, 4, 5}
  BY DEF RecordLen
<1>3. Hole.field = "hole" /\ Absent[1].field = "absent"
  BY DEF Hole, Absent
<1>4. Serialized(r)[i] \in Token
  BY DEF Token
<1> QED BY <1>1, <1>2, <1>3, <1>4

LEMMA SerializedIsSequence ==
  ASSUME NEW r \in Record
  PROVE  Serialized(r) \in Seq(Token) /\ Len(Serialized(r)) = RecordLen
<1>1. DOMAIN Serialized(r) = 1 .. 5 /\ Len(Serialized(r)) = 5
  BY SerializedShape
<1>2. \A i \in 1 .. 5 : Serialized(r)[i] \in Token
  BY RecordTokens DEF RecordLen
<1>3. Serialized(r) = [i \in DOMAIN Serialized(r) |-> Serialized(r)[i]]
  BY DEF Serialized, Body
<1>4. Serialized(r) \in [1 .. 5 -> Token]
  BY <1>1, <1>2, <1>3
<1> QED BY <1>1, <1>4, SeqDef DEF RecordLen

-----------------------------------------------------------------------------
(* The invariant holds at first. *)

LEMMA InvInit == Init => KeyRecordInv
<1> SUFFICES ASSUME Init PROVE KeyRecordInv
  OBVIOUS
<1> USE KeyRecordAssumption DEF KeyRecordAssumption
<1>1. TypeOK
  BY DEF Init, TypeOK, ExporterState, VerifierState, Process, RecordLen
<1>2. /\ file \in Seq(Token) /\ Len(file) = 1 /\ file[1] \in {Hole, Absent[1]}
  <2>1. Hole \in Token /\ Absent[1] \in Token
    BY HoleIsToken
  <2>2. CASE file = Absent
    BY <2>1, <2>2 DEF Absent
  <2>3. CASE file = <<Hole>>
    BY <2>1, <2>3
  <2> QED BY <2>2, <2>3 DEF Init
<1>3. \A v \in Verifier : buffer[v] \in Seq(Token) /\ Len(buffer[v]) = 0
  BY EmptySeq DEF Init, Empty
<1>4. ContentsTell
  BY <1>2, <1>3 DEF Init, ContentsTell, ExporterState, VerifierState, RecordLen
<1>5. ExportsTell /\ VerifiesTell
  BY DEF Init, ExportsTell, VerifiesTell, Process
<1>6. TokensTell
  BY <1>2, <1>3 DEF TokensTell, TokenAt
<1>7. ModeTells
  BY DEF Init, ModeTells, Process
<1>8. SecretsStayPrivate
  BY <1>2 DEF SecretsStayPrivate, Hole, Absent
<1>9. WritesTell
  BY DEF Init, WritesTell, Owes, Process
<1>10. LoadsTell
  BY DEF Init, LoadsTell, Process
<1> QED BY <1>1, <1>4, <1>5, <1>6, <1>7, <1>8, <1>9, <1>10 DEF KeyRecordInv

-----------------------------------------------------------------------------
(* What one step does to the file and to the buffers. *)

(* A write puts tokens of the exporter's own record in their own places.   *)
LEMMA WriteStep ==
  ASSUME KeyRecordInv, NEW e \in Exporter, Write(e)
  PROVE  \E to \in offset[e] + 1 .. RecordLen :
           /\ record[e] \in Record /\ offset[e] \in Nat
           /\ offset' = [offset EXCEPT ![e] = to]
           /\ pc' = [pc EXCEPT ![e] = IF to = RecordLen THEN "done" ELSE "write"]
           /\ file' \in Seq(Token)
           /\ Len(file') = IF Len(file) > to THEN Len(file) ELSE to
           /\ \A i \in 1 .. Len(file') :
                file'[i] = IF i \in offset[e] + 1 .. to THEN Serialized(record[e])[i]
                           ELSE IF i <= Len(file) THEN file[i] ELSE Hole
<1>1. PICK to \in offset[e] + 1 .. RecordLen :
        /\ file' = Written(file, Serialized(record[e]), offset[e] + 1, to)
        /\ offset' = [offset EXCEPT ![e] = to]
        /\ Goto(e, IF to = RecordLen THEN "done" ELSE "write")
  BY DEF Write
<1>2. offset[e] \in Nat /\ to \in Nat /\ offset[e] + 1 \in Nat
  BY DEF KeyRecordInv, TypeOK, RecordLen
<1>3. record[e] \in Record
  BY DEF KeyRecordInv, ExportsTell, Write
<1>4. file \in Seq(Token) /\ offset[e] + 1 \in 1 .. RecordLen
  BY <1>2 DEF KeyRecordInv, ContentsTell, RecordLen
<1>5. /\ file' \in Seq(Token)
      /\ Len(file') = IF Len(file) > to THEN Len(file) ELSE to
      /\ \A i \in 1 .. Len(file') :
           file'[i] = IF i \in offset[e] + 1 .. to THEN Serialized(record[e])[i]
                      ELSE IF i <= Len(file) THEN file[i] ELSE Hole
  <2> DEFINE from == offset[e] + 1
             r == record[e]
             w == file'
  <2>1. /\ file \in Seq(Token) /\ r \in Record /\ from \in 1 .. RecordLen
        /\ to \in from .. RecordLen /\ w = Written(file, Serialized(r), from, to)
    BY <1>1, <1>3, <1>4
  <2> DEFINE data == Serialized(r)
  <2>2. data \in Seq(Token) /\ Len(data) = RecordLen /\ Hole \in Token
    BY <2>1, SerializedIsSequence, HoleIsToken
  <2> HIDE DEF from, r, w, data
  <2>3. /\ file \in Seq(Token) /\ from \in 1 .. Len(data)
        /\ to \in from .. Len(data) /\ w = Written(file, data, from, to)
    BY <2>1, <2>2 DEF data
  <2>4. w \in Seq(Token) /\ Covers(w, file, data, from, to)
    BY <2>2, <2>3, WrittenProperties
  <2> QED BY <2>4 DEF from, r, w, data, Covers
<1> QED BY <1>1, <1>2, <1>3, <1>5 DEF Goto

LEMMA ReadStep ==
  ASSUME KeyRecordInv, NEW v \in Verifier, Read(v)
  PROVE  /\ buffer' = [buffer EXCEPT ![v] = buffer'[v]]
         /\ buffer'[v] \in Seq(Token)
         /\ Len(buffer'[v]) \in Nat /\ Len(buffer'[v]) <= Len(file)
         /\ \A i \in 1 .. Len(buffer'[v]) :
              buffer'[v][i] = IF i <= Len(buffer[v]) THEN buffer[v][i] ELSE file[i]
<1>1. PICK k \in 1 .. RecordLen : buffer' = [buffer EXCEPT ![v] = ReadMore(file, @, k)]
  BY DEF Read
<1>2. /\ buffer \in [Verifier -> Seq(Token)] /\ file \in Seq(Token)
      /\ Len(buffer[v]) \in Nat /\ Len(file) \in Nat
  BY LenProperties DEF KeyRecordInv, ContentsTell
<1>3. Len(buffer[v]) < Len(file) /\ k \in Nat
  BY <1>2 DEF Read, AtEnd, RecordLen
<1>4. buffer'[v] = ReadMore(file, buffer[v], k) /\ buffer' = [buffer EXCEPT ![v] = buffer'[v]]
  BY <1>1, <1>2
<1> DEFINE buf == buffer[v]
           more == ReadMore(file, buf, k)
<1>5. more \in Seq(Token) /\ Continues(more, file, buf, k)
  BY <1>2, <1>3, ReadMoreProperties
<1> HIDE DEF more
<1>6. buffer'[v] = more
  BY <1>4 DEF more
<1> QED BY <1>4, <1>5, <1>6 DEF Continues

(* A record, once an export has derived it, stays. *)
LEMMA RecordsStay ==
  ASSUME KeyRecordInv, [Next]_vars, NEW e \in Exporter, record[e] \in Record
  PROVE  record'[e] = record[e]
<1>1. pc[e] # "start" /\ \A v \in Verifier : e # v
  BY NoRecordIsNone, KeyRecordAssumption DEF KeyRecordInv, ExportsTell, KeyRecordAssumption
<1>2. record \in [Process -> Record \cup {NoRecord}] /\ e \in Process
  BY DEF KeyRecordInv, TypeOK, Process
<1>3. CASE EditPhoto \/ UNCHANGED vars
  BY <1>3 DEF EditPhoto, vars
<1>4. ASSUME NEW x \in Exporter, Export(x) \/ Interrupt(x) PROVE record'[e] = record[e]
  BY <1>1, <1>2, <1>4 DEF Export, ExportDerive, Create, SetPermissions, Write, Interrupt
<1>5. ASSUME NEW v \in Verifier, Verify(v) PROVE record'[e] = record[e]
  BY <1>1, <1>2, <1>5 DEF Verify, Open, Read, Load, VerifyDerive, Compare
<1> QED BY <1>3, <1>4, <1>5 DEF Next

(* Tokens keep their places: in the file, in a buffer, from one to the     *)
(* other.                                                                  *)
LEMMA TokensNext ==
  ASSUME KeyRecordInv, [Next]_vars
  PROVE  TokensTell' /\ file' \in Seq(Token) /\ Len(file') <= RecordLen
         /\ buffer' \in [Verifier -> Seq(Token)]
<1>1. ASSUME NEW t, NEW i, TokenAt(t, i) PROVE TokenAt(t, i)'
  BY <1>1, RecordsStay DEF TokenAt
<1>2. /\ file \in Seq(Token) /\ Len(file) <= RecordLen /\ Len(file) \in Nat
      /\ buffer \in [Verifier -> Seq(Token)]
      /\ \A v \in Verifier : Len(buffer[v]) \in Nat
      /\ TokensTell
  BY LenProperties DEF KeyRecordInv, ContentsTell
<1>3. CASE UNCHANGED <<file, buffer>>
  BY <1>1, <1>2, <1>3 DEF TokensTell
<1>4. ASSUME NEW e \in Exporter, Create(e)
      PROVE  file' = Empty /\ UNCHANGED buffer
  BY <1>4 DEF Create
<1>5. CASE file' = Empty /\ UNCHANGED buffer
  <2>1. file' \in Seq(Token) /\ Len(file') = 0
    BY <1>5, EmptySeq DEF Empty
  <2> QED BY <1>1, <1>2, <1>5, <2>1 DEF TokensTell, RecordLen
<1>6. ASSUME NEW e \in Exporter, Write(e)
      PROVE  TokensTell' /\ file' \in Seq(Token) /\ Len(file') <= RecordLen /\ UNCHANGED buffer
  <2>1. PICK to \in offset[e] + 1 .. RecordLen :
           /\ record[e] \in Record /\ offset[e] \in Nat
           /\ file' \in Seq(Token)
           /\ Len(file') = IF Len(file) > to THEN Len(file) ELSE to
           /\ \A i \in 1 .. Len(file') :
                file'[i] = IF i \in offset[e] + 1 .. to THEN Serialized(record[e])[i]
                           ELSE IF i <= Len(file) THEN file[i] ELSE Hole
    BY <1>6, WriteStep
  <2>2. buffer' = buffer
    BY <1>6 DEF Write
  <2>3. Len(file') <= RecordLen
    BY <1>2, <2>1 DEF RecordLen
  <2>4. ASSUME NEW i \in 1 .. Len(file') PROVE TokenAt(file'[i], i)
    <3>1. CASE i \in offset[e] + 1 .. to
      BY <2>1, <3>1 DEF TokenAt, RecordLen
    <3>2. CASE i \notin offset[e] + 1 .. to /\ i <= Len(file)
      <4>1. file'[i] = file[i] /\ i \in 1 .. Len(file)
        BY <1>2, <2>1, <3>2
      <4> QED BY <1>2, <4>1 DEF TokensTell
    <3>3. CASE i \notin offset[e] + 1 .. to /\ ~(i <= Len(file))
      BY <2>1, <3>3 DEF TokenAt
    <3> QED BY <3>1, <3>2, <3>3
  <2> QED BY <1>1, <1>2, <2>1, <2>2, <2>3, <2>4 DEF TokensTell
<1>7. ASSUME NEW v \in Verifier, Read(v)
      PROVE  TokensTell' /\ UNCHANGED file /\ buffer' \in [Verifier -> Seq(Token)]
  <2>1. file' = file
    BY <1>7 DEF Read
  <2>2. ASSUME NEW i \in 1 .. Len(buffer'[v]) PROVE TokenAt(buffer'[v][i], i)
    BY <1>2, <1>7, ReadStep DEF TokensTell
  <2>3. buffer' \in [Verifier -> Seq(Token)] /\ \A u \in Verifier : u # v => buffer'[u] = buffer[u]
    BY <1>2, <1>7, ReadStep
  <2> QED BY <1>1, <1>2, <2>1, <2>2, <2>3 DEF TokensTell
<1>8. CASE EditPhoto \/ UNCHANGED vars
  BY <1>3, <1>8 DEF EditPhoto, vars
<1>9. ASSUME NEW e \in Exporter, Export(e) \/ Interrupt(e)
      PROVE  \/ UNCHANGED <<file, buffer>> \/ Create(e) \/ Write(e)
  BY <1>9 DEF Export, ExportDerive, SetPermissions, Interrupt
<1>10. ASSUME NEW v \in Verifier, Verify(v)
      PROVE  \/ UNCHANGED <<file, buffer>> \/ Read(v)
  BY <1>10 DEF Verify, Open, Load, VerifyDerive, Compare
<1> QED BY <1>2, <1>3, <1>4, <1>5, <1>6, <1>7, <1>8, <1>9, <1>10 DEF Next

(* What load accepts is the record of an export: its checksum was written  *)
(* by one, and covers the other tokens.                                    *)
LEMMA LoadIsExported ==
  ASSUME KeyRecordInv, NEW v \in Verifier, Loads(buffer[v])
  PROVE  \E e \in Exporter : record[e] \in Record /\ Loaded(buffer[v]) = record[e]
<1> DEFINE data == buffer[v]
           body == SubSeq(data, 1, 4)
<1>1. /\ data \in Seq(Token) /\ Len(data) = 5
      /\ data[5] = Checksum(SubSeq(data, 1, Len(data) - 1))
      /\ \A i \in 1 .. 5 : TokenAt(data[i], i)
  BY DEF KeyRecordInv, ContentsTell, TokensTell, Loads, RecordLen
<1>2. data[5] = Checksum(body) /\ \A i \in 1 .. 4 : data[i] \in Token
  <2>1. Len(data) - 1 = 4
    BY <1>1
  <2>2. \A i \in 1 .. Len(data) : data[i] \in Token
    BY <1>1, ElementOfSeq
  <2> QED BY <1>1, <2>1, <2>2
<1>3. data[5].field = "checksum" /\ data[5].of = body
  BY <1>2 DEF Checksum
<1>4. PICK e \in Exporter : record[e] \in Record /\ data[5] = Serialized(record[e])[5]
  BY <1>1, <1>3 DEF TokenAt, Hole, Absent, RecordLen
<1> DEFINE r == record[e]
<1>5. body = Body(r)
  <2>1. Serialized(r)[5] = Checksum(Body(r))
    BY SerializedShape
  <2> QED BY <1>3, <1>4, <2>1 DEF Checksum
<1>6. /\ Body(r)[3] = [field |-> "key", of |-> r.key]
      /\ Body(r)[4] = [field |-> "hash", of |-> r.hash]
  BY BodyShape
<1>7. data[3] = body[3] /\ data[4] = body[4]
  <2>1. \A i \in 1 .. 4 - 1 + 1 : body[i] = data[1 + i - 1]
    BY <1>2, SubSeqProperties
  <2> QED BY <2>1
<1>8. Loaded(data) = [key |-> r.key, hash |-> r.hash]
  BY <1>5, <1>6, <1>7 DEF Loaded
<1>9. r = [key |-> r.key, hash |-> r.hash]
  BY <1>4 DEF Record, DerivedRecord
<1> QED BY <1>4, <1>8, <1>9

(* Types, and what each process knows. *)
LEMMA ProcessesNext ==
  ASSUME KeyRecordInv, [Next]_vars
  PROVE  TypeOK' /\ ContentsTell' /\ ExportsTell' /\ VerifiesTell'
<1> DEFINE Goal == TypeOK' /\ (pc \in [Process -> ExporterState \cup VerifierState])'
                   /\ ExportsTell' /\ VerifiesTell'
<1> USE DEF TypeOK, ExportsTell, VerifiesTell, Process, ExporterState, VerifierState
<1>0. /\ TypeOK /\ ExportsTell /\ VerifiesTell
      /\ pc \in [Process -> ExporterState \cup VerifierState]
      /\ \A e \in Exporter, v \in Verifier : e # v
  BY KeyRecordAssumption DEF KeyRecordInv, ContentsTell, KeyRecordAssumption
<1>1. ASSUME EditPhoto PROVE Goal
  BY <1>0, <1>1, KeyRecordAssumption DEF EditPhoto, KeyRecordAssumption
<1>2. ASSUME NEW e \in Exporter, ExportDerive(e) PROVE Goal
  <2>1. CASE Derives(photo, config[e])
    <3> DEFINE r == DerivedRecord(photo, config[e])
    <3>1. r \in Record /\ r.hash = photo
      BY <1>0, <2>1, DerivedIsRecord
    <3>2. r # NoRecord
      BY <3>1, NoRecordIsNone
    <3> HIDE DEF r
    <3>3. pc' = [pc EXCEPT ![e] = "create"] /\ record' = [record EXCEPT ![e] = r]
      BY <1>2, <2>1 DEF ExportDerive, Goto, r
    <3>4. r = DerivedRecord(r.hash, config[e])
      BY <3>1 DEF r
    <3> QED BY <1>0, <1>2, <3>1, <3>3, <3>4 DEF ExportDerive
  <2>2. CASE ~Derives(photo, config[e])
    BY <1>0, <1>2, <2>2, NoRecordIsNone DEF ExportDerive, Goto
  <2> QED BY <2>1, <2>2
<1>3. ASSUME NEW e \in Exporter, Create(e) PROVE Goal
  BY <1>0, <1>3 DEF Create, Goto
<1>4. ASSUME NEW e \in Exporter, SetPermissions(e) PROVE Goal
  BY <1>0, <1>4 DEF SetPermissions, Goto
<1>5. ASSUME NEW e \in Exporter, Write(e) PROVE Goal
  <2>1. PICK to \in offset[e] + 1 .. RecordLen :
          /\ offset' = [offset EXCEPT ![e] = to]
          /\ pc' = [pc EXCEPT ![e] = IF to = RecordLen THEN "done" ELSE "write"]
          /\ offset[e] \in Nat
    BY <1>5, WriteStep
  <2>2. to \in 0 .. RecordLen
    BY <2>1 DEF RecordLen
  <2> QED BY <1>0, <1>5, <2>1, <2>2 DEF Write
<1>6. ASSUME NEW e \in Exporter, Interrupt(e) PROVE Goal
  BY <1>0, <1>6 DEF Interrupt, Goto
<1>7. ASSUME NEW v \in Verifier, Open(v) PROVE Goal
  BY <1>0, <1>7 DEF Open, Goto
<1>8. ASSUME NEW v \in Verifier, Read(v) PROVE Goal
  BY <1>0, <1>8 DEF Read
<1>9. ASSUME NEW v \in Verifier, Load(v) PROVE Goal
  <2>1. CASE Loads(buffer[v])
    <3>1. Loaded(buffer[v]) \in Record
      BY <2>1, LoadIsExported
    <3>2. pc' = [pc EXCEPT ![v] = "derive"] /\ record' = [record EXCEPT ![v] = Loaded(buffer[v])]
      BY <1>9, <2>1 DEF Load, Goto
    <3> QED BY <1>0, <1>9, <3>1, <3>2 DEF Load
  <2>2. CASE ~Loads(buffer[v])
    BY <1>0, <1>9, <2>2 DEF Load, Goto
  <2> QED BY <2>1, <2>2
<1>10. ASSUME NEW v \in Verifier, VerifyDerive(v) PROVE Goal
  <2>1. CASE Derives(photo, config[v])
    <3> DEFINE r == DerivedRecord(photo, config[v])
    <3>1. r \in Record /\ r.hash = photo
      BY <1>0, <2>1, DerivedIsRecord
    <3>2. r = DerivedRecord(r.hash, config[v])
      BY <3>1
    <3> HIDE DEF r
    <3>3. pc' = [pc EXCEPT ![v] = "compare"] /\ derived' = [derived EXCEPT ![v] = r]
      BY <1>10, <2>1 DEF VerifyDerive, Goto, r
    <3> QED BY <1>0, <1>10, <3>1, <3>2, <3>3 DEF VerifyDerive
  <2>2. CASE ~Derives(photo, config[v])
    BY <1>0, <1>10, <2>2 DEF VerifyDerive, Goto
  <2> QED BY <2>1, <2>2
<1>11. ASSUME NEW v \in Verifier, Compare(v) PROVE Goal
  <2>1. /\ record[v] \in Record /\ derived[v] = DerivedRecord(derived[v].hash, config[v])
        /\ pc[v] = "compare"
    BY <1>0, <1>11 DEF Compare
  <2>2. (derived[v].key = record[v].key /\ derived[v].hash = record[v].hash)
          <=> derived[v] = record[v]
    <3>1. record[v] = [key |-> record[v].key, hash |-> record[v].hash]
      BY <2>1 DEF Record, DerivedRecord
    <3>2. derived[v] = [key |-> derived[v].key, hash |-> derived[v].hash]
      BY <2>1 DEF DerivedRecord
    <3> QED BY <3>1, <3>2
  <2>3. pc' = [pc EXCEPT ![v] = IF derived[v] = record[v] THEN "verified" ELSE "mismatch"]
    BY <1>11, <2>2 DEF Compare, Goto
  <2> QED BY <1>0, <1>11, <2>1, <2>3 DEF Compare
<1>12. ASSUME UNCHANGED vars PROVE Goal
  BY <1>0, <1>12 DEF vars
<1> HIDE DEF Goal
<1>13. Goal
  BY <1>1, <1>2, <1>3, <1>4, <1>5, <1>6, <1>7, <1>8, <1>9, <1>10, <1>11, <1>12
  DEF Next, Export, Verify
<1> QED BY <1>13, TokensNext DEF ContentsTell, Goal

-----------------------------------------------------------------------------
(* A key token is one an export has written; a hole or a foreign file has  *)
(* none.                                                                   *)
LEMMA ModeNext ==
  ASSUME KeyRecordInv, [Next]_vars
  PROVE  ModeTells' /\ SecretsStayPrivate'
<1>0. /\ ModeTells /\ SecretsStayPrivate
      /\ pc \in [Process -> ExporterState \cup VerifierState]
      /\ \A e \in Exporter, v \in Verifier : e # v
  BY KeyRecordAssumption DEF KeyRecordInv, ContentsTell, KeyRecordAssumption
<1> USE DEF ModeTells, SecretsStayPrivate, Process
<1>1. CASE UNCHANGED <<file, mode, pc>>
  BY <1>0, <1>1
<1>2. ASSUME NEW e \in Exporter, Create(e) PROVE ModeTells' /\ SecretsStayPrivate'
  <2>1. /\ file' = <<>> /\ pc' = [pc EXCEPT ![e] = "chmod"]
        /\ mode' = IF file = Absent THEN "wide" ELSE mode
    BY <1>2 DEF Create, Empty, Goto
  <2>2. file' # Absent /\ Len(file') = 0
    BY <2>1 DEF Absent
  <2> QED BY <1>0, <2>1, <2>2
<1>3. ASSUME NEW e \in Exporter, SetPermissions(e) PROVE ModeTells' /\ SecretsStayPrivate'
  BY <1>0, <1>3 DEF SetPermissions, Goto
<1>4. ASSUME NEW e \in Exporter, Write(e) PROVE ModeTells' /\ SecretsStayPrivate'
  <2>1. mode' = "owner" /\ file # Absent /\ pc[e] = "write"
    BY <1>0, <1>4 DEF Write
  <2>2. PICK to \in offset[e] + 1 .. RecordLen :
           /\ record[e] \in Record /\ offset[e] \in Nat
           /\ pc' = [pc EXCEPT ![e] = IF to = RecordLen THEN "done" ELSE "write"]
           /\ file' \in Seq(Token)
           /\ Len(file') = IF Len(file) > to THEN Len(file) ELSE to
           /\ \A i \in 1 .. Len(file') :
                file'[i] = IF i \in offset[e] + 1 .. to THEN Serialized(record[e])[i]
                           ELSE IF i <= Len(file) THEN file[i] ELSE Hole
    BY <1>4, WriteStep
  <2>3. file' # Absent
    <3>1. SUFFICES ASSUME file' = Absent PROVE FALSE
      OBVIOUS
    <3>2. Len(file') = 1 /\ file'[1] = Absent[1]
      BY <3>1 DEF Absent
    <3>3. to = 1 /\ 1 \in offset[e] + 1 .. to /\ 1 \in 1 .. RecordLen
      <4>1. to \in 1 .. RecordLen /\ to <= Len(file')
        <5>1. Len(file) \in Nat
          BY LenProperties DEF KeyRecordInv, ContentsTell
        <5> QED BY <2>2, <5>1 DEF RecordLen
      <4> QED BY <2>2, <3>2, <4>1 DEF RecordLen
    <3>4. file'[1] = Serialized(record[e])[1]
      BY <2>2, <3>2, <3>3
    <3> QED BY <2>2, <3>2, <3>3, <3>4, RecordTokens
  <2> QED BY <1>0, <2>1, <2>2, <2>3
<1>5. ASSUME NEW e \in Exporter, ExportDerive(e) \/ Interrupt(e)
      PROVE  ModeTells' /\ SecretsStayPrivate'
  BY <1>0, <1>5 DEF ExportDerive, Interrupt, Goto
<1>6. ASSUME NEW v \in Verifier, Verify(v) PROVE ModeTells' /\ SecretsStayPrivate'
  <2>1. UNCHANGED <<file, mode>> /\ \A e \in Exporter : pc'[e] = pc[e]
    BY <1>0, <1>6 DEF Verify, Open, Read, Load, VerifyDerive, Compare, Goto
  <2> QED BY <1>0, <2>1
<1>7. CASE EditPhoto \/ UNCHANGED vars
  BY <1>1, <1>7 DEF EditPhoto, vars
<1> QED BY <1>2, <1>3, <1>4, <1>5, <1>6, <1>7 DEF Next, Export

(* A truncation leaves its exporter owing everything; a write settles the  *)
(* tokens it covers and leaves the others where they were.                 *)
LEMMA WritesNext ==
  ASSUME KeyRecordInv, [Next]_vars
  PROVE  WritesTell'
<1> SUFFICES ASSUME Exporter # {}, NEW r \in Record, AllExport(r)',
                    NEW i \in 1 .. RecordLen
             PROVE  Stands(r, i)' \/ \E e \in Exporter : Owes(e, i)'
  BY DEF WritesTell
<1>0. /\ pc \in [Process -> ExporterState \cup VerifierState]
      /\ record \in [Process -> Record \cup {NoRecord}]
      /\ offset \in [Exporter -> 0 .. RecordLen]
      /\ \A e \in Exporter, v \in Verifier : e # v
      /\ ExportsTell /\ WritesTell /\ i \in Nat /\ i <= RecordLen
      /\ file \in Seq(Token) /\ Len(file) \in Nat
  BY KeyRecordAssumption, LenProperties
  DEF KeyRecordInv, TypeOK, ContentsTell, KeyRecordAssumption, RecordLen
<1> USE DEF Process, AllExport
<1>1. AllExport(r) => Stands(r, i) \/ \E e \in Exporter : Owes(e, i)
  BY <1>0 DEF WritesTell
<1>2. CASE UNCHANGED <<file, offset, record, pc>>
  BY <1>1, <1>2 DEF Owes, Stands
<1>3. ASSUME NEW e \in Exporter, ExportDerive(e)
      PROVE  Stands(r, i)' \/ \E x \in Exporter : Owes(x, i)'
  BY <1>0, <1>3 DEF ExportDerive, Goto, Owes
<1>4. ASSUME NEW e \in Exporter, Create(e)
      PROVE  Stands(r, i)' \/ \E x \in Exporter : Owes(x, i)'
  BY <1>0, <1>4 DEF Create, Goto, Owes
<1>5. ASSUME NEW e \in Exporter, SetPermissions(e)
      PROVE  Stands(r, i)' \/ \E x \in Exporter : Owes(x, i)'
  <2>1. pc[e] = "chmod" /\ offset'[e] = 0 /\ pc'[e] = "write"
    BY <1>0, <1>5 DEF SetPermissions, Goto, ExportsTell
  <2> QED BY <1>0, <2>1 DEF Owes
<1>6. ASSUME NEW e \in Exporter, Write(e)
      PROVE  Stands(r, i)' \/ \E x \in Exporter : Owes(x, i)'
  <2>1. PICK to \in offset[e] + 1 .. RecordLen :
           /\ record[e] \in Record /\ offset[e] \in Nat
           /\ offset' = [offset EXCEPT ![e] = to]
           /\ pc' = [pc EXCEPT ![e] = IF to = RecordLen THEN "done" ELSE "write"]
           /\ file' \in Seq(Token)
           /\ Len(file') = IF Len(file) > to THEN Len(file) ELSE to
           /\ \A j \in 1 .. Len(file') :
                file'[j] = IF j \in offset[e] + 1 .. to THEN Serialized(record[e])[j]
                           ELSE IF j <= Len(file) THEN file[j] ELSE Hole
    BY <1>6, WriteStep
  <2>2. record' = record /\ pc[e] = "write"
    BY <1>6 DEF Write
  <2>3. record[e] = r /\ AllExport(r)
    BY <1>0, <2>1, <2>2, NoRecordIsNone
  <2>4. to \in Nat /\ to <= RecordLen
    BY <2>1 DEF RecordLen
  <2>5. CASE i \in offset[e] + 1 .. to
    BY <1>0, <2>1, <2>3, <2>4, <2>5 DEF Stands
  <2>6. CASE i > to
    <3>1. to # RecordLen
      BY <1>0, <2>4, <2>6 DEF RecordLen
    <3>2. pc'[e] = "write" /\ offset'[e] = to
      BY <1>0, <2>1, <3>1
    <3> QED BY <2>6, <3>2 DEF Owes
  <2>7. CASE i <= offset[e]
    <3>1. ~Owes(e, i)
      BY <1>0, <2>1, <2>2, <2>7 DEF Owes
    <3>2. CASE Stands(r, i)
      <4>1. i \in 1 .. Len(file') /\ i \notin offset[e] + 1 .. to /\ i <= Len(file)
        BY <1>0, <2>1, <2>4, <2>7, <3>2 DEF Stands
      <4>2. file'[i] = file[i]
        BY <2>1, <4>1
      <4> QED BY <3>2, <4>1, <4>2 DEF Stands
    <3>3. ASSUME NEW x \in Exporter, Owes(x, i) PROVE Owes(x, i)'
      BY <1>0, <2>1, <3>1, <3>3 DEF Owes
    <3> QED BY <1>1, <2>3, <3>2, <3>3
  <2> QED BY <1>0, <2>1, <2>4, <2>5, <2>6, <2>7
<1>7. ASSUME NEW e \in Exporter, Interrupt(e)
      PROVE  Stands(r, i)' \/ \E x \in Exporter : Owes(x, i)'
  BY <1>0, <1>7 DEF Interrupt, Goto
<1>8. ASSUME NEW v \in Verifier, Verify(v)
      PROVE  Stands(r, i)' \/ \E x \in Exporter : Owes(x, i)'
  <2>1. /\ UNCHANGED <<file, offset>>
        /\ \A e \in Exporter : pc'[e] = pc[e] /\ record'[e] = record[e]
    BY <1>0, <1>8 DEF Verify, Open, Read, Load, VerifyDerive, Compare, Goto
  <2> QED BY <1>1, <2>1 DEF Owes, Stands
<1>9. CASE EditPhoto \/ UNCHANGED vars
  BY <1>2, <1>9 DEF EditPhoto, vars
<1> QED BY <1>3, <1>4, <1>5, <1>6, <1>7, <1>8, <1>9 DEF Next, Export

(* A load takes the record of an export; exports keep theirs. *)
LEMMA LoadsNext ==
  ASSUME KeyRecordInv, [Next]_vars
  PROVE  LoadsTell'
<1> SUFFICES ASSUME NEW v \in Verifier, record'[v] # NoRecord
             PROVE  \E e \in Exporter : record'[e] \in Record /\ record'[v] = record'[e]
  BY DEF LoadsTell
<1>0. /\ LoadsTell /\ record \in [Process -> Record \cup {NoRecord}]
      /\ \A e \in Exporter : e # v
  BY KeyRecordAssumption DEF KeyRecordInv, TypeOK, KeyRecordAssumption
<1>1. \A e \in Exporter : record[e] \in Record => record'[e] = record[e]
  BY RecordsStay
<1>2. CASE record'[v] = record[v]
  BY <1>0, <1>1, <1>2 DEF LoadsTell
<1>3. ASSUME Load(v), Loads(buffer[v])
      PROVE  \E e \in Exporter : record'[e] \in Record /\ record'[v] = record'[e]
  <2>1. record'[v] = Loaded(buffer[v])
    BY <1>0, <1>3 DEF Load, Process
  <2> QED BY <1>1, <1>3, <2>1, LoadIsExported
<1>4. ASSUME NEW x \in Exporter, Export(x) \/ Interrupt(x) PROVE record'[v] = record[v]
  BY <1>0, <1>4 DEF Export, ExportDerive, Create, SetPermissions, Write, Interrupt, Process
<1>5. ASSUME NEW u \in Verifier, Verify(u)
      PROVE  record'[v] = record[v] \/ (u = v /\ Load(v) /\ Loads(buffer[v]))
  BY <1>0, <1>5 DEF Verify, Open, Read, Load, VerifyDerive, Compare, Process
<1>6. CASE EditPhoto \/ UNCHANGED vars
  BY <1>2, <1>6 DEF EditPhoto, vars
<1> QED BY <1>2, <1>3, <1>4, <1>5, <1>6 DEF Next

LEMMA InvNext == KeyRecordInv /\ [Next]_vars => KeyRecordInv'
  BY TokensNext, ProcessesNext, ModeNext, LoadsNext, WritesNext DEF KeyRecordInv

LEMMA InvHolds == Spec => []KeyRecordInv
  BY InvInit, InvNext, PTL DEF Spec

-----------------------------------------------------------------------------
(* Results. *)

(* TypeOK: every process is in a state of its command, with records it     *)
(* derived, or a whole one it loaded.                                      *)
THEOREM TypeCorrect == Spec => []TypeOK
<1>1. KeyRecordInv => TypeOK
  BY DEF KeyRecordInv
<1> QED BY <1>1, InvHolds, PTL

(* write_secret_file: no key byte is in a file that others may read,       *)
(* however many exports truncate, chmod and write it at the same time.     *)
THEOREM KeysStayPrivate == Spec => []SecretsStayPrivate
<1>1. KeyRecordInv => SecretsStayPrivate
  BY DEF KeyRecordInv
<1> QED BY <1>1, InvHolds, PTL

(* KeyRecord::load: however truncations, writes and reads interleave, what *)
(* passes the checksum is the whole record of one export.                  *)
THEOREM LoadsAreWhole == Spec => []LoadedRecordWasExported
<1>1. KeyRecordInv => LoadedRecordWasExported
  BY DEF KeyRecordInv, LoadsTell, LoadedRecordWasExported
<1> QED BY <1>1, InvHolds, PTL

(* cmd_verify: VERIFIED says exactly that some export read the same image  *)
(* bytes and drew the same witness from them.                              *)
THEOREM VerdictsAreExact == Spec => []VerdictIsExact
<1>1. KeyRecordInv => VerdictIsExact
  <2> SUFFICES ASSUME KeyRecordInv, NEW v \in Verifier, pc[v] \in {"verified", "mismatch"}
               PROVE  pc[v] = "verified" <=>
                        \E e \in Exporter :
                          /\ record[e] = record[v] /\ record[e].hash = derived[v].hash
                          /\ Witness[derived[v].hash, config[e]] = Witness[derived[v].hash, config[v]]
    BY DEF VerdictIsExact
  <2>1. /\ record[v] \in Record
        /\ derived[v] = DerivedRecord(derived[v].hash, config[v])
        /\ pc[v] = "verified" <=> derived[v] = record[v]
    BY DEF KeyRecordInv, VerifiesTell
  <2>2. \A e \in Exporter : record[e] = record[v] =>
          record[e] = DerivedRecord(record[e].hash, config[e])
    BY <2>1, NoRecordIsNone DEF KeyRecordInv, ExportsTell
  <2>3. \E e \in Exporter : record[e] = record[v]
    BY <2>1, NoRecordIsNone DEF KeyRecordInv, LoadsTell
  <2>4. ASSUME NEW e \in Exporter, record[e] = record[v], derived[v] = record[v]
        PROVE  /\ record[e].hash = derived[v].hash
               /\ Witness[derived[v].hash, config[e]] = Witness[derived[v].hash, config[v]]
    <3> DEFINE h == derived[v].hash
    <3>1. DerivedRecord(h, config[e]) = DerivedRecord(h, config[v])
      BY <2>1, <2>2, <2>4
    <3> QED BY <2>4, <3>1 DEF DerivedRecord, MasterKey
  <2>5. ASSUME NEW e \in Exporter, record[e] = record[v], record[e].hash = derived[v].hash,
               Witness[derived[v].hash, config[e]] = Witness[derived[v].hash, config[v]]
        PROVE  derived[v] = record[v]
    <3> DEFINE h == derived[v].hash
    <3>1. MasterKey(h, config[e]) = MasterKey(h, config[v])
      BY <2>5 DEF MasterKey
    <3>2. DerivedRecord(h, config[e]) = DerivedRecord(h, config[v])
      BY <3>1 DEF DerivedRecord
    <3> QED BY <2>1, <2>2, <2>5, <3>2
  <2> QED BY <2>1, <2>3, <2>4, <2>5
<1> QED BY <1>1, InvHolds, PTL

(* Exports of one record, run at the same time, leave it behind complete:  *)
(* when nobody owes a token any more, all five stand.  Without an export   *)
(* there is no record to leave behind.                                     *)
THEOREM ExportsConverge ==
  ASSUME Exporter # {}
  PROVE  Spec => []ConcurrentExportsConverge
<1>1. KeyRecordInv => ConcurrentExportsConverge
  <2> SUFFICES ASSUME KeyRecordInv, NEW r \in Record,
                      \A e \in Exporter : pc[e] = "done" /\ record[e] = r
               PROVE  file = Serialized(r)
    BY DEF ConcurrentExportsConverge
  <2>1. AllExport(r) /\ \A i \in 1 .. RecordLen : ~ \E e \in Exporter : Owes(e, i)
    BY DEF AllExport, Owes
  <2>2. \A i \in 1 .. RecordLen : Stands(r, i)
    BY <2>1 DEF KeyRecordInv, WritesTell
  <2>3. file \in Seq(Token) /\ Len(file) \in Nat /\ Len(file) <= 5
    BY LenProperties DEF KeyRecordInv, ContentsTell, RecordLen
  <2>4. Len(file) = 5
    <3>1. Stands(r, 5)
      BY <2>2 DEF RecordLen
    <3>2. 5 \in 1 .. Len(file)
      BY <3>1 DEF Stands
    <3> DEFINE n == Len(file)
    <3>3. n \in Nat /\ n <= 5 /\ 5 \in 1 .. n
      BY <2>3, <3>2
    <3> HIDE DEF n
    <3>4. n = 5
      BY <3>3
    <3> QED BY <3>4 DEF n
  <2>5. DOMAIN file = 1 .. 5 /\ DOMAIN Serialized(r) = 1 .. 5
    BY <2>3, <2>4, SerializedShape, LenProperties
  <2>6. \A i \in 1 .. 5 : file[i] = Serialized(r)[i]
    BY <2>2 DEF RecordLen, Stands
  <2>7. file = [i \in 1 .. 5 |-> file[i]]
    BY <2>3, <2>5
  <2>8. Serialized(r) = [i \in 1 .. 5 |-> Serialized(r)[i]]
    <3>1. Serialized(r) = [i \in DOMAIN Serialized(r) |-> Serialized(r)[i]]
      BY DEF Serialized, Body
    <3> QED BY <2>5, <3>1
  <2> QED BY <2>6, <2>7, <2>8
<1> QED BY <1>1, InvHolds, PTL
=============================================================================
