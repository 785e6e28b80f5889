--------------------------- MODULE BatchRunProofs ----------------------------
(***************************************************************************)
(* For any number of batches over any folder that changes at any moment:   *)
(* the manifest answers for every picture a batch was asked for, and what  *)
(* a reader accepts as a manifest is all that one batch had to say.        *)
(***************************************************************************)
EXTENDS BatchRun, SequenceTheorems, TLAPS

-----------------------------------------------------------------------------
(* What documents are made of. *)
Entry == {EntryFor(n, x) : n \in Name, x \in Photo \cup {NoPhoto}}
Token == {Hole, Absent[1], Open, Close} \cup {Element(e) : e \in Entry}

(* The first n tokens of data, and no more. *)
IsPrefix(tokens, data, n) ==
  /\ n \in 0 .. Len(data) /\ Len(tokens) = n
  /\ \A i \in 1 .. n : tokens[i] = data[i]

-----------------------------------------------------------------------------
(* The inductive invariant, in named parts. *)
Listed == {"derive", "create"} \cup Writing \cup {"done"}
Complete == {"create"} \cup Writing \cup {"done"}
Settled == Writing \cup {"done", "killed"}

TypeOK ==
  /\ folder \in [Name -> Photo \cup {NoPhoto}]
  /\ touched \in [Batch -> SUBSET Name]
  /\ pc \in [Batch -> {"start", "list", "derive", "create"} \cup Writing \cup Stopped]
  /\ request \in Requests
  /\ seen \in [Batch -> SUBSET Name]
  /\ paths \in [Batch -> Seq(Name)]
  /\ entries \in [Batch -> Seq(Entry)]
  /\ offset \in [Batch -> Nat]
  /\ file \in Seq(Token) /\ buffer \in Seq(Token)
  /\ \A b \in Batch : pc[b] # "killed" => b \in DOMAIN request

(* Before and during the listing: no name twice, and of the images that    *)
(* nobody has touched none that read_dir has returned is missing.          *)
ListingTells(b) ==
  /\ pc[b] \in {"start", "list"} => entries[b] = <<>> /\ offset[b] = 0
  /\ pc[b] = "start" => seen[b] = {} /\ paths[b] = <<>> /\ touched[b] = {}
  /\ pc[b] = "list" =>
       /\ request[b].files = <<>>
       /\ \A k, l \in DOMAIN paths[b] : paths[b][k] = paths[b][l] => k = l
       /\ \A k \in DOMAIN paths[b] : paths[b][k] \in seen[b]
       /\ \A n \in ImageName \cap seen[b] :
            \/ n \in touched[b] \/ folder[n] = NoPhoto
            \/ \E k \in DOMAIN paths[b] : paths[b][k] = n

(* Afterwards: what is derived is what was asked for. *)
PathsTell(b) ==
  /\ pc[b] \in Listed /\ request[b].files # <<>> => paths[b] = request[b].files
  /\ pc[b] \in Listed /\ request[b].files = <<>> =>
       /\ \A k, l \in DOMAIN paths[b] : k < l => paths[b][k] < paths[b][l]
       /\ \A n \in ImageName :
            \/ n \in touched[b] \/ folder[n] = NoPhoto
            \/ \E k \in DOMAIN paths[b] : paths[b][k] = n

(* There is an entry for every path so far, and it is the one its bytes    *)
(* deserve unless somebody touched them.                                   *)
EntriesTell(b) ==
  /\ pc[b] \in Listed => Len(entries[b]) <= Len(paths[b])
  /\ pc[b] \in Complete => Len(entries[b]) = Len(paths[b])
  /\ pc[b] \in {"derive", "create", "chmod"} => offset[b] = 0
  /\ pc[b] \in Listed =>
       \A k \in DOMAIN entries[b] :
         /\ entries[b][k].image = paths[b][k]
         /\ paths[b][k] \notin touched[b] =>
              entries[b][k] = EntryFor(paths[b][k], folder[paths[b][k]])

EveryBatchTells == \A b \in Batch : ListingTells(b) /\ PathsTell(b) /\ EntriesTell(b)

(* While nobody truncates under somebody else, one batch at most is        *)
(* writing, the file is as much of a whole manifest as its writer has got  *)
(* done, and the reader has a prefix of it.                                *)
WrittenBy(c) ==
  /\ pc[c] \in Settled /\ Len(entries[c]) = Len(paths[c])
  /\ IsPrefix(file, Json(entries[c]), offset[c])
  /\ \A b \in Batch : pc[b] \in Writing => b = c
NobodyWrites == file = Absent /\ \A b \in Batch : pc[b] \notin Writing
FileTells ==
  ~overlapped =>
    /\ NobodyWrites \/ \E c \in Batch : WrittenBy(c)
    /\ reading = "yes" =>
         Len(buffer) <= Len(file) /\ \A i \in 1 .. Len(buffer) : buffer[i] = file[i]

(* What has been loaded is all one batch had to say, and stays it. *)
LoadTells ==
  ~overlapped /\ reading = "loaded" =>
    \E b \in Batch : pc[b] \in Settled /\ loaded = entries[b] /\ Len(entries[b]) = Len(paths[b])

BatchInv == TypeOK /\ EveryBatchTells /\ FileTells /\ LoadTells

-----------------------------------------------------------------------------
(* Lemmas about documents and the calls of FileBytes. *)
LEMMA EntryIs ==
  ASSUME NEW n \in Name, NEW x \in Photo \cup {NoPhoto}
  PROVE  EntryFor(n, x) \in Entry /\ EntryFor(n, x).image = n
<1>1. EntryFor(n, x) \in Entry
  BY DEF Entry
<1>2. Success(n, x).image = n /\ Failure(n).image = n
  BY DEF Success, Failure
<1>3. EntryFor(n, x) = Success(n, x) \/ EntryFor(n, x) = Failure(n)
  BY Zenon DEF EntryFor
<1> QED
  BY <1>1, <1>2, <1>3

LEMMA TokensAre ==
  /\ Hole \in Token /\ Absent[1] \in Token /\ Open \in Token /\ Close \in Token
  /\ \A e \in Entry : Element(e) \in Token
<1> DEFINE Elements == {Element(e) : e \in Entry}
<1>1. Token = {Hole, Absent[1], Open, Close} \cup Elements
  BY DEF Token
<1>2. \A e \in Entry : Element(e) \in Elements
  OBVIOUS
<1> HIDE DEF Elements
<1> QED
  BY <1>1, <1>2

(* A manifest between its braces. *)
LEMMA JsonIs ==
  ASSUME NEW es \in Seq(Entry)
  PROVE  /\ Json(es) \in Seq(Token) /\ Len(es) \in Nat /\ Len(Json(es)) = Len(es) + 2
         /\ Json(es)[1] = Open /\ Json(es)[Len(es) + 2] = Close
         /\ \A i \in 1 .. Len(es) : Json(es)[i + 1] = Element(es[i])
<1> DEFINE middle == [k \in DOMAIN es |-> Element(es[k])]
<1>1. DOMAIN es = 1 .. Len(es) /\ Len(es) \in Nat /\ (\A k \in 1 .. Len(es) : es[k] \in Entry)
  OBVIOUS
<1>2. \A k \in DOMAIN es : Element(es[k]) \in Token
  BY <1>1, TokensAre
<1>3. middle \in [1 .. Len(es) -> Token]
  BY <1>1, <1>2
<1>4. PICK m \in Seq(Token) :
        m = middle /\ Len(m) = Len(es) /\ \A k \in 1 .. Len(es) : m[k] = Element(es[k])
  <2>1. middle \in Seq(Token) /\ Len(middle) = Len(es)
    <3> HIDE DEF middle
    <3> QED
      BY <1>1, <1>3
  <2>2. \A k \in 1 .. Len(es) : middle[k] = Element(es[k])
    BY <1>1
  <2> HIDE DEF middle
  <2> QED
    BY <2>1, <2>2
<1>5. Json(es) = <<Open>> \o m \o <<Close>>
  BY <1>4 DEF Json
<1>6. <<Open>> \in Seq(Token) /\ <<Close>> \in Seq(Token)
  BY TokensAre
<1>7. PICK n \in Nat : n = Len(es)
  BY <1>1
<1>8. PICK f : f = <<Open>> \o m
  OBVIOUS
<1>9. f \in Seq(Token) /\ Len(f) = n + 1 /\ f[1] = Open /\ \A i \in 1 .. n : f[i + 1] = m[i]
  BY <1>4, <1>6, <1>7, <1>8
<1>10. PICK g : g = f \o <<Close>>
  OBVIOUS
<1>0. g \in Seq(Token) /\ Len(g) = n + 2 /\ g[n + 2] = Close /\ \A i \in 1 .. n + 1 : g[i] = f[i]
  BY <1>6, <1>9, <1>10
<1>11. 1 \in 1 .. n + 1 /\ \A i \in 1 .. n : i + 1 \in 1 .. n + 1
  OBVIOUS
<1>12. g[1] = Open /\ \A i \in 1 .. n : g[i + 1] = Element(es[i])
  <2>1. \A i \in 1 .. n : m[i] = Element(es[i])
    BY <1>4, <1>7
  <2>2. \A i \in 1 .. n : g[i + 1] = m[i]
    BY <1>9, <1>0, <1>11
  <2> QED
    BY <1>9, <1>0, <1>11, <2>1, <2>2
<1> QED
  BY <1>5, <1>7, <1>8, <1>10, <1>0, <1>12

(* A prefix that parses is the whole manifest. *)
LEMMA PrefixThatParses ==
  ASSUME NEW es \in Seq(Entry), NEW data \in Seq(Token), NEW n \in Nat,
         IsPrefix(data, Json(es), n), Parses(data)
  PROVE  Parsed(data) = es
<1> DEFINE j == Json(es)
<1>1. PICK m \in Nat : m = Len(es)
  BY JsonIs
<1>2. /\ Len(j) = m + 2 /\ j[1] = Open /\ j[m + 2] = Close
      /\ \A i \in 1 .. m : j[i + 1] = Element(es[i])
  BY <1>1, JsonIs
<1> HIDE DEF j
<1>3. /\ n \in 0 .. m + 2 /\ Len(data) = n /\ n >= 2
      /\ \A i \in 1 .. n : data[i] = j[i]
  BY <1>2 DEF IsPrefix, Parses, j
<1>4. data[n] = Close
  BY <1>3 DEF Parses
<1>5. n = m + 2
  <2> SUFFICES ASSUME n < m + 2 PROVE FALSE
    BY <1>3
  <2>1. PICK i \in 1 .. m : i + 1 = n
    <3>1. n - 1 \in 1 .. m /\ n - 1 + 1 = n
      BY <1>3
    <3> QED
      BY <3>1
  <2>2. n \in 1 .. n
    BY <1>3
  <2>3. data[n] = Element(es[i])
    BY <1>2, <1>3, <2>1, <2>2
  <2> QED
    BY <1>4, <2>3 DEF Close, Element
<1>6. \A k \in 1 .. m : data[k + 1].of = es[k]
  <2>1. \A k \in 1 .. m : k + 1 \in 1 .. n
    BY <1>5
  <2>2. \A k \in 1 .. m : data[k + 1] = Element(es[k])
    BY <1>2, <1>3, <2>1
  <2>3. \A e : Element(e).of = e
    BY DEF Element
  <2> QED
    BY <2>2, <2>3, Zenon
<1>7. n - 2 = m
  BY <1>5
<1>8. Parsed(data) = [k \in 1 .. m |-> data[k + 1].of]
  BY <1>3, <1>7 DEF Parsed
<1>9. es = [k \in 1 .. m |-> es[k]]
  BY <1>1
<1> QED
  BY <1>6, <1>8, <1>9

(* One write call goes on with the prefix its writer has written. *)
LEMMA WriteGoesOn ==
  ASSUME NEW data \in Seq(Token), NEW now \in Seq(Token), NEW from \in Nat,
         IsPrefix(now, data, from), NEW to \in from + 1 .. Len(data)
  PROVE  /\ Written(now, data, from + 1, to) \in Seq(Token)
         /\ IsPrefix(Written(now, data, from + 1, to), data, to)
         /\ \A i \in 1 .. Len(now) : Written(now, data, from + 1, to)[i] = now[i]
<1> DEFINE w == Written(now, data, from + 1, to)
<1>1. Len(now) = from /\ Len(data) \in Nat /\ to \in Nat /\ from < to /\ to <= Len(data)
      /\ \A i \in 1 .. from : now[i] = data[i]
  BY DEF IsPrefix
<1>2. w = [i \in 1 .. to |-> data[i]]
  <2>1. \A i \in 1 .. to : i \in from + 1 .. to \/ (i \in 1 .. from /\ i <= Len(now))
    BY <1>1
  <2>2. w = [i \in 1 .. to |-> IF i \in from + 1 .. to THEN data[i]
                                ELSE IF i <= Len(now) THEN now[i] ELSE Hole]
    BY <1>1 DEF Written
  <2> HIDE DEF w
  <2> QED
    BY <1>1, <2>1, <2>2
<1>3. \A i \in 1 .. to : data[i] \in Token
  BY <1>1
<1>4. w \in [1 .. to -> Token]
  BY <1>2, <1>3
<1> HIDE DEF w
<1>5. w \in Seq(Token) /\ Len(w) = to /\ \A i \in 1 .. to : w[i] = data[i]
  BY <1>1, <1>2, <1>4
<1>6. \A i \in 1 .. Len(now) : i \in 1 .. to
  BY <1>1
<1> QED
  BY <1>1, <1>5, <1>6 DEF w, IsPrefix

(* One write call leaves a file of tokens. *)
LEMMA WrittenIsFile ==
  ASSUME NEW data \in Seq(Token), NEW now \in Seq(Token), NEW from \in Nat,
         NEW to \in from + 1 .. Len(data)
  PROVE  Written(now, data, from + 1, to) \in Seq(Token)
<1> DEFINE n == IF Len(now) > to THEN Len(now) ELSE to
           w == Written(now, data, from + 1, to)
<1>1. w \in [1 .. n -> Token] /\ n \in Nat
  BY TokensAre DEF Written
<1> HIDE DEF n, w
<1>2. w \in Seq(Token)
  BY <1>1
<1> QED
  BY <1>2 DEF w

(* One read call keeps every token at its place. *)
LEMMA ReadGoesOn ==
  ASSUME NEW now \in Seq(Token), NEW buf \in Seq(Token), NEW k \in Nat, Len(buf) < Len(now)
  PROVE  /\ ReadMore(now, buf, k) \in Seq(Token)
         /\ Len(ReadMore(now, buf, k)) <= Len(now)
         /\ \A i \in 1 .. Len(ReadMore(now, buf, k)) :
              ReadMore(now, buf, k)[i] = IF i <= Len(buf) THEN buf[i] ELSE now[i]
  BY DEF ReadMore

-----------------------------------------------------------------------------
(* What a step leaves alone stays true. *)
KeepsBatch(b) ==
  /\ pc'[b] = pc[b] /\ seen'[b] = seen[b] /\ paths'[b] = paths[b]
  /\ entries'[b] = entries[b] /\ offset'[b] = offset[b]
  /\ touched' = touched /\ folder' = folder /\ request' = request

BatchTells(b) == ListingTells(b) /\ PathsTell(b) /\ EntriesTell(b)

(* What is known of a batch stays known when a step does not concern it. *)
LEMMA OthersTell ==
  ASSUME NEW b \in Batch, BatchTells(b), KeepsBatch(b)
  PROVE  BatchTells(b)'
<1>1. ListingTells(b)'
  BY DEF BatchTells, KeepsBatch, ListingTells
<1>2. PathsTell(b)'
  BY DEF BatchTells, KeepsBatch, PathsTell
<1>3. EntriesTell(b)'
  BY DEF BatchTells, KeepsBatch, EntriesTell
<1> QED
  BY <1>1, <1>2, <1>3 DEF BatchTells

LEMMA EveryoneTells == EveryBatchTells <=> \A b \in Batch : BatchTells(b)
  BY DEF EveryBatchTells, BatchTells

(* A step of one batch: it is enough to look at that batch. *)
LEMMA OneBatchMoves ==
  ASSUME EveryBatchTells, NEW b \in Batch, BatchTells(b)',
         \A c \in Batch \ {b} : KeepsBatch(c)
  PROVE  EveryBatchTells'
<1>1. \A c \in Batch : BatchTells(c)'
  <2> TAKE c \in Batch
  <2>1. CASE c = b
    BY <2>1
  <2>2. CASE c # b
    BY <2>2, EveryoneTells, OthersTell
  <2> QED
    BY <2>1, <2>2
<1> QED
  BY <1>1 DEF EveryBatchTells, BatchTells

(* A batch that has its entries for good keeps them. *)
SettledStay ==
  \A c \in Batch : pc[c] \in Settled =>
    pc'[c] \in Settled /\ entries'[c] = entries[c] /\ paths'[c] = paths[c]

(* The manifest is still what its writer has written when nobody touches   *)
(* it and nobody starts to write.                                          *)
LEMMA FileStays ==
  ASSUME FileTells, SettledStay, UNCHANGED <<file, overlapped, buffer, reading, offset>>,
         \A c \in Batch : pc'[c] \in Writing => pc[c] \in Writing
  PROVE  FileTells'
<1> SUFFICES ASSUME ~overlapped PROVE FileTells'
  BY DEF FileTells
<1>1. CASE NobodyWrites
  <2>1. NobodyWrites'
    BY <1>1 DEF NobodyWrites
  <2> QED
    BY <2>1 DEF FileTells
<1>2. ASSUME NEW c \in Batch, WrittenBy(c) PROVE FileTells'
  <2>1. pc'[c] \in Settled /\ entries'[c] = entries[c] /\ paths'[c] = paths[c]
    BY <1>2 DEF WrittenBy, SettledStay
  <2>2. WrittenBy(c)'
    BY <1>2, <2>1 DEF WrittenBy
  <2> QED
    BY <2>2 DEF FileTells
<1> QED
  BY <1>1, <1>2 DEF FileTells

(* What has been loaded stays what its batch had to say. *)
LEMMA LoadStays ==
  ASSUME LoadTells, SettledStay, UNCHANGED <<reading, loaded>>, overlapped => overlapped'
  PROVE  LoadTells'
<1> SUFFICES ASSUME ~overlapped', reading = "loaded" PROVE LoadTells'
  BY DEF LoadTells
<1>1. PICK c \in Batch : pc[c] \in Settled /\ loaded = entries[c] /\ Len(entries[c]) = Len(paths[c])
  BY DEF LoadTells
<1>2. pc'[c] \in Settled /\ loaded' = entries'[c] /\ Len(entries'[c]) = Len(paths'[c])
  BY <1>1 DEF SettledStay
<1> QED
  BY <1>2 DEF LoadTells

-----------------------------------------------------------------------------
(* The initial states. *)
LEMMA InitEstablishes ==
  ASSUME Init
  PROVE  BatchInv
<1>1. TypeOK
  <2>1. <<>> \in Seq(Name) /\ <<>> \in Seq(Entry) /\ Empty \in Seq(Token)
    BY DEF Empty
  <2>2. Absent \in Seq(Token)
    BY TokensAre DEF Absent
  <2>3. folder \in [Name -> Photo \cup {NoPhoto}] /\ touched \in [Batch -> SUBSET Name]
    BY DEF Init
  <2>4. /\ request \in Requests
        /\ pc \in [Batch -> {"start", "list", "derive", "create"} \cup Writing \cup Stopped]
        /\ \A b \in Batch : pc[b] # "killed" => b \in DOMAIN request
    BY DEF Init, Writing, Stopped
  <2>5. seen \in [Batch -> SUBSET Name] /\ paths \in [Batch -> Seq(Name)]
    BY <2>1 DEF Init
  <2>6. entries \in [Batch -> Seq(Entry)] /\ offset \in [Batch -> Nat]
    BY <2>1 DEF Init
  <2>7. file \in Seq(Token) /\ buffer \in Seq(Token)
    BY <2>1, <2>2 DEF Init
  <2> QED
    BY <2>3, <2>4, <2>5, <2>6, <2>7 DEF TypeOK
<1>2. EveryBatchTells
  <2> SUFFICES ASSUME NEW b \in Batch
               PROVE  ListingTells(b) /\ PathsTell(b) /\ EntriesTell(b)
    BY DEF EveryBatchTells
  <2>1. pc[b] \in {"start", "killed"}
    BY DEF Init
  <2>2. entries[b] = <<>> /\ offset[b] = 0 /\ seen[b] = {} /\ paths[b] = <<>> /\ touched[b] = {}
    BY DEF Init
  <2> QED
    BY <2>1, <2>2
    DEF ListingTells, PathsTell, EntriesTell, Listed, Complete, Writing
<1>3. NobodyWrites
  BY DEF Init, NobodyWrites, Writing
<1>4. FileTells
  BY <1>3, TokensAre DEF FileTells, Init, Absent, Empty
<1>5. LoadTells
  BY DEF LoadTells, Init
<1> QED
  BY <1>1, <1>2, <1>4, <1>5 DEF BatchInv

-----------------------------------------------------------------------------
(* One lemma per action. *)
LEMMA EditFolderPreserves ==
  ASSUME BatchInv, EditFolder
  PROVE  BatchInv'
<1> USE DEF BatchInv
<1>1. PICK n \in Name, x \in Photo \cup {NoPhoto} :
        /\ folder' = [folder EXCEPT ![n] = x]
        /\ touched' = [b \in Batch |-> IF pc[b] = "start" THEN {} ELSE touched[b] \cup {n}]
  BY DEF EditFolder
<1>2. UNCHANGED <<file, mode, overlapped, pc, request, seen, paths, entries, offset,
                  reading, buffer, loaded>>
  BY DEF EditFolder, work, reader
<1>3. TypeOK'
  BY <1>1, <1>2 DEF TypeOK
<1>4. \A m \in Name : m # n => folder'[m] = folder[m]
  BY <1>1 DEF TypeOK
<1>5. EveryBatchTells'
  <2>1. ASSUME NEW b \in Batch PROVE BatchTells(b)'
    <3>1. BatchTells(b)
      BY EveryoneTells
    <3>2. pc[b] # "start" => touched'[b] = touched[b] \cup {n}
      BY <1>1
    <3>3. pc[b] = "start" => touched'[b] = {}
      BY <1>1
    <3>4. \A m \in Name : m \notin touched'[b] /\ pc[b] # "start" =>
            m \notin touched[b] /\ folder'[m] = folder[m]
      BY <1>4, <3>2
    <3>5. ImageName \subseteq Name /\ paths[b] \in Seq(Name)
      BY BatchAssumption DEF TypeOK
    <3>6. ListingTells(b)'
      BY <1>2, <3>1, <3>3, <3>4, <3>5 DEF ListingTells, BatchTells
    <3>7. PathsTell(b)'
      BY <1>2, <3>1, <3>4, <3>5 DEF PathsTell, BatchTells, Listed, Writing
    <3>8. EntriesTell(b)'
      <4> SUFFICES ASSUME pc[b] \in Listed, NEW k \in DOMAIN entries[b],
                          paths[b][k] \notin touched'[b]
                   PROVE  entries[b][k] = EntryFor(paths[b][k], folder'[paths[b][k]])
        BY <1>2, <3>1, Zenon DEF EntriesTell, BatchTells
      <4>1. paths[b][k] \in Name
        BY <3>1, <3>5 DEF EntriesTell, BatchTells, TypeOK
      <4>2. paths[b][k] \notin touched[b] /\ folder'[paths[b][k]] = folder[paths[b][k]]
        BY <3>4, <4>1 DEF Listed, Writing
      <4> QED
        BY <3>1, <4>2 DEF EntriesTell, BatchTells
    <3> QED
      BY <3>6, <3>7, <3>8 DEF BatchTells
  <2> QED
    BY <2>1 DEF EveryBatchTells, BatchTells
<1>6. SettledStay
  BY <1>2 DEF SettledStay
<1>7. FileTells' /\ LoadTells'
  BY <1>2, <1>6, FileStays, LoadStays
<1> QED
  BY <1>3, <1>5, <1>7

LEMMA StartPreserves ==
  ASSUME BatchInv, NEW b \in Batch, Start(b)
  PROVE  BatchInv'
<1> USE DEF BatchInv
<1> DEFINE files == request[b].files
           next == IF files = <<>> THEN "list" ELSE "derive"
<1>1. /\ pc[b] = "start" /\ pc' = [pc EXCEPT ![b] = next]
      /\ paths' = [paths EXCEPT ![b] = files]
      /\ UNCHANGED <<folder, edits, touched, file, mode, overlapped, request, seen,
                     entries, offset, reading, buffer, loaded>>
  BY DEF Start, Goto, disk, reader
<1>2. files \in Seq(Name)
  BY <1>1, BatchAssumption DEF TypeOK
<1>3. TypeOK'
  BY <1>1, <1>2 DEF TypeOK
<1>4. pc'[b] = next /\ paths'[b] = files
  BY <1>1 DEF TypeOK
<1>5. \A c \in Batch \ {b} : KeepsBatch(c)
  BY <1>1 DEF TypeOK, KeepsBatch
<1>6. BatchTells(b)'
  <2>1. BatchTells(b)
    BY EveryoneTells
  <2>2. entries[b] = <<>> /\ offset[b] = 0 /\ seen[b] = {}
    BY <1>1, <2>1 DEF BatchTells, ListingTells
  <2>3. ListingTells(b)'
    BY <1>1, <1>4, <2>2 DEF ListingTells
  <2>4. PathsTell(b)'
    BY <1>1, <1>4 DEF PathsTell, Listed, Writing
  <2>5. EntriesTell(b)'
    BY <1>1, <1>2, <1>4, <2>2 DEF EntriesTell, Complete, Writing
  <2> QED
    BY <2>3, <2>4, <2>5 DEF BatchTells
<1>7. EveryBatchTells'
  BY <1>5, <1>6, OneBatchMoves
<1>8. SettledStay /\ \A c \in Batch : pc'[c] \in Writing => pc[c] \in Writing
  BY <1>1, <1>4, <1>5 DEF SettledStay, KeepsBatch, Settled, Writing
<1>9. FileTells' /\ LoadTells'
  BY <1>1, <1>8, FileStays, LoadStays
<1> QED
  BY <1>3, <1>7, <1>9

LEMMA ListEntryPreserves ==
  ASSUME BatchInv, NEW b \in Batch, ListEntry(b)
  PROVE  BatchInv'
<1> USE DEF BatchInv
<1>1. PICK n \in Name \ seen[b] :
        /\ seen' = [seen EXCEPT ![b] = @ \cup {n}]
        /\ paths' = [paths EXCEPT ![b] =
                       IF folder[n] # NoPhoto /\ n \in ImageName THEN Append(@, n) ELSE @]
  BY DEF ListEntry
<1>2. /\ pc[b] = "list"
      /\ UNCHANGED <<folder, edits, touched, file, mode, overlapped, pc, request,
                     entries, offset, reading, buffer, loaded>>
  BY DEF ListEntry, disk, reader
<1>3. PICK p : p = paths[b]
  OBVIOUS
<1>4. p \in Seq(Name) /\ seen[b] \subseteq Name
  BY <1>3 DEF TypeOK
<1>5. PICK q : q = IF folder[n] # NoPhoto /\ n \in ImageName THEN Append(p, n) ELSE p
  OBVIOUS
<1>6. q \in Seq(Name)
  BY <1>4, <1>5
<1>7. paths' = [paths EXCEPT ![b] = q] /\ paths'[b] = q /\ seen'[b] = seen[b] \cup {n}
  BY <1>1, <1>3, <1>5 DEF TypeOK
<1>8. TypeOK'
  BY <1>1, <1>2, <1>6, <1>7 DEF TypeOK
<1>9. \A c \in Batch \ {b} : KeepsBatch(c)
  BY <1>1, <1>2, <1>7 DEF TypeOK, KeepsBatch
<1>10. BatchTells(b)'
  <2>1. BatchTells(b)
    BY EveryoneTells
  <2>2. /\ entries[b] = <<>> /\ offset[b] = 0 /\ request[b].files = <<>>
        /\ \A k, l \in DOMAIN p : p[k] = p[l] => k = l
        /\ \A k \in DOMAIN p : p[k] \in seen[b]
        /\ \A m \in ImageName \cap seen[b] :
             \/ m \in touched[b] \/ folder[m] = NoPhoto
             \/ \E k \in DOMAIN p : p[k] = m
    BY <1>2, <1>3, <2>1 DEF BatchTells, ListingTells
  <2>3. q # p => /\ DOMAIN q = DOMAIN p \cup {Len(p) + 1} /\ q[Len(p) + 1] = n
                 /\ Len(p) + 1 \notin DOMAIN p
                 /\ \A k \in DOMAIN p : q[k] = p[k]
    BY <1>4, <1>5
  <2>4. \A k, l \in DOMAIN q : q[k] = q[l] => k = l
    BY <2>2, <2>3
  <2>5. \A k \in DOMAIN q : q[k] \in seen[b] \cup {n}
    BY <2>2, <2>3
  <2>6. \A m \in ImageName \cap (seen[b] \cup {n}) :
          \/ m \in touched[b] \/ folder[m] = NoPhoto
          \/ \E k \in DOMAIN q : q[k] = m
    <3> TAKE m \in ImageName \cap (seen[b] \cup {n})
    <3>1. CASE m = n
      <4> SUFFICES ASSUME folder[n] # NoPhoto PROVE \E k \in DOMAIN q : q[k] = n
        BY <3>1
      <4>1. q = Append(p, n)
        BY <3>1, <1>5
      <4>2. q[Len(p) + 1] = n /\ Len(p) + 1 \in DOMAIN q
        BY <1>4, <4>1
      <4> QED
        BY <4>2
    <3>2. CASE m \in seen[b]
      BY <2>2, <2>3, <3>2
    <3> QED
      BY <3>1, <3>2
  <2>7. ListingTells(b)'
    BY <1>2, <1>7, <2>2, <2>4, <2>5, <2>6 DEF ListingTells
  <2>8. PathsTell(b)' /\ EntriesTell(b)'
    BY <1>2 DEF PathsTell, EntriesTell, Listed, Complete, Writing
  <2> QED
    BY <2>7, <2>8 DEF BatchTells
<1>11. EveryBatchTells'
  BY <1>9, <1>10, OneBatchMoves
<1>12. SettledStay
  BY <1>2, <1>9 DEF SettledStay, KeepsBatch, Settled, Writing
<1>13. FileTells' /\ LoadTells'
  BY <1>2, <1>12, FileStays, LoadStays
<1> QED
  BY <1>8, <1>11, <1>13

LEMMA EndListingPreserves ==
  ASSUME BatchInv, NEW b \in Batch, EndListing(b)
  PROVE  BatchInv'
<1> USE DEF BatchInv
<1>1. PICK p : p = paths[b]
  OBVIOUS
<1>2. PICK place \in Bijection(DOMAIN p, DOMAIN p) :
        /\ \A k, l \in DOMAIN p : k < l => p[place[k]] <= p[place[l]]
        /\ paths' = [paths EXCEPT ![b] = [k \in DOMAIN p |-> p[place[k]]]]
  BY <1>1 DEF EndListing
<1> DEFINE next == IF p = <<>> THEN "empty" ELSE "derive"
<1>3. /\ pc[b] = "list" /\ seen[b] = Name /\ pc' = [pc EXCEPT ![b] = next]
      /\ UNCHANGED <<folder, edits, touched, file, mode, overlapped, request, seen,
                     entries, offset, reading, buffer, loaded>>
  BY <1>1 DEF EndListing, Goto, disk, reader
<1>4. p \in Seq(Name)
  BY <1>1 DEF TypeOK
<1>5. PICK n \in Nat : n = Len(p) /\ DOMAIN p = 1 .. n
  BY <1>4
<1>6. /\ place \in [1 .. n -> 1 .. n]
      /\ \A k, l \in 1 .. n : place[k] = place[l] => k = l
      /\ \A l \in 1 .. n : \E k \in 1 .. n : place[k] = l
  BY <1>2, <1>5 DEF Bijection, Injection, Surjection, IsInjective
<1>7. PICK q : q = [k \in 1 .. n |-> p[place[k]]]
  OBVIOUS
<1>8. /\ q \in [1 .. n -> Name]
      /\ \A k \in 1 .. n : q[k] = p[place[k]]
  <2>1. \A k \in 1 .. n : p[place[k]] \in Name
    BY <1>4, <1>5, <1>6
  <2> QED
    BY <1>7, <2>1
<1>9. q \in Seq(Name) /\ Len(q) = n /\ DOMAIN q = 1 .. n
  BY <1>8
<1>10. paths' = [paths EXCEPT ![b] = q] /\ paths'[b] = q /\ pc'[b] = next
  BY <1>2, <1>3, <1>5, <1>7 DEF TypeOK
<1>11. TypeOK'
  BY <1>3, <1>9, <1>10 DEF TypeOK, Stopped
<1>12. \A c \in Batch \ {b} : KeepsBatch(c)
  BY <1>3, <1>10 DEF TypeOK, KeepsBatch
<1>13. BatchTells(b)'
  <2>1. BatchTells(b)
    BY EveryoneTells
  <2>2. /\ entries[b] = <<>> /\ offset[b] = 0 /\ request[b].files = <<>>
        /\ \A k, l \in 1 .. n : p[k] = p[l] => k = l
        /\ \A m \in ImageName \cap Name :
             \/ m \in touched[b] \/ folder[m] = NoPhoto
             \/ \E k \in 1 .. n : p[k] = m
    BY <1>1, <1>3, <1>5, <2>1 DEF BatchTells, ListingTells
  <2>3. \A k, l \in 1 .. n : k < l => q[k] < q[l]
    <3> TAKE k, l \in 1 .. n
    <3> HAVE k < l
    <3>1. q[k] <= q[l]
      BY <1>2, <1>5, <1>8
    <3>2. q[k] # q[l]
      <4>1. place[k] # place[l] /\ place[k] \in 1 .. n /\ place[l] \in 1 .. n
        BY <1>6
      <4> QED
        BY <1>8, <2>2, <4>1
    <3>3. q[k] \in Int /\ q[l] \in Int
      BY <1>8, BatchAssumption
    <3> QED
      BY <3>1, <3>2, <3>3
  <2>4. \A m \in ImageName :
          \/ m \in touched[b] \/ folder[m] = NoPhoto
          \/ \E k \in 1 .. n : q[k] = m
    <3> TAKE m \in ImageName
    <3>1. ASSUME NEW l \in 1 .. n, p[l] = m PROVE \E k \in 1 .. n : q[k] = m
      BY <1>6, <1>8, <3>1
    <3> QED
      BY <2>2, <3>1, BatchAssumption
  <2>5. ListingTells(b)'
    BY <1>10 DEF ListingTells
  <2>6. PathsTell(b)'
    BY <1>3, <1>9, <1>10, <2>2, <2>3, <2>4 DEF PathsTell
  <2>7. EntriesTell(b)'
    BY <1>3, <1>9, <1>10, <2>2 DEF EntriesTell, Complete, Writing
  <2> QED
    BY <2>5, <2>6, <2>7 DEF BatchTells
<1>14. EveryBatchTells'
  BY <1>12, <1>13, OneBatchMoves
<1>15. SettledStay /\ \A c \in Batch : pc'[c] \in Writing => pc[c] \in Writing
  BY <1>3, <1>10, <1>12 DEF SettledStay, KeepsBatch, Settled, Writing
<1>16. FileTells' /\ LoadTells'
  BY <1>3, <1>15, FileStays, LoadStays
<1> QED
  BY <1>11, <1>14, <1>16

LEMMA DerivePreserves ==
  ASSUME BatchInv, NEW b \in Batch, Derive(b)
  PROVE  BatchInv'
<1> USE DEF BatchInv
<1>1. PICK p, es : p = paths[b] /\ es = entries[b]
  OBVIOUS
<1>2. p \in Seq(Name) /\ es \in Seq(Entry)
  BY <1>1 DEF TypeOK
<1>3. PICK n \in Nat : n = Len(es)
  BY <1>2
<1>4. PICK e : e = EntryFor(p[n + 1], folder[p[n + 1]])
  OBVIOUS
<1>5. /\ pc[b] = "derive" /\ n < Len(p)
      /\ entries' = [entries EXCEPT ![b] = Append(es, e)]
      /\ UNCHANGED <<folder, edits, touched, file, mode, overlapped, pc, request, seen,
                     paths, offset, reading, buffer, loaded>>
  BY <1>1, <1>3, <1>4 DEF Derive, Pending, Current, disk, reader
<1>6. p[n + 1] \in Name /\ folder[p[n + 1]] \in Photo \cup {NoPhoto}
  BY <1>2, <1>5 DEF TypeOK
<1>7. e \in Entry /\ e.image = p[n + 1]
  BY <1>4, <1>6, EntryIs
<1>8. PICK next : next = Append(es, e)
  OBVIOUS
<1>9. /\ next \in Seq(Entry) /\ Len(next) = n + 1 /\ next[n + 1] = e
      /\ DOMAIN next = 1 .. n + 1 /\ DOMAIN es = 1 .. n
      /\ \A k \in 1 .. n : next[k] = es[k]
  BY <1>2, <1>3, <1>7, <1>8
<1>10. entries' = [entries EXCEPT ![b] = next] /\ entries'[b] = next
  BY <1>5, <1>8 DEF TypeOK
<1>11. TypeOK'
  BY <1>5, <1>9, <1>10 DEF TypeOK
<1>12. \A c \in Batch \ {b} : KeepsBatch(c)
  BY <1>5, <1>10 DEF TypeOK, KeepsBatch
<1>13. BatchTells(b)'
  <2>1. BatchTells(b)
    BY EveryoneTells
  <2>2. ListingTells(b)'
    BY <1>5 DEF ListingTells
  <2>3. PathsTell(b)'
    BY <1>5, <2>1 DEF BatchTells, PathsTell
  <2>4. \A k \in 1 .. n + 1 :
          /\ next[k].image = p[k]
          /\ p[k] \notin touched[b] => next[k] = EntryFor(p[k], folder[p[k]])
    <3> TAKE k \in 1 .. n + 1
    <3>1. CASE k = n + 1
      BY <1>4, <1>7, <1>9, <3>1
    <3>2. CASE k \in 1 .. n
      BY <1>1, <1>5, <1>9, <2>1, <3>2 DEF BatchTells, EntriesTell, Listed
    <3> QED
      BY <3>1, <3>2
  <2>5. n + 1 <= Len(p) /\ offset[b] = 0
    BY <1>2, <1>5, <2>1 DEF BatchTells, EntriesTell
  <2>6. EntriesTell(b)'
    BY <1>1, <1>5, <1>9, <1>10, <2>4, <2>5 DEF EntriesTell, Complete, Writing
  <2> QED
    BY <2>2, <2>3, <2>6 DEF BatchTells
<1>14. EveryBatchTells'
  BY <1>12, <1>13, OneBatchMoves
<1>15. SettledStay
  BY <1>5, <1>12 DEF SettledStay, KeepsBatch, Settled, Writing
<1>16. FileTells' /\ LoadTells'
  BY <1>5, <1>15, FileStays, LoadStays
<1> QED
  BY <1>11, <1>14, <1>16

LEMMA EndDerivePreserves ==
  ASSUME BatchInv, NEW b \in Batch, EndDerive(b)
  PROVE  BatchInv'
<1> USE DEF BatchInv
<1> DEFINE next == IF request[b].output THEN "create" ELSE "done"
<1>1. /\ pc[b] = "derive" /\ Len(entries[b]) = Len(paths[b])
      /\ pc' = [pc EXCEPT ![b] = next]
      /\ UNCHANGED <<folder, edits, touched, file, mode, overlapped, request, seen, paths,
                     entries, offset, reading, buffer, loaded>>
  BY DEF EndDerive, Goto, disk, work, reader
<1>2. TypeOK' /\ pc'[b] = next
  BY <1>1 DEF TypeOK, Stopped
<1>3. \A c \in Batch \ {b} : KeepsBatch(c)
  BY <1>1 DEF TypeOK, KeepsBatch
<1>4. BatchTells(b)'
  <2>1. BatchTells(b)
    BY EveryoneTells
  <2>2. ListingTells(b)'
    BY <1>2 DEF ListingTells
  <2>3. PathsTell(b)'
    BY <1>1, <1>2, <2>1 DEF BatchTells, PathsTell, Listed
  <2>4. EntriesTell(b)'
    BY <1>1, <1>2, <2>1 DEF BatchTells, EntriesTell, Listed, Complete
  <2> QED
    BY <2>2, <2>3, <2>4 DEF BatchTells
<1>5. EveryBatchTells'
  BY <1>3, <1>4, OneBatchMoves
<1>6. SettledStay /\ \A c \in Batch : pc'[c] \in Writing => pc[c] \in Writing
  BY <1>1, <1>2, <1>3 DEF SettledStay, KeepsBatch, Settled, Writing
<1>7. FileTells' /\ LoadTells'
  BY <1>1, <1>6, FileStays, LoadStays
<1> QED
  BY <1>2, <1>5, <1>7

LEMMA CreatePreserves ==
  ASSUME BatchInv, NEW b \in Batch, Create(b)
  PROVE  BatchInv'
<1> USE DEF BatchInv
<1>1. /\ pc[b] = "create" /\ file' = Empty /\ pc' = [pc EXCEPT ![b] = "chmod"]
      /\ overlapped' = (overlapped \/ (\E c \in Batch : pc[c] \in Writing)
                        \/ (reading = "yes" /\ buffer # Empty))
      /\ UNCHANGED <<folder, edits, touched, request, seen, paths, entries, offset,
                     reading, buffer, loaded>>
  BY DEF Create, Goto, work, reader
<1>2. Empty \in Seq(Token)
  BY DEF Empty
<1>3. TypeOK' /\ pc'[b] = "chmod"
  BY <1>1, <1>2 DEF TypeOK, Writing
<1>4. \A c \in Batch \ {b} : KeepsBatch(c)
  BY <1>1 DEF TypeOK, KeepsBatch
<1>5. BatchTells(b)
  BY EveryoneTells
<1>6. BatchTells(b)'
  <2>1. ListingTells(b)'
    BY <1>3 DEF ListingTells
  <2>2. PathsTell(b)'
    BY <1>1, <1>3, <1>5 DEF BatchTells, PathsTell, Listed
  <2>3. EntriesTell(b)'
    BY <1>1, <1>3, <1>5 DEF BatchTells, EntriesTell, Listed, Complete
  <2> QED
    BY <2>1, <2>2, <2>3 DEF BatchTells
<1>7. EveryBatchTells'
  BY <1>4, <1>6, OneBatchMoves
<1>8. FileTells'
  <2> SUFFICES ASSUME ~overlapped' PROVE FileTells'
    BY DEF FileTells
  <2>1. /\ \A c \in Batch : pc[c] \notin Writing
        /\ reading = "yes" => buffer = Empty
    BY <1>1
  <2>2. Len(entries[b]) = Len(paths[b]) /\ offset[b] = 0
    BY <1>1, <1>5 DEF BatchTells, EntriesTell, Complete
  <2>3. Len(Json(entries[b])) \in Nat
    BY JsonIs DEF TypeOK
  <2>4. IsPrefix(Empty, Json(entries[b]), 0)
    BY <2>3 DEF IsPrefix, Empty
  <2>5. WrittenBy(b)'
    BY <1>1, <1>3, <1>4, <2>1, <2>2, <2>4 DEF WrittenBy, KeepsBatch, Settled, Writing
  <2>6. reading' = "yes" => Len(buffer') = 0 /\ Len(file') = 0
    BY <1>1, <2>1 DEF Empty
  <2> QED
    BY <2>5, <2>6 DEF FileTells
<1>9. SettledStay
  BY <1>1, <1>3, <1>4 DEF SettledStay, KeepsBatch, Settled, Writing
<1>10. LoadTells'
  BY <1>1, <1>9, LoadStays
<1> QED
  BY <1>3, <1>7, <1>8, <1>10

LEMMA SetPermissionsPreserves ==
  ASSUME BatchInv, NEW b \in Batch, SetPermissions(b)
  PROVE  BatchInv'
<1> USE DEF BatchInv
<1>1. /\ pc[b] = "chmod" /\ pc' = [pc EXCEPT ![b] = "write"]
      /\ UNCHANGED <<folder, edits, touched, file, overlapped, request, seen, paths,
                     entries, offset, reading, buffer, loaded>>
  BY DEF SetPermissions, Goto, work, reader
<1>2. TypeOK' /\ pc'[b] = "write"
  BY <1>1 DEF TypeOK, Writing
<1>3. \A c \in Batch \ {b} : KeepsBatch(c)
  BY <1>1 DEF TypeOK, KeepsBatch
<1>4. BatchTells(b)'
  <2>1. BatchTells(b)
    BY EveryoneTells
  <2>2. ListingTells(b)'
    BY <1>2 DEF ListingTells
  <2>3. PathsTell(b)'
    BY <1>1, <1>2, <2>1 DEF BatchTells, PathsTell, Listed, Writing
  <2>4. EntriesTell(b)'
    BY <1>1, <1>2, <2>1 DEF BatchTells, EntriesTell, Listed, Complete, Writing
  <2> QED
    BY <2>2, <2>3, <2>4 DEF BatchTells
<1>5. EveryBatchTells'
  BY <1>3, <1>4, OneBatchMoves
<1>6. SettledStay /\ \A c \in Batch : pc'[c] \in Writing => pc[c] \in Writing
  BY <1>1, <1>2, <1>3 DEF SettledStay, KeepsBatch, Settled, Writing
<1>7. FileTells' /\ LoadTells'
  BY <1>1, <1>6, FileStays, LoadStays
<1> QED
  BY <1>2, <1>5, <1>7

LEMMA WritePreserves ==
  ASSUME BatchInv, NEW b \in Batch, Write(b)
  PROVE  BatchInv'
<1> USE DEF BatchInv
<1>1. PICK json : json = Json(entries[b])
  OBVIOUS
<1>2. PICK to \in offset[b] + 1 .. Len(json) :
        /\ file' = Written(file, json, offset[b] + 1, to)
        /\ offset' = [offset EXCEPT ![b] = to]
        /\ pc' = [pc EXCEPT ![b] = IF to = Len(json) THEN "done" ELSE "write"]
  BY <1>1 DEF Write, Goto
<1>3. /\ pc[b] = "write"
      /\ UNCHANGED <<folder, edits, touched, overlapped, request, seen, paths,
                     entries, reading, buffer, loaded>>
  BY DEF Write, reader
<1>4. json \in Seq(Token) /\ Len(json) \in Nat /\ file \in Seq(Token) /\ offset[b] \in Nat
  BY <1>1, JsonIs DEF TypeOK
<1>5. to \in Nat /\ offset[b] < to
  BY <1>2, <1>4
<1>6. pc'[b] \in {"done", "write"} /\ offset'[b] = to
  BY <1>2, <1>5 DEF TypeOK
<1>7. file' \in Seq(Token)
  BY <1>2, <1>4, WrittenIsFile
<1>8. TypeOK'
  BY <1>2, <1>3, <1>5, <1>7 DEF TypeOK, Writing, Stopped
<1>9. \A c \in Batch \ {b} : KeepsBatch(c)
  BY <1>2, <1>3 DEF TypeOK, KeepsBatch
<1>10. BatchTells(b)'
  <2>1. BatchTells(b)
    BY EveryoneTells
  <2>2. ListingTells(b)'
    BY <1>6 DEF ListingTells
  <2>3. PathsTell(b)'
    BY <1>3, <1>6, <2>1 DEF BatchTells, PathsTell, Listed, Writing
  <2>4. EntriesTell(b)'
    BY <1>3, <1>6, <2>1 DEF BatchTells, EntriesTell, Listed, Complete, Writing
  <2> QED
    BY <2>2, <2>3, <2>4 DEF BatchTells
<1>11. EveryBatchTells'
  BY <1>9, <1>10, OneBatchMoves
<1>12. FileTells'
  <2> SUFFICES ASSUME ~overlapped PROVE FileTells'
    BY <1>3 DEF FileTells
  <2>1. WrittenBy(b)
    BY <1>3 DEF FileTells, NobodyWrites, WrittenBy, Writing
  <2>2. IsPrefix(file, json, offset[b])
    BY <1>1, <2>1 DEF WrittenBy
  <2>3. /\ IsPrefix(file', json, to)
        /\ \A i \in 1 .. Len(file) : file'[i] = file[i]
    BY <1>2, <1>4, <2>2, WriteGoesOn
  <2>4. WrittenBy(b)'
    BY <1>1, <1>3, <1>6, <1>9, <2>1, <2>3 DEF WrittenBy, KeepsBatch, Settled, Writing
  <2>5. Len(file) = offset[b] /\ Len(file') = to
    BY <2>2, <2>3 DEF IsPrefix
  <2>6. reading = "yes" =>
          Len(buffer) <= Len(file) /\ \A i \in 1 .. Len(buffer) : buffer[i] = file[i]
    BY DEF FileTells
  <2>7. reading = "yes" =>
          Len(buffer) <= to /\ \A i \in 1 .. Len(buffer) : buffer[i] = file'[i]
    BY <1>4, <1>5, <2>3, <2>5, <2>6 DEF TypeOK
  <2> QED
    BY <1>3, <2>4, <2>5, <2>7 DEF FileTells
<1>13. SettledStay
  BY <1>3, <1>6, <1>9 DEF SettledStay, KeepsBatch, Settled, Writing
<1>14. LoadTells'
  BY <1>3, <1>13, LoadStays
<1> QED
  BY <1>8, <1>11, <1>12, <1>14

LEMMA InterruptPreserves ==
  ASSUME BatchInv, NEW b \in Batch, Interrupt(b)
  PROVE  BatchInv'
<1> USE DEF BatchInv
<1>1. /\ pc[b] \notin {"start"} \cup Stopped /\ pc' = [pc EXCEPT ![b] = "killed"]
      /\ UNCHANGED <<folder, edits, touched, file, mode, overlapped, request, seen, paths,
                     entries, offset, reading, buffer, loaded>>
  BY DEF Interrupt, Goto, disk, work, reader
<1>2. TypeOK' /\ pc'[b] = "killed"
  BY <1>1 DEF TypeOK, Stopped
<1>3. \A c \in Batch \ {b} : KeepsBatch(c)
  BY <1>1 DEF TypeOK, KeepsBatch
<1>4. BatchTells(b)'
  BY <1>2
  DEF BatchTells, ListingTells, PathsTell, EntriesTell, Listed, Complete, Writing
<1>5. EveryBatchTells'
  BY <1>3, <1>4, OneBatchMoves
<1>6. SettledStay /\ \A c \in Batch : pc'[c] \in Writing => pc[c] \in Writing
  BY <1>1, <1>2, <1>3 DEF SettledStay, KeepsBatch, Settled, Writing
<1>7. FileTells' /\ LoadTells'
  BY <1>1, <1>6, FileStays, LoadStays
<1> QED
  BY <1>2, <1>5, <1>7

LEMMA ReadPreserves ==
  ASSUME BatchInv, Read
  PROVE  BatchInv'
<1> USE DEF BatchInv
<1>1. PICK k \in 1 .. Len(file) : buffer' = ReadMore(file, buffer, k)
  BY DEF Read
<1>2. /\ ~AtEnd(file, buffer)
      /\ UNCHANGED <<folder, edits, touched, file, mode, overlapped, pc, request, seen, paths,
                     entries, offset, reading, loaded>>
  BY DEF Read, disk, work
<1>3. file \in Seq(Token) /\ buffer \in Seq(Token) /\ k \in Nat /\ Len(buffer) < Len(file)
  BY <1>2 DEF TypeOK, AtEnd
<1>4. /\ buffer' \in Seq(Token) /\ Len(buffer') <= Len(file)
      /\ \A i \in 1 .. Len(buffer') : buffer'[i] = IF i <= Len(buffer) THEN buffer[i] ELSE file[i]
  BY <1>1, <1>3, ReadGoesOn
<1>5. TypeOK'
  BY <1>2, <1>4 DEF TypeOK
<1>6. EveryBatchTells'
  <2>1. \A b \in Batch : KeepsBatch(b)
    BY <1>2 DEF KeepsBatch
  <2> QED
    BY <2>1, OthersTell, EveryoneTells DEF EveryBatchTells, BatchTells
<1>7. FileTells'
  <2> SUFFICES ASSUME ~overlapped PROVE FileTells'
    BY <1>2 DEF FileTells
  <2>1. NobodyWrites' \/ \E c \in Batch : WrittenBy(c)'
    BY <1>2 DEF FileTells, NobodyWrites, WrittenBy
  <2>2. \A i \in 1 .. Len(buffer) : reading = "yes" => buffer[i] = file[i]
    BY DEF FileTells
  <2>3. reading = "yes" => \A i \in 1 .. Len(buffer') : buffer'[i] = file[i]
    <3> SUFFICES ASSUME reading = "yes", NEW i \in 1 .. Len(buffer') PROVE buffer'[i] = file[i]
      OBVIOUS
    <3>1. i <= Len(buffer) => i \in 1 .. Len(buffer)
      BY <1>3, <1>4
    <3> QED
      BY <1>4, <2>2, <3>1
  <2> QED
    BY <1>2, <1>4, <2>1, <2>3 DEF FileTells
<1>8. LoadTells'
  BY <1>2 DEF LoadTells
<1> QED
  BY <1>5, <1>6, <1>7, <1>8

LEMMA LoadPreserves ==
  ASSUME BatchInv, Load
  PROVE  BatchInv'
<1> USE DEF BatchInv
<1>1. /\ reading = "yes" /\ file # Absent /\ AtEnd(file, buffer)
      /\ UNCHANGED <<folder, edits, touched, file, mode, overlapped, pc, request, seen, paths,
                     entries, offset, buffer>>
  BY DEF Load, disk, work
<1>2. \/ Parses(buffer) /\ reading' = "loaded" /\ loaded' = Parsed(buffer)
      \/ reading' = "rejected" /\ loaded' = loaded
  BY DEF Load
<1>3. TypeOK'
  BY <1>1 DEF TypeOK
<1>4. EveryBatchTells'
  <2>1. \A b \in Batch : KeepsBatch(b)
    BY <1>1 DEF KeepsBatch
  <2> QED
    BY <2>1, OthersTell, EveryoneTells DEF EveryBatchTells, BatchTells
<1>5. FileTells'
  <2> SUFFICES ASSUME ~overlapped PROVE FileTells'
    BY <1>1 DEF FileTells
  <2>1. NobodyWrites' \/ \E c \in Batch : WrittenBy(c)'
    BY <1>1 DEF FileTells, NobodyWrites, WrittenBy
  <2>2. reading' # "yes"
    BY <1>2
  <2> QED
    BY <2>1, <2>2 DEF FileTells
<1>6. LoadTells'
  <2> SUFFICES ASSUME ~overlapped, Parses(buffer), loaded' = Parsed(buffer) PROVE LoadTells'
    BY <1>1, <1>2 DEF LoadTells
  <2>1. PICK c \in Batch : WrittenBy(c)
    BY <1>1 DEF FileTells, NobodyWrites
  <2>2. PICK n : n = offset[c] /\ IsPrefix(file, Json(entries[c]), n)
    BY <2>1 DEF WrittenBy
  <2>3. n \in Nat /\ entries[c] \in Seq(Entry) /\ Len(file) = n
    BY <2>2 DEF TypeOK, IsPrefix
  <2>4. Len(buffer) = n /\ \A i \in 1 .. n : buffer[i] = file[i]
    <3>1. Len(buffer) <= Len(file) /\ \A i \in 1 .. Len(buffer) : buffer[i] = file[i]
      BY <1>1 DEF FileTells
    <3>2. Len(buffer) \in Nat /\ Len(buffer) >= Len(file)
      BY <1>1 DEF AtEnd, TypeOK
    <3>3. Len(buffer) = n
      BY <2>3, <3>1, <3>2
    <3> QED
      BY <3>1, <3>3
  <2>5. IsPrefix(buffer, Json(entries[c]), n)
    BY <2>2, <2>4 DEF IsPrefix
  <2>6. Parsed(buffer) = entries[c]
    BY <2>3, <2>5, PrefixThatParses DEF TypeOK
  <2> QED
    BY <1>1, <2>1, <2>6 DEF LoadTells, WrittenBy
<1> QED
  BY <1>3, <1>4, <1>5, <1>6

LEMMA StepPreserves == BatchInv /\ [Next]_vars => BatchInv'
<1> SUFFICES ASSUME BatchInv, [Next]_vars PROVE BatchInv'
  OBVIOUS
<1>1. CASE EditFolder
  BY <1>1, EditFolderPreserves
<1>2. CASE Read
  BY <1>2, ReadPreserves
<1>3. CASE Load
  BY <1>3, LoadPreserves
<1>4. ASSUME NEW b \in Batch, Command(b) PROVE BatchInv'
  <2>1. CASE Start(b)
    BY <2>1, StartPreserves
  <2>2. CASE ListEntry(b)
    BY <2>2, ListEntryPreserves
  <2>3. CASE EndListing(b)
    BY <2>3, EndListingPreserves
  <2>4. CASE Derive(b)
    BY <2>4, DerivePreserves
  <2>5. CASE EndDerive(b)
    BY <2>5, EndDerivePreserves
  <2>6. CASE Create(b)
    BY <2>6, CreatePreserves
  <2>7. CASE SetPermissions(b)
    BY <2>7, SetPermissionsPreserves
  <2>8. CASE Write(b)
    BY <2>8, WritePreserves
  <2> QED
    BY <1>4, <2>1, <2>2, <2>3, <2>4, <2>5, <2>6, <2>7, <2>8 DEF Command
<1>5. ASSUME NEW b \in Batch, Interrupt(b) PROVE BatchInv'
  BY <1>5, InterruptPreserves
<1>6. CASE UNCHANGED vars
  <2>1. UNCHANGED <<folder, edits, touched, file, mode, overlapped, pc, request, seen, paths,
                    entries, offset, reading, buffer, loaded>>
    BY <1>6 DEF vars, disk, work, reader
  <2>2. TypeOK'
    BY <2>1 DEF TypeOK, BatchInv
  <2>3. EveryBatchTells'
    <3>1. \A b \in Batch : KeepsBatch(b)
      BY <2>1 DEF KeepsBatch
    <3> QED
      BY <3>1, OthersTell, EveryoneTells DEF EveryBatchTells, BatchTells, BatchInv
  <2>4. FileTells'
    BY <2>1 DEF FileTells, NobodyWrites, WrittenBy, BatchInv
  <2>5. LoadTells'
    BY <2>1 DEF LoadTells, BatchInv
  <2> QED
    BY <2>2, <2>3, <2>4, <2>5 DEF BatchInv
<1> QED
  BY <1>1, <1>2, <1>3, <1>4, <1>5, <1>6 DEF Next

LEMMA BatchInvariant == Spec => []BatchInv
  BY InitEstablishes, StepPreserves, PTL DEF Spec

-----------------------------------------------------------------------------
(* Every variable keeps its type: what is written, read and loaded is made *)
(* of whole tokens, and only a batch that was asked for ever runs.         *)
THEOREM TypeCorrect == Spec => []TypeOK
<1>1. BatchInv => TypeOK
  BY DEF BatchInv
<1> QED
  BY <1>1, BatchInvariant, PTL

(* Once a batch has derived its keys, its entries answer for every picture *)
(* it was asked for, in order, each with the key or the error the bytes of *)
(* an untouched picture deserve (collect_images, cmd_batch).               *)
THEOREM ManifestsAreComplete == Spec => []ManifestIsComplete
<1>1. ASSUME BatchInv PROVE ManifestIsComplete
  <2> SUFFICES ASSUME NEW b \in Batch, pc[b] \in Complete
               PROVE  /\ IF request[b].files # <<>>
                           THEN [k \in DOMAIN entries[b] |-> entries[b][k].image]
                                  = request[b].files
                         ELSE
                           /\ \A k, l \in DOMAIN entries[b] :
                                k < l => entries[b][k].image < entries[b][l].image
                           /\ \A n \in ImageName \ touched[b] :
                                folder[n] # NoPhoto =>
                                  \E k \in DOMAIN entries[b] : entries[b][k].image = n
                      /\ \A k \in DOMAIN entries[b] :
                           entries[b][k].image \notin touched[b] =>
                             entries[b][k] = EntryFor(entries[b][k].image,
                                                      folder[entries[b][k].image])
    BY DEF ManifestIsComplete, Complete
  <2>1. PICK p, es : p = paths[b] /\ es = entries[b]
    OBVIOUS
  <2>2. p \in Seq(Name) /\ es \in Seq(Entry)
    BY <1>1, <2>1 DEF BatchInv, TypeOK
  <2>3. pc[b] \in Listed
    BY DEF Listed, Complete
  <2>4. ListingTells(b) /\ PathsTell(b) /\ EntriesTell(b)
    BY <1>1 DEF BatchInv, EveryBatchTells
  <2>5. PICK n \in Nat : n = Len(p) /\ Len(es) = n /\ DOMAIN p = 1 .. n /\ DOMAIN es = 1 .. n
    BY <2>1, <2>2, <2>4 DEF EntriesTell
  <2>6. \A k \in 1 .. n :
          /\ es[k].image = p[k]
          /\ p[k] \notin touched[b] => es[k] = EntryFor(p[k], folder[p[k]])
    BY <2>1, <2>3, <2>4, <2>5 DEF EntriesTell
  <2>7. ASSUME request[b].files # <<>>
        PROVE  [k \in DOMAIN es |-> es[k].image] = request[b].files
    <3>1. p = request[b].files
      BY <2>1, <2>3, <2>4, <2>7 DEF PathsTell
    <3>2. p = [k \in 1 .. n |-> p[k]]
      BY <2>2, <2>5
    <3> QED
      BY <2>5, <2>6, <3>1, <3>2
  <2>8. ASSUME request[b].files = <<>>
        PROVE  /\ \A k, l \in DOMAIN es : k < l => es[k].image < es[l].image
               /\ \A m \in ImageName \ touched[b] :
                    folder[m] # NoPhoto => \E k \in DOMAIN es : es[k].image = m
    <3>1. /\ \A k, l \in 1 .. n : k < l => p[k] < p[l]
          /\ \A m \in ImageName :
               \/ m \in touched[b] \/ folder[m] = NoPhoto
               \/ \E k \in 1 .. n : p[k] = m
      BY <2>1, <2>3, <2>4, <2>5, <2>8 DEF PathsTell
    <3> QED
      BY <2>5, <2>6, <3>1
  <2>9. \A k \in DOMAIN es :
          es[k].image \notin touched[b] => es[k] = EntryFor(es[k].image, folder[es[k].image])
    BY <2>5, <2>6
  <2> QED
    BY <2>1, <2>7, <2>8, <2>9
<1> QED
  BY <1>1, BatchInvariant, PTL

(* As long as nobody truncates the manifest under a writer or a reader, a  *)
(* document that parses is all one batch had to say, however it was read   *)
(* and whoever was killed meanwhile (write_secret_file,                    *)
(* BatchManifest::load).                                                   *)
THEOREM LoadedManifestsAreWhole == Spec => []LoadedManifestIsWhole
<1>1. BatchInv => LoadedManifestIsWhole
  BY DEF BatchInv, LoadTells, LoadedManifestIsWhole
<1> QED
  BY <1>1, BatchInvariant, PTL

==============================================================================
