--------------------------- MODULE ImageIntakeProofs ---------------------------
(***************************************************************************)
(* For any pictures, settings and extensions, and a file that may be       *)
(* overwritten at any moment: memory stays bounded, a key binds the bytes  *)
(* that were decoded, an untouched picture gets the verdict it deserves,   *)
(* and the canonical image fits its box.  And of the loader, for any JPEG  *)
(* files and any window: the first bytes never show another quality than   *)
(* all of them do, the first table decides, and the quality gate judges    *)
(* what an encoder wrote as it was asked to.                               *)
(***************************************************************************)
EXTENDS ImageIntake, JpegQuality, SequenceTheorems, WellFoundedInduction, TLAPS

-----------------------------------------------------------------------------
(* A function on 1 .. n is a sequence of length n. *)
LEMMA FunctionLength ==
  ASSUME NEW S, NEW n \in Nat, NEW f \in [1 .. n -> S]
  PROVE  f \in Seq(S) /\ Len(f) = n
  OBVIOUS

(* One read call keeps every token at its place. *)
Continues(more, now, buf, k) ==
  /\ Len(more) \in Nat /\ Len(more) <= Len(now)
  /\ Len(more) >= Len(buf) /\ Len(more) <= Len(buf) + k
  /\ \A i \in 1 .. Len(more) : more[i] = IF i <= Len(buf) THEN buf[i] ELSE now[i]
LEMMA ReadMoreProperties ==
  ASSUME NEW S, NEW now \in Seq(S), NEW buf \in Seq(S), NEW k \in Nat,
         Len(buf) < Len(now)
  PROVE  /\ ReadMore(now, buf, k) \in Seq(S)
         /\ Continues(ReadMore(now, buf, k), now, buf, k)
  BY DEF ReadMore, Continues

-----------------------------------------------------------------------------
(* The inductive invariant, in named parts. *)

Cells == {Cell(p) : p \in Picture}
Judging == {"gates", "decode", "tail", "done"}

TypeOK ==
  /\ content \in Seq(Cells) /\ target \in Picture
  /\ settings \in Settings
  /\ pc \in {"open", "read"} \cup Judging
  /\ gate \in 1 .. 10
  /\ buffer \in Seq(Cells)

(* A file holds cells of one picture only, however often it is overwritten *)
(* (a buffer need not).                                                    *)
ContentTells ==
  /\ Len(content) <= target.cells
  /\ \A i \in 1 .. Len(content) : content[i] = Cell(target)

(* What the read has so far, and what it leaves behind: all of a picture   *)
(* that stood still, or, above the cap, a refusal.                         *)
ReadTells ==
  /\ Len(buffer) <= MaxCells + 1
  /\ pc = "open" => read_of = {} /\ buffer = Empty
  /\ pc \in {"open", "read"} =>
       verdict = Pending /\ gate = 1 /\ raster = 0 /\ pixels = NoPixels
  /\ pc \in {"gates", "decode", "tail"} => Len(buffer) <= MaxCells
  /\ \A p \in read_of :
       /\ pc = "read" => /\ p = target /\ Len(content) = p.cells /\ Len(buffer) <= p.cells
                         /\ \A i \in 1 .. Len(buffer) : buffer[i] = Cell(p)
       /\ pc \in Judging => \/ p \in Picture /\ buffer = Bytes(p) /\ p.cells <= MaxCells
                            \/ pc = "done" /\ verdict # "key" /\ ~(p.cells <= MaxCells)

(* The gates that have been passed by the time anything is allocated.      *)
Passed(g) == Gates[g].ok
GatesTell ==
  /\ pc = "gates" => gate \in 1 .. 9 /\ \A g \in 1 .. gate - 1 : Passed(g)
  /\ pc \in {"decode", "tail"} \/ raster # 0 \/ pixels # NoPixels => \A g \in 1 .. 9 : Passed(g)

(* The reasons for a refusal after the gates. *)
PoorJPEG == ContainerFormat.family = "JPEG" /\ ContainerFormat.quality < settings.threshold
NothingToResize ==
  /\ <<Header.width, Header.height>> # settings.canonical
  /\ Header.width * Header.height = 0
Worthless(px) == px.size[1] * px.size[2] = 0 \/ FlatPixels(px)
Canonical == [cells |-> {buffer[k] : k \in 1 .. Header.cells}, size |-> Dimensions]

DecodeTells ==
  /\ raster # 0 => raster <= Budget
  /\ pc = "tail" => Needed <= Budget /\ Decodes
  /\ pixels # NoPixels =>
       /\ pc \in {"tail", "done"} /\ Needed <= Budget /\ Decodes
       /\ ~PoorJPEG /\ ~NothingToResize /\ pixels = Canonical

(* Every verdict has its reason. *)
VerdictTells ==
  /\ pc # "done" => verdict = Pending
  /\ pc = "done" /\ verdict = "key" =>
       /\ pixels # NoPixels /\ ~Worthless(pixels)
       /\ key = [pixels |-> pixels, hash |-> buffer] /\ Len(buffer) <= MaxCells
  /\ pc = "done" /\ verdict # "key" =>
       \/ Len(buffer) > MaxCells
       \/ \E g \in 1 .. 9 : ~Passed(g)
       \/ ~(Needed <= Budget) \/ ~Decodes
       \/ PoorJPEG \/ NothingToResize
       \/ Worthless(Canonical)
IntakeInv == TypeOK /\ ContentTells /\ ReadTells /\ GatesTell /\ DecodeTells /\ VerdictTells

-----------------------------------------------------------------------------
(* What is said of the buffer does not change while the buffer does not.   *)

LEMMA JudgementStays ==
  ASSUME UNCHANGED <<buffer, settings, extension>>
  PROVE  /\ Header' = Header /\ Needed' = Needed /\ Budget' = Budget
         /\ (Decodes' <=> Decodes) /\ Canonical' = Canonical
         /\ (PoorJPEG' <=> PoorJPEG) /\ (NothingToResize' <=> NothingToResize)
         /\ \A g \in 1 .. 9 : Passed(g)' <=> Passed(g)
         /\ \A px : Worthless(px)' <=> Worthless(px)
<1>1. Header' = Header
  BY DEF Header
<1>2. Sniffed' = Sniffed /\ ContainerFormat' = ContainerFormat
  BY <1>1 DEF Sniffed, ContainerFormat, Format
<1>3. (Listed(ContainerFormat))' <=> Listed(ContainerFormat)
  BY <1>2 DEF Listed
<1>4. /\ TooSmall' <=> TooSmall
      /\ TooLarge' <=> TooLarge
      /\ SizesAgree' <=> SizesAgree
  BY <1>1 DEF TooSmall, TooLarge, SizesAgree
<1>5. \A g \in 1 .. 9 : Passed(g)' <=> Passed(g)
  <2>1. /\ Passed(1)' <=> Passed(1)
        /\ Passed(2)' <=> Passed(2)
        /\ Passed(3)' <=> Passed(3)
    BY <1>2 DEF Passed, Gates
  <2>2. /\ Passed(4)' <=> Passed(4)
        /\ Passed(5)' <=> Passed(5)
        /\ Passed(6)' <=> Passed(6)
    BY <1>1, <1>2, <1>3 DEF Passed, Gates, Compatible
  <2>3. /\ Passed(7)' <=> Passed(7)
        /\ Passed(8)' <=> Passed(8)
        /\ Passed(9)' <=> Passed(9)
    BY <1>4 DEF Passed, Gates
  <2>4. \A g \in 1 .. 9 : g \in {1, 2, 3, 4, 5, 6, 7, 8, 9}
    OBVIOUS
  <2> QED BY <2>1, <2>2, <2>3, <2>4
<1>6. Needed' = Needed /\ Budget' = Budget /\ (Decodes' <=> Decodes)
  BY <1>1 DEF Needed, Budget, Decodes
<1>7. Dimensions' = Dimensions
  BY <1>1 DEF Dimensions
<1>8. Canonical' = Canonical
  BY <1>1, <1>7 DEF Canonical
<1>9. (PoorJPEG' <=> PoorJPEG) /\ (NothingToResize' <=> NothingToResize)
  BY <1>1, <1>2 DEF PoorJPEG, NothingToResize
<1> QED BY <1>1, <1>5, <1>6, <1>8, <1>9 DEF Worthless

(* The gates, one by one. *)
LEMMA GateList ==
  /\ Passed(1) <=> Sniffed # Unrecognized
  /\ Passed(2) <=> extension # "none"
  /\ Passed(3) <=> ContainerFormat # Unrecognized
  /\ Passed(4) <=> Compatible(ContainerFormat, Sniffed)
  /\ Passed(5) <=> Listed(ContainerFormat)
  /\ Passed(6) <=> Header.header
  /\ Passed(7) <=> SizesAgree
  /\ Passed(8) <=> ~TooSmall
  /\ Passed(9) <=> ~TooLarge
  BY DEF Passed, Gates

LEMMA GateErrors == Len(Gates) = 9 /\ \A g \in 1 .. 9 : Gates[g].error # "key"
<1>1. Len(Gates) = 9
  BY DEF Gates
<1>2. /\ Gates[1].error # "key" /\ Gates[2].error # "key" /\ Gates[3].error # "key"
      /\ Gates[4].error # "key" /\ Gates[5].error # "key" /\ Gates[6].error # "key"
      /\ Gates[7].error # "key" /\ Gates[8].error # "key" /\ Gates[9].error # "key"
  BY DEF Gates
<1>3. \A g \in 1 .. 9 : g \in {1, 2, 3, 4, 5, 6, 7, 8, 9}
  OBVIOUS
<1> QED BY <1>1, <1>2, <1>3

(* Behind the gates there is a header, of a picture. *)
LEMMA HeaderIsPicture ==
  ASSUME TypeOK, Passed(6)
  PROVE  buffer # Empty /\ Len(buffer) \in Nat \ {0} /\ Header = buffer[1].of
         /\ Header \in Picture
<1>1. Header.header
  BY GateList
<1>2. NoHeader.header = FALSE
  BY DEF NoHeader
<1>3. buffer # Empty /\ Header = buffer[1].of
  BY <1>1, <1>2 DEF Header
<1>4. buffer \in Seq(Cells) /\ Len(buffer) \in Nat \ {0}
  BY <1>3, LenProperties, EmptySeq DEF TypeOK, Empty
<1>5. buffer[1] \in Cells
  <2>1. 1 \in 1 .. Len(buffer)
    BY <1>4
  <2> QED BY <1>4, <2>1, ElementOfSeq
<1> QED BY <1>3, <1>4, <1>5 DEF Cells, Cell

-----------------------------------------------------------------------------
(* The invariant holds at first, and every step keeps it. *)

LEMMA BytesShape ==
  ASSUME NEW p \in Picture
  PROVE  /\ Bytes(p) \in Seq(Cells) /\ Len(Bytes(p)) = p.cells /\ p.cells \in Nat \ {0}
         /\ DOMAIN Bytes(p) = 1 .. p.cells
         /\ \A i \in 1 .. p.cells : Bytes(p)[i] = Cell(p)
<1>1. p.cells \in Nat \ {0}
  BY IntakeAssumption DEF IntakeAssumption
<1>2. Bytes(p) \in [1 .. p.cells -> Cells]
  BY DEF Bytes, Cells
<1>3. Bytes(p) \in Seq(Cells) /\ Len(Bytes(p)) = p.cells
  <2> DEFINE n == p.cells
             f == Bytes(p)
  <2>1. n \in Nat /\ f \in [1 .. n -> Cells]
    BY <1>1, <1>2
  <2> HIDE DEF n, f
  <2>2. f \in Seq(Cells) /\ Len(f) = n
    BY <2>1, FunctionLength
  <2> QED BY <2>2 DEF n, f
<1> QED BY <1>1, <1>3 DEF Bytes

LEMMA InvInit == Init => IntakeInv
<1> SUFFICES ASSUME Init PROVE IntakeInv
  OBVIOUS
<1>1. target \in Picture /\ content = Bytes(target)
  BY DEF Init
<1>2. TypeOK
  BY <1>1, BytesShape, EmptySeq DEF Init, TypeOK, Empty
<1>3. ContentTells
  BY <1>1, BytesShape DEF ContentTells
<1>4. ReadTells
  BY IntakeAssumption, EmptySeq DEF Init, ReadTells, Empty, IntakeAssumption, Judging
<1>5. GatesTell /\ DecodeTells /\ VerdictTells
  BY DEF Init, GatesTell, DecodeTells, VerdictTells
<1> QED BY <1>2, <1>3, <1>4, <1>5 DEF IntakeInv

LEMMA FileStep ==
  ASSUME IntakeInv, Overwrite \/ Grow
  PROVE  IntakeInv'
<1>0. /\ TypeOK /\ ContentTells /\ ReadTells /\ GatesTell /\ DecodeTells /\ VerdictTells
      /\ UNCHANGED <<extension, settings, pc, gate, buffer, raster, pixels, verdict, key>>
      /\ Disturbed
      /\ Len(content) \in Nat
  BY LenProperties DEF IntakeInv, Overwrite, Grow, TypeOK
<1>1. /\ Header' = Header /\ Needed' = Needed /\ Budget' = Budget
      /\ (Decodes' <=> Decodes) /\ Canonical' = Canonical
      /\ (PoorJPEG' <=> PoorJPEG) /\ (NothingToResize' <=> NothingToResize)
      /\ \A g \in 1 .. 9 : Passed(g)' <=> Passed(g)
      /\ \A px : Worthless(px)' <=> Worthless(px)
  BY <1>0, JudgementStays
<1>2. /\ content' \in Seq(Cells) /\ target' \in Picture /\ ContentTells'
  <2>1. CASE Overwrite
    <3>1. content' = <<>> /\ target' \in Picture /\ target'.cells \in Nat
      BY <2>1, IntakeAssumption DEF Overwrite, Empty, IntakeAssumption
    <3>2. content' \in Seq(Cells) /\ Len(content') = 0
      BY <3>1
    <3> QED BY <3>1, <3>2 DEF ContentTells
  <2>2. CASE Grow
    <3>1. /\ content' = Append(content, Cell(target)) /\ target' = target
          /\ Len(content) < target.cells /\ target.cells \in Nat
          /\ target \in Picture /\ Cell(target) \in Cells
      BY <1>0, <2>2, IntakeAssumption DEF Grow, IntakeAssumption, TypeOK, Cells
    <3>2. /\ content' \in Seq(Cells) /\ Len(content') = Len(content) + 1
          /\ \A i \in 1 .. Len(content) : content'[i] = content[i]
          /\ content'[Len(content) + 1] = Cell(target)
      BY <1>0, <3>1, AppendProperties DEF TypeOK
    <3> QED BY <1>0, <3>1, <3>2 DEF ContentTells
  <2> QED BY <2>1, <2>2
<1>3. TypeOK'
  BY <1>0, <1>2 DEF TypeOK
<1>4. ReadTells'
  BY <1>0 DEF ReadTells, Disturbed, Judging
<1>5. GatesTell' /\ DecodeTells' /\ VerdictTells'
  BY <1>0, <1>1 DEF GatesTell, DecodeTells, VerdictTells
<1> QED BY <1>2, <1>3, <1>4, <1>5 DEF IntakeInv

LEMMA OpenStep ==
  ASSUME IntakeInv, Open
  PROVE  IntakeInv'
<1>0. /\ TypeOK /\ ContentTells /\ ReadTells /\ GatesTell /\ DecodeTells /\ VerdictTells
      /\ UNCHANGED <<content, target, extension, settings, gate, buffer, raster, pixels, verdict, key>>
      /\ pc = "open" /\ pc' = "read" /\ buffer = <<>> /\ Len(buffer) = 0
      /\ read_of' = IF Len(content) = target.cells THEN {target} ELSE {}
      /\ target.cells \in Nat
  BY IntakeAssumption DEF IntakeInv, Open, ReadTells, Empty, TypeOK, IntakeAssumption
<1>1. TypeOK' /\ ContentTells'
  BY <1>0 DEF TypeOK, ContentTells
<1>2. ReadTells'
  BY <1>0 DEF ReadTells, Judging
<1>3. GatesTell' /\ DecodeTells' /\ VerdictTells'
  BY <1>0 DEF GatesTell, DecodeTells, VerdictTells, ReadTells
<1> QED BY <1>1, <1>2, <1>3 DEF IntakeInv

LEMMA ReadStep ==
  ASSUME IntakeInv, Read
  PROVE  IntakeInv'
<1>0. /\ TypeOK /\ ContentTells /\ ReadTells /\ GatesTell /\ DecodeTells /\ VerdictTells
      /\ UNCHANGED <<content, target, read_of, extension, settings, pc, gate, raster, pixels,
                     verdict, key>>
      /\ pc = "read" /\ Len(buffer) \in Nat /\ Len(content) \in Nat
      /\ Len(buffer) < Len(content) /\ Len(buffer) < MaxCells + 1 /\ MaxCells \in Nat
  BY LenProperties, IntakeAssumption
  DEF IntakeInv, Read, TypeOK, AtEnd, Allowance, IntakeAssumption
<1>1. PICK k \in 1 .. Allowance - Len(buffer) : buffer' = ReadMore(content, buffer, k)
  BY DEF Read
<1>2. buffer' \in Seq(Cells) /\ Continues(buffer', content, buffer, k)
  <2> DEFINE more == ReadMore(content, buffer, k)
  <2>1. k \in Nat /\ content \in Seq(Cells) /\ buffer \in Seq(Cells)
    BY <1>0 DEF TypeOK, Allowance
  <2>2. more \in Seq(Cells) /\ Continues(more, content, buffer, k)
    BY <1>0, <2>1, ReadMoreProperties
  <2> QED BY <1>1, <2>2
<1>3. TypeOK' /\ ContentTells'
  BY <1>0, <1>2 DEF TypeOK, ContentTells
<1>4. ReadTells'
  <2>1. Len(buffer') <= MaxCells + 1
    BY <1>0, <1>2 DEF Continues, Allowance
  <2>2. ASSUME NEW p \in read_of
        PROVE  /\ p = target /\ Len(content) = p.cells /\ Len(buffer') <= p.cells
               /\ \A i \in 1 .. Len(buffer') : buffer'[i] = Cell(p)
    BY <1>0, <1>2, <2>2 DEF ReadTells, ContentTells, Continues
  <2> QED BY <1>0, <2>1, <2>2 DEF ReadTells, Judging
<1>5. GatesTell' /\ DecodeTells' /\ VerdictTells'
  BY <1>0 DEF GatesTell, DecodeTells, VerdictTells, ReadTells
<1> QED BY <1>3, <1>4, <1>5 DEF IntakeInv

(* All of a picture that stood still has been read, or more than the cap.  *)
LEMMA EndReadStep ==
  ASSUME IntakeInv, EndRead
  PROVE  IntakeInv'
<1>0. /\ TypeOK /\ ContentTells /\ ReadTells /\ GatesTell /\ DecodeTells /\ VerdictTells
      /\ UNCHANGED <<content, target, read_of, extension, settings, gate, buffer, raster, pixels, key>>
      /\ pc = "read" /\ Len(buffer) \in Nat /\ Len(content) \in Nat /\ MaxCells \in Nat
      /\ raster = 0 /\ pixels = NoPixels
  BY LenProperties, IntakeAssumption DEF IntakeInv, EndRead, TypeOK, IntakeAssumption, ReadTells
<1>1. \/ Len(buffer) > MaxCells /\ verdict' # "key" /\ pc' = "done"
      \/ Len(buffer) <= MaxCells /\ pc' = "gates" /\ verdict' = verdict
  BY <1>0 DEF EndRead, Refuse
<1>2. Len(buffer) >= Len(content) \/ Len(buffer) = MaxCells + 1
  BY DEF EndRead, AtEnd, Allowance
<1>3. ASSUME NEW p \in read_of
      PROVE  \/ p \in Picture /\ buffer = Bytes(p) /\ p.cells <= MaxCells /\ Len(buffer) <= MaxCells
             \/ ~(p.cells <= MaxCells) /\ Len(buffer) > MaxCells
  <2>1. /\ p \in Picture /\ p.cells \in Nat /\ Len(content) = p.cells /\ Len(buffer) <= p.cells
        /\ \A i \in 1 .. Len(buffer) : buffer[i] = Cell(p)
    BY <1>0, <1>3, IntakeAssumption DEF ReadTells, TypeOK, IntakeAssumption
  <2>2. CASE Len(buffer) = p.cells
    <3>1. buffer = [i \in 1 .. p.cells |-> buffer[i]]
      BY <1>0, <2>2, LenProperties DEF TypeOK
    <3>2. buffer = Bytes(p)
      BY <2>1, <2>2, <3>1 DEF Bytes
    <3> QED BY <1>0, <2>1, <2>2, <3>2
  <2>3. CASE Len(buffer) # p.cells
    BY <1>0, <1>2, <2>1, <2>3
  <2> QED BY <2>2, <2>3
<1>4. TypeOK' /\ ContentTells'
  BY <1>0, <1>1 DEF TypeOK, ContentTells, Judging
<1>5. ReadTells'
  BY <1>0, <1>1, <1>3 DEF ReadTells, Judging
<1>6. GatesTell' /\ DecodeTells' /\ VerdictTells'
  BY <1>0, <1>1 DEF GatesTell, DecodeTells, VerdictTells, ReadTells
<1> QED BY <1>4, <1>5, <1>6 DEF IntakeInv

(* What the steps behind the read leave alone. *)
LEMMA BehindTheRead ==
  ASSUME IntakeInv, Pass \/ Decode \/ Canonicalize \/ Derive
  PROVE  /\ TypeOK /\ ContentTells /\ ReadTells /\ GatesTell /\ DecodeTells /\ VerdictTells
         /\ UNCHANGED <<content, target, read_of, extension, settings, buffer>>
         /\ pc \in {"gates", "decode", "tail"} /\ ContentTells'
         /\ Header' = Header /\ Needed' = Needed /\ Budget' = Budget
         /\ (Decodes' <=> Decodes) /\ Canonical' = Canonical
         /\ (PoorJPEG' <=> PoorJPEG) /\ (NothingToResize' <=> NothingToResize)
         /\ \A g \in 1 .. 9 : Passed(g)' <=> Passed(g)
         /\ \A px : Worthless(px)' <=> Worthless(px)
<1>1. /\ TypeOK /\ ContentTells /\ ReadTells /\ GatesTell /\ DecodeTells /\ VerdictTells
      /\ UNCHANGED <<content, target, read_of, extension, settings, buffer>>
      /\ pc \in {"gates", "decode", "tail"}
  BY DEF IntakeInv, Pass, Decode, Canonicalize, Derive
<1>2. ContentTells'
  BY <1>1 DEF ContentTells
<1> QED BY <1>1, <1>2, JudgementStays

LEMMA PassStep ==
  ASSUME IntakeInv, Pass
  PROVE  IntakeInv'
<1>1. /\ TypeOK /\ ContentTells' /\ ReadTells /\ GatesTell /\ DecodeTells /\ VerdictTells
      /\ UNCHANGED <<content, target, read_of, extension, settings, buffer>>
      /\ Needed' = Needed /\ Budget' = Budget
      /\ (Decodes' <=> Decodes) /\ Canonical' = Canonical
      /\ (PoorJPEG' <=> PoorJPEG) /\ (NothingToResize' <=> NothingToResize)
      /\ \A g \in 1 .. 9 : Passed(g)' <=> Passed(g)
      /\ \A px : Worthless(px)' <=> Worthless(px)
  BY BehindTheRead
<1>2. /\ UNCHANGED <<raster, pixels, key>> /\ pc = "gates"
      /\ gate \in 1 .. 9 /\ pixels = NoPixels
  BY <1>1 DEF Pass, GatesTell, DecodeTells
<1>3. \/ /\ Passed(gate) /\ gate' = gate + 1 /\ verdict' = verdict
         /\ pc' = IF gate = 9 THEN "decode" ELSE "gates"
      \/ ~Passed(gate) /\ verdict' # "key" /\ pc' = "done" /\ gate' = gate
  BY <1>2, GateErrors DEF Pass, Passed, Refuse
<1>4. TypeOK'
  BY <1>1, <1>2, <1>3 DEF TypeOK, Judging
<1>5. ReadTells'
  BY <1>1, <1>2, <1>3 DEF ReadTells, Judging
<1>6. GatesTell'
  <2>1. CASE pc' = "gates"
    BY <1>1, <1>2, <1>3, <2>1 DEF GatesTell
  <2>2. CASE pc' = "decode"
    <3>1. gate = 9 /\ \A g \in 1 .. gate : Passed(g)
      BY <1>1, <1>2, <1>3, <2>2 DEF GatesTell
    <3> QED BY <1>1, <2>2, <3>1 DEF GatesTell
  <2>3. CASE pc' = "done"
    BY <1>1, <1>2, <2>3 DEF GatesTell
  <2> QED BY <1>3, <2>1, <2>2, <2>3
<1>7. DecodeTells'
  BY <1>1, <1>2, <1>3 DEF DecodeTells
<1>8. VerdictTells'
  BY <1>1, <1>2, <1>3 DEF VerdictTells
<1> QED BY <1>1, <1>4, <1>5, <1>6, <1>7, <1>8 DEF IntakeInv

LEMMA DecodeStep ==
  ASSUME IntakeInv, Decode
  PROVE  IntakeInv'
<1>1. /\ TypeOK /\ ContentTells' /\ ReadTells /\ GatesTell /\ DecodeTells /\ VerdictTells
      /\ UNCHANGED <<content, target, read_of, extension, settings, buffer>>
      /\ Needed' = Needed /\ Budget' = Budget
      /\ (Decodes' <=> Decodes) /\ Canonical' = Canonical
      /\ (PoorJPEG' <=> PoorJPEG) /\ (NothingToResize' <=> NothingToResize)
      /\ \A g \in 1 .. 9 : Passed(g)' <=> Passed(g)
      /\ \A px : Worthless(px)' <=> Worthless(px)
  BY BehindTheRead
<1>2. /\ UNCHANGED <<gate, pixels, key>> /\ pc = "decode" /\ pixels = NoPixels
      /\ \A g \in 1 .. 9 : Passed(g)
  BY <1>1 DEF Decode, GatesTell, DecodeTells
<1>3. Needed \in Nat /\ Budget \in Int
  <2>1. Header \in Picture
    BY <1>1, <1>2, HeaderIsPicture
  <2>2. Header.width \in Nat /\ Header.height \in Nat /\ Header.depth \in Nat
    BY <2>1, IntakeAssumption DEF IntakeAssumption
  <2>3. settings.max[1] \in Nat /\ settings.max[2] \in Nat /\ AllocFloor \in Nat
    BY <1>1, IntakeAssumption DEF IntakeAssumption, TypeOK
  <2> QED BY <2>2, <2>3 DEF Needed, Budget, GreaterOf
<1>4. \/ ~(Needed <= Budget) /\ verdict' # "key" /\ pc' = "done" /\ raster' = raster
      \/ /\ Needed <= Budget /\ raster' = Needed /\ Decodes
         /\ pc' = "tail" /\ verdict' = verdict
      \/ /\ Needed <= Budget /\ raster' = Needed /\ ~Decodes
         /\ pc' = "done" /\ verdict' # "key"
  <2>1. CASE Needed > Budget
    BY <1>3, <2>1 DEF Decode, Refuse
  <2>2. CASE ~(Needed > Budget)
    BY <1>3, <2>2 DEF Decode, Refuse
  <2> QED BY <2>1, <2>2
<1>5. TypeOK'
  BY <1>1, <1>2, <1>4 DEF TypeOK, Judging
<1>6. ReadTells'
  BY <1>1, <1>2, <1>4 DEF ReadTells, Judging
<1>7. GatesTell'
  BY <1>1, <1>2, <1>4 DEF GatesTell
<1>8. DecodeTells'
  BY <1>1, <1>2, <1>3, <1>4 DEF DecodeTells
<1>9. VerdictTells'
  BY <1>1, <1>2, <1>4 DEF VerdictTells
<1> QED BY <1>1, <1>5, <1>6, <1>7, <1>8, <1>9 DEF IntakeInv

LEMMA CanonicalizeStep ==
  ASSUME IntakeInv, Canonicalize
  PROVE  IntakeInv'
<1>1. /\ TypeOK /\ ContentTells' /\ ReadTells /\ GatesTell /\ DecodeTells /\ VerdictTells
      /\ UNCHANGED <<content, target, read_of, extension, settings, buffer>>
      /\ Needed' = Needed /\ Budget' = Budget
      /\ (Decodes' <=> Decodes) /\ Canonical' = Canonical
      /\ (PoorJPEG' <=> PoorJPEG) /\ (NothingToResize' <=> NothingToResize)
      /\ \A g \in 1 .. 9 : Passed(g)' <=> Passed(g)
      /\ \A px : Worthless(px)' <=> Worthless(px)
  BY BehindTheRead
<1>2. /\ UNCHANGED <<gate, raster, key>> /\ pc = "tail" /\ pixels = NoPixels
      /\ \A g \in 1 .. 9 : Passed(g)
      /\ Needed <= Budget /\ Decodes
  BY <1>1 DEF Canonicalize, GatesTell, DecodeTells
<1>3. \/ PoorJPEG /\ verdict' # "key" /\ pc' = "done" /\ pixels' = pixels
      \/ NothingToResize /\ verdict' # "key" /\ pc' = "done" /\ pixels' = pixels
      \/ /\ ~PoorJPEG /\ ~NothingToResize /\ pixels' = Canonical
         /\ pc' = pc /\ verdict' = verdict
  BY DEF Canonicalize, PoorJPEG, NothingToResize, Refuse, Canonical
<1>4. TypeOK'
  BY <1>1, <1>2, <1>3 DEF TypeOK, Judging
<1>5. ReadTells'
  BY <1>1, <1>2, <1>3 DEF ReadTells, Judging
<1>6. GatesTell'
  BY <1>1, <1>2, <1>3 DEF GatesTell
<1>7. DecodeTells'
  BY <1>1, <1>2, <1>3 DEF DecodeTells
<1>8. VerdictTells'
  BY <1>1, <1>2, <1>3 DEF VerdictTells
<1> QED BY <1>1, <1>4, <1>5, <1>6, <1>7, <1>8 DEF IntakeInv

LEMMA DeriveStep ==
  ASSUME IntakeInv, Derive
  PROVE  IntakeInv'
<1>1. /\ TypeOK /\ ContentTells' /\ ReadTells /\ GatesTell /\ DecodeTells /\ VerdictTells
      /\ UNCHANGED <<content, target, read_of, extension, settings, buffer>>
      /\ Needed' = Needed /\ Budget' = Budget
      /\ (Decodes' <=> Decodes) /\ Canonical' = Canonical
      /\ (PoorJPEG' <=> PoorJPEG) /\ (NothingToResize' <=> NothingToResize)
      /\ \A g \in 1 .. 9 : Passed(g)' <=> Passed(g)
      /\ \A px : Worthless(px)' <=> Worthless(px)
  BY BehindTheRead
<1>2. /\ UNCHANGED <<gate, raster, pixels>> /\ pc = "tail" /\ pixels # NoPixels
      /\ pixels = Canonical /\ pc' = "done"
  BY <1>1 DEF Derive, GatesTell, DecodeTells, Refuse
<1>3. \/ Worthless(pixels) /\ verdict' # "key"
      \/ ~Worthless(pixels) /\ verdict' = "key" /\ key' = [pixels |-> pixels, hash |-> buffer]
  BY DEF Derive, Worthless, Refuse
<1>4. TypeOK'
  BY <1>1, <1>2 DEF TypeOK, Judging
<1>5. ReadTells'
  BY <1>1, <1>2 DEF ReadTells, Judging
<1>6. GatesTell'
  BY <1>1, <1>2 DEF GatesTell
<1>7. DecodeTells'
  BY <1>1, <1>2 DEF DecodeTells
<1>8. VerdictTells'
  BY <1>1, <1>2, <1>3 DEF VerdictTells, ReadTells
<1> QED BY <1>1, <1>4, <1>5, <1>6, <1>7, <1>8 DEF IntakeInv

LEMMA InvNext == IntakeInv /\ [Next]_vars => IntakeInv'
<1>1. ASSUME IntakeInv, UNCHANGED vars PROVE IntakeInv'
  <2>1. /\ Needed' = Needed /\ Budget' = Budget
        /\ (Decodes' <=> Decodes) /\ Canonical' = Canonical
        /\ (PoorJPEG' <=> PoorJPEG) /\ (NothingToResize' <=> NothingToResize)
        /\ \A g \in 1 .. 9 : Passed(g)' <=> Passed(g)
        /\ \A px : Worthless(px)' <=> Worthless(px)
    BY <1>1, JudgementStays DEF vars
  <2> USE <1>1 DEF IntakeInv, vars
  <2>2. TypeOK' /\ ContentTells' /\ ReadTells'
    BY DEF TypeOK, ContentTells, ReadTells
  <2>3. GatesTell' /\ DecodeTells' /\ VerdictTells'
    BY <2>1 DEF GatesTell, DecodeTells, VerdictTells
  <2> QED BY <2>2, <2>3
<1> QED
  BY <1>1, FileStep, OpenStep, ReadStep, EndReadStep, PassStep, DecodeStep, CanonicalizeStep,
     DeriveStep DEF Next, Intake

LEMMA InvHolds == SafetySpec => []IntakeInv
  BY InvInit, InvNext, PTL DEF SafetySpec

LEMMA SpecIsSafe == Spec => SafetySpec
  BY PTL DEF Spec

-----------------------------------------------------------------------------
(* The arithmetic of smart_resize. *)

LEMMA Division ==
  ASSUME NEW a \in Nat, NEW b \in Nat \ {0}
  PROVE  a \div b \in Nat /\ b * (a \div b) <= a /\ a < b * (a \div b) + b
  OBVIOUS
LEMMA Products ==
  ASSUME NEW a \in Nat, NEW b \in Nat
  PROVE  a * b \in Nat /\ a * b = b * a /\ (2 * a) * b = 2 * (a * b)
  OBVIOUS
LEMMA ProductGrows ==
  ASSUME NEW a \in Nat, NEW b \in Nat, NEW c \in Nat
  PROVE  /\ a <= b => a * c <= b * c
         /\ a < b => a * c + c <= b * c
  OBVIOUS
LEMMA ScaledBounds ==
  ASSUME NEW x \in Nat, NEW num \in Nat, NEW den \in Nat \ {0}
  PROVE  /\ Scaled(x, num, den) \in Nat
         /\ 2 * (Scaled(x, num, den) * den) <= 2 * (x * num) + den
         /\ 2 * (x * num) + den < 2 * (Scaled(x, num, den) * den) + 2 * den
<1> DEFINE a == 2 * x * num + den
           b == 2 * den
           s == a \div b
<1>1. a \in Nat /\ b \in Nat \ {0} /\ a = 2 * (x * num) + den
  BY Products
<1> HIDE DEF a, b
<1>2. s \in Nat /\ b * s <= a /\ a < b * s + b
  BY <1>1, Division
<1> HIDE DEF s
<1>3. b * s = 2 * (s * den)
  BY <1>2, Products DEF b
<1>4. Scaled(x, num, den) = s
  BY DEF Scaled, s, a, b
<1> QED BY <1>1, <1>2, <1>3, <1>4 DEF b
(* Scaling to nothing more than c. *)
LEMMA ScaledFits ==
  ASSUME NEW x \in Nat, NEW num \in Nat, NEW den \in Nat \ {0}, NEW c \in Nat,
         x * num <= c * den
  PROVE  Scaled(x, num, den) <= c
<1> DEFINE s == Scaled(x, num, den)
<1>1. /\ s \in Nat /\ 2 * (s * den) <= 2 * (x * num) + den
      /\ x * num \in Nat /\ s * den \in Nat /\ c * den \in Nat
  BY ScaledBounds, Products
<1> HIDE DEF s
<1>2. c < s => c * den + den <= s * den
  BY <1>1, ProductGrows
<1>3. s <= c
  BY <1>1, <1>2
<1> QED BY <1>3 DEF s

LEMMA ScaledExact ==
  ASSUME NEW x \in Nat, NEW den \in Nat \ {0}
  PROVE  Scaled(x, den, den) = x
<1> DEFINE s == Scaled(x, den, den)
<1>1. /\ s \in Nat /\ 2 * (s * den) <= 2 * (x * den) + den
      /\ 2 * (x * den) + den < 2 * (s * den) + 2 * den
      /\ x * den \in Nat /\ s * den \in Nat
  BY ScaledBounds, Products
<1> HIDE DEF s
<1>2. /\ s < x => s * den + den <= x * den
      /\ x < s => x * den + den <= s * den
  BY <1>1, ProductGrows
<1>3. s = x
  BY <1>1, <1>2
<1> QED BY <1>3 DEF s

(* One side fills the box, the other follows the aspect. *)
LEMMA SideFits ==
  ASSUME NEW W \in Nat \ {0}, NEW H \in Nat \ {0}, NEW cw \in Nat, NEW ch \in Nat,
         cw * H <= ch * W
  PROVE  LET w == GreaterOf(cw, 1)
             h == GreaterOf(Scaled(H, cw, W), 1)
         IN  /\ w \in Nat \ {0} /\ h \in 1 .. GreaterOf(ch, 1)
             /\ h = 1 \/ Near(h * W, w * H, W)
<1> DEFINE s == Scaled(H, cw, W)
           w == GreaterOf(cw, 1)
           h == GreaterOf(s, 1)
<1>1. /\ s \in Nat
      /\ 2 * (s * W) <= 2 * (H * cw) + W
      /\ 2 * (H * cw) + W < 2 * (s * W) + 2 * W
  BY ScaledBounds
<1>2. H * cw = cw * H /\ cw * H \in Nat /\ s * W \in Nat
  BY <1>1, Products
<1>3. s <= ch
  <2>1. H * cw <= ch * W
    BY <1>2
  <2> QED BY <2>1, ScaledFits
<1>4. cw = 0 => s <= 0
  <2>1. cw = 0 => H * cw <= 0 * W
    OBVIOUS
  <2> QED BY <2>1, ScaledFits
<1> HIDE DEF s
<1>5. w \in Nat \ {0} /\ h \in 1 .. GreaterOf(ch, 1)
  BY <1>1, <1>3 DEF GreaterOf
<1>6. h # 1 => h = s /\ w = cw
  BY <1>1, <1>4 DEF GreaterOf
<1>7. Near(s * W, cw * H, W)
  <2> DEFINE a == s * W
             b == cw * H
  <2>1. /\ a \in Nat /\ b \in Nat /\ 2 * a <= 2 * b + W
        /\ 2 * b + W < 2 * a + 2 * W
    BY <1>1, <1>2
  <2> HIDE DEF a, b
  <2>2. 2 * (a - b) <= W /\ 2 * (b - a) <= W
    BY <2>1
  <2> QED BY <2>2 DEF Near, a, b
<1> QED BY <1>5, <1>6, <1>7 DEF s

(* smart_resize *)
LEMMA ResizedFits ==
  ASSUME NEW W \in Nat \ {0}, NEW H \in Nat \ {0}, NEW box \in Nat \X Nat
  PROVE  LET w == Resized(W, H, box)[1]
             h == Resized(W, H, box)[2]
         IN  /\ w \in 1 .. GreaterOf(box[1], 1) /\ h \in 1 .. GreaterOf(box[2], 1)
             /\ \/ w = GreaterOf(box[1], 1) /\ (h = 1 \/ Near(h * W, w * H, W))
                \/ h = GreaterOf(box[2], 1) /\ (w = 1 \/ Near(w * H, h * W, H))
<1> DEFINE cw == box[1]
           ch == box[2]
<1>1. cw \in Nat /\ ch \in Nat
  OBVIOUS
<1>2. CASE cw * H <= ch * W
  <2> DEFINE w == GreaterOf(cw, 1)
             h == GreaterOf(Scaled(H, cw, W), 1)
  <2>1. Resized(W, H, box) = <<w, h>>
    BY <1>2 DEF Resized
  <2> HIDE DEF cw, ch
  <2>2. /\ w \in Nat \ {0} /\ h \in 1 .. GreaterOf(ch, 1)
        /\ h = 1 \/ Near(h * W, w * H, W)
    BY <1>1, <1>2, SideFits
  <2> HIDE DEF w, h
  <2>3. w \in 1 .. w
    BY <2>2
  <2> QED BY <2>1, <2>2, <2>3 DEF w, cw, ch
<1>3. CASE ~(cw * H <= ch * W)
  <2> DEFINE w == GreaterOf(Scaled(W, ch, H), 1)
             h == GreaterOf(ch, 1)
  <2>1. Resized(W, H, box) = <<w, h>>
    BY <1>3 DEF Resized
  <2> HIDE DEF cw, ch
  <2>2. ch * W <= cw * H
    BY <1>1, <1>3, Products
  <2>3. /\ h \in Nat \ {0} /\ w \in 1 .. GreaterOf(cw, 1)
        /\ w = 1 \/ Near(w * H, h * W, H)
    BY <1>1, <2>2, SideFits
  <2> HIDE DEF w, h
  <2>4. h \in 1 .. h
    BY <2>3
  <2> QED BY <2>1, <2>3, <2>4 DEF h, cw, ch
<1> QED BY <1>2, <1>3

LEMMA SmallProducts ==
  ASSUME NEW a \in Nat, NEW b \in Nat
  PROVE  /\ a * b = 0 <=> a = 0 \/ b = 0
         /\ a * b = 1 <=> a = 1 /\ b = 1
<1>1. a = 0 => a * b = 0
  OBVIOUS
<1>2. b = 0 => a * b = 0
  OBVIOUS
<1>3. a = 1 => a * b = b
  OBVIOUS
<1>4. a >= 2 /\ b >= 1 => a * b >= 2
  <2>1. a >= 2 => 2 * b <= a * b
    BY ProductGrows
  <2> QED BY <2>1, Products
<1> QED BY <1>1, <1>2, <1>3, <1>4

-----------------------------------------------------------------------------
(* The verdict in no order of checks. *)

LEMMA HeaderOfBytes ==
  ASSUME NEW p \in Picture, buffer = Bytes(p)
  PROVE  Header = p /\ Len(buffer) = p.cells
<1>1. buffer[1] = Cell(p) /\ Len(buffer) = p.cells /\ p.cells # 0 /\ Len(Empty) = 0
  <2>1. 1 \in 1 .. p.cells
    BY BytesShape
  <2> QED BY <2>1, BytesShape DEF Empty
<1> QED BY <1>1 DEF Header, Cell

LEMMA GatesJudge ==
  ASSUME TypeOK, NEW p \in Picture, Header = p
  PROVE  (\A g \in 1 .. 9 : Passed(g)) <=>
           /\ p.header /\ p.magic = extension /\ extension \in Families
           /\ \E allowed \in settings.allowed : allowed.family = extension
           /\ p.width \in settings.min[1] .. settings.max[1]
           /\ p.height \in settings.min[2] .. settings.max[2]
<1>1. \A g \in 1 .. 9 : g \in {1, 2, 3, 4, 5, 6, 7, 8, 9}
  OBVIOUS
<1>2. (\A g \in 1 .. 9 : Passed(g)) <=>
        /\ Passed(1) /\ Passed(2) /\ Passed(3) /\ Passed(4) /\ Passed(5)
        /\ Passed(6) /\ Passed(7) /\ Passed(8) /\ Passed(9)
  BY <1>1
<1>3. \A f : /\ f \in Families => Format(f) # Unrecognized /\ Format(f).family = f
             /\ f \notin Families => Format(f) = Unrecognized
  BY DEF Format, Unrecognized, Families
<1>4. Passed(1) /\ Passed(2) /\ Passed(3) /\ Passed(4) <=>
        p.magic = extension /\ extension \in Families
  <2>1. Passed(1) /\ Passed(2) /\ Passed(3) /\ Passed(4) <=>
          /\ Format(p.magic) # Unrecognized /\ extension # "none"
          /\ Format(extension) # Unrecognized
          /\ Format(extension).family = Format(p.magic).family
    BY GateList DEF Sniffed, ContainerFormat, Compatible
  <2> QED BY <1>3, <2>1 DEF Families
<1>5. extension \in Families =>
        (Passed(5) <=> \E allowed \in settings.allowed : allowed.family = extension)
  BY <1>3, GateList DEF Listed, ContainerFormat, Compatible
<1>6. Passed(6) <=> p.header
  BY GateList
<1>7. Passed(7) /\ Passed(8) /\ Passed(9) <=>
        /\ p.width \in settings.min[1] .. settings.max[1]
        /\ p.height \in settings.min[2] .. settings.max[2]
  <2>1. /\ settings.min[1] \in Nat /\ settings.min[2] \in Nat
        /\ settings.max[1] \in Nat /\ settings.max[2] \in Nat
        /\ p.width \in Nat /\ p.height \in Nat
    BY IntakeAssumption DEF IntakeAssumption, TypeOK
  <2> QED BY <2>1, GateList DEF SizesAgree, TooSmall, TooLarge
<1> QED BY <1>2, <1>4, <1>5, <1>6, <1>7

LEMMA PixelsJudge ==
  ASSUME TypeOK, NEW p \in Picture, buffer = Bytes(p)
  PROVE  ~NothingToResize /\ ~Worthless(Canonical) <=>
           /\ p.width * p.height # 0 /\ p.shade = Textured
           /\ Resized(p.width, p.height, settings.canonical) # <<1, 1>>
<1> DEFINE W == p.width
           H == p.height
           box == settings.canonical
<1>1. W \in Nat /\ H \in Nat /\ box \in Nat \X Nat /\ p.cells \in Nat \ {0} /\ Header = p
  BY IntakeAssumption, HeaderOfBytes DEF IntakeAssumption, TypeOK
<1>2. Canonical.cells = {Cell(p)} /\ Canonical.size = Dimensions
  <2>1. \A k \in 1 .. p.cells : buffer[k] = Cell(p)
    BY BytesShape
  <2>2. {buffer[k] : k \in 1 .. p.cells} = {Cell(p)}
    BY <1>1, <2>1
  <2> QED BY <1>1, <2>2 DEF Canonical
<1>3. FlatPixels(Canonical) <=> Dimensions[1] * Dimensions[2] = 1 \/ p.shade # Textured
  <2>1. (\E q \in Picture : q.shade # Textured /\ \A c \in {Cell(p)} : c = Cell(q))
          <=> p.shade # Textured
    BY DEF Cell
  <2> QED BY <1>2, <2>1 DEF FlatPixels
<1>4. Worthless(Canonical) <=>
        Dimensions[1] * Dimensions[2] \in {0, 1} \/ p.shade # Textured
  BY <1>2, <1>3 DEF Worthless
<1>5. CASE <<W, H>> = box
  <2>1. Dimensions = <<W, H>> /\ ~NothingToResize /\ box[1] = W /\ box[2] = H
    BY <1>1, <1>5 DEF Dimensions, NothingToResize
  <2>2. W * H # 0 => Resized(W, H, box) = <<W, H>>
    <3>1. SUFFICES ASSUME W * H # 0 PROVE Resized(W, H, box) = <<W, H>>
      OBVIOUS
    <3>2. W \in Nat \ {0} /\ H \in Nat \ {0}
      BY <1>1, <3>1, SmallProducts
    <3>3. Scaled(H, W, W) = H
      BY <3>2, ScaledExact
    <3> QED BY <2>1, <3>2, <3>3 DEF Resized, GreaterOf
  <2>3. W * H = 1 <=> <<W, H>> = <<1, 1>>
    BY <1>1, SmallProducts
  <2> QED BY <1>4, <2>1, <2>2, <2>3
<1>6. CASE <<W, H>> # box
  <2>1. NothingToResize <=> W * H = 0
    BY <1>1, <1>6 DEF NothingToResize
  <2>2. CASE W * H # 0
    <3> DEFINE w == Resized(W, H, box)[1]
               h == Resized(W, H, box)[2]
    <3>1. W \in Nat \ {0} /\ H \in Nat \ {0}
      BY <1>1, <2>2, SmallProducts
    <3>2. w \in 1 .. GreaterOf(box[1], 1) /\ h \in 1 .. GreaterOf(box[2], 1)
      BY <1>1, <3>1, ResizedFits
    <3>3. Dimensions = Resized(W, H, box) /\ Resized(W, H, box) = <<w, h>>
      BY <1>1, <1>6 DEF Dimensions, Resized
    <3> HIDE DEF w, h
    <3>4. w \in Nat \ {0} /\ h \in Nat \ {0}
      BY <1>1, <3>2 DEF GreaterOf
    <3>5. w * h # 0 /\ (w * h = 1 <=> <<w, h>> = <<1, 1>>)
      BY <3>4, SmallProducts
    <3>6. Dimensions[1] * Dimensions[2] = w * h
      BY <3>3
    <3> QED BY <1>4, <2>1, <2>2, <3>3, <3>5, <3>6
  <2> QED BY <2>1, <2>2
<1> QED BY <1>5, <1>6

LEMMA AcceptableMeans ==
  ASSUME TypeOK, NEW p \in Picture, buffer = Bytes(p), p.cells <= MaxCells
  PROVE  Acceptable(p) <=>
           /\ \A g \in 1 .. 9 : Passed(g)
           /\ Needed <= Budget /\ Decodes /\ ~PoorJPEG
           /\ ~NothingToResize /\ ~Worthless(Canonical)
<1>1. Header = p /\ Len(buffer) = p.cells /\ p.cells \in Nat
  BY HeaderOfBytes, BytesShape
<1>2. Needed = p.width * p.height * p.depth /\ Decodes
  BY <1>1 DEF Needed, Decodes
<1>3. extension \in Families =>
        (PoorJPEG <=> extension = "JPEG" /\ p.quality < settings.threshold)
  BY <1>1 DEF PoorJPEG, ContainerFormat, Format
<1>4. p.quality \in Nat /\ settings.threshold \in Nat
  BY IntakeAssumption DEF IntakeAssumption, TypeOK
<1> QED BY <1>1, <1>2, <1>3, <1>4, GatesJudge, PixelsJudge DEF Acceptable

-----------------------------------------------------------------------------
(* Results. *)

(* The capped read and the gates before the decode: whatever the file and  *)
(* however it grows, no more than the cap and one cell is read, and no     *)
(* raster is allocated but one of a permitted size within the budget.      *)
THEOREM MemoryIsBounded == Spec => []MemoryBounded
<1>1. IntakeInv => MemoryBounded
  <2> SUFFICES ASSUME IntakeInv PROVE MemoryBounded
    OBVIOUS
  <2>1. Len(buffer) <= MaxCells + 1
    BY DEF IntakeInv, ReadTells
  <2>2. ASSUME raster # 0
        PROVE  /\ settings.min[1] <= Header.width /\ Header.width <= settings.max[1]
               /\ settings.min[2] <= Header.height /\ Header.height <= settings.max[2]
               /\ raster <= Budget
    <3>1. TypeOK /\ \A g \in 1 .. 9 : Passed(g)
      BY <2>2 DEF IntakeInv, GatesTell
    <3>2. Header \in Picture
      BY <3>1, HeaderIsPicture
    <3>3. /\ Header.width \in settings.min[1] .. settings.max[1]
          /\ Header.height \in settings.min[2] .. settings.max[2]
      BY <3>1, <3>2, GatesJudge
    <3>4. raster <= Budget
      BY <2>2 DEF IntakeInv, DecodeTells
    <3> QED BY <3>3, <3>4
  <2> QED BY <2>1, <2>2 DEF MemoryBounded
<1> QED BY <1>1, InvHolds, SpecIsSafe, PTL

(* preprocess hashes the bytes it decodes: no key ever mixes the pixels of *)
(* one content of the file with the hash of another.                       *)
THEOREM KeysBind == Spec => []KeyBindsWhatWasDecoded
<1>1. IntakeInv => KeyBindsWhatWasDecoded
  <2> SUFFICES ASSUME IntakeInv, verdict = "key"
               PROVE  /\ key.hash # Empty /\ key.hash[1].of.cells <= Len(key.hash)
                      /\ key.pixels.cells = {key.hash[k] : k \in 1 .. key.hash[1].of.cells}
    BY DEF KeyBindsWhatWasDecoded
  <2>1. /\ pixels # NoPixels /\ key = [pixels |-> pixels, hash |-> buffer]
        /\ pixels = Canonical /\ Decodes
    BY DEF IntakeInv, VerdictTells, DecodeTells, Pending
  <2>2. /\ buffer # Empty /\ Header = buffer[1].of /\ Header \in Picture
        /\ Len(buffer) \in Nat
    BY <2>1, HeaderIsPicture DEF IntakeInv, GatesTell
  <2>3. Header.cells <= Len(buffer)
    BY <2>1, <2>2, IntakeAssumption DEF Decodes, IntakeAssumption
  <2> QED BY <2>1, <2>2, <2>3 DEF Canonical
<1> QED BY <1>1, InvHolds, SpecIsSafe, PTL

(* derive_key on a file nobody touched while it was read: a key, and of    *)
(* that file, exactly for an acceptable picture, in whatever order the     *)
(* checks come.                                                            *)
THEOREM QuietPicturesAreJudged == Spec => []QuietPictureJudged
<1>1. IntakeInv => QuietPictureJudged
  <2> SUFFICES ASSUME IntakeInv, NEW p \in read_of, pc = "done"
               PROVE  /\ (verdict = "key") <=> Acceptable(p)
                      /\ verdict = "key" => key.hash = Bytes(p)
    BY DEF QuietPictureJudged
  <2>1. \/ p \in Picture /\ buffer = Bytes(p) /\ p.cells <= MaxCells
        \/ verdict # "key" /\ ~(p.cells <= MaxCells)
    BY DEF IntakeInv, ReadTells, Judging
  <2>2. CASE verdict # "key" /\ ~(p.cells <= MaxCells)
    BY <2>2 DEF Acceptable
  <2>3. CASE p \in Picture /\ buffer = Bytes(p) /\ p.cells <= MaxCells
    <3>1. Acceptable(p) <=>
           /\ \A g \in 1 .. 9 : Passed(g)
           /\ Needed <= Budget /\ Decodes /\ ~PoorJPEG
           /\ ~NothingToResize /\ ~Worthless(Canonical)
      BY <2>3, AcceptableMeans DEF IntakeInv
    <3>2. CASE verdict = "key"
      BY <2>3, <3>1, <3>2 DEF IntakeInv, VerdictTells, GatesTell, DecodeTells
    <3>3. CASE verdict # "key"
      <4>1. ~(Len(buffer) > MaxCells)
        BY <2>3, BytesShape, IntakeAssumption DEF IntakeAssumption
      <4> QED BY <3>1, <3>3, <4>1 DEF IntakeInv, VerdictTells
    <3> QED BY <3>2, <3>3
  <2> QED BY <2>1, <2>2, <2>3
<1> QED BY <1>1, InvHolds, SpecIsSafe, PTL

(* smart_resize: the canonical image fits the canonical box, fills one     *)
(* side of it and keeps the aspect within half a pixel on the other.       *)
THEOREM CanonicalImagesFit == Spec => []CanonicalFits
<1>1. IntakeInv => CanonicalFits
  <2> DEFINE W == Header.width
             H == Header.height
             box == settings.canonical
             w == pixels.size[1]
             h == pixels.size[2]
  <2> SUFFICES ASSUME IntakeInv, pixels # NoPixels, W * H # 0
               PROVE  /\ w \in 1 .. GreaterOf(box[1], 1) /\ h \in 1 .. GreaterOf(box[2], 1)
                      /\ \/ w = GreaterOf(box[1], 1) /\ (h = 1 \/ Near(h * W, w * H, W))
                         \/ h = GreaterOf(box[2], 1) /\ (w = 1 \/ Near(w * H, h * W, H))
    BY DEF CanonicalFits
  <2>1. Header \in Picture
    BY HeaderIsPicture DEF IntakeInv, GatesTell
  <2>2. W \in Nat /\ H \in Nat /\ box \in Nat \X Nat
    BY <2>1, IntakeAssumption DEF IntakeAssumption, IntakeInv, TypeOK
  <2>3. W \in Nat \ {0} /\ H \in Nat \ {0}
    BY <2>2, SmallProducts
  <2>4. pixels.size = Dimensions
    BY DEF IntakeInv, DecodeTells, Canonical
  <2>5. CASE <<W, H>> = box
    <3>1. w = W /\ h = H /\ box[1] = W /\ box[2] = H
      BY <2>4, <2>5 DEF Dimensions
    <3>2. H * W = W * H /\ W * H \in Nat
      BY <2>3, Products
    <3>3. Near(h * W, w * H, W)
      BY <2>3, <3>1, <3>2 DEF Near
    <3> HIDE DEF W, H, box, w, h
    <3> QED BY <2>3, <3>1, <3>3 DEF GreaterOf
  <2>6. CASE <<W, H>> # box
    <3>1. pixels.size = Resized(W, H, box)
      BY <2>4, <2>6 DEF Dimensions
    <3> DEFINE rw == Resized(W, H, box)[1]
               rh == Resized(W, H, box)[2]
    <3>2. w = rw /\ h = rh
      BY <3>1
    <3> HIDE DEF W, H, box, w, h
    <3>3. /\ rw \in 1 .. GreaterOf(box[1], 1) /\ rh \in 1 .. GreaterOf(box[2], 1)
          /\ \/ rw = GreaterOf(box[1], 1) /\ (rh = 1 \/ Near(rh * W, rw * H, W))
             \/ rh = GreaterOf(box[2], 1) /\ (rw = 1 \/ Near(rw * H, rh * W, H))
      BY <2>2, <2>3, ResizedFits
    <3> QED BY <3>2, <3>3
  <2> QED BY <2>5, <2>6
<1> QED BY <1>1, InvHolds, SpecIsSafe, PTL

-----------------------------------------------------------------------------
(* The quality scan of the loader.  What it does at a position depends on  *)
(* the bytes and on how many of them it sees.                              *)
LengthAt(b, p) == 256 * b[p + 3] + b[p + 4]
MarkerAt(b, p, n) == p + 4 <= n /\ b[p + 1] = 255 /\ b[p + 2] \notin Standalone
Beyond(b, p, n) == LengthAt(b, p) < 2 \/ p + 2 + LengthAt(b, p) > n
DqtAt(b, p) == b[p + 2] = 219 /\ LengthAt(b, p) >= 3
Eight(b, p, n) == p + 4 < n => b[p + 5] < 16

Moves(b, p, n) ==
  \/ p + 4 <= n /\ b[p + 1] # 255
  \/ p + 4 <= n /\ b[p + 1] = 255 /\ b[p + 2] \in Standalone
  \/ /\ MarkerAt(b, p, n) /\ ~Beyond(b, p, n)
     /\ DqtAt(b, p) => ~Eight(b, p, n) /\ LengthAt(b, p) < 6
Follows(b, p) ==
  IF b[p + 1] # 255 THEN p + 1 ELSE IF b[p + 2] \in Standalone THEN p + 2 ELSE p + 2 + LengthAt(b, p)

Answers(b, p, n, q) ==
  \/ q = DefaultQuality /\ (p + 4 > n \/ (MarkerAt(b, p, n) /\ Beyond(b, p, n)))
  \/ /\ MarkerAt(b, p, n) /\ ~Beyond(b, p, n) /\ DqtAt(b, p)
     /\ \/ /\ Eight(b, p, n)
           /\ q = IF p + 5 < n THEN QualityFromDc(b[p + 6]) ELSE OutOfBounds
        \/ /\ ~Eight(b, p, n) /\ LengthAt(b, p) >= 6
           /\ q = IF p + 6 < n THEN QualityFromDc(256 * b[p + 6] + b[p + 7]) ELSE OutOfBounds

(* A position the scan over all the bytes comes to.                        *)
Closed(b, C) == 2 \in C /\ \A c \in C : Moves(b, c, Len(b)) => Follows(b, c) \in C
Reached(b, p) == \A C \in SUBSET Nat : Closed(b, C) => p \in C

LEMMA LengthsAreThere ==
  ASSUME NEW b \in Seq(Byte), NEW p \in Nat, p + 4 <= Len(b)
  PROVE  LengthAt(b, p) \in Nat
<1>1. PICK n \in Nat : n = Len(b)
  BY LenProperties
<1>2. \A k \in 1 .. n : b[k] \in 0 .. 255
  BY <1>1, ElementOfSeq DEF Byte
<1>3. p + 3 \in 1 .. n /\ p + 4 \in 1 .. n
  BY <1>1
<1>4. b[p + 3] \in 0 .. 255 /\ b[p + 4] \in 0 .. 255
  BY <1>2, <1>3
<1>5. \A x, y \in 0 .. 255 : 256 * x + y \in Nat
  OBVIOUS
<1> QED
  BY <1>4, <1>5 DEF LengthAt

LEMMA FollowsStays ==
  ASSUME NEW b \in Seq(Byte), NEW p \in Nat, Moves(b, p, Len(b))
  PROVE  Follows(b, p) \in Nat
<1>1. LengthAt(b, p) \in Nat
  BY LengthsAreThere DEF Moves, MarkerAt
<1> QED
  BY <1>1 DEF Follows

LEMMA ReachedGoesOn ==
  ASSUME NEW b, NEW p, Reached(b, p), Moves(b, p, Len(b))
  PROVE  Reached(b, Follows(b, p))
BY DEF Reached, Closed

(* The scan comes to one position only that it does not leave.             *)
LEMMA OneEnd ==
  ASSUME NEW b \in Seq(Byte), NEW p \in Nat, NEW q \in Nat, Reached(b, p), Reached(b, q),
         ~Moves(b, p, Len(b)), ~Moves(b, q, Len(b))
  PROVE  p = q
<1> DEFINE Onward(C) == C \subseteq Nat /\ \A c \in C : Moves(b, c, Len(b)) => Follows(b, c) \in C
           Leads == {t \in Nat : \A C \in SUBSET Nat : t \in C /\ Onward(C) => p \in C}
<1>1. Closed(b, Leads)
  <2>1. 2 \in Leads
    BY DEF Reached, Closed
  <2>2. ASSUME NEW t \in Leads, Moves(b, t, Len(b)) PROVE Follows(b, t) \in Leads
    <3>1. Follows(b, t) \in Nat
      BY <2>2, FollowsStays
    <3>2. ASSUME NEW C \in SUBSET Nat, Follows(b, t) \in C, Onward(C) PROVE p \in C
      <4>1. PICK D : D = C \cup {t}
        OBVIOUS
      <4>2. D \in SUBSET Nat /\ t \in D
        BY <4>1
      <4>3. Onward(D)
        BY <3>2, <4>1, <4>2
      <4>4. p \in D
        BY <4>2, <4>3
      <4>5. p # t
        BY <2>2
      <4> QED
        BY <4>1, <4>4, <4>5
    <3> QED
      BY <3>1, <3>2
  <2> QED
    BY <2>1, <2>2 DEF Closed
<1>2. q \in Leads
  BY <1>1 DEF Reached
<1>3. {q} \in SUBSET Nat /\ q \in {q} /\ Onward({q})
  OBVIOUS
<1>4. p \in {q}
  BY <1>2, <1>3
<1> QED
  BY <1>4

(* What sees less of the bytes moves as what sees all of them, or ends.    *)
LEMMA MovesAlike ==
  ASSUME NEW b \in Seq(Byte), NEW p \in Nat, NEW n \in 0 .. Len(b), Moves(b, p, n)
  PROVE  Moves(b, p, Len(b))
<1>1. PICK l \in Nat : l = Len(b) /\ n \in 0 .. l
  BY LenProperties
<1>2. p + 4 <= n /\ p + 4 <= l
  BY <1>1 DEF Moves, MarkerAt
<1>4. LengthAt(b, p) \in Nat
  BY <1>1, <1>2, LengthsAreThere
<1>5. ~Beyond(b, p, n) => ~Beyond(b, p, l)
  BY <1>1, <1>4 DEF Beyond
<1>6. ~Eight(b, p, n) => ~Eight(b, p, l)
  BY <1>1 DEF Eight
<1>7. Moves(b, p, l)
  BY <1>1, <1>2, <1>5, <1>6 DEF Moves, MarkerAt
<1> QED
  BY <1>1, <1>7

LEMMA AnswersEnd ==
  ASSUME NEW b \in Seq(Byte), NEW p \in Nat, NEW n \in 0 .. Len(b), NEW q, Answers(b, p, n, q)
  PROVE  ~Moves(b, p, n)
<1>1. PICK l \in Nat : l = Len(b) /\ n \in 0 .. l
  BY LenProperties
<1>2. CASE p + 4 > n
  BY <1>1, <1>2 DEF Moves, MarkerAt
<1>3. CASE ~(p + 4 > n)
  <2>1. LengthAt(b, p) \in Nat
    BY <1>1, <1>3, LengthsAreThere
  <2> QED
    BY <1>3, <2>1 DEF Answers, Moves, MarkerAt
<1> QED
  BY <1>2, <1>3

-----------------------------------------------------------------------------
(* Both scans are at positions the scan over the whole file comes to, and  *)
(* have answered what they see there.                                      *)
ScanInv ==
  /\ file \in File /\ filled \in 0 .. WindowLen
  /\ position \in [View -> Nat] /\ result = [v \in View |-> result[v]]
  /\ \A v \in View : Reached(file.bytes, position[v])
  /\ \A v \in View : result[v] # Unanswered =>
       /\ Answers(file.bytes, position[v], LengthOf(v), result[v])
       /\ v = "window" => filled = WindowLen

LEMMA WindowInFile ==
  ASSUME file \in File
  PROVE  /\ file.bytes \in Seq(Byte) /\ Len(file.bytes) \in Nat /\ WindowLen \in 0 .. Len(file.bytes)
<1>1. file.bytes \in Seq(Byte) /\ SniffWindow \in Nat
  BY ScanAssumption
<1>2. Len(file.bytes) \in Nat
  BY <1>1, LenProperties
<1> QED
  BY <1>1, <1>2 DEF WindowLen, Smaller

LEMMA ScanBegins == ScanInit => ScanInv
<1> SUFFICES ASSUME ScanInit PROVE ScanInv
  OBVIOUS
<1>1. file \in File /\ filled = 0 /\ position = [v \in View |-> 2] /\ result = [v \in View |-> Unanswered]
  BY DEF ScanInit
<1>2. filled \in 0 .. WindowLen
  BY <1>1, WindowInFile
<1>3. Reached(file.bytes, 2)
  BY DEF Reached, Closed
<1> QED
  BY <1>1, <1>2, <1>3 DEF ScanInv

LEMMA FillStep ==
  ASSUME ScanInv, FillWindow
  PROVE  ScanInv'
<1>1. PICK n \in 1 .. WindowLen - filled : filled' = filled + n
  BY DEF FillWindow
<1>2. file' = file /\ position' = position /\ result' = result /\ filled < WindowLen
  BY DEF FillWindow
<1>3. file \in File /\ filled \in 0 .. WindowLen /\ WindowLen \in Nat
  BY WindowInFile DEF ScanInv
<1>4. WindowLen' = WindowLen /\ filled' \in 0 .. WindowLen
  BY <1>1, <1>2, <1>3 DEF WindowLen
<1>5. \A v \in View : result[v] # Unanswered => v = "whole"
  BY <1>2, <1>3 DEF ScanInv, View
<1>6. LengthOf("whole")' = LengthOf("whole")
  BY <1>2 DEF LengthOf
<1> QED
  BY <1>2, <1>3, <1>4, <1>5, <1>6 DEF ScanInv

(* A step that moves a scan: where from and where to.                      *)
MoveOf(v) ==
  /\ Moves(file.bytes, position[v], LengthOf(v))
  /\ position' = [position EXCEPT ![v] = Follows(file.bytes, position[v])]
  /\ UNCHANGED <<file, filled, result>>
AnswerOf(v) ==
  /\ \E q : /\ Answers(file.bytes, position[v], LengthOf(v), q)
            /\ result' = [result EXCEPT ![v] = q]
  /\ UNCHANGED <<file, filled, position>>

LEMMA ScanBytes ==
  ASSUME ScanInv, NEW v \in View, Scanning(v)
  PROVE  /\ file.bytes \in Seq(Byte) /\ position[v] \in Nat
         /\ LengthOf(v) \in 0 .. Len(file.bytes) /\ Len(file.bytes) \in Nat
         /\ v = "window" => filled = WindowLen
<1>1. file.bytes \in Seq(Byte) /\ Len(file.bytes) \in Nat /\ WindowLen \in 0 .. Len(file.bytes)
  BY WindowInFile DEF ScanInv
<1> QED
  BY <1>1 DEF ScanInv, Scanning, LengthOf, View

LEMMA IterationsMove ==
  ASSUME ScanInv, NEW v \in View, Iteration(v)
  PROVE  Scanning(v) /\ (MoveOf(v) \/ AnswerOf(v))
<1> DEFINE p == position[v]
           n == LengthOf(v)
           b == file.bytes
<1>1. Scanning(v)
  BY DEF Iteration, EndOfBuffer, SkipByte, SkipStandalone, GiveUp, ReadEightBit, ReadSixteenBit,
         SkipSegment, InSegment
<1>2. p \in Nat /\ n \in Nat /\ b \in Seq(Byte) /\ n \in 0 .. Len(b) /\ position \in [View -> Nat]
  BY <1>1, ScanBytes DEF ScanInv
<1>3. /\ p + 1 + 1 = p + 2 /\ p + 2 + 1 = p + 3 /\ p + 3 + 1 = p + 4 /\ p + 4 + 1 = p + 5
      /\ p + 5 + 1 = p + 6 /\ p + 6 + 1 = p + 7
  BY <1>2
<1>4. /\ At(p) = b[p + 1] /\ Marker(v) = b[p + 2] /\ SegLen(v) = LengthAt(b, p)
      /\ At(p + 4) = b[p + 5] /\ At(p + 5) = b[p + 6] /\ At(p + 6) = b[p + 7]
  BY <1>3 DEF At, Marker, SegLen, LengthAt
<1>5. /\ InSegment(v) <=> Scanning(v) /\ MarkerAt(b, p, n)
      /\ Malformed(v) <=> Beyond(b, p, n)
      /\ IsTable(v) <=> DqtAt(b, p)
      /\ EightBit(v) <=> Eight(b, p, n)
  BY <1>4 DEF InSegment, MarkerAt, Malformed, Beyond, IsTable, DqtAt, EightBit, Eight
<1>6. p + 4 <= n => LengthAt(b, p) \in Nat
  BY <1>2, LengthsAreThere
<1> HIDE DEF b, n
<1>7. CASE EndOfBuffer(v)
  <2>1. Answers(b, p, n, DefaultQuality)
    BY <1>7 DEF EndOfBuffer, Answers, n
  <2> QED
    BY <1>1, <1>7, <2>1 DEF EndOfBuffer, Return, AnswerOf, b, n
<1>8. CASE SkipByte(v)
  <2>1. Moves(b, p, n) /\ Follows(b, p) = p + 1
    BY <1>4, <1>8 DEF SkipByte, Moves, Follows, n
  <2>2. position' = [position EXCEPT ![v] = p + 1]
    BY <1>8 DEF SkipByte, Advance
  <2> QED
    BY <1>1, <1>8, <2>1, <2>2 DEF SkipByte, MoveOf, b, n
<1>9. CASE SkipStandalone(v)
  <2>1. Moves(b, p, n) /\ Follows(b, p) = p + 2
    BY <1>4, <1>9 DEF SkipStandalone, Moves, Follows, n
  <2>2. position' = [position EXCEPT ![v] = p + 2]
    BY <1>9 DEF SkipStandalone, Advance
  <2> QED
    BY <1>1, <1>9, <2>1, <2>2 DEF SkipStandalone, MoveOf, b, n
<1>10. CASE GiveUp(v)
  <2>1. Answers(b, p, n, DefaultQuality)
    BY <1>5, <1>10 DEF GiveUp, Answers
  <2> QED
    BY <1>1, <1>10, <2>1 DEF GiveUp, Return, AnswerOf, b, n
<1>0. CASE ReadEightBit(v)
  <2>1. PICK q : q = IF p + 5 < n THEN QualityFromDc(b[p + 6]) ELSE OutOfBounds
    OBVIOUS
  <2>2. Answers(b, p, n, q)
    BY <1>5, <1>0, <2>1 DEF ReadEightBit, Answers
  <2>3. result' = [result EXCEPT ![v] = q]
    BY <1>4, <1>0, <2>1 DEF ReadEightBit, Return, n
  <2> QED
    BY <1>1, <1>0, <2>2, <2>3 DEF ReadEightBit, AnswerOf, b, n
<1>12. CASE ReadSixteenBit(v)
  <2>1. PICK q : q = IF p + 6 < n THEN QualityFromDc(256 * b[p + 6] + b[p + 7]) ELSE OutOfBounds
    OBVIOUS
  <2>2. Answers(b, p, n, q)
    BY <1>4, <1>5, <1>12, <2>1 DEF ReadSixteenBit, Answers
  <2>3. result' = [result EXCEPT ![v] = q]
    BY <1>4, <1>12, <2>1 DEF ReadSixteenBit, Return, n
  <2> QED
    BY <1>1, <1>12, <2>2, <2>3 DEF ReadSixteenBit, AnswerOf, b, n
<1>13. CASE SkipSegment(v)
  <2>1. MarkerAt(b, p, n) /\ ~Beyond(b, p, n) /\ (DqtAt(b, p) => ~Eight(b, p, n) /\ LengthAt(b, p) < 6)
    BY <1>4, <1>5, <1>13 DEF SkipSegment
  <2>2. Moves(b, p, n)
    BY <2>1 DEF Moves
  <2>3. Follows(b, p) = p + 2 + LengthAt(b, p)
    BY <2>1 DEF Follows, MarkerAt
  <2>4. p + 2 + LengthAt(b, p) = p + (2 + LengthAt(b, p))
    BY <1>2, <1>6, <2>1 DEF MarkerAt
  <2>5. position' = [position EXCEPT ![v] = p + (2 + LengthAt(b, p))]
    BY <1>4, <1>13 DEF SkipSegment, Advance
  <2> QED
    BY <1>1, <1>13, <2>2, <2>3, <2>4, <2>5 DEF SkipSegment, MoveOf, b, n
<1> QED
  BY <1>7, <1>8, <1>9, <1>10, <1>0, <1>12, <1>13 DEF Iteration

LEMMA IterationStep ==
  ASSUME ScanInv, NEW v \in View, Iteration(v)
  PROVE  ScanInv'
<1>1. Scanning(v) /\ (MoveOf(v) \/ AnswerOf(v))
  BY IterationsMove
<1>2. /\ file.bytes \in Seq(Byte) /\ position[v] \in Nat /\ LengthOf(v) \in 0 .. Len(file.bytes)
      /\ v = "window" => filled = WindowLen
  BY <1>1, ScanBytes
<1>3. result[v] = Unanswered
  BY <1>1 DEF Scanning
<1>4. /\ file \in File /\ filled \in 0 .. WindowLen /\ position \in [View -> Nat]
      /\ result = [w \in View |-> result[w]]
  BY DEF ScanInv
<1>5. \A w \in View : Reached(file.bytes, position[w])
  BY DEF ScanInv
<1>6. \A w \in View : result[w] # Unanswered =>
        /\ Answers(file.bytes, position[w], LengthOf(w), result[w])
        /\ w = "window" => filled = WindowLen
  BY DEF ScanInv
<1>7. CASE MoveOf(v)
  <2>1. /\ Moves(file.bytes, position[v], LengthOf(v)) /\ file' = file /\ filled' = filled
        /\ result' = result
        /\ position' = [position EXCEPT ![v] = Follows(file.bytes, position[v])]
    BY <1>7 DEF MoveOf
  <2>2. Moves(file.bytes, position[v], Len(file.bytes))
    BY <1>2, <2>1, MovesAlike
  <2>3. Follows(file.bytes, position[v]) \in Nat /\ Reached(file.bytes, Follows(file.bytes, position[v]))
    BY <1>2, <1>5, <2>2, FollowsStays, ReachedGoesOn
  <2>4. /\ position' \in [View -> Nat]
        /\ \A w \in View : position'[w] = IF w = v THEN Follows(file.bytes, position[v]) ELSE position[w]
    BY <1>4, <2>1, <2>3
  <2>5. WindowLen' = WindowLen /\ \A w \in View : LengthOf(w)' = LengthOf(w)
    BY <2>1 DEF WindowLen, LengthOf
  <2>6. \A w \in View : Reached(file.bytes, position'[w])
    BY <1>5, <2>3, <2>4
  <2>7. \A w \in View : result[w] # Unanswered =>
          /\ Answers(file.bytes, position'[w], LengthOf(w), result[w])
          /\ w = "window" => filled = WindowLen
    BY <1>3, <1>6, <2>4
  <2> QED
    BY <1>4, <2>1, <2>4, <2>5, <2>6, <2>7 DEF ScanInv
<1>8. CASE AnswerOf(v)
  <2>1. PICK q : /\ Answers(file.bytes, position[v], LengthOf(v), q)
                 /\ result' = [result EXCEPT ![v] = q]
    BY <1>8 DEF AnswerOf
  <2>2. file' = file /\ filled' = filled /\ position' = position
    BY <1>8 DEF AnswerOf
  <2>3. \A w \in View : result'[w] = IF w = v THEN q ELSE result[w]
    BY <1>4, <2>1
  <2>4. result' = [w \in View |-> result'[w]]
    BY <1>4, <2>1
  <2>5. WindowLen' = WindowLen /\ \A w \in View : LengthOf(w)' = LengthOf(w)
    BY <2>2 DEF WindowLen, LengthOf
  <2>6. \A w \in View : result'[w] # Unanswered =>
          /\ Answers(file.bytes, position[w], LengthOf(w), result'[w])
          /\ w = "window" => filled = WindowLen
    BY <1>2, <1>6, <2>1, <2>3
  <2> QED
    BY <1>4, <1>5, <2>2, <2>4, <2>5, <2>6 DEF ScanInv
<1> QED
  BY <1>1, <1>7, <1>8

LEMMA ScanAlways == ScanSpec => []ScanInv
<1>1. ScanInv /\ [ScanNext]_scanVars => ScanInv'
  <2> SUFFICES ASSUME ScanInv, [ScanNext]_scanVars PROVE ScanInv'
    OBVIOUS
  <2>1. CASE UNCHANGED scanVars
    BY <2>1 DEF scanVars, ScanInv, WindowLen, LengthOf
  <2>2. CASE ScanNext
    BY <2>2, FillStep, IterationStep DEF ScanNext
  <2> QED
    BY <2>1, <2>2
<1> QED
  BY <1>1, ScanBegins, PTL DEF ScanSpec

(* Two answers to the same bytes, one of them to fewer: they agree.        *)
LEMMA LessAnswers ==
  ASSUME ScanInv
  PROVE  PrefixAgrees
<1> DEFINE b == file.bytes
           w == position["window"]
           p == position["whole"]
           n == filled
           l == Len(b)
           q == result["window"]
           r == result["whole"]
<1> SUFFICES ASSUME \A v \in View : result[v] \notin {Unanswered, OutOfBounds}, q # DefaultQuality
             PROVE  q = r
  BY DEF PrefixAgrees
<1>1. b \in Seq(Byte) /\ l \in Nat /\ n \in 0 .. l
  BY WindowInFile DEF ScanInv
<1>2. w \in Nat /\ p \in Nat /\ Reached(b, w) /\ Reached(b, p)
  BY DEF ScanInv, View
<1>3. Answers(b, w, n, q) /\ Answers(b, p, l, r) /\ q # OutOfBounds /\ r # OutOfBounds
  BY DEF ScanInv, View, LengthOf
<1> HIDE DEF b, w, p, n, l, q, r
<1>4. MarkerAt(b, w, n) /\ ~Beyond(b, w, n) /\ DqtAt(b, w) /\ w + 4 <= n
  BY <1>3 DEF Answers, MarkerAt
<1>5. LengthAt(b, w) \in Nat
  BY <1>1, <1>2, <1>4, LengthsAreThere DEF l
<1>6. MarkerAt(b, w, l) /\ ~Beyond(b, w, l) /\ w + 4 <= l /\ ~(w + 4 > l)
  BY <1>1, <1>2, <1>4, <1>5 DEF MarkerAt, Beyond
<1>7. CASE Eight(b, w, n)
  <2>1. q = QualityFromDc(b[w + 6]) /\ w + 5 < n
    BY <1>3, <1>4, <1>7 DEF Answers
  <2>2. Eight(b, w, l) /\ w + 5 < l
    BY <1>1, <1>2, <1>7, <2>1 DEF Eight
  <2>3. ~Moves(b, w, l)
    BY <1>4, <1>6, <2>2 DEF Moves, MarkerAt
  <2>4. w = p
    BY <1>1, <1>2, <1>3, <2>3, AnswersEnd, OneEnd DEF l
  <2> QED
    BY <1>3, <1>4, <1>6, <2>1, <2>2, <2>4 DEF Answers
<1>8. CASE ~Eight(b, w, n)
  <2>1. q = QualityFromDc(256 * b[w + 6] + b[w + 7]) /\ w + 6 < n /\ LengthAt(b, w) >= 6
    BY <1>3, <1>4, <1>8 DEF Answers
  <2>2. ~Eight(b, w, l) /\ w + 6 < l /\ ~(LengthAt(b, w) < 6)
    BY <1>1, <1>2, <1>5, <1>8, <2>1 DEF Eight
  <2>3. ~Moves(b, w, l)
    BY <1>4, <1>6, <2>2 DEF Moves, MarkerAt
  <2>4. w = p
    BY <1>1, <1>2, <1>3, <2>3, AnswersEnd, OneEnd DEF l
  <2> QED
    BY <1>3, <1>4, <1>6, <2>1, <2>2, <2>4 DEF Answers
<1> QED
  BY <1>7, <1>8

(* For every file, well-formed or not, and every window: what the window   *)
(* shows of the quality is what the whole file shows, or the default       *)
(* (`detect_format`).                                                      *)
THEOREM WindowsAgree == ScanSpec => []PrefixAgrees
<1>1. ScanInv => PrefixAgrees
  BY LessAnswers
<1> QED
  BY <1>1, ScanAlways, PTL

-----------------------------------------------------------------------------
(* Over an assembled file the scan goes from segment to segment.           *)
LEMMA LeastOf ==
  ASSUME NEW C, C \subseteq Nat, C # {}
  PROVE  \E m \in C : \A k \in C : m <= k
<1>1. PICK m \in C : \A k \in C : ~(<<k, m>> \in OpToRel(<, Nat))
  BY NatLessThanWellFounded, WFMin
<1>2. \A k \in C : ~(k < m)
  BY <1>1 DEF OpToRel
<1>3. \A k \in C : m <= k
  <2>1. m \in Nat
    BY <1>1
  <2> QED
    BY <1>2, <2>1
<1> QED
  BY <1>1, <1>3

(* What Assembled says of one segment.                                     *)
SegmentIs(b, s, p, next) ==
  /\ IsOfKind(s) /\ Len(s.bytes) \in Nat /\ next = p + Len(s.bytes) /\ next <= Len(b)
  /\ \A m \in 1 .. Len(s.bytes) : b[p + m] = s.bytes[m] /\ s.bytes[m] \in 0 .. 255

LEMMA LengthsAreThose ==
  ASSUME NEW b \in Seq(Byte), NEW s, NEW p \in Nat, NEW next, SegmentIs(b, s, p, next),
         IsSegment(s.bytes)
  PROVE  /\ b[p + 1] = 255 /\ b[p + 2] = s.bytes[2] /\ b[p + 2] \notin Standalone
         /\ LengthAt(b, p) = LengthField(s.bytes) /\ LengthAt(b, p) \in Nat
         /\ p + 4 <= Len(b) /\ MarkerAt(b, p, Len(b))
         /\ Len(s.bytes) \in Nat /\ Len(s.bytes) >= 4 /\ Len(b) \in Nat
         /\ next = p + Len(s.bytes) /\ next <= Len(b)
<1>1. PICK n \in Nat : n = Len(s.bytes)
  BY DEF SegmentIs
<1>2. PICK l \in Nat : l = Len(b)
  BY LenProperties
<1>3. n >= 4 /\ next = p + n /\ next <= l
  BY <1>1, <1>2 DEF SegmentIs, IsSegment
<1>4. 1 \in 1 .. n /\ 2 \in 1 .. n /\ 3 \in 1 .. n /\ 4 \in 1 .. n /\ p + 4 <= l
  BY <1>3
<1>5. /\ b[p + 1] = s.bytes[1] /\ b[p + 2] = s.bytes[2] /\ b[p + 3] = s.bytes[3]
      /\ b[p + 4] = s.bytes[4]
  BY <1>1, <1>4 DEF SegmentIs
<1>6. LengthAt(b, p) = LengthField(s.bytes)
  BY <1>5 DEF LengthAt, LengthField
<1>7. LengthAt(b, p) \in Nat
  BY <1>2, <1>4, LengthsAreThere
<1> QED
  BY <1>1, <1>2, <1>3, <1>4, <1>5, <1>6, <1>7 DEF IsSegment, MarkerAt

LEMMA OthersArePassed ==
  ASSUME NEW b \in Seq(Byte), NEW s, NEW p \in Nat, NEW next, SegmentIs(b, s, p, next),
         s.kind = "other", p + 4 <= Len(b)
  PROVE  Moves(b, p, Len(b)) /\ Follows(b, p) = next
<1> DEFINE c == s.bytes
<1>1. PICK n \in Nat : n = Len(c)
  BY DEF SegmentIs
<1>2. PICK l \in Nat : l = Len(b)
  BY LenProperties
<1>3. /\ next = p + n /\ next <= l /\ p + 4 <= l
      /\ \A m \in 1 .. n : b[p + m] = c[m] /\ c[m] \in 0 .. 255
  BY <1>1, <1>2 DEF SegmentIs
<1>4. \/ n = 1 /\ c[1] # 255
      \/ n = 2 /\ c[1] = 255 /\ c[2] \in Standalone
      \/ IsFull(c) /\ (IsDqt(c) => c[5] >= 16 /\ n < 8)
  BY <1>1 DEF SegmentIs, IsOfKind
<1>5. CASE n = 1 /\ c[1] # 255
  <2>1. b[p + 1] = c[1]
    BY <1>3, <1>5
  <2> QED
    BY <1>2, <1>3, <1>5, <2>1 DEF Moves, Follows
<1>6. CASE n = 2 /\ c[1] = 255 /\ c[2] \in Standalone
  <2>1. b[p + 1] = c[1] /\ b[p + 2] = c[2]
    BY <1>3, <1>6
  <2> QED
    BY <1>2, <1>3, <1>6, <2>1 DEF Moves, Follows
<1>7. CASE IsFull(c) /\ (IsDqt(c) => c[5] >= 16 /\ n < 8)
  <2>0. IsSegment(s.bytes)
    BY <1>7 DEF IsFull
  <2>9. /\ b[p + 1] = 255 /\ b[p + 2] = s.bytes[2] /\ b[p + 2] \notin Standalone
        /\ LengthAt(b, p) = LengthField(s.bytes) /\ LengthAt(b, p) \in Nat
        /\ MarkerAt(b, p, Len(b)) /\ Len(s.bytes) >= 4
    BY <2>0, LengthsAreThose
  <2>1. /\ b[p + 1] = 255 /\ b[p + 2] = c[2] /\ b[p + 2] \notin Standalone
        /\ LengthAt(b, p) = LengthField(c) /\ LengthAt(b, p) \in Nat /\ MarkerAt(b, p, l)
        /\ n >= 4
    BY <1>1, <1>2, <2>9
  <2>2. n = 2 + LengthAt(b, p)
    BY <1>1, <1>7, <2>1 DEF IsFull
  <2>3. ~Beyond(b, p, l)
    BY <1>2, <1>3, <2>1, <2>2 DEF Beyond
  <2>4. ASSUME DqtAt(b, p) PROVE ~Eight(b, p, l) /\ LengthAt(b, p) < 6
    <3>1. c[2] = 219 /\ n >= 5
      BY <2>1, <2>2, <2>4 DEF DqtAt
    <3>2. IsDqt(c)
      BY <1>1, <1>7, <3>1 DEF IsDqt
    <3>3. b[p + 5] = c[5] /\ c[5] \in 0 .. 255 /\ c[5] >= 16 /\ n < 8
      BY <1>3, <1>7, <3>1, <3>2
    <3>5. PICK x \in 0 .. 255 : x = b[p + 5]
      BY <3>3
    <3>6. x >= 16
      BY <3>3, <3>5
    <3>7. ~(b[p + 5] < 16)
      BY <3>5, <3>6
    <3>8. p + 4 < l
      BY <1>2, <1>3, <3>1
    <3>4. p + 4 < l /\ ~(b[p + 5] < 16)
      BY <3>7, <3>8
    <3> QED
      BY <2>1, <2>2, <3>3, <3>4 DEF Eight
  <2>5. Moves(b, p, l)
    BY <2>1, <2>3, <2>4 DEF Moves
  <2>6. Follows(b, p) = p + 2 + LengthAt(b, p)
    BY <2>1 DEF Follows
  <2>7. next = p + 2 + LengthAt(b, p)
    BY <1>3, <2>1, <2>2
  <2> QED
    BY <1>2, <2>5, <2>6, <2>7
<1> QED
  BY <1>4, <1>5, <1>6, <1>7

LEMMA StopsStop ==
  ASSUME NEW b \in Seq(Byte), NEW s, NEW p \in Nat, NEW next, SegmentIs(b, s, p, next),
         s.kind \in {"table", "short", "broken"}
  PROVE  /\ ~Moves(b, p, Len(b)) /\ p + 4 <= next
         /\ \A q : Answers(b, p, Len(b), q) =>
              /\ s.kind = "table" => q = QualityFromDc(s.dc)
              /\ s.kind = "broken" => q = DefaultQuality
<1> DEFINE c == s.bytes
<1>0. IsSegment(c)
  BY DEF SegmentIs, IsOfKind, IsDqt, IsFull
<1>1. PICK n \in Nat : n = Len(c)
  BY DEF SegmentIs
<1>2. PICK l \in Nat : l = Len(b)
  BY LenProperties
<1>3. /\ next = p + n /\ next <= l
      /\ \A m \in 1 .. n : b[p + m] = c[m] /\ c[m] \in 0 .. 255
  BY <1>1, <1>2 DEF SegmentIs
<1>8. /\ b[p + 1] = 255 /\ b[p + 2] = s.bytes[2] /\ b[p + 2] \notin Standalone
      /\ LengthAt(b, p) = LengthField(s.bytes) /\ LengthAt(b, p) \in Nat
      /\ MarkerAt(b, p, Len(b)) /\ Len(s.bytes) >= 4 /\ p + 4 <= Len(b)
  BY <1>0, LengthsAreThose
<1>4. /\ b[p + 1] = 255 /\ b[p + 2] = c[2] /\ b[p + 2] \notin Standalone
      /\ LengthAt(b, p) = LengthField(c) /\ LengthAt(b, p) \in Nat /\ MarkerAt(b, p, l)
      /\ n >= 4 /\ p + 4 <= l
  BY <1>1, <1>2, <1>8
<1>5. CASE s.kind = "broken"
  <2>1. Beyond(b, p, l)
    BY <1>4, <1>5 DEF Beyond, SegmentIs, IsOfKind
  <2>2. ~Moves(b, p, l)
    BY <1>4, <2>1 DEF Moves
  <2>3. \A q : Answers(b, p, l, q) => q = DefaultQuality
    BY <2>1 DEF Answers
  <2> QED
    BY <1>2, <1>3, <1>4, <1>5, <2>2, <2>3
<1>6. CASE s.kind \in {"table", "short"}
  <2>1. IsDqt(c)
    BY <1>6 DEF SegmentIs, IsOfKind
  <2>2. c[2] = 219 /\ n >= 5 /\ n = 2 + LengthAt(b, p)
    BY <1>1, <1>4, <2>1 DEF IsDqt, IsFull
  <2>3. ~Beyond(b, p, l) /\ DqtAt(b, p) /\ p + 4 < l /\ ~(p + 4 > l)
    BY <1>2, <1>3, <1>4, <2>2 DEF Beyond, DqtAt
  <2>4. b[p + 5] = c[5] /\ c[5] \in 0 .. 255
    BY <1>3, <2>2
  <2>5. /\ Eight(b, p, l) <=> c[5] < 16
        /\ Moves(b, p, l) <=> ~(c[5] < 16) /\ LengthAt(b, p) < 6
    BY <1>4, <2>3, <2>4 DEF Eight, Moves
  <2>6. CASE c[5] < 16
    <3>1. \A q : Answers(b, p, l, q) =>
                   q = IF p + 5 < l THEN QualityFromDc(b[p + 6]) ELSE OutOfBounds
      BY <2>3, <2>5, <2>6 DEF Answers
    <3>2. ASSUME s.kind = "table" PROVE p + 5 < l /\ b[p + 6] = s.dc
      <4>2. \/ c[5] < 16 /\ n >= 6 /\ s.dc = c[6]
            \/ c[5] >= 16 /\ n >= 8
        BY <1>1, <3>2 DEF SegmentIs, IsOfKind
      <4>3. PICK x \in 0 .. 255 : x = c[5]
        BY <2>4
      <4>4. ~(c[5] >= 16)
        <5>1. x < 16
          BY <2>6, <4>3
        <5>2. ~(x >= 16)
          BY <5>1
        <5> QED
          BY <4>3, <5>2
      <4>1. n >= 6 /\ s.dc = c[6]
        BY <4>2, <4>4
      <4> QED
        BY <1>2, <1>3, <4>1
    <3> QED
      BY <1>2, <1>3, <1>4, <1>6, <2>5, <2>6, <3>1, <3>2
  <2>7. CASE ~(c[5] < 16)
    <3>1. n >= 8 /\ s.dc = 256 * c[6] + c[7] /\ s.kind = "table"
      BY <1>1, <1>6, <2>4, <2>7 DEF SegmentIs, IsOfKind
    <3>2. LengthAt(b, p) >= 6 /\ ~(LengthAt(b, p) < 6) /\ p + 6 < l
      BY <1>2, <1>3, <1>4, <2>2, <3>1
    <3>3. b[p + 6] = c[6] /\ b[p + 7] = c[7]
      BY <1>3, <3>1
    <3>4. \A q : Answers(b, p, l, q) => q = QualityFromDc(256 * b[p + 6] + b[p + 7])
      BY <2>3, <2>5, <2>7, <3>2 DEF Answers
    <3> QED
      BY <1>2, <1>3, <1>4, <2>5, <2>7, <3>1, <3>2, <3>3, <3>4
  <2> QED
    BY <2>6, <2>7
<1> QED
  BY <1>5, <1>6

LEMMA FileShape ==
  ASSUME file \in File, ~file.cut, NEW n, n = Len(file.segments)
  PROVE  /\ n \in Nat /\ DOMAIN file.segments = 1 .. n
         /\ file.bytes \in Seq(Byte) /\ Len(file.bytes) \in Nat
         /\ \A k \in 1 .. n : file.segments[k].kind \in {"table", "short", "broken", "other"}
         /\ \A k \in 1 .. n :
              SegmentIs(file.bytes, file.segments[k], file.starts[k], file.starts[k + 1])
         /\ \A k \in 1 .. n + 1 : file.starts[k] \in Nat
         /\ file.starts[1] = 2
         /\ \A m \in file.starts[n + 1] + 1 .. Len(file.bytes) : file.bytes[m] # 255
<1>1. /\ file.bytes \in Seq(Byte) /\ file.segments \in Seq(Segment) /\ file.starts \in Seq(Nat)
      /\ Assembled(file)
  BY ScanAssumption
<1>2. n \in Nat /\ DOMAIN file.segments = 1 .. n /\ Len(file.bytes) \in Nat
  BY <1>1, LenProperties
<1>3. ASSUME NEW k \in 1 .. n
      PROVE  /\ file.segments[k] \in Segment /\ file.segments[k].bytes \in Seq(Byte)
             /\ file.segments[k].kind \in {"table", "short", "broken", "other"}
  <2>1. file.segments[k] \in Segment
    BY <1>1, <1>2, ElementOfSeq
  <2> QED
    BY <2>1 DEF Segment
<1>4. Len(file.starts) = n + 1 /\ file.starts[1] = 2
  BY <1>1 DEF Assembled
<1>5. \A k \in 1 .. n + 1 : file.starts[k] \in Nat
  BY <1>1, <1>4, ElementOfSeq
<1>6. \A m \in file.starts[n + 1] + 1 .. Len(file.bytes) : file.bytes[m] # 255
  BY <1>1 DEF Assembled
<1>7. ASSUME NEW k \in 1 .. n
      PROVE  SegmentIs(file.bytes, file.segments[k], file.starts[k], file.starts[k + 1])
  <2> DEFINE s == file.segments[k]
  <2>1. /\ IsOfKind(s) /\ file.starts[k + 1] = file.starts[k] + Len(s.bytes)
        /\ file.starts[k + 1] <= Len(file.bytes)
        /\ \A m \in 1 .. Len(s.bytes) : file.bytes[file.starts[k] + m] = s.bytes[m]
    BY <1>1 DEF Assembled
  <2>2. Len(s.bytes) \in Nat /\ \A m \in 1 .. Len(s.bytes) : s.bytes[m] \in 0 .. 255
    <3>1. s.bytes \in Seq(Byte)
      BY <1>3
    <3> HIDE DEF s
    <3>2. Len(s.bytes) \in Nat
      BY <3>1, LenProperties
    <3>3. \A m \in 1 .. Len(s.bytes) : s.bytes[m] \in Byte
      BY <3>1, ElementOfSeq
    <3> QED
      BY <3>2, <3>3 DEF Byte
  <2> QED
    BY <2>1, <2>2 DEF SegmentIs
<1> QED
  BY <1>1, <1>2, <1>3, <1>4, <1>5, <1>6, <1>7

LEMMA StartsRise ==
  ASSUME NEW n \in Nat, NEW s, \A k \in 1 .. n + 1 : s[k] \in Nat,
         \A k \in 1 .. n : s[k] <= s[k + 1],
         NEW k \in 1 .. n + 1, NEW l \in k .. n + 1
  PROVE  s[k] <= s[l]
<1> DEFINE C == {m \in k .. n + 1 : ~(s[k] <= s[m])}
<1> SUFFICES ASSUME C # {} PROVE FALSE
  OBVIOUS
<1>1. C \subseteq Nat
  OBVIOUS
<1>2. PICK m \in C : \A c \in C : m <= c
  BY <1>1, LeastOf
<1>3. m \in k .. n + 1 /\ ~(s[k] <= s[m])
  OBVIOUS
<1>4. m # k
  BY <1>3
<1>5. m - 1 \in k .. n + 1 /\ m - 1 \in 1 .. n /\ m - 1 + 1 = m /\ ~(m <= m - 1)
  BY <1>3, <1>4
<1>6. m - 1 \notin C
  BY <1>2, <1>5
<1>7. s[k] <= s[m - 1]
  BY <1>5, <1>6
<1>8. s[m - 1] <= s[m]
  BY <1>5
<1>9. s[k] \in Nat /\ s[m - 1] \in Nat /\ s[m] \in Nat
  BY <1>3, <1>5
<1> QED
  BY <1>3, <1>7, <1>8, <1>9

(* Where the scan over a complete file can be: at a segment with only      *)
(* others before it, or behind the last one.                               *)
OnlyOthers(k) == \A l \in 1 .. k : file.segments[l].kind = "other"
OnTrack(n, p) ==
  \/ \E k \in 1 .. n : p = file.starts[k] /\ OnlyOthers(k - 1)
  \/ p >= file.starts[n + 1] /\ OnlyOthers(n)

LEMMA TrackIsClosed ==
  ASSUME file \in File, ~file.cut, NEW n, n = Len(file.segments)
  PROVE  Closed(file.bytes, {p \in Nat : OnTrack(n, p)})
<1> DEFINE b == file.bytes
           C == {p \in Nat : OnTrack(n, p)}
<1>1. /\ n \in Nat /\ b \in Seq(Byte) /\ Len(b) \in Nat
      /\ \A k \in 1 .. n : file.segments[k].kind \in {"table", "short", "broken", "other"}
      /\ \A k \in 1 .. n : SegmentIs(b, file.segments[k], file.starts[k], file.starts[k + 1])
      /\ \A k \in 1 .. n + 1 : file.starts[k] \in Nat
      /\ file.starts[1] = 2
      /\ \A m \in file.starts[n + 1] + 1 .. Len(b) : b[m] # 255
  BY FileShape
<1> HIDE DEF b
<1>2. OnTrack(n, 2)
  <2>1. CASE n = 0
    <3>1. file.starts[n + 1] = 2 /\ OnlyOthers(n)
      BY <1>1, <2>1 DEF OnlyOthers
    <3> QED
      BY <3>1 DEF OnTrack
  <2>2. CASE n # 0
    <3>1. 1 \in 1 .. n /\ OnlyOthers(1 - 1)
      BY <1>1, <2>2 DEF OnlyOthers
    <3> QED
      BY <1>1, <3>1 DEF OnTrack
  <2> QED
    BY <2>1, <2>2
<1>3. ASSUME NEW p \in Nat, OnTrack(n, p), Moves(b, p, Len(b))
      PROVE  Follows(b, p) \in Nat /\ OnTrack(n, Follows(b, p))
  <2>0. Follows(b, p) \in Nat
    BY <1>1, <1>3, FollowsStays
  <2>9. p + 4 <= Len(b)
    BY <1>3 DEF Moves, MarkerAt
  <2>1. ASSUME NEW k \in 1 .. n, p = file.starts[k], OnlyOthers(k - 1)
        PROVE  OnTrack(n, Follows(b, p))
    <3>1. SegmentIs(b, file.segments[k], p, file.starts[k + 1])
      BY <1>1, <2>1
    <3>2. file.segments[k].kind \notin {"table", "short", "broken"}
      BY <1>1, <1>3, <3>1, StopsStop
    <3>3. file.segments[k].kind = "other"
      BY <1>1, <3>2
    <3>4. Follows(b, p) = file.starts[k + 1]
      BY <1>1, <2>9, <3>1, <3>3, OthersArePassed
    <3>5. OnlyOthers(k)
      <4>1. \A l \in 1 .. k : l = k \/ l \in 1 .. k - 1
        OBVIOUS
      <4> QED
        BY <2>1, <3>3, <4>1 DEF OnlyOthers
    <3>6. CASE k = n
      BY <2>0, <3>4, <3>5, <3>6 DEF OnTrack
    <3>7. CASE k # n
      <4>1. k + 1 \in 1 .. n /\ k + 1 - 1 = k
        BY <1>1, <3>7
      <4>2. Follows(b, p) = file.starts[k + 1] /\ OnlyOthers(k + 1 - 1)
        BY <3>4, <3>5, <4>1
      <4> QED
        BY <4>1, <4>2 DEF OnTrack
    <3> QED
      BY <3>6, <3>7
  <2>2. ASSUME p >= file.starts[n + 1], OnlyOthers(n)
        PROVE  OnTrack(n, Follows(b, p))
    <3>1. file.starts[n + 1] \in Nat
      BY <1>1
    <3>2. p + 1 \in file.starts[n + 1] + 1 .. Len(b)
      BY <1>1, <2>2, <2>9, <3>1
    <3>3. Follows(b, p) = p + 1
      BY <1>1, <3>2 DEF Follows
    <3>4. p + 1 >= file.starts[n + 1]
      BY <2>2, <3>1
    <3> QED
      BY <2>2, <3>3, <3>4 DEF OnTrack
  <2> QED
    BY <1>3, <2>0, <2>1, <2>2 DEF OnTrack
<1> QED
  BY <1>2, <1>3 DEF Closed, b

(* What the scan finds where it ends.                                      *)
LEMMA WhatIsFound ==
  ASSUME file \in File, ~file.cut, NEW n, n = Len(file.segments),
         NEW p \in Nat, OnTrack(n, p), NEW q, Answers(file.bytes, p, Len(file.bytes), q)
  PROVE  \/ OnlyOthers(n) /\ q = DefaultQuality
         \/ \E k \in 1 .. n :
              /\ OnlyOthers(k - 1) /\ file.segments[k].kind \in {"table", "short", "broken"}
              /\ file.segments[k].kind = "table" => q = QualityFromDc(file.segments[k].dc)
              /\ file.segments[k].kind = "broken" => q = DefaultQuality
<1> DEFINE b == file.bytes
<1>1. /\ n \in Nat /\ b \in Seq(Byte) /\ Len(b) \in Nat
      /\ \A k \in 1 .. n : file.segments[k].kind \in {"table", "short", "broken", "other"}
      /\ \A k \in 1 .. n : SegmentIs(b, file.segments[k], file.starts[k], file.starts[k + 1])
      /\ \A k \in 1 .. n + 1 : file.starts[k] \in Nat
      /\ \A m \in file.starts[n + 1] + 1 .. Len(b) : b[m] # 255
  <2>1. file \in File /\ ~file.cut /\ n = Len(file.segments)
    OBVIOUS
  <2> QED
    BY ONLY <2>1, FileShape
<1>2. Answers(b, p, Len(b), q)
  OBVIOUS
<1> HIDE DEF b
<1>3. Len(b) \in 0 .. Len(b)
  BY <1>1
<1>4. ~Moves(b, p, Len(b))
  BY <1>1, <1>2, <1>3, AnswersEnd
<1>5. ASSUME NEW k \in 1 .. n, p = file.starts[k], OnlyOthers(k - 1), file.segments[k].kind # "other"
      PROVE  \E j \in 1 .. n :
              /\ OnlyOthers(j - 1) /\ file.segments[j].kind \in {"table", "short", "broken"}
              /\ file.segments[j].kind = "table" => q = QualityFromDc(file.segments[j].dc)
              /\ file.segments[j].kind = "broken" => q = DefaultQuality
  <2>1. SegmentIs(b, file.segments[k], p, file.starts[k + 1])
    BY <1>1, <1>5
  <2>2. file.segments[k].kind \in {"table", "short", "broken"}
    BY <1>1, <1>5
  <2>3. /\ file.segments[k].kind = "table" => q = QualityFromDc(file.segments[k].dc)
        /\ file.segments[k].kind = "broken" => q = DefaultQuality
    BY <1>1, <1>2, <2>1, <2>2, StopsStop
  <2> QED
    BY <1>5, <2>2, <2>3
<1>6. ASSUME NEW k \in 1 .. n, p = file.starts[k], OnlyOthers(k - 1), file.segments[k].kind = "other"
      PROVE  OnlyOthers(n) /\ q = DefaultQuality
  <2>1. SegmentIs(b, file.segments[k], p, file.starts[k + 1])
    BY <1>1, <1>6
  <2>2. ~(p + 4 <= Len(b))
    BY <1>1, <1>4, <1>6, <2>1, OthersArePassed
  <2>3. q = DefaultQuality
    BY <1>2, <2>2 DEF Answers, MarkerAt
  <2>4. ASSUME NEW l \in 1 .. n, file.segments[l].kind # "other" PROVE FALSE
    <3>1. ~(l \in 1 .. k - 1) /\ l # k
      BY <1>6, <2>4 DEF OnlyOthers
    <3>2. k \in 1 .. n + 1 /\ l \in k .. n + 1
      BY <1>1, <3>1
    <3>3. \A j \in 1 .. n : file.starts[j] <= file.starts[j + 1]
      <4> SUFFICES ASSUME NEW j \in 1 .. n PROVE file.starts[j] <= file.starts[j + 1]
        OBVIOUS
      <4>1. PICK s \in Nat : s = file.starts[j]
        BY <1>1
      <4>3. SegmentIs(b, file.segments[j], file.starts[j], file.starts[j + 1])
        BY <1>1
      <4>2. PICK m \in Nat : file.starts[j + 1] = file.starts[j] + m
        BY <4>3 DEF SegmentIs
      <4> QED
        BY <4>1, <4>2
    <3>4. l \in 1 .. n + 1 /\ l + 1 \in 1 .. n + 1
      BY <1>1
    <3>5. file.starts[k] <= file.starts[l]
      BY <1>1, <3>2, <3>3, StartsRise
    <3>6. PICK t \in Nat : t = file.starts[l]
      BY <1>1, <3>4
    <3>7. SegmentIs(b, file.segments[l], t, file.starts[l + 1])
      BY <1>1, <3>6
    <3>8. file.segments[l].kind \in {"table", "short", "broken"}
      BY <1>1, <2>4
    <3>9. t + 4 <= file.starts[l + 1]
      BY <1>1, <3>7, <3>8, StopsStop
    <3>10. file.starts[l + 1] <= Len(b)
      BY <3>7 DEF SegmentIs
    <3>0. file.starts[l + 1] \in Nat
      BY <1>1, <3>4
    <3> QED
      BY <1>1, <1>6, <2>2, <3>0, <3>5, <3>6, <3>9, <3>10
  <2> QED
    BY <2>3, <2>4 DEF OnlyOthers
<1>7. ASSUME p >= file.starts[n + 1], OnlyOthers(n)
      PROVE  OnlyOthers(n) /\ q = DefaultQuality
  <2>1. ~MarkerAt(b, p, Len(b))
    <3> SUFFICES ASSUME p + 4 <= Len(b) PROVE b[p + 1] # 255
      BY DEF MarkerAt
    <3>1. p + 1 \in file.starts[n + 1] + 1 .. Len(b)
      BY <1>1, <1>7
    <3> QED
      BY <1>1, <3>1
  <2> QED
    BY <1>2, <1>7, <2>1 DEF Answers
<1>8. (\E k \in 1 .. n : p = file.starts[k] /\ OnlyOthers(k - 1))
        \/ (p >= file.starts[n + 1] /\ OnlyOthers(n))
  BY DEF OnTrack
<1> QED
  BY <1>5, <1>6, <1>7, <1>8

LEMMA TableFound ==
  ASSUME ScanInv, ~file.cut, result["whole"] # Unanswered, NEW n, n = Len(file.segments)
  PROVE  \/ OnlyOthers(n) /\ result["whole"] = DefaultQuality
         \/ \E k \in 1 .. n :
              /\ OnlyOthers(k - 1) /\ file.segments[k].kind \in {"table", "short", "broken"}
              /\ file.segments[k].kind = "table" => result["whole"] = QualityFromDc(file.segments[k].dc)
              /\ file.segments[k].kind = "broken" => result["whole"] = DefaultQuality
<1>1. /\ file \in File /\ position["whole"] \in Nat /\ Reached(file.bytes, position["whole"])
      /\ Answers(file.bytes, position["whole"], Len(file.bytes), result["whole"])
  BY DEF ScanInv, View, LengthOf
<1>2. PICK C : C = {p \in Nat : OnTrack(n, p)}
  OBVIOUS
<1>3. Closed(file.bytes, C) /\ C \in SUBSET Nat
  BY <1>1, <1>2, TrackIsClosed
<1>4. OnTrack(n, position["whole"])
  BY <1>1, <1>2, <1>3 DEF Reached
<1> QED
  BY <1>1, <1>4, WhatIsFound

(* Over a complete file the scan finds the first table, or gives the       *)
(* default where there is none, whatever the other segments hold           *)
(* (`estimate_jpeg_quality`).                                              *)
THEOREM FirstTablesDecide == ScanSpec => []FirstTableDecides
<1>1. ScanInv => FirstTableDecides
  <2> DEFINE seg == file.segments
             stops == {k \in DOMAIN seg : seg[k].kind # "other"}
             first == CHOOSE k \in stops : \A l \in stops : k <= l
             found == IF stops = {} THEN "none" ELSE seg[first].kind
  <2> SUFFICES ASSUME ScanInv, ~file.cut, result["whole"] # Unanswered, found # "short"
               PROVE  result["whole"] = IF found = "table" THEN QualityFromDc(seg[first].dc)
                                        ELSE DefaultQuality
    BY DEF FirstTableDecides
  <2>1. PICK n : n = Len(seg)
    OBVIOUS
  <2>2. n \in Nat /\ DOMAIN seg = 1 .. n
    BY <2>1, FileShape DEF ScanInv
  <2>3. CASE OnlyOthers(n) /\ result["whole"] = DefaultQuality
    <3>1. stops = {}
      BY <2>2, <2>3 DEF OnlyOthers
    <3> QED
      BY <2>3, <3>1
  <2>4. ASSUME NEW k \in 1 .. n, OnlyOthers(k - 1), seg[k].kind \in {"table", "short", "broken"},
               seg[k].kind = "table" => result["whole"] = QualityFromDc(seg[k].dc),
               seg[k].kind = "broken" => result["whole"] = DefaultQuality
        PROVE  result["whole"] = IF found = "table" THEN QualityFromDc(seg[first].dc)
                                 ELSE DefaultQuality
    <3>1. k \in stops
      BY <2>2, <2>4
    <3>2. \A l \in stops : k <= l
      <4> SUFFICES ASSUME NEW l \in 1 .. n, seg[l].kind # "other" PROVE k <= l
        BY <2>2
      <4>1. ~(l \in 1 .. k - 1)
        BY <2>4 DEF OnlyOthers
      <4> QED
        BY <4>1
    <3>3. first \in stops /\ first <= k
      <4> HIDE DEF stops
      <4> QED
        BY <3>1, <3>2
    <3>4. first = k
      <4>1. first \in 1 .. n
        BY <2>2, <3>3
      <4>2. k <= first
        BY <3>2, <3>3
      <4> HIDE DEF first
      <4> QED
        BY <3>3, <4>1, <4>2
    <3>5. found = seg[k].kind
      BY <3>1, <3>4
    <3> HIDE DEF first, found
    <3> QED
      BY <2>4, <3>4, <3>5
  <2> HIDE DEF found, first, stops
  <2> QED
    BY <2>1, <2>3, <2>4, TableFound
<1> QED
  BY <1>1, ScanAlways, PTL

(* Where the gate lies among the entries the estimate reads, and among     *)
(* those an encoder writes.                                                *)
LEMMA GateOfDc ==
  ASSUME NEW dc \in 1 .. 255
  PROVE  QualityFromDc(dc) >= QualityThreshold <=> dc <= 3
<1>1. CASE dc <= 16
  <2>1. PICK a \in Nat : a = 2 * (3250 - 100 * dc) + 32 /\ a = 6532 - 200 * dc
    BY <1>1
  <2>2. PICK x : x = a \div 64
    OBVIOUS
  <2>3. x \in Nat /\ 64 * x <= a /\ a < 64 * x + 64
    BY <2>2, Division
  <2>4. QualityFromDc(dc) = IF x < 1 THEN 1 ELSE Smaller(x, 100)
    BY <1>1, <2>1, <2>2 DEF QualityFromDc
  <2>5. x >= 90 <=> dc <= 3
    BY <2>1, <2>3
  <2> QED
    BY <2>3, <2>4, <2>5 DEF Smaller, QualityThreshold
<1>2. CASE ~(dc <= 16)
  <2>1. PICK c \in Nat : c = 100 * dc - 50 /\ c >= 1650
    BY <1>2
  <2>2. PICK x : x = (160000 + c) \div (2 * c)
    OBVIOUS
  <2>3. x \in Nat /\ (2 * c) * x <= 160000 + c
    <3>1. PICK a \in Nat, b \in Nat \ {0} : a = 160000 + c /\ b = 2 * c
      BY <2>1
    <3>2. x = a \div b
      BY <2>2, <3>1
    <3>3. x \in Nat /\ b * x <= a
      BY <3>2, Division
    <3> QED
      BY <3>1, <3>3
  <2>4. QualityFromDc(dc) = IF x < 1 THEN 1 ELSE Smaller(x, 100)
    <3>1. dc # 0
      OBVIOUS
    <3> QED
      BY <1>2, <2>1, <2>2, <3>1 DEF QualityFromDc
  <2>5. ASSUME x >= 90 PROVE FALSE
    <3>1. 90 * (2 * c) <= x * (2 * c) /\ x * (2 * c) = (2 * c) * x
      BY <2>1, <2>3, <2>5, ProductGrows, Products
    <3>2. PICK m \in Nat : m = (2 * c) * x
      BY <2>1, <2>3, Products
    <3>3. 90 * (2 * c) <= m /\ m <= 160000 + c
      BY <2>3, <3>1, <3>2
    <3> QED
      BY <2>1, <3>3
  <2> QED
    BY <1>2, <2>3, <2>4, <2>5 DEF Smaller, QualityThreshold
<1> QED
  BY <1>1, <1>2

LEMMA GateOfQuality ==
  ASSUME NEW q \in 1 .. 100
  PROVE  IjgEntry(q) \in 1 .. 255 /\ (IjgEntry(q) <= 3 <=> q >= QualityThreshold)
<1>1. PICK s \in Nat : /\ s = IF q < 50 THEN 5000 \div q ELSE 200 - 2 * q
                       /\ q < 50 => s >= 100
                       /\ ~(q < 50) => s = 200 - 2 * q
  <2>1. CASE q < 50
    <3>1. PICK x : x = 5000 \div q
      OBVIOUS
    <3>2. x \in Nat /\ 5000 < q * x + q
      BY <3>1, Division
    <3>3. q * x <= 49 * x
      BY <2>1, <3>2, ProductGrows
    <3>4. PICK m \in Nat : m = q * x
      BY <3>2, Products
    <3>5. 5000 < m + q /\ m <= 49 * x
      BY <3>2, <3>3, <3>4
    <3>6. x >= 100
      BY <2>1, <3>2, <3>5
    <3> QED
      BY <2>1, <3>1, <3>2, <3>6
  <2>2. CASE ~(q < 50)
    BY <2>2
  <2> QED
    BY <2>1, <2>2
<1>2. PICK t : t = (16 * s + 50) \div 100
  OBVIOUS
<1>3. t \in Nat /\ 100 * t <= 16 * s + 50 /\ 16 * s + 50 < 100 * t + 100
  <2>1. 16 * s + 50 \in Nat
    OBVIOUS
  <2> QED
    BY <1>2, <2>1, Division
<1>4. IjgEntry(q) = IF t < 1 THEN 1 ELSE Smaller(t, 255)
  BY <1>1, <1>2 DEF IjgEntry
<1>5. t <= 3 <=> q >= 90
  BY <1>1, <1>3
<1> QED
  BY <1>3, <1>4, <1>5 DEF Smaller, QualityThreshold

(* For every quality an encoder can be asked for, the estimate falls on    *)
(* the same side of the default threshold (the quality gate of             *)
(* preprocessor.rs).                                                       *)
THEOREM GatesMatch == ScanSpec => []GateMatchesEncoder
<1>1. ScanInv /\ FirstTableDecides => GateMatchesEncoder
  <2> DEFINE seg == file.segments
             stops == {j \in DOMAIN seg : seg[j].kind # "other"}
             first == CHOOSE j \in stops : \A l \in stops : j <= l
             found == IF stops = {} THEN "none" ELSE seg[first].kind
  <2> SUFFICES ASSUME ScanInv, FirstTableDecides, file.encoder # 0, result["whole"] # Unanswered
               PROVE  result["whole"] >= QualityThreshold <=> file.encoder >= QualityThreshold
    BY DEF GateMatchesEncoder
  <2>1. /\ seg \in Seq(Segment) /\ ~file.cut /\ file.encoder \in 1 .. 100
        /\ \E k \in DOMAIN seg :
             /\ seg[k].kind = "table" /\ seg[k].dc = IjgEntry(file.encoder)
             /\ \A l \in 1 .. k - 1 : seg[l].kind = "other"
    BY ScanAssumption DEF ScanInv
  <2>2. PICK n \in Nat : DOMAIN seg = 1 .. n
    BY <2>1, LenProperties
  <2>3. PICK k \in 1 .. n : /\ seg[k].kind = "table" /\ seg[k].dc = IjgEntry(file.encoder)
                            /\ \A l \in 1 .. k - 1 : seg[l].kind = "other"
    BY <2>1, <2>2
  <2>4. k \in stops
    BY <2>2, <2>3
  <2>5. \A l \in stops : k <= l
    BY <2>2, <2>3
  <2>6. first \in stops /\ first <= k /\ k <= first
    <3> HIDE DEF stops
    <3> QED
      BY <2>4, <2>5
  <2>7. first = k
    <3>1. first \in 1 .. n
      BY <2>2, <2>6
    <3> HIDE DEF first
    <3> QED
      BY <2>6, <3>1
  <2>8. found = "table"
    BY <2>3, <2>4, <2>7
  <2>9. result["whole"] = QualityFromDc(seg[first].dc)
    <3>1. ~file.cut /\ result["whole"] # Unanswered /\ found # "short" =>
            result["whole"] = IF found = "table" THEN QualityFromDc(seg[first].dc)
                              ELSE DefaultQuality
      BY DEF FirstTableDecides
    <3> HIDE DEF found, first
    <3> QED
      BY <2>1, <2>8, <3>1
  <2>10. result["whole"] = QualityFromDc(IjgEntry(file.encoder))
    BY <2>3, <2>7, <2>9
  <2> HIDE DEF seg, found, first, stops
  <2>11. PICK e \in 1 .. 100 : e = file.encoder
    BY <2>1
  <2>12. IjgEntry(e) \in 1 .. 255 /\ (IjgEntry(e) <= 3 <=> e >= QualityThreshold)
    BY GateOfQuality
  <2>13. QualityFromDc(IjgEntry(e)) >= QualityThreshold <=> IjgEntry(e) <= 3
    BY <2>12, GateOfDc
  <2> QED
    BY <2>10, <2>11, <2>12, <2>13
<1> QED
  BY <1>1, ScanAlways, FirstTablesDecide, PTL
================================================================================
