----------------------------- MODULE ImageIntake -----------------------------
(***************************************************************************)
(* From a file name to a key, as `derive_key` goes: the capped read, the   *)
(* gates of `ImagePreprocessor::preprocess` in their order, the decode     *)
(* under limits, the canonical size and the hash, and the flat-image       *)
(* refusal, while somebody rewrites the file in place.                     *)
(* A file is a sequence of cells; the first holds the header.  The         *)
(* decoders are those of a format without checksums, so that a torn file   *)
(* may well decode.                                                        *)
(***************************************************************************)
EXTENDS FileBytes, Integers

CONSTANTS
  Picture,      (* records: magic (what its bytes look like), quality (JPEG), *)
                (* header (it parses), width, height, depth (bytes per pixel  *)
                (* the decoder needs), shade (the one value of all pixels,    *)
                (* or Textured), cells (its length)                           *)
  Intruder,     (* those somebody may save over the file                      *)
  Extension,    (* of the path: what the image crate recognizes, or not      *)
  Settings,     (* preprocessor configurations                               *)
  MaxCells,     (* MAX_INPUT_FILE_BYTES, in cells                            *)
  AllocFloor    (* the 64 MiB of decoder_limits                              *)

ASSUME IntakeAssumption ==
  /\ Intruder \subseteq Picture
  /\ \A p \in Picture : /\ {p.width, p.height, p.depth, p.quality} \subseteq Nat
                        /\ p.cells \in Nat \ {0} /\ p.header \in BOOLEAN
  /\ \A s \in Settings : /\ {s.min, s.max, s.canonical} \subseteq Nat \X Nat
                         /\ s.threshold \in Nat
  /\ MaxCells \in Nat \ {0} /\ AllocFloor \in Nat

VARIABLES
  content,     (* the file                                                   *)
  target,      (* the picture it is, or is being overwritten with            *)
  read_of,     (* history: {the picture the file held all through the read} *)
  extension, settings,
  pc,          (* "open", "read", "gates", "decode", "tail" or "done"        *)
  gate,        (* the gate to pass next                                      *)
  buffer,      (* file_data                                                  *)
  raster,      (* bytes the decoder has allocated                            *)
  pixels,      (* the canonical image: what it was made of, and its size     *)
  verdict,     (* an error, or "key"                                         *)
  key          (* what the XOF absorbs: canonical pixels and file hash       *)

vars == <<content, target, read_of, extension, settings, pc, gate, buffer, raster,
          pixels, verdict, key>>

Families == {"PNG", "JPEG", "BMP", "TIFF", "GIF"}
Textured == "textured"
Pending == "pending"
NoPixels == <<>>
NoKey == <<>>
Cell(p) == [of |-> p]
Bytes(p) == [k \in 1 .. p.cells |-> Cell(p)]
LesserOf(a, b) == IF a < b THEN a ELSE b
GreaterOf(a, b) == IF a > b THEN a ELSE b

(* An empty file looks like nothing. *)
NoHeader == [magic |-> "nothing", quality |-> 0, header |-> FALSE, width |-> 0, height |-> 0]
Header == IF buffer = Empty THEN NoHeader ELSE buffer[1].of

-----------------------------------------------------------------------------
(* A format is a family with, for JPEG, the quality its tables show; it is *)
(* what the magic bytes say it is, or what the extension claims.           *)
Unrecognized == [family |-> "none", quality |-> 0]
Format(family) ==
  IF family \in Families
    THEN [family |-> family, quality |-> IF family = "JPEG" THEN Header.quality ELSE 0]
  ELSE Unrecognized
Sniffed == Format(Header.magic)
ContainerFormat == Format(extension)

(* Faulty variant: two JPEGs have to be of one quality. *)
CompatibleExactly(a, b) == a = b

Compatible(a, b) == a.family = b.family

(* Every listed format stands for its family. *)
Listed(format) == \E allowed \in settings.allowed : Compatible(allowed, format)

TooSmall == Header.width < settings.min[1] \/ Header.height < settings.min[2]
TooLarge == Header.width > settings.max[1] \/ Header.height > settings.max[2]
SizesAgree == settings.min[1] <= settings.max[1] /\ settings.min[2] <= settings.max[2]

(* preprocess, from the sniffing to the decode.  A min_size above max_size *)
(* is an error of the configuration and not of the image.                  *)
Gates ==
  LET check(ok, error) == [ok |-> ok, error |-> error]
  IN  << check(Sniffed # Unrecognized, "ImageFormatNotSupported"),
         check(extension # "none", "ImageFormatNotSupported"),
         check(ContainerFormat # Unrecognized, "ImageFormatNotSupported"),
         check(Compatible(ContainerFormat, Sniffed), "ImageFormatNotSupported"),
         check(Listed(ContainerFormat), "ImageFormatNotSupported"),
         check(Header.header, "ImageCorrupted"),
         check(SizesAgree, "InvalidConfiguration"),
         check(~TooSmall, "ImageTooSmall"),
         check(~TooLarge, "ImageTooLarge") >>

(* decoder_limits, and what the decoder needs. *)
Budget == GreaterOf(settings.max[1] * settings.max[2] * 8, AllocFloor)
Needed == Header.width * Header.height * Header.depth

(* The decoder finds every cell the header speaks of. *)
Decodes == Len(buffer) >= Header.cells

(* x * num / den to the nearest integer. *)
Scaled(x, num, den) == (2 * x * num + den) \div (2 * den)

(* Faulty variant: the larger of the two ratios. *)
ResizedToCover(w, h, box) ==
  IF box[1] * h >= box[2] * w
    THEN <<GreaterOf(box[1], 1), GreaterOf(Scaled(h, box[1], w), 1)>>
  ELSE <<GreaterOf(Scaled(w, box[2], h), 1), GreaterOf(box[2], 1)>>

(* smart_resize: the smaller of the two ratios, at least one pixel. *)
Resized(w, h, box) ==
  IF box[1] * h <= box[2] * w
    THEN <<GreaterOf(box[1], 1), GreaterOf(Scaled(h, box[1], w), 1)>>
  ELSE <<GreaterOf(Scaled(w, box[2], h), 1), GreaterOf(box[2], 1)>>

Dimensions ==
  IF <<Header.width, Header.height>> = settings.canonical THEN settings.canonical
  ELSE Resized(Header.width, Header.height, settings.canonical)

(* Every canonical pixel is the same: one pixel only, or one shade. *)
FlatPixels(px) ==
  \/ px.size[1] * px.size[2] = 1
  \/ \E p \in Picture : p.shade # Textured /\ \A c \in px.cells : c = Cell(p)

-----------------------------------------------------------------------------
Init ==
  /\ target \in Picture
  /\ content = Bytes(target)
  /\ read_of = {}
  /\ extension \in Extension
  /\ settings \in Settings
  /\ pc = "open"
  /\ gate = 1
  /\ buffer = Empty
  /\ raster = 0
  /\ pixels = NoPixels
  /\ verdict = Pending
  /\ key = NoKey

Disturbed == read_of' = IF pc = "read" THEN {} ELSE read_of

(* Somebody saves another picture over the file: it is truncated, and then *)
(* grows.                                                                  *)
Overwrite ==
  /\ Len(content) = target.cells
  /\ \E p \in Intruder \ {target} : target' = p
  /\ content' = Empty
  /\ Disturbed
  /\ UNCHANGED <<extension, settings, pc, gate, buffer, raster, pixels, verdict, key>>
Grow ==
  /\ Len(content) < target.cells
  /\ content' = Append(content, Cell(target))
  /\ Disturbed
  /\ UNCHANGED <<target, extension, settings, pc, gate, buffer, raster, pixels, verdict, key>>

Refuse(error) ==
  /\ verdict' = error
  /\ pc' = "done"

Open ==
  /\ pc = "open"
  /\ read_of' = IF Len(content) = target.cells THEN {target} ELSE {}
  /\ pc' = "read"
  /\ UNCHANGED <<content, target, extension, settings, gate, buffer, raster, pixels, verdict, key>>

Allowance == MaxCells + 1

(* One read call of read_to_end under take(max + 1). *)
Read ==
  /\ pc = "read"
  /\ ~AtEnd(content, buffer) /\ Len(buffer) < Allowance
  /\ \E k \in 1 .. Allowance - Len(buffer) : buffer' = ReadMore(content, buffer, k)
  /\ UNCHANGED <<content, target, read_of, extension, settings, pc, gate, raster, pixels,
                 verdict, key>>

(* Faulty variant: the reader waits for the end of the file. *)
EndReadAtEof ==
  /\ pc = "read"
  /\ AtEnd(content, buffer)
  /\ IF Len(buffer) > MaxCells
       THEN Refuse("MalformedMessage")
       ELSE pc' = "gates" /\ UNCHANGED verdict
  /\ UNCHANGED <<content, target, read_of, extension, settings, gate, buffer, raster, pixels, key>>

EndRead ==
  /\ pc = "read"
  /\ AtEnd(content, buffer) \/ Len(buffer) = Allowance
  /\ IF Len(buffer) > MaxCells
       THEN Refuse("MalformedMessage")
       ELSE pc' = "gates" /\ UNCHANGED verdict
  /\ UNCHANGED <<content, target, read_of, extension, settings, gate, buffer, raster, pixels, key>>

(* Faulty variant: the sizes are looked at after the decode. *)
PassToDecode ==
  /\ pc = "gates"
  /\ IF Gates[gate].ok
       THEN /\ pc' = IF gate = Len(Gates) - 1 THEN "decode" ELSE "gates"
            /\ gate' = gate + 1
            /\ UNCHANGED verdict
       ELSE Refuse(Gates[gate].error) /\ UNCHANGED gate
  /\ UNCHANGED <<content, target, read_of, extension, settings, buffer, raster, pixels, key>>

Pass ==
  /\ pc = "gates"
  /\ IF Gates[gate].ok
       THEN /\ pc' = IF gate = Len(Gates) THEN "decode" ELSE "gates"
            /\ gate' = gate + 1
            /\ UNCHANGED verdict
       ELSE Refuse(Gates[gate].error) /\ UNCHANGED gate
  /\ UNCHANGED <<content, target, read_of, extension, settings, buffer, raster, pixels, key>>

(* The raster is allocated within the limits, before the pixels are read. *)
Decode ==
  /\ pc = "decode"
  /\ IF Needed > Budget
       THEN Refuse("ImageTooLarge") /\ UNCHANGED raster
       ELSE /\ raster' = Needed
            /\ IF Decodes THEN pc' = "tail" /\ UNCHANGED verdict
               ELSE Refuse("ImageCorrupted")
  /\ UNCHANGED <<content, target, read_of, extension, settings, gate, buffer, pixels, key>>

(* The quality gate, the canonical size, metadata and luma. *)
Canonicalize ==
  /\ pc = "tail" /\ pixels = NoPixels
  /\ CASE ContainerFormat.family = "JPEG" /\ ContainerFormat.quality < settings.threshold ->
              Refuse("ImageCorrupted") /\ UNCHANGED pixels
       [] <<Header.width, Header.height>> # settings.canonical
            /\ Header.width * Header.height = 0 ->
              Refuse("ImageCorrupted") /\ UNCHANGED pixels
       [] OTHER ->
              /\ pixels' = [cells |-> {buffer[k] : k \in 1 .. Header.cells},
                            size |-> Dimensions]
              /\ UNCHANGED <<pc, verdict>>
  /\ UNCHANGED <<content, target, read_of, extension, settings, gate, buffer, raster, key>>

(* Faulty variant: the file is read again for its hash. *)
DeriveFromFile ==
  /\ pc = "tail" /\ pixels # NoPixels
  /\ IF pixels.size[1] * pixels.size[2] = 0 \/ FlatPixels(pixels)
       THEN Refuse("ImageHasNoEntropy") /\ UNCHANGED key
       ELSE /\ key' = [pixels |-> pixels, hash |-> content]
            /\ verdict' = "key"
            /\ pc' = "done"
  /\ UNCHANGED <<content, target, read_of, extension, settings, gate, buffer, raster, pixels>>

(* original_hash of the buffer, the refusals of derive_key, and the key. *)
Derive ==
  /\ pc = "tail" /\ pixels # NoPixels
  /\ IF pixels.size[1] * pixels.size[2] = 0 \/ FlatPixels(pixels)
       THEN Refuse("ImageHasNoEntropy") /\ UNCHANGED key
       ELSE /\ key' = [pixels |-> pixels, hash |-> buffer]
            /\ verdict' = "key"
            /\ pc' = "done"
  /\ UNCHANGED <<content, target, read_of, extension, settings, gate, buffer, raster, pixels>>

Intake == Open \/ Read \/ EndRead \/ Pass \/ Decode \/ Canonicalize \/ Derive
Next == Intake \/ Overwrite \/ Grow

(* The command runs on; nobody else has to. *)
SafetySpec == Init /\ [][Next]_vars
Spec == SafetySpec /\ WF_vars(Intake)

-----------------------------------------------------------------------------
(* However small the file that asks for it, and however it grows while it  *)
(* is read: no more is taken into memory than the cap and one probe, no    *)
(* raster is allocated for a picture outside the configured sizes, nor     *)
(* more than the decoder's budget (preprocessor.rs: "Size validation       *)
(* happens before any pixel buffer is allocated").                         *)
MemoryBounded ==
  /\ Len(buffer) <= MaxCells + 1
  /\ raster # 0 =>
       /\ settings.min[1] <= Header.width /\ Header.width <= settings.max[1]
       /\ settings.min[2] <= Header.height /\ Header.height <= settings.max[2]
       /\ raster <= Budget

(* The pixels and the hash that go into one key come from the same bytes,  *)
(* also when the file changes between any two steps: preprocessor.rs calls *)
(* anything else "a silently corrupted key with no error".                 *)
KeyBindsWhatWasDecoded ==
  verdict = "key" =>
    /\ key.hash # Empty /\ key.hash[1].of.cells <= Len(key.hash)
    /\ key.pixels.cells = {key.hash[k] : k \in 1 .. key.hash[1].of.cells}

(* What a picture is worth under these settings, in no order of checks. *)
Acceptable(p) ==
  /\ p.cells <= MaxCells /\ p.header
  /\ p.magic = extension /\ extension \in Families
  /\ \E allowed \in settings.allowed : allowed.family = extension
  /\ p.width \in settings.min[1] .. settings.max[1]
  /\ p.height \in settings.min[2] .. settings.max[2]
  /\ p.width * p.height * p.depth <= Budget
  /\ p.magic = "JPEG" => p.quality >= settings.threshold
  /\ p.width * p.height # 0 /\ p.shade = Textured
  /\ Resized(p.width, p.height, settings.canonical) # <<1, 1>>

(* A file nobody touched while it was read gives a key exactly when the    *)
(* picture is acceptable, and the key is of that picture: what others do   *)
(* to the file before or afterwards makes no difference.                   *)
QuietPictureJudged ==
  \A p \in read_of : pc = "done" =>
    /\ (verdict = "key") <=> Acceptable(p)
    /\ verdict = "key" => key.hash = Bytes(p)

(* The canonical image fits its box, fills it in one direction, and is in  *)
(* the other within half a pixel of the picture's aspect (smart_resize).   *)
Near(a, b, half) == 2 * (a - b) <= half /\ 2 * (b - a) <= half
CanonicalFits ==
  pixels # NoPixels /\ Header.width * Header.height # 0 =>
    LET box == <<GreaterOf(settings.canonical[1], 1), GreaterOf(settings.canonical[2], 1)>>
        w == pixels.size[1]
        h == pixels.size[2]
    IN  /\ w \in 1 .. box[1] /\ h \in 1 .. box[2]
        /\ \/ w = box[1] /\ (h = 1 \/ Near(h * Header.width, w * Header.height, Header.width))
           \/ h = box[2] /\ (w = 1 \/ Near(w * Header.height, h * Header.width, Header.height))

(* Every derivation ends, whatever is done to its file meanwhile. *)
IntakeEnds == <>(pc = "done")
==============================================================================
