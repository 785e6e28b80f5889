----------------------------- MODULE JpegQuality -----------------------------
(***************************************************************************)
(* `estimate_jpeg_quality` on a whole file, as the preprocessor calls it,  *)
(* and on the first bytes of the same file, as `detect_format` does after  *)
(* `sniff_window`.  The scan goes over real bytes, one iteration a step,   *)
(* because its properties are about where it looks.                        *)
(***************************************************************************)
EXTENDS Integers, Sequences

CONSTANTS
  File,          (* the JPEG files looked at: records with the bytes, the     *)
                 (* segments they were put together from and where each       *)
                 (* starts, whether the end is cut off, and the quality an    *)
                 (* IJG encoder was asked for, or 0 if no encoder wrote it    *)
  SniffWindow    (* SNIFF_WINDOW                                              *)

VARIABLES
  file,
  filled,      (* bytes of the window read so far                            *)
  position,    (* i, of the scan in each view; from 0, as in the code        *)
  result       (* what each scan returned                                    *)

scanVars == <<file, filled, position, result>>

View == {"whole", "window"}
Byte == 0 .. 255
Unanswered == -1
OutOfBounds == -2       (* an index past the end: the program panics *)
DefaultQuality == 75
QualityThreshold == 90  (* jpeg_quality_threshold by default         *)

Smaller(a, b) == IF a < b THEN a ELSE b
WindowLen == Smaller(SniffWindow, Len(file.bytes))
LengthOf(v) == IF v = "whole" THEN Len(file.bytes) ELSE filled

-----------------------------------------------------------------------------
(* Faulty variant: the bucket's upper edge instead of the lower one. *)
QualityFromUpperEdge(dc) ==
  LET q == IF dc <= 16 THEN (2 * (3150 - 100 * dc) + 32) \div 64
           ELSE (160000 + (100 * dc + 50)) \div (2 * (100 * dc + 50))
  IN  IF q < 1 THEN 1 ELSE Smaller(q, 100)

(* quality_from_dc: the scale is (100 dc - 50) / 16, at least 1; above 100 *)
(* the quality is 5000 / scale, else (200 - scale) / 2; rounded, clamped.  *)
QualityFromDc(dc) ==
  LET q == IF dc = 0 THEN 100
           ELSE IF dc <= 16 THEN (2 * (3250 - 100 * dc) + 32) \div 64
           ELSE (160000 + (100 * dc - 50)) \div (2 * (100 * dc - 50))
  IN  IF q < 1 THEN 1 ELSE Smaller(q, 100)

-----------------------------------------------------------------------------
(* Files as they are written: segments one behind the other after the      *)
(* start-of-image marker, and behind the last no byte that begins another. *)
(* What is not a marker segment of its full length is a broken one, a      *)
(* standalone marker or a single byte; a table is short if its length      *)
(* leaves no room for its first entry.                                     *)
Standalone == {255, 1} \cup 208 .. 217
LengthField(b) == 256 * b[3] + b[4]
IsSegment(b) == Len(b) >= 4 /\ b[1] = 255 /\ b[2] \notin Standalone
IsFull(b) == IsSegment(b) /\ Len(b) = 2 + LengthField(b)
IsDqt(b) == IsFull(b) /\ b[2] = 219 /\ Len(b) >= 5
IsOfKind(s) ==
  LET b == s.bytes
  IN  CASE s.kind = "table"  -> /\ IsDqt(b)
                                /\ \/ b[5] < 16 /\ Len(b) >= 6 /\ s.dc = b[6]
                                   \/ b[5] >= 16 /\ Len(b) >= 8 /\ s.dc = 256 * b[6] + b[7]
        [] s.kind = "short"  -> IsDqt(b) /\ b[5] < 16 /\ Len(b) = 5
        [] s.kind = "broken" -> IsSegment(b) /\ LengthField(b) < 2
        [] s.kind = "other"  -> \/ Len(b) = 1 /\ b[1] # 255
                                \/ Len(b) = 2 /\ b[1] = 255 /\ b[2] \in Standalone
                                \/ IsFull(b) /\ (IsDqt(b) => b[5] >= 16 /\ Len(b) < 8)

Segment == [kind : {"table", "short", "broken", "other"}, dc : Nat, bytes : Seq(Byte)]
Assembled(f) ==
  LET n == Len(f.segments)
  IN  /\ Len(f.starts) = n + 1 /\ f.starts[1] = 2 /\ f.starts[n + 1] <= Len(f.bytes)
      /\ \A k \in 1 .. n :
           LET s == f.segments[k]
           IN  /\ IsOfKind(s) /\ f.starts[k + 1] = f.starts[k] + Len(s.bytes)
               /\ f.starts[k + 1] <= Len(f.bytes)
               /\ \A m \in 1 .. Len(s.bytes) : f.bytes[f.starts[k] + m] = s.bytes[m]
      /\ \A m \in f.starts[n + 1] + 1 .. Len(f.bytes) : f.bytes[m] # 255

(* The first entry of the IJG luminance table at quality q. *)
IjgEntry(q) ==
  LET scale == IF q < 50 THEN 5000 \div q ELSE 200 - 2 * q
      t == (16 * scale + 50) \div 100
  IN  IF t < 1 THEN 1 ELSE Smaller(t, 255)

ASSUME ScanAssumption ==
  /\ SniffWindow \in Nat
  /\ \A f \in File :
       /\ f.bytes \in Seq(Byte) /\ f.segments \in Seq(Segment) /\ f.starts \in Seq(Nat)
       /\ ~f.cut => Assembled(f)
       /\ f.encoder # 0 =>
            /\ ~f.cut /\ f.encoder \in 1 .. 100
            /\ \E k \in DOMAIN f.segments :
                 /\ f.segments[k].kind = "table" /\ f.segments[k].dc = IjgEntry(f.encoder)
                 /\ \A l \in 1 .. k - 1 : f.segments[l].kind = "other"

-----------------------------------------------------------------------------
At(k) == file.bytes[k + 1]
Marker(v) == At(position[v] + 1)
SegLen(v) == 256 * At(position[v] + 2) + At(position[v] + 3)

Scanning(v) ==
  /\ result[v] = Unanswered
  /\ v = "window" => filled = WindowLen
InSegment(v) ==
  /\ Scanning(v)
  /\ position[v] + 4 <= LengthOf(v)
  /\ At(position[v]) = 255
  /\ Marker(v) \notin Standalone

Malformed(v) == SegLen(v) < 2 \/ position[v] + 2 + SegLen(v) > LengthOf(v)

Return(v, q) == result' = [result EXCEPT ![v] = q]
Advance(v, n) == position' = [position EXCEPT ![v] = @ + n]

ScanInit ==
  /\ file \in File
  /\ filled = 0
  /\ position = [v \in View |-> 2]
  /\ result = [v \in View |-> Unanswered]

(* sniff_window: read calls of any length until the window is full or the  *)
(* file ends.                                                              *)
FillWindow ==
  /\ filled < WindowLen
  /\ \E n \in 1 .. WindowLen - filled : filled' = filled + n
  /\ UNCHANGED <<file, position, result>>

(* Fewer than four bytes are left. *)
EndOfBuffer(v) ==
  /\ Scanning(v)
  /\ position[v] + 4 > LengthOf(v)
  /\ Return(v, DefaultQuality)
  /\ UNCHANGED <<file, filled, position>>

(* Faulty variant: the byte is not stepped over. *)
SkipByteStays(v) ==
  /\ Scanning(v) /\ position[v] + 4 <= LengthOf(v) /\ At(position[v]) # 255
  /\ UNCHANGED scanVars

SkipByte(v) ==
  /\ Scanning(v)
  /\ position[v] + 4 <= LengthOf(v)
  /\ At(position[v]) # 255
  /\ Advance(v, 1)
  /\ UNCHANGED <<file, filled, result>>

(* Markers without a length field, and fill bytes. *)
SkipStandalone(v) ==
  /\ Scanning(v)
  /\ position[v] + 4 <= LengthOf(v)
  /\ At(position[v]) = 255
  /\ Marker(v) \in Standalone
  /\ Advance(v, 2)
  /\ UNCHANGED <<file, filled, result>>

(* Faulty variant: the scan goes on behind the marker. *)
Resynchronise(v) ==
  /\ InSegment(v)
  /\ Malformed(v)
  /\ Advance(v, 2)
  /\ UNCHANGED <<file, filled, result>>

GiveUp(v) ==
  /\ InSegment(v)
  /\ Malformed(v)
  /\ Return(v, DefaultQuality)
  /\ UNCHANGED <<file, filled, position>>

(* A quantization table: its precision and its first entry are read.  An   *)
(* index past the end, of either byte, ends the program.                   *)
IsTable(v) == Marker(v) = 219 /\ SegLen(v) >= 3
EightBit(v) == position[v] + 4 < LengthOf(v) => At(position[v] + 4) < 16
ReadEightBit(v) ==
  /\ InSegment(v) /\ ~Malformed(v) /\ IsTable(v) /\ EightBit(v)
  /\ Return(v, IF position[v] + 5 < LengthOf(v) THEN QualityFromDc(At(position[v] + 5))
               ELSE OutOfBounds)
  /\ UNCHANGED <<file, filled, position>>
ReadSixteenBit(v) ==
  /\ InSegment(v) /\ ~Malformed(v) /\ IsTable(v) /\ ~EightBit(v)
  /\ SegLen(v) >= 6
  /\ Return(v, IF position[v] + 6 < LengthOf(v)
                 THEN QualityFromDc(256 * At(position[v] + 5) + At(position[v] + 6))
               ELSE OutOfBounds)
  /\ UNCHANGED <<file, filled, position>>

(* Faulty variant: the two bytes of the marker are not counted. *)
SkipSegmentBody(v) ==
  /\ InSegment(v) /\ ~Malformed(v)
  /\ IsTable(v) => ~EightBit(v) /\ SegLen(v) < 6
  /\ Advance(v, SegLen(v))
  /\ UNCHANGED <<file, filled, result>>

(* Any other segment, and a 16-bit table too short for an entry. *)
SkipSegment(v) ==
  /\ InSegment(v) /\ ~Malformed(v)
  /\ IsTable(v) => ~EightBit(v) /\ SegLen(v) < 6
  /\ Advance(v, 2 + SegLen(v))
  /\ UNCHANGED <<file, filled, result>>

Iteration(v) ==
  \/ EndOfBuffer(v) \/ SkipByte(v) \/ SkipStandalone(v) \/ GiveUp(v)
  \/ ReadEightBit(v) \/ ReadSixteenBit(v) \/ SkipSegment(v)

ScanNext == FillWindow \/ \E v \in View : Iteration(v)

(* The loops are sequential code. *)
ScanFairness == WF_scanVars(FillWindow) /\ \A v \in View : WF_scanVars(Iteration(v))
ScanSpec == ScanInit /\ [][ScanNext]_scanVars
FairScanSpec == ScanSpec /\ ScanFairness

-----------------------------------------------------------------------------
(* Over a complete file the scan finds the first table an encoder put      *)
(* there: no byte of another segment's payload is taken for a marker, no   *)
(* table is missed, and what follows a broken segment is not looked at.    *)
(* What it makes of a table that is too short is not promised.             *)
FirstTableDecides ==
  LET seg == file.segments
      stops == {k \in DOMAIN seg : seg[k].kind # "other"}
      first == CHOOSE k \in stops : \A l \in stops : k <= l
      found == IF stops = {} THEN "none" ELSE seg[first].kind
  IN  ~file.cut /\ result["whole"] # Unanswered /\ found # "short" =>
        result["whole"] = IF found = "table" THEN QualityFromDc(seg[first].dc)
                          ELSE DefaultQuality

(* The window never makes up a quality: detect_format answers what the     *)
(* preprocessor would answer for the whole file, or the default (loader.rs *)
(* on SNIFF_WINDOW: "a truncated scan still falls back safely"), unless    *)
(* one of the scans ends the program.                                      *)
PrefixAgrees ==
  (\A v \in View : result[v] \notin {Unanswered, OutOfBounds}) =>
    result["window"] \in {DefaultQuality, result["whole"]}

(* With the default threshold the estimate decides exactly as the quality  *)
(* the encoder was asked for would, though several qualities share a table *)
(* (preprocessor.rs, the JPEG quality gate).                               *)
GateMatchesEncoder ==
  file.encoder # 0 /\ result["whole"] # Unanswered =>
    (result["whole"] >= QualityThreshold <=> file.encoder >= QualityThreshold)

(* Both scans return. *)
ScansEnd == \A v \in View : <>(result[v] # Unanswered)

(* tests/property_tests.rs: the quality estimator "never panics on         *)
(* arbitrary buffers of any length".                                       *)
NeverReadsPastTheEnd == \A v \in View : result[v] # OutOfBounds
==============================================================================
