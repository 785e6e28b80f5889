----------------------------- MODULE PixelBlocks ------------------------------
(***************************************************************************)
(* The sources that cut the working picture into pieces without walking    *)
(* over it: the tilings of four of them (the lattice source measures its   *)
(* last state in blocks), and the blocks of the quantum density source,    *)
(* which takes its pixels with two prime strides modulo their number.      *)
(***************************************************************************)
EXTENDS SourceConfig, FiniteSets

VARIABLES
  turn,          (* index of the next tiling                                 *)
  tiles,         (* the boxes of the last one                                *)
  block,         (* operators built so far                                   *)
  latest,        (* pixels of the last operator, per part                    *)
  seen           (* ... of the operators before it                           *)

blockVars == <<turn, tiles, block, latest, seen>>

NoPixels == [re |-> {}, im |-> {}]
BlockInit == turn = 1 /\ tiles = {} /\ block = 0 /\ latest = NoPixels /\ seen = NoPixels

-----------------------------------------------------------------------------
ShortSide == AtMost(Width, Height)
PowersUpTo(cap) == [k \in 1 .. Cardinality({k \in 1 .. 9 : 2 ^ k <= cap}) |-> 2 ^ k]
AtMostOf(n, sizes) == SubSeq(sizes, 1, AtMost(n, Len(sizes)))
Tilings(source, sizes) ==
  IF source \in call.disabled THEN <<>>
  ELSE [k \in DOMAIN sizes |-> [source |-> source, side |-> sizes[k]]]

(* The sizes of the multifractal source depend on the width alone; those   *)
(* of the detector end at half the shorter side and at a knob, those of    *)
(* the spectrum at half the shorter side: two boxes along it.              *)
DetectorSizes(cap) == AtMostOf(8, PowersUpTo(AtMost(cap, AtLeast(call.detection_max, 2))))
SpectrumSizes == PowersUpTo(ShortSide \div 2)
LatticeSide == AtLeast(AtMost(8, ShortSide), 1)
AllTilings ==
  Tilings("multifractal", AtMostOf(8, PowersUpTo(AtLeast(Width \div 4, 4)))) \o
  Tilings("noise", <<8>>) \o
  Tilings("lattice", <<LatticeSide>>) \o
  Tilings("fractal_aware", DetectorSizes(ShortSide \div 2)) \o
  Tilings("fractal_aware", SpectrumSizes)

(* Faulty variant: the last box is dropped unless it is whole. *)
WholeBoxesAlong(extent, t) == AtLeast(extent \div t.side, 1)

(* How many boxes along an extent: whole ones, at least one, or as many as *)
(* it takes to reach the edge.                                             *)
BoxesAlong(extent, t) ==
  IF t.source = "multifractal" THEN AtLeast(extent \div t.side, 1)
  ELSE (extent + t.side - 1) \div t.side

(* A box is clipped at the edges of the picture. *)
Tile(t, column, line) ==
  [x0 |-> column * t.side, x1 |-> AtMost((column + 1) * t.side, Width),
   y0 |-> line * t.side,   y1 |-> AtMost((line + 1) * t.side, Height)]
TilesOf(t) ==
  {Tile(t, column, line) : column \in 0 .. BoxesAlong(Width, t) - 1,
                           line \in 0 .. BoxesAlong(Height, t) - 1}

TilingsDone == turn > Len(AllTilings)
CutTiles ==
  /\ ~TilingsDone
  /\ tiles' = TilesOf(AllTilings[turn])
  /\ turn' = turn + 1
  /\ UNCHANGED <<block, latest, seen>>

-----------------------------------------------------------------------------
NumPixels == Width * Height
Dim == call.dimension

(* validate_config and the room for one operator. *)
QuantumRefuses == Dim \notin 1 .. 64 \/ NumPixels < Dim * Dim
NumBlocks == IF call.full_spectrum THEN NumPixels \div (Dim * Dim) ELSE 1

(* Slots of the lower triangle in reading order, the diagonal at the end   *)
(* of each row.                                                            *)
NumSlots == (Dim * (Dim + 1)) \div 2
Diagonal == {((i + 1) * (i + 2)) \div 2 - 1 : i \in 0 .. Dim - 1}

(* Faulty variant: a block is as long as a row. *)
BaseOfRow(b) == b * Dim

Base(b) == b * Dim * Dim

RealTap(b, slot) == ((Base(b) + slot) * 131) % NumPixels
ImagTap(b, slot) == ((Base(b) + slot + Dim) * 197) % NumPixels

(* The matrix of an operator: the slot that gives a cell its value, and    *)
(* the sign; mirrored as the conjugate.                                    *)
SlotOf(i, j) == (i * (i + 1)) \div 2 + j
NoValue == [of |-> "zero"]
Value(part, slot, sign) == [of |-> part, slot |-> slot, sign |-> sign]
Real(i, j) == Value("re", IF j <= i THEN SlotOf(i, j) ELSE SlotOf(j, i), 1)
Imaginary(i, j) ==
  CASE i = j -> NoValue
    [] j < i -> Value("im", SlotOf(i, j), 1)
    [] i < j -> Value("im", SlotOf(j, i), -1)
Negated(v) == IF v = NoValue THEN v ELSE [v EXCEPT !.sign = -@]

(* hermitian_eigenvalues: two by two real cells for a complex one. *)
Embedded(row, column) ==
  LET i == row \div 2
      j == column \div 2
  IN  CASE row % 2 = column % 2 -> Real(i, j)
        [] row % 2 < column % 2 -> Negated(Imaginary(i, j))
        [] row % 2 > column % 2 -> Imaginary(i, j)

QuantumDone == block = NumBlocks

(* build_hermitian: the real part from every slot, the imaginary part from *)
(* those below the diagonal.                                               *)
BuildOperator ==
  /\ ~QuantumDone
  /\ latest' = [re |-> {RealTap(block, s) : s \in 0 .. NumSlots - 1},
                im |-> {ImagTap(block, s) : s \in (0 .. NumSlots - 1) \ Diagonal}]
  /\ seen' = [re |-> seen.re \cup latest.re, im |-> seen.im \cup latest.im]
  /\ block' = block + 1
  /\ UNCHANGED <<turn, tiles>>

-----------------------------------------------------------------------------
(* A tiling of a picture that has pixels counts every one of them once,    *)
(* drops nothing at the edges (comment of `partition`: "boundary content   *)
(* is never dropped") or, for the multifractal source, less than a box,    *)
(* and has no box without a pixel to divide by.                            *)
Spans(from, to) == {<<t[from], t[to]>> : t \in tiles}
CutWhole(spans, extent, rest) ==
  /\ \A s \in spans : s[1] < s[2]
  /\ \A s, u \in spans : s # u => s[2] <= u[1] \/ u[2] <= s[1]
  /\ \A p \in 0 .. extent - 1 - rest : \E s \in spans : s[1] <= p /\ p < s[2]
TilingsAreWhole ==
  turn > 1 /\ NumPixels > 0 =>
    LET cut  == AllTilings[turn - 1]
        rest == IF cut.source = "multifractal" THEN cut.side - 1 ELSE 0
        columns == Spans("x0", "x1")
        lines == Spans("y0", "y1")
    IN  /\ CutWhole(columns, Width, rest) /\ CutWhole(lines, Height, rest)
        /\ Cardinality(tiles) = Cardinality(columns) * Cardinality(lines)

(* Unless a stride divides the number of pixels, the blocks of operators   *)
(* are independent: no pixel is the real tap, and none the imaginary tap,  *)
(* of two slots, of one block or of two (comment of `build_hermitian`:     *)
(* "consecutive blocks consume disjoint regions of the buffer").           *)
OperatorsShareNoPixel ==
  block > 0 =>
    /\ NumPixels % 131 # 0 =>
         latest.re \cap seen.re = {} /\ Cardinality(latest.re) = NumSlots
    /\ NumPixels % 197 # 0 =>
         latest.im \cap seen.im = {} /\ Cardinality(latest.im) = NumSlots - Dim

(* The eigenvalue solver gets what it needs, a symmetric matrix (it reads  *)
(* the upper half and writes both), with every slot of the block in it:    *)
(* the real part symmetric, the imaginary part not, and no slot twice      *)
(* above the diagonal of either.                                           *)
OperatorsAreHermitian ==
  block = 1 =>
    LET side == 0 .. 2 * Dim - 1
        lower(part) == {s \in 0 .. NumSlots - 1 : part = "re" \/ s \notin Diagonal}
        below(part) == {p \in (0 .. Dim - 1) \X (0 .. Dim - 1) :
                          p[2] < p[1] \/ (part = "re" /\ p[1] = p[2])}
    IN  /\ \A r, c \in side : r < c => Embedded(r, c) = Embedded(c, r)
        /\ \A part \in {"re", "im"} :
             {Embedded(2 * p[1] + 1, 2 * p[2] + (IF part = "re" THEN 1 ELSE 0)).slot :
                p \in below(part)} = lower(part)
==============================================================================
