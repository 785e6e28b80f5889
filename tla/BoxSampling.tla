----------------------------- MODULE BoxSampling ------------------------------
(***************************************************************************)
(* `extract_lacunarity`: at every scale boxes are laid over the picture,   *)
(* either as a walk that starts again at the left edge with a shift and    *)
(* stops after so many boxes, or row by row.  A box is its upper left      *)
(* corner; the mass of its pixels is left out.                             *)
(***************************************************************************)
EXTENDS SourceConfig

CONSTANT MaxBoxes      (* boxes of one walk, 256 in the code                 *)
ASSUME BoxAssumption == MaxBoxes \in Nat \ {0}

VARIABLES
  due,         (* the scales still to do; the least is in use                *)
  x, y,        (* position of the walk, or next column and row               *)
  gaps,        (* the boxes taken at this scale                              *)
  covered      (* the walk over this scale is through                        *)

boxVars == <<due, x, y, gaps, covered>>

InUse == CHOOSE s \in due : \A t \in due : s <= t
Side == AtLeast(InUse, 2)

(* Faulty variant: the walk may start a box on any pixel. *)
EndOfPicture(extent) == AtLeast(extent, 1)

EndOf(extent) == AtLeast(AtMost(AtLeast(extent - Side, 0), extent), 1)

EndX == EndOf(Width)
EndY == EndOf(Height)
Columns == AtLeast(Width \div Side, 1)
Rows == AtLeast(Height \div Side, 1)

BoxInit == due = Scales /\ x = 0 /\ y = 0 /\ gaps = <<>> /\ covered = FALSE

BoxesDone == due = {}

(* Faulty variant: the walk breaks off at the end of a row or of a column. *)
GlideToEitherEdge ==
  /\ ~BoxesDone /\ ~covered /\ call.clustered
  /\ y < EndY /\ Len(gaps) < MaxBoxes
  /\ gaps' = Append(gaps, <<x, y>>)
  /\ IF x + Side >= EndX \/ y + Side >= EndY
       THEN covered' = TRUE /\ UNCHANGED <<x, y>>
     ELSE /\ x' = (x + Side) % EndX
          /\ y' = IF x' < Side THEN y + Side ELSE y
          /\ UNCHANGED covered
  /\ UNCHANGED due

(* The gliding box: one box, then the break or the next position. *)
Glide ==
  /\ ~BoxesDone /\ ~covered /\ call.clustered
  /\ y < EndY /\ Len(gaps) < MaxBoxes
  /\ gaps' = Append(gaps, <<x, y>>)
  /\ IF x + Side >= EndX /\ y + Side >= EndY
       THEN covered' = TRUE /\ UNCHANGED <<x, y>>
     ELSE /\ x' = (x + Side) % EndX
          /\ y' = IF x' < Side THEN y + Side ELSE y
          /\ UNCHANGED covered
  /\ UNCHANGED due

StopGliding ==
  /\ ~BoxesDone /\ ~covered /\ call.clustered
  /\ y >= EndY \/ Len(gaps) >= MaxBoxes
  /\ covered' = TRUE
  /\ UNCHANGED <<due, x, y, gaps>>

(* Box counting: x is the column, y the row of the next box. *)
Count ==
  /\ ~BoxesDone /\ ~covered /\ ~call.clustered
  /\ gaps' = Append(gaps, <<x * Side, y * Side>>)
  /\ x' = IF x + 1 < Columns THEN x + 1 ELSE 0
  /\ y' = IF x + 1 < Columns THEN y ELSE y + 1
  /\ covered' = (y' >= Rows)
  /\ UNCHANGED due

(* compute_lacunarity takes the boxes; the next scale starts afresh. *)
EndScale ==
  /\ ~BoxesDone /\ covered
  /\ due' = due \ {InUse}
  /\ x' = 0 /\ y' = 0 /\ gaps' = <<>> /\ covered' = FALSE

BoxStep == Glide \/ StopGliding \/ Count \/ EndScale

-----------------------------------------------------------------------------
(* As long as a box fits into the picture, no pixel is counted twice at a  *)
(* scale and no box reaches over an edge to the other side: the index      *)
(* arithmetic modulo the size never comes into play (lacunarity.rs calls   *)
(* the boxes of the walk overlapping).                                     *)
Apart(p, q) ==
  \/ p[1] + Side <= q[1] \/ q[1] + Side <= p[1]
  \/ p[2] + Side <= q[2] \/ q[2] + Side <= p[2]
BoxesStayApart ==
  ~BoxesDone /\ gaps # <<>> /\ Side <= Width /\ Side <= Height =>
    LET last == gaps[Len(gaps)]
    IN  /\ last[1] + Side <= Width /\ last[2] + Side <= Height
        /\ \A k \in 1 .. Len(gaps) - 1 : Apart(gaps[k], last)

(* A walk that is not cut off by MaxBoxes leaves out no part of the range  *)
(* it samples: in every band of rows the boxes stand side by side, from a  *)
(* shift smaller than a box up to the right end, however the shifts of     *)
(* successive rows come out; and no scale is without a box.                *)
NoBandSkipped ==
  ~BoxesDone /\ covered =>
    /\ gaps # <<>>
    /\ call.clustered /\ Len(gaps) < MaxBoxes =>
         \A row \in 0 .. EndY - 1 : \A column \in Side - 1 .. EndX - 1 :
           \E k \in DOMAIN gaps :
             /\ gaps[k][1] <= column /\ column < gaps[k][1] + Side
             /\ gaps[k][2] <= row /\ row < gaps[k][2] + Side
==============================================================================
