---------------------------- MODULE MCImageIntake ----------------------------
(***************************************************************************)
(* Pictures that differ from the first in one respect each: every gate has *)
(* one that fails it, and one that just passes.                            *)
(***************************************************************************)
EXTENDS ImageIntake

Good == [magic |-> "JPEG", quality |-> 90, header |-> TRUE, width |-> 4, height |-> 3,
         depth |-> 3, shade |-> Textured, cells |-> 2]

MCPictures ==
  { Good,
    [Good EXCEPT !.width = 2, !.height = 5, !.cells = 3],  (* at the cap, at the limits *)
    [Good EXCEPT !.cells = 5],                             (* above the cap              *)
    [Good EXCEPT !.magic = "PNG", !.quality = 0, !.depth = 4],
    [Good EXCEPT !.magic = "unknown", !.quality = 0],
    [Good EXCEPT !.header = FALSE],
    [Good EXCEPT !.width = 1, !.cells = 1],
    [Good EXCEPT !.width = 0],
    [Good EXCEPT !.height = 6],
    [Good EXCEPT !.depth = 16],
    [Good EXCEPT !.quality = 89],
    [Good EXCEPT !.shade = "grey"] }

Listing(family) == [family |-> family, quality |-> 0]
JPEG(quality) == [family |-> "JPEG", quality |-> quality]
Usual == [min |-> <<2, 2>>, max |-> <<5, 5>>, canonical |-> <<3, 3>>,
          allowed |-> {JPEG(95), Listing("BMP")}, threshold |-> 90]
MCSettings ==
  { Usual,
    [Usual EXCEPT !.allowed = {Listing("PNG")}],
    [Usual EXCEPT !.min = <<0, 0>>, !.canonical = <<0, 4>>],
    [Usual EXCEPT !.min = <<0, 0>>, !.canonical = <<0, 3>>, !.threshold = 0],
    [Usual EXCEPT !.canonical = <<1, 1>>, !.max = <<4, 4>>],
    [Usual EXCEPT !.canonical = <<7, 2>>],
    [Usual EXCEPT !.min = <<6, 2>>] }
(* What somebody saves over it: one of the same layout, a longer, a flat.  *)
MCIntruder ==
  { [Good EXCEPT !.magic = "PNG", !.quality = 0, !.depth = 4],
    [Good EXCEPT !.cells = 5],
    [Good EXCEPT !.shade = "grey"] }

MCExtensions == {"JPEG", "PNG", "txt", "none"}
==============================================================================
