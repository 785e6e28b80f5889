---------------------------- MODULE MCJpegQuality ----------------------------
(***************************************************************************)
(* Complete files of up to three segments, files of up to two segments cut *)
(* off at any byte, and one file per quality an IJG encoder may be asked   *)
(* for.                                                                    *)
(***************************************************************************)
EXTENDS JpegQuality, SequencesExt

Seg(kind, dc, bytes) == [kind |-> kind, dc |-> dc, bytes |-> bytes]

App     == Seg("other", 0, <<255, 225, 0, 2>>)
(* A thumbnail with a table of its own, and an end that looks like one.    *)
Thumbnail == Seg("other", 0, <<255, 225, 0, 10, 255, 219, 0, 4, 0, 9, 255, 219>>)
Restart == Seg("other", 0, <<255, 208>>)
Filler  == Seg("other", 0, <<0>>)
Broken  == Seg("broken", 0, <<255, 225, 0, 1, 0>>)
Table8(dc)  == Seg("table", dc, <<255, 219, 0, 4, 0, dc>>)
Table16(dc) == Seg("table", dc, <<255, 219, 0, 7, 16, dc \div 256, dc % 256, 0, 0>>)
Short16 == Seg("other", 0, <<255, 219, 0, 4, 16, 0>>)   (* no room for an entry *)
Short8  == Seg("short", 0, <<255, 219, 0, 3, 0>>)       (* likewise, 8 bits     *)

Ordinary == {App, Thumbnail, Restart, Filler, Broken, Short16, Short8,
             Table8(2), Table8(255), Table16(300), Table16(40000)}

Soi == <<255, 216>>
Joined(segs) == Soi \o FlattenSeq([k \in DOMAIN segs |-> segs[k].bytes])
StartsOf(segs) == [k \in 1 .. Len(segs) + 1 |-> Len(Joined(SubSeq(segs, 1, k - 1)))]
Files(Segments, n) ==
  UNION { LET all == Joined(segs)
          IN  { [bytes |-> SubSeq(all, 1, cut), segments |-> segs,
                 starts |-> StartsOf(segs), cut |-> cut < Len(all), encoder |-> 0] :
                cut \in 2 .. Len(all) }
        : segs \in UNION {[1 .. k -> Segments] : k \in 0 .. n} }

EncoderFiles ==
  { LET segs == <<App, Table8(IjgEntry(q)), Filler>>
    IN  [bytes |-> Joined(segs), segments |-> segs, starts |-> StartsOf(segs),
         cut |-> FALSE, encoder |-> q] : q \in 1 .. 100 }

(* A complete file ends with entropy-coded data, never with a bare marker. *)
Complete == { [f EXCEPT !.bytes = @ \o <<0, 0, 0>>] :
                f \in {g \in Files(Ordinary, 3) : ~g.cut} }

MCFiles == Complete \cup {f \in Files(Ordinary, 2) : f.cut} \cup EncoderFiles
MCShortFiles == Files({Short8, App, Table8(2)}, 2)
==============================================================================
