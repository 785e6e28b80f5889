------------------------- MODULE MCWitnessPipeline ----------------------------
(***************************************************************************)
(* The tables and limits of the code; pictures from none at all over the   *)
(* smallest each source takes to canonical ones that are scaled down;      *)
(* pixel counts that a stride divides; knobs that cut the ladders short,   *)
(* start them late, leave two steps or are refused; profiles that give     *)
(* each strategy name, one without entropy; strategies with fewer weights  *)
(* than sources.  A spot on every pixel of pictures small enough to follow *)
(* their wavelet planes, rows of pixels around the lengths the Hurst loops *)
(* ask for, orbits that go round a picture more than once.                 *)
(***************************************************************************)
EXTENDS WitnessPipeline

Usual ==
  [ width |-> 40, height |-> 30, density |-> "medium", clustered |-> TRUE,
    bucket |-> "VeryLow", lacunarity_scales |-> {}, min_scale |-> 0, max_scale |-> 8,
    num_scales |-> 256, dimension |-> 16, full_spectrum |-> TRUE, detection_max |-> 256,
    fractal_max |-> 8, convergence |-> 5,
    q_values |-> << <<-1, "-">>, <<0, "+">>, <<1, "+">> >>, moments |-> 9,
    orientations |-> 4, frequencies |-> 4,
    iterations |-> 3, spot |-> 0, disabled |-> {"hurst"}, flat |-> {} ]
Only(c, sources) == [c EXCEPT !.disabled = Switchable \ sources]
Sized(w, h) == [Usual EXCEPT !.width = w, !.height = h]

Sizes ==
  {Sized(512, 342), Sized(512, 512), Sized(342, 512), Sized(512, 419), Sized(300, 5),
   Sized(33, 57), Sized(16, 16), Sized(16, 40), Sized(15, 99)}
  \cup {[Sized(w, h) EXCEPT !.disabled = {"fractal_aware", "multifractal"}, !.dimension = 2] :
          w \in {3, 4, 5, 9}, h \in {4, 5, 10}}
  \cup {[Sized(8, 8) EXCEPT !.disabled = {"fractal_aware"}, !.dimension = d] : d \in {0, 1, 8, 9, 65}}
  \cup {Only(s, {"lacunarity", "gradient", "texture", "noise"}) : s \in {Sized(0, 3), Sized(3, 2), Sized(7, 8)}}
  \cup {[Sized(20, 20) EXCEPT !.disabled = {"wtmm", "lacunarity", "noise", "quantum_density"}],
        [Usual EXCEPT !.orientations = 3, !.frequencies = 0], [Usual EXCEPT !.orientations = 0],
        [Usual EXCEPT !.density = "dense", !.lacunarity_scales = {2}]}
Blocks ==
  {[Sized(w, 30) EXCEPT !.dimension = d, !.full_spectrum = f, !.lacunarity_scales = {32}] :
     w \in {40, 131, 197}, d \in {1, 2, 3, 5, 64}, f \in BOOLEAN}
Detections ==
  {[Sized(w, h) EXCEPT !.detection_max = m, !.lacunarity_scales = {32}] :
     w \in {17, 70}, h \in {16, 90}, m \in {1, 2, 5, 512}}
Boxes ==
  {[Usual EXCEPT !.density = d, !.clustered = c, !.lacunarity_scales = s] :
     d \in Density, c \in BOOLEAN, s \in {{}, {2, 8, 64}, {4}}}
Ladders ==
  {[Usual EXCEPT !.bucket = b, !.min_scale = lo, !.flat = f, !.lacunarity_scales = {32}] :
     b \in Bucket, lo \in {0, 3}, f \in {{}, {1, 4}}}
  \cup
  {[Usual EXCEPT !.min_scale = lo, !.max_scale = hi, !.num_scales = n, !.flat = f,
                 !.lacunarity_scales = {32}] :
     lo \in {0, 1, 2, 9}, hi \in {0, 4, 8}, n \in {1, 3, 5}, f \in {{}, {2}, 1 .. 6}}
Probes ==
  {[Sized(160, h) EXCEPT !.fractal_max = m, !.convergence = c, !.lacunarity_scales = {64},
                         !.full_spectrum = FALSE] :
     h \in {24, 107, 160}, m \in {1, 8, 64, 65}, c \in {0, 5, 100}}
Moment(q) == <<q, IF q < 0 THEN "-" ELSE "+">>
Spectra ==
  {[Only(Sized(16, 16), {"fractal_aware"}) EXCEPT !.q_values = qs, !.orientations = Len(qs) - 2] :
     qs \in { [k \in 1 .. 7 |-> Moment(<<-5, -3, -1, 0, 1, 3, 5>>[k])],
              [k \in 1 .. 5 |-> Moment(<<3, -2, 4, 0, 1>>[k])],
              << <<0, "+">>, <<1, "+">>, <<0, "-">> >>,
              << <<0, "+">>, <<1, "+">>, <<0, "-">>, <<2, "+">> >>,
              << <<2, "+">>, <<1, "+">>, <<2, "+">> >>,
              << <<2, "+">>, <<1, "+">> >> }}
Spots ==
  {[Only(Sized(size[1], size[2]), {"wtmm"}) EXCEPT !.spot = p, !.num_scales = 2, !.max_scale = m] :
     size \in {<<4, 4>>, <<5, 5>>, <<4, 7>>, <<6, 4>>}, p \in 0 .. 27, m \in {2, 8}}
RowsOfPixels ==
  {[Only(Sized(w, h), {"hurst", "chaos"}) EXCEPT !.iterations = n] :
     w \in {1, 7, 8, 9, 16, 31, 63, 64, 65}, h \in {1, 2, 3}, n \in {1, 130}}
  \cup {Only(Sized(w, 107), {"hurst"}) : w \in {30, 160}}
  \cup {[Only(Sized(4, 4), {"chaos"}) EXCEPT !.iterations = n] : n \in {0, 1000001}}
  \cup {Only(Sized(0, 3), {"chaos"})}

MCCall == {c \in Spots : c.spot < c.width * c.height} \cup RowsOfPixels \cup Spectra \cup Sizes \cup Blocks \cup Detections \cup Boxes \cup Ladders \cup Probes
MCMaximaCount == {0, 1, 40, 41}

MCEntropyBits ==
  {[s \in Source |-> CASE s = 0 -> w [] s = 1 -> l [] s = 5 -> t [] s = 6 -> 6 [] OTHER -> 1] :
     w \in {0, 8, 30}, l \in {0, 8, 30}, t \in {3, 20}}
  \cup {[s \in Source |-> 0], [s \in Source |-> 4]}
MCOwnStrategies ==
  {[name |-> "Balanced", sources |-> [s \in 1 .. 11 |-> s - 1], weights |-> w, total |-> 10] :
     w \in {<<>>, <<5>>, <<5, 0, 3>>, <<8, 7>>, [k \in 1 .. 12 |-> k % 3]}}
==============================================================================
