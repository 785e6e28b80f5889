------------------------------ MODULE MCSelftest ------------------------------
(***************************************************************************)
(* Three runs over two temp directories, in every assignment, with or      *)
(* without a file left behind in one of them, for a sound engine and for   *)
(* engines that break one promise each.  Runs are interchangeable, and so  *)
(* are the directories.                                                    *)
(***************************************************************************)
EXTENDS Selftest, TLC
CONSTANTS a, b, c, tmp, own

SoundEngine ==
  [ch \in Checks |->
     CASE ch \in {"distinct_images_distinct_keys", "single_pixel_sensitivity"} -> <<"this", "that">>
       [] ch = "sniffer_rejects_mislabeled" -> <<"error", "error">>
       [] OTHER -> <<"this", "this">>]
MCEngine ==
  {SoundEngine,
   [SoundEngine EXCEPT !["key_stability"] = <<"this", "that">>],
   [SoundEngine EXCEPT !["key_stability"] = <<"this", "error">>],
   [SoundEngine EXCEPT !["analysis_determinism"] = <<"error", "error">>],
   [SoundEngine EXCEPT !["all_sources_contribute"] = <<"bad", "this">>],
   [SoundEngine EXCEPT !["distinct_images_distinct_keys"] = <<"that", "that">>],
   [SoundEngine EXCEPT !["single_pixel_sensitivity"] = <<"error", "that">>],
   [SoundEngine EXCEPT !["wavelet_reconstruction"] = <<"bad", "bad">>],
   [SoundEngine EXCEPT !["sniffer_rejects_mislabeled"] = <<"this", "this">>]}
Symmetry == {runs @@ dirs : runs \in Permutations({a, b, c}), dirs \in Permutations({tmp, own})}
==============================================================================
