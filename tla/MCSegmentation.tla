--------------------------- MODULE MCSegmentation ----------------------------
(* Segmentation on short inputs: the three presets as they are (8 s chunks,  *)
(* hops of 4, 2 and 1 s), segments of a few seconds.                        *)
EXTENDS Segmentation

MCStems   == {"speech", "music"}
MCHops    == {4, 2, 1}
MCSteps   == {3, 4, 8}
MCMargins == {7, 8, 12}
MCBatches == {4, 50}
MCWants   == {<<"speech", "music">>, <<"music", "music">>, <<"vocals">>}
MCLengths == {0, 1, 7, 12, 16, 21, 30}
=============================================================================
