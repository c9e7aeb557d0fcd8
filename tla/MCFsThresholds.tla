--------------------------- MODULE MCFsThresholds ---------------------------
(* Two volumes and rows that bound the use, the free space, or both, with  *)
(* and without bounds of the size.                                         *)
EXTENDS FsThresholds

CONSTANTS v1, v2

Row(vs, min, max, wu, hu, wm, hm) ==
  [matches |-> vs, minFSSize |-> min, maxFSSize |-> max,
   limits |-> [warnUtil |-> wu, highUtil |-> hu, warnMegs |-> wm, highMegs |-> hm]]

MCVolumes == {v1, v2}
Both   == Row({v1, v2}, 0, 0, 50, 75, 3, 2)
Small  == Row({v1}, 0, 4, 25, 60, 0, 0)
Megs   == Row({v1, v2}, 5, 0, 0, 0, 4, 1)
MCTables == {<<>>, <<Both>>, <<Small, Megs>>}
=============================================================================
